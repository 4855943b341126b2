---------------------------- MODULE WsConnection ----------------------------
(***************************************************************************)
(* One ws.Connection (ws/connection.go) with the two pumps that serve it    *)
(* (ws/server.go): goroutines that Send, a queue of bounded capacity,       *)
(* writePump that empties it, and every goroutine that may call Close.      *)
(*                                                                          *)
(* gorilla's Conn.WriteMessage is external: one goroutine may be inside it. *)
(* A second one shares its buffer, so either it panics, which ends the      *)
(* process because the pumps do not recover, or a frame is garbled.         *)
(***************************************************************************)
EXTENDS Integers, Sequences

CONSTANTS
  Senders,    \* goroutines of the application that call Send
  Closers,    \* goroutines of the application that call Close
  Cap,        \* the capacity of conn.send, 256
  MaxSends,   \* bound: calls of Send by all senders
  Pump,       \* writePump, as a caller of Close
  Reader,     \* readPump, as a caller of Close
  None, Ping, Bye, Junk  \* no frame, a ping, a close frame, a garbled frame

ASSUME WsConnectionAssumption ==
  /\ Cap \in Nat \ {0}
  /\ MaxSends \in Nat
  /\ {None, Ping, Bye, Junk} \cap Nat = {}
  /\ None \notin {Ping, Bye} /\ Ping # Bye
  /\ Pump # Reader /\ {Pump, Reader} \cap Closers = {}

VARIABLES
  send,      \* the channel conn.send
  done,      \* conn.done is closed
  stop,      \* s.done is closed
  socket,    \* "open", "closeSent" after a close frame, "closed"
  peerGone,  \* reading fails from now on; a write may still be taken
  pump,      \* where writePump is
  hand,      \* the frame writePump writes
  reader,    \* where readPump is
  once,      \* the goroutine inside conn.once.Do, None, or "over"
  at,        \* where a caller of Close is
  sending,   \* the message a sender is inside Send with; 0 when it is not
  calls,     \* how often Send was called; a message is the number of its call
  accepted,  \* the messages conn.send took, in order
  wire,      \* the data frames the socket took
  raced,     \* two goroutines were inside WriteMessage
  crashed    \* and one of them panicked

queue == <<send, sending, calls, accepted>>
network == <<socket, peerGone, wire, raced, crashed>>
closing == <<done, once, at>>
vars == <<queue, network, closing, stop, pump, hand, reader>>

Actors == {Pump, Reader} \cup Closers

-----------------------------------------------------------------------------
(* Mistakes in this code that the properties below exclude.                 *)

(* Send waits for room only, not for conn.done.                             *)
SendClosedNever(s) == s \in {} /\ UNCHANGED vars

(* The queue is a stack: the message that was accepted last is written      *)
(* first.                                                                   *)
TakeNewest ==
  /\ pump = "select"
  /\ send # <<>>
  /\ hand' = send[Len(send)]
  /\ send' = SubSeq(send, 1, Len(send) - 1)
  /\ pump' = "enter"
  /\ UNCHANGED <<sending, calls, accepted, network, closing, stop, reader>>

(* writePump does not wait for conn.Done().                                 *)
SeesDoneNever == FALSE /\ UNCHANGED vars

(* writePump has no deferred Close.                                         *)
WriteFailsOpen ==
  /\ pump = "write"
  /\ pump' = "return"
  /\ hand' = None
  /\ UNCHANGED <<queue, network, closing, stop, reader>>

-----------------------------------------------------------------------------
(* Send: a select over ctx, conn.done and conn.send.  Any case that is      *)
(* ready may be taken.                                                      *)

Send(s) ==
  /\ sending[s] = 0
  /\ calls < MaxSends
  /\ calls' = calls + 1
  /\ sending' = [sending EXCEPT ![s] = calls']
  /\ UNCHANGED <<send, accepted, network, closing, stop, pump, hand, reader>>

SendAccepted(s) ==
  /\ sending[s] # 0
  /\ Len(send) < Cap
  /\ send' = Append(send, sending[s])
  /\ accepted' = Append(accepted, sending[s])
  /\ sending' = [sending EXCEPT ![s] = 0]
  /\ UNCHANGED <<calls, network, closing, stop, pump, hand, reader>>

SendClosed(s) ==
  /\ sending[s] # 0
  /\ done
  /\ sending' = [sending EXCEPT ![s] = 0]
  /\ UNCHANGED <<send, calls, accepted, network, closing, stop, pump, hand, reader>>

SendCancelled(s) ==
  /\ sending[s] # 0
  /\ sending' = [sending EXCEPT ![s] = 0]
  /\ UNCHANGED <<send, calls, accepted, network, closing, stop, pump, hand, reader>>

-----------------------------------------------------------------------------
(* WriteMessage of the library.                                             *)

Inside == {a \in Actors : at[a] = "frame"} \cup (IF pump = "write" THEN {Pump} ELSE {})

EnterWrite ==
  IF Inside = {} THEN UNCHANGED <<raced, crashed>>
  ELSE raced' = TRUE /\ crashed' \in BOOLEAN

(* What the socket takes when the frame f is written.                       *)
Written(f) ==
  \/ /\ f \notin {Ping, Bye}
     /\ wire' = Append(wire, f)
     /\ UNCHANGED socket
  \/ /\ raced
     /\ f \notin {Ping, Bye}
     /\ wire' = Append(wire, Junk)
     /\ UNCHANGED socket
  \/ f = Ping /\ UNCHANGED <<wire, socket>>
  \/ f = Bye /\ socket' = "closeSent" /\ UNCHANGED wire

-----------------------------------------------------------------------------
(* Close: the first caller does the work inside once.Do, the others wait.   *)

CloseFirst(a) ==
  /\ at[a] = "once"
  /\ once = None
  /\ once' = a
  /\ done' = TRUE
  /\ at' = [at EXCEPT ![a] = "enter"]
  /\ UNCHANGED <<queue, network, stop, pump, hand, reader>>

CloseEnters(a) ==
  /\ at[a] = "enter"
  /\ EnterWrite
  /\ at' = [at EXCEPT ![a] = "frame"]
  /\ UNCHANGED <<queue, socket, peerGone, wire, done, once, stop, pump, hand, reader>>

CloseFrame(a) ==
  /\ at[a] = "frame"
  /\ \/ socket = "open" /\ Written(Bye)
     \/ UNCHANGED <<socket, wire>>  \* the error of WriteMessage is ignored
  /\ at' = [at EXCEPT ![a] = "shut"]
  /\ UNCHANGED <<queue, peerGone, raced, crashed, done, once, stop, pump, hand, reader>>

CloseSocket(a) ==
  /\ at[a] = "shut"
  /\ socket' = "closed"
  /\ once' = "over"
  /\ at' = [at EXCEPT ![a] = "out"]
  /\ UNCHANGED <<queue, peerGone, wire, raced, crashed, done, stop, pump, hand, reader>>

CloseAgain(a) ==
  /\ at[a] = "once"
  /\ once = "over"
  /\ at' = [at EXCEPT ![a] = "out"]
  /\ UNCHANGED <<queue, network, done, once, stop, pump, hand, reader>>

AppCloses(a) ==
  /\ a \in Closers
  /\ at[a] = "no"
  /\ at' = [at EXCEPT ![a] = "once"]
  /\ UNCHANGED <<queue, network, done, once, stop, pump, hand, reader>>

-----------------------------------------------------------------------------
(* The pumps, from the return of OnConnect on.                              *)

StartPumps ==
  /\ pump = "off"
  /\ pump' = "select"
  /\ reader' = "read"
  /\ UNCHANGED <<queue, network, closing, stop, hand>>

TakeMessage ==
  /\ pump = "select"
  /\ send # <<>>
  /\ hand' = Head(send)
  /\ send' = Tail(send)
  /\ pump' = "enter"
  /\ UNCHANGED <<sending, calls, accepted, network, closing, stop, reader>>

TickerPings ==
  /\ pump = "select"
  /\ hand' = Ping
  /\ pump' = "enter"
  /\ UNCHANGED <<queue, network, closing, stop, reader>>

SeesStop ==
  /\ pump = "select"
  /\ stop
  /\ hand' = Bye
  /\ pump' = "enter"
  /\ UNCHANGED <<queue, network, closing, stop, reader>>

(* writePump leaves its loop and its deferred function calls Close.         *)
PumpReturns ==
  /\ pump' = "return"
  /\ at' = [at EXCEPT ![Pump] = "once"]
  /\ hand' = None
  /\ UNCHANGED <<done, once>>

SeesDone ==
  /\ pump = "select"
  /\ done
  /\ PumpReturns
  /\ UNCHANGED <<queue, network, stop, reader>>

PumpEnters ==
  /\ pump = "enter"
  /\ EnterWrite
  /\ pump' = "write"
  /\ UNCHANGED <<queue, socket, peerGone, wire, closing, stop, hand, reader>>

WriteSucceeds ==
  /\ pump = "write"
  /\ socket = "open"
  /\ Written(hand)
  /\ IF hand = Bye THEN PumpReturns
     ELSE pump' = "select" /\ hand' = None /\ UNCHANGED closing
  /\ UNCHANGED <<queue, peerGone, raced, crashed, stop, reader>>

(* The peer is gone, the socket closed, or WriteTimeout passed.             *)
WriteFails ==
  /\ pump = "write"
  /\ PumpReturns
  /\ UNCHANGED <<queue, network, stop, reader>>

ReadFails ==
  /\ reader = "read"
  /\ peerGone \/ socket = "closed"
  /\ reader' = "return"
  /\ at' = [at EXCEPT ![Reader] = "once"]
  /\ UNCHANGED <<queue, network, done, once, stop, pump, hand>>

PeerLeaves ==
  /\ ~peerGone
  /\ peerGone' = TRUE
  /\ UNCHANGED <<queue, socket, wire, raced, crashed, closing, stop, pump, hand, reader>>

Stop ==
  /\ ~stop
  /\ stop' = TRUE
  /\ UNCHANGED <<queue, network, closing, pump, hand, reader>>

-----------------------------------------------------------------------------
Init ==
  /\ send = <<>> /\ accepted = <<>> /\ wire = <<>>
  /\ sending = [s \in Senders |-> 0]
  /\ calls = 0
  /\ done = FALSE /\ stop = FALSE /\ peerGone = FALSE
  /\ raced = FALSE /\ crashed = FALSE
  /\ socket = "open"
  /\ pump = "off" /\ hand = None /\ reader = "off"
  /\ once = None
  /\ at = [a \in Actors |-> "no"]

CloseStep(a) == CloseFirst(a) \/ CloseEnters(a) \/ CloseFrame(a) \/ CloseSocket(a) \/ CloseAgain(a)

PumpStep ==
  StartPumps \/ TakeMessage \/ SeesStop \/ SeesDone \/ PumpEnters \/ WriteSucceeds \/ WriteFails

Next ==
  /\ ~crashed
  /\ \/ \E s \in Senders : Send(s) \/ SendAccepted(s) \/ SendClosed(s) \/ SendCancelled(s)
     \/ \E a \in Actors : CloseStep(a) \/ AppCloses(a)
     \/ PumpStep \/ TickerPings \/ ReadFails \/ PeerLeaves \/ Stop

Spec == Init /\ [][Next]_vars

(* One condition per goroutine: it goes on when it can, OnConnect returns,  *)
(* and a write ends (the write deadline).  The pump's select takes a case   *)
(* that is ready again and again, so the ticker does not starve the queue.  *)
Fairness ==
  /\ SF_vars(~crashed /\ (TakeMessage \/ SeesStop \/ SeesDone))
  /\ WF_vars(~crashed /\ (StartPumps \/ PumpEnters \/ WriteSucceeds \/ WriteFails \/ CloseStep(Pump)))
  /\ WF_vars(~crashed /\ (ReadFails \/ CloseStep(Reader)))
  /\ \A a \in Closers : WF_vars(~crashed /\ CloseStep(a))
  /\ \A s \in Senders : SF_vars(~crashed /\ (SendAccepted(s) \/ SendClosed(s)))

FairSpec == Spec /\ Fairness

-----------------------------------------------------------------------------
(* Properties.                                                              *)

Messages == 1 .. MaxSends

(* Every variable holds what its Go type and its comment above allow; the   *)
(* queue stays within the capacity of the channel.                          *)
TypeOK ==
  /\ send \in Seq(Messages) /\ Len(send) <= Cap
  /\ accepted \in Seq(Messages)
  /\ wire \in Seq(Messages \cup {Junk})
  /\ sending \in [Senders -> Messages \cup {0}]
  /\ calls \in 0 .. MaxSends
  /\ {done, stop, peerGone, raced, crashed} \subseteq BOOLEAN
  /\ socket \in {"open", "closeSent", "closed"}
  /\ pump \in {"off", "select", "enter", "write", "return"}
  /\ hand \in Messages \cup {None, Ping, Bye}
  /\ reader \in {"off", "read", "return"}
  /\ once \in Actors \cup {None, "over"}
  /\ at \in [Actors -> {"no", "once", "enter", "frame", "shut", "out"}]

(* Until two goroutines race in WriteMessage, what the peer got and what is *)
(* left in the queue are the accepted messages in their order, with at most *)
(* the message in the pump's hand, or lost by its last write, in between.   *)
InOrder ==
  /\ TypeOK
  /\ ~raced =>
       /\ Len(wire) + Len(send) \in Len(accepted) - 1 .. Len(accepted)
       /\ wire = SubSeq(accepted, 1, Len(wire))
       /\ send = SubSeq(accepted, Len(accepted) - Len(send) + 1, Len(accepted))

(* A call of Send returns: the pump makes room or the connection closes.    *)
SendReturns == \A s \in Senders : (sending[s] # 0) ~> (sending[s] = 0 \/ crashed)

(* A message that Send accepted is written, or the connection was closed,   *)
(* by somebody, by Stop or because the peer left.                           *)
AcceptedIsWritten ==
  \A n \in 1 .. MaxSends :
    (Len(accepted) >= n) ~> (Len(wire) >= n \/ done \/ crashed)

(* As soon as anybody calls Close, both pumps come to their end, and every  *)
(* goroutine that called Close gets out of it.                              *)
CloseReturns ==
  (\E a \in Actors : at[a] = "once")
    ~> \/ /\ at[Pump] = "out" /\ at[Reader] = "out"
          /\ \A a \in Closers : at[a] \in {"no", "out"}
       \/ crashed

-----------------------------------------------------------------------------
(* What the repository says and the code does not do: TLC refutes each of   *)
(* these in the configuration that README.md gives.                         *)

(* One goroutine at a time writes to the socket.                            *)
SingleWriter == ~raced
=============================================================================
