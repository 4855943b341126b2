------------------------------ MODULE Assembly ------------------------------
(***************************************************************************)
(* The life of a hybrid server: NewServer of hybrid/server.go with the      *)
(* WebTransport server and its certificate files (wt/server.go,             *)
(* wt/config.go), Start, the negotiations that follow (Fallback) and Stop.  *)
(*                                                                          *)
(* The ServiceGroup of go-zero runs the Start of every service added to it, *)
(* and once, on its Stop or when the process is told to shut down, the Stop *)
(* of every service, each in a goroutine of its own.                        *)
(***************************************************************************)
EXTENDS Fallback

CONSTANTS
  Confs  \* the configurations: protocol, strategy, and where the certificate
         \* and the key come from: "env", "file" or "none"

ASSUME ConfsAssumption ==
  Confs \subseteq [protocol : {"websocket", "webtransport", "auto"},
                   strategy : {"none", "auto", "timeout", "error"},
                   cert : {"env", "file", "none"}, key : {"env", "file", "none"}]

Services == {"ws", "wt"}

VARIABLES
  stage,      \* how far NewServer is
  files,      \* the temporary files on the disk, by what they hold
  tempFiles,  \* conf.tempFiles of the WebTransport server, or of the copy of
              \* the configuration that NewServer works on
  added,      \* s.group: the services added to it
  ended,      \* its Stop was called, and so was that of every service added
  once,       \* s.once: Stop was called
  run,        \* where the Start of a service is
  stopping,   \* the services whose Stop is called and has not returned
  crashed     \* a goroutine panicked

disk == <<files, tempFiles>>
group == <<added, ended, once, run, stopping, crashed>>
vars == <<server, fallbackVars, stage, disk, group>>

(* The temporary files that are known are removed.                          *)
Cleanup ==
  /\ files' = files \ tempFiles
  /\ tempFiles' = {}

-----------------------------------------------------------------------------
(* Mistakes in this code that the properties below exclude.                 *)

(* NewServer removes the files once the certificate is loaded.              *)
LoadX509KeyPairCleans(ok) ==
  /\ stage = "load"
  /\ Cleanup
  /\ wtServer' = ok
  /\ stage' = "built"
  /\ UNCHANGED <<conf, fallbackVars, group>>

(* Stop does not remove the files.                                          *)
WtStopKeeps ==
  /\ "wt" \in stopping
  /\ run' = [run EXCEPT !["wt"] = "over"]
  /\ stopping' = stopping \ {"wt"}
  /\ UNCHANGED <<server, fallbackVars, stage, disk, added, ended, once, crashed>>

-----------------------------------------------------------------------------
(* NewServer.  An error of wt.NewServer is logged, and the hybrid server    *)
(* does without; conf is passed by value, so that its tempFiles are gone.   *)

NewServer ==
  /\ stage = "new"
  /\ stage' = IF conf.protocol # "websocket" /\ conf.cert # "none" THEN "cert" ELSE "built"
  /\ UNCHANGED <<server, fallbackVars, disk, group>>

WtFails ==
  /\ stage' = "built"
  /\ tempFiles' = {}
  /\ UNCHANGED <<server, fallbackVars, files, group>>

(* writeTempFile leaves a file, or none when one of its steps fails.        *)
Resolve(what, source, next) ==
  /\ stage = what
  /\ \/ /\ source # "none"
        /\ stage' = next
        /\ IF source = "env"
           THEN files' = files \cup {what} /\ tempFiles' = tempFiles \cup {what}
           ELSE UNCHANGED disk
        /\ UNCHANGED <<server, fallbackVars, group>>
     \/ source # "file" /\ WtFails

resolveCertFile == Resolve("cert", conf.cert, "key")
resolveKeyFile == Resolve("key", conf.key, "load")

LoadX509KeyPair(ok) ==
  /\ stage = "load"
  /\ IF ok THEN /\ wtServer' = TRUE
                /\ stage' = "built"
                /\ UNCHANGED <<conf, fallbackVars, disk, group>>
     ELSE WtFails

-----------------------------------------------------------------------------
(* Start and Stop of the hybrid server.                                     *)

Start ==
  /\ stage = "built" /\ added = {}
  /\ added' = {"ws"} \cup (IF wtServer THEN {"wt"} ELSE {})
  /\ run' = [x \in Services |-> IF x \in added' THEN "starting" ELSE "off"]
  /\ UNCHANGED <<server, fallbackVars, stage, disk, ended, once, stopping, crashed>>

(* The Stop of the ServiceGroup.                                            *)
GroupStops ==
  /\ ended' = TRUE
  /\ stopping' = IF ended THEN stopping ELSE added

Stop ==
  /\ stage = "built" /\ ~once
  /\ once' = TRUE
  /\ GroupStops
  /\ UNCHANGED <<server, fallbackVars, stage, disk, added, run, crashed>>

(* The listener that the Start of the group gave to the process.            *)
Shutdown ==
  /\ added # {} /\ ~ended
  /\ GroupStops
  /\ UNCHANGED <<server, fallbackVars, stage, disk, added, once, run, crashed>>

-----------------------------------------------------------------------------
(* The services.  The Start of the WebTransport server reads its files      *)
(* again; that of either may fail to listen, or find that Stop came first.  *)

CanServe(x) ==
  x = "wt" => \A what \in {"cert", "key"} : conf[what] = "env" => what \in files

Serve(x) ==
  /\ run[x] = "starting"
  /\ run' = [run EXCEPT ![x] = "serving"]
  /\ CanServe(x)
  /\ UNCHANGED <<server, fallbackVars, stage, disk, added, ended, once, stopping, crashed>>

ServeFails(x) ==
  /\ run[x] \in {"starting", "serving"}
  /\ run' = [run EXCEPT ![x] = "over"]
  /\ UNCHANGED <<server, fallbackVars, stage, disk, added, ended, once, stopping, crashed>>

(* Stop of the WebSocket server uses what its Start assigns.                *)
WsStop ==
  /\ "ws" \in stopping
  /\ crashed' = (run["ws"] = "starting")
  /\ run' = [run EXCEPT !["ws"] = "over"]
  /\ stopping' = stopping \ {"ws"}
  /\ UNCHANGED <<server, fallbackVars, stage, disk, added, ended, once>>

(* Stop of the WebTransport server: the connections are closed under its    *)
(* connectionsMu, it waits for the goroutines, at last Cleanup.  Nobody but *)
(* handlers and Stop takes that lock here, each for a moment: the server is *)
(* a private field of the hybrid server, whose Broadcast goes over its own  *)
(* map under its own lock.                                                  *)
WtStop ==
  /\ "wt" \in stopping
  /\ run' = [run EXCEPT !["wt"] = "over"]
  /\ stopping' = stopping \ {"wt"}
  /\ Cleanup
  /\ UNCHANGED <<server, fallbackVars, stage, added, ended, once, crashed>>

-----------------------------------------------------------------------------
Init ==
  /\ conf \in Confs
  /\ wtServer = FALSE
  /\ FallbackInit
  /\ stage = "new"
  /\ files = {} /\ tempFiles = {}
  /\ added = {} /\ ended = FALSE /\ once = FALSE
  /\ run = [x \in Services |-> "off"]
  /\ stopping = {}
  /\ crashed = FALSE

Next ==
  /\ ~crashed
  /\ \/ NewServer \/ resolveCertFile \/ resolveKeyFile
     \/ \E ok \in BOOLEAN : LoadX509KeyPair(ok)
     \/ Start \/ Stop \/ Shutdown
     \/ \E x \in Services : Serve(x) \/ ServeFails(x)
     \/ WsStop \/ WtStop
     \/ stage = "built" /\ FallbackNext /\ UNCHANGED <<stage, disk, group>>

(* A Stop that is called goes on: that of the WebSocket server takes no     *)
(* lock, that of the WebTransport server one that nobody keeps, as WtStop   *)
(* says, and both wait for others at most five seconds.  A WebTransport     *)
(* server on its own, whose Broadcast the application can call, is another  *)
(* matter: Broadcast!StopReturns.                                           *)
Spec == Init /\ [][Next]_vars /\ WF_vars(~crashed /\ WsStop) /\ WF_vars(~crashed /\ WtStop)

-----------------------------------------------------------------------------
(* Properties.                                                              *)

FromEnv == {what \in {"cert", "key"} : conf[what] = "env"}

(* The files of a WebTransport server last from NewServer to its Stop: they *)
(* are read once by NewServer and once more by Start, at any time later.    *)
FilesLast ==
  (wtServer /\ (added = {} \/ ~ended \/ "wt" \in stopping))
    => files = FromEnv /\ tempFiles = FromEnv

(* Once the Stop of the WebTransport server of a hybrid server is called no *)
(* key material stays on the disk, whatever became of its Start, unless the *)
(* process crashes.                                                         *)
FilesRemoved == ("wt" \in stopping) ~> (files = {} \/ crashed)

-----------------------------------------------------------------------------
(* What the repository says and the code does not do: TLC refutes each of   *)
(* these in the configuration that README.md gives.                         *)

(* Every temporary file is in the list of those to remove.                  *)
FilesKnown == files \subseteq tempFiles

(* After Stop no service runs.                                              *)
StopStops == once ~> (crashed \/ \A x \in Services : run[x] \in {"off", "over"})

(* Stop does not crash.                                                     *)
StopSafe == ~crashed
=============================================================================
