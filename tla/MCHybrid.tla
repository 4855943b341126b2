------------------------------ MODULE MCHybrid ------------------------------
(* Hybrid for TLC: the requests and the configurations, and interchangeable *)
(* connections of one protocol.                                             *)
EXTENDS Hybrid, TLC

CONSTANTS u1, u2

Symmetry == Permutations(WsConns) \cup Permutations(WtConns)

(* The IDs "0" and "1"; the claims are the numbers 0 and 1/2.               *)
Digits == [n \in {0, 1} |-> IF n = 0 THEN u2 ELSE u1]

Absent == [kind |-> "absent"]
SomeClaims ==
  [kind : {"string"}, text : {u1, None}] \cup [kind : {"number"}, halves : {0, 1}]
    \cup {Absent, [kind |-> "other"]}

(* A claim in two of the fields.                                            *)
TwoClaims ==
  {[f \in {"sub", "user_id", "UserId", "userId", "uid"} |->
      CASE f = "sub" -> p [] f = "userId" -> q [] OTHER -> Absent] : p, q \in SomeClaims}

NoClaims == {[f \in {"sub", "user_id", "UserId", "userId", "uid"} |-> Absent]}

SomeRequests ==
  [envoy : {None, u1}, where : {"query"}, verified : {TRUE}, claims : TwoClaims]
    \cup [envoy : {None, u1}, where : {"header", "nowhere"}, verified : BOOLEAN, claims : NoClaims]

(* Authentication by the hybrid server, or as the application says: on both *)
(* servers, or by tokens for WebTransport alone.                            *)
Own == [given : {"nil"}, enabled : {TRUE}, ws : {TRUE}, wt : {TRUE}, source : {"query"}]
Given ==
  [given : {"envoy"}, enabled : {TRUE}, ws : {TRUE}, wt : {TRUE}, source : {"query"}]
    \cup [given : {"jwt"}, enabled : {TRUE}, ws : {FALSE}, wt : {TRUE}, source : {"query"}]
SomeSettings == Own \cup Given

(* Authentication by tokens on both servers.                                *)
ByToken == [given : {"jwt"}, enabled : {TRUE}, ws : {TRUE}, wt : {TRUE}, source : {"query"}]

(* The default of conf.Ws and conf.Wt.                                      *)
Defaults == [given : {"nil"}, enabled : {TRUE}, ws : {FALSE}, wt : {FALSE}, source : {"query"}]
=============================================================================
