--------------------------- MODULE Authenticator ----------------------------
(***************************************************************************)
(* The authenticators of hybrid/authenticator.go and internal/protocol:     *)
(* which user ID the request of a connection yields.                        *)
(*                                                                          *)
(* A request has the value of the header that Envoy sets, "" for none, and  *)
(* a token in the query, in a header (the prefix "Bearer " is taken off) or *)
(* in a cookie.  A token is verified, that is HMAC-signed with the secret   *)
(* and not expired, or it is not, and has a claim per field: absent, a      *)
(* string, a number in halves, or something else.                           *)
(***************************************************************************)
EXTENDS Naturals

CONSTANTS
  Users,    \* the user IDs other than ""
  None,     \* the user ID ""
  Error,    \* an authenticator returned an error
  Decimal   \* the decimal notation of a natural number, a user ID

ASSUME AuthenticatorAssumption ==
  /\ {None, Error} \cap Users = {} /\ None # Error
  /\ DOMAIN Decimal \subseteq Nat /\ Decimal \in [DOMAIN Decimal -> Users]

Field == <<"sub", "user_id", "UserId", "userId", "uid">>

(* A claim of a token, and what a request carries.                          *)
Claim ==
  [kind : {"string"}, text : Users \cup {None}]
    \cup [kind : {"number"}, halves : {h \in Nat : h \div 2 \in DOMAIN Decimal}]
    \cup [kind : {"absent", "other"}]

Carried ==
  [envoy : Users \cup {None}, where : {"query", "header", "cookie", "nowhere"},
   verified : BOOLEAN, claims : [{Field[i] : i \in 1 .. 5} -> Claim]]

-----------------------------------------------------------------------------
(* A mistake in this code that the properties exclude: a string is taken    *)
(* as it is, also when it is empty.                                         *)
ClaimedIDBlank(claim) ==
  CASE claim.kind = "string" -> claim.text
    [] claim.kind = "number" -> Decimal[claim.halves \div 2]
    [] OTHER -> Error

-----------------------------------------------------------------------------
(* The token of a request; "" is no token.                                  *)
HasToken(req, source) == req.where = source

(* The user ID in a claim, Error when the loop goes on to the next field.   *)
ClaimedID(claim) ==
  CASE claim.kind = "string" -> IF claim.text = None THEN Error ELSE claim.text
    [] claim.kind = "number" -> Decimal[claim.halves \div 2]
    [] OTHER -> Error

(* The loop over the fields, from the i-th on.                              *)
firstClaim(claims) ==
  LET loop[i \in 1 .. 6] ==
        IF i = 6 THEN Error
        ELSE IF ClaimedID(claims[Field[i]]) # Error THEN ClaimedID(claims[Field[i]])
        ELSE loop[i + 1]
  IN  loop[1]

authenticateJWT(req, source) ==
  IF HasToken(req, source) /\ req.verified THEN firstClaim(req.claims) ELSE Error

authenticateFromEnvoy(req) == IF req.envoy = None THEN Error ELSE req.envoy

(* HybridAuthenticator.                                                     *)
HybridAuthenticate(protocol, req, source) ==
  IF protocol = "ws" THEN authenticateFromEnvoy(req) ELSE authenticateJWT(req, source)

(* JWTAuthenticator: the string in "sub", empty or not.                     *)
JWTAuthenticate(req, source) ==
  IF HasToken(req, source) /\ req.verified /\ req.claims["sub"].kind = "string"
  THEN req.claims["sub"].text ELSE Error

(* EnvoyHeaderAuthenticator.                                                *)
EnvoyAuthenticate(req) == authenticateFromEnvoy(req)

(* NoOpAuthenticator.                                                       *)
NoOpAuthenticate(req) == None

Authenticate(authenticator, protocol, req, source) ==
  CASE authenticator = "hybrid" -> HybridAuthenticate(protocol, req, source)
    [] authenticator = "jwt" -> JWTAuthenticate(req, source)
    [] authenticator = "envoy" -> EnvoyAuthenticate(req)
    [] authenticator = "noop" -> NoOpAuthenticate(req)

-----------------------------------------------------------------------------
(* Reference: the user that a request to the hybrid server stands for.  A   *)
(* number stands for the user of the largest integer that it is not below.  *)

WholePart(halves) == CHOOSE n \in DOMAIN Decimal : 2 * n <= halves /\ halves < 2 * (n + 1)

Names(claim) == claim.kind = "number" \/ (claim.kind = "string" /\ claim.text # None)

UserOf(protocol, req, source) ==
  LET named == {i \in 1 .. 5 : Names(req.claims[Field[i]])}
      first == req.claims[Field[CHOOSE i \in named : \A j \in named : i <= j]]
  IN  IF protocol = "ws" THEN req.envoy
      ELSE IF req.where # source \/ ~req.verified \/ named = {} THEN None
      ELSE IF first.kind = "string" THEN first.text ELSE Decimal[WholePart(first.halves)]
=============================================================================
