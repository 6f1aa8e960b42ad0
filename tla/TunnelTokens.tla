---------------------------- MODULE TunnelTokens ----------------------------
(***************************************************************************)
(* The access token of a tunnel.  The row keeps the hash of the last one   *)
(* stored; control-api keeps the last one it minted in memory             *)
(* (issuedTunnelTokens), hands that one out again when asked, and mints    *)
(* one when it has none, or when asked to rotate.                          *)
(*                                                                         *)
(* One tunnel.  A token is its place in the order of minting; 0 is none.   *)
(* Each await of a request is a step boundary.                             *)
(***************************************************************************)
EXTENDS Integers, FiniteSets

CONSTANTS
  TokenRequests,  \* calls of issue-token and rotate-token
  MaxTokens,      \* bound on the tokens minted
  MaxFailures     \* bound on database errors and restarts

VARIABLES
  hashed,      \* the token whose hash is on the row; 0 when there is no row
  life,        \* the tunnel: "none", "open", "closed" (its status), "deleted"
  issued,      \* issuedTunnelTokens: a token or 0
  request,     \* where each call stands
  minting,     \* the token each call has minted
  minted,      \* tokens minted so far
  given,       \* tokens that were handed out
  overlapped,  \* a token was minted while another was on its way to the row
  failures

tokenVars == <<hashed, life, issued, request, minting, minted, given, overlapped, failures>>

Stage == {"idle", "issue", "rotate", "storing", "stored", "done", "failed"}

NewToken == minted + 1
Storing == {r \in TokenRequests : request[r] \in {"storing", "stored"}}

\* POST /tunnels: the row gets a token's hash; the token is answered, not cached.
OpenTunnel ==
  /\ life = "none"
  /\ life' = "open"
  /\ hashed' = NewToken /\ minted' = NewToken /\ given' = given \union {NewToken}
  /\ UNCHANGED <<issued, request, minting, overlapped, failures>>

\* A call begins: the tunnel is looked up, whatever its status.
FindTunnel(r, kind) ==
  /\ request[r] = "idle"
  /\ life # "none"
  /\ request' = [request EXCEPT ![r] = IF life = "deleted" THEN "failed" ELSE kind]
  /\ UNCHANGED <<hashed, life, issued, minting, minted, given, overlapped, failures>>

Mint(r) ==
  /\ minted < MaxTokens
  /\ minted' = NewToken
  /\ minting' = [minting EXCEPT ![r] = NewToken]
  /\ request' = [request EXCEPT ![r] = "storing"]
  /\ overlapped' = (overlapped \/ Storing # {})

\* Mutant: the token is cached before the row has its hash.
StartMintCached(r) == Mint(r) /\ issued' = NewToken

StartMint(r) == Mint(r) /\ UNCHANGED issued

\* The next step of the call: the cached token again, or a new one.
IssueToken(r) ==
  /\ request[r] = "issue"
  /\ \/ /\ issued # 0
        /\ given' = given \union {issued}
        /\ request' = [request EXCEPT ![r] = "done"]
        /\ UNCHANGED <<issued, minting, minted, overlapped>>
     \/ issued = 0 /\ StartMint(r) /\ UNCHANGED given
  /\ UNCHANGED <<hashed, life, failures>>

RotateToken(r) ==
  /\ request[r] = "rotate"
  /\ StartMint(r)
  /\ UNCHANGED <<hashed, life, given, failures>>

\* The UPDATE of mintTunnelToken; it finds no row once the tunnel is deleted.
UpdateTunnelToken(r) ==
  /\ request[r] = "storing"
  /\ request' = [request EXCEPT ![r] = "stored"]
  /\ hashed' = IF life = "deleted" THEN hashed ELSE minting[r]
  /\ UNCHANGED <<life, issued, minting, minted, given, overlapped, failures>>

UpdateFails(r) ==
  /\ request[r] = "storing"
  /\ failures < MaxFailures
  /\ failures' = failures + 1
  /\ request' = [request EXCEPT ![r] = "failed"]
  /\ UNCHANGED <<hashed, life, issued, minting, minted, given, overlapped>>

\* The rest of the call, after that await.
HandOut(r) ==
  /\ request[r] = "stored"
  /\ issued' = minting[r]
  /\ given' = given \union {minting[r]}
  /\ request' = [request EXCEPT ![r] = "done"]
  /\ UNCHANGED <<hashed, life, minting, minted, overlapped, failures>>

\* closeTunnel up to its first await, then the DELETE at its end.
CloseTunnel ==
  \/ /\ life = "open"
     /\ issued' = 0
     /\ life' = "closed"
     /\ UNCHANGED <<hashed, request, minting, minted, given, overlapped, failures>>
  \/ /\ life = "closed"
     /\ life' = "deleted"
     /\ hashed' = 0
     /\ UNCHANGED <<issued, request, minting, minted, given, overlapped, failures>>

\* control-api restarts: its memory and the calls it was answering are gone.
RestartControl ==
  /\ failures < MaxFailures
  /\ failures' = failures + 1
  /\ issued' = 0
  /\ request' = [r \in TokenRequests |-> IF request[r] \in {"idle", "done"} THEN request[r]
                                                                        ELSE "failed"]
  /\ UNCHANGED <<hashed, life, minting, minted, given, overlapped>>

\* What the proxy and the upgrade route ask of the token a request carries.
Admits(token) == life = "open" /\ token # 0 /\ token = hashed

Init ==
  /\ hashed = 0 /\ life = "none" /\ issued = 0 /\ minted = 0 /\ given = {}
  /\ request = [r \in TokenRequests |-> "idle"]
  /\ minting = [r \in TokenRequests |-> 0]
  /\ overlapped = FALSE /\ failures = 0

Next ==
  \/ OpenTunnel \/ CloseTunnel \/ RestartControl
  \/ \E r \in TokenRequests :
       \/ FindTunnel(r, "issue") \/ FindTunnel(r, "rotate")
       \/ IssueToken(r) \/ RotateToken(r)
       \/ UpdateTunnelToken(r) \/ UpdateFails(r) \/ HandOut(r)

Spec == Init /\ [][Next]_tokenVars

-----------------------------------------------------------------------------
TypeOK ==
  /\ {hashed, issued} \subseteq 0 .. MaxTokens /\ minted \in 0 .. MaxTokens
  /\ life \in {"none", "open", "closed", "deleted"}
  /\ request \in [TokenRequests -> Stage]
  /\ minting \in [TokenRequests -> 0 .. MaxTokens]
  /\ given \subseteq 1 .. MaxTokens
  /\ overlapped \in BOOLEAN /\ failures \in 0 .. MaxFailures

\* The token control-api hands out again and again is admitted by the tunnel while
\* no call is changing it: a database error or a restart between the two places it
\* is kept in does not part them.  The exception is two calls that mint at the same
\* time: the row may keep one token and the memory of control-api the other.
CachedTokenWorks ==
  (issued # 0 /\ life = "open" /\ Storing = {} /\ ~overlapped) => Admits(issued)
=============================================================================
