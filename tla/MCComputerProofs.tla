-------------------------- MODULE MCComputerProofs --------------------------
(***************************************************************************)
(* What is proved of what runs on the computer: an inductive invariant of  *)
(* the tunnel's tokens, of the end-to-end channel, of the session file, of *)
(* the terminal sessions and of the tunnels, one part of this module for   *)
(* each, and at the end that the properties proved of the components, here *)
(* and in modules of their own, hold of all of them together: a behaviour  *)
(* of MCComputer is one of each component.                                 *)
(***************************************************************************)
EXTENDS MCComputer, SequenceTheorems, FiniteSetTheorems, TLAPS

-----------------------------------------------------------------------------
(* The tokens of a tunnel.                                                  *)

\* Before the tunnel is opened no token is minted, cached or on its way.
NothingBefore ==
  life = "none" =>
    minted = 0 /\ tokenIssued = 0 /\ \A r \in TokenRequests : request[r] = "idle"

\* Tokens on their way to the row are one at a time,
OneAtATime == ~overlapped => \A r, q \in Token!Storing : r = q

\* each of them was minted,
MintedToken == \A r \in Token!Storing : minting[r] # 0

\* the row has what a call has stored until it answers,
StoredIsHashed ==
  ~overlapped /\ life = "open" =>
    \A r \in TokenRequests : request[r] = "stored" => hashed = minting[r]

\* and until a call has stored another token the row has the cached one.
CachedIsHashed ==
  /\ ~overlapped /\ life = "open" /\ tokenIssued # 0
  /\ \A r \in TokenRequests : request[r] # "stored"
  => hashed = tokenIssued

TokensInv ==
  Token!TypeOK /\ NothingBefore /\ OneAtATime /\ MintedToken /\ StoredIsHashed /\ CachedIsHashed

-----------------------------------------------------------------------------
\* The start.
LEMMA InitTokensInv ==
  ASSUME MaxTokens \in Nat \ {0}, Token!Init
  PROVE  TokensInv
<1>1. Token!TypeOK
  <2>1. {hashed, tokenIssued} \subseteq 0 .. MaxTokens /\ given \subseteq 1 .. MaxTokens
    BY DEF Token!Init
  <2>2. minted \in 0 .. MaxTokens /\ failures \in 0 .. 2
    BY DEF Token!Init
  <2>3. /\ request \in [TokenRequests -> Token!Stage]
        /\ minting \in [TokenRequests -> 0 .. MaxTokens]
    BY DEF Token!Init, Token!Stage
  <2>4. life \in {"none", "open", "closed", "deleted"} /\ overlapped \in BOOLEAN
    BY DEF Token!Init
  <2> QED
    BY <2>1, <2>2, <2>3, <2>4 DEF Token!TypeOK
<1>2. NothingBefore /\ OneAtATime /\ MintedToken /\ StoredIsHashed /\ CachedIsHashed
  BY DEF Token!Init, NothingBefore, OneAtATime, MintedToken, Token!Storing, StoredIsHashed,
     CachedIsHashed
<1> QED
  BY <1>1, <1>2 DEF TokensInv

\* Opening the tunnel keeps the invariant: nothing was there before.
LEMMA OpenTunnelKeeps ==
  ASSUME MaxTokens \in Nat \ {0}, TokensInv,
         Token!OpenTunnel
  PROVE  TokensInv'
<1> USE DEF TokensInv, Token!OpenTunnel, Token!Stage, Token!NewToken
<1>1. Token!TypeOK'
  <2>1. /\ hashed' \in 0 .. MaxTokens /\ tokenIssued' \in 0 .. MaxTokens
        /\ minted' \in 0 .. MaxTokens
    BY DEF Token!TypeOK, NothingBefore
  <2>2. /\ request' \in [TokenRequests -> Token!Stage]
        /\ minting' \in [TokenRequests -> 0 .. MaxTokens]
    BY DEF Token!TypeOK
  <2>3. given' \subseteq 1 .. MaxTokens
    BY DEF Token!TypeOK, NothingBefore
  <2>4. /\ life' \in {"none", "open", "closed", "deleted"}
        /\ overlapped' \in BOOLEAN /\ failures' \in 0 .. 2
    BY DEF Token!TypeOK
  <2> QED
    BY <2>1, <2>2, <2>3, <2>4 DEF Token!TypeOK
<1>2. NothingBefore'
  BY DEF Token!TypeOK, NothingBefore
<1>3. OneAtATime'
  BY DEF Token!TypeOK, NothingBefore, OneAtATime, Token!Storing
<1>4. StoredIsHashed'
  BY DEF Token!TypeOK, NothingBefore, OneAtATime, Token!Storing, StoredIsHashed
<1>5. CachedIsHashed'
  BY DEF Token!TypeOK, NothingBefore, OneAtATime, Token!Storing, StoredIsHashed, CachedIsHashed
<1>6. MintedToken'
  BY DEF Token!TypeOK, MintedToken, Token!Storing
<1> QED
  BY <1>1, <1>2, <1>3, <1>4, <1>5, <1>6

\* So does a call that begins.
LEMMA FindKeeps ==
  ASSUME MaxTokens \in Nat \ {0}, TokensInv,
         NEW r \in TokenRequests, NEW kind \in {"issue", "rotate"}, Token!FindTunnel(r, kind)
  PROVE  TokensInv'
<1> USE DEF TokensInv, Token!FindTunnel, Token!Stage, Token!NewToken
<1>1. Token!TypeOK'
  BY DEF Token!TypeOK
<1>2. NothingBefore'
  BY DEF Token!TypeOK, NothingBefore
<1>3. OneAtATime'
  BY DEF Token!TypeOK, NothingBefore, OneAtATime, Token!Storing
<1>4. StoredIsHashed'
  BY DEF Token!TypeOK, NothingBefore, OneAtATime, Token!Storing, StoredIsHashed
<1>5. CachedIsHashed'
  BY DEF Token!TypeOK, NothingBefore, OneAtATime, Token!Storing, StoredIsHashed, CachedIsHashed
<1>6. MintedToken'
  BY DEF Token!TypeOK, MintedToken, Token!Storing
<1> QED
  BY <1>1, <1>2, <1>3, <1>4, <1>5, <1>6

\* A token that is minted has no other beside it on its way, or is known to overlap.
LEMMA IssueKeeps ==
  ASSUME MaxTokens \in Nat \ {0}, TokensInv,
         NEW r \in TokenRequests, Token!IssueToken(r)
  PROVE  TokensInv'
<1> USE DEF TokensInv, Token!IssueToken, Token!Mint, Token!StartMint, Token!Stage,
            Token!NewToken
<1>1. Token!TypeOK'
  <2>1. /\ hashed' \in 0 .. MaxTokens /\ tokenIssued' \in 0 .. MaxTokens
        /\ minted' \in 0 .. MaxTokens
    BY DEF Token!TypeOK, NothingBefore
  <2>2. /\ request' \in [TokenRequests -> Token!Stage]
        /\ minting' \in [TokenRequests -> 0 .. MaxTokens]
    BY DEF Token!TypeOK
  <2>3. given' \subseteq 1 .. MaxTokens
    <3>1. tokenIssued # 0 => tokenIssued \in 1 .. MaxTokens
      BY DEF Token!TypeOK
    <3> QED
      BY <3>1 DEF Token!TypeOK
  <2>4. /\ life' \in {"none", "open", "closed", "deleted"}
        /\ overlapped' \in BOOLEAN /\ failures' \in 0 .. 2
    BY DEF Token!TypeOK
  <2> QED
    BY <2>1, <2>2, <2>3, <2>4 DEF Token!TypeOK
<1>2. NothingBefore'
  BY DEF Token!TypeOK, NothingBefore
<1>3. OneAtATime'
  BY DEF Token!TypeOK, NothingBefore, OneAtATime, Token!Storing
<1>4. StoredIsHashed'
  BY DEF Token!TypeOK, NothingBefore, OneAtATime, Token!Storing, StoredIsHashed
<1>5. CachedIsHashed'
  BY DEF Token!TypeOK, NothingBefore, OneAtATime, Token!Storing, StoredIsHashed, CachedIsHashed
<1>6. MintedToken'
  BY DEF Token!TypeOK, MintedToken, Token!Storing
<1> QED
  BY <1>1, <1>2, <1>3, <1>4, <1>5, <1>6

\* The same of a call that rotates.
LEMMA RotateKeeps ==
  ASSUME MaxTokens \in Nat \ {0}, TokensInv,
         NEW r \in TokenRequests, Token!RotateToken(r)
  PROVE  TokensInv'
<1> USE DEF TokensInv, Token!RotateToken, Token!Mint, Token!StartMint, Token!Stage,
            Token!NewToken
<1>1. Token!TypeOK'
  <2>1. /\ hashed' \in 0 .. MaxTokens /\ tokenIssued' \in 0 .. MaxTokens
        /\ minted' \in 0 .. MaxTokens
    BY DEF Token!TypeOK, NothingBefore
  <2>2. /\ request' \in [TokenRequests -> Token!Stage]
        /\ minting' \in [TokenRequests -> 0 .. MaxTokens]
    BY DEF Token!TypeOK
  <2>3. given' \subseteq 1 .. MaxTokens
    BY DEF Token!TypeOK, NothingBefore
  <2>4. /\ life' \in {"none", "open", "closed", "deleted"}
        /\ overlapped' \in BOOLEAN /\ failures' \in 0 .. 2
    BY DEF Token!TypeOK
  <2> QED
    BY <2>1, <2>2, <2>3, <2>4 DEF Token!TypeOK
<1>2. NothingBefore'
  BY DEF Token!TypeOK, NothingBefore
<1>3. OneAtATime'
  BY DEF Token!TypeOK, NothingBefore, OneAtATime, Token!Storing
<1>4. StoredIsHashed'
  BY DEF Token!TypeOK, NothingBefore, OneAtATime, Token!Storing, StoredIsHashed
<1>5. CachedIsHashed'
  BY DEF Token!TypeOK, NothingBefore, OneAtATime, Token!Storing, StoredIsHashed, CachedIsHashed
<1>6. MintedToken'
  BY DEF Token!TypeOK, MintedToken, Token!Storing
<1> QED
  BY <1>1, <1>2, <1>3, <1>4, <1>5, <1>6

\* The row gets the token of the only call that stores one.
LEMMA UpdateKeeps ==
  ASSUME MaxTokens \in Nat \ {0}, TokensInv,
         NEW r \in TokenRequests, Token!UpdateTunnelToken(r)
  PROVE  TokensInv'
<1> USE DEF TokensInv, Token!UpdateTunnelToken, Token!Stage, Token!NewToken
<1>1. Token!TypeOK'
  <2>1. /\ hashed' \in 0 .. MaxTokens /\ tokenIssued' \in 0 .. MaxTokens
        /\ minted' \in 0 .. MaxTokens
    BY DEF Token!TypeOK, NothingBefore
  <2>2. /\ request' \in [TokenRequests -> Token!Stage]
        /\ minting' \in [TokenRequests -> 0 .. MaxTokens]
    BY DEF Token!TypeOK
  <2>3. given' \subseteq 1 .. MaxTokens
    BY DEF Token!TypeOK, NothingBefore
  <2>4. /\ life' \in {"none", "open", "closed", "deleted"}
        /\ overlapped' \in BOOLEAN /\ failures' \in 0 .. 2
    BY DEF Token!TypeOK
  <2> QED
    BY <2>1, <2>2, <2>3, <2>4 DEF Token!TypeOK
<1>2. NothingBefore'
  BY DEF Token!TypeOK, NothingBefore
<1>3. OneAtATime'
  BY DEF Token!TypeOK, NothingBefore, OneAtATime, Token!Storing
<1>4. StoredIsHashed'
  BY DEF Token!TypeOK, NothingBefore, OneAtATime, Token!Storing, StoredIsHashed
<1>5. CachedIsHashed'
  BY DEF Token!TypeOK, NothingBefore, OneAtATime, Token!Storing, StoredIsHashed, CachedIsHashed
<1>6. MintedToken'
  BY DEF Token!TypeOK, MintedToken, Token!Storing
<1> QED
  BY <1>1, <1>2, <1>3, <1>4, <1>5, <1>6

\* A database error leaves the row as the cache has it.
LEMMA UpdateFailsKeeps ==
  ASSUME MaxTokens \in Nat \ {0}, TokensInv,
         NEW r \in TokenRequests, Token!UpdateFails(r)
  PROVE  TokensInv'
<1> USE DEF TokensInv, Token!UpdateFails, Token!Stage, Token!NewToken
<1>1. Token!TypeOK'
  BY DEF Token!TypeOK
<1>2. NothingBefore'
  BY DEF Token!TypeOK, NothingBefore
<1>3. OneAtATime'
  BY DEF Token!TypeOK, NothingBefore, OneAtATime, Token!Storing
<1>4. StoredIsHashed'
  BY DEF Token!TypeOK, NothingBefore, OneAtATime, Token!Storing, StoredIsHashed
<1>5. CachedIsHashed'
  BY DEF Token!TypeOK, NothingBefore, OneAtATime, Token!Storing, StoredIsHashed, CachedIsHashed
<1>6. MintedToken'
  BY DEF Token!TypeOK, MintedToken, Token!Storing
<1> QED
  BY <1>1, <1>2, <1>3, <1>4, <1>5, <1>6

\* The token that is cached is the one on the row.
LEMMA HandOutKeeps ==
  ASSUME MaxTokens \in Nat \ {0}, TokensInv,
         NEW r \in TokenRequests, Token!HandOut(r)
  PROVE  TokensInv'
<1> USE DEF TokensInv, Token!HandOut, Token!Stage, Token!NewToken
<1>1. Token!TypeOK'
  <2>1. /\ hashed' \in 0 .. MaxTokens /\ tokenIssued' \in 0 .. MaxTokens
        /\ minted' \in 0 .. MaxTokens
    BY DEF Token!TypeOK, NothingBefore
  <2>2. /\ request' \in [TokenRequests -> Token!Stage]
        /\ minting' \in [TokenRequests -> 0 .. MaxTokens]
    BY DEF Token!TypeOK
  <2>3. given' \subseteq 1 .. MaxTokens
    <3>1. minting[r] \in 1 .. MaxTokens
      BY DEF Token!TypeOK, MintedToken, Token!Storing
    <3> QED
      BY <3>1 DEF Token!TypeOK
  <2>4. /\ life' \in {"none", "open", "closed", "deleted"}
        /\ overlapped' \in BOOLEAN /\ failures' \in 0 .. 2
    BY DEF Token!TypeOK
  <2> QED
    BY <2>1, <2>2, <2>3, <2>4 DEF Token!TypeOK
<1>2. NothingBefore'
  BY DEF Token!TypeOK, NothingBefore
<1>3. OneAtATime'
  BY DEF Token!TypeOK, NothingBefore, OneAtATime, Token!Storing
<1>4. StoredIsHashed'
  BY DEF Token!TypeOK, NothingBefore, OneAtATime, Token!Storing, StoredIsHashed
<1>5. CachedIsHashed'
  BY DEF Token!TypeOK, NothingBefore, OneAtATime, Token!Storing, StoredIsHashed, CachedIsHashed
<1>6. MintedToken'
  BY DEF Token!TypeOK, MintedToken, Token!Storing
<1> QED
  BY <1>1, <1>2, <1>3, <1>4, <1>5, <1>6

\* A closed tunnel admits nothing, so nothing is asked of it.
LEMMA CloseKeeps ==
  ASSUME MaxTokens \in Nat \ {0}, TokensInv,
         Token!CloseTunnel
  PROVE  TokensInv'
<1> USE DEF TokensInv, Token!CloseTunnel, Token!Stage, Token!NewToken
<1>1. Token!TypeOK'
  <2>1. hashed' \in 0 .. MaxTokens /\ tokenIssued' \in 0 .. MaxTokens
    BY DEF Token!TypeOK
  <2>2. life' \in {"none", "open", "closed", "deleted"}
    BY DEF Token!TypeOK
  <2> QED
    BY <2>1, <2>2 DEF Token!TypeOK
<1>2. NothingBefore'
  BY DEF Token!TypeOK, NothingBefore
<1>3. OneAtATime'
  BY DEF Token!TypeOK, NothingBefore, OneAtATime, Token!Storing
<1>4. StoredIsHashed'
  BY DEF Token!TypeOK, NothingBefore, OneAtATime, Token!Storing, StoredIsHashed
<1>5. CachedIsHashed'
  BY DEF Token!TypeOK, NothingBefore, OneAtATime, Token!Storing, StoredIsHashed, CachedIsHashed
<1>6. MintedToken'
  BY DEF Token!TypeOK, MintedToken, Token!Storing
<1> QED
  BY <1>1, <1>2, <1>3, <1>4, <1>5, <1>6

\* A restart leaves nothing in the cache.
LEMMA RestartKeeps ==
  ASSUME MaxTokens \in Nat \ {0}, TokensInv,
         Token!RestartControl
  PROVE  TokensInv'
<1> USE DEF TokensInv, Token!RestartControl, Token!Stage, Token!NewToken
<1>1. Token!TypeOK'
  BY DEF Token!TypeOK
<1>2. NothingBefore'
  BY DEF Token!TypeOK, NothingBefore
<1>3. OneAtATime'
  BY DEF Token!TypeOK, NothingBefore, OneAtATime, Token!Storing
<1>4. StoredIsHashed'
  BY DEF Token!TypeOK, NothingBefore, OneAtATime, Token!Storing, StoredIsHashed
<1>5. CachedIsHashed'
  BY DEF Token!TypeOK, NothingBefore, OneAtATime, Token!Storing, StoredIsHashed, CachedIsHashed
<1>6. MintedToken'
  BY DEF Token!TypeOK, MintedToken, Token!Storing
<1> QED
  BY <1>1, <1>2, <1>3, <1>4, <1>5, <1>6

\* No step breaks the invariant.
LEMMA NextKeepsTokens ==
  ASSUME MaxTokens \in Nat \ {0}, TokensInv, [Token!Next]_(Token!tokenVars)
  PROVE  TokensInv'
<1>1. CASE UNCHANGED Token!tokenVars
  BY <1>1 DEF Token!tokenVars, TokensInv, Token!TypeOK, NothingBefore, OneAtATime,
     Token!Storing, MintedToken,
              StoredIsHashed, CachedIsHashed
<1>2. CASE Token!Next
  BY <1>2, OpenTunnelKeeps, FindKeeps, IssueKeeps, RotateKeeps, UpdateKeeps, UpdateFailsKeeps,
     HandOutKeeps, CloseKeeps, RestartKeeps DEF Token!Next
<1> QED
  BY <1>1, <1>2

\* The invariant holds, of any calls.
THEOREM TokensInvariant ==
  ASSUME MaxTokens \in Nat \ {0}
  PROVE  Token!Spec => []TokensInv
<1>1. Token!Init => TokensInv
  BY InitTokensInv
<1>2. TokensInv /\ [Token!Next]_(Token!tokenVars) => TokensInv'
  BY NextKeepsTokens
<1> QED
  BY <1>1, <1>2, PTL DEF Token!Spec

\* The token that control-api hands out again works, whatever errors and restarts
\* there were, unless two tokens were on their way to the row at the same time.
THEOREM CachedTokenCorrect ==
  ASSUME MaxTokens \in Nat \ {0}
  PROVE  Token!Spec => []Token!CachedTokenWorks
<1>1. TokensInv => Token!CachedTokenWorks
  BY DEF TokensInv, CachedIsHashed, Token!CachedTokenWorks, Token!Admits, Token!Storing
<1> QED
  BY <1>1, TokensInvariant, PTL

-----------------------------------------------------------------------------
(* The envelopes of the end-to-end channel.                                 *)

ChannelBounds == MaxEnvelopes \in Nat /\ MaxScans \in Nat /\ MaxFaults \in Nat

\* The prompts that wait until their number is stored, and all envelopes there are.
Queued == {m \in Channel!Envelope : \E i \in DOMAIN phoneWrites : m \in phoneWrites[i].prompts}
Numbered == sent \union Queued

\* No two envelopes are made at once, a later one is not of an earlier scan, and in its
\* scan it has a number above those of the prompts before.
NumbersGrow ==
  \A m, n \in Numbered :
    /\ m.id = n.id => m = n
    /\ m.id < n.id => m.scan <= n.scan
    /\ (m.kind = "prompt" /\ m.scan = n.scan /\ m.id < n.id) => m.seq < n.seq

\* The phone's number is that of the last prompt of the scan, or above it, ...
PhoneCounts ==
  /\ phoneSeq <= made /\ phoneFile <= made
  /\ \A i \in DOMAIN phoneWrites : phoneWrites[i].seq <= made
  /\ \A m \in Numbered :
       /\ m.id <= made /\ m.scan <= scans
       /\ (m.kind = "prompt" /\ m.scan = scans) => m.seq <= phoneSeq

\* ... and so is the one it would start with again, once the prompt is sent.
FileCounts ==
  \A m \in sent : (m.kind = "prompt" /\ m.scan = scans) =>
    m.seq <= phoneFile /\ \A i \in DOMAIN phoneWrites : m.seq <= phoneWrites[i].seq

\* A prompt waits once, for a write that stores its number.
QueueCounts ==
  \A i \in DOMAIN phoneWrites : \A m \in phoneWrites[i].prompts :
    /\ m.kind = "prompt" /\ m \notin sent
    /\ \A j \in DOMAIN phoneWrites :
         /\ m \in phoneWrites[j].prompts => j = i
         /\ (i <= j /\ m.scan = scans) => m.seq <= phoneWrites[j].seq

\* What the agent receives was sent, and it receives nothing twice.
ReceivedOnce ==
  /\ onTheWay \subseteq sent /\ accepted \subseteq sent /\ refused \subseteq sent
  /\ onTheWay \intersect accepted = {}
  /\ \A i \in DOMAIN held :
       /\ held[i] \in sent /\ held[i] \notin onTheWay /\ held[i] \notin accepted
       /\ \A j \in DOMAIN held : held[i] = held[j] => i = j

\* The last number is that of an accepted envelope.
LastIsAccepted == lastSeen = 0 \/ \E n \in accepted : n.seq = lastSeen

PhoneInv == NumbersGrow /\ PhoneCounts /\ FileCounts /\ QueueCounts
AgentInv == ReceivedOnce /\ LastIsAccepted /\ Channel!RefusedWasOvertaken
ChannelInv == Channel!TypeOK /\ PhoneInv /\ AgentInv

Writing == [seq : 0 .. MaxEnvelopes, prompts : SUBSET Channel!Envelope]

\* What the type invariant says of each set, and of the queues.
LEMMA ChannelTypes ==
  ASSUME ChannelBounds, Channel!TypeOK
  PROVE  /\ phoneSeq \in Nat /\ phoneFile \in Nat /\ made \in Nat /\ scans \in Nat
         /\ lastSeen \in Nat
         /\ onTheWay \subseteq Channel!Envelope /\ sent \subseteq Channel!Envelope
         /\ accepted \subseteq Channel!Envelope
         /\ refused \subseteq Channel!Envelope /\ unknown \subseteq Channel!Envelope
         /\ \A i \in DOMAIN phoneWrites :
              phoneWrites[i] \in Writing /\ phoneWrites[i].seq \in Nat
              /\ phoneWrites[i].prompts \subseteq Channel!Envelope
         /\ \A m \in Channel!Envelope : m.id \in Nat /\ m.seq \in Nat \ {0} /\ m.scan \in Nat
         /\ DOMAIN phoneWrites = 1 .. Len(phoneWrites) /\ Len(phoneWrites) \in Nat
         /\ DOMAIN held = 1 .. Len(held) /\ Len(held) \in Nat
         /\ \A i \in DOMAIN held : held[i] \in Channel!Envelope
         /\ Numbered \subseteq Channel!Envelope
<1>1. phoneSeq \in Nat /\ phoneFile \in Nat /\ made \in Nat /\ scans \in Nat /\ lastSeen \in Nat
  BY DEF Channel!TypeOK, ChannelBounds
<1>2. /\ onTheWay \subseteq Channel!Envelope /\ sent \subseteq Channel!Envelope
      /\ accepted \subseteq Channel!Envelope
      /\ refused \subseteq Channel!Envelope /\ unknown \subseteq Channel!Envelope
  BY DEF Channel!TypeOK
<1>3. /\ phoneWrites \in Seq(Writing) /\ held \in Seq(Channel!Envelope)
  BY DEF Channel!TypeOK, Writing
<1>4. \A i \in DOMAIN phoneWrites :
        phoneWrites[i] \in Writing /\ phoneWrites[i].seq \in Nat
        /\ phoneWrites[i].prompts \subseteq Channel!Envelope
  <2> TAKE i \in DOMAIN phoneWrites
  <2>1. phoneWrites[i] \in Writing
    BY <1>3
  <2> QED
    BY <2>1 DEF Writing, ChannelBounds
<1>5. \A m \in Channel!Envelope : m.id \in Nat /\ m.seq \in Nat \ {0} /\ m.scan \in Nat
  BY DEF Channel!Envelope, ChannelBounds
<1>6. /\ DOMAIN phoneWrites = 1 .. Len(phoneWrites) /\ Len(phoneWrites) \in Nat
      /\ DOMAIN held = 1 .. Len(held) /\ Len(held) \in Nat
      /\ \A i \in DOMAIN held : held[i] \in Channel!Envelope
  BY <1>3
<1>7. Numbered \subseteq Channel!Envelope
  BY <1>2 DEF Numbered, Queued
<1> QED
  BY <1>1, <1>2, <1>4, <1>5, <1>6, <1>7

\* Appending a write leaves those before it as they are.
LEMMA Appended ==
  ASSUME NEW S, NEW s \in Seq(S), NEW e \in S
  PROVE  /\ Append(s, e) \in Seq(S) /\ DOMAIN Append(s, e) = 1 .. Len(s) + 1
         /\ \A i \in DOMAIN s : Append(s, e)[i] = s[i]
         /\ Append(s, e)[Len(s) + 1] = e
         /\ DOMAIN s = 1 .. Len(s) /\ Len(s) \in Nat
  OBVIOUS

\* The phone makes an envelope, which is queued or sent at once.
LEMMA MakingKeepsChannel ==
  ASSUME ChannelBounds, ChannelInv, Channel!SendPrompt \/ Channel!AnswerRequest
  PROVE  ChannelInv'
<1> USE DEF ChannelInv, PhoneInv, AgentInv
<1>t. Channel!TypeOK
  OBVIOUS
<1> PICK kind \in {"prompt", "answer"} :
      \/ kind = "prompt" /\ Channel!SendPrompt
      \/ kind = "answer" /\ Channel!AnswerRequest
  OBVIOUS
<1> DEFINE new == Channel!Encrypted(kind)
           queue == IF kind = "prompt" THEN {new} ELSE {}
<1>1. /\ made < MaxEnvelopes /\ made' = made + 1 /\ phoneSeq' = phoneSeq + 1
      /\ phoneWrites' = Append(phoneWrites, [seq |-> phoneSeq + 1, prompts |-> queue])
      /\ IF kind = "prompt"
         THEN UNCHANGED <<sent, onTheWay>>
         ELSE sent' = sent \union {new} /\ onTheWay' = onTheWay \union {new}
      /\ UNCHANGED <<phoneFile, scans, Channel!peerVars, Channel!answerVars, faults>>
  BY DEF Channel!SendPrompt, Channel!AnswerRequest, Channel!MakesEnvelope, Channel!Persist
<1> HIDE DEF new, queue
<1>2. /\ new \in Channel!Envelope /\ new.id = made + 1 /\ new.kind = kind
      /\ new.seq = phoneSeq + 1
      /\ new.scan = scans
  <2>1. /\ made + 1 \in 1 .. MaxEnvelopes /\ phoneSeq + 1 \in 1 .. MaxEnvelopes
        /\ scans \in 0 .. MaxScans
    BY <1>1, <1>t, ChannelTypes DEF PhoneCounts, Channel!TypeOK, ChannelBounds
  <2> QED
    BY <2>1 DEF new, Channel!Encrypted, Channel!Envelope
<1>3. /\ new \notin Numbered
      /\ \A m \in Numbered : m.id < new.id /\ m.scan <= new.scan
      /\ \A m \in Numbered : (m.kind = "prompt" /\ m.scan = new.scan) => m.seq < new.seq
  BY <1>2, <1>t, ChannelTypes DEF PhoneCounts, Numbered, Queued
<1>4. /\ DOMAIN phoneWrites' = 1 .. Len(phoneWrites) + 1
      /\ \A i \in DOMAIN phoneWrites : phoneWrites'[i] = phoneWrites[i]
      /\ phoneWrites'[Len(phoneWrites) + 1] = [seq |-> phoneSeq + 1, prompts |-> queue]
      /\ [seq |-> phoneSeq + 1, prompts |-> queue] \in Writing
      /\ phoneWrites' \in Seq(Writing)
      /\ DOMAIN phoneWrites = 1 .. Len(phoneWrites) /\ Len(phoneWrites) \in Nat
  <2>1. phoneWrites \in Seq(Writing)
    BY <1>t DEF Channel!TypeOK, Writing
  <2>2. [seq |-> phoneSeq + 1, prompts |-> queue] \in Writing
    <3>1. queue \in SUBSET Channel!Envelope
      BY <1>2 DEF queue
    <3>2. phoneSeq + 1 \in 0 .. MaxEnvelopes
      BY <1>1, <1>t, ChannelTypes DEF PhoneCounts, Channel!TypeOK, ChannelBounds
    <3> QED
      BY <3>1, <3>2 DEF Writing
  <2> QED
    BY <2>1, <2>2, <1>1, Appended
<1>5. Numbered' = Numbered \union {new}
  BY <1>1, <1>2, <1>4 DEF Numbered, Queued, queue
<1>6. Channel!TypeOK'
  <2>1. /\ {phoneSeq', phoneFile', lastSeen'} \subseteq 0 .. MaxEnvelopes
        /\ made' \in 0 .. MaxEnvelopes
    BY <1>1, <1>t, ChannelTypes DEF PhoneCounts, Channel!TypeOK, ChannelBounds,
       Channel!answerVars
  <2>2. phoneWrites' \in Seq([seq : 0 .. MaxEnvelopes, prompts : SUBSET Channel!Envelope])
    BY <1>4 DEF Writing
  <2>3. UNION {onTheWay', sent', accepted', refused', unknown'} \subseteq Channel!Envelope
    BY <1>1, <1>2, <1>t, ChannelTypes DEF Channel!answerVars
  <2> QED
    BY <2>1, <2>2, <2>3, <1>1, <1>t DEF Channel!TypeOK, Channel!peerVars
<1>7. NumbersGrow'
  <2> SUFFICES ASSUME NEW m \in Numbered', NEW n \in Numbered'
               PROVE  /\ m.id = n.id => m = n
                      /\ m.id < n.id => m.scan <= n.scan
                      /\ (m.kind = "prompt" /\ m.scan = n.scan /\ m.id < n.id) => m.seq < n.seq
    BY DEF NumbersGrow
  <2>1. m \in Channel!Envelope /\ n \in Channel!Envelope
    BY <1>2, <1>5, <1>t, ChannelTypes
  <2>2. CASE m \in Numbered /\ n \in Numbered
    BY <2>2 DEF NumbersGrow
  <2>3. CASE m \in Numbered /\ n = new
    BY <2>1, <2>3, <1>3, <1>t, ChannelTypes
  <2>4. CASE m = new /\ n \in Numbered
    BY <2>1, <2>4, <1>3, <1>t, ChannelTypes
  <2>5. CASE m = new /\ n = new
    BY <2>1, <2>5, <1>t, ChannelTypes
  <2> QED
    BY <1>5, <2>2, <2>3, <2>4, <2>5
<1>8. PhoneCounts'
  <2>1. \A m \in Numbered' :
          /\ m.id <= made' /\ m.scan <= scans'
          /\ (m.kind = "prompt" /\ m.scan = scans') => m.seq <= phoneSeq'
    <3>1. /\ new.id <= made' /\ new.scan <= scans' /\ new.seq <= phoneSeq'
      BY <1>1, <1>2, <1>t, ChannelTypes
    <3>2. \A m \in Numbered :
            /\ m.id <= made' /\ m.scan <= scans'
            /\ (m.kind = "prompt" /\ m.scan = scans') => m.seq <= phoneSeq'
      BY <1>1, <1>t, ChannelTypes DEF PhoneCounts
    <3> QED
      BY <3>1, <3>2, <1>5
  <2>2. \A i \in DOMAIN phoneWrites' : phoneWrites'[i].seq <= made'
    BY <1>1, <1>4, <1>t, ChannelTypes DEF PhoneCounts
  <2> QED
    BY <2>1, <2>2, <1>1, <1>t, ChannelTypes DEF PhoneCounts
<1>9. FileCounts'
  <2>1. \A m \in sent' : m.kind = "prompt" => m \in sent
    BY <1>1, <1>2
  <2>2. \A m \in sent : (m.kind = "prompt" /\ m.scan = scans) => m.seq <= phoneSeq + 1
    BY <1>t, ChannelTypes DEF PhoneCounts, Numbered
  <2> QED
    BY <1>1, <1>4, <2>1, <2>2 DEF FileCounts
<1>10. QueueCounts'
  <2> SUFFICES ASSUME NEW i \in DOMAIN phoneWrites', NEW m \in phoneWrites'[i].prompts
               PROVE  /\ m.kind = "prompt" /\ m \notin sent'
                      /\ \A j \in DOMAIN phoneWrites' :
                           /\ m \in phoneWrites'[j].prompts => j = i
                           /\ (i <= j /\ m.scan = scans') => m.seq <= phoneWrites'[j].seq
    BY DEF QueueCounts
  <2>1. CASE i \in DOMAIN phoneWrites
    <3>1. m \in phoneWrites[i].prompts /\ m \in Numbered /\ m # new /\ m \notin sent
      BY <2>1, <1>3, <1>4, <1>t, ChannelTypes DEF QueueCounts, Numbered, Queued
    <3>2. m \notin sent'
      BY <3>1, <1>1
    <3>3. m \notin queue
      BY <3>1 DEF queue
    <3>4. m.kind = "prompt" /\ (m.scan = scans => m.seq <= phoneSeq + 1)
      BY <2>1, <3>1, <1>t, ChannelTypes DEF PhoneCounts, QueueCounts, Numbered, Queued
    <3> QED
      BY <1>1, <1>4, <2>1, <3>1, <3>2, <3>3, <3>4 DEF QueueCounts
  <2>2. CASE i = Len(phoneWrites) + 1
    <3>1. m = new /\ kind = "prompt"
      BY <2>2, <1>4 DEF queue
    <3>2. m \notin sent'
      BY <3>1, <1>1, <1>3 DEF Numbered
    <3>3. \A j \in DOMAIN phoneWrites : m \notin phoneWrites[j].prompts
      BY <3>1, <1>2, <1>3 DEF Numbered, Queued
    <3>4. \A j \in DOMAIN phoneWrites' : m \in phoneWrites'[j].prompts => j = i
      BY <1>4, <2>2, <3>3
    <3>5. \A j \in DOMAIN phoneWrites' : i <= j => j = i
      BY <1>4, <2>2
    <3>6. m.seq <= phoneWrites'[i].seq
      BY <1>2, <1>4, <2>2, <3>1, <1>t, ChannelTypes
    <3> QED
      BY <1>2, <3>1, <3>2, <3>4, <3>5, <3>6
  <2> QED
    BY <2>1, <2>2, <1>4
<1>11. ReceivedOnce'
  <2>1. new \notin sent
    BY <1>3 DEF Numbered
  <2> QED
    BY <2>1, <1>1 DEF ReceivedOnce, Channel!peerVars, Channel!answerVars
<1>12. LastIsAccepted' /\ Channel!RefusedWasOvertaken'
  BY <1>1 DEF Channel!answerVars, LastIsAccepted, Channel!RefusedWasOvertaken
<1> QED
  BY <1>6, <1>7, <1>8, <1>9, <1>10, <1>11, <1>12

\* The first write of a queue is done.
LEMMA TakenFirst ==
  ASSUME NEW S, NEW s \in Seq(S), s # <<>>
  PROVE  /\ Head(s) \in S /\ Head(s) = s[1] /\ 1 \in DOMAIN s
         /\ Tail(s) \in Seq(S) /\ DOMAIN Tail(s) = 1 .. Len(s) - 1
         /\ DOMAIN s = 1 .. Len(s) /\ Len(s) \in Nat \ {0}
         /\ \A i \in DOMAIN Tail(s) : Tail(s)[i] = s[i + 1] /\ i + 1 \in DOMAIN s
  OBVIOUS

\* A number is stored, and the prompt that waited for it is sent.
LEMMA WritingKeepsChannel ==
  ASSUME ChannelBounds, ChannelInv, Channel!WriteIsDone
  PROVE  ChannelInv'
<1> USE DEF ChannelInv, PhoneInv, AgentInv
<1>t. Channel!TypeOK
  OBVIOUS
<1> DEFINE prompts == phoneWrites[1].prompts
<1>1. /\ 1 \in DOMAIN phoneWrites /\ phoneFile' = phoneWrites[1].seq
      /\ onTheWay' = onTheWay \union prompts /\ sent' = sent \union prompts
      /\ UNCHANGED <<phoneSeq, made, scans, Channel!peerVars, Channel!answerVars, faults>>
      /\ DOMAIN phoneWrites' = 1 .. Len(phoneWrites) - 1
      /\ DOMAIN phoneWrites = 1 .. Len(phoneWrites) /\ Len(phoneWrites) \in Nat
      /\ \A i \in DOMAIN phoneWrites' :
           phoneWrites'[i] = phoneWrites[i + 1] /\ i + 1 \in DOMAIN phoneWrites
      /\ phoneWrites' \in Seq(Writing)
  <2>1. phoneWrites \in Seq(Writing)
    BY <1>t DEF Channel!TypeOK, Writing
  <2> QED
    BY <2>1, TakenFirst DEF Channel!WriteIsDone
<1>2. /\ prompts \subseteq Channel!Envelope /\ prompts \subseteq Queued
      /\ \A m \in prompts : m.kind = "prompt" /\ m \notin sent
      /\ \A m \in prompts : \A i \in DOMAIN phoneWrites' : m \notin phoneWrites'[i].prompts
      /\ \A m \in prompts : m.scan = scans =>
           m.seq <= phoneFile' /\ \A i \in DOMAIN phoneWrites' : m.seq <= phoneWrites'[i].seq
  <2>1. prompts \subseteq Channel!Envelope /\ prompts \subseteq Queued
    BY <1>1, <1>t, ChannelTypes DEF Queued
  <2>2. \A i \in DOMAIN phoneWrites' : i + 1 # 1 /\ 1 <= i + 1
    BY <1>1
  <2>3. \A m \in prompts : m.scan = scans => m.seq <= phoneWrites[1].seq
    BY <1>1 DEF QueueCounts
  <2>4. \A m \in prompts : \A i \in DOMAIN phoneWrites' :
          m \notin phoneWrites'[i].prompts /\ (m.scan = scans => m.seq <= phoneWrites'[i].seq)
    BY <1>1, <2>2 DEF QueueCounts
  <2> QED
    BY <1>1, <2>1, <2>3, <2>4 DEF QueueCounts
<1> HIDE DEF prompts
<1>3. Numbered' \subseteq Numbered /\ Queued' \subseteq Queued
  <2>1. Queued' \subseteq Queued
    BY <1>1 DEF Queued
  <2> QED
    BY <1>1, <1>2, <2>1 DEF Numbered
<1>4. Channel!TypeOK'
  <2>1. {phoneSeq', phoneFile', lastSeen'} \subseteq 0 .. MaxEnvelopes
    BY <1>1, <1>t, ChannelTypes DEF Channel!TypeOK, Writing, Channel!answerVars
  <2>2. phoneWrites' \in Seq([seq : 0 .. MaxEnvelopes, prompts : SUBSET Channel!Envelope])
    BY <1>1 DEF Writing
  <2>3. UNION {onTheWay', sent', accepted', refused', unknown'} \subseteq Channel!Envelope
    BY <1>1, <1>2, <1>t, ChannelTypes DEF Channel!answerVars
  <2> QED
    BY <2>1, <2>2, <2>3, <1>1, <1>t DEF Channel!TypeOK, Channel!peerVars
<1>5. NumbersGrow'
  BY <1>3 DEF NumbersGrow
<1>6. PhoneCounts'
  BY <1>1, <1>3 DEF PhoneCounts
<1>7. FileCounts'
  <2> SUFFICES ASSUME NEW m \in sent', m.kind = "prompt", m.scan = scans
               PROVE  m.seq <= phoneFile' /\ \A i \in DOMAIN phoneWrites' : m.seq <= phoneWrites'[i].seq
    BY <1>1 DEF FileCounts
  <2>1. CASE m \in prompts
    BY <2>1, <1>2
  <2>2. CASE m \in sent
    BY <2>2, <1>1 DEF FileCounts
  <2> QED
    BY <2>1, <2>2, <1>1
<1>8. QueueCounts'
  <2> SUFFICES ASSUME NEW i \in DOMAIN phoneWrites', NEW m \in phoneWrites'[i].prompts
               PROVE  /\ m.kind = "prompt" /\ m \notin sent'
                      /\ \A j \in DOMAIN phoneWrites' :
                           /\ m \in phoneWrites'[j].prompts => j = i
                           /\ (i <= j /\ m.scan = scans') => m.seq <= phoneWrites'[j].seq
    BY DEF QueueCounts
  <2>1. i + 1 \in DOMAIN phoneWrites /\ m \in phoneWrites[i + 1].prompts
    BY <1>1
  <2>2. m.kind = "prompt" /\ m \notin sent'
    BY <1>1, <1>2, <2>1 DEF QueueCounts
  <2>3. ASSUME NEW j \in DOMAIN phoneWrites'
        PROVE  /\ m \in phoneWrites'[j].prompts => j = i
               /\ (i <= j /\ m.scan = scans') => m.seq <= phoneWrites'[j].seq
    <3>1. j + 1 \in DOMAIN phoneWrites /\ phoneWrites'[j] = phoneWrites[j + 1]
          /\ (j + 1 = i + 1 => j = i) /\ (i <= j => i + 1 <= j + 1)
      BY <1>1
    <3> QED
      BY <1>1, <2>1, <3>1 DEF QueueCounts
  <2> QED
    BY <2>2, <2>3
<1>9. ReceivedOnce'
  BY <1>1, <1>2 DEF ReceivedOnce, Channel!peerVars, Channel!answerVars
<1>10. LastIsAccepted' /\ Channel!RefusedWasOvertaken'
  BY <1>1 DEF Channel!answerVars, LastIsAccepted, Channel!RefusedWasOvertaken
<1> QED
  BY <1>4, <1>5, <1>6, <1>7, <1>8, <1>9, <1>10

\* The phone starts again with the number it has stored.
LEMMA PhoneRestartKeepsChannel ==
  ASSUME ChannelBounds, ChannelInv, Channel!PhoneRestarts
  PROVE  ChannelInv'
<1> USE DEF ChannelInv, PhoneInv, AgentInv
<1>t. Channel!TypeOK
  OBVIOUS
<1>1. /\ phoneSeq' = phoneFile /\ phoneWrites' = <<>> /\ DOMAIN phoneWrites' = {}
      /\ UNCHANGED <<phoneFile, made, scans, onTheWay, Channel!peerVars, Channel!answerVars,
                      sent>>
      /\ faults' = faults + 1 /\ faults < MaxFaults
  BY DEF Channel!PhoneRestarts, Channel!Fault
<1>2. Queued' = {} /\ Numbered' = sent
  BY <1>1 DEF Queued, Numbered
<1>3. Channel!TypeOK'
  <2>1. phoneWrites' \in Seq([seq : 0 .. MaxEnvelopes, prompts : SUBSET Channel!Envelope])
    BY <1>1
  <2>2. faults' \in 0 .. MaxFaults
    BY <1>1, <1>t DEF Channel!TypeOK, ChannelBounds
  <2> QED
    BY <2>1, <2>2, <1>1, <1>t DEF Channel!TypeOK, Channel!peerVars, Channel!answerVars
<1>4. NumbersGrow'
  BY <1>1, <1>2 DEF NumbersGrow, Numbered
<1>5. PhoneCounts'
  BY <1>1, <1>2 DEF PhoneCounts, FileCounts, Numbered
<1>6. FileCounts' /\ QueueCounts'
  BY <1>1 DEF FileCounts, QueueCounts
<1>7. ReceivedOnce' /\ LastIsAccepted' /\ Channel!RefusedWasOvertaken'
  BY <1>1 DEF ReceivedOnce, Channel!peerVars, Channel!answerVars, LastIsAccepted,
     Channel!RefusedWasOvertaken
<1> QED
  BY <1>3, <1>4, <1>5, <1>6, <1>7

\* A secure scan forgets the numbers.
LEMMA ScanKeepsChannel ==
  ASSUME ChannelBounds, ChannelInv, Channel!ScanAgain
  PROVE  ChannelInv'
<1> USE DEF ChannelInv, PhoneInv, AgentInv
<1>t. Channel!TypeOK
  OBVIOUS
<1>1. /\ scans < MaxScans /\ scans' = scans + 1 /\ phoneSeq' = 0
      /\ phoneWrites' = Append(phoneWrites, [seq |-> 0, prompts |-> {}])
      /\ UNCHANGED <<phoneFile, made, onTheWay, Channel!peerVars, Channel!answerVars, sent,
                      faults>>
  BY DEF Channel!ScanAgain, Channel!Persist
<1>2. /\ DOMAIN phoneWrites' = 1 .. Len(phoneWrites) + 1
      /\ DOMAIN phoneWrites = 1 .. Len(phoneWrites) /\ Len(phoneWrites) \in Nat
      /\ \A i \in DOMAIN phoneWrites : phoneWrites'[i] = phoneWrites[i]
      /\ phoneWrites'[Len(phoneWrites) + 1] = [seq |-> 0, prompts |-> {}]
      /\ phoneWrites' \in Seq(Writing)
  <2>1. phoneWrites \in Seq(Writing)
    BY <1>t DEF Channel!TypeOK, Writing
  <2>2. [seq |-> 0, prompts |-> {}] \in Writing
    BY DEF Writing, ChannelBounds
  <2> QED
    BY <2>1, <2>2, <1>1, Appended
<1>3. Numbered' = Numbered
  BY <1>1, <1>2 DEF Numbered, Queued
<1>4. Channel!TypeOK'
  <2>1. /\ {phoneSeq', phoneFile', lastSeen'} \subseteq 0 .. MaxEnvelopes
        /\ scans' \in 0 .. MaxScans
    BY <1>1, <1>t DEF Channel!TypeOK, ChannelBounds, Channel!answerVars
  <2>2. phoneWrites' \in Seq([seq : 0 .. MaxEnvelopes, prompts : SUBSET Channel!Envelope])
    BY <1>2 DEF Writing
  <2> QED
    BY <2>1, <2>2, <1>1, <1>t DEF Channel!TypeOK, Channel!peerVars, Channel!answerVars
<1>5. NumbersGrow'
  BY <1>3 DEF NumbersGrow
<1>6. \A m \in Numbered : m.scan # scans' /\ m.scan <= scans'
  BY <1>1, <1>t, ChannelTypes DEF PhoneCounts
<1>7. PhoneCounts'
  <2>1. \A i \in DOMAIN phoneWrites' : phoneWrites'[i].seq <= made
    BY <1>2, <1>t, ChannelTypes DEF PhoneCounts
  <2> QED
    BY <2>1, <1>1, <1>3, <1>6, <1>t, ChannelTypes DEF PhoneCounts
<1>8. FileCounts'
  BY <1>1, <1>6 DEF FileCounts, Numbered
<1>9. QueueCounts'
  <2>1. \A i \in DOMAIN phoneWrites' : \A m \in phoneWrites'[i].prompts :
          i \in DOMAIN phoneWrites /\ m \in phoneWrites[i].prompts /\ m \in Numbered
    BY <1>2, <1>t, ChannelTypes DEF Numbered, Queued
  <2> QED
    BY <1>1, <1>2, <1>6, <2>1 DEF QueueCounts
<1>10. ReceivedOnce' /\ LastIsAccepted' /\ Channel!RefusedWasOvertaken'
  BY <1>1 DEF ReceivedOnce, Channel!peerVars, Channel!answerVars, LastIsAccepted,
     Channel!RefusedWasOvertaken
<1> QED
  BY <1>4, <1>5, <1>7, <1>8, <1>9, <1>10

\* What the agent does leaves the phone's side as it is.
LEMMA AgentLeavesPhone ==
  ASSUME PhoneInv, UNCHANGED <<Channel!phoneVars, sent>>
  PROVE  PhoneInv'
  BY DEF PhoneInv, Channel!phoneVars, NumbersGrow, PhoneCounts, FileCounts, QueueCounts,
     Numbered, Queued

\* An envelope that was not accepted yet is opened or not.
LEMMA DecryptKeeps ==
  ASSUME ChannelBounds, ChannelInv, NEW m \in sent, m \notin accepted, Channel!Decrypt(m)
  PROVE  /\ lastSeen' \in 0 .. MaxEnvelopes
         /\ accepted' \in {accepted, accepted \union {m}}
         /\ refused' \in {refused, refused \union {m}}
         /\ unknown' \in {unknown, unknown \union {m}}
         /\ LastIsAccepted' /\ Channel!RefusedWasOvertaken'
<1> USE DEF ChannelInv, PhoneInv, AgentInv
<1>t. Channel!TypeOK
  OBVIOUS
<1>1. /\ accepted' \in {accepted, accepted \union {m}}
      /\ refused' \in {refused, refused \union {m}}
      /\ unknown' \in {unknown, unknown \union {m}}
  BY DEF Channel!Decrypt, Channel!ReportE2EDecryptFailure
<1>2. m \in Channel!Envelope /\ m.seq \in 1 .. MaxEnvelopes
  BY <1>t, ChannelTypes DEF Channel!Envelope
<1>3. lastSeen' = lastSeen \/ (lastSeen' = m.seq /\ accepted' = accepted \union {m})
  BY DEF Channel!Decrypt, Channel!SeenAfter
<1>4. lastSeen' \in 0 .. MaxEnvelopes /\ LastIsAccepted'
  BY <1>1, <1>2, <1>3, <1>t DEF Channel!TypeOK, LastIsAccepted, ChannelBounds
<1>5. Channel!RefusedWasOvertaken'
  <2>1. refused' = refused \/ (refused' = refused \union {m} /\ m.seq <= lastSeen)
    BY DEF Channel!Decrypt, Channel!ReportE2EDecryptFailure
  <2>2. CASE m.seq <= lastSeen
    <3>1. PICK n \in accepted : n.seq = lastSeen
      BY <2>2, <1>2, <1>t, ChannelTypes DEF LastIsAccepted
    <3>2. n \in sent /\ n \in Numbered /\ m \in Numbered /\ n # m
      BY <3>1 DEF ReceivedOnce, Numbered
    <3>3. n.id \in Nat /\ m.id \in Nat /\ n.scan \in Nat /\ m.scan \in Nat /\ n.seq \in Nat
          /\ n.kind \in {"prompt", "answer"}
      BY <3>2, <1>2, <1>t, ChannelTypes DEF Channel!Envelope
    <3>4. \/ n.id > m.id
          \/ n.kind = "answer" /\ n.seq >= m.seq
          \/ n.scan < m.scan
      BY <1>2, <2>2, <3>1, <3>2, <3>3 DEF NumbersGrow
    <3> QED
      BY <1>1, <2>1, <3>1, <3>4 DEF Channel!RefusedWasOvertaken
  <2> QED
    BY <1>1, <2>1, <2>2 DEF Channel!RefusedWasOvertaken
<1> QED
  BY <1>1, <1>4, <1>5

\* An envelope arrives.
LEMMA ReceivingKeepsChannel ==
  ASSUME ChannelBounds, ChannelInv, NEW m \in onTheWay, Channel!Receive(m)
  PROVE  ChannelInv'
<1> USE DEF ChannelInv, AgentInv
<1>t. Channel!TypeOK
  OBVIOUS
<1>1. m \in sent /\ m \notin accepted /\ m \in Channel!Envelope /\ (\A i \in DOMAIN held : held[i] # m)
  BY <1>t, ChannelTypes DEF ReceivedOnce
<1>2. /\ UNCHANGED <<Channel!phoneVars, knownPeer, peerOnFile, sent, faults>>
      /\ onTheWay' = onTheWay \ {m}
  BY DEF Channel!Receive, Channel!ReceiveKnown, Channel!ReceiveUnknown, Channel!peerVars
<1>3. PhoneInv'
  BY <1>2, AgentLeavesPhone
<1>4. CASE Channel!ReceiveKnown(m)
  <2>1. Channel!Decrypt(m) /\ UNCHANGED <<peerSync, held>>
    BY <1>4 DEF Channel!ReceiveKnown, Channel!peerVars
  <2>2. /\ lastSeen' \in 0 .. MaxEnvelopes
        /\ accepted' \in {accepted, accepted \union {m}}
        /\ refused' \in {refused, refused \union {m}}
        /\ unknown' \in {unknown, unknown \union {m}}
        /\ LastIsAccepted' /\ Channel!RefusedWasOvertaken'
    BY <1>1, <2>1, DecryptKeeps
  <2>3. UNION {onTheWay', sent', accepted', refused', unknown'} \subseteq Channel!Envelope
    BY <1>1, <1>2, <2>2, <1>t, ChannelTypes
  <2>4. Channel!TypeOK'
    BY <1>2, <2>1, <2>2, <2>3, <1>t DEF Channel!TypeOK, Channel!phoneVars
  <2>5. ReceivedOnce'
    BY <1>1, <1>2, <2>1, <2>2 DEF ReceivedOnce
  <2> QED
    BY <1>3, <2>2, <2>4, <2>5
<1>5. CASE Channel!ReceiveUnknown(m)
  <2>1. /\ held' = Append(held, m) /\ UNCHANGED Channel!answerVars
        /\ peerSync' \in {"none", "fetching", "persisting"}
    BY <1>5, <1>t DEF Channel!ReceiveUnknown, Channel!TypeOK
  <2>2. /\ held' \in Seq(Channel!Envelope) /\ DOMAIN held' = 1 .. Len(held) + 1
        /\ \A i \in DOMAIN held : held'[i] = held[i]
        /\ held'[Len(held) + 1] = m
        /\ DOMAIN held = 1 .. Len(held) /\ Len(held) \in Nat
    <3>1. held \in Seq(Channel!Envelope)
      BY <1>t DEF Channel!TypeOK
    <3> QED
      BY <1>1, <2>1, <3>1, Appended
  <2>3. Channel!TypeOK'
    <3>1. onTheWay' \subseteq onTheWay
      BY <1>2
    <3>2. UNION {onTheWay', sent', accepted', refused', unknown'} \subseteq Channel!Envelope
      BY <3>1, <1>2, <2>1, <1>t, ChannelTypes DEF Channel!answerVars
    <3> QED
      BY <1>2, <2>1, <2>2, <3>2, <1>t DEF Channel!TypeOK, Channel!phoneVars, Channel!answerVars
  <2>4. ReceivedOnce'
    <3> SUFFICES ASSUME NEW i \in DOMAIN held'
                 PROVE  /\ held'[i] \in sent' /\ held'[i] \notin onTheWay'
                        /\ held'[i] \notin accepted'
                        /\ \A j \in DOMAIN held' : held'[i] = held'[j] => i = j
      BY <1>2, <2>1 DEF ReceivedOnce, Channel!answerVars
    <3>1. CASE i \in DOMAIN held
      BY <3>1, <1>1, <1>2, <2>1, <2>2 DEF ReceivedOnce, Channel!answerVars
    <3>2. CASE i = Len(held) + 1
      BY <3>2, <1>1, <1>2, <2>1, <2>2 DEF ReceivedOnce, Channel!answerVars
    <3> QED
      BY <3>1, <3>2, <2>2
  <2>5. LastIsAccepted' /\ Channel!RefusedWasOvertaken'
    BY <2>1 DEF Channel!answerVars, LastIsAccepted, Channel!RefusedWasOvertaken
  <2> QED
    BY <1>3, <2>3, <2>4, <2>5
<1> QED
  BY <1>4, <1>5 DEF Channel!Receive

\* A handler that waited goes on.
LEMMA ResumingKeepsChannel ==
  ASSUME ChannelBounds, ChannelInv, Channel!Resume
  PROVE  ChannelInv'
<1> USE DEF ChannelInv, AgentInv
<1>t. Channel!TypeOK
  OBVIOUS
<1> DEFINE m == held[1]
<1>1. /\ 1 \in DOMAIN held /\ m \in Channel!Envelope /\ Channel!Decrypt(m)
      /\ held' \in Seq(Channel!Envelope) /\ DOMAIN held' = 1 .. Len(held) - 1
      /\ DOMAIN held = 1 .. Len(held) /\ Len(held) \in Nat
      /\ \A i \in DOMAIN held' : held'[i] = held[i + 1] /\ i + 1 \in DOMAIN held
      /\ UNCHANGED <<Channel!phoneVars, onTheWay, knownPeer, peerOnFile, peerSync, sent,
                      faults>>
  <2>1. held \in Seq(Channel!Envelope)
    BY <1>t DEF Channel!TypeOK
  <2> QED
    BY <2>1, TakenFirst DEF Channel!Resume, Channel!Resuming
<1>2. /\ m \in sent /\ m \notin accepted /\ m \notin onTheWay
      /\ \A i \in DOMAIN held' : held'[i] # m
  <2>1. \A i \in DOMAIN held' : i + 1 # 1
    BY <1>1
  <2> QED
    BY <2>1, <1>1 DEF ReceivedOnce
<1> HIDE DEF m
<1>3. PhoneInv'
  BY <1>1, AgentLeavesPhone
<1>4. /\ lastSeen' \in 0 .. MaxEnvelopes
      /\ accepted' \in {accepted, accepted \union {m}}
      /\ refused' \in {refused, refused \union {m}}
      /\ unknown' \in {unknown, unknown \union {m}}
      /\ LastIsAccepted' /\ Channel!RefusedWasOvertaken'
  BY <1>1, <1>2, DecryptKeeps
<1>5. Channel!TypeOK'
  <2>1. UNION {onTheWay', sent', accepted', refused', unknown'} \subseteq Channel!Envelope
    BY <1>1, <1>4, <1>t, ChannelTypes
  <2> QED
    BY <2>1, <1>1, <1>4, <1>t DEF Channel!TypeOK, Channel!phoneVars
<1>6. ReceivedOnce'
  <2> SUFFICES ASSUME NEW i \in DOMAIN held'
               PROVE  /\ held'[i] \in sent' /\ held'[i] \notin onTheWay'
                      /\ held'[i] \notin accepted'
                      /\ \A j \in DOMAIN held' : held'[i] = held'[j] => i = j
    BY <1>1, <1>2, <1>4 DEF ReceivedOnce
  <2>1. i + 1 \in DOMAIN held /\ held'[i] = held[i + 1]
    BY <1>1
  <2>2. held'[i] \in sent' /\ held'[i] \notin onTheWay' /\ held'[i] \notin accepted'
    BY <1>1, <1>2, <1>4, <2>1 DEF ReceivedOnce
  <2>3. ASSUME NEW j \in DOMAIN held', held'[i] = held'[j] PROVE i = j
    <3>1. j + 1 \in DOMAIN held /\ held'[j] = held[j + 1] /\ (i + 1 = j + 1 => i = j)
      BY <1>1
    <3> QED
      BY <2>1, <2>3, <3>1 DEF ReceivedOnce
  <2> QED
    BY <2>2, <2>3
<1> QED
  BY <1>3, <1>4, <1>5, <1>6

\* The agent learns of its phone, forgets in a restart, or an answer is lost.
LEMMA PeersKeepChannel ==
  ASSUME ChannelBounds, ChannelInv,
         \/ \E m \in onTheWay : Channel!AnswerIsLost(m)
         \/ Channel!MergePeerDevices \/ Channel!PeersPersisted \/ Channel!SyncE2EPeersFails \/ Channel!AgentRestarts
  PROVE  ChannelInv'
<1> USE DEF ChannelInv, AgentInv
<1>t. Channel!TypeOK
  OBVIOUS
<1>1. /\ UNCHANGED <<Channel!phoneVars, accepted, refused, unknown, sent>>
      /\ onTheWay' \subseteq onTheWay
      /\ held' = held \/ held' = <<>>
      /\ lastSeen' = lastSeen \/ lastSeen' = 0
      /\ peerSync' \in {"none", "fetching", "persisting"}
      /\ knownPeer' \in BOOLEAN /\ peerOnFile' \in BOOLEAN
  BY <1>t DEF Channel!AnswerIsLost, Channel!MergePeerDevices, Channel!PeersPersisted,
     Channel!SyncE2EPeersFails, Channel!AgentRestarts,
              Channel!Fault, Channel!peerVars, Channel!answerVars, Channel!phoneVars,
              Channel!TypeOK
<1>2. faults' \in 0 .. MaxFaults
  BY <1>t DEF Channel!AnswerIsLost, Channel!MergePeerDevices, Channel!PeersPersisted,
     Channel!SyncE2EPeersFails, Channel!AgentRestarts,
              Channel!Fault, Channel!TypeOK, ChannelBounds
<1>3. PhoneInv'
  BY <1>1, AgentLeavesPhone
<1>4. Channel!TypeOK'
  <2>1. UNION {onTheWay', sent', accepted', refused', unknown'} \subseteq Channel!Envelope
    BY <1>1, <1>t, ChannelTypes
  <2>2. held' \in Seq(Channel!Envelope) /\ lastSeen' \in 0 .. MaxEnvelopes
    <3>1. held \in Seq(Channel!Envelope) /\ <<>> \in Seq(Channel!Envelope)
      BY <1>t DEF Channel!TypeOK
    <3>2. lastSeen \in 0 .. MaxEnvelopes /\ 0 \in 0 .. MaxEnvelopes
      BY <1>t DEF Channel!TypeOK, ChannelBounds
    <3> QED
      BY <1>1, <3>1, <3>2
  <2> QED
    BY <2>1, <2>2, <1>1, <1>2, <1>t DEF Channel!TypeOK, Channel!phoneVars
<1>5. ReceivedOnce'
  <2>1. CASE held' = held
    BY <2>1, <1>1 DEF ReceivedOnce
  <2>2. CASE held' = <<>>
    <3>1. DOMAIN held' = {}
      BY <2>2
    <3> QED
      BY <3>1, <1>1 DEF ReceivedOnce
  <2> QED
    BY <2>1, <2>2, <1>1
<1>6. LastIsAccepted' /\ Channel!RefusedWasOvertaken'
  BY <1>1 DEF LastIsAccepted, Channel!RefusedWasOvertaken
<1> QED
  BY <1>3, <1>4, <1>5, <1>6

\* The start.
LEMMA InitChannelInv ==
  ASSUME ChannelBounds, Channel!Init
  PROVE  ChannelInv
<1> USE DEF Channel!Init
<1>1. Numbered = {} /\ Queued = {} /\ DOMAIN phoneWrites = {} /\ DOMAIN held = {}
  BY DEF Numbered, Queued
<1>2. Channel!TypeOK
  <2>1. /\ phoneWrites \in Seq([seq : 0 .. MaxEnvelopes, prompts : SUBSET Channel!Envelope])
        /\ held \in Seq(Channel!Envelope)
    OBVIOUS
  <2>2. UNION {onTheWay, sent, accepted, refused, unknown} \subseteq Channel!Envelope
    OBVIOUS
  <2>3. 0 \in 0 .. MaxEnvelopes /\ 0 \in 0 .. MaxScans /\ 0 \in 0 .. MaxFaults
    BY DEF ChannelBounds
  <2> QED
    BY <2>1, <2>2, <2>3 DEF Channel!TypeOK
<1>3. PhoneInv
  BY <1>1 DEF PhoneInv, NumbersGrow, PhoneCounts, FileCounts, QueueCounts
<1>4. AgentInv
  BY <1>1 DEF AgentInv, ReceivedOnce, LastIsAccepted, Channel!RefusedWasOvertaken
<1> QED
  BY <1>2, <1>3, <1>4 DEF ChannelInv

\* Every step keeps the invariant.
LEMMA NextKeepsChannel ==
  ASSUME ChannelBounds, ChannelInv, [Channel!Next]_(Channel!channelVars)
  PROVE  ChannelInv'
<1>1. CASE UNCHANGED Channel!channelVars
  <2>1. UNCHANGED <<Channel!phoneVars, sent>>
    BY <1>1 DEF Channel!channelVars
  <2>2. PhoneInv'
    BY <2>1, AgentLeavesPhone DEF ChannelInv
  <2>3. Channel!TypeOK' /\ AgentInv'
    BY <1>1 DEF ChannelInv, Channel!channelVars, Channel!phoneVars, Channel!peerVars,
       Channel!answerVars, Channel!TypeOK, AgentInv,
       ReceivedOnce, LastIsAccepted, Channel!RefusedWasOvertaken
  <2> QED
    BY <2>2, <2>3 DEF ChannelInv
<1>2. CASE Channel!Next
  BY <1>2, MakingKeepsChannel, WritingKeepsChannel, PhoneRestartKeepsChannel, ScanKeepsChannel,
     ReceivingKeepsChannel, ResumingKeepsChannel, PeersKeepChannel
  DEF Channel!Next, Channel!ReceivePrompt, Channel!ReceiveAnswer
<1> QED
  BY <1>1, <1>2

\* Prompts are sent in the order of their numbers.
LEMMA SentGrow ==
  ASSUME ChannelInv
  PROVE  Channel!PromptNumbersGrow
  BY DEF ChannelInv, PhoneInv, NumbersGrow, Numbered, Channel!PromptNumbersGrow

\* In every state numbers are given once, upwards, and accepted once.
THEOREM ChannelInvariant ==
  ASSUME ChannelBounds PROVE Channel!Spec => []ChannelInv
<1>1. Channel!Init => ChannelInv
  BY InitChannelInv
<1>2. ChannelInv /\ [Channel!Next]_(Channel!channelVars) => ChannelInv'
  BY NextKeepsChannel
<1> QED
  BY <1>1, <1>2, PTL DEF Channel!Spec

-----------------------------------------------------------------------------
(* The session file of the agent.                                           *)

SessionBounds ==
  /\ MaxToken \in Nat \ {0} /\ MaxAged \in Nat /\ MaxSeq \in Nat
  /\ 1 \in Nat /\ MaxCrashes \in Nat
  /\ IsFiniteSet({"command"}) /\ "agent" \notin {"command"}

\* Who refreshes or logs out has read a session, and the agent only refreshes.
ProcessInv ==
  /\ \A p \in Session!Process :
       pc[p] \in {"ready", "refreshing", "revoked", "issued", "logout"} =>
         read[p] # Session!NoSession
  /\ pc["agent"] \notin {"login", "redeemed", "logout", "unlink"}
  /\ pc["agent"] # "idle" => up

\* A runtime belongs to a running agent; without one there is nothing to write.
RuntimeInv ==
  /\ rtKey # 0 => up
  /\ rtKey = 0 =>
       mem = Session!NoSession /\ ~timer /\ ~queued /\ \A w \in Session!Writer : wpc[w] = "idle"

\* A writer keeps the root key, and one that merges peers the sequence number.
WriterInv ==
  /\ \A w \in Session!Writer :
       /\ wpc[w] # "idle" => base[w].key = next[w].key /\ next[w].key # 0
       /\ wpc[w] = "writing" => latest[w] # Session!NoSession
  /\ wpc["merge"] # "idle" => next["merge"].seq = base["merge"].seq

\* Every token and key there is was issued.
Known(s) == s.token <= sessionIssued /\ s.key <= sessionIssued
AllIssued ==
  /\ Known(file) /\ Known(mem) /\ rtKey <= sessionIssued
  /\ \A p \in Session!Process : Known(read[p])
  /\ \A w \in Session!Writer : Known(latest[w]) /\ base[w].key <= sessionIssued

\* A token that was received and not saved is live, and only its process knows it: no
\* other token and no root key has its number.
Holding == {p \in Session!Process : pc[p] \in {"issued", "redeemed"}}
Apart(t, s) == t # s.token /\ t # s.key
FreshToken(p) ==
  /\ token[p] \in live /\ Apart(token[p], file) /\ Apart(token[p], mem) /\ token[p] # rtKey
  /\ \A q \in Session!Process : Apart(token[p], read[q])
  /\ \A q \in Holding \ {p} : token[p] # token[q]
  /\ \A w \in Session!Writer : Apart(token[p], latest[w]) /\ token[p] # base[w].key
FreshTokens == \A p \in Holding : FreshToken(p)

\* A token that was revoked to be exchanged counts until the new one is issued.
Revoked == {p \in Session!Process : pc[p] = "revoked"}
OneLive == Cardinality(live) + Cardinality(Revoked) <= logins

FileIsLive ==
  \/ file = Session!NoSession \/ file.token \in live
  \/ lost \/ clobbered
  \/ \E p \in Session!Process : pc[p] \in {"revoked", "issued", "unlink"}

TokenInv == AllIssued /\ FreshTokens /\ OneLive /\ FileIsLive

\* The runtime and the file are of the same sign-in.
SameKey == rtKey # 0 /\ file.key = rtKey

\* What the agent reads before there is a runtime stays on file.
ReadIsFile == rtKey = 0 /\ read["agent"].key = file.key => read["agent"].seq = file.seq

\* No state is ahead of the runtime,
NoneAhead ==
  rtKey # 0 =>
    /\ file.key = rtKey => file.seq <= seq
    /\ mem.key = rtKey => mem.seq <= seq
    /\ read["agent"].key = rtKey => read["agent"].seq <= seq
    /\ \A w \in Session!Writer : wpc[w] # "idle" /\ next[w].key = rtKey =>
         base[w].seq <= next[w].seq /\ next[w].seq <= seq

\* the file is not behind what the agent remembers,
FileKeepsUp == SameKey => mem.seq <= file.seq /\ read["agent"].seq <= file.seq

\* and where it is behind the runtime it will be written, or is known not to be.
WillBeWritten ==
  SameKey =>
    \/ file.seq >= seq
    \/ timer \/ unsaved
    \/ wpc["flush"] # "idle" /\ (queued \/ next["flush"].seq = seq)

SeqInv == ~clobbered => ReadIsFile /\ NoneAhead /\ FileKeepsUp /\ WillBeWritten

SessionInv == Session!TypeOK /\ ProcessInv /\ RuntimeInv /\ WriterInv /\ TokenInv /\ SeqInv

-----------------------------------------------------------------------------
(* Sessions and their end-to-end states.                                    *)

\* The component counts as this module does.
LEMMA SessionCounts == ASSUME NEW S PROVE Session!Cardinality(S) = Cardinality(S)
  BY DEF Session!Cardinality, Cardinality

\* The fields of a session are numbers, and NoSession has no key.
LEMMA SessionFields ==
  ASSUME SessionBounds, NEW s \in Session!Session \union {Session!NoSession}
  PROVE  /\ s.token \in 0 .. MaxToken /\ s.key \in 0 .. MaxToken /\ s.seq \in 0 .. MaxSeq
         /\ s.peer \in BOOLEAN
         /\ s = Session!NoSession <=> s.key = 0
         /\ s = Session!NoSession <=> s.token = 0
         /\ Session!NoSession.token = 0 /\ Session!NoSession.key = 0
         /\ Session!NoSession.seq = 0
<1>1. MaxToken \in Nat /\ MaxSeq \in Nat
  BY DEF SessionBounds
<1>2. /\ Session!NoSession.token = 0 /\ Session!NoSession.key = 0 /\ Session!NoSession.seq = 0
      /\ Session!NoSession.peer = FALSE
  BY DEF Session!NoSession
<1>3. CASE s = Session!NoSession
  <2>1. s.token = 0 /\ s.key = 0 /\ s.seq = 0
    BY <1>2, <1>3
  <2>2. s.peer \in BOOLEAN
    BY <1>2, <1>3
  <2> QED
    BY <1>1, <1>2, <1>3, <2>1, <2>2
<1>4. CASE s \in Session!Session
  <2>1. s.token \in 1 .. MaxToken /\ s.key \in 1 .. MaxToken /\ s.seq \in 0 .. MaxSeq
    BY <1>4 DEF Session!Session
  <2>2. s.peer \in BOOLEAN
    BY <1>4 DEF Session!Session
  <2> QED
    BY <1>1, <1>2, <2>1, <2>2
<1> QED
  BY <1>3, <1>4

\* So are those of its end-to-end state.
LEMMA StateFields ==
  ASSUME SessionBounds, NEW s \in Session!Session \union {Session!NoSession}
  PROVE  /\ Session!State(s) \in Session!E2E
         /\ Session!State(s).key = s.key /\ Session!State(s).seq = s.seq
         /\ Session!State(s).peer = s.peer
  BY SessionFields DEF Session!State, Session!E2E

\* What persistSessionE2EState writes is the session it read with the new state.
LEMMA StateInSession ==
  ASSUME SessionBounds, NEW e \in Session!E2E, NEW s \in Session!Session, e.key # 0, NEW f,
         f = [s EXCEPT !.key = e.key, !.seq = e.seq, !.peer = e.peer]
  PROVE  /\ f \in Session!Session
         /\ f.token = s.token /\ f.key = e.key /\ f.seq = e.seq /\ f.peer = e.peer
<1>1. f = [token |-> s.token, key |-> e.key, seq |-> e.seq, peer |-> e.peer]
  BY DEF Session!Session
<1>2. /\ s.token \in 1 .. MaxToken /\ e.key \in 1 .. MaxToken /\ e.seq \in 0 .. MaxSeq
      /\ e.peer \in BOOLEAN
  BY DEF Session!E2E, Session!Session, SessionBounds
<1> QED
  BY <1>1, <1>2 DEF Session!Session

\* What the type invariant says of each variable.
LEMMA StateTypes ==
  ASSUME SessionBounds, Session!TypeOK
  PROVE  /\ \A p \in Session!Process : read[p] \in Session!Session \union {Session!NoSession} /\ token[p] \in Nat
         /\ \A w \in Session!Writer :
              /\ latest[w] \in Session!Session \union {Session!NoSession}
              /\ next[w] \in Session!E2E /\ base[w] \in Session!E2E
         /\ file \in Session!Session \union {Session!NoSession}
         /\ mem \in Session!Session \union {Session!NoSession}
         /\ sessionIssued \in Nat /\ sessionIssued >= 1 /\ sessionIssued <= MaxToken
         /\ live \subseteq 1 .. sessionIssued
         /\ rtKey \in Nat /\ seq \in Nat /\ logins \in Nat
         /\ "agent" \in Session!Process /\ "flush" \in Session!Writer
         /\ "merge" \in Session!Writer
  BY DEF Session!TypeOK, SessionBounds, Session!Process, Session!Writer

\* A session that somebody has seen already.
Seen(s) ==
  \/ s \in {file, mem, Session!NoSession}
  \/ \E p \in Session!Process : s = read[p]
  \/ \E w \in Session!Writer : s = latest[w]

\* Its token and its key are known, and no process holds a token like them.
LEMMA SeenBefore ==
  ASSUME SessionBounds, SessionInv, NEW s, Seen(s)
  PROVE  /\ s \in Session!Session \union {Session!NoSession} /\ Known(s)
         /\ \A q \in Holding : Apart(token[q], s)
<1>1. Session!TypeOK /\ AllIssued /\ FreshTokens
  BY DEF SessionInv, TokenInv
<1>2. s \in Session!Session \union {Session!NoSession}
  BY <1>1, StateTypes DEF Seen
<1>3. Session!NoSession.token = 0 /\ Session!NoSession.key = 0 /\ sessionIssued \in Nat
  BY <1>1, StateTypes DEF Session!NoSession
<1>4. Known(s)
  BY <1>1, <1>3 DEF Seen, AllIssued, Known
<1>5. ASSUME NEW q \in Holding PROVE Apart(token[q], s)
  <2>1. FreshToken(q)
    BY <1>1 DEF FreshTokens
  <2>2. token[q] # 0
    BY <1>1, <2>1, StateTypes DEF FreshToken
  <2> QED
    BY <1>3, <2>1, <2>2 DEF Seen, FreshToken, Apart
<1> QED
  BY <1>2, <1>4, <1>5

\* The session that a process with a new token saves: no other process holds its token
\* or its key, which is new when the process could read no session.
LEMMA ContentFields ==
  ASSUME SessionBounds, SessionInv, NEW p \in Holding, NEW f, f = Session!Content(p)
  PROVE  /\ f \in Session!Session /\ f.token = token[p] /\ f.seq = read[p].seq
         /\ f.key = IF read[p] = Session!NoSession THEN token[p] ELSE read[p].key
         /\ Known(f) /\ \A q \in Holding \ {p} : Apart(token[q], f)
<1>1. Session!TypeOK /\ AllIssued /\ FreshTokens /\ p \in Session!Process
  BY DEF SessionInv, TokenInv, Holding
<1>2. /\ token[p] \in 1 .. sessionIssued /\ sessionIssued <= MaxToken /\ sessionIssued \in Nat
      /\ read[p] \in Session!Session \union {Session!NoSession}
  BY <1>1, StateTypes DEF FreshTokens, FreshToken
<1>3. f = [token |-> token[p],
           key |-> IF read[p] = Session!NoSession THEN token[p] ELSE read[p].key,
           seq |-> read[p].seq, peer |-> read[p].peer]
  BY <1>2 DEF Session!Content, Session!Session, Session!NoSession
<1>4. (IF read[p] = Session!NoSession THEN token[p] ELSE read[p].key) \in 1 .. MaxToken
  BY <1>2 DEF Session!Session, SessionBounds
<1>5. read[p].seq \in 0 .. MaxSeq /\ read[p].peer \in BOOLEAN /\ token[p] \in 1 .. MaxToken
  BY <1>2, SessionFields DEF SessionBounds
<1>6. f \in Session!Session
  BY <1>3, <1>4, <1>5 DEF Session!Session
<1>7. Known(f)
  BY <1>1, <1>2, <1>3 DEF AllIssued, Known
<1>8. \A q \in Holding \ {p} : Apart(token[q], f)
  BY <1>1, <1>3 DEF FreshTokens, FreshToken, Apart
<1> QED
  BY <1>3, <1>6, <1>7, <1>8

\* The session that a writer of the agent persists.
LEMMA PersistedFields ==
  ASSUME SessionBounds, SessionInv, NEW w \in Session!Writer, wpc[w] = "writing",
         NEW f, f = Session!Persisted(w)
  PROVE  /\ f \in Session!Session /\ f.token = latest[w].token
         /\ f.key = next[w].key /\ f.seq = next[w].seq
         /\ Known(f) /\ \A q \in Holding : Apart(token[q], f)
<1>1. Session!TypeOK /\ WriterInv /\ AllIssued /\ FreshTokens
  BY DEF SessionInv, TokenInv
<1>2. /\ latest[w] \in Session!Session /\ next[w] \in Session!E2E /\ next[w].key # 0
      /\ base[w].key = next[w].key
  BY <1>1, StateTypes DEF WriterInv
<1>3. PICK e, s : e = next[w] /\ s = latest[w]
  OBVIOUS
<1>4. f = [s EXCEPT !.key = e.key, !.seq = e.seq, !.peer = e.peer]
  BY <1>3 DEF Session!Persisted
<1>5. s \in Session!Session /\ e \in Session!E2E /\ e.key # 0
  BY <1>2, <1>3
<1>6. f \in Session!Session /\ f.token = s.token /\ f.key = e.key /\ f.seq = e.seq
  BY <1>4, <1>5, StateInSession, Zenon
<1>7. Known(f) /\ \A q \in Holding : Apart(token[q], f)
  BY <1>1, <1>2, <1>3, <1>6 DEF AllIssued, Known, FreshTokens, FreshToken, Apart
<1> QED
  BY <1>3, <1>6, <1>7

\* A step that issues no token and shows nobody a token that a process holds on to: it
\* makes at most one session that was not there before.
LEMMA TokensStay ==
  ASSUME SessionBounds, SessionInv, UNCHANGED sessionIssued,
         Holding' \subseteq Holding, \A q \in Holding' : token'[q] = token[q],
         live' = live \/ \E r \in Session!Process : live' = live \ {read[r].token},
         NEW fresh, Known(fresh), \A q \in Holding' : Apart(token[q], fresh),
         Seen(file') \/ file' = fresh, Seen(mem') \/ mem' = fresh,
         \A q \in Session!Process : Seen(read'[q]) \/ read'[q] = fresh,
         \A w \in Session!Writer :
           Seen(latest'[w]) /\ base'[w].key \in {0, base[w].key, mem.key},
         rtKey' \in {0, rtKey, mem'.key}
  PROVE  AllIssued' /\ FreshTokens'
<1>1. Session!TypeOK /\ AllIssued /\ FreshTokens /\ sessionIssued \in Nat
  BY StateTypes DEF SessionInv, TokenInv
<1>2. \A s : Seen(s) \/ s = fresh => Known(s) /\ \A q \in Holding' : Apart(token[q], s)
  BY SeenBefore
<1>3. AllIssued'
  BY <1>1, <1>2 DEF AllIssued, Known
<1>4. FreshTokens'
  <2> SUFFICES ASSUME NEW q \in Holding' PROVE FreshToken(q)'
    BY DEF FreshTokens
  <2>1. q \in Holding /\ FreshToken(q) /\ token'[q] = token[q]
    BY <1>1 DEF FreshTokens
  <2>2. token[q] \in live' /\ token[q] # 0
    BY <1>1, <2>1, StateTypes DEF FreshToken, Apart
  <2>3. /\ Apart(token[q], file') /\ Apart(token[q], mem')
        /\ \A r \in Session!Process : Apart(token[q], read'[r])
        /\ \A w \in Session!Writer : Apart(token[q], latest'[w])
    BY <1>2
  <2>4. token[q] # rtKey' /\ \A w \in Session!Writer : token[q] # base'[w].key
    BY <2>1, <2>2, <2>3 DEF FreshToken, Apart
  <2>5. \A r \in Holding' \ {q} : token[q] # token'[r]
    BY <2>1 DEF FreshToken
  <2> QED
    BY <2>1, <2>2, <2>3, <2>4, <2>5 DEF FreshToken, Apart
<1> QED
  BY <1>3, <1>4

-----------------------------------------------------------------------------
(* The file and the runtime.                                                *)

\* A process that reads the file, or writes back what it has read, keeps the runtime
\* and the file in step: only a new sign-in has another key.
LEMMA FileMoves ==
  ASSUME SessionBounds, SessionInv,
         UNCHANGED <<rtKey, seq, mem, timer, queued, wpc, next, base, unsaved>>,
         file' \in Session!Session \union {Session!NoSession}, read'["agent"] \in Session!Session \union {Session!NoSession},
         \/ read'["agent"].key = read["agent"].key /\ read'["agent"].seq = read["agent"].seq
         \/ read'["agent"] = Session!NoSession
         \/ read'["agent"] = file /\ file' = file,
         ~clobbered' =>
           /\ ~clobbered
           /\ \/ file'.key = file.key /\ file'.seq = file.seq
              \/ file' = Session!NoSession
              \/ file'.key \notin {0, rtKey, read["agent"].key}
  PROVE  SeqInv'
<1> USE DEF SessionInv
<1> SUFFICES ASSUME ~clobbered' PROVE (ReadIsFile /\ NoneAhead /\ FileKeepsUp /\ WillBeWritten)'
  BY DEF SeqInv
<1>0. ReadIsFile /\ NoneAhead /\ FileKeepsUp /\ WillBeWritten
  BY DEF SeqInv
<1>1. /\ file \in Session!Session \union {Session!NoSession}
      /\ read["agent"] \in Session!Session \union {Session!NoSession}
      /\ sessionIssued \in Nat /\ rtKey \in Nat /\ seq \in Nat
      /\ rtKey <= sessionIssued /\ read["agent"].key <= sessionIssued
      /\ file.key <= sessionIssued
  BY StateTypes DEF TokenInv, AllIssued, Known
<1>2. /\ file.key \in Nat /\ file.seq \in Nat
      /\ read["agent"].key \in Nat /\ read["agent"].seq \in Nat
      /\ read["agent"].key = 0 => read["agent"].seq = 0
  BY <1>1, SessionFields DEF SessionBounds
<1>3. /\ file'.key \in Nat /\ file'.seq \in Nat
      /\ read'["agent"].key \in Nat /\ read'["agent"].seq \in Nat
      /\ read'["agent"].key = 0 => read'["agent"].seq = 0
      /\ Session!NoSession.key = 0 /\ Session!NoSession.seq = 0
  BY SessionFields DEF SessionBounds
<1>4. \/ file'.key = file.key /\ file'.seq = file.seq
      \/ file'.key = 0 /\ file'.seq = 0
      \/ file'.key \notin {0, rtKey, read["agent"].key}
  BY <1>3
<1>5. \/ read'["agent"].key = read["agent"].key /\ read'["agent"].seq = read["agent"].seq
      \/ read'["agent"].key = 0 /\ read'["agent"].seq = 0
      \/ read'["agent"].key = file.key /\ read'["agent"].seq = file.seq /\ file' = file
  BY <1>3
<1>6. ReadIsFile'
  <2> SUFFICES ASSUME rtKey = 0, read'["agent"].key = file'.key
               PROVE  read'["agent"].seq = file'.seq
    BY DEF ReadIsFile
  <2>1. read["agent"].key = file.key => read["agent"].seq = file.seq
    BY <1>0 DEF ReadIsFile
  <2>2. CASE read'["agent"].key = read["agent"].key /\ read'["agent"].seq = read["agent"].seq
    BY <1>1, <1>2, <1>3, <1>4, <2>1, <2>2
  <2>3. CASE read'["agent"].key = 0 /\ read'["agent"].seq = 0
    BY <1>1, <1>3, <2>3, SessionFields
  <2> QED
    BY <1>5, <2>2, <2>3
<1>7. SameKey' => SameKey /\ file'.key = file.key /\ file'.seq = file.seq
  BY <1>1, <1>2, <1>3, <1>4 DEF SameKey
<1>8. NoneAhead'
  <2> SUFFICES ASSUME rtKey # 0
               PROVE  /\ file'.key = rtKey => file'.seq <= seq
                      /\ mem.key = rtKey => mem.seq <= seq
                      /\ read'["agent"].key = rtKey => read'["agent"].seq <= seq
                      /\ \A w \in Session!Writer : wpc[w] # "idle" /\ next[w].key = rtKey =>
                           base[w].seq <= next[w].seq /\ next[w].seq <= seq
    BY DEF NoneAhead
  <2>1. file'.key = rtKey => file'.seq <= seq
    BY <1>0, <1>1, <1>7 DEF SameKey, NoneAhead
  <2>2. read'["agent"].key = rtKey => read'["agent"].seq <= seq
    BY <1>0, <1>1, <1>5 DEF NoneAhead
  <2> QED
    BY <1>0, <2>1, <2>2 DEF NoneAhead
<1>9. FileKeepsUp' /\ WillBeWritten'
  <2> SUFFICES ASSUME SameKey'
               PROVE  /\ mem.seq <= file'.seq
                      /\ read'["agent"].seq <= file'.seq
                      /\ \/ file'.seq >= seq
                         \/ timer \/ unsaved
                         \/ wpc["flush"] # "idle" /\ (queued \/ next["flush"].seq = seq)
    BY DEF FileKeepsUp, WillBeWritten
  <2>1. SameKey /\ file'.seq = file.seq
    BY <1>7
  <2>2. read'["agent"].seq <= file'.seq
    BY <1>0, <1>2, <1>5, <2>1 DEF FileKeepsUp
  <2> QED
    BY <1>0, <2>1, <2>2 DEF FileKeepsUp, WillBeWritten
<1> QED
  BY <1>6, <1>8, <1>9

-----------------------------------------------------------------------------
(* Steps of a process that only read.                                       *)

\* A process that reads the file or ends, with no token in its hands, disturbs nothing.
LEMMA QuietKeeps ==
  ASSUME SessionBounds, SessionInv, NEW p \in Session!Process, NEW s \in Session!ProcState,
         NEW f \in {file, read[p], Session!NoSession},
         UNCHANGED <<file, Session!serverVars, mem, rtKey, seq, Session!writerVars,
                      Session!historyVars>>,
         runs' \in 0 .. 1, up' \in BOOLEAN, up => up',
         pc' = [pc EXCEPT ![p] = s], read' = [read EXCEPT ![p] = f],
         token' \in {token, [token EXCEPT ![p] = 0]},
         pc[p] \notin {"revoked", "issued", "unlink"},
         s \notin {"revoked", "issued", "redeemed"},
         s \in {"ready", "refreshing", "logout"} => f # Session!NoSession,
         p = "agent" => s \notin {"login", "logout", "unlink"} /\ (s # "idle" => up')
  PROVE  SessionInv'
<1>0. /\ Session!TypeOK /\ ProcessInv /\ RuntimeInv /\ WriterInv /\ OneLive /\ FileIsLive
  BY DEF SessionInv, TokenInv
<1> USE DEF Session!serverVars, Session!writerVars, Session!historyVars
<1>1. /\ pc' \in [Session!Process -> Session!ProcState] /\ pc'[p] = s
      /\ \A q \in Session!Process \ {p} : pc'[q] = pc[q] /\ read'[q] = read[q] /\ token'[q] = token[q]
  BY <1>0 DEF Session!TypeOK
<1>2. f \in Session!Session \union {Session!NoSession} /\ read'[p] = f
  BY <1>0 DEF Session!TypeOK
<1>3. Session!TypeOK'
  <2>1. read' \in [Session!Process -> Session!Session \union {Session!NoSession}]
    BY <1>0, <1>2 DEF Session!TypeOK
  <2>2. token' \in [Session!Process -> 0 .. MaxToken]
    BY <1>0 DEF Session!TypeOK, SessionBounds
  <2> QED
    BY <1>0, <1>1, <2>1, <2>2 DEF Session!TypeOK
<1>4. ProcessInv'
  <2>1. \A q \in Session!Process :
          pc'[q] \in {"ready", "refreshing", "revoked", "issued", "logout"} =>
            read'[q] # Session!NoSession
    BY <1>0, <1>1, <1>2 DEF ProcessInv
  <2>2. /\ pc'["agent"] \notin {"login", "redeemed", "logout", "unlink"}
        /\ pc'["agent"] # "idle" => up'
    BY <1>0, <1>1, StateTypes DEF ProcessInv
  <2> QED
    BY <2>1, <2>2 DEF ProcessInv
<1>5. RuntimeInv' /\ WriterInv'
  BY <1>0 DEF RuntimeInv, WriterInv
<1>6. AllIssued' /\ FreshTokens'
  <2>1. Holding' \subseteq Holding /\ p \notin Holding'
    BY <1>1 DEF Holding
  <2>2. \A q \in Session!Process : Seen(read'[q])
    BY <1>1, <1>2 DEF Seen
  <2>3. /\ \A q \in Holding' : token'[q] = token[q]
        /\ Seen(file') /\ Seen(mem') /\ \A w \in Session!Writer : Seen(latest'[w])
    BY <1>1, <2>1 DEF Seen, Holding
  <2>4. Seen(file)
    BY DEF Seen
  <2> QED
    BY <2>1, <2>2, <2>3, <2>4, SeenBefore, TokensStay
<1>7. Revoked' = Revoked
  BY <1>1 DEF Revoked
<1>8. OneLive'
  BY <1>0, <1>7 DEF OneLive
<1>9. FileIsLive'
  BY <1>0, <1>1 DEF FileIsLive
<1>10. SeqInv'
  <2>1. /\ file' \in Session!Session \union {Session!NoSession} /\ file'.key = file.key
        /\ file'.seq = file.seq
        /\ read'["agent"] \in Session!Session \union {Session!NoSession}
    BY <1>0, <1>1, <1>2, StateTypes
  <2>2. read'["agent"] \in {file, read["agent"], Session!NoSession}
    BY <1>1, <1>2, StateTypes, <1>0
  <2> QED
    BY <2>1, <2>2, FileMoves
<1> QED
  BY <1>3, <1>4, <1>5, <1>6, <1>8, <1>9, <1>10 DEF SessionInv, TokenInv

\* The steps that only read are of this kind.
LEMMA ReadingKeeps ==
  ASSUME SessionBounds, SessionInv, NEW p \in Session!Process,
         \/ Session!EnsureRead(p) \/ Session!PairingRefused(p) \/ Session!CommandEnds(p) \/ Session!CommandFails(p)
         \/ Session!LoginReads(p) \/ Session!LogoutReads(p)
  PROVE  SessionInv'
<1>0. Session!TypeOK /\ ProcessInv
  BY DEF SessionInv
<1> USE DEF Session!serverVars, Session!procVars, Session!runtimeVars, Session!writerVars,
            Session!historyVars
<1>1. /\ runs \in 0 .. 1 /\ up \in BOOLEAN
      /\ read = [read EXCEPT ![p] = read[p]] /\ token = [token EXCEPT ![p] = token[p]]
  BY <1>0 DEF Session!TypeOK
<1>2. ASSUME Session!Begins(p) PROVE runs' \in 0 .. 1 /\ up' \in BOOLEAN /\ (up => up')
  <2>1. CASE p \in {"command"} /\ runs < 1 /\ runs' = runs + 1 /\ UNCHANGED up
    <3>1. runs' \in 0 .. 1
      BY <1>1, <2>1 DEF SessionBounds
    <3> QED
      BY <1>1, <2>1, <3>1
  <2>2. CASE p = "agent" /\ ~up /\ up' = TRUE /\ UNCHANGED runs
    BY <1>1, <2>2
  <2> QED
    BY <1>2, <2>1, <2>2 DEF Session!Begins
<1>3. p = "agent" => p \notin {"command"}
  BY DEF SessionBounds
<1>4. CASE Session!EnsureRead(p)
  <2>1. PICK s \in {"refreshing", "ready"} : pc' = [pc EXCEPT ![p] = s]
    BY <1>4 DEF Session!EnsureRead
  <2>2. s \in Session!ProcState /\ s \notin {"revoked", "issued", "redeemed", "login", "logout", "unlink"}
    BY DEF Session!ProcState
  <2>3. /\ Session!Begins(p) /\ file # Session!NoSession /\ pc[p] = "idle"
        /\ read' = [read EXCEPT ![p] = file]
        /\ UNCHANGED <<file, Session!serverVars, mem, rtKey, seq, Session!writerVars,
                        Session!historyVars>>
        /\ token' = token
    BY <1>4 DEF Session!EnsureRead
  <2>4. p = "agent" => up'
    BY <1>3, <2>3 DEF Session!Begins
  <2> QED
    BY <1>2, <2>1, <2>2, <2>3, <2>4, QuietKeeps
<1>5. CASE Session!PairingRefused(p)
  <2>1. /\ p \in {"command"} /\ pc[p] = "ready" /\ pc' = [pc EXCEPT ![p] = "refreshing"]
        /\ UNCHANGED <<file, Session!serverVars, mem, rtKey, seq, Session!writerVars,
                        Session!historyVars>>
        /\ token' = token /\ read' = [read EXCEPT ![p] = read[p]]
    BY <1>5, <1>1 DEF Session!PairingRefused
  <2>2. "refreshing" \in Session!ProcState /\ read[p] # Session!NoSession
    BY <1>0, <2>1 DEF Session!ProcState, ProcessInv
  <2>3. runs' \in 0 .. 1 /\ up' \in BOOLEAN /\ (up => up')
    BY <1>1, <1>5 DEF Session!PairingRefused
  <2> QED
    BY <1>3, <2>1, <2>2, <2>3, QuietKeeps
<1>6. CASE Session!CommandEnds(p) \/ Session!CommandFails(p)
  <2>1. /\ pc[p] \in {"ready", "refused"} /\ pc' = [pc EXCEPT ![p] = "idle"]
        /\ UNCHANGED <<file, Session!serverVars, mem, rtKey, seq, Session!writerVars,
                        Session!historyVars>>
        /\ token' = [token EXCEPT ![p] = 0] /\ read' = [read EXCEPT ![p] = Session!NoSession]
    BY <1>6 DEF Session!CommandEnds, Session!CommandFails, Session!Ends, Session!Leaves
  <2>2. "idle" \in Session!ProcState
    BY DEF Session!ProcState
  <2>3. runs' \in 0 .. 1 /\ up' \in BOOLEAN /\ (up => up')
    BY <1>1, <1>6 DEF Session!CommandEnds, Session!CommandFails
  <2> QED
    BY <2>1, <2>2, <2>3, QuietKeeps
<1>7. CASE Session!LoginReads(p) \/ Session!LogoutReads(p)
  <2>1. PICK s \in {"login", "unlink", "logout"}, f \in Session!Readings :
          /\ pc' = [pc EXCEPT ![p] = s] /\ (s = "logout" => f # Session!NoSession)
          /\ read' = [read EXCEPT ![p] = f]
    BY <1>7 DEF Session!LoginReads, Session!LogoutReads
  <2>2. s \in Session!ProcState /\ f \in {file, read[p], Session!NoSession}
    BY DEF Session!ProcState, Session!Readings
  <2>3. s \notin {"revoked", "issued", "redeemed", "ready", "refreshing"}
    OBVIOUS
  <2>4. /\ p \in {"command"} /\ Session!Begins(p) /\ pc[p] = "idle"
        /\ UNCHANGED <<file, Session!serverVars, mem, rtKey, seq, Session!writerVars,
                        Session!historyVars>>
        /\ token' = token
    BY <1>7 DEF Session!LoginReads, Session!LogoutReads
  <2> QED
    BY <1>2, <1>3, <2>1, <2>2, <2>3, <2>4, QuietKeeps
<1> QED
  BY <1>4, <1>5, <1>6, <1>7

\* The agent whose access token is refused reads the file anew.
LEMMA SyncRefusedKeeps ==
  ASSUME SessionBounds, SessionInv, Session!SyncRefused
  PROVE  SessionInv'
<1> USE DEF Session!SyncRefused, Session!Running, Session!serverVars, Session!runtimeVars,
            Session!writerVars, Session!historyVars
<1>0. Session!TypeOK /\ ProcessInv /\ "agent" \in Session!Process
  BY DEF SessionInv, Session!Process
<1>1. PICK s \in {"refreshing", "ready"} : pc' = [pc EXCEPT !["agent"] = s]
  OBVIOUS
<1>2. s \in Session!ProcState /\ s \notin {"revoked", "issued", "redeemed", "login", "logout", "unlink"}
  BY DEF Session!ProcState
<1>3. /\ UNCHANGED <<file, Session!serverVars, mem, rtKey, seq, Session!writerVars,
                      Session!historyVars>>
      /\ token' = token /\ read' = [read EXCEPT !["agent"] = file]
      /\ file # Session!NoSession /\ pc["agent"] = "idle"
  OBVIOUS
<1>4. runs' \in 0 .. 1 /\ up' \in BOOLEAN /\ (up => up') /\ up'
  BY <1>0 DEF Session!TypeOK
<1> QED
  BY <1>0, <1>1, <1>2, <1>3, <1>4, QuietKeeps

\* So does one that starts and can read no session.
LEMMA StartKeeps ==
  ASSUME SessionBounds, SessionInv, Session!StartWithoutSession
  PROVE  SessionInv'
<1>0. Session!TypeOK /\ ProcessInv /\ "agent" \in Session!Process
  BY DEF SessionInv, Session!Process
<1>1. /\ UNCHANGED <<file, Session!serverVars, mem, rtKey, seq, Session!writerVars,
                      Session!historyVars>>
      /\ token' = token /\ read' = [read EXCEPT !["agent"] = read["agent"]]
      /\ pc' = [pc EXCEPT !["agent"] = "refused"] /\ up' = TRUE /\ runs' \in 0 .. 1
  BY <1>0 DEF Session!StartWithoutSession, Session!TypeOK
<1>2. "refused" \in Session!ProcState /\ pc["agent"] = "idle"
  BY <1>0 DEF Session!ProcState, Session!StartWithoutSession, ProcessInv
<1>3. up' \in BOOLEAN
  BY <1>1
<1> QED
  BY <1>0, <1>1, <1>2, <1>3, QuietKeeps

-----------------------------------------------------------------------------
(* Steps that move tokens.                                                  *)

\* There are finitely many tokens and processes.
LEMMA Countable ==
  ASSUME SessionBounds, NEW S, NEW n \in Nat, S \subseteq 1 .. n \/ S \subseteq Session!Process
  PROVE  IsFiniteSet(S) /\ Cardinality(S) \in Nat
<1>1. IsFiniteSet(1 .. n)
  BY FS_Interval
<1>2. IsFiniteSet(Session!Process)
  BY FS_AddElement, FS_Singleton, FS_Union DEF Session!Process, SessionBounds
<1> QED
  BY <1>1, <1>2, FS_Subset, FS_CardinalityType

\* What the steps of the tokens leave alone.
LEMMA OthersKept ==
  ASSUME SessionBounds, SessionInv, UNCHANGED <<up, mem, rtKey, seq, Session!writerVars>>
  PROVE  RuntimeInv' /\ WriterInv'
  BY DEF SessionInv, RuntimeInv, WriterInv, Session!writerVars

\* Where no token is issued or given up, there are not more live ones.
LEMMA FewerLive ==
  ASSUME SessionBounds, SessionInv, live' \subseteq live, Revoked' \subseteq Revoked,
         logins' = logins
  PROVE  OneLive'
<1>1. live \subseteq 1 .. sessionIssued /\ sessionIssued \in Nat /\ logins \in Nat
  BY StateTypes DEF SessionInv
<1>2. IsFiniteSet(live) /\ IsFiniteSet(Revoked)
  BY <1>1, Countable DEF Revoked
<1>3. Cardinality(live') <= Cardinality(live) /\ Cardinality(Revoked') <= Cardinality(Revoked)
  BY <1>2, FS_Subset
<1>4. /\ Cardinality(live') \in Nat /\ Cardinality(Revoked') \in Nat
      /\ Cardinality(live) \in Nat /\ Cardinality(Revoked) \in Nat
  BY <1>2, FS_Subset, FS_CardinalityType
<1> QED
  BY <1>1, <1>3, <1>4 DEF SessionInv, TokenInv, OneLive

\* A token that was revoked leaves the others live; who is refused one is done.
LEMMA RefreshRevokesKeeps ==
  ASSUME SessionBounds, SessionInv, NEW p \in Session!Process, Session!RefreshRevokes(p)
  PROVE  SessionInv'
<1>0. Session!TypeOK /\ ProcessInv /\ OneLive
  BY DEF SessionInv, TokenInv
<1>1. CASE Session!Fails(p) /\ UNCHANGED live
  <2>1. /\ UNCHANGED <<file, Session!serverVars, mem, rtKey, seq, Session!writerVars,
                        Session!historyVars>>
        /\ token' = [token EXCEPT ![p] = 0] /\ read' = [read EXCEPT ![p] = Session!NoSession]
        /\ pc' = [pc EXCEPT ![p] = "refused"] /\ pc[p] = "refreshing"
        /\ runs' \in 0 .. 1 /\ up' \in BOOLEAN /\ up' = up
    BY <1>0, <1>1 DEF Session!RefreshRevokes, Session!Fails, Session!Leaves, Session!serverVars,
       Session!runtimeVars, Session!TypeOK
  <2>2. "refused" \in Session!ProcState /\ (p = "agent" => up)
    BY <1>0, <2>1 DEF Session!ProcState, ProcessInv
  <2> QED
    BY <2>1, <2>2, QuietKeeps
<1>2. CASE /\ pc' = [pc EXCEPT ![p] = "revoked"] /\ UNCHANGED <<read, token>>
           /\ read[p].token \in live /\ live' = live \ {read[p].token}
  <2>1. /\ pc[p] = "refreshing" /\ pc'[p] = "revoked"
        /\ \A q \in Session!Process \ {p} : pc'[q] = pc[q]
        /\ UNCHANGED <<file, aged, sessionIssued, logins, runs, read, token, up, mem,
                       rtKey, seq, timer, queued, wpc, next, base, latest, clobbered, lost,
                       unsaved, crashes>>
    BY <1>0, <1>2 DEF Session!TypeOK, Session!RefreshRevokes, Session!runtimeVars,
       Session!writerVars, Session!historyVars
  <2>2. Session!TypeOK'
    <3>1. pc' \in [Session!Process -> Session!ProcState]
      BY <1>0, <1>2 DEF Session!TypeOK, Session!ProcState
    <3>2. live' \in SUBSET (1 .. sessionIssued')
      BY <1>0, <1>2, <2>1 DEF Session!TypeOK
    <3> QED
      BY <1>0, <2>1, <3>1, <3>2 DEF Session!TypeOK
  <2>3. ProcessInv'
    BY <1>0, <2>1, StateTypes DEF ProcessInv
  <2>4. AllIssued' /\ FreshTokens'
    <3>1. Holding' = Holding /\ \A q \in Session!Process : Seen(read'[q])
      BY <2>1 DEF Holding, Seen
    <3>2. Seen(file) /\ Seen(file') /\ Seen(mem') /\ \A w \in Session!Writer : Seen(latest'[w])
      BY <2>1 DEF Seen
    <3> QED
      BY <1>2, <2>1, <3>1, <3>2, SeenBefore, TokensStay
  <2>5. OneLive'
    <3>1. Revoked' = Revoked \union {p} /\ p \notin Revoked
      BY <2>1 DEF Revoked
    <3>2. /\ IsFiniteSet(live) /\ IsFiniteSet(Revoked) /\ Cardinality(live) \in Nat
          /\ Cardinality(Revoked) \in Nat
      BY <1>0, StateTypes, Countable DEF Revoked
    <3>3. Cardinality(Revoked') = Cardinality(Revoked) + 1
      BY <3>1, <3>2, FS_AddElement
    <3>4. Cardinality(live') = Cardinality(live) - 1
      BY <1>2, <3>2, FS_RemoveElement
    <3>5. logins \in Nat /\ logins' = logins
      BY <1>0, <2>1, StateTypes
    <3> QED
      BY <1>0, <3>2, <3>3, <3>4, <3>5 DEF OneLive
  <2>6. FileIsLive'
    BY <2>1 DEF FileIsLive
  <2>7. SeqInv'
    BY <2>1 DEF SessionInv, SeqInv, ReadIsFile, NoneAhead, FileKeepsUp, WillBeWritten, SameKey
  <2>8. RuntimeInv' /\ WriterInv'
    BY <2>1, OthersKept DEF Session!writerVars
  <2> QED
    BY <2>2, <2>3, <2>4, <2>5, <2>6, <2>7, <2>8 DEF SessionInv, TokenInv
<1> QED
  BY <1>1, <1>2 DEF Session!RefreshRevokes, Session!Usable

\* So does a logout, whether or not its token is still accepted.
LEMMA LogoutRevokesKeeps ==
  ASSUME SessionBounds, SessionInv, NEW p \in Session!Process, Session!LogoutRevokes(p)
  PROVE  SessionInv'
<1>0. /\ Session!TypeOK /\ ProcessInv /\ RuntimeInv /\ WriterInv
  BY DEF SessionInv, TokenInv
<1> USE DEF Session!LogoutRevokes, Session!RevokeRefreshToken, Session!runtimeVars,
            Session!writerVars, Session!historyVars
<1>1. /\ live' \in {live, live \ {read[p].token}}
      /\ pc' = [pc EXCEPT ![p] = "unlink"]
  OBVIOUS
<1>2. /\ pc[p] = "logout" /\ pc'[p] = "unlink"
      /\ \A q \in Session!Process \ {p} : pc'[q] = pc[q]
      /\ UNCHANGED <<file, aged, sessionIssued, logins, runs, read, token, up, mem,
                     rtKey, seq, timer, queued, wpc, next, base, latest, clobbered, lost, unsaved,
                     crashes>>
  BY <1>0, <1>1 DEF Session!TypeOK
<1>3. live' \subseteq live
  BY <1>1
<1>4. Session!TypeOK'
  <2>1. pc' \in [Session!Process -> Session!ProcState]
    BY <1>0, <1>1 DEF Session!TypeOK, Session!ProcState
  <2>2. live' \in SUBSET (1 .. sessionIssued')
    BY <1>0, <1>2, <1>3 DEF Session!TypeOK
  <2> QED
    BY <1>0, <1>2, <2>1, <2>2 DEF Session!TypeOK
<1>5. ProcessInv'
  BY <1>0, <1>1, <1>2 DEF ProcessInv
<1>6. AllIssued' /\ FreshTokens'
  <2>1. Holding' = Holding /\ \A q \in Session!Process : Seen(read'[q])
    BY <1>1, <1>2 DEF Holding, Seen
  <2>2. Seen(file) /\ Seen(file') /\ Seen(mem') /\ \A w \in Session!Writer : Seen(latest'[w])
    BY <1>2 DEF Seen
  <2> QED
    BY <1>1, <1>2, <2>1, <2>2, SeenBefore, TokensStay
<1>8. OneLive'
  <2>1. Revoked' = Revoked
    BY <1>2 DEF Revoked
  <2> QED
    BY <1>2, <1>3, <2>1, FewerLive
<1>9. FileIsLive'
  BY <1>2 DEF FileIsLive
<1>10. SeqInv'
  BY <1>2 DEF SessionInv, SeqInv, ReadIsFile, NoneAhead, FileKeepsUp, WillBeWritten, SameKey
<1>11. RuntimeInv' /\ WriterInv'
  BY <1>2, OthersKept
<1> QED
  BY <1>4, <1>5, <1>6, <1>8, <1>9, <1>10, <1>11 DEF SessionInv, TokenInv

\* A new token is known to no one else.
LEMMA NewTokenKeeps ==
  ASSUME SessionBounds, SessionInv, NEW p \in Session!Process, Session!IssueToken(p),
         NEW s \in {"issued", "redeemed"}, pc' = [pc EXCEPT ![p] = s],
         s = "issued" => read[p] # Session!NoSession,
         s = "redeemed" => p # "agent",
         p = "agent" => up, pc[p] \notin {"issued", "unlink"},
         pc[p] = "revoked" => s = "issued",
         UNCHANGED <<file, aged, runs, read, up, mem, rtKey, seq, Session!writerVars,
                     Session!historyVars>>,
         logins' \in {logins, logins + 1},
         Cardinality(Revoked') + logins + 1 = Cardinality(Revoked) + logins',
         Revoked' \subseteq Revoked
  PROVE  SessionInv'
<1>0. /\ Session!TypeOK /\ ProcessInv /\ RuntimeInv /\ WriterInv /\ AllIssued /\ FreshTokens
      /\ OneLive /\ FileIsLive
  BY DEF SessionInv, TokenInv
<1> USE DEF Session!writerVars, Session!historyVars
<1>1. /\ token' = [token EXCEPT ![p] = sessionIssued + 1]
      /\ live' = live \union {sessionIssued + 1} /\ sessionIssued' = sessionIssued + 1
      /\ sessionIssued < MaxToken
  BY DEF Session!IssueToken
<1>2. pc'[p] = s /\ \A q \in Session!Process \ {p} : pc'[q] = pc[q]
  BY <1>0 DEF Session!TypeOK
<1>3. /\ sessionIssued \in Nat /\ sessionIssued + 1 \in 1 .. MaxToken
      /\ live \subseteq 1 .. sessionIssued /\ logins \in Nat
  BY <1>0, <1>1, StateTypes DEF SessionBounds
<1>4. token'[p] = sessionIssued + 1 /\ \A q \in Session!Process \ {p} : token'[q] = token[q]
  BY <1>0, <1>1 DEF Session!TypeOK
<1>5. Session!TypeOK'
  <2>1. pc' \in [Session!Process -> Session!ProcState]
    BY <1>0 DEF Session!TypeOK, Session!ProcState
  <2>2. live' \in SUBSET (1 .. sessionIssued') /\ aged' \in 0 .. sessionIssued'
    BY <1>0, <1>1, <1>3 DEF Session!TypeOK
  <2>3. token' \in [Session!Process -> 0 .. MaxToken] /\ sessionIssued' \in 1 .. MaxToken
    BY <1>0, <1>1, <1>3 DEF Session!TypeOK
  <2>4. logins' \in Nat
    BY <1>3
  <2> QED
    BY <1>0, <2>1, <2>2, <2>3, <2>4 DEF Session!TypeOK
<1>6. ProcessInv'
  BY <1>0, <1>2 DEF ProcessInv
<1>7. AllIssued'
  <2>1. \A n \in Nat : n <= sessionIssued => n <= sessionIssued'
    BY <1>1, <1>3
  <2>2. /\ \A t \in Session!Session \union {Session!NoSession} : t.token \in Nat /\ t.key \in Nat
        /\ \A e \in Session!E2E : e.key \in Nat
    BY SessionFields DEF SessionBounds, Session!E2E
  <2>3. \A t \in Session!Session \union {Session!NoSession} : Known(t) =>
          t.token <= sessionIssued' /\ t.key <= sessionIssued'
    BY <2>1, <2>2 DEF Known
  <2> QED
    BY <1>0, <2>1, <2>2, <2>3, StateTypes DEF AllIssued, Known
<1>8. FreshTokens'
  <2> SUFFICES ASSUME NEW q \in Holding' PROVE FreshToken(q)'
    BY DEF FreshTokens
  <2>1. \A t \in Session!Session \union {Session!NoSession} :
          Known(t) => Apart(sessionIssued + 1, t)
    BY <1>3, SessionFields DEF Known, Apart, SessionBounds
  <2>2. /\ sessionIssued + 1 # rtKey
        /\ \A w \in Session!Writer : sessionIssued + 1 # base[w].key
    BY <1>0, <1>3, StateTypes DEF AllIssued, Session!E2E, SessionBounds
  <2>3. \A r \in Holding : token[r] # sessionIssued + 1
    BY <1>0, <1>3 DEF FreshTokens, FreshToken
  <2>4. \A r \in Holding' \ {p} : r \in Holding /\ token'[r] = token[r]
    BY <1>2, <1>4 DEF Holding
  <2>5. CASE q = p
    <3>1. \A r \in Holding' \ {p} : token'[p] # token'[r]
      BY <1>4, <2>3, <2>4
    <3> QED
      BY <1>0, <1>1, <1>4, <2>1, <2>2, <2>5, <3>1, StateTypes DEF FreshToken, AllIssued
  <2>6. CASE q # p
    <3>1. q \in Holding /\ FreshToken(q) /\ token'[q] = token[q]
      BY <1>0, <2>4, <2>6 DEF FreshTokens
    <3>2. \A r \in Holding' \ {q} : token[q] # token'[r]
      BY <1>4, <2>3, <2>4, <3>1 DEF FreshToken
    <3> QED
      BY <1>1, <3>1, <3>2 DEF FreshToken
  <2> QED
    BY <2>5, <2>6
<1>9. OneLive'
  <2>1. /\ IsFiniteSet(live) /\ Cardinality(live) \in Nat /\ IsFiniteSet(Revoked)
        /\ Cardinality(Revoked) \in Nat
    BY <1>3, Countable DEF Revoked
  <2>2. Cardinality(Revoked') \in Nat
    BY <2>1, FS_Subset, FS_CardinalityType
  <2>3. Cardinality(live') = Cardinality(live) + 1
    <3>1. sessionIssued + 1 \notin live
      BY <1>3
    <3> QED
      BY <1>1, <2>1, <3>1, FS_AddElement
  <2> QED
    BY <1>0, <1>3, <2>1, <2>2, <2>3 DEF OneLive
<1>10. FileIsLive'
  BY <1>0, <1>1, <1>2 DEF FileIsLive
<1>11. SeqInv'
  BY DEF SessionInv, SeqInv, ReadIsFile, NoneAhead, FileKeepsUp, WillBeWritten, SameKey
<1>12. RuntimeInv' /\ WriterInv'
  BY OthersKept
<1> QED
  BY <1>5, <1>6, <1>7, <1>8, <1>9, <1>10, <1>11, <1>12 DEF SessionInv, TokenInv

\* It takes the place of the one that was revoked, or comes with a new sign-in.
LEMMA IssuesKeeps ==
  ASSUME SessionBounds, SessionInv, NEW p \in Session!Process,
         Session!RefreshIssues(p) \/ Session!LoginRedeems(p)
  PROVE  SessionInv'
<1>0. Session!TypeOK /\ ProcessInv
  BY DEF SessionInv
<1>1. /\ IsFiniteSet(Revoked) /\ Cardinality(Revoked) \in Nat /\ logins \in Nat
  BY <1>0, StateTypes, Countable DEF Revoked
<1> USE DEF Session!runtimeVars
<1>2. CASE Session!RefreshIssues(p)
  <2>1. /\ Session!IssueToken(p) /\ pc[p] = "revoked" /\ pc' = [pc EXCEPT ![p] = "issued"]
        /\ UNCHANGED <<file, aged, runs, read, up, mem, rtKey, seq, Session!writerVars,
                       Session!historyVars>>
        /\ logins' = logins
    BY <1>2 DEF Session!RefreshIssues
  <2>2. Revoked' = Revoked \ {p} /\ p \in Revoked
    BY <1>0, <2>1 DEF Revoked, Session!TypeOK
  <2>3. Cardinality(Revoked') = Cardinality(Revoked) - 1
    BY <1>1, <2>2, FS_RemoveElement
  <2>4. Cardinality(Revoked') + logins + 1 = Cardinality(Revoked) + logins'
    BY <1>1, <2>1, <2>3
  <2>5. read[p] # Session!NoSession /\ (p = "agent" => up)
    BY <1>0, <2>1 DEF ProcessInv
  <2> QED
    BY <2>1, <2>2, <2>4, <2>5, NewTokenKeeps
<1>3. CASE Session!LoginRedeems(p)
  <2>1. /\ Session!IssueToken(p) /\ pc[p] = "login" /\ pc' = [pc EXCEPT ![p] = "redeemed"]
        /\ UNCHANGED <<file, aged, runs, read, up, mem, rtKey, seq, Session!writerVars,
                       Session!historyVars>>
        /\ logins' = logins + 1
    BY <1>3 DEF Session!LoginRedeems
  <2>2. Revoked' = Revoked
    BY <1>0, <2>1 DEF Revoked, Session!TypeOK
  <2>3. Cardinality(Revoked') + logins + 1 = Cardinality(Revoked) + logins'
    BY <1>1, <2>1, <2>2
  <2>4. p # "agent"
    BY <1>0, <2>1 DEF ProcessInv
  <2> QED
    BY <2>1, <2>2, <2>3, <2>4, NewTokenKeeps
<1> QED
  BY <1>2, <1>3

\* A process that is refused, with a token in its hands or not, and leaves a file that
\* anybody has seen.
LEMMA FailsKeeps ==
  ASSUME SessionBounds, SessionInv, NEW p \in Session!Process, Session!Fails(p),
         pc[p] \in {"revoked", "issued", "redeemed"}, lost' = TRUE,
         file' \in {file, Session!NoSession, Session!Content(p)},
         pc[p] = "revoked" => file' = file,
         clobbered' = (clobbered \/ (file' # file /\ read[p] # file)),
         crashes' \in 0 .. MaxCrashes,
         UNCHANGED <<Session!serverVars, runs, Session!runtimeVars, Session!writerVars, unsaved>>
  PROVE  SessionInv'
<1>0. /\ Session!TypeOK /\ ProcessInv /\ FreshTokens
  BY DEF SessionInv, TokenInv
<1> USE DEF Session!serverVars, Session!runtimeVars, Session!writerVars
<1>1. /\ pc' = [pc EXCEPT ![p] = "refused"] /\ token' = [token EXCEPT ![p] = 0]
      /\ read' = [read EXCEPT ![p] = Session!NoSession]
  BY DEF Session!Fails, Session!Leaves
<1>2. /\ pc'[p] = "refused" /\ read'[p] = Session!NoSession
      /\ \A q \in Session!Process \ {p} : pc'[q] = pc[q] /\ read'[q] = read[q] /\ token'[q] = token[q]
  BY <1>0, <1>1 DEF Session!TypeOK
<1>3. PICK fresh \in Session!Session \union {Session!NoSession} :
        /\ Known(fresh) /\ \A q \in Holding \ {p} : Apart(token[q], fresh)
        /\ Seen(file') \/ file' = fresh
  <2>1. Seen(file) /\ Seen(Session!NoSession)
    BY DEF Seen
  <2>2. CASE file' \in {file, Session!NoSession}
    BY <2>1, <2>2, SeenBefore
  <2>3. CASE file' = Session!Content(p) /\ p \in Holding
    BY <2>3, ContentFields
  <2> QED
    BY <2>2, <2>3 DEF Holding
<1>4. Session!TypeOK'
  <2>1. /\ pc' \in [Session!Process -> Session!ProcState]
        /\ token' \in [Session!Process -> 0 .. MaxToken]
    BY <1>0, <1>1 DEF Session!TypeOK, Session!ProcState, SessionBounds
  <2>2. /\ read' \in [Session!Process -> Session!Session \union {Session!NoSession}]
        /\ file' \in Session!Session \union {Session!NoSession}
    BY <1>0, <1>1, <1>3, SeenBefore DEF Session!TypeOK
  <2>3. clobbered' \in BOOLEAN /\ lost' \in BOOLEAN
    BY <1>0 DEF Session!TypeOK
  <2> QED
    BY <1>0, <2>1, <2>2, <2>3 DEF Session!TypeOK
<1>5. ProcessInv'
  BY <1>0, <1>2, StateTypes DEF ProcessInv
<1>6. AllIssued' /\ FreshTokens'
  <2>1. Holding' \subseteq Holding \ {p} /\ \A q \in Holding' : token'[q] = token[q]
    BY <1>2 DEF Holding
  <2>2. /\ \A q \in Session!Process : Seen(read'[q])
        /\ Seen(mem') /\ \A w \in Session!Writer : Seen(latest'[w])
    BY <1>2 DEF Seen
  <2> QED
    BY <1>3, <2>1, <2>2, TokensStay
<1>7. OneLive'
  <2>1. Revoked' \subseteq Revoked
    BY <1>2 DEF Revoked
  <2> QED
    BY <2>1, FewerLive
<1>8. FileIsLive'
  BY DEF FileIsLive
<1>9. SeqInv'
  <2>1. ~clobbered' =>
          /\ ~clobbered
          /\ \/ file'.key = file.key /\ file'.seq = file.seq
             \/ file' = Session!NoSession
             \/ file'.key \notin {0, rtKey, read["agent"].key}
    <3> SUFFICES ASSUME ~clobbered', file' \notin {file, Session!NoSession},
                        ~(file'.key = file.key /\ file'.seq = file.seq)
                 PROVE  file'.key \notin {0, rtKey, read["agent"].key}
      OBVIOUS
    <3>1. p \in Holding /\ read[p] = file
      BY DEF Holding
    <3>2. /\ file'.seq = read[p].seq
          /\ file'.key = IF read[p] = Session!NoSession THEN token[p] ELSE read[p].key
      BY <3>1, ContentFields
    <3>3. read[p] = Session!NoSession /\ file'.key = token[p]
      BY <3>1, <3>2
    <3>4. FreshToken(p) /\ token[p] # 0
      BY <1>0, <3>1, StateTypes DEF FreshTokens, FreshToken
    <3> QED
      BY <3>3, <3>4, StateTypes, <1>0 DEF FreshToken, Apart
  <2>2. /\ read'["agent"] \in Session!Session \union {Session!NoSession}
        /\ read'["agent"] \in {read["agent"], Session!NoSession}
    BY <1>0, <1>2, StateTypes
  <2>3. file' \in Session!Session \union {Session!NoSession}
    BY <1>4 DEF Session!TypeOK
  <2> QED
    BY <2>1, <2>2, <2>3, FileMoves
<1>10. RuntimeInv' /\ WriterInv'
  BY OthersKept
<1> QED
  BY <1>4, <1>5, <1>6, <1>7, <1>8, <1>9, <1>10 DEF SessionInv, TokenInv

\* So does a process whose answer is lost, or whose session cannot be saved.
LEMMA AnswerLostKeeps ==
  ASSUME SessionBounds, SessionInv, NEW p \in Session!Process,
         Session!RefreshIsLost(p) \/ Session!SaveFails(p)
  PROVE  SessionInv'
<1>1. Session!TypeOK
  BY DEF SessionInv
<1>2. CASE Session!RefreshIsLost(p)
  <2>1. /\ Session!Fails(p) /\ pc[p] \in {"revoked", "issued"} /\ lost' = TRUE /\ file' = file
        /\ clobbered' = clobbered /\ crashes' = crashes
        /\ UNCHANGED <<Session!serverVars, runs, Session!runtimeVars, Session!writerVars,
                       unsaved>>
    BY <1>2 DEF Session!RefreshIsLost
  <2>2. crashes' \in 0 .. MaxCrashes /\ clobbered \in BOOLEAN
    BY <1>1, <2>1 DEF Session!TypeOK
  <2>3. clobbered' = (clobbered \/ (file' # file /\ read[p] # file))
    BY <2>1, <2>2
  <2> QED
    BY <2>1, <2>2, <2>3, FailsKeeps
<1>3. CASE Session!SaveFails(p)
  <2>1. /\ Session!Fails(p) /\ pc[p] \in {"issued", "redeemed"} /\ lost' = TRUE
        /\ file' \in {file, Session!NoSession, Session!Content(p)}
        /\ clobbered' = (clobbered \/ (file' # file /\ read[p] # file))
        /\ crashes' = crashes + 1 /\ crashes < MaxCrashes
        /\ UNCHANGED <<Session!serverVars, runs, Session!runtimeVars, Session!writerVars,
                       unsaved>>
    BY <1>3 DEF Session!SaveFails, Session!Fault, Session!HalfWritten
  <2>2. crashes' \in 0 .. MaxCrashes
    BY <1>1, <2>1 DEF Session!TypeOK, SessionBounds
  <2> QED
    BY <2>1, <2>2, FailsKeeps
<1> QED
  BY <1>2, <1>3

\* A session that is saved has the new token; it has another state only if the file was
\* written since it was read, and another key only after a sign-in.
LEMMA SaveSessionKeeps ==
  ASSUME SessionBounds, SessionInv, NEW p \in Session!Process, Session!SaveSession(p)
  PROVE  SessionInv'
<1>0. /\ Session!TypeOK /\ ProcessInv /\ FreshTokens /\ p \in Holding
  BY DEF SessionInv, TokenInv, Holding, Session!SaveSession
<1> USE DEF Session!serverVars, Session!runtimeVars, Session!writerVars
<1>1. PICK f : f = Session!Content(p)
  OBVIOUS
<1>2. /\ f \in Session!Session /\ f.token = token[p] /\ f.seq = read[p].seq
      /\ f.key = IF read[p] = Session!NoSession THEN token[p] ELSE read[p].key
      /\ Known(f) /\ \A q \in Holding \ {p} : Apart(token[q], f)
  BY <1>0, <1>1, ContentFields
<1>3. PICK s \in {"ready", "idle"}, r \in {f, Session!NoSession} :
        /\ pc' = [pc EXCEPT ![p] = s] /\ read' = [read EXCEPT ![p] = r]
        /\ token' = [token EXCEPT ![p] = 0]
        /\ s = "ready" => r = f /\ pc[p] = "issued"
        /\ s = "idle" => r = Session!NoSession
  BY <1>1 DEF Session!SaveSession, Session!Ends, Session!Leaves
<1>4. /\ file' \in {f, Session!NoSession} /\ (~clobbered' => ~clobbered /\ read[p] = file)
      /\ read[p] = file => file' = f
      /\ clobbered' \in BOOLEAN
      /\ UNCHANGED <<live, aged, sessionIssued, logins, runs, up, mem, rtKey, seq, timer,
                     queued, wpc, next, base, latest, lost, unsaved, crashes>>
  BY <1>0, <1>1 DEF Session!SaveSession, Session!Written, Session!Loses, Session!TypeOK
<1>5. /\ pc'[p] = s /\ read'[p] = r
      /\ \A q \in Session!Process \ {p} : pc'[q] = pc[q] /\ read'[q] = read[q] /\ token'[q] = token[q]
  BY <1>0, <1>3 DEF Session!TypeOK
<1>6. FreshToken(p) /\ token[p] \in live /\ token[p] # 0
  BY <1>0, StateTypes DEF FreshTokens, FreshToken
<1>7. r \in Session!Session \union {Session!NoSession} /\ f # Session!NoSession
  BY <1>2, <1>6, SessionFields
<1>8. Session!TypeOK'
  <2>1. pc' \in [Session!Process -> Session!ProcState]
    BY <1>0, <1>3 DEF Session!TypeOK, Session!ProcState
  <2>2. /\ read' \in [Session!Process -> Session!Session \union {Session!NoSession}]
        /\ file' \in Session!Session \union {Session!NoSession}
        /\ token' \in [Session!Process -> 0 .. MaxToken]
    BY <1>0, <1>2, <1>3, <1>4, <1>7 DEF Session!TypeOK, SessionBounds
  <2> QED
    BY <1>0, <1>4, <2>1, <2>2 DEF Session!TypeOK
<1>9. ProcessInv'
  BY <1>0, <1>3, <1>4, <1>5, <1>7 DEF ProcessInv
<1>10. AllIssued' /\ FreshTokens'
  <2>1. Holding' \subseteq Holding \ {p} /\ \A q \in Holding' : token'[q] = token[q]
    BY <1>5 DEF Holding
  <2>2. /\ \A q \in Session!Process : Seen(read'[q]) \/ read'[q] = f
        /\ Seen(file') \/ file' = f
        /\ Seen(mem') /\ \A w \in Session!Writer : Seen(latest'[w])
    BY <1>4, <1>5 DEF Seen
  <2> QED
    BY <1>2, <1>4, <2>1, <2>2, TokensStay
<1>11. OneLive'
  <2>1. Revoked' = Revoked
    BY <1>0, <1>5 DEF Revoked, Holding
  <2> QED
    BY <1>4, <2>1, FewerLive
<1>12. FileIsLive'
  BY <1>2, <1>4, <1>6 DEF FileIsLive
<1>13. SeqInv'
  <2>1. ~clobbered' =>
          /\ ~clobbered
          /\ \/ file'.key = file.key /\ file'.seq = file.seq
             \/ file'.key \notin {0, rtKey, read["agent"].key}
    BY <1>0, <1>2, <1>4, <1>6, StateTypes DEF FreshToken, Apart
  <2>2. read'["agent"] \in Session!Session \union {Session!NoSession}
    BY <1>8, StateTypes DEF Session!TypeOK, Session!Process
  <2>3. \/ read'["agent"].key = read["agent"].key /\ read'["agent"].seq = read["agent"].seq
        \/ read'["agent"] = Session!NoSession
    <3>1. CASE p = "agent"
      BY <1>0, <1>2, <1>3, <1>5, <3>1 DEF ProcessInv
    <3>2. CASE p # "agent"
      BY <1>5, <3>2, StateTypes, <1>0
    <3> QED
      BY <3>1, <3>2
  <2>4. file' \in Session!Session \union {Session!NoSession}
    BY <1>2, <1>4
  <2> QED
    BY <1>4, <2>1, <2>2, <2>3, <2>4, FileMoves
<1>14. RuntimeInv' /\ WriterInv'
  BY <1>4, OthersKept
<1> QED
  BY <1>8, <1>9, <1>10, <1>11, <1>12, <1>13, <1>14 DEF SessionInv, TokenInv

\* A logout deletes the file.
LEMMA LogoutUnlinksKeeps ==
  ASSUME SessionBounds, SessionInv, NEW p \in Session!Process, Session!LogoutUnlinks(p)
  PROVE  SessionInv'
<1>0. /\ Session!TypeOK /\ ProcessInv /\ RuntimeInv /\ WriterInv
  BY DEF SessionInv, TokenInv
<1> USE DEF Session!LogoutUnlinks, Session!Ends, Session!Leaves, Session!serverVars, Session!runtimeVars,
            Session!writerVars
<1>1. /\ pc' = [pc EXCEPT ![p] = "idle"] /\ read' = [read EXCEPT ![p] = Session!NoSession]
      /\ token' = [token EXCEPT ![p] = 0] /\ file' = Session!NoSession /\ pc[p] = "unlink"
      /\ UNCHANGED <<live, aged, sessionIssued, logins, runs, up, mem, rtKey, seq,
                      timer,
                     queued, wpc, next, base, latest, lost, unsaved, crashes>>
  OBVIOUS
<1>2. ~clobbered' => ~clobbered
  BY DEF Session!Loses
<1>3. /\ pc'[p] = "idle" /\ read'[p] = Session!NoSession
      /\ \A q \in Session!Process \ {p} : pc'[q] = pc[q] /\ read'[q] = read[q] /\ token'[q] = token[q]
  BY <1>0, <1>1 DEF Session!TypeOK
<1>4. Session!TypeOK'
  <2>1. /\ pc' \in [Session!Process -> Session!ProcState]
        /\ token' \in [Session!Process -> 0 .. MaxToken]
    BY <1>0, <1>1 DEF Session!TypeOK, Session!ProcState, SessionBounds
  <2>2. /\ read' \in [Session!Process -> Session!Session \union {Session!NoSession}]
        /\ file' \in Session!Session \union {Session!NoSession}
    BY <1>0, <1>1 DEF Session!TypeOK
  <2>3. clobbered' \in BOOLEAN
    BY <1>0 DEF Session!Loses, Session!TypeOK
  <2> QED
    BY <1>0, <1>1, <2>1, <2>2, <2>3 DEF Session!TypeOK
<1>5. ProcessInv'
  BY <1>0, <1>1, <1>3 DEF ProcessInv
<1>6. AllIssued' /\ FreshTokens'
  <2>1. Holding' \subseteq Holding /\ \A q \in Holding' : token'[q] = token[q]
    BY <1>1, <1>3 DEF Holding
  <2>2. /\ \A q \in Session!Process : Seen(read'[q])
        /\ Seen(file) /\ Seen(file') /\ Seen(mem')
        /\ \A w \in Session!Writer : Seen(latest'[w])
    BY <1>1, <1>3 DEF Seen
  <2> QED
    BY <1>1, <2>1, <2>2, SeenBefore, TokensStay
<1>9. OneLive'
  <2>1. Revoked' = Revoked
    BY <1>1, <1>3 DEF Revoked
  <2> QED
    BY <1>1, <2>1, FewerLive
<1>10. FileIsLive'
  BY <1>1 DEF FileIsLive
<1>11. SeqInv'
  <2>1. /\ read'["agent"] \in Session!Session \union {Session!NoSession}
        /\ read'["agent"] \in {read["agent"], Session!NoSession}
    BY <1>0, <1>3, StateTypes
  <2>2. UNCHANGED <<rtKey, seq, mem, timer, queued, wpc, next, base>>
    BY <1>1
  <2> QED
    BY <1>1, <1>2, <2>1, <2>2, FileMoves
<1>12. RuntimeInv' /\ WriterInv'
  BY <1>1, OthersKept
<1> QED
  BY <1>4, <1>5, <1>6, <1>9, <1>10, <1>11, <1>12 DEF SessionInv, TokenInv

-----------------------------------------------------------------------------
(* Steps of the running agent.                                              *)

\* A step that keeps the file and the processes keeps what is said of the tokens.
LEMMA TokensKept ==
  ASSUME SessionBounds, SessionInv,
         UNCHANGED <<file, live, sessionIssued, logins, pc, read, token, lost, clobbered,
                      rtKey>>,
         mem' \in {mem, Session!NoSession},
         \A w \in Session!Writer :
           /\ latest'[w] \in {latest[w], file, Session!NoSession}
           /\ base'[w].key \in {0, base[w].key, mem.key}
  PROVE  TokenInv'
<1>1. OneLive /\ FileIsLive
  BY DEF SessionInv, TokenInv
<1>2. AllIssued' /\ FreshTokens'
  <2>1. Holding' = Holding
    BY DEF Holding
  <2>2. /\ Seen(file) /\ Seen(file') /\ Seen(mem') /\ \A q \in Session!Process : Seen(read'[q])
        /\ \A w \in Session!Writer : Seen(latest'[w])
    BY DEF Seen
  <2> QED
    BY <2>1, <2>2, SeenBefore, TokensStay
<1>3. OneLive' /\ FileIsLive'
  BY <1>1 DEF OneLive, Revoked, FileIsLive
<1> QED
  BY <1>2, <1>3 DEF TokenInv

\* A number is used only with the timer set, or with no session to persist.
LEMMA EncryptKeeps ==
  ASSUME SessionBounds, SessionInv, Session!EncryptEvent
  PROVE  SessionInv'
<1>0. Session!TypeOK /\ ProcessInv /\ RuntimeInv /\ WriterInv /\ AllIssued /\ SeqInv
  BY DEF SessionInv, TokenInv
<1> USE DEF Session!EncryptEvent, Session!serverVars, Session!procVars,
            Session!historyVars
<1>1. UNCHANGED <<file, live, aged, sessionIssued, logins, runs, pc, read, token,
                   up, mem,
                  rtKey, queued, wpc, next, base, latest, clobbered, lost, crashes>>
  OBVIOUS
<1>2. seq' = seq + 1 /\ seq < MaxSeq /\ rtKey # 0 /\ seq \in Nat
      /\ timer' = (timer \/ mem # Session!NoSession)
      /\ unsaved' = (unsaved \/ mem = Session!NoSession)
  BY <1>0, StateTypes DEF RuntimeInv
<1>3. Session!TypeOK'
  <2>1. seq' \in 0 .. MaxSeq
    BY <1>0, <1>2 DEF SessionBounds
  <2>2. timer' \in BOOLEAN /\ unsaved' \in BOOLEAN
    BY <1>0, <1>2 DEF Session!TypeOK
  <2> QED
    BY <1>0, <1>1, <2>1, <2>2 DEF Session!TypeOK
<1>4. ProcessInv' /\ RuntimeInv' /\ WriterInv'
  BY <1>0, <1>1, <1>2 DEF ProcessInv, RuntimeInv, WriterInv
<1>5. TokenInv'
  BY <1>0, <1>1, TokensKept DEF AllIssued
<1>6. SeqInv'
  <2> SUFFICES ASSUME ~clobbered PROVE (ReadIsFile /\ NoneAhead /\ FileKeepsUp /\ WillBeWritten)'
    BY <1>1 DEF SeqInv
  <2>1. ReadIsFile /\ NoneAhead /\ FileKeepsUp
    BY <1>0 DEF SeqInv
  <2>2. \A n \in Nat : n <= seq => n <= seq'
    BY <1>2
  <2>3. /\ file.seq \in Nat /\ mem.seq \in Nat /\ read["agent"].seq \in Nat
        /\ \A w \in Session!Writer : next[w].seq \in Nat
    BY <1>0, StateTypes, SessionFields DEF Session!E2E, SessionBounds
  <2>4. NoneAhead'
    BY <1>1, <2>1, <2>2, <2>3 DEF NoneAhead
  <2>5. ReadIsFile' /\ FileKeepsUp'
    BY <1>1, <2>1 DEF ReadIsFile, FileKeepsUp, SameKey
  <2>6. WillBeWritten'
    BY <1>2 DEF WillBeWritten
  <2> QED
    BY <2>4, <2>5, <2>6
<1> QED
  BY <1>3, <1>4, <1>5, <1>6 DEF SessionInv

\* A writer begins with the state the agent remembers, and its own number or peer.
LEMMA StartWriterKeeps ==
  ASSUME SessionBounds, SessionInv, NEW w \in Session!Writer, NEW e \in Session!E2E,
         mem # Session!NoSession, wpc[w] = "idle", Session!StartWriter(w, e), e.key = mem.key,
         w = "merge" => e.seq = mem.seq,
         w = "flush" => e.seq = seq
  PROVE  /\ wpc' \in [Session!Writer -> {"idle", "reading", "writing"}]
         /\ next' \in [Session!Writer -> Session!E2E]
         /\ base' \in [Session!Writer -> Session!E2E]
         /\ UNCHANGED latest => WriterInv'
         /\ \A v \in Session!Writer : base'[v].key \in {base[v].key, mem.key}
         /\ \A v \in Session!Writer \ {w} : wpc'[v] = wpc[v] /\ next'[v] = next[v] /\ base'[v] = base[v]
         /\ wpc'[w] = "reading" /\ next'[w] = e
         /\ base'[w].key = mem.key /\ base'[w].seq = mem.seq
<1>0. Session!TypeOK /\ WriterInv /\ AllIssued /\ mem \in Session!Session
  BY StateTypes DEF SessionInv, TokenInv
<1>1. /\ wpc' = [wpc EXCEPT ![w] = "reading"] /\ next' = [next EXCEPT ![w] = e]
      /\ base' = [base EXCEPT ![w] = Session!State(mem)]
  BY DEF Session!StartWriter
<1>2. /\ Session!State(mem) \in Session!E2E /\ Session!State(mem).key = mem.key
      /\ Session!State(mem).seq = mem.seq
      /\ mem.key # 0 /\ mem.key <= sessionIssued
  BY <1>0, StateFields, SessionFields DEF AllIssued, Known
<1>3. /\ wpc' \in [Session!Writer -> {"idle", "reading", "writing"}]
      /\ next' \in [Session!Writer -> Session!E2E] /\ base' \in [Session!Writer -> Session!E2E]
  BY <1>0, <1>1, <1>2 DEF Session!TypeOK
<1>4. /\ \A v \in Session!Writer \ {w} : wpc'[v] = wpc[v] /\ next'[v] = next[v] /\ base'[v] = base[v]
      /\ wpc'[w] = "reading" /\ next'[w] = e /\ base'[w] = Session!State(mem)
  BY <1>0, <1>1 DEF Session!TypeOK
<1>5. \A v \in Session!Writer : base'[v].key \in {base[v].key, mem.key}
  BY <1>2, <1>4
<1>6. UNCHANGED latest => WriterInv'
  BY <1>0, <1>2, <1>4, StateTypes DEF WriterInv
<1> QED
  BY <1>2, <1>3, <1>4, <1>5, <1>6

\* A flush writes what is not on file, or is asked for again.
LEMMA FlushKeeps ==
  ASSUME SessionBounds, SessionInv, Session!Flush
  PROVE  SessionInv'
<1>0. Session!TypeOK /\ ProcessInv /\ RuntimeInv /\ WriterInv /\ AllIssued /\ SeqInv
  BY DEF SessionInv, TokenInv
<1> USE DEF Session!serverVars, Session!procVars, Session!runtimeVars, Session!historyVars
<1>1. UNCHANGED <<file, live, aged, sessionIssued, logins, runs, pc, read, token,
                   up, mem,
                  rtKey, seq, latest, clobbered, lost, crashes>>
  BY DEF Session!Flush
<1>2. /\ timer /\ timer' = FALSE /\ rtKey # 0 /\ unsaved' \in BOOLEAN
      /\ unsaved' = (unsaved \/ mem = Session!NoSession)
  BY <1>0 DEF Session!Flush, RuntimeInv, Session!TypeOK
<1>3. \/ mem = Session!NoSession /\ UNCHANGED <<queued, wpc, next, base>>
      \/ wpc["flush"] # "idle" /\ queued' = TRUE /\ UNCHANGED <<wpc, next, base>>
      \/ mem # Session!NoSession /\ mem.seq = seq /\ UNCHANGED <<queued, wpc, next, base>>
      \/ /\ mem # Session!NoSession /\ wpc["flush"] = "idle" /\ UNCHANGED queued
         /\ Session!StartWriter("flush", [Session!State(mem) EXCEPT !.seq = seq])
  BY DEF Session!Flush
<1>4. ProcessInv'
  BY <1>0, <1>1 DEF ProcessInv
<1>5. ~clobbered => ReadIsFile /\ NoneAhead /\ FileKeepsUp
  BY <1>0 DEF SeqInv
<1>6. CASE UNCHANGED <<wpc, next, base>> /\ queued' \in {queued, TRUE}
  <2>1. Session!TypeOK'
    <3>1. timer' \in BOOLEAN /\ queued' \in BOOLEAN
      BY <1>0, <1>2, <1>6 DEF Session!TypeOK
    <3> QED
      BY <1>0, <1>1, <1>2, <1>6, <3>1 DEF Session!TypeOK
  <2>2. RuntimeInv' /\ WriterInv'
    BY <1>0, <1>1, <1>2, <1>6 DEF RuntimeInv, WriterInv
  <2>3. TokenInv'
    BY <1>0, <1>1, <1>6, TokensKept DEF AllIssued
  <2>4. (~clobbered => ReadIsFile /\ NoneAhead /\ FileKeepsUp)'
    BY <1>1, <1>5, <1>6 DEF ReadIsFile, NoneAhead, FileKeepsUp, SameKey
  <2>5. (~clobbered => WillBeWritten)'
    <3> SUFFICES ASSUME ~clobbered, SameKey
                 PROVE  file.seq >= seq \/ unsaved' \/ (wpc["flush"] # "idle" /\ queued')
      BY <1>1, <1>6 DEF WillBeWritten, SameKey
    <3>1. mem.seq <= file.seq
      BY <1>5 DEF FileKeepsUp
    <3> QED
      BY <1>0, <1>2, <1>3, <1>6, <3>1 DEF Session!StartWriter, Session!TypeOK, Session!Writer
  <2> QED
    BY <1>4, <2>1, <2>2, <2>3, <2>4, <2>5 DEF SessionInv, SeqInv
<1>7. CASE /\ mem # Session!NoSession /\ wpc["flush"] = "idle" /\ UNCHANGED queued
           /\ Session!StartWriter("flush", [Session!State(mem) EXCEPT !.seq = seq])
  <2>1. PICK e : e = [Session!State(mem) EXCEPT !.seq = seq]
    OBVIOUS
  <2>2. e \in Session!E2E /\ e.key = mem.key /\ e.seq = seq
    <3>1. /\ Session!State(mem) \in Session!E2E /\ Session!State(mem).key = mem.key
          /\ seq \in 0 .. MaxSeq
      BY <1>0, StateTypes, StateFields DEF Session!TypeOK
    <3> QED
      BY <2>1, <3>1 DEF Session!E2E
  <2>3. /\ wpc' \in [Session!Writer -> {"idle", "reading", "writing"}]
        /\ next' \in [Session!Writer -> Session!E2E]
        /\ base' \in [Session!Writer -> Session!E2E]
        /\ WriterInv' /\ \A v \in Session!Writer : base'[v].key \in {base[v].key, mem.key}
        /\ wpc'["merge"] = wpc["merge"] /\ next'["merge"] = next["merge"]
        /\ base'["merge"] = base["merge"]
        /\ wpc'["flush"] = "reading" /\ next'["flush"] = e
        /\ base'["flush"].key = mem.key /\ base'["flush"].seq = mem.seq
    BY <1>1, <1>7, <2>1, <2>2, StartWriterKeeps DEF Session!Writer
  <2>4. Session!TypeOK'
    <3>1. timer' \in BOOLEAN
      BY <1>2
    <3> QED
      BY <1>0, <1>1, <1>2, <1>7, <2>3, <3>1 DEF Session!TypeOK
  <2>5. RuntimeInv'
    BY <1>0, <1>1, <1>2 DEF RuntimeInv
  <2>6. TokenInv'
    BY <1>1, <2>3, TokensKept
  <2>7. SeqInv'
    <3> SUFFICES ASSUME ~clobbered
                 PROVE  (ReadIsFile /\ NoneAhead /\ FileKeepsUp /\ WillBeWritten)'
      BY <1>1 DEF SeqInv
    <3>1. e.key = rtKey => mem.seq <= e.seq /\ e.seq <= seq
      BY <1>0, <1>2, <1>5, <2>2, StateTypes DEF NoneAhead
    <3>2. NoneAhead'
      BY <1>1, <1>2, <1>5, <2>3, <3>1 DEF NoneAhead, Session!Writer
    <3>3. ReadIsFile' /\ FileKeepsUp'
      BY <1>1, <1>5 DEF ReadIsFile, FileKeepsUp, SameKey
    <3>4. WillBeWritten'
      BY <1>1, <2>2, <2>3 DEF WillBeWritten
    <3> QED
      BY <3>2, <3>3, <3>4
  <2> QED
    BY <1>4, <2>3, <2>4, <2>5, <2>6, <2>7 DEF SessionInv
<1> QED
  BY <1>3, <1>6, <1>7

\* Merging peers keeps the numbers.
LEMMA MergeKeeps ==
  ASSUME SessionBounds, SessionInv, Session!MergePeers
  PROVE  SessionInv'
<1>0. Session!TypeOK /\ ProcessInv /\ RuntimeInv /\ WriterInv /\ AllIssued /\ SeqInv
  BY DEF SessionInv, TokenInv
<1> USE DEF Session!serverVars, Session!procVars, Session!runtimeVars, Session!historyVars
<1>1. /\ UNCHANGED <<file, live, aged, sessionIssued, logins, runs, pc, read,
                      token, up,
                     mem, rtKey, seq, timer, queued, latest, clobbered, lost, unsaved, crashes>>
      /\ Session!StartWriter("merge", [Session!State(mem) EXCEPT !.peer = TRUE])
      /\ wpc["merge"] = "idle" /\ mem # Session!NoSession /\ rtKey # 0
  BY <1>0 DEF Session!MergePeers, Session!Running, RuntimeInv
<1>2. PICK e : e = [Session!State(mem) EXCEPT !.peer = TRUE]
  OBVIOUS
<1>3. e \in Session!E2E /\ e.key = mem.key /\ e.seq = mem.seq
  <2>1. /\ Session!State(mem) \in Session!E2E /\ Session!State(mem).key = mem.key
        /\ Session!State(mem).seq = mem.seq
    BY <1>0, StateTypes, StateFields
  <2> QED
    BY <1>2, <2>1 DEF Session!E2E
<1>4. /\ wpc' \in [Session!Writer -> {"idle", "reading", "writing"}]
      /\ next' \in [Session!Writer -> Session!E2E] /\ base' \in [Session!Writer -> Session!E2E]
      /\ WriterInv' /\ \A v \in Session!Writer : base'[v].key \in {base[v].key, mem.key}
      /\ wpc'["flush"] = wpc["flush"] /\ next'["flush"] = next["flush"]
      /\ base'["flush"] = base["flush"]
      /\ wpc'["merge"] = "reading" /\ next'["merge"] = e
      /\ base'["merge"].key = mem.key /\ base'["merge"].seq = mem.seq
  BY <1>1, <1>2, <1>3, StartWriterKeeps DEF Session!Writer
<1>5. Session!TypeOK'
  BY <1>0, <1>1, <1>4 DEF Session!TypeOK
<1>6. ProcessInv' /\ RuntimeInv'
  BY <1>0, <1>1 DEF ProcessInv, RuntimeInv
<1>7. TokenInv'
  BY <1>1, <1>4, TokensKept
<1>8. SeqInv'
  <2> SUFFICES ASSUME ~clobbered
               PROVE  (ReadIsFile /\ NoneAhead /\ FileKeepsUp /\ WillBeWritten)'
    BY <1>1 DEF SeqInv
  <2>1. ReadIsFile /\ NoneAhead /\ FileKeepsUp /\ WillBeWritten
    BY <1>0 DEF SeqInv
  <2>2. mem.key = rtKey => mem.seq <= seq
    BY <1>1, <2>1 DEF NoneAhead
  <2>3. mem.seq <= mem.seq
    BY <1>0, StateTypes, SessionFields DEF SessionBounds
  <2>4. NoneAhead'
    BY <1>1, <1>3, <1>4, <2>1, <2>2, <2>3 DEF NoneAhead, Session!Writer
  <2>5. ReadIsFile' /\ FileKeepsUp' /\ WillBeWritten'
    BY <1>1, <1>4, <2>1 DEF ReadIsFile, FileKeepsUp, WillBeWritten, SameKey
  <2> QED
    BY <2>4, <2>5
<1> QED
  BY <1>4, <1>5, <1>6, <1>7, <1>8 DEF SessionInv

\* What the end of a write leaves behind.
LEMMA WriterEndsKeeps ==
  ASSUME SessionBounds, SessionInv, NEW w \in Session!Writer, Session!WriterEnds(w), wpc[w] # "idle"
  PROVE  /\ wpc' \in [Session!Writer -> {"idle", "reading", "writing"}]
         /\ next' \in [Session!Writer -> Session!E2E]
         /\ base' \in [Session!Writer -> Session!E2E]
         /\ latest' \in [Session!Writer -> Session!Session \union {Session!NoSession}]
         /\ timer' \in BOOLEAN /\ queued' \in BOOLEAN
         /\ \A v \in Session!Writer \ {w} :
              /\ wpc'[v] = wpc[v] /\ next'[v] = next[v] /\ base'[v] = base[v]
              /\ latest'[v] = latest[v]
         /\ wpc'[w] = "idle" /\ latest'[w] = Session!NoSession /\ base'[w].key = 0
         /\ WriterInv' /\ rtKey # 0
         /\ \A v \in Session!Writer : base'[v].key \in {0, base[v].key}
<1>0. Session!TypeOK /\ WriterInv /\ AllIssued /\ RuntimeInv
  BY DEF SessionInv, TokenInv
<1>1. /\ wpc' = [wpc EXCEPT ![w] = "idle"] /\ next' = [next EXCEPT ![w] = Session!NoE2E]
      /\ base' = [base EXCEPT ![w] = Session!NoE2E]
      /\ latest' = [latest EXCEPT ![w] = Session!NoSession]
  BY DEF Session!WriterEnds
<1>2. Session!NoE2E \in Session!E2E /\ Session!NoE2E.key = 0
  BY DEF Session!NoE2E, Session!E2E, SessionBounds
<1>3. /\ wpc' \in [Session!Writer -> {"idle", "reading", "writing"}]
      /\ next' \in [Session!Writer -> Session!E2E] /\ base' \in [Session!Writer -> Session!E2E]
      /\ latest' \in [Session!Writer -> Session!Session \union {Session!NoSession}]
  BY <1>0, <1>1, <1>2 DEF Session!TypeOK
<1>4. timer' \in BOOLEAN /\ queued' \in BOOLEAN
  BY <1>0 DEF Session!WriterEnds, Session!FlushEnds, Session!TypeOK
<1>5. /\ \A v \in Session!Writer \ {w} :
           /\ wpc'[v] = wpc[v] /\ next'[v] = next[v] /\ base'[v] = base[v]
           /\ latest'[v] = latest[v]
      /\ wpc'[w] = "idle" /\ latest'[w] = Session!NoSession /\ base'[w].key = 0
  BY <1>0, <1>1, <1>2 DEF Session!TypeOK
<1>6. WriterInv'
  BY <1>0, <1>5 DEF WriterInv, Session!Writer
<1>7. rtKey # 0 /\ \A v \in Session!Writer : base'[v].key \in {0, base[v].key}
  BY <1>0, <1>5, StateTypes DEF RuntimeInv, AllIssued
<1> QED
  BY <1>3, <1>4, <1>5, <1>6, <1>7

\* A writer that finds no file, or a truncated one, forgets the session; what a flush was
\* to write is not saved then.
LEMMA PersistReadsKeeps ==
  ASSUME SessionBounds, SessionInv, NEW w \in Session!Writer, Session!PersistReads(w)
  PROVE  SessionInv'
<1>0. Session!TypeOK /\ ProcessInv /\ RuntimeInv /\ WriterInv /\ SeqInv
  BY DEF SessionInv, TokenInv
<1> USE DEF Session!serverVars, Session!procVars
<1>1. /\ UNCHANGED <<file, live, aged, sessionIssued, logins, runs, pc, read, token, up,
                     rtKey, seq, clobbered, lost, crashes>>
      /\ wpc[w] = "reading" /\ rtKey # 0
  BY <1>0 DEF Session!PersistReads, RuntimeInv
<1>2. ProcessInv'
  BY <1>0, <1>1 DEF ProcessInv
<1>3. ~clobbered => ReadIsFile /\ NoneAhead /\ FileKeepsUp /\ WillBeWritten
  BY <1>0 DEF SeqInv
<1>4. CASE /\ mem' = Session!NoSession /\ Session!WriterEnds(w)
           /\ unsaved' = (unsaved \/ w = "flush")
  <2>1. /\ wpc' \in [Session!Writer -> {"idle", "reading", "writing"}]
        /\ next' \in [Session!Writer -> Session!E2E] /\ base' \in [Session!Writer -> Session!E2E]
        /\ latest' \in [Session!Writer -> Session!Session \union {Session!NoSession}]
        /\ timer' \in BOOLEAN /\ queued' \in BOOLEAN
        /\ \A v \in Session!Writer \ {w} :
             /\ wpc'[v] = wpc[v] /\ next'[v] = next[v] /\ base'[v] = base[v]
             /\ latest'[v] = latest[v]
        /\ wpc'[w] = "idle" /\ latest'[w] = Session!NoSession /\ base'[w].key = 0
        /\ WriterInv'
        /\ \A v \in Session!Writer : base'[v].key \in {0, base[v].key}
    BY <1>1, <1>4, WriterEndsKeeps
  <2>2. Session!TypeOK'
    BY <1>0, <1>1, <1>4, <2>1 DEF Session!TypeOK
  <2>3. RuntimeInv'
    BY <1>0, <1>1 DEF RuntimeInv
  <2>4. TokenInv'
    BY <1>1, <1>4, <2>1, TokensKept
  <2>5. SeqInv'
    <3> SUFFICES ASSUME ~clobbered
                 PROVE  (ReadIsFile /\ NoneAhead /\ FileKeepsUp /\ WillBeWritten)'
      BY <1>1 DEF SeqInv
    <3>1. Session!NoSession.key = 0 /\ Session!NoSession.seq = 0
      BY DEF Session!NoSession
    <3>2. (ReadIsFile /\ NoneAhead)'
      BY <1>1, <1>3, <1>4, <2>1, <3>1 DEF ReadIsFile, NoneAhead
    <3>3. 0 <= file.seq
      BY <1>0, StateTypes, SessionFields DEF SessionBounds
    <3>4. FileKeepsUp'
      BY <1>1, <1>3, <1>4, <3>1, <3>3 DEF FileKeepsUp, SameKey
    <3>5. WillBeWritten'
      <4>1. CASE w = "flush"
        <5>1. unsaved' = TRUE
          BY <1>0, <1>4, <4>1 DEF Session!TypeOK
        <5> QED
          BY <5>1 DEF WillBeWritten
      <4>2. CASE w = "merge"
        <5>1. /\ timer' = timer /\ queued' = queued /\ unsaved' = unsaved
              /\ wpc'["flush"] = wpc["flush"] /\ next'["flush"] = next["flush"]
          BY <1>0, <1>4, <2>1, <4>2 DEF Session!WriterEnds, Session!Writer, Session!TypeOK
        <5> QED
          BY <1>1, <1>3, <5>1 DEF WillBeWritten, SameKey
      <4> QED
        BY <4>1, <4>2 DEF Session!Writer
    <3> QED
      BY <3>2, <3>4, <3>5
  <2> QED
    BY <1>2, <2>1, <2>2, <2>3, <2>4, <2>5 DEF SessionInv
<1>5. CASE /\ file # Session!NoSession /\ wpc' = [wpc EXCEPT ![w] = "writing"]
           /\ latest' = [latest EXCEPT ![w] = file]
           /\ UNCHANGED <<mem, queued, timer, next, base, unsaved>>
  <2>1. /\ wpc'[w] = "writing" /\ latest'[w] = file
        /\ \A v \in Session!Writer \ {w} : wpc'[v] = wpc[v] /\ latest'[v] = latest[v]
    BY <1>0, <1>5 DEF Session!TypeOK
  <2>2. Session!TypeOK'
    <3>1. /\ wpc' \in [Session!Writer -> {"idle", "reading", "writing"}]
          /\ latest' \in [Session!Writer -> Session!Session \union {Session!NoSession}]
      BY <1>0, <1>5 DEF Session!TypeOK
    <3> QED
      BY <1>0, <1>1, <1>5, <3>1 DEF Session!TypeOK
  <2>3. RuntimeInv' /\ WriterInv'
    BY <1>0, <1>1, <1>5, <2>1 DEF RuntimeInv, WriterInv
  <2>4. TokenInv'
    BY <1>1, <1>5, <2>1, TokensKept
  <2>5. SeqInv'
    <3>1. \A v \in Session!Writer : wpc'[v] # "idle" <=> wpc[v] # "idle"
      BY <1>1, <2>1
    <3>2. wpc'["flush"] # "idle" <=> wpc["flush"] # "idle"
      BY <3>1 DEF Session!Writer
    <3> QED
      BY <1>0, <1>1, <1>5, <3>1, <3>2
      DEF SeqInv, ReadIsFile, NoneAhead, FileKeepsUp, WillBeWritten, SameKey
  <2> QED
    BY <1>2, <2>2, <2>3, <2>4, <2>5 DEF SessionInv
<1> QED
  BY <1>4, <1>5 DEF Session!PersistReads, Session!SignedOut, Session!Readings

\* The state on file moves on from the one the writer started from.
LEMMA StateWritten ==
  ASSUME SessionBounds, SessionInv, NEW w \in Session!Writer, wpc[w] = "writing",
         Session!WriterEnds(w), UNCHANGED <<rtKey, seq, read>>,
         NEW f, f = Session!Persisted(w), file' = f, mem' \in {mem, f},
         ~clobbered, ~Session!IsStale(w), clobbered' = clobbered,
         unsaved => unsaved' \/ (w = "flush" /\ next["flush"].seq = seq),
         w = "flush" => unsaved' \/ mem' # Session!NoSession
  PROVE  SeqInv'
<1>0. Session!TypeOK /\ WriterInv /\ rtKey # 0
  BY DEF SessionInv, RuntimeInv
<1>1. ReadIsFile /\ NoneAhead /\ FileKeepsUp /\ WillBeWritten
  BY DEF SessionInv, SeqInv
<1>2. f \in Session!Session /\ f.key = next[w].key /\ f.seq = next[w].seq
  BY PersistedFields
<1>3. latest[w] = file /\ base[w] = Session!State(mem) /\ base[w] = Session!State(file)
  BY DEF Session!IsStale
<1>4. /\ file.seq \in Nat /\ seq \in Nat /\ next[w].seq \in Nat /\ read["agent"].seq \in Nat
      /\ mem.seq \in Nat
  BY <1>0, StateTypes, SessionFields DEF Session!E2E, SessionBounds
<1>5. /\ base[w].key = file.key /\ base[w].seq = file.seq
      /\ base[w].key = mem.key /\ base[w].seq = mem.seq
  BY <1>0, <1>3, StateTypes, StateFields
<1>6. next[w].key = base[w].key /\ (w = "merge" => next[w].seq = base[w].seq)
  BY <1>0 DEF WriterInv
<1>7. next[w].key = rtKey => file.seq <= next[w].seq /\ next[w].seq <= seq
  BY <1>0, <1>1, <1>5 DEF NoneAhead
<1>8. /\ wpc' \in [Session!Writer -> {"idle", "reading", "writing"}]
      /\ next' \in [Session!Writer -> Session!E2E] /\ base' \in [Session!Writer -> Session!E2E]
      /\ latest' \in [Session!Writer -> Session!Session \union {Session!NoSession}]
      /\ timer' \in BOOLEAN /\ queued' \in BOOLEAN
      /\ \A v \in Session!Writer \ {w} :
           /\ wpc'[v] = wpc[v] /\ next'[v] = next[v] /\ base'[v] = base[v]
           /\ latest'[v] = latest[v]
      /\ wpc'[w] = "idle" /\ latest'[w] = Session!NoSession /\ base'[w].key = 0
      /\ WriterInv'
      /\ \A v \in Session!Writer : base'[v].key \in {0, base[v].key}
  BY WriterEndsKeeps
<1>9. NoneAhead'
  BY <1>0, <1>1, <1>2, <1>7, <1>8 DEF NoneAhead
<1>10. ReadIsFile'
  BY <1>0 DEF ReadIsFile
<1>11. SameKey' => SameKey /\ next[w].key = rtKey /\ file'.seq >= file.seq
  BY <1>2, <1>4, <1>5, <1>6, <1>7 DEF SameKey
<1>12. FileKeepsUp'
  <2> SUFFICES ASSUME SameKey' PROVE mem'.seq <= file'.seq /\ read["agent"].seq <= file'.seq
    BY DEF FileKeepsUp
  <2>1. mem.seq <= file.seq /\ read["agent"].seq <= file.seq
    BY <1>1, <1>11 DEF FileKeepsUp
  <2>2. mem'.seq \in {mem.seq, file'.seq} /\ file'.seq \in Nat /\ file'.seq >= file.seq
    BY <1>2, <1>4, <1>11
  <2> QED
    BY <1>4, <2>1, <2>2
<1>13. WillBeWritten'
  <2> SUFFICES ASSUME SameKey', ~unsaved'
               PROVE  \/ file'.seq >= seq
                      \/ timer'
                      \/ wpc'["flush"] # "idle" /\ (queued' \/ next'["flush"].seq = seq)
    BY DEF WillBeWritten
  <2>1. file.seq >= seq => file'.seq >= seq
    BY <1>2, <1>4, <1>11
  <2>2. CASE w = "flush"
    <3>1. timer \/ queued => timer'
      BY <2>2 DEF Session!WriterEnds, Session!FlushEnds
    <3>2. next["flush"].seq = seq => file'.seq >= seq
      BY <1>2, <1>4, <2>2
    <3> QED
      BY <1>1, <1>11, <2>1, <3>1, <3>2 DEF WillBeWritten
  <2>3. CASE w = "merge"
    <3>1. /\ timer' = timer /\ queued' = queued
          /\ wpc'["flush"] = wpc["flush"] /\ next'["flush"] = next["flush"]
      BY <1>8, <2>3 DEF Session!WriterEnds, Session!Writer
    <3> QED
      BY <1>1, <1>11, <2>1, <2>3, <3>1 DEF WillBeWritten
  <2> QED
    BY <2>2, <2>3 DEF Session!Writer
<1> QED
  BY <1>9, <1>10, <1>12, <1>13 DEF SeqInv

\* What a writer leaves behind when it is done, whether it has written the file or not.
LEMMA WriterIsDone ==
  ASSUME SessionBounds, SessionInv, NEW w \in Session!Writer, wpc[w] = "writing",
         Session!WriterEnds(w), UNCHANGED <<Session!serverVars, Session!procVars, up, rtKey, seq, lost>>,
         NEW f, f = Session!Persisted(w), file' \in {file, Session!NoSession, f},
         mem' \in {mem, f}, ~clobbered' => ~clobbered /\ (file' = f => latest[w] = file \/ file' = file),
         clobbered' \in BOOLEAN, unsaved' \in BOOLEAN, crashes' \in 0 .. MaxCrashes, SeqInv'
  PROVE  SessionInv'
<1>0. /\ Session!TypeOK /\ ProcessInv /\ RuntimeInv /\ OneLive /\ FileIsLive /\ rtKey # 0
  BY DEF SessionInv, TokenInv, RuntimeInv
<1> USE DEF Session!serverVars, Session!procVars
<1>1. /\ f \in Session!Session /\ f.token = latest[w].token
      /\ Known(f) /\ \A q \in Holding : Apart(token[q], f)
  BY PersistedFields
<1>2. /\ wpc' \in [Session!Writer -> {"idle", "reading", "writing"}]
      /\ next' \in [Session!Writer -> Session!E2E] /\ base' \in [Session!Writer -> Session!E2E]
      /\ latest' \in [Session!Writer -> Session!Session \union {Session!NoSession}]
      /\ timer' \in BOOLEAN /\ queued' \in BOOLEAN
      /\ \A v \in Session!Writer \ {w} :
           /\ wpc'[v] = wpc[v] /\ next'[v] = next[v] /\ base'[v] = base[v]
           /\ latest'[v] = latest[v]
      /\ wpc'[w] = "idle" /\ latest'[w] = Session!NoSession /\ base'[w].key = 0
      /\ WriterInv'
      /\ \A v \in Session!Writer : base'[v].key \in {0, base[v].key}
  BY WriterEndsKeeps
<1>3. Session!TypeOK'
  <2>1. /\ file' \in Session!Session \union {Session!NoSession}
        /\ mem' \in Session!Session \union {Session!NoSession}
    BY <1>0, <1>1 DEF Session!TypeOK
  <2> QED
    BY <1>0, <1>2, <2>1 DEF Session!TypeOK
<1>4. ProcessInv' /\ RuntimeInv'
  BY <1>0 DEF ProcessInv, RuntimeInv
<1>5. AllIssued' /\ FreshTokens'
  <2>1. Holding' = Holding
    BY DEF Holding
  <2>2. /\ Seen(file') \/ file' = f
        /\ Seen(mem') \/ mem' = f
        /\ \A q \in Session!Process : Seen(read'[q])
    BY DEF Seen
  <2>3. \A v \in Session!Writer : Seen(latest'[v])
    BY <1>2 DEF Seen
  <2>4. UNCHANGED <<sessionIssued, live, token, rtKey>>
    OBVIOUS
  <2> QED
    BY <1>1, <1>2, <2>1, <2>2, <2>3, <2>4, TokensStay
<1>6. OneLive'
  BY <1>0 DEF OneLive, Revoked
<1>7. FileIsLive'
  <2> SUFFICES ASSUME ~clobbered' PROVE FileIsLive'
    BY DEF FileIsLive
  <2>1. file' = Session!NoSession \/ file' = file \/ (latest[w] = file /\ file'.token = file.token)
    BY <1>1
  <2>2. latest[w] # Session!NoSession
    BY DEF SessionInv, WriterInv
  <2> QED
    BY <1>0, <2>1, <2>2 DEF FileIsLive
<1> QED
  BY <1>2, <1>3, <1>4, <1>5, <1>6, <1>7 DEF SessionInv, TokenInv

\* A write puts the number on file, unless something else was written since.
LEMMA PersistWritesKeeps ==
  ASSUME SessionBounds, SessionInv, NEW w \in Session!Writer, Session!PersistWrites(w)
  PROVE  SessionInv'
<1>0. Session!TypeOK
  BY DEF SessionInv
<1>1. PICK f : f = Session!Persisted(w)
  OBVIOUS
<1>2. /\ wpc[w] = "writing" /\ Session!WriterEnds(w) /\ mem' = f
      /\ file' \in {f, Session!NoSession} /\ (latest[w] = file => file' = f)
      /\ UNCHANGED <<Session!serverVars, Session!procVars, up, rtKey, seq, lost, crashes>>
  BY <1>1 DEF Session!PersistWrites, Session!Written
<1>3. /\ clobbered' = (clobbered \/ Session!IsStale(w))
      /\ unsaved' = (unsaved /\ (w = "merge" \/ next[w].seq # seq))
  BY DEF Session!PersistWrites
<1>4. clobbered' \in BOOLEAN /\ unsaved' \in BOOLEAN /\ crashes' \in 0 .. MaxCrashes
  BY <1>0, <1>2, <1>3 DEF Session!TypeOK
<1>5. f # Session!NoSession
  BY <1>1, <1>2, PersistedFields, SessionFields DEF SessionBounds, Session!Session, Session!NoSession
<1>6. ~clobbered' => ~clobbered /\ ~Session!IsStale(w) /\ latest[w] = file
  BY <1>3 DEF Session!IsStale
<1>7. SeqInv'
  <2> SUFFICES ASSUME ~clobbered' PROVE SeqInv'
    BY DEF SeqInv
  <2>1. ~clobbered /\ ~Session!IsStale(w) /\ file' = f /\ clobbered' = clobbered
    BY <1>0, <1>2, <1>4, <1>6 DEF Session!TypeOK
  <2>2. /\ unsaved => unsaved' \/ (w = "flush" /\ next["flush"].seq = seq)
        /\ w = "flush" => unsaved' \/ mem' # Session!NoSession
    BY <1>2, <1>3, <1>5 DEF Session!Writer
  <2>3. UNCHANGED <<rtKey, seq, read>> /\ mem' \in {mem, f}
    BY <1>2 DEF Session!procVars
  <2> QED
    BY <1>1, <1>2, <2>1, <2>2, <2>3, StateWritten
<1> QED
  BY <1>1, <1>2, <1>4, <1>6, <1>7, WriterIsDone

\* One that fails leaves the file as it was, truncated or written; what a flush was to
\* write may not be saved then.
LEMMA PersistFailsKeeps ==
  ASSUME SessionBounds, SessionInv, NEW w \in Session!Writer, Session!PersistFails(w)
  PROVE  SessionInv'
<1>0. Session!TypeOK /\ SeqInv /\ RuntimeInv
  BY DEF SessionInv
<1>1. PICK f : f = Session!Persisted(w)
  OBVIOUS
<1>2. /\ wpc[w] = "writing" /\ Session!WriterEnds(w) /\ mem' = mem
      /\ file' \in {file, Session!NoSession, f}
      /\ UNCHANGED <<Session!serverVars, Session!procVars, up, rtKey, seq, lost>>
      /\ crashes < MaxCrashes /\ crashes' = crashes + 1
  BY <1>1 DEF Session!PersistFails, Session!HalfWritten, Session!Fault, Session!runtimeVars
<1>3. /\ clobbered' = (clobbered \/ (file' # file /\ Session!IsStale(w)))
      /\ unsaved' = (unsaved \/ w = "flush")
  BY DEF Session!PersistFails
<1>4. clobbered' \in BOOLEAN /\ unsaved' \in BOOLEAN /\ crashes' \in 0 .. MaxCrashes
  BY <1>0, <1>2, <1>3 DEF Session!TypeOK, SessionBounds
<1>5. ~clobbered' => ~clobbered /\ clobbered' = clobbered /\ (file' = file \/ ~Session!IsStale(w))
  BY <1>0, <1>3, <1>4 DEF Session!TypeOK
<1>6. SeqInv'
  <2> SUFFICES ASSUME ~clobbered' PROVE SeqInv'
    BY DEF SeqInv
  <2>1. CASE file' = f /\ file' # file
    <3>1. UNCHANGED <<rtKey, seq, read>> /\ mem' \in {mem, f}
      BY <1>2 DEF Session!procVars
    <3> QED
      BY <1>1, <1>2, <1>3, <1>5, <2>1, <3>1, StateWritten
  <2>2. CASE file' \in {file, Session!NoSession}
    <3>1. ReadIsFile /\ NoneAhead /\ FileKeepsUp /\ WillBeWritten /\ rtKey # 0
      BY <1>0, <1>2, <1>5 DEF SeqInv, RuntimeInv
    <3>2. /\ wpc' \in [Session!Writer -> {"idle", "reading", "writing"}]
          /\ next' \in [Session!Writer -> Session!E2E] /\ base' \in [Session!Writer -> Session!E2E]
          /\ latest' \in [Session!Writer -> Session!Session \union {Session!NoSession}]
          /\ timer' \in BOOLEAN /\ queued' \in BOOLEAN
          /\ \A v \in Session!Writer \ {w} :
               /\ wpc'[v] = wpc[v] /\ next'[v] = next[v] /\ base'[v] = base[v]
               /\ latest'[v] = latest[v]
          /\ wpc'[w] = "idle" /\ latest'[w] = Session!NoSession /\ base'[w].key = 0
          /\ WriterInv'
          /\ \A v \in Session!Writer : base'[v].key \in {0, base[v].key}
      BY <1>2, WriterEndsKeeps
    <3>3. Session!NoSession.key = 0 /\ UNCHANGED <<rtKey, seq, read, mem>>
      BY <1>2 DEF Session!NoSession, Session!procVars
    <3>4. ReadIsFile' /\ NoneAhead'
      BY <2>2, <3>1, <3>2, <3>3 DEF ReadIsFile, NoneAhead
    <3>5. SameKey' => SameKey /\ file' = file
      BY <2>2, <3>3 DEF SameKey
    <3>6. FileKeepsUp'
      BY <3>1, <3>3, <3>5 DEF FileKeepsUp
    <3>7. CASE w = "flush"
      BY <1>3, <3>4, <3>6, <3>7 DEF SeqInv, WillBeWritten
    <3>8. CASE w = "merge"
      <4>1. /\ timer' = timer /\ queued' = queued /\ unsaved' = unsaved
            /\ wpc'["flush"] = wpc["flush"] /\ next'["flush"] = next["flush"]
        BY <1>0, <1>2, <1>3, <3>2, <3>8 DEF Session!WriterEnds, Session!Writer, Session!TypeOK
      <4>2. WillBeWritten'
        BY <3>1, <3>3, <3>5, <4>1 DEF WillBeWritten
      <4> QED
        BY <3>4, <3>6, <4>2 DEF SeqInv
    <3> QED
      BY <3>7, <3>8 DEF Session!Writer
  <2> QED
    BY <1>2, <2>1, <2>2
<1>7. ~clobbered' => ~clobbered /\ (file' = f => latest[w] = file \/ file' = file)
  BY <1>5 DEF Session!IsStale
<1> QED
  BY <1>1, <1>2, <1>4, <1>6, <1>7, WriterIsDone

\* The session an agent takes over is the one on file, or of another sign-in, or none, when
\* the runtime is made from it; later it is behind the file at most.
LEMMA TakesKeeps ==
  ASSUME SessionBounds, SessionInv, Session!AgentTakesSession
  PROVE  SessionInv'
<1>0. Session!TypeOK /\ ProcessInv /\ RuntimeInv /\ WriterInv /\ AllIssued /\ FreshTokens
      /\ OneLive /\ FileIsLive /\ SeqInv /\ "agent" \in Session!Process
  BY DEF SessionInv, TokenInv, Session!Process
<1> USE DEF Session!serverVars, Session!writerVars, Session!historyVars
<1>1. /\ pc' = [pc EXCEPT !["agent"] = "idle"]
      /\ read' = [read EXCEPT !["agent"] = Session!NoSession]
      /\ token' = [token EXCEPT !["agent"] = 0] /\ pc["agent"] \in {"ready", "refused"}
      /\ UNCHANGED <<file, live, aged, sessionIssued, logins, runs, up, timer,
                      queued,
                     wpc, next, base, latest, clobbered, lost, unsaved, crashes>>
  BY DEF Session!AgentTakesSession, Session!Ends, Session!Leaves
<1>2. \/ /\ rtKey = 0 /\ mem' \in {read["agent"], file, Session!NoSession}
         /\ rtKey' = mem'.key /\ seq' = mem'.seq
      \/ rtKey # 0 /\ mem' \in {read["agent"], mem} /\ rtKey' = rtKey /\ seq' = seq
  BY DEF Session!AgentTakesSession, Session!Readings
<1>3. up
  BY <1>0, <1>1 DEF ProcessInv
<1>4. /\ pc'["agent"] = "idle" /\ read'["agent"] = Session!NoSession
      /\ \A q \in Session!Process \ {"agent"} :
           pc'[q] = pc[q] /\ read'[q] = read[q] /\ token'[q] = token[q]
  BY <1>0, <1>1 DEF Session!TypeOK
<1>5. /\ mem' \in Session!Session \union {Session!NoSession} /\ mem'.key <= sessionIssued
      /\ mem'.token <= sessionIssued
  BY <1>0, <1>2, StateTypes DEF AllIssued, Known, Session!NoSession
<1>6. rtKey' \in 0 .. MaxToken /\ seq' \in 0 .. MaxSeq /\ rtKey' <= sessionIssued
  BY <1>0, <1>2, <1>5, SessionFields DEF Session!TypeOK, AllIssued
<1>7. Session!TypeOK'
  <2>1. /\ pc' \in [Session!Process -> Session!ProcState]
        /\ token' \in [Session!Process -> 0 .. MaxToken]
    BY <1>0, <1>1 DEF Session!TypeOK, Session!ProcState, SessionBounds
  <2>2. read' \in [Session!Process -> Session!Session \union {Session!NoSession}]
    BY <1>0, <1>1 DEF Session!TypeOK
  <2> QED
    BY <1>0, <1>1, <1>5, <1>6, <2>1, <2>2 DEF Session!TypeOK
<1>8. ProcessInv'
  BY <1>0, <1>1, <1>4 DEF ProcessInv
<1>9. RuntimeInv'
  <2>1. rtKey' = 0 => rtKey = 0 /\ mem' = Session!NoSession
    BY <1>2, <1>5, SessionFields
  <2> QED
    BY <1>0, <1>1, <1>3, <2>1 DEF RuntimeInv
<1>10. WriterInv'
  BY <1>0, <1>1 DEF WriterInv
<1>11. /\ Session!NoSession.token = 0 /\ Session!NoSession.key = 0 /\ Session!NoSession.seq = 0
       /\ sessionIssued \in Nat
  BY <1>0, StateTypes DEF Session!NoSession
<1>12. AllIssued' /\ FreshTokens'
  <2>1. Holding' \subseteq Holding /\ \A q \in Holding' : token'[q] = token[q]
    BY <1>1, <1>4 DEF Holding
  <2>2. /\ Seen(file) /\ Seen(file') /\ Seen(mem')
        /\ \A q \in Session!Process : Seen(read'[q])
        /\ \A w \in Session!Writer : Seen(latest'[w])
    BY <1>0, <1>1, <1>2, <1>4 DEF Seen
  <2>3. rtKey' \in {rtKey, mem'.key} /\ UNCHANGED <<sessionIssued, live, base>>
    BY <1>1, <1>2
  <2> QED
    BY <2>1, <2>2, <2>3, SeenBefore, TokensStay
<1>14. OneLive'
  <2>1. Revoked' = Revoked
    BY <1>1, <1>4 DEF Revoked
  <2> QED
    BY <1>0, <1>1, <2>1 DEF OneLive
<1>15. FileIsLive'
  BY <1>0, <1>1, <1>4 DEF FileIsLive
<1>16. SeqInv'
  <2> SUFFICES ASSUME ~clobbered
               PROVE  (ReadIsFile /\ NoneAhead /\ FileKeepsUp /\ WillBeWritten)'
    BY <1>1 DEF SeqInv
  <2>1. ReadIsFile /\ NoneAhead /\ FileKeepsUp /\ WillBeWritten
    BY <1>0 DEF SeqInv
  <2>2. /\ file.seq \in Nat /\ mem'.seq \in Nat
        /\ (file.key = 0 => file.seq = 0)
        /\ (mem' = Session!NoSession => mem'.key = 0)
        /\ read'["agent"].key = 0 /\ read'["agent"].seq = 0
    BY <1>0, <1>4, <1>5, <1>11, StateTypes, SessionFields DEF SessionBounds
  <2>3. ReadIsFile'
    <3>1. file' = file
      BY <1>1
    <3> QED
      BY <2>2, <3>1 DEF ReadIsFile
  <2>4. CASE rtKey = 0
    <3>1. /\ rtKey' = mem'.key /\ seq' = mem'.seq
          /\ \A w \in Session!Writer : wpc[w] = "idle"
      BY <1>0, <1>2, <2>4 DEF RuntimeInv
    <3>2. mem'.key = file.key => mem'.seq = file.seq
      BY <1>2, <1>11, <2>1, <2>2, <2>4 DEF ReadIsFile
    <3>3. file' = file /\ wpc' = wpc
      BY <1>1
    <3>4. NoneAhead'
      BY <2>2, <3>1, <3>2, <3>3 DEF NoneAhead
    <3>5. SameKey' => mem'.seq = file'.seq
      BY <2>2, <3>1, <3>2, <3>3 DEF SameKey
    <3>6. FileKeepsUp'
      BY <2>2, <3>3, <3>5 DEF FileKeepsUp
    <3>7. WillBeWritten'
      BY <2>2, <3>1, <3>3, <3>5 DEF WillBeWritten
    <3> QED
      BY <2>3, <3>4, <3>6, <3>7
  <2>5. CASE rtKey # 0
    <3>1. rtKey' = rtKey /\ seq' = seq /\ mem' \in {read["agent"], mem}
      BY <1>2, <2>5
    <3>2. /\ file' = file /\ wpc' = wpc /\ next' = next /\ base' = base
          /\ timer' = timer /\ queued' = queued /\ unsaved' = unsaved
      BY <1>1
    <3>3. NoneAhead'
      BY <2>1, <2>2, <2>5, <3>1, <3>2 DEF NoneAhead
    <3>4. FileKeepsUp'
      BY <1>3, <2>1, <2>2, <3>1, <3>2 DEF FileKeepsUp, SameKey
    <3>5. WillBeWritten'
      BY <2>1, <3>1, <3>2 DEF WillBeWritten, SameKey
    <3> QED
      BY <2>3, <3>3, <3>4, <3>5
  <2> QED
    BY <2>4, <2>5
<1> QED
  BY <1>7, <1>8, <1>9, <1>10, <1>12, <1>14, <1>15, <1>16 DEF SessionInv, TokenInv

\* A crash forgets everything but the file, and remembers that a token was lost.
LEMMA CrashKeeps ==
  ASSUME SessionBounds, SessionInv, Session!AgentCrashes
  PROVE  SessionInv'
<1>0. Session!TypeOK /\ ProcessInv /\ OneLive /\ FileIsLive
      /\ "agent" \in Session!Process
  BY DEF SessionInv, TokenInv, Session!Process
<1> USE DEF Session!serverVars
<1>1. /\ pc' = [pc EXCEPT !["agent"] = "idle"]
      /\ read' = [read EXCEPT !["agent"] = Session!NoSession]
      /\ token' = [token EXCEPT !["agent"] = 0]
      /\ UNCHANGED <<live, aged, sessionIssued, logins, runs, clobbered>>
      /\ mem' = Session!NoSession /\ rtKey' = 0 /\ seq' = 0
      /\ wpc' = [w \in Session!Writer |-> "idle"]
      /\ next' = [w \in Session!Writer |-> Session!NoE2E]
      /\ base' = [w \in Session!Writer |-> Session!NoE2E]
      /\ latest' = [w \in Session!Writer |-> Session!NoSession]
      /\ crashes < MaxCrashes /\ crashes' = crashes + 1
      /\ file' \in {file, Session!NoSession}
  BY DEF Session!AgentCrashes, Session!Ends, Session!Leaves, Session!Fault
<1>2. up' = FALSE /\ timer' = FALSE /\ queued' = FALSE /\ unsaved' = FALSE
  BY DEF Session!AgentCrashes
<1>3. lost' = (lost \/ pc["agent"] \in {"revoked", "issued"})
  BY DEF Session!AgentCrashes
<1>4. /\ pc'["agent"] = "idle" /\ read'["agent"] = Session!NoSession
      /\ \A q \in Session!Process \ {"agent"} :
           pc'[q] = pc[q] /\ read'[q] = read[q] /\ token'[q] = token[q]
  BY <1>0, <1>1 DEF Session!TypeOK
<1>5. /\ Session!NoE2E \in Session!E2E /\ Session!NoE2E.key = 0
      /\ Session!NoSession.token = 0 /\ Session!NoSession.key = 0 /\ Session!NoSession.seq = 0
      /\ sessionIssued \in Nat
  BY <1>0, StateTypes DEF Session!NoSession, Session!NoE2E, Session!E2E, SessionBounds
<1>6. Session!TypeOK'
  <2>1. /\ pc' \in [Session!Process -> Session!ProcState]
        /\ token' \in [Session!Process -> 0 .. MaxToken]
    BY <1>0, <1>1 DEF Session!TypeOK, Session!ProcState, SessionBounds
  <2>2. /\ read' \in [Session!Process -> Session!Session \union {Session!NoSession}]
        /\ latest' \in [Session!Writer -> Session!Session \union {Session!NoSession}]
        /\ wpc' \in [Session!Writer -> {"idle", "reading", "writing"}]
    BY <1>0, <1>1 DEF Session!TypeOK
  <2>3. next' \in [Session!Writer -> Session!E2E] /\ base' \in [Session!Writer -> Session!E2E]
    BY <1>1, <1>5
  <2>4. crashes' \in 0 .. MaxCrashes /\ rtKey' \in 0 .. MaxToken /\ seq' \in 0 .. MaxSeq
    BY <1>0, <1>1 DEF Session!TypeOK, SessionBounds
  <2>5. up' \in BOOLEAN /\ timer' \in BOOLEAN /\ queued' \in BOOLEAN /\ unsaved' \in BOOLEAN
    BY <1>2
  <2>6. lost' \in BOOLEAN /\ file' \in Session!Session \union {Session!NoSession}
    BY <1>0, <1>1, <1>3 DEF Session!TypeOK
  <2> QED
    BY <1>0, <1>1, <2>1, <2>2, <2>3, <2>4, <2>5, <2>6 DEF Session!TypeOK
<1>7. ProcessInv'
  BY <1>0, <1>4 DEF ProcessInv
<1>8. RuntimeInv'
  BY <1>1, <1>2 DEF RuntimeInv
<1>9. WriterInv'
  BY <1>1 DEF WriterInv, Session!Writer
<1>10. AllIssued' /\ FreshTokens'
  <2>1. Holding' \subseteq Holding /\ \A q \in Holding' : token'[q] = token[q]
    BY <1>1, <1>4 DEF Holding
  <2>2. /\ Seen(file) /\ Seen(file') /\ Seen(mem')
        /\ \A q \in Session!Process : Seen(read'[q])
        /\ \A w \in Session!Writer : Seen(latest'[w]) /\ base'[w].key = 0
    BY <1>1, <1>4, <1>5 DEF Seen
  <2>3. rtKey' = 0 /\ UNCHANGED <<sessionIssued, live>>
    BY <1>1
  <2> QED
    BY <2>1, <2>2, <2>3, SeenBefore, TokensStay
<1>12. OneLive'
  <2>1. Revoked' \subseteq Revoked
    BY <1>1, <1>4 DEF Revoked
  <2> QED
    BY <1>1, <2>1, FewerLive
<1>13. FileIsLive'
  BY <1>0, <1>1, <1>3, <1>4 DEF FileIsLive, ProcessInv
<1>14. SeqInv'
  <2>1. file'.key = 0 => file'.seq = 0
    BY <1>0, <1>1, <1>5, StateTypes, SessionFields
  <2> QED
    BY <1>1, <1>4, <1>5, <2>1
    DEF SeqInv, ReadIsFile, NoneAhead, FileKeepsUp, WillBeWritten, SameKey
<1> QED
  BY <1>6, <1>7, <1>8, <1>9, <1>10, <1>12, <1>13, <1>14 DEF SessionInv, TokenInv

\* Time is no concern of the invariant.
LEMMA WorldKeeps ==
  ASSUME SessionBounds, SessionInv, Session!TokenAges
  PROVE  SessionInv'
<1> USE DEF SessionInv, Session!procVars, Session!runtimeVars, Session!writerVars,
            Session!historyVars
<1>1. /\ UNCHANGED <<file, live, sessionIssued, logins, runs, pc, read, token, up, mem, rtKey,
                      seq,
                     timer, queued, wpc, next, base, latest, clobbered, lost, unsaved, crashes>>
      /\ aged' = aged + 1 /\ aged < sessionIssued /\ aged < MaxAged
  BY DEF Session!TokenAges
<1>2. Session!TypeOK'
  <2>1. aged' \in 0 .. sessionIssued /\ aged' <= MaxAged
    BY <1>1 DEF Session!TypeOK, SessionBounds
  <2> QED
    BY <1>1, <2>1 DEF Session!TypeOK
<1>3. ProcessInv' /\ RuntimeInv' /\ WriterInv'
  BY <1>1 DEF ProcessInv, RuntimeInv, WriterInv
<1>4. TokenInv'
  BY <1>1 DEF TokenInv, AllIssued, Known, FreshTokens, FreshToken, Holding, OneLive, Revoked, FileIsLive
<1>5. SeqInv'
  BY <1>1 DEF SeqInv, ReadIsFile, NoneAhead, FileKeepsUp, WillBeWritten, SameKey
<1> QED
  BY <1>2, <1>3, <1>4, <1>5

-----------------------------------------------------------------------------
(* The invariant.                                                           *)

\* It holds after the first sign-in,
LEMMA InitSession ==
  ASSUME SessionBounds, Session!Init
  PROVE  SessionInv
<1> USE DEF Session!Init
<1>1. /\ file \in Session!Session /\ file.token = 1 /\ file.key = 1 /\ file.seq = 0
      /\ Session!NoSession.token = 0 /\ Session!NoSession.key = 0 /\ Session!NoSession.seq = 0
  BY DEF Session!Session, Session!NoSession, SessionBounds
<1>2. Session!NoE2E \in Session!E2E /\ Session!NoE2E.key = 0
  BY DEF Session!NoE2E, Session!E2E, SessionBounds
<1>3. "agent" \in Session!Process
  BY DEF Session!Process
<1>4. Session!TypeOK
  <2>1. /\ live \in SUBSET (1 .. sessionIssued) /\ aged \in 0 .. sessionIssued
        /\ aged <= MaxAged
        /\ sessionIssued \in 1 .. MaxToken /\ logins \in Nat /\ runs \in 0 .. 1
        /\ seq \in 0 .. MaxSeq /\ rtKey \in 0 .. MaxToken /\ crashes \in 0 .. MaxCrashes
    BY DEF SessionBounds
  <2>2. /\ pc \in [Session!Process -> Session!ProcState]
        /\ token \in [Session!Process -> 0 .. MaxToken]
    BY DEF Session!ProcState, SessionBounds
  <2>3. /\ read \in [Session!Process -> Session!Session \union {Session!NoSession}]
        /\ latest \in [Session!Writer -> Session!Session \union {Session!NoSession}]
        /\ wpc \in [Session!Writer -> {"idle", "reading", "writing"}]
    OBVIOUS
  <2>4. next \in [Session!Writer -> Session!E2E] /\ base \in [Session!Writer -> Session!E2E]
    BY <1>2
  <2>5. up \in BOOLEAN /\ timer \in BOOLEAN /\ queued \in BOOLEAN
    OBVIOUS
  <2>6. clobbered \in BOOLEAN /\ lost \in BOOLEAN /\ unsaved \in BOOLEAN
    OBVIOUS
  <2> QED
    BY <1>1, <2>1, <2>2, <2>3, <2>4, <2>5, <2>6 DEF Session!TypeOK
<1>5. ProcessInv /\ RuntimeInv /\ WriterInv
  BY <1>3 DEF ProcessInv, RuntimeInv, WriterInv, Session!Writer
<1>6. AllIssued
  BY <1>1, <1>2 DEF AllIssued, Known
<1>7. FreshTokens /\ FileIsLive
  BY <1>1 DEF FreshTokens, Holding, FileIsLive
<1>8. OneLive
  <2>1. Revoked = {}
    BY DEF Revoked
  <2>2. Cardinality(live) = 1
    BY FS_Singleton
  <2> QED
    BY <2>1, <2>2, FS_EmptySet DEF OneLive
<1>9. SeqInv
  BY <1>1, <1>3 DEF SeqInv, ReadIsFile, NoneAhead, FileKeepsUp, WillBeWritten, SameKey
<1> QED
  BY <1>4, <1>5, <1>6, <1>7, <1>8, <1>9 DEF SessionInv, TokenInv

\* and every step keeps it.
LEMMA NextKeepsSession ==
  ASSUME SessionBounds, SessionInv, [Session!Next]_(Session!vars)
  PROVE  SessionInv'
<1>1. CASE UNCHANGED Session!vars
  <2>1. UNCHANGED <<file, live, aged, sessionIssued, logins, runs, pc, read,
                     token, up,
                    mem, rtKey, seq, timer, queued, wpc, next, base, latest, clobbered, lost, unsaved,
                    crashes>>
    BY <1>1 DEF Session!vars, Session!serverVars, Session!procVars, Session!runtimeVars,
       Session!writerVars, Session!historyVars
  <2>2. Session!TypeOK'
    BY <2>1 DEF SessionInv, Session!TypeOK
  <2>3. ProcessInv' /\ RuntimeInv' /\ WriterInv'
    BY <2>1 DEF SessionInv, ProcessInv, RuntimeInv, WriterInv
  <2>4. TokenInv'
    BY <2>1 DEF SessionInv, TokenInv, AllIssued, Known, FreshTokens, FreshToken, Holding, OneLive,
       Revoked, FileIsLive
  <2>5. SeqInv'
    BY <2>1 DEF SessionInv, SeqInv, ReadIsFile, NoneAhead, FileKeepsUp, WillBeWritten, SameKey
  <2> QED
    BY <2>2, <2>3, <2>4, <2>5 DEF SessionInv
<1>2. CASE \E p \in Session!Process :
             \/ Session!EnsureRead(p) \/ Session!PairingRefused(p) \/ Session!CommandEnds(p)
             \/ Session!RefreshRevokes(p) \/ Session!RefreshIssues(p) \/ Session!RefreshIsLost(p) \/ Session!SaveSession(p)
             \/ Session!SaveFails(p) \/ Session!CommandFails(p)
             \/ Session!LoginReads(p) \/ Session!LoginRedeems(p)
             \/ Session!LogoutReads(p) \/ Session!LogoutRevokes(p) \/ Session!LogoutUnlinks(p)
  BY <1>2, ReadingKeeps, RefreshRevokesKeeps, IssuesKeeps, AnswerLostKeeps,
     SaveSessionKeeps, LogoutRevokesKeeps, LogoutUnlinksKeeps
<1>3. CASE Session!StartWithoutSession \/ Session!AgentTakesSession \/ Session!EncryptEvent \/ Session!Flush
  BY <1>3, StartKeeps, TakesKeeps, EncryptKeeps, FlushKeeps
<1>4. CASE Session!SyncRefused \/ Session!MergePeers \/ Session!AgentCrashes
  BY <1>4, SyncRefusedKeeps, MergeKeeps, CrashKeeps
<1>5. CASE \E w \in Session!Writer : Session!PersistReads(w) \/ Session!PersistWrites(w) \/ Session!PersistFails(w)
  BY <1>5, PersistReadsKeeps, PersistWritesKeeps, PersistFailsKeeps
<1>6. CASE Session!TokenAges
  BY <1>6, WorldKeeps
<1> QED
  BY <1>1, <1>2, <1>3, <1>4, <1>5, <1>6 DEF Session!Next

\* What a reader wants to know of it.
LEMMA SessionIsSafe ==
  ASSUME SessionBounds, SessionInv
  PROVE  Session!TokensInStep /\ Session!UsedSeqIsOnFile
<1>1. Session!TokensInStep
  <2>1. live \subseteq 1 .. sessionIssued /\ sessionIssued \in Nat /\ logins \in Nat
    BY StateTypes DEF SessionInv
  <2>2. Cardinality(live) \in Nat /\ Cardinality(Revoked) \in Nat
    BY <2>1, Countable DEF Revoked
  <2>3. Cardinality(live) <= logins
    BY <2>1, <2>2 DEF SessionInv, TokenInv, OneLive
  <2> QED
    BY <2>3, SessionCounts DEF SessionInv, TokenInv, FileIsLive, Session!TokensInStep
<1>2. Session!UsedSeqIsOnFile
  <2> SUFFICES ASSUME up, rtKey # 0, ~timer, \A w \in Session!Writer : wpc[w] = "idle",
                      file.key = rtKey, ~clobbered, ~unsaved
               PROVE  file.seq >= seq
    BY DEF Session!UsedSeqIsOnFile
  <2>1. SameKey
    BY DEF SameKey
  <2> QED
    BY <2>1 DEF SessionInv, SeqInv, WillBeWritten, Session!Writer
<1> QED
  BY <1>1, <1>2

\* In every state the processes, the tokens, the runtime and the file fit together.
THEOREM SessionInvariant ==
  ASSUME SessionBounds PROVE Session!Spec => []SessionInv
<1>1. Session!Init => SessionInv
  BY InitSession
<1>2. SessionInv /\ [Session!Next]_(Session!vars) => SessionInv'
  BY NextKeepsSession
<1> QED
  BY <1>1, <1>2, PTL DEF Session!Spec
-----------------------------------------------------------------------------
(* Terminal sessions and keep-awake.                                        *)

TerminalBounds == MaxSpawns \in Nat /\ MaxLosses \in Nat

\* The session is still to be created, or its agent has not seen its process close.
InWork(s) ==
  \/ s \in creating
  \/ child[s] \in {"runs", "broken", "ended", "lost"}
  \/ \E i \in 1 .. Len(terminalToAgent) : terminalToAgent[i] = [type |-> "create", session |-> s]

\* A status that says how the session ended is on the wire, behind position k.
EndBehind(s, k) ==
  \E j \in 1 .. Len(terminalToHub) : j > k /\ terminalToHub[j].session = s /\ terminalToHub[j].status # "running"

\* When the work is over, whatever says "running" is followed by what says how it ended.
Told(s) ==
  /\ \A i \in 1 .. Len(terminalToHub) :
       terminalToHub[i].session = s /\ terminalToHub[i].status = "running" => EndBehind(s, i)
  /\ \A w \in writing : w.session = s /\ w.status = "running" => EndBehind(s, 0)
  /\ row[s] = "running" =>
       EndBehind(s, 0) \/ \E w \in writing : w.session = s /\ w.status # "running"

AllTold ==
  \A s \in Sessions \ (threw \union reordered \union cut) : InWork(s) \/ Told(s)

TerminalInv == Terminal!TypeOK /\ Terminal!AwakeOnlyForWork /\ AllTold

\* The inhibitor a manager refers to is the only one of an agent that was not signalled,
AwakeTypes ==
  /\ inhibitor \in 0 .. MaxSpawns /\ spawned \in 0 .. MaxSpawns
  /\ alive \subseteq 1 .. MaxSpawns /\ signalled \subseteq alive /\ orphans \subseteq alive
Referred ==
  /\ alive \ signalled \subseteq orphans \union {inhibitor}
  /\ activeSessions \union activeTurns = {} => inhibitor = 0

\* and what is active has a process.
ActiveRuns ==
  \A s \in activeSessions : child[s] \in {"runs", "broken", "ended"} \/ s \in threw

\* What is not about keep-awake.
RestTypes ==
  /\ row \in [Sessions -> Terminal!Status \union {"none"}]
  /\ writing \subseteq Terminal!StatusMsg
  /\ terminalToAgent \in Seq(Terminal!AgentMsg) /\ terminalToHub \in Seq(Terminal!StatusMsg)
  /\ serving \in BOOLEAN /\ losses \in 0 .. MaxLosses
  /\ creating \subseteq Sessions /\ sessions \subseteq Sessions
  /\ child \in [Sessions -> Terminal!ChildState]
  /\ threw \subseteq Sessions /\ reordered \subseteq Sessions /\ cut \subseteq Sessions

\* The parts of the invariant.
LEMMA TerminalParts ==
  /\ Terminal!TypeOK <=> RestTypes /\ AwakeTypes /\ activeSessions \subseteq Sessions
                /\ activeTurns \subseteq Turns
  /\ activeSessions \subseteq Sessions =>
       (Terminal!AwakeOnlyForWork <=> Referred /\ ActiveRuns)
<1>1. Terminal!TypeOK <=> RestTypes /\ AwakeTypes /\ activeSessions \subseteq Sessions
                 /\ activeTurns \subseteq Turns
  BY DEF Terminal!TypeOK, RestTypes, AwakeTypes
<1>2. activeSessions \subseteq Sessions =>
        (Terminal!AwakeOnlyForWork <=> Referred /\ ActiveRuns)
  BY DEF Terminal!AwakeOnlyForWork, Terminal!InWork, Referred, ActiveRuns
<1> QED
  BY <1>1, <1>2

\* recomputeKeepAwakeState leaves no inhibitor that nobody refers to.
LEMMA MarkedIsReferred ==
  ASSUME TerminalBounds, AwakeTypes, Referred, NEW S, NEW T, Terminal!MarkActive(S, T)
  PROVE  AwakeTypes' /\ Referred' /\ activeSessions' = S /\ activeTurns' = T
<1> USE DEF TerminalBounds, AwakeTypes, Referred
<1>1. CASE S \union T # {} /\ inhibitor # 0
  BY <1>1 DEF Terminal!MarkActive, Terminal!EnsureInhibitor
<1>2. CASE S \union T # {} /\ inhibitor = 0
  <2>1. /\ spawned < MaxSpawns /\ spawned' = spawned + 1 /\ inhibitor' = spawned + 1
        /\ alive' = alive \union {spawned + 1} /\ signalled' = signalled /\ orphans' = orphans
        /\ activeSessions' = S /\ activeTurns' = T
    BY <1>2 DEF Terminal!MarkActive, Terminal!EnsureInhibitor
  <2>2. spawned + 1 \in 1 .. MaxSpawns
    BY <2>1
  <2>3. alive \ signalled \subseteq orphans
    BY <1>2
  <2> QED
    BY <1>2, <2>1, <2>2, <2>3
<1>3. CASE S \union T = {}
  <2>1. /\ inhibitor' = 0 /\ signalled' = signalled \union (alive \intersect {inhibitor})
        /\ alive' = alive /\ spawned' = spawned /\ orphans' = orphans
        /\ activeSessions' = S /\ activeTurns' = T
    BY <1>3 DEF Terminal!MarkActive, Terminal!StopInhibitor
  <2> QED
    BY <2>1
<1> QED
  BY <1>1, <1>2, <1>3

\* The exit of an inhibitor leaves no reference to it.
LEMMA ExitedIsForgotten ==
  ASSUME TerminalBounds, AwakeTypes, Referred, NEW i, Terminal!InhibitorExits(i)
  PROVE  AwakeTypes' /\ Referred'
<1>1. /\ alive' = alive \ {i} /\ signalled' = signalled \ {i} /\ orphans' = orphans \ {i}
      /\ inhibitor' = (IF inhibitor = i THEN 0 ELSE inhibitor)
      /\ UNCHANGED <<activeSessions, activeTurns, spawned>>
  BY DEF Terminal!InhibitorExits, Terminal!Forget
<1>2. AwakeTypes'
  <2>1. 0 \in 0 .. MaxSpawns
    BY DEF TerminalBounds
  <2> QED
    BY <1>1, <2>1 DEF AwakeTypes
<1>3. Referred'
  <2>1. CASE inhibitor = i
    BY <1>1, <2>1 DEF Referred
  <2>2. CASE inhibitor # i
    BY <1>1, <2>2 DEF Referred
  <2> QED
    BY <2>1, <2>2
<1> QED
  BY <1>2, <1>3

-----------------------------------------------------------------------------
(* Messages in order.                                                       *)

\* A sequence that grows,
LEMMA AppendedTo ==
  ASSUME NEW S, NEW q \in Seq(S), NEW e \in S
  PROVE  /\ Append(q, e) \in Seq(S) /\ Len(Append(q, e)) = Len(q) + 1 /\ Len(q) \in Nat
         /\ \A i \in 1 .. Len(q) : Append(q, e)[i] = q[i]
         /\ Append(q, e)[Len(q) + 1] = e
  OBVIOUS

\* and one that is read.
LEMMA TailOf ==
  ASSUME NEW S, NEW q \in Seq(S), q # <<>>
  PROVE  /\ Head(q) \in S /\ Head(q) = q[1]
         /\ Tail(q) \in Seq(S) /\ Len(Tail(q)) = Len(q) - 1 /\ Len(q) \in Nat \ {0}
         /\ \A i \in 1 .. Len(Tail(q)) : Tail(q)[i] = q[i + 1]
  OBVIOUS

-----------------------------------------------------------------------------
(* What the row is told.                                                    *)

\* A status that is sent is behind all those on the wire.
LEMMA SaysKeepsTold ==
  ASSUME RestTypes, NEW x \in Sessions, NEW status \in Terminal!Status, Terminal!Says(x, status),
         serving, UNCHANGED <<row, writing>>, NEW s \in Sessions
  PROVE  /\ s = x /\ status # "running" => Told(s)'
         /\ s # x /\ Told(s) => Told(s)'
<1> DEFINE m == [session |-> x, status |-> status]
<1>1. /\ m \in Terminal!StatusMsg /\ m.session = x /\ m.status = status
      /\ terminalToHub' = Append(terminalToHub, m)
      /\ terminalToHub \in Seq(Terminal!StatusMsg)
  BY DEF Terminal!StatusMsg, Terminal!Says, RestTypes
<1> HIDE DEF m
<1>2. /\ Len(terminalToHub') = Len(terminalToHub) + 1 /\ Len(terminalToHub) \in Nat
      /\ \A i \in 1 .. Len(terminalToHub) : terminalToHub'[i] = terminalToHub[i]
      /\ terminalToHub'[Len(terminalToHub) + 1] = m
  BY <1>1, AppendedTo
<1>3. ASSUME NEW k \in 0 .. Len(terminalToHub), EndBehind(s, k) PROVE EndBehind(s, k)'
  BY <1>2, <1>3 DEF EndBehind
<1>4. ASSUME s = x, status # "running", NEW k \in 0 .. Len(terminalToHub) PROVE EndBehind(s, k)'
  <2>1. Len(terminalToHub) + 1 \in 1 .. Len(terminalToHub') /\ Len(terminalToHub) + 1 > k
    BY <1>2
  <2>2. /\ terminalToHub'[Len(terminalToHub) + 1].session = s
        /\ terminalToHub'[Len(terminalToHub) + 1].status # "running"
    BY <1>1, <1>2, <1>4
  <2> QED
    BY <2>1, <2>2 DEF EndBehind
<1>5. ASSUME NEW i \in 1 .. Len(terminalToHub'), terminalToHub'[i].session = s, terminalToHub'[i].status = "running",
             s = x => status # "running"
      PROVE  /\ i \in 1 .. Len(terminalToHub) /\ terminalToHub[i].session = s
             /\ terminalToHub[i].status = "running"
  <2>1. i # Len(terminalToHub) + 1
    BY <1>1, <1>2, <1>5
  <2> QED
    BY <1>2, <1>5, <2>1
<1>6. 0 \in 0 .. Len(terminalToHub) /\ \A i \in 1 .. Len(terminalToHub) : i \in 0 .. Len(terminalToHub)
  BY <1>2
<1>7. s = x /\ status # "running" => Told(s)'
  BY <1>4, <1>5, <1>6 DEF Told
<1>8. s # x /\ Told(s) => Told(s)'
  BY <1>3, <1>5, <1>6 DEF Told
<1> QED
  BY <1>7, <1>8

\* A session stays in work as long as what makes it so is not taken away.
LEMMA StaysInWork ==
  ASSUME RestTypes, NEW s \in Sessions, InWork(s),
         s \in creating => s \in creating' \/ child'[s] \in {"runs", "broken", "ended", "lost"},
         child[s] \in {"runs", "broken", "ended", "lost"} =>
           child'[s] \in {"runs", "broken", "ended", "lost"},
         \A i \in 1 .. Len(terminalToAgent) :
           terminalToAgent[i] = [type |-> "create", session |-> s] =>
             \/ s \in creating'
             \/ \E j \in 1 .. Len(terminalToAgent') : terminalToAgent'[j] = terminalToAgent[i]
  PROVE  InWork(s)'
  BY DEF InWork

\* What goes on on the agent alone, or is sent to it, leaves what is told as it is.
LEMMA AgentKeepsTold ==
  ASSUME Terminal!TypeOK, AllTold,
         \/ \E s \in Sessions : Terminal!SendTerminate(s) \/ Terminal!ChildEnds(s) \/ Terminal!SpawnThrows(s)
         \/ Terminal!HandleCreate \/ Terminal!HandleTerminate
         \/ \E i \in 1 .. MaxSpawns : Terminal!InhibitorExits(i)
         \/ \E t \in Turns : Terminal!TurnMarked(t)
  PROVE  AllTold'
<1>0. RestTypes
  BY TerminalParts
<1>1. UNCHANGED <<row, writing, terminalToHub, reordered, cut>> /\ threw \subseteq threw'
  BY DEF Terminal!SendTerminate, Terminal!ChildEnds, Terminal!SpawnThrows,
     Terminal!HandleCreate, Terminal!HandleTerminate,
         Terminal!InhibitorExits, Terminal!TurnMarked, Terminal!serverVars, Terminal!wireVars,
         Terminal!pastVars
<1> SUFFICES ASSUME NEW s \in Sessions \ (threw' \union reordered \union cut)
             PROVE  InWork(s)' \/ Told(s)'
  BY <1>1 DEF AllTold
<1>2. InWork(s) \/ Told(s)
  BY <1>1 DEF AllTold
<1>3. Told(s) => Told(s)'
  BY <1>1 DEF Told, EndBehind
<1>4. s \in creating => s \in creating' \/ child'[s] \in {"runs", "broken", "ended", "lost"}
  BY DEF Terminal!SendTerminate, Terminal!ChildEnds, Terminal!SpawnThrows,
     Terminal!HandleCreate, Terminal!HandleTerminate,
         Terminal!InhibitorExits, Terminal!TurnMarked, Terminal!agentVars
<1>5. child[s] \in {"runs", "broken", "ended", "lost"} => child'[s] \in {"runs", "broken", "ended", "lost"}
  <2>1. CASE \E x \in Sessions : Terminal!ChildEnds(x)
    BY <1>0, <2>1 DEF Terminal!ChildEnds, RestTypes
  <2>2. CASE child' = child
    BY <2>2
  <2> QED
    BY <2>1, <2>2 DEF Terminal!SendTerminate, Terminal!SpawnThrows, Terminal!HandleCreate,
       Terminal!HandleTerminate,
                      Terminal!InhibitorExits, Terminal!TurnMarked, Terminal!agentVars
<1>6. ASSUME NEW i \in 1 .. Len(terminalToAgent), terminalToAgent[i] = [type |-> "create", session |-> s]
      PROVE  s \in creating' \/ \E j \in 1 .. Len(terminalToAgent') : terminalToAgent'[j] = terminalToAgent[i]
  <2>0. terminalToAgent \in Seq(Terminal!AgentMsg) /\ Len(terminalToAgent) \in Nat
    BY <1>0 DEF RestTypes
  <2>1. CASE \E x \in Sessions : Terminal!SendTerminate(x)
    <3> PICK x \in Sessions : Terminal!SendTerminate(x)
      BY <2>1
    <3> DEFINE m == [type |-> "terminate", session |-> x]
    <3>1. terminalToAgent' = Append(terminalToAgent, m) /\ m \in Terminal!AgentMsg
      BY DEF Terminal!SendTerminate, Terminal!SendToAgent, Terminal!AgentMsg
    <3> HIDE DEF m
    <3>2. terminalToAgent'[i] = terminalToAgent[i] /\ i \in 1 .. Len(terminalToAgent')
      BY <2>0, <3>1, AppendedTo
    <3> QED
      BY <3>2
  <2>2. CASE Terminal!HandleCreate \/ Terminal!HandleTerminate
    <3>1. terminalToAgent # <<>> /\ terminalToAgent' = Tail(terminalToAgent)
      BY <2>2 DEF Terminal!HandleCreate, Terminal!HandleTerminate
    <3>2. /\ Head(terminalToAgent) = terminalToAgent[1]
          /\ Len(terminalToAgent') = Len(terminalToAgent) - 1
          /\ \A j \in 1 .. Len(terminalToAgent') : terminalToAgent'[j] = terminalToAgent[j + 1]
      BY <2>0, <3>1, TailOf
    <3>3. CASE i = 1
      <4>1. Head(terminalToAgent).type = "create" /\ Head(terminalToAgent).session = s
        BY <1>6, <3>2, <3>3
      <4> QED
        BY <2>2, <4>1 DEF Terminal!HandleCreate, Terminal!HandleTerminate
    <3>4. CASE i # 1
      <4>1. i - 1 \in 1 .. Len(terminalToAgent') /\ terminalToAgent'[i - 1] = terminalToAgent[i]
        BY <2>0, <3>2, <3>4
      <4> QED
        BY <4>1
    <3> QED
      BY <3>3, <3>4
  <2>3. CASE terminalToAgent' = terminalToAgent
    BY <2>3
  <2> QED
    BY <2>1, <2>2, <2>3 DEF Terminal!ChildEnds, Terminal!SpawnThrows, Terminal!InhibitorExits,
       Terminal!TurnMarked, Terminal!wireVars
<1>7. InWork(s) => InWork(s)'
  BY <1>0, <1>4, <1>5, <1>6, StaysInWork
<1> QED
  BY <1>2, <1>3, <1>7

\* Every status the agent sends is the last word on its session so far.
LEMMA SaysKeepsAllTold ==
  ASSUME Terminal!TypeOK, AllTold, NEW x \in Sessions,
         \/ Terminal!CreateRefused(x) \/ Terminal!ChildFails(x) \/ Terminal!ChildCloses(x)
         \/ \E b \in BOOLEAN : Terminal!SpawnSession(x, b)
  PROVE  AllTold'
<1>0. RestTypes
  BY TerminalParts
<1>1. UNCHANGED <<row, writing, terminalToAgent, threw, reordered>>
  BY DEF Terminal!CreateRefused, Terminal!ChildFails, Terminal!ChildCloses,
     Terminal!SpawnSession, Terminal!serverVars
<1>2. PICK status \in Terminal!Status : Terminal!Says(x, status)
  BY DEF Terminal!CreateRefused, Terminal!ChildFails, Terminal!ChildCloses,
     Terminal!ReportClose, Terminal!SpawnSession, Terminal!Status
<1>7. /\ cut \subseteq cut'
      /\ ~serving => x \in cut' /\ terminalToHub' = terminalToHub
  BY <1>2 DEF Terminal!Says
<1> SUFFICES ASSUME NEW s \in Sessions \ (threw \union reordered \union cut')
             PROVE  InWork(s)' \/ Told(s)'
  BY <1>1 DEF AllTold
<1>3. InWork(s) \/ Told(s)
  BY <1>7 DEF AllTold
<1>8. s = x => serving
  BY <1>7
<1>4. CASE s # x
  <2>1. Told(s) => Told(s)'
    <3>1. CASE serving
      BY <1>0, <1>1, <1>2, <1>4, <3>1, SaysKeepsTold
    <3>2. CASE ~serving
      BY <1>1, <1>7, <3>2 DEF Told, EndBehind
    <3> QED
      BY <3>1, <3>2
  <2>2. (s \in creating => s \in creating') /\ child'[s] = child[s]
    BY <1>0, <1>4 DEF Terminal!CreateRefused, Terminal!ChildFails, Terminal!ChildCloses,
       Terminal!SpawnSession, RestTypes
  <2>3. InWork(s) => InWork(s)'
    BY <1>0, <1>1, <2>2, StaysInWork
  <2> QED
    BY <1>3, <2>1, <2>3
<1>5. CASE s = x /\ (Terminal!CreateRefused(x) \/ Terminal!ChildCloses(x))
  <2>1. \E end \in Terminal!Status \ {"running"} : Terminal!Says(x, end)
    BY <1>5 DEF Terminal!CreateRefused, Terminal!ChildCloses, Terminal!ReportClose,
       Terminal!Status
  <2> QED
    BY <1>0, <1>1, <1>5, <1>8, <2>1, SaysKeepsTold
<1>6. CASE s = x /\ (Terminal!ChildFails(x) \/ \E b \in BOOLEAN : Terminal!SpawnSession(x, b))
  <2>1. child'[s] \in {"runs", "broken", "ended", "lost"}
    BY <1>0, <1>6 DEF Terminal!ChildFails, Terminal!SpawnSession, RestTypes
  <2> QED
    BY <2>1 DEF InWork
<1> QED
  BY <1>4, <1>5, <1>6

\* A session that is created is in work, or its row says at once that it failed.
LEMMA CreateKeepsTold ==
  ASSUME Terminal!TypeOK, AllTold, NEW x \in Sessions, NEW b \in BOOLEAN, Terminal!CreateSession(x, b)
  PROVE  AllTold'
<1>0. RestTypes
  BY TerminalParts
<1>1. /\ UNCHANGED <<writing, terminalToHub, creating, child, threw, reordered, cut>>
      /\ row' = [row EXCEPT ![x] = IF b THEN "running" ELSE "failed"]
  BY DEF Terminal!CreateSession, Terminal!agentVars, Terminal!pastVars
<1> SUFFICES ASSUME NEW s \in Sessions \ (threw \union reordered \union cut)
             PROVE  InWork(s)' \/ Told(s)'
  BY <1>1 DEF AllTold
<1>2. InWork(s) \/ Told(s)
  BY DEF AllTold
<1> DEFINE m == [type |-> "create", session |-> x]
<1>3. terminalToAgent \in Seq(Terminal!AgentMsg) /\ m \in Terminal!AgentMsg
  BY <1>0 DEF RestTypes, Terminal!AgentMsg
<1>4. b => terminalToAgent' = Append(terminalToAgent, m)
  BY DEF Terminal!CreateSession, Terminal!SendToAgent
<1>5. ~b => terminalToAgent' = terminalToAgent
  BY DEF Terminal!CreateSession
<1>6. CASE b /\ s = x
  <2>1. /\ Len(terminalToAgent) + 1 \in 1 .. Len(terminalToAgent')
        /\ terminalToAgent'[Len(terminalToAgent) + 1] = m
    BY <1>3, <1>4, <1>6, AppendedTo
  <2> QED
    BY <1>6, <2>1 DEF InWork
<1>7. CASE ~(b /\ s = x)
  <2>1. row'[s] # "running" \/ row'[s] = row[s]
    BY <1>0, <1>1, <1>7 DEF RestTypes
  <2>2. Told(s) => Told(s)'
    BY <1>1, <2>1 DEF Told, EndBehind
  <2>3. \A i \in 1 .. Len(terminalToAgent) : \E j \in 1 .. Len(terminalToAgent') : terminalToAgent'[j] = terminalToAgent[i]
    <3>1. CASE b
      <4> HIDE DEF m
      <4> QED
        BY <1>3, <1>4, <3>1, AppendedTo
    <3> QED
      BY <1>5, <3>1
  <2>4. InWork(s) => InWork(s)'
    BY <1>0, <1>1, <2>3, StaysInWork
  <2> QED
    BY <1>2, <2>2, <2>4
<1> QED
  BY <1>6, <1>7

\* A status that the hub receives is written after the one that was on its way, or the
\* session is marked.
LEMMA ReceiveKeepsTold ==
  ASSUME Terminal!TypeOK, AllTold, Terminal!ReceiveStatus
  PROVE  AllTold'
<1>0. RestTypes
  BY TerminalParts
<1> DEFINE h == Head(terminalToHub)
<1>1. /\ terminalToHub # <<>> /\ terminalToHub' = Tail(terminalToHub)
      /\ writing' = writing \union {[session |-> h.session, status |-> h.status]}
      /\ reordered' = IF \E w \in writing : w.session = h.session /\ w.status # h.status
                      THEN reordered \union {h.session} ELSE reordered
      /\ UNCHANGED <<row, terminalToAgent, creating, child, threw, cut>>
  BY DEF Terminal!ReceiveStatus, Terminal!UpdateSessionStatus, Terminal!agentVars
<1>2. /\ h \in Terminal!StatusMsg /\ h = terminalToHub[1] /\ Len(terminalToHub) \in Nat \ {0}
      /\ Len(terminalToHub') = Len(terminalToHub) - 1
      /\ \A i \in 1 .. Len(terminalToHub') : terminalToHub'[i] = terminalToHub[i + 1]
  BY <1>0, <1>1, TailOf DEF RestTypes
<1>3. [session |-> h.session, status |-> h.status] = h
  BY <1>2 DEF Terminal!StatusMsg
<1> HIDE DEF h
<1> SUFFICES ASSUME NEW s \in Sessions \ (threw \union reordered' \union cut)
             PROVE  InWork(s)' \/ Told(s)'
  BY <1>1 DEF AllTold
<1>4. InWork(s) \/ Told(s)
  BY <1>1 DEF AllTold
<1>5. InWork(s) => InWork(s)'
  BY <1>1 DEF InWork
<1>6. ASSUME Told(s) PROVE Told(s)'
  <2>1. ASSUME NEW k \in Nat, EndBehind(s, k), k # 0 \/ h.session # s \/ h.status = "running"
        PROVE  EndBehind(s, k - 1)' /\ EndBehind(s, 0)'
    <3>1. PICK j \in 1 .. Len(terminalToHub) :
            j > k /\ terminalToHub[j].session = s /\ terminalToHub[j].status # "running"
      BY <2>1 DEF EndBehind
    <3>2. j # 1
      BY <1>2, <2>1, <3>1
    <3>3. /\ j - 1 \in 1 .. Len(terminalToHub') /\ j - 1 > k - 1 /\ j - 1 > 0
          /\ terminalToHub'[j - 1] = terminalToHub[j]
      BY <1>2, <3>1, <3>2
    <3> QED
      BY <3>1, <3>3 DEF EndBehind
  <2>2. ASSUME NEW i \in 1 .. Len(terminalToHub'), terminalToHub'[i].session = s,
               terminalToHub'[i].status = "running"
        PROVE  EndBehind(s, i)'
    <3>1. /\ i + 1 \in 1 .. Len(terminalToHub) /\ i + 1 \in Nat /\ i + 1 # 0 /\ (i + 1) - 1 = i
          /\ terminalToHub[i + 1] = terminalToHub'[i]
      BY <1>2
    <3>2. EndBehind(s, i + 1)
      BY <1>6, <2>2, <3>1 DEF Told
    <3> QED
      BY <2>1, <3>1, <3>2
  <2>3. ASSUME NEW w \in writing', w.session = s, w.status = "running"
        PROVE  EndBehind(s, 0)'
    <3>1. CASE w \in writing
      <4>1. EndBehind(s, 0)
        BY <1>6, <2>3, <3>1 DEF Told
      <4>2. h.session # s \/ h.status = "running"
        BY <1>1, <2>3, <3>1
      <4> QED
        BY <2>1, <4>1, <4>2
    <3>2. CASE w = h
      <4>1. EndBehind(s, 1)
        BY <1>2, <1>6, <2>3, <3>2 DEF Told
      <4> QED
        BY <2>1, <4>1
    <3> QED
      BY <1>1, <1>3, <3>1, <3>2
  <2>4. ASSUME row'[s] = "running"
        PROVE  EndBehind(s, 0)' \/ \E w \in writing' : w.session = s /\ w.status # "running"
    <3>1. EndBehind(s, 0) \/ \E w \in writing : w.session = s /\ w.status # "running"
      BY <1>1, <1>6, <2>4 DEF Told
    <3>2. CASE h.session = s /\ h.status # "running"
      BY <1>1, <1>3, <3>2
    <3>3. CASE h.session # s \/ h.status = "running"
      BY <1>1, <2>1, <3>1, <3>3
    <3> QED
      BY <3>2, <3>3
  <2> QED
    BY <2>2, <2>3, <2>4 DEF Told
<1> QED
  BY <1>4, <1>5, <1>6

\* A write that runs leaves the row as the last status says, or that one is on its way.
LEMMA WriteKeepsTold ==
  ASSUME Terminal!TypeOK, AllTold, NEW w \in Terminal!StatusMsg, Terminal!WriteRuns(w)
  PROVE  AllTold'
<1>0. RestTypes
  BY TerminalParts
<1>1. /\ w \in writing /\ writing' = writing \ {w}
      /\ row' = [row EXCEPT ![w.session] = w.status]
      /\ UNCHANGED <<terminalToAgent, terminalToHub, creating, child, threw, reordered, cut>>
  BY DEF Terminal!WriteRuns, Terminal!wireVars, Terminal!agentVars, Terminal!pastVars
<1> SUFFICES ASSUME NEW s \in Sessions \ (threw \union reordered \union cut)
             PROVE  InWork(s)' \/ Told(s)'
  BY <1>1 DEF AllTold
<1>2. InWork(s) \/ Told(s)
  BY DEF AllTold
<1>3. InWork(s) => InWork(s)'
  BY <1>1 DEF InWork
<1>4. w.session \in Sessions
  BY DEF Terminal!StatusMsg
<1>5. Told(s) => Told(s)'
  <2>1. CASE w.session = s
    <3>1. row'[s] = w.status
      BY <1>0, <1>1, <2>1 DEF RestTypes
    <3> QED
      BY <1>1, <2>1, <3>1 DEF Told, EndBehind
  <2>2. CASE w.session # s
    <3>1. row'[s] = row[s]
      BY <1>0, <1>1, <2>2 DEF RestTypes
    <3> QED
      BY <1>1, <2>2, <3>1 DEF Told, EndBehind
  <2> QED
    BY <2>1, <2>2
<1> QED
  BY <1>2, <1>3, <1>5

\* A write that fails marks its session.
LEMMA FailureKeepsTold ==
  ASSUME Terminal!TypeOK, AllTold, NEW w \in Terminal!StatusMsg, Terminal!WriteFails(w)
  PROVE  AllTold'
<1>1. /\ writing' = writing \ {w} /\ cut' = cut \union {w.session}
      /\ UNCHANGED <<row, terminalToAgent, terminalToHub, creating, child, threw, reordered>>
  BY DEF Terminal!WriteFails, Terminal!wireVars, Terminal!agentVars
<1> SUFFICES ASSUME NEW s \in Sessions \ (threw \union reordered \union cut')
             PROVE  InWork(s)' \/ Told(s)'
  BY <1>1 DEF AllTold
<1>2. InWork(s) \/ Told(s)
  BY <1>1 DEF AllTold
<1>3. InWork(s) => InWork(s)'
  BY <1>1 DEF InWork
<1>4. w.session # s
  BY <1>1
<1>5. Told(s) => Told(s)'
  BY <1>1, <1>4 DEF Told, EndBehind
<1> QED
  BY <1>2, <1>3, <1>5

\* Sessions with a message on the connection that is lost are marked, and what goes on
\* without the connection is not their concern.
LEMMA LostWireKeepsTold ==
  ASSUME Terminal!TypeOK, AllTold, Terminal!OnTheWire \subseteq cut', cut \subseteq cut',
         terminalToAgent' = <<>>, terminalToHub' = <<>>, UNCHANGED <<row, writing, threw, reordered>>,
         \A s \in Sessions \ cut' :
           /\ s \in creating => s \in creating'
           /\ child[s] \in {"runs", "broken", "ended", "lost"} =>
                child'[s] \in {"runs", "broken", "ended", "lost"}
  PROVE  AllTold'
<1> SUFFICES ASSUME NEW s \in Sessions \ (threw \union reordered \union cut')
             PROVE  InWork(s)' \/ Told(s)'
  BY DEF AllTold
<1>2. InWork(s) \/ Told(s)
  BY DEF AllTold
<1>3. /\ \A i \in 1 .. Len(terminalToHub) : terminalToHub[i].session # s
      /\ \A i \in 1 .. Len(terminalToAgent) : terminalToAgent[i].session # s
  BY DEF Terminal!OnTheWire
<1>4. ~EndBehind(s, 0)
  BY <1>3 DEF EndBehind
<1>5. Len(terminalToHub') = 0
  OBVIOUS
<1>6. Told(s) => Told(s)'
  BY <1>4, <1>5 DEF Told
<1>7. InWork(s) => InWork(s)'
  BY <1>3 DEF InWork
<1> QED
  BY <1>2, <1>6, <1>7

\* So it is when the connection drops, when the agent stops, and when it ends.
LEMMA LossKeepsTold ==
  ASSUME Terminal!TypeOK, AllTold, Terminal!Drop \/ Terminal!StopAgent \/ Terminal!AgentEnds
  PROVE  AllTold'
<1>0. RestTypes
  BY TerminalParts
<1>1. /\ Terminal!OnTheWire \subseteq cut' /\ cut \subseteq cut'
      /\ terminalToAgent' = <<>> /\ terminalToHub' = <<>>
      /\ UNCHANGED <<row, writing, threw, reordered>>
  BY DEF Terminal!Drop, Terminal!StopAgent, Terminal!AgentEnds, Terminal!serverVars
<1>2. CASE Terminal!Drop \/ Terminal!StopAgent
  <2>1. UNCHANGED <<creating, child>>
    BY <1>2 DEF Terminal!Drop, Terminal!StopAgent, Terminal!agentVars
  <2> QED
    BY <1>1, <2>1, LostWireKeepsTold
<1>3. CASE Terminal!AgentEnds
  <2>1. creating \subseteq cut'
    BY <1>3 DEF Terminal!AgentEnds
  <2>2. child' = [s \in Sessions |-> IF s \in Terminal!InWork THEN "lost" ELSE child[s]]
    BY <1>3 DEF Terminal!AgentEnds
  <2>3. \A s \in Sessions : child[s] \in {"runs", "broken", "ended", "lost"} =>
          child'[s] \in {"runs", "broken", "ended", "lost"}
    BY <2>2
  <2> QED
    BY <1>1, <2>1, <2>3, LostWireKeepsTold
<1> QED
  BY <1>2, <1>3

-----------------------------------------------------------------------------
(* Types and keep-awake, action by action.                                  *)

\* A session that is marked or unmarked.
LEMMA MarkKeepsAwake ==
  ASSUME TerminalBounds, Terminal!TypeOK, Terminal!AwakeOnlyForWork, NEW S \in SUBSET Sessions,
         NEW T \in SUBSET Turns, Terminal!MarkActive(S, T), RestTypes',
         \A s \in S : child'[s] \in {"runs", "broken", "ended"} \/ s \in threw'
  PROVE  Terminal!TypeOK' /\ Terminal!AwakeOnlyForWork'
<1>1. AwakeTypes /\ Referred
  BY TerminalParts
<1>2. AwakeTypes' /\ Referred' /\ activeSessions' = S /\ activeTurns' = T
  BY <1>1, MarkedIsReferred
<1>3. ActiveRuns'
  BY <1>2 DEF ActiveRuns
<1>4. Terminal!TypeOK'
  BY <1>2 DEF Terminal!TypeOK, RestTypes, AwakeTypes
<1>5. Terminal!AwakeOnlyForWork'
  BY <1>2, <1>3 DEF Terminal!AwakeOnlyForWork, Terminal!InWork, ActiveRuns, Referred
<1> QED
  BY <1>4, <1>5

\* What does not mark anything.
LEMMA UnmarkedKeepsAwake ==
  ASSUME Terminal!TypeOK, Terminal!AwakeOnlyForWork, UNCHANGED Terminal!awakeVars, RestTypes',
         \A s \in Sessions :
           child[s] \in {"runs", "broken", "ended"} =>
             child'[s] \in {"runs", "broken", "ended"},
         threw' = threw
  PROVE  Terminal!TypeOK' /\ Terminal!AwakeOnlyForWork'
<1>1. UNCHANGED <<activeSessions, activeTurns, inhibitor, alive, signalled, spawned, orphans>>
  BY DEF Terminal!awakeVars
<1>2. AwakeTypes /\ Referred /\ ActiveRuns /\ activeSessions \subseteq Sessions
      /\ activeTurns \subseteq Turns
  BY TerminalParts
<1>3. Terminal!TypeOK'
  BY <1>1, <1>2 DEF Terminal!TypeOK, RestTypes, AwakeTypes
<1>4. Terminal!AwakeOnlyForWork'
  BY <1>1, <1>2 DEF Terminal!AwakeOnlyForWork, Terminal!InWork, ActiveRuns, Referred
<1> QED
  BY <1>3, <1>4

\* What is sent and received are messages.
LEMMA SentTypes ==
  ASSUME RestTypes
  PROVE  /\ \A x \in Sessions, status \in Terminal!Status : Terminal!Says(x, status) =>
              terminalToHub' \in Seq(Terminal!StatusMsg) /\ cut' \subseteq Sessions
         /\ \A x \in Sessions, type \in {"create", "terminate"} :
              Terminal!SendToAgent(type, x) => terminalToAgent' \in Seq(Terminal!AgentMsg)
         /\ terminalToAgent # <<>> =>
              Head(terminalToAgent) \in Terminal!AgentMsg /\ Tail(terminalToAgent) \in Seq(Terminal!AgentMsg)
         /\ terminalToHub # <<>> =>
              Head(terminalToHub) \in Terminal!StatusMsg /\ Tail(terminalToHub) \in Seq(Terminal!StatusMsg)
<1>1. ASSUME NEW x \in Sessions, NEW status \in Terminal!Status, Terminal!Says(x, status)
      PROVE  terminalToHub' \in Seq(Terminal!StatusMsg) /\ cut' \subseteq Sessions
  <2>1. [session |-> x, status |-> status] \in Terminal!StatusMsg
    BY DEF Terminal!StatusMsg
  <2>2. cut' = cut \/ cut' = cut \union {x}
    BY <1>1 DEF Terminal!Says
  <2>3. terminalToHub \in Seq(Terminal!StatusMsg) /\ cut \subseteq Sessions
    BY DEF RestTypes
  <2>4. terminalToHub' = terminalToHub
        \/ terminalToHub' = Append(terminalToHub, [session |-> x, status |-> status])
    BY <1>1 DEF Terminal!Says
  <2>5. terminalToHub' \in Seq(Terminal!StatusMsg)
    BY <2>1, <2>3, <2>4, AppendedTo
  <2> QED
    BY <2>2, <2>3, <2>5
<1>2. ASSUME NEW x \in Sessions, NEW type \in {"create", "terminate"}, Terminal!SendToAgent(type, x)
      PROVE  terminalToAgent' \in Seq(Terminal!AgentMsg)
  <2>1. [type |-> type, session |-> x] \in Terminal!AgentMsg
    BY DEF Terminal!AgentMsg
  <2> QED
    BY <1>2, <2>1, AppendedTo DEF RestTypes, Terminal!SendToAgent
<1>3. terminalToAgent # <<>> =>
        Head(terminalToAgent) \in Terminal!AgentMsg /\ Tail(terminalToAgent) \in Seq(Terminal!AgentMsg)
  BY TailOf DEF RestTypes
<1>4. terminalToHub # <<>> =>
        Head(terminalToHub) \in Terminal!StatusMsg /\ Tail(terminalToHub) \in Seq(Terminal!StatusMsg)
  BY TailOf DEF RestTypes
<1> QED
  BY <1>1, <1>2, <1>3, <1>4

\* What is on the wire is of sessions,
LEMMA WireTypes == ASSUME RestTypes PROVE Terminal!OnTheWire \subseteq Sessions
<1>1. /\ \A i \in 1 .. Len(terminalToAgent) : terminalToAgent[i] \in Terminal!AgentMsg
      /\ \A i \in 1 .. Len(terminalToHub) : terminalToHub[i] \in Terminal!StatusMsg
  BY DEF RestTypes
<1>2. /\ \A m \in Terminal!AgentMsg : m.session \in Sessions
      /\ \A m \in Terminal!StatusMsg : m.session \in Sessions
  BY DEF Terminal!AgentMsg, Terminal!StatusMsg
<1> QED
  BY <1>1, <1>2 DEF Terminal!OnTheWire

\* and the losses stay within their bound.
LEMMA LossCounts ==
  ASSUME TerminalBounds, RestTypes, losses' = losses \/ Terminal!Loss
  PROVE  losses' \in 0 .. MaxLosses
  BY DEF TerminalBounds, RestTypes, Terminal!Loss

\* Types and keep-awake are kept by what goes on in control-api and on the wire.
LEMMA HubKeepsAwake ==
  ASSUME TerminalBounds, Terminal!TypeOK, Terminal!AwakeOnlyForWork,
         \/ \E s \in Sessions : Terminal!SendTerminate(s) \/ \E b \in BOOLEAN : Terminal!CreateSession(s, b)
         \/ Terminal!ReceiveStatus \/ Terminal!Drop
         \/ \E w \in Terminal!StatusMsg : Terminal!WriteRuns(w) \/ Terminal!WriteFails(w)
  PROVE  Terminal!TypeOK' /\ Terminal!AwakeOnlyForWork'
<1>0. RestTypes
  BY TerminalParts
<1>1. UNCHANGED <<Terminal!awakeVars, serving, creating, sessions, child, threw>>
  BY DEF Terminal!SendTerminate, Terminal!CreateSession, Terminal!ReceiveStatus,
     Terminal!Drop, Terminal!WriteRuns, Terminal!WriteFails, Terminal!agentVars, Terminal!pastVars
<1>3. losses' = losses \/ Terminal!Loss
  BY DEF Terminal!SendTerminate, Terminal!CreateSession, Terminal!ReceiveStatus,
     Terminal!Drop, Terminal!WriteRuns, Terminal!WriteFails, Terminal!pastVars
<1>4. losses' \in 0 .. MaxLosses
  BY <1>0, <1>3, LossCounts
<1>2. RestTypes'
  <2>1. CASE \E s \in Sessions : Terminal!SendTerminate(s)
    <3>1. UNCHANGED <<row, writing, terminalToHub, reordered,
                      cut>> /\ terminalToAgent' \in Seq(Terminal!AgentMsg)
      BY <1>0, <2>1, SentTypes DEF Terminal!SendTerminate, Terminal!serverVars,
         Terminal!pastVars
    <3> QED
      BY <1>0, <1>1, <1>4, <3>1 DEF RestTypes
  <2>2. CASE \E s \in Sessions, b \in BOOLEAN : Terminal!CreateSession(s, b)
    <3>1. UNCHANGED <<writing, terminalToHub, reordered, cut>>
      BY <2>2 DEF Terminal!CreateSession, Terminal!pastVars
    <3>2. terminalToAgent' \in Seq(Terminal!AgentMsg)
      BY <1>0, <2>2, SentTypes DEF Terminal!CreateSession, RestTypes
    <3>3. row' \in [Sessions -> Terminal!Status \union {"none"}]
      BY <1>0, <2>2 DEF Terminal!CreateSession, RestTypes, Terminal!Status
    <3> QED
      BY <1>0, <1>1, <1>4, <3>1, <3>2, <3>3 DEF RestTypes
  <2>3. CASE Terminal!ReceiveStatus
    <3> DEFINE h == Head(terminalToHub)
    <3>1. /\ terminalToHub # <<>> /\ terminalToHub' = Tail(terminalToHub)
          /\ UNCHANGED <<row, terminalToAgent, cut>>
          /\ writing' = writing \union {[session |-> h.session, status |-> h.status]}
          /\ reordered' \subseteq reordered \union {h.session}
      BY <2>3 DEF Terminal!ReceiveStatus, Terminal!UpdateSessionStatus
    <3>2. h \in Terminal!StatusMsg /\ terminalToHub' \in Seq(Terminal!StatusMsg)
      BY <1>0, <3>1, SentTypes
    <3> HIDE DEF h
    <3>3. /\ h.session \in Sessions
          /\ [session |-> h.session, status |-> h.status] \in Terminal!StatusMsg
      BY <3>2 DEF Terminal!StatusMsg
    <3> QED
      BY <1>0, <1>1, <1>4, <3>1, <3>2, <3>3 DEF RestTypes
  <2>4. CASE Terminal!Drop
    <3>1. /\ terminalToAgent' = <<>> /\ terminalToHub' = <<>>
          /\ UNCHANGED <<row, writing, reordered>>
          /\ cut' = cut \union Terminal!OnTheWire
      BY <2>4 DEF Terminal!Drop, Terminal!serverVars
    <3>2. cut' \subseteq Sessions
      BY <1>0, <3>1, WireTypes DEF RestTypes
    <3> QED
      BY <1>0, <1>1, <1>4, <3>1, <3>2 DEF RestTypes
  <2>6. CASE \E w \in Terminal!StatusMsg : Terminal!WriteFails(w)
    <3> PICK w \in Terminal!StatusMsg : Terminal!WriteFails(w)
      BY <2>6
    <3>1. /\ writing' \subseteq writing /\ cut' = cut \union {w.session}
          /\ UNCHANGED <<row, terminalToAgent, terminalToHub, reordered>>
      BY DEF Terminal!WriteFails, Terminal!wireVars
    <3>2. w.session \in Sessions
      BY DEF Terminal!StatusMsg
    <3> QED
      BY <1>0, <1>1, <1>4, <3>1, <3>2 DEF RestTypes
  <2>5. CASE \E w \in Terminal!StatusMsg : Terminal!WriteRuns(w)
    <3> PICK w \in Terminal!StatusMsg : Terminal!WriteRuns(w)
      BY <2>5
    <3>1. /\ writing' \subseteq writing /\ row' = [row EXCEPT ![w.session] = w.status]
          /\ UNCHANGED <<terminalToAgent, terminalToHub, reordered, cut>>
      BY DEF Terminal!WriteRuns, Terminal!wireVars, Terminal!pastVars
    <3>2. w.session \in Sessions /\ w.status \in Terminal!Status
      BY DEF Terminal!StatusMsg
    <3> QED
      BY <1>0, <1>1, <1>4, <3>1, <3>2 DEF RestTypes
  <2> QED
    BY <2>1, <2>2, <2>3, <2>4, <2>5, <2>6
<1> QED
  BY <1>1, <1>2, UnmarkedKeepsAwake

\* They are kept by what goes on on the agent's computer.
LEMMA AgentKeepsAwake ==
  ASSUME TerminalBounds, Terminal!TypeOK, Terminal!AwakeOnlyForWork,
         \/ Terminal!HandleCreate \/ Terminal!HandleTerminate
         \/ \E s \in Sessions :
              \/ Terminal!CreateRefused(s) \/ Terminal!SpawnThrows(s)
              \/ Terminal!ChildEnds(s) \/ Terminal!ChildFails(s) \/ Terminal!ChildCloses(s)
              \/ \E b \in BOOLEAN : Terminal!SpawnSession(s, b)
         \/ \E i \in 1 .. MaxSpawns : Terminal!InhibitorExits(i)
         \/ \E t \in Turns : Terminal!TurnMarked(t)
  PROVE  Terminal!TypeOK' /\ Terminal!AwakeOnlyForWork'
<1>0. /\ RestTypes /\ AwakeTypes /\ Referred /\ ActiveRuns
      /\ activeSessions \subseteq Sessions /\ activeTurns \subseteq Turns
  BY TerminalParts
<1>1. UNCHANGED <<row, writing, serving, reordered, losses>>
  BY DEF Terminal!HandleCreate, Terminal!HandleTerminate, Terminal!CreateRefused,
     Terminal!SpawnThrows, Terminal!ChildEnds, Terminal!ChildFails,
         Terminal!ChildCloses, Terminal!SpawnSession, Terminal!InhibitorExits,
         Terminal!TurnMarked, Terminal!serverVars, Terminal!agentVars, Terminal!pastVars
<1>2. CASE Terminal!HandleCreate
  <2>1. /\ terminalToAgent # <<>> /\ terminalToAgent' = Tail(terminalToAgent)
        /\ creating' = creating \union {Head(terminalToAgent).session}
        /\ UNCHANGED <<terminalToHub, sessions, child, threw, cut, Terminal!awakeVars>>
    BY <1>2 DEF Terminal!HandleCreate, Terminal!pastVars
  <2>2. /\ Head(terminalToAgent).session \in Sessions
        /\ terminalToAgent' \in Seq(Terminal!AgentMsg)
    BY <1>0, <2>1, SentTypes DEF Terminal!AgentMsg
  <2>3. RestTypes'
    BY <1>0, <1>1, <2>1, <2>2 DEF RestTypes
  <2> QED
    BY <2>1, <2>3, UnmarkedKeepsAwake
<1>3. CASE Terminal!HandleTerminate
  <2> DEFINE s == Head(terminalToAgent).session
  <2>1. /\ terminalToAgent # <<>> /\ terminalToAgent' = Tail(terminalToAgent)
        /\ sessions' = sessions \ {s}
        /\ Terminal!MarkActive(activeSessions \ {s}, activeTurns)
        /\ UNCHANGED <<terminalToHub, creating, child, threw, cut>>
    BY <1>3 DEF Terminal!HandleTerminate, Terminal!pastVars
  <2>2. terminalToAgent' \in Seq(Terminal!AgentMsg)
    BY <1>0, <2>1, SentTypes
  <2> HIDE DEF s
  <2>3. RestTypes'
    BY <1>0, <1>1, <2>1, <2>2 DEF RestTypes
  <2>4. \A x \in activeSessions \ {s} :
          child'[x] \in {"runs", "broken", "ended"} \/ x \in threw'
    BY <1>0, <2>1 DEF ActiveRuns
  <2> QED
    BY <1>0, <2>1, <2>3, <2>4, MarkKeepsAwake
<1>4. ASSUME NEW s \in Sessions, Terminal!CreateRefused(s)
      PROVE  Terminal!TypeOK' /\ Terminal!AwakeOnlyForWork'
  <2>1. /\ creating' = creating \ {s} /\ Terminal!Says(s, "failed")
        /\ "failed" \in Terminal!Status
        /\ UNCHANGED <<terminalToAgent, sessions, child, threw, Terminal!awakeVars>>
    BY <1>4 DEF Terminal!CreateRefused, Terminal!Status
  <2>2. RestTypes'
    BY <1>0, <1>1, <2>1, SentTypes DEF RestTypes
  <2> QED
    BY <2>1, <2>2, UnmarkedKeepsAwake
<1>5. ASSUME NEW s \in Sessions, Terminal!SpawnThrows(s)
      PROVE  Terminal!TypeOK' /\ Terminal!AwakeOnlyForWork'
  <2>1. /\ creating' = creating \ {s} /\ threw' = threw \union {s}
        /\ Terminal!MarkActive(activeSessions \union {s}, activeTurns)
        /\ UNCHANGED <<terminalToAgent, terminalToHub, sessions, child, cut>>
    BY <1>5 DEF Terminal!SpawnThrows, Terminal!wireVars
  <2>2. RestTypes'
    BY <1>0, <1>1, <2>1 DEF RestTypes
  <2>3. \A x \in activeSessions \union {s} :
          child'[x] \in {"runs", "broken", "ended"} \/ x \in threw'
    BY <1>0, <2>1 DEF ActiveRuns
  <2> QED
    BY <1>0, <2>1, <2>2, <2>3, MarkKeepsAwake
<1>6. ASSUME NEW s \in Sessions, Terminal!ChildEnds(s)
      PROVE  Terminal!TypeOK' /\ Terminal!AwakeOnlyForWork'
  <2>1. /\ child' = [child EXCEPT ![s] = "ended"]
        /\ UNCHANGED <<terminalToAgent, terminalToHub, creating, sessions, threw, cut,
                        Terminal!awakeVars>>
    BY <1>6 DEF Terminal!ChildEnds, Terminal!wireVars, Terminal!pastVars
  <2>2. child' \in [Sessions -> Terminal!ChildState]
    BY <1>0, <2>1 DEF RestTypes, Terminal!ChildState
  <2>3. RestTypes'
    BY <1>0, <1>1, <2>1, <2>2 DEF RestTypes
  <2>4. \A x \in Sessions :
          child[x] \in {"runs", "broken", "ended"} => child'[x] \in {"runs", "broken", "ended"}
    BY <1>0, <2>1 DEF RestTypes
  <2> QED
    BY <2>1, <2>3, <2>4, UnmarkedKeepsAwake
<1>7. ASSUME NEW s \in Sessions, Terminal!ChildFails(s) \/ Terminal!ChildCloses(s)
      PROVE  Terminal!TypeOK' /\ Terminal!AwakeOnlyForWork'
  <2>1. /\ sessions' = sessions \ {s} /\ Terminal!MarkActive(activeSessions \ {s}, activeTurns)
        /\ UNCHANGED <<terminalToAgent, creating, threw>>
    BY <1>7 DEF Terminal!ChildFails, Terminal!ChildCloses
  <2>2. \E status \in Terminal!Status : Terminal!Says(s, status)
    BY <1>7 DEF Terminal!ChildFails, Terminal!ChildCloses, Terminal!ReportClose,
       Terminal!Status
  <2>3. \E to \in Terminal!ChildState : child' = [child EXCEPT ![s] = to]
    BY <1>7 DEF Terminal!ChildFails, Terminal!ChildCloses, Terminal!ChildState
  <2>4. terminalToHub' \in Seq(Terminal!StatusMsg) /\ cut' \subseteq Sessions
    BY <1>0, <2>2, SentTypes
  <2>5. child' \in [Sessions -> Terminal!ChildState] /\ \A x \in Sessions \ {s} : child'[x] = child[x]
    BY <1>0, <2>3 DEF RestTypes
  <2>6. RestTypes'
    BY <1>0, <1>1, <2>1, <2>4, <2>5 DEF RestTypes
  <2>7. \A x \in activeSessions \ {s} :
          child'[x] \in {"runs", "broken", "ended"} \/ x \in threw'
    BY <1>0, <2>1, <2>5 DEF ActiveRuns
  <2> QED
    BY <1>0, <2>1, <2>6, <2>7, MarkKeepsAwake
<1>8. ASSUME NEW s \in Sessions, NEW b \in BOOLEAN, Terminal!SpawnSession(s, b)
      PROVE  Terminal!TypeOK' /\ Terminal!AwakeOnlyForWork'
  <2>1. /\ creating' = creating \ {s} /\ sessions' = sessions \union {s}
        /\ Terminal!MarkActive(activeSessions \union {s}, activeTurns)
        /\ child' = [child EXCEPT ![s] = IF b THEN "runs" ELSE "broken"]
        /\ UNCHANGED <<terminalToAgent, threw>>
    BY <1>8 DEF Terminal!SpawnSession
  <2>2. Terminal!Says(s, "running") /\ "running" \in Terminal!Status
    BY <1>8 DEF Terminal!SpawnSession, Terminal!Status
  <2>3. /\ child' \in [Sessions -> Terminal!ChildState] /\ child'[s] \in {"runs", "broken"}
        /\ \A x \in Sessions \ {s} : child'[x] = child[x]
    BY <1>0, <2>1 DEF RestTypes, Terminal!ChildState
  <2>4. RestTypes'
    BY <1>0, <1>1, <2>1, <2>2, <2>3, SentTypes DEF RestTypes
  <2>5. \A x \in activeSessions \union {s} :
          child'[x] \in {"runs", "broken", "ended"} \/ x \in threw'
    BY <1>0, <2>1, <2>3 DEF ActiveRuns
  <2> QED
    BY <1>0, <2>1, <2>4, <2>5, MarkKeepsAwake
<1>9. ASSUME NEW i \in 1 .. MaxSpawns, Terminal!InhibitorExits(i)
      PROVE  Terminal!TypeOK' /\ Terminal!AwakeOnlyForWork'
  <2>1. UNCHANGED <<terminalToAgent, terminalToHub, creating, sessions, child, threw, cut,
                     activeSessions, activeTurns>>
    BY <1>9 DEF Terminal!InhibitorExits, Terminal!wireVars, Terminal!agentVars,
       Terminal!pastVars
  <2>2. AwakeTypes' /\ Referred'
    BY <1>0, <1>9, ExitedIsForgotten
  <2>3. Terminal!TypeOK'
    BY <1>0, <1>1, <2>1, <2>2 DEF Terminal!TypeOK, RestTypes, AwakeTypes
  <2>4. Terminal!AwakeOnlyForWork'
    BY <1>0, <2>1, <2>2 DEF Terminal!AwakeOnlyForWork, Terminal!InWork, ActiveRuns, Referred
  <2> QED
    BY <2>3, <2>4
<1>10. ASSUME NEW t \in Turns, Terminal!TurnMarked(t)
       PROVE  Terminal!TypeOK' /\ Terminal!AwakeOnlyForWork'
  <2>1. PICK T \in SUBSET Turns : Terminal!MarkActive(activeSessions, T)
    BY <1>0, <1>10 DEF Terminal!TurnMarked
  <2>2. UNCHANGED <<terminalToAgent, terminalToHub, creating, sessions, child, threw, cut>>
    BY <1>10 DEF Terminal!TurnMarked, Terminal!wireVars, Terminal!agentVars, Terminal!pastVars
  <2>3. RestTypes'
    BY <1>0, <1>1, <2>2 DEF RestTypes
  <2>4. \A x \in activeSessions : child'[x] \in {"runs", "broken", "ended"} \/ x \in threw'
    BY <1>0, <2>2 DEF ActiveRuns
  <2> QED
    BY <1>0, <2>1, <2>3, <2>4, MarkKeepsAwake
<1> QED
  BY <1>2, <1>3, <1>4, <1>5, <1>6, <1>7, <1>8, <1>9, <1>10

\* An agent that stops lets the computer sleep, and one that ends leaves its inhibitor.
LEMMA EndKeepsAwake ==
  ASSUME TerminalBounds, Terminal!TypeOK, Terminal!AwakeOnlyForWork,
         Terminal!StopAgent \/ Terminal!AgentEnds
  PROVE  Terminal!TypeOK' /\ Terminal!AwakeOnlyForWork'
<1>0. /\ RestTypes /\ AwakeTypes /\ Referred /\ ActiveRuns
      /\ activeSessions \subseteq Sessions /\ activeTurns \subseteq Turns
  BY TerminalParts
<1>1. Terminal!OnTheWire \subseteq Sessions
  BY <1>0, WireTypes
<1>2. 0 \in 0 .. MaxSpawns
  BY DEF TerminalBounds
<1>3. CASE Terminal!StopAgent
  <2>1. /\ serving' = FALSE /\ cut' = cut \union Terminal!OnTheWire
        /\ terminalToAgent' = <<>> /\ terminalToHub' = <<>>
        /\ inhibitor' = 0 /\ signalled' = signalled \union (alive \intersect {inhibitor})
        /\ UNCHANGED <<row, writing, creating, sessions, child, activeSessions, activeTurns,
                       alive, spawned, orphans, threw, reordered, losses>>
    BY <1>3 DEF Terminal!StopAgent, Terminal!StopInhibitor, Terminal!serverVars
  <2>8. terminalToAgent' \in Seq(Terminal!AgentMsg) /\ terminalToHub' \in Seq(Terminal!StatusMsg)
    BY <2>1
  <2>2. RestTypes'
    BY <1>0, <1>1, <2>1, <2>8 DEF RestTypes
  <2>3. AwakeTypes'
    BY <1>0, <1>2, <2>1 DEF AwakeTypes
  <2>4. Referred' /\ ActiveRuns'
    BY <1>0, <2>1 DEF Referred, ActiveRuns
  <2>5. activeSessions' \subseteq Sessions /\ activeTurns' \subseteq Turns
    BY <1>0, <2>1
  <2>6. Terminal!TypeOK'
    BY <2>2, <2>3, <2>5 DEF Terminal!TypeOK, RestTypes, AwakeTypes
  <2>7. Terminal!AwakeOnlyForWork'
    BY <2>4, <2>5 DEF Terminal!AwakeOnlyForWork, Terminal!InWork, Referred, ActiveRuns
  <2> QED
    BY <2>6, <2>7
<1>4. CASE Terminal!AgentEnds
  <2>1. /\ Terminal!Loss /\ serving' = TRUE
        /\ cut' = cut \union Terminal!OnTheWire \union creating
        /\ terminalToAgent' = <<>> /\ terminalToHub' = <<>>
        /\ creating' = {} /\ sessions' = {}
        /\ child' = [s \in Sessions |-> IF s \in Terminal!InWork THEN "lost" ELSE child[s]]
        /\ activeSessions' = {} /\ activeTurns' = {} /\ inhibitor' = 0
        /\ orphans' = orphans \union (alive \ signalled)
        /\ UNCHANGED <<row, writing, alive, signalled, spawned, threw, reordered>>
    BY <1>4 DEF Terminal!AgentEnds, Terminal!serverVars
  <2>2. losses' \in 0 .. MaxLosses
    BY <1>0, <2>1, LossCounts
  <2>3. child' \in [Sessions -> Terminal!ChildState]
    BY <1>0, <2>1 DEF RestTypes, Terminal!ChildState
  <2>4. terminalToAgent' \in Seq(Terminal!AgentMsg) /\ terminalToHub' \in Seq(Terminal!StatusMsg)
    BY <2>1
  <2>5. RestTypes'
    BY <1>0, <1>1, <2>1, <2>2, <2>3, <2>4 DEF RestTypes
  <2>6. AwakeTypes'
    BY <1>0, <1>2, <2>1 DEF AwakeTypes
  <2>7. Referred' /\ ActiveRuns'
    BY <2>1 DEF Referred, ActiveRuns
  <2>8. activeSessions' \subseteq Sessions /\ activeTurns' \subseteq Turns
    BY <2>1
  <2>9. Terminal!TypeOK'
    BY <2>5, <2>6, <2>8 DEF Terminal!TypeOK, RestTypes, AwakeTypes
  <2>10. Terminal!AwakeOnlyForWork'
    BY <2>7, <2>8 DEF Terminal!AwakeOnlyForWork, Terminal!InWork, Referred, ActiveRuns
  <2> QED
    BY <2>9, <2>10
<1> QED
  BY <1>3, <1>4

-----------------------------------------------------------------------------
(* The invariant.                                                           *)

\* It holds at first,
LEMMA InitTerminal == ASSUME TerminalBounds, Terminal!Init PROVE TerminalInv
<1> USE DEF Terminal!Init
<1>1. Terminal!TypeOK
  BY DEF TerminalBounds, Terminal!TypeOK, Terminal!Status, Terminal!ChildState
<1>2. Terminal!AwakeOnlyForWork
  BY DEF Terminal!AwakeOnlyForWork, Terminal!InWork
<1>3. AllTold
  BY DEF AllTold, Told
<1> QED
  BY <1>1, <1>2, <1>3 DEF TerminalInv

\* and every step keeps it.
LEMMA NextKeepsTerminal ==
  ASSUME TerminalBounds, TerminalInv, [Terminal!Next]_(Terminal!sessionVars)
  PROVE  TerminalInv'
<1>0. Terminal!TypeOK /\ Terminal!AwakeOnlyForWork /\ AllTold
  BY DEF TerminalInv
<1>1. CASE \/ \E s \in Sessions :
                Terminal!SendTerminate(s) \/ Terminal!ChildEnds(s) \/ Terminal!SpawnThrows(s)
           \/ Terminal!HandleCreate \/ Terminal!HandleTerminate
           \/ \E i \in 1 .. MaxSpawns : Terminal!InhibitorExits(i)
           \/ \E t \in Turns : Terminal!TurnMarked(t)
  <2>1. AllTold'
    BY <1>0, <1>1, AgentKeepsTold
  <2>2. Terminal!TypeOK' /\ Terminal!AwakeOnlyForWork'
    BY <1>0, <1>1, AgentKeepsAwake, HubKeepsAwake
  <2> QED
    BY <2>1, <2>2 DEF TerminalInv
<1>2. CASE \E s \in Sessions : \/ Terminal!CreateRefused(s) \/ Terminal!ChildFails(s) \/ Terminal!ChildCloses(s)
                               \/ \E b \in BOOLEAN : Terminal!SpawnSession(s, b)
  <2>1. AllTold'
    BY <1>0, <1>2, SaysKeepsAllTold
  <2>2. Terminal!TypeOK' /\ Terminal!AwakeOnlyForWork'
    BY <1>0, <1>2, AgentKeepsAwake
  <2> QED
    BY <2>1, <2>2 DEF TerminalInv
<1>3. CASE \/ \E s \in Sessions, b \in BOOLEAN : Terminal!CreateSession(s, b)
           \/ Terminal!ReceiveStatus \/ Terminal!Drop
           \/ \E w \in Terminal!StatusMsg : Terminal!WriteRuns(w) \/ Terminal!WriteFails(w)
  <2>1. AllTold'
    BY <1>0, <1>3, CreateKeepsTold, ReceiveKeepsTold, LossKeepsTold, WriteKeepsTold,
       FailureKeepsTold
  <2>2. Terminal!TypeOK' /\ Terminal!AwakeOnlyForWork'
    BY <1>0, <1>3, HubKeepsAwake
  <2> QED
    BY <2>1, <2>2 DEF TerminalInv
<1>5. CASE Terminal!StopAgent \/ Terminal!AgentEnds
  <2>1. AllTold'
    BY <1>0, <1>5, LossKeepsTold
  <2>2. Terminal!TypeOK' /\ Terminal!AwakeOnlyForWork'
    BY <1>0, <1>5, EndKeepsAwake
  <2> QED
    BY <2>1, <2>2 DEF TerminalInv
<1>4. CASE UNCHANGED Terminal!sessionVars
  <2>1. UNCHANGED <<row, writing, terminalToAgent, terminalToHub, serving, creating, sessions,
                    child, activeSessions, activeTurns, inhibitor, alive, signalled, spawned,
                    orphans, threw, reordered, cut, losses>>
    BY <1>4 DEF Terminal!sessionVars, Terminal!serverVars, Terminal!wireVars,
       Terminal!agentVars, Terminal!awakeVars, Terminal!pastVars
  <2>2. Terminal!TypeOK'
    BY <1>0, <2>1 DEF Terminal!TypeOK
  <2>3. Terminal!AwakeOnlyForWork'
    BY <1>0, <2>1 DEF Terminal!AwakeOnlyForWork, Terminal!InWork
  <2>4. AllTold'
    BY <1>0, <2>1 DEF AllTold, Told, InWork, EndBehind
  <2> QED
    BY <2>2, <2>3, <2>4 DEF TerminalInv
<1> QED
  BY <1>1, <1>2, <1>3, <1>4, <1>5 DEF Terminal!Next

\* A row that says "running" is of a session in work, or the end of it is being told.
LEMMA ToldFollows == ASSUME TerminalInv PROVE Terminal!RowFollowsSession
<1> SUFFICES ASSUME NEW s \in Sessions, row[s] = "running",
                    s \notin (creating \union threw \union reordered \union cut)
             PROVE  \/ child[s] \in {"runs", "broken", "ended", "lost"}
                    \/ \E w \in writing : w.session = s
                    \/ \E i \in 1 .. Len(terminalToHub) : terminalToHub[i].session = s
                    \/ \E i \in 1 .. Len(terminalToAgent) :
                         terminalToAgent[i] = [type |-> "create", session |-> s]
  BY DEF Terminal!RowFollowsSession, Terminal!InWork
<1>1. InWork(s) \/ Told(s)
  BY DEF TerminalInv, AllTold
<1>2. CASE InWork(s)
  BY <1>2 DEF InWork
<1>3. CASE Told(s)
  BY <1>3 DEF Told, EndBehind
<1> QED
  BY <1>1, <1>2, <1>3

\* In every state, nobody but the manager's inhibitor and those left behind by agents
\* that ended runs unsignalled, and the end of every session that its agent sees is told
\* behind its start, unless a message or a write about it was lost.
THEOREM TerminalInvariant ==
  ASSUME TerminalBounds PROVE Terminal!Spec => []TerminalInv
<1>1. Terminal!Init => TerminalInv
  BY InitTerminal
<1>2. TerminalInv /\ [Terminal!Next]_(Terminal!sessionVars) => TerminalInv'
  BY NextKeepsTerminal
<1> QED
  BY <1>1, <1>2, PTL DEF Terminal!Spec

-----------------------------------------------------------------------------
(* Tunnels.                                                                 *)

TunnelBounds ==
  /\ MaxConns \in Nat /\ LastHost \in Nat \ {0} /\ Owner \in Agents
  /\ Https \intersect Sockets = {}

-----------------------------------------------------------------------------
(* The invariant.                                                           *)

\* A message is in a queue, or is in it once.
Has(queue, m) == \E i \in 1 .. Len(queue) : queue[i] = m
Once(queue, m) == \A i, j \in 1 .. Len(queue) : queue[i] = m /\ queue[j] = m => i = j

\* Messages name what they are about.
WireInv ==
  \A a \in Agents : \A m \in Tunnel!Msg :
    Has(tunnelToAgent[a], m) =>
      /\ m.type = "http.request" => m.of \in Https
      /\ m.type \in {"ws.open", "ws.close"} => m.of \in Sockets

\* What is under way on an agent began on a connection; a request that is being passed on
\* has been sent to the hosts up to the one that is called.
OriginInv ==
  /\ \A p \in DOMAIN fetching :
       /\ fetching[p].on # 0
       /\ \A h \in Tunnel!Host :
            served[<<p[1], p[2], h>>] = IF h <= fetching[p].host THEN 1 ELSE 0
  /\ \A p \in DOMAIN opening : opening[p] # 0
  /\ \A p \in DOMAIN local : local[p] # 0

\* The hub's connection of an agent is the one the agent holds, if it holds one, and
\* messages travel only then.
NetInv ==
  \A a \in Agents :
    /\ agentConn[a] # 0 => conn[a] = agentConn[a] /\ agentConn[a] \notin closing[a]
    /\ closing[a] \subseteq 0 .. conns /\ agentConn[a] \in 0 .. conns
    /\ agentConn[a] = 0 => tunnelToAgent[a] = <<>> /\ tunnelToHub[a] = <<>>

\* No host was called for a request; each of one agent's was at most once.
Unserved(r) == \A a \in Agents, h \in Tunnel!Host : served[<<r, a, h>>] = 0
OneServer(r) ==
  \A a, b \in Agents, g, h \in Tunnel!Host :
    /\ served[<<r, a, h>>] <= 1
    /\ served[<<r, a, h>>] > 0 /\ served[<<r, b, g>>] > 0 => a = b

\* A request is sent to one agent, once, and then it is not tried any more.
HttpInv ==
  \A r \in Https :
    LET m == Tunnel!Message("http.request", r)
    IN  /\ tunnelAt[r] \in {"none", "asked", "trying"} =>
             Unserved(r) /\ \A a \in Agents : ~Has(tunnelToAgent[a], m)
        /\ OneServer(r)
        /\ \A a \in Agents :
             /\ Once(tunnelToAgent[a], m)
             /\ Has(tunnelToAgent[a], m) =>
                  Unserved(r) /\ \A b \in Agents \ {a} : ~Has(tunnelToAgent[b], m)

\* A websocket waits for one agent, or is routed to one.
PairsInv ==
  /\ \A p \in pendingOpen : tunnelAt[p[1]] = "waiting"
  /\ \A p \in routes : tunnelAt[p[1]] \in {"opened", "open"}
  /\ \A p, q \in pendingOpen : p[1] = q[1] => p = q
  /\ \A p, q \in routes : p[1] = q[1] => p = q

\* control-api has seen a websocket close before it knew its connectionId, or after.
HeardInv ==
  \A w \in heard :
    /\ tunnelAt[w] \notin {"none", "asked"}
    /\ tunnelAt[w] \in {"trying", "waiting", "opened"} => \A a \in Agents : <<w, a>> \in lapsed

\* A route ends, or is marked, with the connection.
RouteInv == \A p \in routes \ lapsed : agentConn[p[2]] # 0

\* An attempt is asked for, opens, is open, has ended: one after the other.
Asked(w, a)  == Has(tunnelToAgent[a], Tunnel!Message("ws.open", w))
Opened(w, a) == Has(tunnelToHub[a], Tunnel!Message("ws.opened", w))
Ended(w, a)  ==
  Has(tunnelToHub[a], Tunnel!Message("ws.failed", w)) \/ Has(tunnelToHub[a], Tunnel!Message("ws.closed", w))
Untried(w, a) == tunnelAt[w] \in {"none", "asked"} \/ a \in candidates[w]

StagesOf(w, a) ==
  LET p == <<w, a>>
  IN  /\ Untried(w, a) => ~Asked(w, a) /\ p \notin DOMAIN opening \union DOMAIN local
                          /\ ~Opened(w, a) /\ ~Ended(w, a)
      /\ Once(tunnelToAgent[a], Tunnel!Message("ws.open", w))
      /\ Asked(w, a) => p \notin DOMAIN opening \union DOMAIN local
                        /\ ~Opened(w, a) /\ ~Ended(w, a)
      /\ p \in DOMAIN opening => p \notin DOMAIN local /\ ~Opened(w, a) /\ ~Ended(w, a)
      /\ p \in DOMAIN local => ~Ended(w, a)

\* The hub waits for it meanwhile, on the connection it was asked on.
AwaitedOf(w, a) ==
  LET p == <<w, a>>
  IN  /\ Asked(w, a) => p \in pendingOpen \union lapsed
      /\ p \in DOMAIN opening =>
           p \in lapsed \/ (p \in pendingOpen /\ opening[p] = agentConn[a])

AttemptInv == \A w \in Sockets, a \in Agents : StagesOf(w, a) /\ AwaitedOf(w, a)

TunnelInv ==
  /\ Tunnel!TypeOK /\ WireInv /\ OriginInv /\ NetInv /\ HttpInv /\ PairsInv /\ HeardInv
  /\ RouteInv /\ AttemptInv /\ Tunnel!LocalIsRouted

-----------------------------------------------------------------------------
(* Queues and functions.                                                    *)

\* An empty queue,
LEMMA EmptyHas == \A k : ~Has(<<>>, k) /\ Once(<<>>, k)
  BY DEF Has, Once

\* one that grows,
LEMMA AppendHas ==
  ASSUME NEW S, NEW q \in Seq(S), NEW e \in S
  PROVE  /\ Append(q, e) \in Seq(S) /\ Append(q, e) # <<>>
         /\ \A k : Has(Append(q, e), k) <=> Has(q, k) \/ k = e
         /\ \A k : Once(q, k) /\ (k # e \/ ~Has(q, k)) => Once(Append(q, e), k)
<1>1. /\ Append(q, e) \in Seq(S) /\ Len(Append(q, e)) = Len(q) + 1 /\ Len(q) \in Nat
      /\ \A i \in 1 .. Len(q) : Append(q, e)[i] = q[i]
      /\ Append(q, e)[Len(q) + 1] = e
  OBVIOUS
<1>2. Append(q, e) # <<>>
  BY <1>1
<1>3. ASSUME NEW k PROVE Has(Append(q, e), k) <=> Has(q, k) \/ k = e
  <2>1. Has(q, k) => Has(Append(q, e), k)
    BY <1>1 DEF Has
  <2>2. k = e => Has(Append(q, e), k)
    BY <1>1 DEF Has
  <2>3. Has(Append(q, e), k) => Has(q, k) \/ k = e
    BY <1>1 DEF Has
  <2> QED
    BY <2>1, <2>2, <2>3
<1>4. ASSUME NEW k, Once(q, k), k # e \/ ~Has(q, k) PROVE Once(Append(q, e), k)
  BY <1>1, <1>4 DEF Has, Once
<1> QED
  BY <1>1, <1>2, <1>3, <1>4

\* and one that is read.
LEMMA TailHas ==
  ASSUME NEW S, NEW q \in Seq(S), q # <<>>
  PROVE  /\ Head(q) \in S /\ Tail(q) \in Seq(S)
         /\ \A k : Has(q, k) <=> k = Head(q) \/ Has(Tail(q), k)
         /\ \A k : Once(q, k) => Once(Tail(q), k) /\ (k = Head(q) => ~Has(Tail(q), k))
<1>1. /\ Head(q) \in S /\ Head(q) = q[1]
      /\ Tail(q) \in Seq(S) /\ Len(Tail(q)) = Len(q) - 1 /\ Len(q) \in Nat \ {0}
      /\ \A i \in 1 .. Len(Tail(q)) : Tail(q)[i] = q[i + 1]
  OBVIOUS
<1>2. \A i \in 1 .. Len(q) : i = 1 \/ (i - 1 \in 1 .. Len(Tail(q)) /\ Tail(q)[i - 1] = q[i])
  BY <1>1
<1>3. ASSUME NEW k PROVE Has(q, k) <=> k = Head(q) \/ Has(Tail(q), k)
  <2>1. Has(Tail(q), k) => Has(q, k)
    BY <1>1 DEF Has
  <2>2. k = Head(q) => Has(q, k)
    BY <1>1 DEF Has
  <2>3. Has(q, k) => k = Head(q) \/ Has(Tail(q), k)
    BY <1>1, <1>2 DEF Has
  <2> QED
    BY <2>1, <2>2, <2>3
<1>4. ASSUME NEW k, Once(q, k) PROVE Once(Tail(q), k) /\ (k = Head(q) => ~Has(Tail(q), k))
  <2>1. Once(Tail(q), k)
    BY <1>1, <1>4 DEF Once
  <2>2. ASSUME k = Head(q), NEW i \in 1 .. Len(Tail(q)), Tail(q)[i] = k PROVE FALSE
    <3>1. i + 1 \in 1 .. Len(q) /\ q[i + 1] = k /\ 1 \in 1 .. Len(q) /\ q[1] = k /\ i + 1 # 1
      BY <1>1, <2>2
    <3> QED
      BY <1>4, <3>1 DEF Once
  <2> QED
    BY <2>1, <2>2 DEF Has
<1> QED
  BY <1>1, <1>3, <1>4

\* A function that is changed at a point, and one that is cut.
LEMMA WithPoint ==
  ASSUME NEW f, NEW x, NEW v
  PROVE  /\ DOMAIN Tunnel!With(f, x, v) = DOMAIN f \union {x} /\ Tunnel!With(f, x, v)[x] = v
         /\ \A y \in DOMAIN f \ {x} : Tunnel!With(f, x, v)[y] = f[y]
         /\ DOMAIN Tunnel!Without(f, x) = DOMAIN f \ {x}
         /\ \A y \in DOMAIN f \ {x} : Tunnel!Without(f, x)[y] = f[y]
  BY DEF Tunnel!With, Tunnel!Without

-----------------------------------------------------------------------------
(* What is sent and received.                                               *)

TunnelOpen == Tunnel!Message("tunnel.open", None)

\* m is sent to the agent a, after word of the tunnel or alone,
Posted(a, m) ==
  /\ tunnelToAgent' \in [Agents -> Seq(Tunnel!Msg)]
  /\ \A b \in Agents \ {a} : tunnelToAgent'[b] = tunnelToAgent[b]
  /\ ~Tunnel!Delivers(a) => tunnelToAgent'[a] = tunnelToAgent[a]
  /\ Tunnel!Delivers(a) => Has(tunnelToAgent'[a], m)
  /\ \A k : Has(tunnelToAgent[a], k) => Has(tunnelToAgent'[a], k)
  /\ \A k : Has(tunnelToAgent'[a], k) => Has(tunnelToAgent[a], k) \/ k = m \/ k = TunnelOpen
  /\ \A k : /\ Once(tunnelToAgent[a], k) /\ k # TunnelOpen
            /\ k # m \/ ~Has(tunnelToAgent[a], k)
            => Once(tunnelToAgent'[a], k)

\* h is taken by the agent a,
Taken(a, h) ==
  /\ tunnelToAgent' \in [Agents -> Seq(Tunnel!Msg)] /\ h \in Tunnel!Msg
  /\ tunnelToAgent[a] # <<>>
  /\ \A b \in Agents \ {a} : tunnelToAgent'[b] = tunnelToAgent[b]
  /\ \A k : Has(tunnelToAgent[a], k) <=> k = h \/ Has(tunnelToAgent'[a], k)
  /\ \A k : Once(tunnelToAgent[a], k) =>
       Once(tunnelToAgent'[a], k) /\ (k = h => ~Has(tunnelToAgent'[a], k))

\* and m is its answer.
Answered(a, n, m) ==
  /\ tunnelToHub' \in [Agents -> Seq(Tunnel!Reply)]
  /\ \A b \in Agents \ {a} : tunnelToHub'[b] = tunnelToHub[b]
  /\ n # agentConn[a] => tunnelToHub'[a] = tunnelToHub[a]
  /\ \A k : Has(tunnelToHub'[a], k) <=> Has(tunnelToHub[a], k) \/ (n = agentConn[a] /\ k = m)

\* The kinds of messages.
LEMMA Kinds ==
  /\ TunnelOpen \in Tunnel!Msg
  /\ \A type \in {"http.request", "ws.open", "ws.close"}, r \in Tunnel!Requests :
       Tunnel!Message(type, r) \in Tunnel!Msg
  /\ \A type \in {"http.response", "ws.opened", "ws.failed", "ws.closed"}, r \in Tunnel!Requests :
       Tunnel!Message(type, r) \in Tunnel!Reply
  /\ \A type, of : Tunnel!Message(type, of).type = type /\ Tunnel!Message(type, of).of = of
  /\ \A m \in Tunnel!Msg : m = Tunnel!Message(m.type, m.of) /\ (m = TunnelOpen \/ m.of \in Tunnel!Requests)
  /\ \A m \in Tunnel!Reply : m = Tunnel!Message(m.type, m.of) /\ m.of \in Tunnel!Requests
  /\ \A type, of : Tunnel!Message(type, of) = TunnelOpen => type = "tunnel.open"
  /\ \A type, of, type2, of2 :
       Tunnel!Message(type, of) = Tunnel!Message(type2, of2) <=> type = type2 /\ of = of2
<1>1. \A type, of : Tunnel!Message(type, of).type = type /\ Tunnel!Message(type, of).of = of
  BY DEF Tunnel!Message
<1>2. TunnelOpen \in Tunnel!Msg
  BY DEF TunnelOpen, Tunnel!Message, Tunnel!Msg
<1>3. \A type \in {"http.request", "ws.open", "ws.close"}, r \in Tunnel!Requests :
        Tunnel!Message(type, r) \in Tunnel!Msg
  BY DEF Tunnel!Message, Tunnel!Msg
<1>4. \A type \in {"http.response", "ws.opened", "ws.failed", "ws.closed"}, r \in Tunnel!Requests :
        Tunnel!Message(type, r) \in Tunnel!Reply
  BY DEF Tunnel!Message, Tunnel!Reply
<1>5. \A m \in Tunnel!Msg : m = Tunnel!Message(m.type, m.of) /\ (m = TunnelOpen \/ m.of \in Tunnel!Requests)
  BY DEF Tunnel!Message, Tunnel!Msg, TunnelOpen
<1>6. \A m \in Tunnel!Reply : m = Tunnel!Message(m.type, m.of) /\ m.of \in Tunnel!Requests
  BY DEF Tunnel!Message, Tunnel!Reply
<1>7. \A type, of, type2, of2 :
        Tunnel!Message(type, of) = Tunnel!Message(type2, of2) <=> type = type2 /\ of = of2
  BY DEF Tunnel!Message
<1> QED
  BY <1>1, <1>2, <1>3, <1>4, <1>5, <1>6, <1>7 DEF TunnelOpen

\* Send sends it,
LEMMA SendPosts ==
  ASSUME tunnelToAgent \in [Agents -> Seq(Tunnel!Msg)], NEW a \in Agents, NEW m \in Tunnel!Msg,
         Tunnel!Send(a, <<m>>) \/ Tunnel!Send(a, Tunnel!EnsureTunnelOpen(<<m>>))
  PROVE  Posted(a, m)
<1>0. tunnelToAgent[a] \in Seq(Tunnel!Msg) /\ TunnelOpen \in Tunnel!Msg
  BY Kinds
<1>1. CASE ~Tunnel!Delivers(a)
  <2>1. tunnelToAgent' = tunnelToAgent
    BY <1>1 DEF Tunnel!Send
  <2> QED
    BY <1>1, <2>1 DEF Posted
<1>2. CASE Tunnel!Delivers(a) /\ Tunnel!Send(a, <<m>>)
  <2>1. tunnelToAgent' = [tunnelToAgent EXCEPT ![a] = tunnelToAgent[a] \o <<m>>]
    BY <1>2 DEF Tunnel!Send
  <2>2. tunnelToAgent[a] \o <<m>> = Append(tunnelToAgent[a], m)
    BY <1>0
  <2>3. tunnelToAgent' = [tunnelToAgent EXCEPT ![a] = Append(tunnelToAgent[a], m)]
    BY <2>1, <2>2
  <2>4. /\ tunnelToAgent'[a] = Append(tunnelToAgent[a], m)
        /\ \A b \in Agents \ {a} : tunnelToAgent'[b] = tunnelToAgent[b]
    BY <2>3
  <2>5. Append(tunnelToAgent[a], m) \in Seq(Tunnel!Msg)
    BY <1>0, AppendHas
  <2>6. tunnelToAgent' \in [Agents -> Seq(Tunnel!Msg)]
    BY <2>3, <2>5
  <2>7. /\ \A k : Has(tunnelToAgent'[a], k) <=> Has(tunnelToAgent[a], k) \/ k = m
        /\ \A k : Once(tunnelToAgent[a], k) /\ (k # m \/ ~Has(tunnelToAgent[a], k)) =>
             Once(tunnelToAgent'[a], k)
    BY <1>0, <2>4, AppendHas
  <2> QED
    BY <1>2, <2>4, <2>6, <2>7 DEF Posted
<1>3. CASE Tunnel!Delivers(a) /\ Tunnel!Send(a, Tunnel!EnsureTunnelOpen(<<m>>))
  <2>1. tunnelToAgent' = [tunnelToAgent EXCEPT ![a] = tunnelToAgent[a] \o (<<TunnelOpen>> \o <<m>>)]
    BY <1>3 DEF Tunnel!Send, Tunnel!EnsureTunnelOpen, TunnelOpen
  <2> DEFINE q == Append(tunnelToAgent[a], TunnelOpen)
  <2>2. tunnelToAgent[a] \o (<<TunnelOpen>> \o <<m>>) = Append(q, m)
    BY <1>0
  <2>3. tunnelToAgent' = [tunnelToAgent EXCEPT ![a] = Append(q, m)]
    BY <2>1, <2>2
  <2>4. /\ tunnelToAgent'[a] = Append(q, m)
        /\ \A b \in Agents \ {a} : tunnelToAgent'[b] = tunnelToAgent[b]
    BY <2>3
  <2>5. /\ q \in Seq(Tunnel!Msg)
        /\ \A k : Has(q, k) <=> Has(tunnelToAgent[a], k) \/ k = TunnelOpen
        /\ \A k : Once(tunnelToAgent[a], k) /\ k # TunnelOpen => Once(q, k)
    BY <1>0, AppendHas
  <2> HIDE DEF q
  <2>6. /\ Append(q, m) \in Seq(Tunnel!Msg)
        /\ \A k : Has(Append(q, m), k) <=> Has(q, k) \/ k = m
        /\ \A k : Once(q, k) /\ (k # m \/ ~Has(q, k)) => Once(Append(q, m), k)
    BY <2>5, AppendHas
  <2>7. tunnelToAgent' \in [Agents -> Seq(Tunnel!Msg)]
    BY <2>3, <2>6
  <2> QED
    BY <1>3, <2>4, <2>5, <2>6, <2>7 DEF Posted
<1> QED
  BY <1>1, <1>2, <1>3

\* the head of the queue is what is taken,
LEMMA TakesTaken ==
  ASSUME tunnelToAgent \in [Agents -> Seq(Tunnel!Msg)], NEW a \in Agents, NEW type, Tunnel!Takes(a, type)
  PROVE  /\ Taken(a, Head(tunnelToAgent[a])) /\ Head(tunnelToAgent[a]).type = type
         /\ Head(tunnelToAgent[a]) = Tunnel!Message(type, Head(tunnelToAgent[a]).of)
         /\ type # "tunnel.open" => Head(tunnelToAgent[a]).of \in Tunnel!Requests
<1>1. /\ tunnelToAgent[a] # <<>> /\ Head(tunnelToAgent[a]).type = type
      /\ tunnelToAgent' = [tunnelToAgent EXCEPT ![a] = Tail(tunnelToAgent[a])]
  BY DEF Tunnel!Takes
<1>2. /\ Head(tunnelToAgent[a]) \in Tunnel!Msg /\ Tail(tunnelToAgent[a]) \in Seq(Tunnel!Msg)
      /\ \A k : Has(tunnelToAgent[a], k) <=> k = Head(tunnelToAgent[a]) \/ Has(Tail(tunnelToAgent[a]), k)
      /\ \A k : Once(tunnelToAgent[a], k) =>
                  /\ Once(Tail(tunnelToAgent[a]), k)
                  /\ k = Head(tunnelToAgent[a]) => ~Has(Tail(tunnelToAgent[a]), k)
  BY <1>1, TailHas
<1>3. /\ tunnelToAgent'[a] = Tail(tunnelToAgent[a])
      /\ \A b \in Agents \ {a} : tunnelToAgent'[b] = tunnelToAgent[b]
      /\ tunnelToAgent' \in [Agents -> Seq(Tunnel!Msg)]
  BY <1>1, <1>2
<1>4. Taken(a, Head(tunnelToAgent[a]))
  BY <1>1, <1>2, <1>3 DEF Taken
<1> QED
  BY <1>1, <1>2, <1>4, Kinds

\* and Answer answers.
LEMMA AnswerAnswers ==
  ASSUME tunnelToHub \in [Agents -> Seq(Tunnel!Reply)], NEW a \in Agents, NEW n, NEW m \in Tunnel!Reply,
         Tunnel!Answer(a, n, m)
  PROVE  Answered(a, n, m)
<1>1. CASE n # agentConn[a]
  <2>1. tunnelToHub' = tunnelToHub
    BY <1>1 DEF Tunnel!Answer
  <2> QED
    BY <1>1, <2>1 DEF Answered
<1>2. CASE n = agentConn[a]
  <2>1. tunnelToHub' = [tunnelToHub EXCEPT ![a] = Append(tunnelToHub[a], m)]
    BY <1>2 DEF Tunnel!Answer
  <2>2. /\ Append(tunnelToHub[a], m) \in Seq(Tunnel!Reply)
        /\ \A k : Has(Append(tunnelToHub[a], m), k) <=> Has(tunnelToHub[a], k) \/ k = m
    BY AppendHas
  <2>3. /\ tunnelToHub'[a] = Append(tunnelToHub[a], m)
        /\ \A b \in Agents \ {a} : tunnelToHub'[b] = tunnelToHub[b]
        /\ tunnelToHub' \in [Agents -> Seq(Tunnel!Reply)]
    BY <2>1, <2>2
  <2> QED
    BY <1>2, <2>2, <2>3 DEF Answered
<1> QED
  BY <1>1, <1>2

-----------------------------------------------------------------------------
(* Steps that leave alone what a part of the invariant is about.            *)

\* Nothing was added for a request.
LEMMA HttpFrame ==
  ASSUME HttpInv, served' = served,
         \A r \in Https : tunnelAt'[r] \in {"none", "asked", "trying"} =>
                            tunnelAt[r] \in {"none", "asked", "trying"},
         \A r \in Https, a \in Agents :
           LET m == Tunnel!Message("http.request", r)
           IN  /\ Has(tunnelToAgent'[a], m) => Has(tunnelToAgent[a], m)
               /\ Once(tunnelToAgent[a], m) => Once(tunnelToAgent'[a], m)
  PROVE  HttpInv'
  BY DEF HttpInv, Unserved, OneServer

\* Nothing was added for an attempt.
LEMMA StagesFrame ==
  ASSUME NEW w, NEW a, StagesOf(w, a),
         Untried(w, a)' => Untried(w, a),
         Asked(w, a)' => Asked(w, a),
         Once(tunnelToAgent[a], Tunnel!Message("ws.open", w)) =>
           Once(tunnelToAgent'[a], Tunnel!Message("ws.open", w)),
         <<w, a>> \in DOMAIN opening' => <<w, a>> \in DOMAIN opening,
         <<w, a>> \in DOMAIN local' => <<w, a>> \in DOMAIN local,
         Opened(w, a)' => Opened(w, a), Ended(w, a)' => Ended(w, a)
  PROVE  StagesOf(w, a)'
  BY DEF StagesOf

\* The hub goes on waiting for it, or it is marked.
LEMMA AwaitedFrame ==
  ASSUME NEW w, NEW a, AwaitedOf(w, a),
         Asked(w, a)' => Asked(w, a),
         <<w, a>> \in DOMAIN opening' =>
           <<w, a>> \in DOMAIN opening /\ opening'[<<w, a>>] = opening[<<w, a>>],
         <<w, a>> \in lapsed => <<w, a>> \in lapsed',
         \/ <<w, a>> \in lapsed'
         \/ (<<w, a>> \in pendingOpen => <<w, a>> \in pendingOpen') /\ agentConn'[a] = agentConn[a]
  PROVE  AwaitedOf(w, a)'
  BY DEF AwaitedOf

\* An open websocket has a gateway at its other end, or word is on the way.
LocalOf(w, a) ==
  LET p == <<w, a>>
  IN  \/ p \in lapsed
      \/ p \in routes /\ (w \in heard => Has(tunnelToAgent[a], Tunnel!Message("ws.close", w)))
      \/ p \in pendingOpen /\ Opened(w, a)

\* It is what LocalIsRouted says of each attempt,
LEMMA LocalParts ==
  ASSUME DOMAIN local \subseteq Tunnel!Attempt
  PROVE  Tunnel!LocalIsRouted <=>
           \A w \in Sockets, a \in Agents : <<w, a>> \in DOMAIN local => LocalOf(w, a)
<1>1. \A p \in DOMAIN local : p[1] \in Sockets /\ p[2] \in Agents /\ p = <<p[1], p[2]>>
  BY DEF Tunnel!Attempt
<1>2. \A w, a : <<w, a>>[1] = w /\ <<w, a>>[2] = a
  OBVIOUS
<1>3. Tunnel!LocalIsRouted => \A w \in Sockets, a \in Agents : <<w, a>> \in DOMAIN local =>
        LocalOf(w, a)
  BY <1>2 DEF Tunnel!LocalIsRouted, LocalOf, Tunnel!OnTheWay, Has, Opened
<1>4. ASSUME \A w \in Sockets, a \in Agents : <<w, a>> \in DOMAIN local => LocalOf(w, a)
      PROVE  Tunnel!LocalIsRouted
  <2> SUFFICES ASSUME NEW p \in DOMAIN local
               PROVE  \/ p \in lapsed
                      \/ p \in routes /\ (p[1] \in heard => Tunnel!OnTheWay(tunnelToAgent[p[2]], "ws.close", p[1]))
                      \/ /\ p \in pendingOpen
                         /\ Tunnel!OnTheWay(tunnelToHub[p[2]], "ws.opened", p[1])
    BY DEF Tunnel!LocalIsRouted
  <2>1. LocalOf(p[1], p[2]) /\ p = <<p[1], p[2]>>
    BY <1>1, <1>4
  <2> QED
    BY <2>1 DEF LocalOf, Tunnel!OnTheWay, Has, Opened
<1> QED
  BY <1>3, <1>4

\* and it goes on, unless its attempt is marked.
LEMMA LocalFrame ==
  ASSUME NEW w, NEW a, LocalOf(w, a),
         <<w, a>> \in lapsed => <<w, a>> \in lapsed',
         \/ <<w, a>> \in lapsed'
         \/ /\ <<w, a>> \in routes => <<w, a>> \in routes'
            /\ w \in heard' => w \in heard
            /\ Has(tunnelToAgent[a], Tunnel!Message("ws.close", w)) =>
                 Has(tunnelToAgent'[a], Tunnel!Message("ws.close", w))
            /\ <<w, a>> \in pendingOpen => <<w, a>> \in pendingOpen'
            /\ Opened(w, a) => Opened(w, a)'
  PROVE  LocalOf(w, a)'
  BY DEF LocalOf

\* What is written on the way is still known when no queue has changed.
LEMMA WireFrame ==
  ASSUME WireInv,
         \A a \in Agents : \A m : Has(tunnelToAgent'[a], m) => Has(tunnelToAgent[a], m) \/ m = TunnelOpen
  PROVE  WireInv'
<1>1. TunnelOpen.type = "tunnel.open"
  BY DEF TunnelOpen, Tunnel!Message
<1> QED
  BY <1>1 DEF WireInv

-----------------------------------------------------------------------------
(* The gateway and the routes of control-api.                               *)

\* The parts of the invariant an attempt, a queue or a request depends on.
LEMMA TunnelTypes ==
  ASSUME TunnelInv
  PROVE  /\ tunnelToAgent \in [Agents -> Seq(Tunnel!Msg)]
         /\ tunnelToHub \in [Agents -> Seq(Tunnel!Reply)]
         /\ DOMAIN local \subseteq Tunnel!Attempt /\ DOMAIN opening \subseteq Tunnel!Attempt
         /\ pendingProxy \subseteq Https \X Agents
         /\ pendingOpen \subseteq Tunnel!Attempt /\ routes \subseteq Tunnel!Attempt
         /\ lapsed \subseteq Tunnel!Attempt
         /\ heard \subseteq Sockets /\ Sockets \subseteq Tunnel!Requests
         /\ Https \subseteq Tunnel!Requests
         /\ \A w \in Sockets, a \in Agents : <<w, a>> \in DOMAIN local => LocalOf(w, a)
         /\ \A w \in Sockets, a \in Agents : StagesOf(w, a) /\ AwaitedOf(w, a)
<1>1. Tunnel!TypeOK /\ Tunnel!LocalIsRouted /\ AttemptInv
  BY DEF TunnelInv
<1>2. /\ tunnelToAgent \in [Agents -> Seq(Tunnel!Msg)]
      /\ tunnelToHub \in [Agents -> Seq(Tunnel!Reply)]
      /\ DOMAIN local \subseteq Tunnel!Attempt /\ DOMAIN opening \subseteq Tunnel!Attempt
      /\ pendingProxy \subseteq Https \X Agents
      /\ pendingOpen \subseteq Tunnel!Attempt /\ routes \subseteq Tunnel!Attempt
      /\ lapsed \subseteq Tunnel!Attempt
      /\ heard \subseteq Sockets
  BY <1>1 DEF Tunnel!TypeOK
<1>3. Sockets \subseteq Tunnel!Requests /\ Https \subseteq Tunnel!Requests
  BY DEF Tunnel!Requests
<1> QED
  BY <1>1, <1>2, <1>3, LocalParts DEF AttemptInv

\* Where the requests stand changes, and no message, connection or answer.
Stays ==
  UNCHANGED <<rowAgent, conn, closing, agentConn, conns, tunnelToAgent, tunnelToHub, heard,
              pendingProxy, pendingOpen, routes, ports, fetching, opening, local, served,
              lapsed>>
Moves ==
  \A r \in Tunnel!Requests :
    \/ tunnelAt'[r] = tunnelAt[r] /\ candidates'[r] = candidates[r]
    \/ tunnelAt[r] = "none" /\ tunnelAt'[r] = "asked" /\ candidates'[r] = candidates[r]
    \/ tunnelAt[r] = "asked" /\ tunnelAt'[r] \in {"trying", "over"}
    \/ tunnelAt[r] = "trying" /\ tunnelAt'[r] = "over" /\ candidates'[r] = candidates[r]
    \/ tunnelAt[r] = "opened" /\ tunnelAt'[r] = "open" /\ candidates'[r] = candidates[r]

\* The invariant is kept, as nobody is asked twice and nobody forgotten.
LEMMA MovesKeep ==
  ASSUME TunnelInv, Stays, Moves, Tunnel!TypeOK' PROVE TunnelInv'
<1>0. /\ WireInv /\ OriginInv /\ NetInv /\ HttpInv /\ PairsInv /\ HeardInv /\ RouteInv
  BY DEF TunnelInv
<1>1. UNCHANGED <<conn, closing, agentConn, conns, tunnelToAgent, tunnelToHub, heard,
                   pendingOpen,
                  routes, fetching, opening, local, served, lapsed>>
  BY DEF Stays
<1>2. /\ Sockets \subseteq Tunnel!Requests /\ Https \subseteq Tunnel!Requests
      /\ heard \subseteq Sockets
      /\ \A p \in pendingOpen \union routes : p[1] \in Tunnel!Requests
  BY TunnelTypes DEF Tunnel!Attempt
<1>3. WireInv' /\ OriginInv' /\ NetInv' /\ RouteInv'
  <2>1. WireInv'
    BY <1>0, <1>1 DEF WireInv
  <2>2. OriginInv'
    BY <1>0, <1>1 DEF OriginInv
  <2>3. NetInv'
    BY <1>0, <1>1 DEF NetInv
  <2>4. RouteInv'
    BY <1>0, <1>1 DEF RouteInv
  <2> QED
    BY <2>1, <2>2, <2>3, <2>4
<1>4. HttpInv'
  <2>1. \A r \in Https : tunnelAt'[r] \in {"none", "asked", "trying"} =>
                           tunnelAt[r] \in {"none", "asked", "trying"}
    BY <1>2 DEF Moves
  <2> QED
    BY <1>0, <1>1, <2>1, HttpFrame
<1>5. PairsInv'
  BY <1>0, <1>1, <1>2 DEF PairsInv, Moves
<1>6. HeardInv'
  BY <1>0, <1>1, <1>2 DEF HeardInv, Moves
<1>7. AttemptInv'
  <2> SUFFICES ASSUME NEW w \in Sockets, NEW a \in Agents PROVE (StagesOf(w, a) /\ AwaitedOf(w, a))'
    BY DEF AttemptInv
  <2>1. StagesOf(w, a) /\ AwaitedOf(w, a)
    BY TunnelTypes
  <2>2. Untried(w, a)' => Untried(w, a)
    BY <1>2 DEF Moves, Untried
  <2>3. /\ Asked(w, a)' => Asked(w, a)
        /\ Opened(w, a)' => Opened(w, a)
        /\ Ended(w, a)' => Ended(w, a)
    BY <1>1 DEF Asked, Opened, Ended
  <2>4. StagesOf(w, a)'
    BY <1>1, <2>1, <2>2, <2>3, StagesFrame
  <2>5. AwaitedOf(w, a)'
    BY <1>1, <2>1, <2>3, AwaitedFrame
  <2> QED
    BY <2>4, <2>5
<1>8. Tunnel!LocalIsRouted'
  <2>1. ASSUME NEW w \in Sockets, NEW a \in Agents, <<w, a>> \in DOMAIN local'
        PROVE  LocalOf(w, a)'
    <3>1. LocalOf(w, a)
      BY <1>1, <2>1, TunnelTypes
    <3>2. Opened(w, a) => Opened(w, a)'
      BY <1>1 DEF Opened
    <3> QED
      BY <1>1, <3>1, <3>2, LocalFrame
  <2>2. (DOMAIN local \subseteq Tunnel!Attempt)'
    BY <1>1, TunnelTypes
  <2>3. (\A w \in Sockets, a \in Agents : <<w, a>> \in DOMAIN local => LocalOf(w, a))'
    BY <2>1
  <2> QED
    BY <2>2, <2>3, LocalParts, PTL
<1> QED
  BY <1>3, <1>4, <1>5, <1>6, <1>7, <1>8 DEF TunnelInv

\* The actions that do just that.
LEMMA AskKeeps ==
  ASSUME TunnelBounds, TunnelInv,
         \/ Tunnel!CloseTunnel
         \/ \E a \in Agents : Tunnel!HandlersAttached(a)
         \/ \E r \in Tunnel!Requests :
              \/ Tunnel!GatewayProxy(r) \/ Tunnel!GatewayUpgrade(r) \/ Tunnel!GatewayFails(r) \/ Tunnel!ClientCloses(r)
              \/ Tunnel!Proxy(r) \/ Tunnel!Upgrade(r) \/ Tunnel!GiveUp(r) \/ Tunnel!ConnectionIdKnown(r)
  PROVE  TunnelInv'
<1> USE DEF Tunnel!rowVars, Tunnel!connVars, Tunnel!wireVars, Tunnel!askVars, Tunnel!hubVars,
            Tunnel!agentVars
<1>0. Tunnel!TypeOK
  BY DEF TunnelInv
<1>1. CASE Tunnel!CloseTunnel
  <2>1. tunnel' = "closed" /\ UNCHANGED <<bound, tunnelAt, candidates, gone>> /\ Stays
    BY <1>1 DEF Tunnel!CloseTunnel, Stays
  <2>2. Tunnel!TypeOK'
    BY <1>0, <2>1 DEF Tunnel!TypeOK, Stays
  <2> QED
    BY <2>1, <2>2, MovesKeep DEF Moves
<1>2. ASSUME NEW a \in Agents, Tunnel!HandlersAttached(a) PROVE TunnelInv'
  <2>1. /\ bound' = [bound EXCEPT ![a] = bound[a] \union {agentConn[a]}]
        /\ UNCHANGED <<tunnel, tunnelAt, candidates, gone>> /\ Stays
    BY <1>2 DEF Tunnel!HandlersAttached, Stays
  <2>2. Tunnel!TypeOK'
    BY <1>0, <2>1 DEF Tunnel!TypeOK, Stays
  <2> QED
    BY <2>1, <2>2, MovesKeep DEF Moves
<1>3. ASSUME NEW r \in Tunnel!Requests, Tunnel!ClientCloses(r) PROVE TunnelInv'
  <2>1. /\ gone' = gone \union {r} /\ r \in Sockets
        /\ UNCHANGED <<tunnel, bound, tunnelAt, candidates>> /\ Stays
    BY <1>3 DEF Tunnel!ClientCloses, Tunnel!CloseWebSocketSafely, Stays
  <2>2. Tunnel!TypeOK'
    BY <1>0, <2>1 DEF Tunnel!TypeOK, Stays
  <2> QED
    BY <2>1, <2>2, MovesKeep DEF Moves
<1>4. ASSUME NEW r \in Tunnel!Requests,
             \/ Tunnel!GatewayProxy(r) \/ Tunnel!GatewayUpgrade(r) \/ Tunnel!GatewayFails(r)
             \/ Tunnel!GiveUp(r) \/ Tunnel!ConnectionIdKnown(r)
      PROVE  TunnelInv'
  <2>1. /\ UNCHANGED <<tunnel, bound, candidates, gone>> /\ Stays
        /\ \/ tunnelAt[r] = "none" /\ tunnelAt' = [tunnelAt EXCEPT ![r] = "asked"]
           \/ tunnelAt[r] \in {"asked", "trying"} /\ tunnelAt' = [tunnelAt EXCEPT ![r] = "over"]
           \/ tunnelAt[r] = "opened" /\ tunnelAt' = [tunnelAt EXCEPT ![r] = "open"]
    BY <1>4 DEF Tunnel!GatewayProxy, Tunnel!GatewayUpgrade, Tunnel!Ask, Tunnel!GatewayFails,
       Tunnel!GiveUp, Tunnel!ConnectionIdKnown,
                Stays
  <2>2. Tunnel!TypeOK'
    BY <1>0, <2>1 DEF Tunnel!TypeOK, Stays
  <2>3. Moves
    BY <1>0, <2>1 DEF Tunnel!TypeOK, Moves
  <2> QED
    BY <2>1, <2>2, <2>3, MovesKeep
<1>5. ASSUME NEW r \in Tunnel!Requests, Tunnel!Proxy(r) \/ Tunnel!Upgrade(r) PROVE TunnelInv'
  <2>1. /\ UNCHANGED <<tunnel, bound, gone>> /\ Stays /\ tunnelAt[r] = "asked"
        /\ \/ /\ tunnelAt' = [tunnelAt EXCEPT ![r] = "trying"]
              /\ candidates' = [candidates EXCEPT ![r] = Tunnel!Candidates]
           \/ tunnelAt' = [tunnelAt EXCEPT ![r] = "over"] /\ candidates' = candidates
    BY <1>5 DEF Tunnel!Proxy, Tunnel!Upgrade, Tunnel!Accept, Stays
  <2>2. Tunnel!Candidates \subseteq Agents
    BY <1>0 DEF Tunnel!Candidates, Tunnel!TypeOK
  <2>3. Tunnel!TypeOK'
    BY <1>0, <2>1, <2>2 DEF Tunnel!TypeOK, Stays
  <2>4. Moves
    BY <1>0, <2>1 DEF Tunnel!TypeOK, Moves
  <2> QED
    BY <2>1, <2>3, <2>4, MovesKeep
<1> QED
  BY <1>1, <1>2, <1>3, <1>4, <1>5

-----------------------------------------------------------------------------
(* Connections.                                                             *)

\* A new connection has a number of its own.
LEMMA ConnectKeeps ==
  ASSUME TunnelBounds, TunnelInv, NEW x \in Agents, Tunnel!Connect(x)
  PROVE  TunnelInv'
<1>0. /\ Tunnel!TypeOK /\ WireInv /\ OriginInv /\ NetInv /\ HttpInv /\ PairsInv /\ HeardInv
      /\ RouteInv
  BY DEF TunnelInv
<1>1. /\ UNCHANGED <<tunnel, rowAgent, bound, closing, tunnelToAgent, tunnelToHub, tunnelAt,
                      candidates, gone,
                     heard, pendingProxy, pendingOpen, routes, ports, fetching, opening,
                     local, served, lapsed>>
      /\ agentConn[x] = 0 /\ conns < MaxConns /\ conns' = conns + 1
      /\ agentConn' = [agentConn EXCEPT ![x] = conns + 1]
      /\ conn' = [conn EXCEPT ![x] = conns + 1]
  BY DEF Tunnel!Connect, Tunnel!rowVars, Tunnel!wireVars, Tunnel!askVars, Tunnel!hubVars,
     Tunnel!agentVars
<1>2. conns \in Nat /\ conns + 1 \in Tunnel!Conn /\ conns + 1 # 0 /\ MaxConns \in Nat
  BY <1>0, <1>1 DEF Tunnel!TypeOK, Tunnel!Conn, TunnelBounds
<1>3. /\ agentConn'[x] = conns + 1 /\ conn'[x] = conns + 1
      /\ \A a \in Agents \ {x} : agentConn'[a] = agentConn[a] /\ conn'[a] = conn[a]
  BY <1>0, <1>1 DEF Tunnel!TypeOK
<1>4. Tunnel!TypeOK'
  BY <1>0, <1>1, <1>2 DEF Tunnel!TypeOK
<1>5. WireInv' /\ OriginInv' /\ PairsInv' /\ HeardInv'
  <2>1. WireInv'
    BY <1>0, <1>1 DEF WireInv
  <2>2. OriginInv'
    BY <1>0, <1>1 DEF OriginInv
  <2>3. PairsInv'
    BY <1>0, <1>1 DEF PairsInv
  <2>4. HeardInv'
    BY <1>0, <1>1 DEF HeardInv
  <2> QED
    BY <2>1, <2>2, <2>3, <2>4
<1>6. HttpInv'
  BY <1>0, <1>1, HttpFrame
<1>7. NetInv'
  <2> SUFFICES ASSUME NEW a \in Agents
               PROVE  /\ agentConn'[a] # 0 => conn'[a] = agentConn'[a]
                                              /\ agentConn'[a] \notin closing[a]
                      /\ closing[a] \subseteq 0 .. conns' /\ agentConn'[a] \in 0 .. conns'
                      /\ agentConn'[a] = 0 => tunnelToAgent[a] = <<>> /\ tunnelToHub[a] = <<>>
    BY <1>1 DEF NetInv
  <2>1. closing[a] \subseteq 0 .. conns /\ agentConn[a] \in 0 .. conns
    BY <1>0 DEF NetInv
  <2>2. /\ closing[a] \subseteq 0 .. conns' /\ conns + 1 \notin closing[a]
        /\ agentConn[a] \in 0 .. conns' /\ conns + 1 \in 0 .. conns'
    BY <1>1, <1>2, <2>1
  <2>3. CASE a = x
    BY <1>2, <1>3, <2>2, <2>3
  <2>4. CASE a # x
    BY <1>0, <1>3, <2>2, <2>4 DEF NetInv
  <2> QED
    BY <2>3, <2>4
<1>8. RouteInv'
  <2> SUFFICES ASSUME NEW p \in routes \ lapsed PROVE agentConn'[p[2]] # 0
    BY <1>1 DEF RouteInv
  <2>1. p[2] \in Agents /\ agentConn[p[2]] # 0
    BY <1>0, TunnelTypes DEF RouteInv, Tunnel!Attempt
  <2> QED
    BY <1>2, <1>3, <2>1
<1>9. AttemptInv'
  <2> SUFFICES ASSUME NEW w \in Sockets, NEW a \in Agents
               PROVE  (StagesOf(w, a) /\ AwaitedOf(w, a))'
    BY DEF AttemptInv
  <2>1. StagesOf(w, a) /\ AwaitedOf(w, a)
    BY TunnelTypes
  <2>2. StagesOf(w, a)'
    BY <1>1, <2>1 DEF StagesOf, Untried, Asked, Opened, Ended
  <2>3. AwaitedOf(w, a)'
    <3>1. CASE a # x
      <4>1. agentConn'[a] = agentConn[a]
        BY <1>3, <3>1
      <4> QED
        BY <1>1, <2>1, <4>1 DEF AwaitedOf, Asked
    <3>2. CASE a = x
      <4>1. <<w, a>> \in DOMAIN opening => opening[<<w, a>>] # agentConn[a]
        BY <1>0, <1>1, <3>2 DEF OriginInv
      <4> QED
        BY <1>1, <2>1, <4>1 DEF AwaitedOf, Asked
    <3> QED
      BY <3>1, <3>2
  <2> QED
    BY <2>2, <2>3
<1>10. Tunnel!LocalIsRouted'
  BY <1>1 DEF TunnelInv, Tunnel!LocalIsRouted
<1> QED
  BY <1>4, <1>5, <1>6, <1>7, <1>8, <1>9, <1>10 DEF TunnelInv

\* What the hub waits for, or has routed, on a connection that drops is marked.
LEMMA DropKeeps ==
  ASSUME TunnelBounds, TunnelInv, NEW x \in Agents, Tunnel!ConnectionDrops(x) \/ Tunnel!AgentStops(x)
  PROVE  TunnelInv'
<1>0. /\ Tunnel!TypeOK /\ WireInv /\ OriginInv /\ NetInv /\ HttpInv /\ PairsInv /\ HeardInv
      /\ RouteInv
  BY DEF TunnelInv
<1>1. /\ UNCHANGED <<tunnel, rowAgent, conn, bound, conns, tunnelAt, candidates, gone, heard,
                     pendingProxy, pendingOpen, routes, served>>
      /\ agentConn[x] # 0
      /\ closing' = [closing EXCEPT ![x] = closing[x] \union {agentConn[x]}]
      /\ agentConn' = [agentConn EXCEPT ![x] = 0]
      /\ tunnelToAgent' = [tunnelToAgent EXCEPT ![x] = <<>>]
      /\ tunnelToHub' = [tunnelToHub EXCEPT ![x] = <<>>]
      /\ lapsed' = lapsed \union {r \in pendingOpen \union routes : r[2] = x}
  BY DEF Tunnel!ConnectionDrops, Tunnel!AgentStops, Tunnel!Drop, Tunnel!rowVars,
     Tunnel!askVars, Tunnel!hubVars, Tunnel!agentVars
<1>2. /\ ports' \subseteq ports
      /\ DOMAIN fetching' \subseteq DOMAIN fetching
      /\ DOMAIN opening' \subseteq DOMAIN opening
      /\ DOMAIN local' \subseteq DOMAIN local
      /\ \A p \in DOMAIN fetching' : fetching'[p] = fetching[p]
      /\ \A p \in DOMAIN opening' : opening'[p] = opening[p]
      /\ \A p \in DOMAIN local' : local'[p] = local[p]
  <2>1. CASE Tunnel!ConnectionDrops(x)
    BY <2>1 DEF Tunnel!ConnectionDrops, Tunnel!agentVars
  <2>2. CASE Tunnel!AgentStops(x)
    <3>1. /\ ports' = ports \ {x}
          /\ fetching' = [r \in {q \in DOMAIN fetching : q[2] # x} |-> fetching[r]]
          /\ opening' = [r \in {q \in DOMAIN opening : q[2] # x} |-> opening[r]]
          /\ local' = [r \in {q \in DOMAIN local : q[2] # x} |-> local[r]]
      BY <2>2 DEF Tunnel!AgentStops
    <3> QED
      BY <3>1
  <2> QED
    BY <2>1, <2>2
<1>3. /\ tunnelToAgent'[x] = <<>> /\ tunnelToHub'[x] = <<>> /\ agentConn'[x] = 0
      /\ closing'[x] = closing[x] \union {agentConn[x]}
      /\ \A a \in Agents \ {x} : /\ tunnelToAgent'[a] = tunnelToAgent[a] /\ tunnelToHub'[a] = tunnelToHub[a]
                                 /\ agentConn'[a] = agentConn[a] /\ closing'[a] = closing[a]
  BY <1>0, <1>1 DEF Tunnel!TypeOK
<1>4. \A a \in Agents : \A k : /\ Has(tunnelToAgent'[a], k) => Has(tunnelToAgent[a], k)
                               /\ Has(tunnelToHub'[a], k) => Has(tunnelToHub[a], k)
                               /\ Once(tunnelToAgent[a], k) => Once(tunnelToAgent'[a], k)
  BY <1>3, EmptyHas
<1>5. Tunnel!TypeOK'
  <2>1. 0 \in Tunnel!Conn /\ <<>> \in Seq(Tunnel!Msg) /\ <<>> \in Seq(Tunnel!Reply)
    BY DEF Tunnel!Conn, TunnelBounds
  <2>2. lapsed' \subseteq Tunnel!Attempt
    BY <1>0, <1>1 DEF Tunnel!TypeOK
  <2>3. /\ closing' \in [Agents -> SUBSET Tunnel!Conn] /\ agentConn' \in [Agents -> Tunnel!Conn]
        /\ tunnelToAgent' \in [Agents -> Seq(Tunnel!Msg)]
        /\ tunnelToHub' \in [Agents -> Seq(Tunnel!Reply)]
    BY <1>0, <1>1, <2>1 DEF Tunnel!TypeOK
  <2> QED
    BY <1>0, <1>1, <1>2, <2>2, <2>3 DEF Tunnel!TypeOK
<1>6. WireInv' /\ PairsInv'
  <2>1. WireInv'
    BY <1>0, <1>4, WireFrame
  <2>2. PairsInv'
    BY <1>0, <1>1 DEF PairsInv
  <2> QED
    BY <2>1, <2>2
<1>7. OriginInv'
  <2>1. \A y \in DOMAIN fetching' : y \in DOMAIN fetching /\ fetching'[y] = fetching[y]
    BY <1>2
  <2>2. \A y \in DOMAIN fetching' :
          /\ fetching'[y].on # 0
          /\ \A h \in Tunnel!Host :
               served'[<<y[1], y[2], h>>] = IF h <= fetching'[y].host THEN 1 ELSE 0
    BY <1>0, <1>1, <2>1 DEF OriginInv
  <2> QED
    BY <1>0, <1>2, <2>2 DEF OriginInv
<1>8. HeardInv'
  BY <1>0, <1>1 DEF HeardInv
<1>9. HttpInv'
  BY <1>0, <1>1, <1>4, HttpFrame
<1>10. NetInv'
  <2> SUFFICES ASSUME NEW a \in Agents
               PROVE  /\ agentConn'[a] # 0 => conn[a] = agentConn'[a]
                                              /\ agentConn'[a] \notin closing'[a]
                      /\ closing'[a] \subseteq 0 .. conns /\ agentConn'[a] \in 0 .. conns
                      /\ agentConn'[a] = 0 => tunnelToAgent'[a] = <<>> /\ tunnelToHub'[a] = <<>>
    BY <1>1 DEF NetInv
  <2>1. CASE a = x
    <3>1. closing[x] \subseteq 0 .. conns /\ agentConn[x] \in 0 .. conns
      BY <1>0 DEF NetInv
    <3>2. 0 \in 0 .. conns
      BY <1>0 DEF Tunnel!TypeOK, Tunnel!Conn, TunnelBounds
    <3> QED
      BY <1>3, <2>1, <3>1, <3>2
  <2>2. CASE a # x
    BY <1>0, <1>3, <2>2 DEF NetInv
  <2> QED
    BY <2>1, <2>2
<1>11. \A w \in Sockets, a \in Agents :
         /\ <<w, a>> \in lapsed => <<w, a>> \in lapsed'
         /\ a = x /\ <<w, a>> \in pendingOpen \union routes => <<w, a>> \in lapsed'
         /\ <<w, a>> \in DOMAIN opening' =>
              <<w, a>> \in DOMAIN opening /\ opening'[<<w, a>>] = opening[<<w, a>>]
         /\ <<w, a>> \in DOMAIN local' => <<w, a>> \in DOMAIN local
         /\ Asked(w, a)' => Asked(w, a)
         /\ Opened(w, a)' => Opened(w, a)
         /\ Ended(w, a)' => Ended(w, a)
  BY <1>1, <1>2, <1>4 DEF Asked, Opened, Ended
<1>12. RouteInv'
  <2> SUFFICES ASSUME NEW p \in routes \ lapsed' PROVE agentConn'[p[2]] # 0
    BY <1>1 DEF RouteInv
  <2>1. p[2] # x /\ p[2] \in Agents /\ agentConn[p[2]] # 0
    BY <1>0, <1>1, TunnelTypes DEF RouteInv, Tunnel!Attempt
  <2> QED
    BY <1>3, <2>1
<1>13. AttemptInv'
  <2> SUFFICES ASSUME NEW w \in Sockets, NEW a \in Agents
               PROVE  (StagesOf(w, a) /\ AwaitedOf(w, a))'
    BY DEF AttemptInv
  <2>1. StagesOf(w, a) /\ AwaitedOf(w, a)
    BY TunnelTypes
  <2>2. StagesOf(w, a)'
    <3>1. Untried(w, a)' => Untried(w, a)
      BY <1>1 DEF Untried
    <3> QED
      BY <1>4, <1>11, <2>1, <3>1, StagesFrame
  <2>3. AwaitedOf(w, a)'
    <3>1. CASE a = x /\ <<w, a>> \in pendingOpen
      BY <1>11, <3>1 DEF AwaitedOf
    <3>2. CASE a = x /\ <<w, a>> \notin pendingOpen
      BY <1>1, <1>11, <2>1, <3>2 DEF AwaitedOf
    <3>3. CASE a # x
      BY <1>1, <1>3, <1>11, <2>1, <3>3, AwaitedFrame
    <3> QED
      BY <3>1, <3>2, <3>3
  <2> QED
    BY <2>2, <2>3
<1>14. Tunnel!LocalIsRouted'
  <2>1. ASSUME NEW w \in Sockets, NEW a \in Agents, <<w, a>> \in DOMAIN local'
        PROVE  LocalOf(w, a)'
    <3>1. LocalOf(w, a)
      BY <1>11, <2>1, TunnelTypes
    <3>2. CASE a = x
      BY <1>11, <3>1, <3>2 DEF LocalOf
    <3>3. CASE a # x
      <4>1. Opened(w, a) => Opened(w, a)'
        BY <1>3, <3>3 DEF Opened
      <4> QED
        BY <1>1, <1>3, <1>11, <3>1, <3>3, <4>1, LocalFrame
    <3> QED
      BY <3>2, <3>3
  <2>2. (DOMAIN local \subseteq Tunnel!Attempt)'
    BY <1>2, TunnelTypes
  <2>3. (\A w \in Sockets, a \in Agents : <<w, a>> \in DOMAIN local => LocalOf(w, a))'
    BY <2>1
  <2> QED
    BY <2>2, <2>3, LocalParts, PTL
<1> QED
  BY <1>5, <1>6, <1>7, <1>8, <1>9, <1>10, <1>12, <1>13, <1>14 DEF TunnelInv

\* A connection that is seen to close takes with it what waited for the agent.
LEMMA SeenCloseKeeps ==
  ASSUME TunnelBounds, TunnelInv, NEW x \in Agents, NEW n \in 1 .. MaxConns, Tunnel!SeesClose(x, n)
  PROVE  TunnelInv'
<1>0. /\ Tunnel!TypeOK /\ WireInv /\ OriginInv /\ NetInv /\ HttpInv /\ PairsInv /\ HeardInv
      /\ RouteInv
  BY DEF TunnelInv
<1>1. /\ UNCHANGED <<tunnel, rowAgent, bound, agentConn, conns, tunnelToAgent, tunnelToHub,
                      candidates,
                     gone, heard, pendingProxy, ports, fetching, opening, local, served>>
      /\ n \in closing[x]
      /\ closing' = [closing EXCEPT ![x] = closing[x] \ {n}]
      /\ conn' = [conn EXCEPT ![x] = IF conn[x] = n THEN 0 ELSE conn[x]]
  BY DEF Tunnel!SeesClose, Tunnel!rowVars, Tunnel!wireVars, Tunnel!agentVars
<1>2. /\ closing'[x] = closing[x] \ {n}
      /\ conn'[x] = (IF conn[x] = n THEN 0 ELSE conn[x])
      /\ \A a \in Agents \ {x} : closing'[a] = closing[a] /\ conn'[a] = conn[a]
  BY <1>0, <1>1 DEF Tunnel!TypeOK
<1>3. \/ /\ pendingOpen' = pendingOpen \ {p \in pendingOpen : p[2] = x}
         /\ routes' = routes \ {p \in routes : p[2] = x}
         /\ lapsed' = lapsed \union {p \in pendingOpen : p[2] = x}
                             \union {p \in routes : p[2] = x}
         /\ tunnelAt' = [r \in Tunnel!Requests |->
                     IF \E p \in {q \in pendingOpen : q[2] = x} : p[1] = r THEN "trying"
                     ELSE IF \E p \in {q \in routes : q[2] = x} : p[1] = r THEN "over"
                     ELSE tunnelAt[r]]
      \/ UNCHANGED <<pendingOpen, routes, lapsed, tunnelAt>>
  BY DEF Tunnel!SeesClose
<1>4. /\ pendingOpen' \subseteq pendingOpen /\ routes' \subseteq routes
      /\ lapsed \subseteq lapsed'
      /\ \A p \in (pendingOpen \ pendingOpen') \union (routes \ routes') : p \in lapsed'
      /\ lapsed' \subseteq lapsed \union pendingOpen \union routes
  BY <1>3
<1>5. ASSUME NEW r \in Tunnel!Requests
      PROVE  \/ /\ tunnelAt'[r] = tunnelAt[r]
                /\ \A p \in pendingOpen : p[1] = r => p \in pendingOpen'
                /\ \A p \in routes : p[1] = r => p \in routes'
             \/ tunnelAt'[r] = "trying" /\ \E p \in pendingOpen : p[1] = r /\ p \notin pendingOpen'
             \/ tunnelAt'[r] = "over" /\ \E p \in routes : p[1] = r /\ p \notin routes'
  <2>1. CASE UNCHANGED <<pendingOpen, routes, lapsed, tunnelAt>>
    BY <2>1
  <2>2. CASE ~UNCHANGED <<pendingOpen, routes, lapsed, tunnelAt>>
    BY <1>3, <2>2
  <2> QED
    BY <2>1, <2>2
<1>6. /\ Sockets \subseteq Tunnel!Requests /\ Https \subseteq Tunnel!Requests
      /\ heard \subseteq Sockets
      /\ \A p \in pendingOpen \union routes : p \in Tunnel!Attempt /\ p[1] \in Sockets /\ p[2] \in Agents
      /\ pendingOpen \subseteq Tunnel!Attempt /\ routes \subseteq Tunnel!Attempt
      /\ lapsed \subseteq Tunnel!Attempt
  BY TunnelTypes DEF Tunnel!Attempt
<1>7. Tunnel!TypeOK'
  <2>1. /\ closing' \in [Agents -> SUBSET Tunnel!Conn] /\ conn' \in [Agents -> Tunnel!Conn]
    BY <1>0, <1>1 DEF Tunnel!TypeOK, Tunnel!Conn, TunnelBounds
  <2>2. tunnelAt' \in [Tunnel!Requests -> {"none", "asked", "trying", "waiting", "opened", "open", "over"}]
    BY <1>0, <1>3 DEF Tunnel!TypeOK
  <2>3. /\ pendingOpen' \subseteq Tunnel!Attempt /\ routes' \subseteq Tunnel!Attempt
        /\ lapsed' \subseteq Tunnel!Attempt
    BY <1>4, <1>6
  <2> QED
    BY <1>0, <1>1, <2>1, <2>2, <2>3 DEF Tunnel!TypeOK
<1>8. WireInv' /\ OriginInv'
  <2>1. WireInv'
    BY <1>0, <1>1 DEF WireInv
  <2>2. OriginInv'
    BY <1>0, <1>1 DEF OriginInv
  <2> QED
    BY <2>1, <2>2
<1>9. NetInv'
  <2> SUFFICES ASSUME NEW a \in Agents
               PROVE  /\ agentConn[a] # 0 => conn'[a] = agentConn[a]
                                             /\ agentConn[a] \notin closing'[a]
                      /\ closing'[a] \subseteq 0 .. conns /\ agentConn[a] \in 0 .. conns
                      /\ agentConn[a] = 0 => tunnelToAgent[a] = <<>> /\ tunnelToHub[a] = <<>>
    BY <1>1 DEF NetInv
  <2>1. CASE a = x
    BY <1>0, <1>1, <1>2, <2>1 DEF NetInv
  <2>2. CASE a # x
    BY <1>0, <1>2, <2>2 DEF NetInv
  <2> QED
    BY <2>1, <2>2
<1>10. HttpInv'
  <2>1. \A r \in Https : tunnelAt'[r] = tunnelAt[r]
    BY <1>5, <1>6 DEF TunnelBounds
  <2> QED
    BY <1>0, <1>1, <2>1, HttpFrame
<1>11. PairsInv'
  <2>1. \A p \in pendingOpen' : tunnelAt'[p[1]] = "waiting"
    BY <1>0, <1>4, <1>5, <1>6 DEF PairsInv
  <2>2. \A p \in routes' : tunnelAt'[p[1]] \in {"opened", "open"}
    BY <1>0, <1>4, <1>5, <1>6 DEF PairsInv
  <2>3. /\ \A p, q \in pendingOpen' : p[1] = q[1] => p = q
        /\ \A p, q \in routes' : p[1] = q[1] => p = q
    BY <1>0, <1>4 DEF PairsInv
  <2> QED
    BY <2>1, <2>2, <2>3 DEF PairsInv
<1>12. HeardInv'
  <2> SUFFICES ASSUME NEW w \in heard
               PROVE  /\ tunnelAt'[w] \notin {"none", "asked"}
                      /\ tunnelAt'[w] \in {"trying", "waiting", "opened"} =>
                           \A a \in Agents : <<w, a>> \in lapsed'
    BY <1>1 DEF HeardInv
  <2>1. CASE tunnelAt'[w] = tunnelAt[w]
    BY <1>0, <1>4, <2>1 DEF HeardInv
  <2>2. CASE tunnelAt'[w] = "trying" /\ \E p \in pendingOpen : p[1] = w
    BY <1>0, <1>4, <2>2 DEF HeardInv, PairsInv
  <2>3. CASE tunnelAt'[w] = "over"
    BY <2>3
  <2> QED
    BY <1>5, <1>6, <2>1, <2>2, <2>3
<1>13. RouteInv'
  BY <1>0, <1>1, <1>4 DEF RouteInv
<1>14. ASSUME NEW w \in Sockets, NEW a \in Agents
       PROVE  /\ Asked(w, a)' => Asked(w, a)
              /\ Opened(w, a)' <=> Opened(w, a)
              /\ Ended(w, a)' => Ended(w, a)
              /\ <<w, a>> \in lapsed => <<w, a>> \in lapsed'
              /\ \/ <<w, a>> \in lapsed'
                 \/ /\ <<w, a>> \in pendingOpen => <<w, a>> \in pendingOpen'
                    /\ <<w, a>> \in routes => <<w, a>> \in routes'
  BY <1>1, <1>4 DEF Asked, Opened, Ended
<1>15. AttemptInv'
  <2> SUFFICES ASSUME NEW w \in Sockets, NEW a \in Agents
               PROVE  (StagesOf(w, a) /\ AwaitedOf(w, a))'
    BY DEF AttemptInv
  <2>1. StagesOf(w, a) /\ AwaitedOf(w, a)
    BY TunnelTypes
  <2>2. Untried(w, a)' => Untried(w, a)
    BY <1>1, <1>5, <1>6 DEF Untried
  <2>3. StagesOf(w, a)'
    BY <1>1, <1>14, <2>1, <2>2, StagesFrame
  <2>4. AwaitedOf(w, a)'
    BY <1>1, <1>14, <2>1, AwaitedFrame
  <2> QED
    BY <2>3, <2>4
<1>16. Tunnel!LocalIsRouted'
  <2>1. ASSUME NEW w \in Sockets, NEW a \in Agents, <<w, a>> \in DOMAIN local'
        PROVE  LocalOf(w, a)'
    <3>1. LocalOf(w, a)
      BY <1>1, <2>1, TunnelTypes
    <3> QED
      BY <1>1, <1>14, <3>1, LocalFrame
  <2>2. (DOMAIN local \subseteq Tunnel!Attempt)'
    BY <1>1, TunnelTypes
  <2>3. (\A w \in Sockets, a \in Agents : <<w, a>> \in DOMAIN local => LocalOf(w, a))'
    BY <2>1
  <2> QED
    BY <2>2, <2>3, LocalParts, PTL
<1> QED
  BY <1>7, <1>8, <1>9, <1>10, <1>11, <1>12, <1>13, <1>15, <1>16 DEF TunnelInv

-----------------------------------------------------------------------------
(* What control-api sends.                                                  *)

\* A message that is sent finds the agent connected, and is for nobody else.
LEMMA PostedKeeps ==
  ASSUME TunnelInv, NEW x \in Agents, NEW m \in Tunnel!Msg, Posted(x, m), Tunnel!IsAgentOnline(x),
         UNCHANGED <<conn, closing, agentConn, conns, tunnelToHub>>,
         m.type = "http.request" => m.of \in Https,
         m.type \in {"ws.open", "ws.close"} => m.of \in Sockets
  PROVE  WireInv' /\ NetInv'
<1>0. WireInv /\ NetInv
  BY DEF TunnelInv
<1>1. \A a \in Agents : \A k : Has(tunnelToAgent'[a], k) => Has(tunnelToAgent[a], k) \/ k = m \/ k = TunnelOpen
  BY DEF Posted
<1>2. WireInv'
  <2>1. TunnelOpen.type = "tunnel.open"
    BY DEF TunnelOpen, Tunnel!Message
  <2>2. ASSUME NEW a \in Agents, NEW k \in Tunnel!Msg, Has(tunnelToAgent'[a], k)
        PROVE  /\ k.type = "http.request" => k.of \in Https
               /\ k.type \in {"ws.open", "ws.close"} => k.of \in Sockets
    <3>1. Has(tunnelToAgent[a], k) \/ k = m \/ k = TunnelOpen
      BY <1>1, <2>2
    <3> QED
      BY <1>0, <2>1, <3>1 DEF WireInv
  <2> QED
    BY <2>2 DEF WireInv
<1>3. NetInv'
  <2> SUFFICES ASSUME NEW a \in Agents, agentConn[a] = 0 PROVE tunnelToAgent'[a] = <<>>
    BY <1>0 DEF NetInv
  <2>1. a = x => ~Tunnel!Delivers(x)
    BY DEF Tunnel!Delivers, Tunnel!IsAgentOnline
  <2>2. tunnelToAgent'[a] = tunnelToAgent[a]
    BY <2>1 DEF Posted
  <2> QED
    BY <1>0, <2>2 DEF NetInv
<1> QED
  BY <1>2, <1>3

\* Word of a new tunnel is about no request.
LEMMA CreateKeeps ==
  ASSUME TunnelBounds, TunnelInv, Tunnel!CreateTunnel
  PROVE  TunnelInv'
<1>0. /\ Tunnel!TypeOK /\ WireInv /\ OriginInv /\ NetInv /\ HttpInv /\ PairsInv /\ HeardInv
      /\ RouteInv
  BY DEF TunnelInv
<1>1. /\ UNCHANGED <<rowAgent, conn, bound, closing, agentConn, conns, tunnelToHub, tunnelAt,
                      candidates,
                     gone, heard, pendingProxy, pendingOpen, routes, ports, fetching,
                     opening, local, served, lapsed>>
      /\ tunnel' = "open" /\ Tunnel!IsAgentOnline(Owner) /\ Tunnel!Send(Owner, <<TunnelOpen>>)
      /\ Owner \in Agents
  BY DEF Tunnel!CreateTunnel, Tunnel!connVars, Tunnel!askVars, Tunnel!hubVars,
     Tunnel!agentVars, TunnelOpen, TunnelBounds
<1>2. Posted(Owner, TunnelOpen)
  BY <1>1, Kinds, TunnelTypes, SendPosts
<1>3. WireInv' /\ NetInv'
  <2>1. TunnelOpen.type = "tunnel.open" /\ TunnelOpen \in Tunnel!Msg
    BY Kinds DEF TunnelOpen
  <2> QED
    BY <1>1, <1>2, <2>1, PostedKeeps
<1>4. Tunnel!TypeOK'
  BY <1>0, <1>1, <1>2 DEF Tunnel!TypeOK, Posted
<1>5. OriginInv' /\ PairsInv' /\ HeardInv' /\ RouteInv'
  <2>1. OriginInv'
    BY <1>0, <1>1 DEF OriginInv
  <2>2. PairsInv'
    BY <1>0, <1>1 DEF PairsInv
  <2>3. HeardInv'
    BY <1>0, <1>1 DEF HeardInv
  <2>4. RouteInv'
    BY <1>0, <1>1 DEF RouteInv
  <2> QED
    BY <2>1, <2>2, <2>3, <2>4
<1>6. \A a \in Agents : \A type, r : type # "tunnel.open" =>
        LET k == Tunnel!Message(type, r)
        IN  /\ Has(tunnelToAgent'[a], k) <=> Has(tunnelToAgent[a], k)
            /\ Once(tunnelToAgent[a], k) => Once(tunnelToAgent'[a], k)
  BY <1>2, Kinds DEF Posted
<1>7. HttpInv'
  BY <1>0, <1>1, <1>6, HttpFrame
<1>8. AttemptInv'
  <2> SUFFICES ASSUME NEW w \in Sockets, NEW a \in Agents
               PROVE  (StagesOf(w, a) /\ AwaitedOf(w, a))'
    BY DEF AttemptInv
  <2>1. StagesOf(w, a) /\ AwaitedOf(w, a)
    BY TunnelTypes
  <2>2. /\ Untried(w, a)' => Untried(w, a)
        /\ Asked(w, a)' => Asked(w, a)
        /\ Opened(w, a)' => Opened(w, a)
        /\ Ended(w, a)' => Ended(w, a)
    BY <1>1, <1>6 DEF Untried, Asked, Opened, Ended
  <2>3. StagesOf(w, a)'
    BY <1>1, <1>6, <2>1, <2>2, StagesFrame
  <2>4. AwaitedOf(w, a)'
    BY <1>1, <2>1, <2>2, AwaitedFrame
  <2> QED
    BY <2>3, <2>4
<1>9. Tunnel!LocalIsRouted'
  <2>1. ASSUME NEW w \in Sockets, NEW a \in Agents, <<w, a>> \in DOMAIN local'
        PROVE  LocalOf(w, a)'
    <3>1. LocalOf(w, a)
      BY <1>1, <2>1, TunnelTypes
    <3>2. Opened(w, a) => Opened(w, a)'
      BY <1>1 DEF Opened
    <3> QED
      BY <1>1, <1>6, <3>1, <3>2, LocalFrame
  <2>2. (DOMAIN local \subseteq Tunnel!Attempt)'
    BY <1>1, TunnelTypes
  <2>3. (\A w \in Sockets, a \in Agents : <<w, a>> \in DOMAIN local => LocalOf(w, a))'
    BY <2>1
  <2> QED
    BY <2>2, <2>3, LocalParts, PTL
<1> QED
  BY <1>3, <1>4, <1>5, <1>7, <1>8, <1>9 DEF TunnelInv

\* An agent that is offline is passed over.
LEMMA PassKeeps ==
  ASSUME TunnelBounds, TunnelInv, NEW r \in Tunnel!Requests, NEW x \in Agents, Tunnel!Try(r, x),
         ~Tunnel!IsAgentOnline(x)
  PROVE  TunnelInv'
<1>0. /\ Tunnel!TypeOK /\ WireInv /\ OriginInv /\ NetInv /\ HttpInv /\ PairsInv /\ HeardInv
      /\ RouteInv
      /\ Tunnel!LocalIsRouted
  BY DEF TunnelInv
<1>1. /\ UNCHANGED <<tunnel, rowAgent, conn, bound, closing, agentConn, conns, tunnelToAgent,
                      tunnelToHub,
                     tunnelAt, gone, heard, pendingProxy, pendingOpen, routes, ports, fetching,
                     opening, local, served, lapsed>>
      /\ candidates' = [candidates EXCEPT ![r] = candidates[r] \ {x}]
  BY DEF Tunnel!Try, Tunnel!rowVars, Tunnel!connVars, Tunnel!agentVars
<1>2. Tunnel!TypeOK'
  BY <1>0, <1>1 DEF Tunnel!TypeOK
<1>3. OriginInv' /\ PairsInv' /\ HeardInv' /\ RouteInv'
  <2>1. OriginInv'
    BY <1>0, <1>1 DEF OriginInv
  <2>2. PairsInv'
    BY <1>0, <1>1 DEF PairsInv
  <2>3. HeardInv'
    BY <1>0, <1>1 DEF HeardInv
  <2>4. RouteInv'
    BY <1>0, <1>1 DEF RouteInv
  <2> QED
    BY <2>1, <2>2, <2>3, <2>4
<1>4. WireInv' /\ NetInv' /\ HttpInv'
  <2>1. WireInv'
    BY <1>0, <1>1 DEF WireInv
  <2>2. NetInv'
    BY <1>0, <1>1 DEF NetInv
  <2>3. HttpInv'
    BY <1>0, <1>1 DEF HttpInv, Unserved, OneServer
  <2> QED
    BY <2>1, <2>2, <2>3
<1>5. AttemptInv'
  <2> SUFFICES ASSUME NEW w \in Sockets, NEW a \in Agents
               PROVE  (StagesOf(w, a) /\ AwaitedOf(w, a))'
    BY DEF AttemptInv
  <2>1. StagesOf(w, a) /\ AwaitedOf(w, a)
    BY TunnelTypes
  <2>2. Untried(w, a)' => Untried(w, a)
    BY <1>0, <1>1, TunnelTypes DEF Untried, Tunnel!TypeOK
  <2>3. /\ Asked(w, a)' => Asked(w, a)
        /\ Opened(w, a)' => Opened(w, a)
        /\ Ended(w, a)' => Ended(w, a)
    BY <1>1 DEF Asked, Opened, Ended
  <2>4. StagesOf(w, a)'
    BY <1>1, <2>1, <2>2, <2>3, StagesFrame
  <2>5. AwaitedOf(w, a)'
    BY <1>1, <2>1, <2>3, AwaitedFrame
  <2> QED
    BY <2>4, <2>5
<1>6. Tunnel!LocalIsRouted'
  BY <1>0, <1>1 DEF Tunnel!LocalIsRouted
<1> QED
  BY <1>2, <1>3, <1>4, <1>5, <1>6 DEF TunnelInv

\* One that is online is asked, once.
LEMMA TryKeeps ==
  ASSUME TunnelBounds, TunnelInv, NEW r \in Tunnel!Requests, NEW x \in Agents, Tunnel!Try(r, x),
         Tunnel!IsAgentOnline(x)
  PROVE  TunnelInv'
<1>0. /\ Tunnel!TypeOK /\ WireInv /\ OriginInv /\ NetInv /\ HttpInv /\ PairsInv /\ HeardInv
      /\ RouteInv
  BY DEF TunnelInv
<1> DEFINE type == IF r \in Https THEN "http.request" ELSE "ws.open"
<1>1. /\ UNCHANGED <<tunnel, rowAgent, conn, bound, closing, agentConn, conns, tunnelToHub,
                      gone,
                     heard, routes, ports, fetching, opening, local, served, lapsed>>
      /\ tunnelAt[r] = "trying" /\ x \in Tunnel!NextToTry(candidates[r])
      /\ candidates' = [candidates EXCEPT ![r] = candidates[r] \ {x}]
      /\ tunnelAt' = [tunnelAt EXCEPT ![r] = "waiting"]
      /\ Tunnel!Send(x, Tunnel!EnsureTunnelOpen(<<Tunnel!Message(type, r)>>))
      /\ r \in Https => pendingProxy' = pendingProxy \union {<<r, x>>}
                        /\ pendingOpen' = pendingOpen
      /\ r \notin Https => pendingOpen' = pendingOpen \union {<<r, x>>}
                           /\ pendingProxy' = pendingProxy
  BY DEF Tunnel!Try, Tunnel!ProxyHttpThroughAgent, Tunnel!OpenTunnelWsThroughAgent,
     Tunnel!rowVars, Tunnel!connVars, Tunnel!agentVars
<1>2. x \in candidates[r] /\ (r \in Https \/ r \in Sockets)
  BY <1>1 DEF Tunnel!NextToTry, Tunnel!Requests
<1>3. /\ tunnelAt'[r] = "waiting" /\ candidates'[r] = candidates[r] \ {x}
      /\ \A q \in Tunnel!Requests \ {r} : tunnelAt'[q] = tunnelAt[q] /\ candidates'[q] = candidates[q]
  BY <1>0, <1>1 DEF Tunnel!TypeOK
<1> DEFINE m == Tunnel!Message(type, r)
<1>4. m \in Tunnel!Msg /\ m.type = type /\ m.of = r
  BY Kinds
<1>5. Posted(x, m)
  BY <1>1, <1>4, TunnelTypes, SendPosts
<1>6. WireInv' /\ NetInv'
  BY <1>1, <1>2, <1>4, <1>5, PostedKeeps
<1>7. Tunnel!TypeOK'
  <2>1. pendingProxy' \subseteq Https \X Agents /\ pendingOpen' \subseteq Tunnel!Attempt
    BY <1>0, <1>1, <1>2 DEF Tunnel!TypeOK, Tunnel!Attempt
  <2> QED
    BY <1>0, <1>1, <1>5, <2>1 DEF Tunnel!TypeOK, Posted
<1>8. OriginInv' /\ HeardInv' /\ RouteInv'
  <2>1. OriginInv'
    BY <1>0, <1>1 DEF OriginInv
  <2>2. HeardInv'
    BY <1>0, <1>1, <1>3, TunnelTypes DEF HeardInv
  <2>3. RouteInv'
    BY <1>0, <1>1 DEF RouteInv
  <2> QED
    BY <2>1, <2>2, <2>3
<1>9. \A p \in pendingOpen \union routes : p[1] # r /\ p[1] \in Tunnel!Requests
  BY <1>0, <1>1, TunnelTypes DEF PairsInv, Tunnel!Attempt
<1>10. PairsInv'
  <2>1. \A p \in pendingOpen' : p \in pendingOpen \/ p = <<r, x>>
    BY <1>1, <1>2
  <2>2. <<r, x>>[1] = r
    OBVIOUS
  <2> QED
    BY <1>0, <1>1, <1>3, <1>9, <2>1, <2>2 DEF PairsInv
<1>11. \A a \in Agents : \A t, q : t # "tunnel.open" /\ (t # type \/ q # r \/ a # x) =>
         LET k == Tunnel!Message(t, q)
         IN  /\ Has(tunnelToAgent'[a], k) <=> Has(tunnelToAgent[a], k)
             /\ Once(tunnelToAgent[a], k) => Once(tunnelToAgent'[a], k)
  BY <1>5, Kinds DEF Posted
<1>12. ~Has(tunnelToAgent[x], m) /\ Once(tunnelToAgent[x], m) => Once(tunnelToAgent'[x], m)
  BY <1>5, Kinds DEF Posted
<1>13. HttpInv'
  <2> SUFFICES ASSUME NEW q \in Https
               PROVE  LET k == Tunnel!Message("http.request", q)
                      IN  /\ tunnelAt'[q] \in {"none", "asked", "trying"} =>
                               Unserved(q) /\ \A a \in Agents : ~Has(tunnelToAgent'[a], k)
                          /\ OneServer(q)
                          /\ \A a \in Agents :
                               /\ Once(tunnelToAgent'[a], k)
                               /\ Has(tunnelToAgent'[a], k) =>
                                    /\ Unserved(q)
                                    /\ \A b \in Agents \ {a} : ~Has(tunnelToAgent'[b], k)
    BY <1>1 DEF HttpInv, Unserved, OneServer
  <2> DEFINE k == Tunnel!Message("http.request", q)
  <2>1. /\ tunnelAt[q] \in {"none", "asked", "trying"} =>
             Unserved(q) /\ \A a \in Agents : ~Has(tunnelToAgent[a], k)
        /\ OneServer(q)
        /\ \A a \in Agents :
             /\ Once(tunnelToAgent[a], k)
             /\ Has(tunnelToAgent[a], k) =>
                  Unserved(q) /\ \A b \in Agents \ {a} : ~Has(tunnelToAgent[b], k)
    BY <1>0 DEF HttpInv
  <2>2. CASE q # r
    <3>1. \A a \in Agents : /\ Has(tunnelToAgent'[a], k) <=> Has(tunnelToAgent[a], k)
                            /\ Once(tunnelToAgent[a], k) => Once(tunnelToAgent'[a], k)
      BY <1>11, <2>2
    <3>2. tunnelAt'[q] = tunnelAt[q]
      BY <1>3, <2>2, TunnelTypes
    <3> QED
      BY <2>1, <3>1, <3>2
  <2>3. CASE q = r
    <3>1. k = m
      BY <2>3
    <3>2. Unserved(q) /\ \A a \in Agents : ~Has(tunnelToAgent[a], k)
      BY <1>1, <2>1, <2>3
    <3>3. \A a \in Agents \ {x} : /\ Has(tunnelToAgent'[a], k) <=> Has(tunnelToAgent[a], k)
                                  /\ Once(tunnelToAgent[a], k) => Once(tunnelToAgent'[a], k)
      BY <1>11
    <3>4. Once(tunnelToAgent'[x], k)
      BY <1>12, <2>1, <3>1, <3>2
    <3>5. tunnelAt'[q] = "waiting" /\ OneServer(q)
      BY <1>3, <2>1, <2>3
    <3>6. \A a \in Agents : Once(tunnelToAgent'[a], k)
      BY <2>1, <3>3, <3>4
    <3>7. \A a \in Agents \ {x} : ~Has(tunnelToAgent'[a], k)
      BY <3>2, <3>3
    <3>8. \A a \in Agents : Has(tunnelToAgent'[a], k) =>
                              Unserved(q) /\ \A b \in Agents \ {a} : ~Has(tunnelToAgent'[b], k)
      BY <3>2, <3>7
    <3> QED
      BY <3>5, <3>6, <3>8
  <2> QED
    BY <2>2, <2>3
<1>14. AttemptInv'
  <2> SUFFICES ASSUME NEW w \in Sockets, NEW a \in Agents
               PROVE  (StagesOf(w, a) /\ AwaitedOf(w, a))'
    BY DEF AttemptInv
  <2>1. StagesOf(w, a) /\ AwaitedOf(w, a)
    BY TunnelTypes
  <2>2. Untried(w, a)' => Untried(w, a)
    BY <1>1, <1>2, <1>3, TunnelTypes DEF Untried
  <2>3. Opened(w, a)' => Opened(w, a)
    BY <1>1 DEF Opened
  <2>4. Ended(w, a)' => Ended(w, a)
    BY <1>1 DEF Ended
  <2>5. CASE w # r \/ a # x
    <3>1. /\ Asked(w, a)' => Asked(w, a)
          /\ Once(tunnelToAgent[a], Tunnel!Message("ws.open", w)) =>
               Once(tunnelToAgent'[a], Tunnel!Message("ws.open", w))
      BY <1>11, <2>5 DEF Asked
    <3>2. StagesOf(w, a)'
      BY <1>1, <2>1, <2>2, <2>3, <2>4, <3>1, StagesFrame
    <3>3. AwaitedOf(w, a)'
      BY <1>1, <2>1, <3>1, AwaitedFrame
    <3> QED
      BY <3>2, <3>3
  <2>6. CASE w = r /\ a = x
    <3>1. r \notin Https /\ m = Tunnel!Message("ws.open", w)
      BY <2>6 DEF TunnelBounds
    <3>2. Untried(w, a)
      BY <1>2, <2>6 DEF Untried
    <3>3. /\ ~Asked(w, a) /\ <<w, a>> \notin DOMAIN opening \union DOMAIN local
          /\ ~Opened(w, a) /\ ~Ended(w, a) /\ Once(tunnelToAgent[a], m)
      BY <2>1, <3>1, <3>2 DEF StagesOf
    <3>4. Once(tunnelToAgent'[a], Tunnel!Message("ws.open", w))
      BY <1>12, <2>6, <3>1, <3>3 DEF Asked
    <3>5. ~Untried(w, a)'
      BY <1>3, <2>6 DEF Untried
    <3>6. StagesOf(w, a)'
      BY <1>1, <2>3, <2>4, <3>3, <3>4, <3>5 DEF StagesOf
    <3>7. AwaitedOf(w, a)'
      BY <1>1, <2>6, <3>1, <3>3 DEF AwaitedOf
    <3> QED
      BY <3>6, <3>7
  <2> QED
    BY <2>5, <2>6
<1>15. Tunnel!LocalIsRouted'
  <2>1. ASSUME NEW w \in Sockets, NEW a \in Agents, <<w, a>> \in DOMAIN local'
        PROVE  LocalOf(w, a)'
    <3>1. LocalOf(w, a)
      BY <1>1, <2>1, TunnelTypes
    <3>2. Opened(w, a) => Opened(w, a)'
      BY <1>1 DEF Opened
    <3>3. Has(tunnelToAgent[a], Tunnel!Message("ws.close", w)) =>
            Has(tunnelToAgent'[a], Tunnel!Message("ws.close", w))
      BY <1>11
    <3> QED
      BY <1>1, <3>1, <3>2, <3>3, LocalFrame
  <2>2. (DOMAIN local \subseteq Tunnel!Attempt)'
    BY <1>1, TunnelTypes
  <2>3. (\A w \in Sockets, a \in Agents : <<w, a>> \in DOMAIN local => LocalOf(w, a))'
    BY <2>1
  <2> QED
    BY <2>2, <2>3, LocalParts, PTL
<1> QED
  BY <1>6, <1>7, <1>8, <1>10, <1>13, <1>14, <1>15 DEF TunnelInv

\* Who is not answered in time is marked.
LEMMA TimeoutKeeps ==
  ASSUME TunnelBounds, TunnelInv, NEW r \in Tunnel!Requests, NEW x \in Agents, Tunnel!Timeout(r, x)
  PROVE  TunnelInv'
<1>0. /\ Tunnel!TypeOK /\ WireInv /\ OriginInv /\ NetInv /\ HttpInv /\ PairsInv /\ HeardInv
      /\ RouteInv
  BY DEF TunnelInv
<1>1. /\ UNCHANGED <<tunnel, rowAgent, conn, bound, closing, agentConn, conns, tunnelToAgent,
                      tunnelToHub,
                     candidates, gone, heard, routes, ports, fetching, opening, local, served>>
      /\ <<r, x>> \in pendingProxy \union pendingOpen
      /\ pendingProxy' = pendingProxy \ {<<r, x>>} /\ pendingOpen' = pendingOpen \ {<<r, x>>}
      /\ tunnelAt' = [tunnelAt EXCEPT ![r] = "over"]
      /\ lapsed' = lapsed \union ({<<r, x>>} \intersect Tunnel!Attempt)
  BY DEF Tunnel!Timeout, Tunnel!AfterTimeout, Tunnel!rowVars, Tunnel!connVars,
     Tunnel!wireVars, Tunnel!agentVars
<1>2. /\ tunnelAt'[r] = "over" /\ \A q \in Tunnel!Requests \ {r} : tunnelAt'[q] = tunnelAt[q]
  BY <1>0, <1>1 DEF Tunnel!TypeOK
<1>3. /\ \A p \in pendingOpen \union routes : p[1] \in Sockets /\ p = <<p[1], p[2]>>
      /\ \A p \in pendingProxy : p[1] \in Https
      /\ Sockets \subseteq Tunnel!Requests /\ Https \subseteq Tunnel!Requests
      /\ heard \subseteq Sockets
      /\ pendingOpen \subseteq Tunnel!Attempt
  BY TunnelTypes DEF Tunnel!Attempt
<1>4. Tunnel!TypeOK'
  BY <1>0, <1>1 DEF Tunnel!TypeOK
<1>5. WireInv' /\ OriginInv' /\ NetInv' /\ RouteInv'
  <2>1. WireInv'
    BY <1>0, <1>1 DEF WireInv
  <2>2. OriginInv'
    BY <1>0, <1>1 DEF OriginInv
  <2>3. NetInv'
    BY <1>0, <1>1 DEF NetInv
  <2>4. RouteInv'
    BY <1>0, <1>1 DEF RouteInv
  <2> QED
    BY <2>1, <2>2, <2>3, <2>4
<1>6. HttpInv'
  <2>1. \A q \in Https : tunnelAt'[q] \in {"none", "asked", "trying"} =>
                           tunnelAt[q] \in {"none", "asked", "trying"}
    BY <1>2, <1>3
  <2> QED
    BY <1>0, <1>1, <2>1, HttpFrame
<1>7. \A p \in pendingOpen' \union routes : p[1] # r
  <2>0. <<r, x>>[1] = r
    OBVIOUS
  <2>1. CASE <<r, x>> \in pendingOpen
    BY <1>0, <1>1, <2>0, <2>1 DEF PairsInv
  <2>2. CASE <<r, x>> \in pendingProxy
    BY <1>1, <1>3, <2>0, <2>2 DEF TunnelBounds
  <2> QED
    BY <1>1, <2>1, <2>2
<1>8. PairsInv'
  BY <1>0, <1>1, <1>2, <1>3, <1>7 DEF PairsInv
<1>9. HeardInv'
  BY <1>0, <1>1, <1>2, <1>3 DEF HeardInv
<1>10. \A w \in Sockets, a \in Agents :
         /\ <<w, a>> \in lapsed => <<w, a>> \in lapsed'
         /\ <<w, a>> \in pendingOpen => <<w, a>> \in pendingOpen' \/ <<w, a>> \in lapsed'
  BY <1>1, <1>3
<1>11. AttemptInv'
  <2> SUFFICES ASSUME NEW w \in Sockets, NEW a \in Agents
               PROVE  (StagesOf(w, a) /\ AwaitedOf(w, a))'
    BY DEF AttemptInv
  <2>1. StagesOf(w, a) /\ AwaitedOf(w, a)
    BY TunnelTypes
  <2>2. Untried(w, a)' => Untried(w, a)
    BY <1>1, <1>2, <1>3 DEF Untried
  <2>3. /\ Asked(w, a)' => Asked(w, a)
        /\ Opened(w, a)' => Opened(w, a)
        /\ Ended(w, a)' => Ended(w, a)
    BY <1>1 DEF Asked, Opened, Ended
  <2>4. StagesOf(w, a)'
    BY <1>1, <2>1, <2>2, <2>3, StagesFrame
  <2>5. AwaitedOf(w, a)'
    BY <1>1, <1>10, <2>1, <2>3, AwaitedFrame
  <2> QED
    BY <2>4, <2>5
<1>12. Tunnel!LocalIsRouted'
  <2>1. ASSUME NEW w \in Sockets, NEW a \in Agents, <<w, a>> \in DOMAIN local'
        PROVE  LocalOf(w, a)'
    <3>1. LocalOf(w, a)
      BY <1>1, <2>1, TunnelTypes
    <3>2. Opened(w, a) => Opened(w, a)'
      BY <1>1 DEF Opened
    <3> QED
      BY <1>1, <1>10, <3>1, <3>2, LocalFrame
  <2>2. (DOMAIN local \subseteq Tunnel!Attempt)'
    BY <1>1, TunnelTypes
  <2>3. (\A w \in Sockets, a \in Agents : <<w, a>> \in DOMAIN local => LocalOf(w, a))'
    BY <2>1
  <2> QED
    BY <2>2, <2>3, LocalParts, PTL
<1> QED
  BY <1>4, <1>5, <1>6, <1>8, <1>9, <1>11, <1>12 DEF TunnelInv

\* A client that has left is marked, or its agent is told.
LEMMA UpstreamKeeps ==
  ASSUME TunnelBounds, TunnelInv, NEW z \in Tunnel!Requests, Tunnel!UpstreamCloses(z)
  PROVE  TunnelInv'
<1>0. /\ Tunnel!TypeOK /\ WireInv /\ OriginInv /\ NetInv /\ HttpInv /\ PairsInv /\ HeardInv
      /\ RouteInv
  BY DEF TunnelInv
<1>1. /\ UNCHANGED <<tunnel, rowAgent, conn, bound, closing, agentConn, conns, tunnelToHub,
                      tunnelAt,
                     candidates, gone, pendingProxy, pendingOpen, ports, fetching, opening,
                     local, served>>
      /\ z \in gone \ heard /\ tunnelAt[z] \in {"trying", "waiting", "opened", "open"}
      /\ heard' = heard \union {z}
  BY DEF Tunnel!UpstreamCloses, Tunnel!rowVars, Tunnel!connVars, Tunnel!agentVars
<1>2. z \in Sockets
  BY <1>0, <1>1 DEF Tunnel!TypeOK
<1> DEFINE m == Tunnel!Message("ws.close", z)
<1>3. m \in Tunnel!Msg /\ m.type = "ws.close" /\ m.of = z
  BY Kinds
<1>4. \/ /\ tunnelAt[z] = "open" /\ lapsed' = lapsed
         /\ \E a \in Agents : /\ <<z, a>> \in routes /\ Tunnel!IsAgentOnline(a) /\ Tunnel!Send(a, <<m>>)
                              /\ routes' = routes
      \/ /\ tunnelAt[z] = "open" /\ lapsed' = lapsed
         /\ \E a \in Agents : /\ <<z, a>> \in routes /\ ~Tunnel!IsAgentOnline(a)
                              /\ routes' = routes \ {<<z, a>>} /\ tunnelToAgent' = tunnelToAgent
      \/ /\ tunnelAt[z] # "open" /\ lapsed' = lapsed \union ({z} \X Agents)
         /\ tunnelToAgent' = tunnelToAgent /\ routes' = routes
  BY DEF Tunnel!UpstreamCloses, Tunnel!CloseTunnelWs
<1>5. /\ WireInv' /\ NetInv' /\ tunnelToAgent' \in [Agents -> Seq(Tunnel!Msg)]
      /\ \A a \in Agents : \A t, q : t \notin {"tunnel.open", "ws.close"} =>
           LET k == Tunnel!Message(t, q)
           IN  /\ Has(tunnelToAgent'[a], k) <=> Has(tunnelToAgent[a], k)
               /\ Once(tunnelToAgent[a], k) => Once(tunnelToAgent'[a], k)
      /\ \A a \in Agents : \A k : Has(tunnelToAgent[a], k) => Has(tunnelToAgent'[a], k)
  <2>1. CASE tunnelToAgent' = tunnelToAgent
    <3>1. WireInv'
      BY <1>0, <2>1 DEF WireInv
    <3>2. NetInv'
      BY <1>0, <1>1, <2>1 DEF NetInv
    <3> QED
      BY <2>1, <3>1, <3>2, TunnelTypes
  <2>2. ASSUME NEW a \in Agents, Tunnel!IsAgentOnline(a), Tunnel!Send(a, <<m>>)
        PROVE  /\ WireInv' /\ NetInv' /\ tunnelToAgent' \in [Agents -> Seq(Tunnel!Msg)]
               /\ \A b \in Agents : \A t, q : t \notin {"tunnel.open", "ws.close"} =>
                    LET k == Tunnel!Message(t, q)
                    IN  /\ Has(tunnelToAgent'[b], k) <=> Has(tunnelToAgent[b], k)
                        /\ Once(tunnelToAgent[b], k) => Once(tunnelToAgent'[b], k)
               /\ \A b \in Agents : \A k : Has(tunnelToAgent[b], k) => Has(tunnelToAgent'[b], k)
    <3>1. Posted(a, m)
      BY <1>3, <2>2, TunnelTypes, SendPosts
    <3>2. WireInv' /\ NetInv'
      BY <1>1, <1>2, <1>3, <2>2, <3>1, PostedKeeps
    <3>3. \A b \in Agents : \A t, q : t \notin {"tunnel.open", "ws.close"} =>
            LET k == Tunnel!Message(t, q)
            IN  /\ Has(tunnelToAgent'[b], k) <=> Has(tunnelToAgent[b], k)
                /\ Once(tunnelToAgent[b], k) => Once(tunnelToAgent'[b], k)
      BY <3>1, Kinds DEF Posted
    <3>4. /\ \A b \in Agents : \A k : Has(tunnelToAgent[b], k) => Has(tunnelToAgent'[b], k)
          /\ tunnelToAgent' \in [Agents -> Seq(Tunnel!Msg)]
      BY <3>1 DEF Posted
    <3> QED
      BY <3>2, <3>3, <3>4
  <2> QED
    BY <1>4, <2>1, <2>2
<1>6. /\ lapsed \subseteq lapsed' /\ routes' \subseteq routes
      /\ lapsed' \subseteq Tunnel!Attempt
  BY <1>2, <1>4, TunnelTypes DEF Tunnel!Attempt
<1>7. Tunnel!TypeOK'
  BY <1>0, <1>1, <1>5, <1>6 DEF Tunnel!TypeOK
<1>8. OriginInv' /\ PairsInv' /\ RouteInv'
  <2>1. OriginInv'
    BY <1>0, <1>1 DEF OriginInv
  <2>2. PairsInv'
    BY <1>0, <1>1, <1>6 DEF PairsInv
  <2>3. RouteInv'
    BY <1>0, <1>1, <1>6 DEF RouteInv
  <2> QED
    BY <2>1, <2>2, <2>3
<1>9. HeardInv'
  <2>1. tunnelAt[z] # "open" => \A a \in Agents : <<z, a>> \in lapsed'
    BY <1>4
  <2> QED
    BY <1>0, <1>1, <1>6, <2>1 DEF HeardInv
<1>10. HttpInv'
  BY <1>0, <1>1, <1>5, HttpFrame
<1>11. AttemptInv'
  <2> SUFFICES ASSUME NEW w \in Sockets, NEW a \in Agents
               PROVE  (StagesOf(w, a) /\ AwaitedOf(w, a))'
    BY DEF AttemptInv
  <2>1. StagesOf(w, a) /\ AwaitedOf(w, a)
    BY TunnelTypes
  <2>2. /\ Untried(w, a)' => Untried(w, a)
        /\ Asked(w, a)' => Asked(w, a)
        /\ Opened(w, a)' => Opened(w, a)
        /\ Ended(w, a)' => Ended(w, a)
    BY <1>1, <1>5 DEF Untried, Asked, Opened, Ended
  <2>3. StagesOf(w, a)'
    BY <1>1, <1>5, <2>1, <2>2, StagesFrame
  <2>4. AwaitedOf(w, a)'
    BY <1>1, <1>6, <2>1, <2>2, AwaitedFrame
  <2> QED
    BY <2>3, <2>4
<1>12. Tunnel!LocalIsRouted'
  <2>1. ASSUME NEW w \in Sockets, NEW a \in Agents, <<w, a>> \in DOMAIN local'
        PROVE  LocalOf(w, a)'
    <3>1. LocalOf(w, a)
      BY <1>1, <2>1, TunnelTypes
    <3>2. Opened(w, a) => Opened(w, a)'
      BY <1>1 DEF Opened
    <3>3. CASE w # z
      <4>1. <<w, a>> \in routes => <<w, a>> \in routes'
        BY <1>4, <3>3
      <4> QED
        BY <1>1, <1>5, <1>6, <3>1, <3>2, <3>3, <4>1, LocalFrame
    <3>4. CASE w = z /\ tunnelAt[z] # "open"
      BY <1>4, <3>4 DEF LocalOf
    <3>5. CASE w = z /\ tunnelAt[z] = "open" /\ <<w, a>> \in lapsed
      BY <1>6, <3>5 DEF LocalOf
    <3>6. CASE w = z /\ tunnelAt[z] = "open" /\ <<w, a>> \notin lapsed
      <4>1. <<w, a>> \notin pendingOpen
        BY <1>0, <3>6 DEF PairsInv
      <4>2. <<w, a>> \in routes
        BY <3>1, <3>6, <4>1 DEF LocalOf
      <4>3. agentConn[a] # 0 /\ conn[a] = agentConn[a]
        BY <1>0, <3>6, <4>2 DEF RouteInv, NetInv
      <4>4. PICK b \in Agents : /\ <<z, b>> \in routes
                                /\ \/ Tunnel!IsAgentOnline(b) /\ Tunnel!Send(b, <<m>>) /\ routes' = routes
                                   \/ ~Tunnel!IsAgentOnline(b)
        BY <1>4, <3>6
      <4>5. b = a
        BY <1>0, <3>6, <4>2, <4>4 DEF PairsInv
      <4>6. Tunnel!IsAgentOnline(a) /\ Tunnel!Send(a, <<m>>) /\ routes' = routes
        BY <4>3, <4>4, <4>5 DEF Tunnel!IsAgentOnline
      <4>7. Posted(a, m)
        BY <1>3, <4>6, TunnelTypes, SendPosts
      <4>8. Has(tunnelToAgent'[a], Tunnel!Message("ws.close", w))
        BY <3>6, <4>3, <4>7 DEF Posted, Tunnel!Delivers
      <4> QED
        BY <4>2, <4>6, <4>8 DEF LocalOf
    <3> QED
      BY <3>3, <3>4, <3>5, <3>6
  <2>2. (DOMAIN local \subseteq Tunnel!Attempt)'
    BY <1>1, TunnelTypes
  <2>3. (\A w \in Sockets, a \in Agents : <<w, a>> \in DOMAIN local => LocalOf(w, a))'
    BY <2>1
  <2> QED
    BY <2>2, <2>3, LocalParts, PTL
<1> QED
  BY <1>5, <1>7, <1>8, <1>9, <1>10, <1>11, <1>12 DEF TunnelInv

-----------------------------------------------------------------------------
(* What the agent answers.                                                  *)

\* The hub reads h from the agent a,
Received(a, h) ==
  /\ tunnelToHub' \in [Agents -> Seq(Tunnel!Reply)] /\ h \in Tunnel!Reply
  /\ tunnelToHub[a] # <<>>
  /\ \A b \in Agents \ {a} : tunnelToHub'[b] = tunnelToHub[b]
  /\ \A k : Has(tunnelToHub[a], k) <=> k = h \/ Has(tunnelToHub'[a], k)

\* and the agents and what is sent to them stay as they are.
AgentsStay ==
  UNCHANGED <<tunnel, conn, bound, closing, agentConn, conns, tunnelToAgent, candidates, gone,
              heard, ports, fetching, opening, local, served>>

\* What the handler does with the answer.
LEMMA ReplyRead ==
  ASSUME TunnelInv, NEW x \in Agents, Tunnel!ReceiveReply(x)
  PROVE  \E h \in Tunnel!Reply :
           /\ Received(x, h) /\ AgentsStay
           /\ \/ /\ UNCHANGED <<pendingProxy, pendingOpen, routes, tunnelAt, rowAgent>>
                 /\ lapsed' = lapsed \union ({<<h.of, x>>} \intersect Tunnel!Attempt)
              \/ h.type = "http.response" /\ Tunnel!HttpResponse(h.of, x) /\ lapsed' = lapsed
              \/ h.type = "ws.opened" /\ Tunnel!WsOpened(h.of, x) /\ lapsed' = lapsed
              \/ /\ h.type \in {"ws.failed", "ws.closed"} /\ Tunnel!WsEnded(h.of, x)
                 /\ lapsed' = lapsed
<1> DEFINE h == Head(tunnelToHub[x])
<1>1. /\ tunnelToHub[x] # <<>> /\ tunnelToHub[x] \in Seq(Tunnel!Reply)
      /\ tunnelToHub \in [Agents -> Seq(Tunnel!Reply)]
      /\ tunnelToHub' = [tunnelToHub EXCEPT ![x] = Tail(tunnelToHub[x])]
  BY TunnelTypes DEF Tunnel!ReceiveReply
<1>2. /\ h \in Tunnel!Reply /\ Tail(tunnelToHub[x]) \in Seq(Tunnel!Reply)
      /\ \A k : Has(tunnelToHub[x], k) <=> k = h \/ Has(Tail(tunnelToHub[x]), k)
  BY <1>1, TailHas
<1>3. /\ tunnelToHub'[x] = Tail(tunnelToHub[x])
      /\ \A b \in Agents \ {x} : tunnelToHub'[b] = tunnelToHub[b]
      /\ tunnelToHub' \in [Agents -> Seq(Tunnel!Reply)]
  BY <1>1, <1>2
<1>4. Received(x, h)
  BY <1>1, <1>2, <1>3 DEF Received
<1>5. AgentsStay
  BY DEF Tunnel!ReceiveReply, AgentsStay, Tunnel!connVars, Tunnel!agentVars
<1>6. h.type \in {"http.response", "ws.opened", "ws.failed", "ws.closed"}
  BY <1>2 DEF Tunnel!Reply
<1>7. CASE agentConn[x] \notin bound[x]
  <2>1. /\ UNCHANGED <<pendingProxy, pendingOpen, routes, tunnelAt, rowAgent>>
        /\ lapsed' = lapsed \union ({<<h.of, x>>} \intersect Tunnel!Attempt)
    BY <1>7 DEF Tunnel!ReceiveReply, Tunnel!hubVars
  <2> QED
    BY <1>2, <1>4, <1>5, <2>1
<1>8. CASE agentConn[x] \in bound[x]
  <2>1. /\ lapsed' = lapsed
        /\ CASE h.type = "http.response" -> Tunnel!HttpResponse(h.of, x)
             [] h.type = "ws.opened" -> Tunnel!WsOpened(h.of, x)
             [] OTHER -> Tunnel!WsEnded(h.of, x)
    BY <1>8 DEF Tunnel!ReceiveReply
  <2>2. \/ h.type = "http.response" /\ Tunnel!HttpResponse(h.of, x)
        \/ h.type = "ws.opened" /\ Tunnel!WsOpened(h.of, x)
        \/ h.type \in {"ws.failed", "ws.closed"} /\ Tunnel!WsEnded(h.of, x)
    <3>1. CASE h.type = "http.response"
      BY <2>1, <3>1
    <3>2. CASE h.type = "ws.opened"
      BY <2>1, <3>2
    <3>3. CASE h.type \in {"ws.failed", "ws.closed"}
      BY <2>1, <3>3
    <3> QED
      BY <1>6, <3>1, <3>2, <3>3
  <2> HIDE DEF h
  <2> QED
    BY <1>2, <1>4, <1>5, <2>1, <2>2
<1> QED
  BY <1>7, <1>8

\* What holds after every answer.
LEMMA ReplyFrame ==
  ASSUME TunnelInv, NEW x \in Agents, NEW h, Received(x, h), AgentsStay
  PROVE  /\ WireInv' /\ OriginInv' /\ NetInv' /\ agentConn[x] # 0 /\ Has(tunnelToHub[x], h)
         /\ \A w \in Sockets, a \in Agents :
              /\ Asked(w, a)' <=> Asked(w, a)
              /\ Opened(w, a)' => Opened(w, a)
              /\ Ended(w, a)' => Ended(w, a)
              /\ a # x \/ h # Tunnel!Message("ws.opened", w) => (Opened(w, a) => Opened(w, a)')
<1>0. WireInv /\ OriginInv /\ NetInv
  BY DEF TunnelInv
<1>1. WireInv'
  BY <1>0 DEF WireInv, AgentsStay
<1>2. OriginInv'
  BY <1>0 DEF OriginInv, AgentsStay
<1>3. agentConn[x] # 0
  BY <1>0 DEF NetInv, Received
<1>4. NetInv'
  <2>1. UNCHANGED <<conn, closing, agentConn, conns, tunnelToAgent>>
    BY DEF AgentsStay
  <2>2. \A a \in Agents : agentConn[a] = 0 => tunnelToHub'[a] = tunnelToHub[a]
    BY <1>3 DEF Received
  <2> QED
    BY <1>0, <2>1, <2>2 DEF NetInv
<1>5. Has(tunnelToHub[x], h)
  BY DEF Received
<1>6. \A a \in Agents : \A k : /\ Has(tunnelToHub'[a], k) => Has(tunnelToHub[a], k)
                               /\ a # x \/ h # k =>
                                    (Has(tunnelToHub[a], k) => Has(tunnelToHub'[a], k))
  BY DEF Received
<1>7. \A w \in Sockets, a \in Agents :
        /\ Asked(w, a)' <=> Asked(w, a)
        /\ Opened(w, a)' => Opened(w, a)
        /\ Ended(w, a)' => Ended(w, a)
        /\ a # x \/ h # Tunnel!Message("ws.opened", w) => (Opened(w, a) => Opened(w, a)')
  BY <1>6 DEF AgentsStay, Asked, Opened, Ended
<1> QED
  BY <1>1, <1>2, <1>3, <1>4, <1>5, <1>7

\* An answer that is lost marks its attempt.
LEMMA LostKeeps ==
  ASSUME TunnelBounds, TunnelInv, NEW x \in Agents, NEW h \in Tunnel!Reply, Received(x, h),
         AgentsStay, UNCHANGED <<pendingProxy, pendingOpen, routes, tunnelAt, rowAgent>>,
         lapsed' = lapsed \union ({<<h.of, x>>} \intersect Tunnel!Attempt)
  PROVE  TunnelInv'
<1>0. /\ Tunnel!TypeOK /\ HttpInv /\ PairsInv /\ HeardInv /\ RouteInv
  BY DEF TunnelInv
<1>1. WireInv' /\ OriginInv' /\ NetInv'
  BY ReplyFrame
<1>2. /\ UNCHANGED <<agentConn, tunnelToAgent, candidates, heard, opening, local, served>>
      /\ lapsed \subseteq lapsed'
  BY DEF AgentsStay
<1>3. Tunnel!TypeOK'
  BY <1>0 DEF Tunnel!TypeOK, AgentsStay, Received
<1>4. HttpInv'
  BY <1>0, <1>2, HttpFrame
<1>5. PairsInv' /\ HeardInv' /\ RouteInv'
  <2>1. PairsInv'
    BY <1>0 DEF PairsInv
  <2>2. HeardInv'
    BY <1>0, <1>2 DEF HeardInv
  <2>3. RouteInv'
    BY <1>0, <1>2 DEF RouteInv
  <2> QED
    BY <2>1, <2>2, <2>3
<1>6. AttemptInv'
  <2> SUFFICES ASSUME NEW w \in Sockets, NEW a \in Agents
               PROVE  (StagesOf(w, a) /\ AwaitedOf(w, a))'
    BY DEF AttemptInv
  <2>1. StagesOf(w, a) /\ AwaitedOf(w, a)
    BY TunnelTypes
  <2>2. Untried(w, a)' => Untried(w, a)
    BY <1>2 DEF Untried
  <2>3. /\ Asked(w, a)' => Asked(w, a)
        /\ Opened(w, a)' => Opened(w, a)
        /\ Ended(w, a)' => Ended(w, a)
    BY ReplyFrame
  <2>4. StagesOf(w, a)'
    BY <1>2, <2>1, <2>2, <2>3, StagesFrame
  <2>5. AwaitedOf(w, a)'
    BY <1>2, <2>1, <2>3, AwaitedFrame
  <2> QED
    BY <2>4, <2>5
<1>7. Tunnel!LocalIsRouted'
  <2>1. ASSUME NEW w \in Sockets, NEW a \in Agents, <<w, a>> \in DOMAIN local'
        PROVE  LocalOf(w, a)'
    <3>1. LocalOf(w, a)
      BY <1>2, <2>1, TunnelTypes
    <3>2. CASE a # x \/ h # Tunnel!Message("ws.opened", w)
      <4>1. Opened(w, a) => Opened(w, a)'
        BY <3>2, ReplyFrame
      <4> QED
        BY <1>2, <3>1, <4>1, LocalFrame
    <3>3. CASE a = x /\ h = Tunnel!Message("ws.opened", w)
      <4>1. h.of = w
        BY <3>3, Kinds
      <4>2. <<w, a>> \in lapsed'
        BY <3>3, <4>1 DEF Tunnel!Attempt
      <4> QED
        BY <4>2 DEF LocalOf
    <3> QED
      BY <3>2, <3>3
  <2>2. (DOMAIN local \subseteq Tunnel!Attempt)'
    BY <1>2, TunnelTypes
  <2>3. (\A w \in Sockets, a \in Agents : <<w, a>> \in DOMAIN local => LocalOf(w, a))'
    BY <2>1
  <2> QED
    BY <2>2, <2>3, LocalParts, PTL
<1> QED
  BY <1>1, <1>3, <1>4, <1>5, <1>6, <1>7 DEF TunnelInv

\* The answer of the application ends its request.
LEMMA ResponseKeeps ==
  ASSUME TunnelBounds, TunnelInv, NEW x \in Agents, NEW h \in Tunnel!Reply, Received(x, h),
         AgentsStay, h.type = "http.response", Tunnel!HttpResponse(h.of, x), lapsed' = lapsed
  PROVE  TunnelInv'
<1>0. /\ Tunnel!TypeOK /\ HttpInv /\ PairsInv /\ HeardInv /\ RouteInv
  BY DEF TunnelInv
<1>1. WireInv' /\ OriginInv' /\ NetInv'
  BY ReplyFrame
<1>2. UNCHANGED <<agentConn, tunnelToAgent, candidates, heard, opening, local, served>>
  BY DEF AgentsStay
<1> DEFINE r == h.of
<1>3. /\ UNCHANGED <<pendingOpen, routes>> /\ r \in Tunnel!Requests
      /\ \/ /\ <<r, x>> \in pendingProxy /\ pendingProxy' = pendingProxy \ {<<r, x>>}
            /\ tunnelAt' = [tunnelAt EXCEPT ![r] = "over"] /\ rowAgent' = x
         \/ UNCHANGED <<pendingProxy, tunnelAt, rowAgent>>
  BY DEF Tunnel!HttpResponse, Tunnel!PersistTunnelAgent, Tunnel!Reply
<1>4. \A q \in Tunnel!Requests : tunnelAt'[q] = tunnelAt[q] \/ (q \in Https /\ tunnelAt'[q] = "over")
  BY <1>0, <1>3, TunnelTypes DEF Tunnel!TypeOK
<1>5. \A w \in Sockets : tunnelAt'[w] = tunnelAt[w]
  BY <1>4, TunnelTypes DEF TunnelBounds
<1>6. /\ \A p \in pendingOpen \union routes : p[1] \in Sockets
      /\ heard \subseteq Sockets /\ Https \subseteq Tunnel!Requests
  BY TunnelTypes DEF Tunnel!Attempt
<1>7. Tunnel!TypeOK'
  BY <1>0, <1>3 DEF Tunnel!TypeOK, AgentsStay, Received
<1>8. HttpInv'
  <2>1. \A q \in Https : tunnelAt'[q] \in {"none", "asked", "trying"} =>
                           tunnelAt[q] \in {"none", "asked", "trying"}
    BY <1>4, <1>6
  <2> QED
    BY <1>0, <1>2, <2>1, HttpFrame
<1>9. PairsInv' /\ HeardInv' /\ RouteInv'
  <2>1. PairsInv'
    BY <1>0, <1>3, <1>5, <1>6 DEF PairsInv
  <2>2. HeardInv'
    BY <1>0, <1>2, <1>5, <1>6 DEF HeardInv
  <2>3. RouteInv'
    BY <1>0, <1>2, <1>3 DEF RouteInv
  <2> QED
    BY <2>1, <2>2, <2>3
<1>10. AttemptInv'
  <2> SUFFICES ASSUME NEW w \in Sockets, NEW a \in Agents
               PROVE  (StagesOf(w, a) /\ AwaitedOf(w, a))'
    BY DEF AttemptInv
  <2>1. StagesOf(w, a) /\ AwaitedOf(w, a)
    BY TunnelTypes
  <2>2. Untried(w, a)' => Untried(w, a)
    BY <1>2, <1>5 DEF Untried
  <2>3. /\ Asked(w, a)' => Asked(w, a)
        /\ Opened(w, a)' => Opened(w, a)
        /\ Ended(w, a)' => Ended(w, a)
    BY ReplyFrame
  <2>4. StagesOf(w, a)'
    BY <1>2, <2>1, <2>2, <2>3, StagesFrame
  <2>5. AwaitedOf(w, a)'
    BY <1>2, <1>3, <2>1, <2>3, AwaitedFrame
  <2> QED
    BY <2>4, <2>5
<1>11. Tunnel!LocalIsRouted'
  <2>1. ASSUME NEW w \in Sockets, NEW a \in Agents, <<w, a>> \in DOMAIN local'
        PROVE  LocalOf(w, a)'
    <3>1. LocalOf(w, a)
      BY <1>2, <2>1, TunnelTypes
    <3>2. h # Tunnel!Message("ws.opened", w)
      BY Kinds
    <3>3. Opened(w, a) => Opened(w, a)'
      BY <3>2, ReplyFrame
    <3> QED
      BY <1>2, <1>3, <3>1, <3>3, LocalFrame
  <2>2. (DOMAIN local \subseteq Tunnel!Attempt)'
    BY <1>2, TunnelTypes
  <2>3. (\A w \in Sockets, a \in Agents : <<w, a>> \in DOMAIN local => LocalOf(w, a))'
    BY <2>1
  <2> QED
    BY <2>2, <2>3, LocalParts, PTL
<1> QED
  BY <1>1, <1>7, <1>8, <1>9, <1>10, <1>11 DEF TunnelInv

\* A websocket that is open becomes a route, if the hub still waits for it.
LEMMA OpenedKeeps ==
  ASSUME TunnelBounds, TunnelInv, NEW x \in Agents, NEW h \in Tunnel!Reply, Received(x, h),
         AgentsStay, h.type = "ws.opened", Tunnel!WsOpened(h.of, x), lapsed' = lapsed
  PROVE  TunnelInv'
<1>0. /\ Tunnel!TypeOK /\ HttpInv /\ PairsInv /\ HeardInv /\ RouteInv
  BY DEF TunnelInv
<1>1. WireInv' /\ OriginInv' /\ NetInv' /\ agentConn[x] # 0 /\ Has(tunnelToHub[x], h)
  BY ReplyFrame
<1>2. UNCHANGED <<agentConn, tunnelToAgent, candidates, heard, opening, local, served>>
  BY DEF AgentsStay
<1> DEFINE v == h.of
           p == <<v, x>>
<1>3. /\ UNCHANGED pendingProxy /\ h = Tunnel!Message("ws.opened", v)
      /\ \/ /\ p \in pendingOpen /\ pendingOpen' = pendingOpen \ {p}
            /\ routes' = routes \union {p} /\ rowAgent' = x
            /\ tunnelAt' = [tunnelAt EXCEPT ![v] = IF rowAgent = x THEN "open" ELSE "opened"]
         \/ p \notin pendingOpen /\ UNCHANGED <<pendingOpen, routes, tunnelAt, rowAgent>>
  BY Kinds DEF Tunnel!WsOpened, Tunnel!PersistTunnelAgent
<1>4. \A q \in pendingOpen \union routes : q \in Tunnel!Attempt /\ q[1] \in Sockets
  BY TunnelTypes DEF Tunnel!Attempt
<1>5. p[1] = v /\ p[2] = x
  OBVIOUS
<1>6. p \in pendingOpen => /\ v \in Sockets /\ p \in Tunnel!Attempt /\ tunnelAt[v] = "waiting"
                           /\ \A q \in routes : q[1] # v
                           /\ \A q \in pendingOpen' : q[1] # v
  BY <1>0, <1>3, <1>4, <1>5 DEF PairsInv
<1>7. /\ \A q \in Tunnel!Requests : q # v => tunnelAt'[q] = tunnelAt[q]
      /\ p \in pendingOpen => tunnelAt'[v] \in {"open", "opened"}
      /\ p \notin pendingOpen => tunnelAt'[v] = tunnelAt[v]
  BY <1>0, <1>3, <1>6, TunnelTypes DEF Tunnel!TypeOK
<1>8. Tunnel!TypeOK'
  <2>1. tunnelAt' \in [Tunnel!Requests -> {"none", "asked", "trying", "waiting", "opened", "open", "over"}]
    BY <1>0, <1>3 DEF Tunnel!TypeOK
  <2>2. pendingOpen' \subseteq Tunnel!Attempt /\ routes' \subseteq Tunnel!Attempt
    BY <1>3, <1>4, <1>6
  <2> QED
    BY <1>0, <1>3, <2>1, <2>2 DEF Tunnel!TypeOK, AgentsStay, Received
<1>9. HttpInv'
  <2>1. \A q \in Https : tunnelAt'[q] = tunnelAt[q]
    BY <1>6, <1>7, TunnelTypes DEF TunnelBounds
  <2> QED
    BY <1>0, <1>2, <2>1, HttpFrame
<1>10. PairsInv'
  <2>1. \A q \in routes' : q \in routes \/ (q = p /\ p \in pendingOpen)
    BY <1>3
  <2>2. \A q \in pendingOpen' : q \in pendingOpen
    BY <1>3
  <2>3. \A q \in routes' : tunnelAt'[q[1]] \in {"opened", "open"}
    BY <1>0, <1>4, <1>5, <1>6, <1>7, <2>1, TunnelTypes DEF PairsInv
  <2>4. \A q \in pendingOpen' : tunnelAt'[q[1]] = "waiting"
    BY <1>0, <1>4, <1>5, <1>6, <1>7, <2>2, TunnelTypes DEF PairsInv
  <2>5. \A q, k \in routes' : q[1] = k[1] => q = k
    BY <1>0, <1>5, <1>6, <2>1 DEF PairsInv
  <2>6. \A q, k \in pendingOpen' : q[1] = k[1] => q = k
    BY <1>0, <2>2 DEF PairsInv
  <2> QED
    BY <2>3, <2>4, <2>5, <2>6 DEF PairsInv
<1>11. HeardInv'
  <2>1. heard \subseteq Tunnel!Requests
    BY TunnelTypes
  <2> QED
    BY <1>0, <1>2, <1>6, <1>7, <2>1 DEF HeardInv
<1>12. RouteInv'
  BY <1>0, <1>1, <1>2, <1>3, <1>5 DEF RouteInv
<1>13. AttemptInv'
  <2> SUFFICES ASSUME NEW w \in Sockets, NEW a \in Agents
               PROVE  (StagesOf(w, a) /\ AwaitedOf(w, a))'
    BY DEF AttemptInv
  <2>1. StagesOf(w, a) /\ AwaitedOf(w, a)
    BY TunnelTypes
  <2>2. Untried(w, a)' => Untried(w, a)
    BY <1>2, <1>6, <1>7, TunnelTypes DEF Untried
  <2>3. /\ Asked(w, a)' => Asked(w, a)
        /\ Opened(w, a)' => Opened(w, a)
        /\ Ended(w, a)' => Ended(w, a)
    BY ReplyFrame
  <2>4. StagesOf(w, a)'
    BY <1>2, <2>1, <2>2, <2>3, StagesFrame
  <2>5. AwaitedOf(w, a)'
    <3>1. CASE <<w, a>> # p
      <4>1. <<w, a>> \in pendingOpen => <<w, a>> \in pendingOpen'
        BY <1>3, <3>1
      <4> QED
        BY <1>2, <2>1, <2>3, <4>1, AwaitedFrame
    <3>2. CASE <<w, a>> = p
      <4>1. Opened(w, a)
        BY <1>1, <1>3, <3>2 DEF Opened
      <4>2. ~Asked(w, a) /\ <<w, a>> \notin DOMAIN opening
        BY <2>1, <4>1 DEF StagesOf
      <4> QED
        BY <1>2, <2>3, <4>2 DEF AwaitedOf
    <3> QED
      BY <3>1, <3>2
  <2> QED
    BY <2>4, <2>5
<1>14. Tunnel!LocalIsRouted'
  <2>1. ASSUME NEW w \in Sockets, NEW a \in Agents, <<w, a>> \in DOMAIN local'
        PROVE  LocalOf(w, a)'
    <3>1. LocalOf(w, a)
      BY <1>2, <2>1, TunnelTypes
    <3>2. CASE <<w, a>> # p
      <4>1. Opened(w, a) => Opened(w, a)'
        BY <1>3, <3>2, Kinds, ReplyFrame
      <4>2. /\ <<w, a>> \in pendingOpen => <<w, a>> \in pendingOpen'
            /\ <<w, a>> \in routes => <<w, a>> \in routes'
        BY <1>3, <3>2
      <4> QED
        BY <1>2, <3>1, <4>1, <4>2, LocalFrame
    <3>3. CASE <<w, a>> = p /\ p \notin pendingOpen
      BY <1>2, <1>3, <3>1, <3>3 DEF LocalOf
    <3>4. CASE <<w, a>> = p /\ p \in pendingOpen
      <4>1. w \in heard => <<w, a>> \in lapsed
        BY <1>0, <1>6, <3>4 DEF HeardInv
      <4>2. <<w, a>> \in routes'
        BY <1>3, <3>4
      <4> QED
        BY <1>2, <4>1, <4>2 DEF LocalOf
    <3> QED
      BY <3>2, <3>3, <3>4
  <2>2. (DOMAIN local \subseteq Tunnel!Attempt)'
    BY <1>2, TunnelTypes
  <2>3. (\A w \in Sockets, a \in Agents : <<w, a>> \in DOMAIN local => LocalOf(w, a))'
    BY <2>1
  <2> QED
    BY <2>2, <2>3, LocalParts, PTL
<1> QED
  BY <1>1, <1>8, <1>9, <1>10, <1>11, <1>12, <1>13, <1>14 DEF TunnelInv

\* One that has failed or closed ends what waits for it and its route.
LEMMA EndedKeeps ==
  ASSUME TunnelBounds, TunnelInv, NEW x \in Agents, NEW h \in Tunnel!Reply, Received(x, h),
         AgentsStay, h.type \in {"ws.failed", "ws.closed"}, Tunnel!WsEnded(h.of, x), lapsed' = lapsed
  PROVE  TunnelInv'
<1>0. /\ Tunnel!TypeOK /\ HttpInv /\ PairsInv /\ HeardInv /\ RouteInv
  BY DEF TunnelInv
<1>1. WireInv' /\ OriginInv' /\ NetInv' /\ Has(tunnelToHub[x], h)
  BY ReplyFrame
<1>2. UNCHANGED <<agentConn, tunnelToAgent, candidates, heard, opening, local, served>>
  BY DEF AgentsStay
<1> DEFINE v == h.of
           p == <<v, x>>
<1>3. /\ UNCHANGED <<pendingProxy, rowAgent>>
      /\ h = Tunnel!Message("ws.failed", v) \/ h = Tunnel!Message("ws.closed", v)
      /\ pendingOpen' = pendingOpen \ {p} /\ routes' = routes \ {p}
      /\ tunnelAt' = [tunnelAt EXCEPT ![v] = IF p \in pendingOpen \union routes THEN "over" ELSE tunnelAt[v]]
  BY Kinds DEF Tunnel!WsEnded
<1>4. \A q \in pendingOpen \union routes : q[1] \in Sockets
  BY TunnelTypes DEF Tunnel!Attempt
<1>5. p[1] = v /\ p[2] = x /\ v \in Tunnel!Requests
  BY DEF Tunnel!Reply
<1>6. /\ \A q \in Tunnel!Requests : q # v => tunnelAt'[q] = tunnelAt[q]
      /\ p \in pendingOpen \union routes => tunnelAt'[v] = "over" /\ v \in Sockets
      /\ p \notin pendingOpen \union routes => tunnelAt'[v] = tunnelAt[v]
  BY <1>0, <1>3, <1>4, <1>5 DEF Tunnel!TypeOK
<1>7. \A q \in pendingOpen' \union routes' : p \in pendingOpen \union routes => q[1] # v
  BY <1>0, <1>3, <1>5 DEF PairsInv
<1>8. Tunnel!TypeOK'
  <2>1. tunnelAt' \in [Tunnel!Requests -> {"none", "asked", "trying", "waiting", "opened", "open", "over"}]
    BY <1>0, <1>3, <1>5 DEF Tunnel!TypeOK
  <2> QED
    BY <1>0, <1>3, <2>1 DEF Tunnel!TypeOK, AgentsStay, Received
<1>9. HttpInv'
  <2>1. \A q \in Https : tunnelAt'[q] = tunnelAt[q]
    BY <1>6, TunnelTypes DEF TunnelBounds
  <2> QED
    BY <1>0, <1>2, <2>1, HttpFrame
<1>10. PairsInv'
  <2>1. \A q \in pendingOpen' \union routes' : tunnelAt'[q[1]] = tunnelAt[q[1]]
    BY <1>3, <1>4, <1>6, <1>7, TunnelTypes
  <2> QED
    BY <1>0, <1>3, <2>1 DEF PairsInv
<1>11. HeardInv' /\ RouteInv'
  <2>1. heard \subseteq Tunnel!Requests
    BY TunnelTypes
  <2>2. HeardInv'
    BY <1>0, <1>2, <1>6, <2>1 DEF HeardInv
  <2>3. RouteInv'
    BY <1>0, <1>2, <1>3 DEF RouteInv
  <2> QED
    BY <2>2, <2>3
<1>12. \A w \in Sockets, a \in Agents : <<w, a>> = p => Ended(w, a)
  BY <1>1, <1>3 DEF Ended
<1>13. AttemptInv'
  <2> SUFFICES ASSUME NEW w \in Sockets, NEW a \in Agents
               PROVE  (StagesOf(w, a) /\ AwaitedOf(w, a))'
    BY DEF AttemptInv
  <2>1. StagesOf(w, a) /\ AwaitedOf(w, a)
    BY TunnelTypes
  <2>2. Untried(w, a)' => Untried(w, a)
    BY <1>2, <1>6, TunnelTypes DEF Untried
  <2>3. /\ Asked(w, a)' => Asked(w, a)
        /\ Opened(w, a)' => Opened(w, a)
        /\ Ended(w, a)' => Ended(w, a)
    BY ReplyFrame
  <2>4. StagesOf(w, a)'
    BY <1>2, <2>1, <2>2, <2>3, StagesFrame
  <2>5. AwaitedOf(w, a)'
    <3>1. CASE <<w, a>> # p
      <4>1. <<w, a>> \in pendingOpen => <<w, a>> \in pendingOpen'
        BY <1>3, <3>1
      <4> QED
        BY <1>2, <2>1, <2>3, <4>1, AwaitedFrame
    <3>2. CASE <<w, a>> = p
      <4>1. ~Asked(w, a) /\ <<w, a>> \notin DOMAIN opening
        BY <1>12, <2>1, <3>2 DEF StagesOf
      <4> QED
        BY <1>2, <2>3, <4>1 DEF AwaitedOf
    <3> QED
      BY <3>1, <3>2
  <2> QED
    BY <2>4, <2>5
<1>14. Tunnel!LocalIsRouted'
  <2>1. ASSUME NEW w \in Sockets, NEW a \in Agents, <<w, a>> \in DOMAIN local'
        PROVE  LocalOf(w, a)'
    <3>1. LocalOf(w, a) /\ StagesOf(w, a)
      BY <1>2, <2>1, TunnelTypes
    <3>2. <<w, a>> # p
      BY <1>2, <1>12, <2>1, <3>1 DEF StagesOf
    <3>3. Opened(w, a) => Opened(w, a)'
      BY <1>3, Kinds, ReplyFrame
    <3>4. /\ <<w, a>> \in pendingOpen => <<w, a>> \in pendingOpen'
          /\ <<w, a>> \in routes => <<w, a>> \in routes'
      BY <1>3, <3>2
    <3> QED
      BY <1>2, <3>1, <3>3, <3>4, LocalFrame
  <2>2. (DOMAIN local \subseteq Tunnel!Attempt)'
    BY <1>2, TunnelTypes
  <2>3. (\A w \in Sockets, a \in Agents : <<w, a>> \in DOMAIN local => LocalOf(w, a))'
    BY <2>1
  <2> QED
    BY <2>2, <2>3, LocalParts, PTL
<1> QED
  BY <1>1, <1>8, <1>9, <1>10, <1>11, <1>13, <1>14 DEF TunnelInv

-----------------------------------------------------------------------------
(* The agent.                                                               *)

\* The hub and the gateway stay as they are.
HubStays ==
  UNCHANGED <<tunnel, rowAgent, conn, bound, closing, agentConn, conns, tunnelAt, candidates,
               gone,
              heard, pendingProxy, pendingOpen, routes, lapsed>>

\* What holds after every step of an agent.
LEMMA AgentFrame ==
  ASSUME TunnelInv, NEW x \in Agents, HubStays,
         tunnelToAgent' = tunnelToAgent \/ \E h : Taken(x, h),
         tunnelToHub' = tunnelToHub \/ \E n, m : n # 0 /\ Answered(x, n, m)
  PROVE  /\ WireInv' /\ NetInv' /\ PairsInv' /\ HeardInv' /\ RouteInv'
         /\ tunnelToAgent' \in [Agents -> Seq(Tunnel!Msg)]
         /\ tunnelToHub' \in [Agents -> Seq(Tunnel!Reply)]
         /\ \A a \in Agents : \A k :
              /\ Has(tunnelToAgent'[a], k) => Has(tunnelToAgent[a], k)
              /\ Once(tunnelToAgent[a], k) => Once(tunnelToAgent'[a], k)
              /\ Has(tunnelToHub[a], k) => Has(tunnelToHub'[a], k)
              /\ a # x => (Has(tunnelToHub'[a], k) => Has(tunnelToHub[a], k))
         /\ \A w \in Sockets, a \in Agents : Untried(w, a)' <=> Untried(w, a)
<1>0. WireInv /\ NetInv /\ PairsInv /\ HeardInv /\ RouteInv
  BY DEF TunnelInv
<1>1. /\ tunnelToAgent' \in [Agents -> Seq(Tunnel!Msg)]
      /\ \A a \in Agents : \A k : /\ Has(tunnelToAgent'[a], k) => Has(tunnelToAgent[a], k)
                                  /\ Once(tunnelToAgent[a], k) => Once(tunnelToAgent'[a], k)
      /\ \A a \in Agents : agentConn[a] = 0 => tunnelToAgent'[a] = tunnelToAgent[a]
  <2>1. CASE tunnelToAgent' = tunnelToAgent
    BY <2>1, TunnelTypes
  <2>2. ASSUME NEW h, Taken(x, h)
        PROVE  /\ tunnelToAgent' \in [Agents -> Seq(Tunnel!Msg)]
               /\ \A a \in Agents : \A k : /\ Has(tunnelToAgent'[a], k) => Has(tunnelToAgent[a], k)
                                           /\ Once(tunnelToAgent[a], k) =>
                                                Once(tunnelToAgent'[a], k)
               /\ \A a \in Agents : agentConn[a] = 0 => tunnelToAgent'[a] = tunnelToAgent[a]
    <3>1. agentConn[x] # 0
      BY <1>0, <2>2 DEF NetInv, Taken
    <3> QED
      BY <2>2, <3>1 DEF Taken
  <2> QED
    BY <2>1, <2>2
<1>2. /\ tunnelToHub' \in [Agents -> Seq(Tunnel!Reply)]
      /\ \A a \in Agents : \A k : /\ Has(tunnelToHub[a], k) => Has(tunnelToHub'[a], k)
                                  /\ a # x =>
                                       (Has(tunnelToHub'[a], k) => Has(tunnelToHub[a], k))
      /\ \A a \in Agents : agentConn[a] = 0 => tunnelToHub'[a] = tunnelToHub[a]
  <2>1. CASE tunnelToHub' = tunnelToHub
    BY <2>1, TunnelTypes
  <2>2. ASSUME NEW n, NEW m, n # 0, Answered(x, n, m)
        PROVE  /\ tunnelToHub' \in [Agents -> Seq(Tunnel!Reply)]
               /\ \A a \in Agents : \A k : /\ Has(tunnelToHub[a], k) => Has(tunnelToHub'[a], k)
                                           /\ a # x =>
                                                (Has(tunnelToHub'[a], k) => Has(tunnelToHub[a], k))
               /\ \A a \in Agents : agentConn[a] = 0 => tunnelToHub'[a] = tunnelToHub[a]
    BY <2>2 DEF Answered
  <2> QED
    BY <2>1, <2>2
<1>3. WireInv'
  BY <1>0, <1>1 DEF WireInv
<1>4. NetInv'
  <2>1. UNCHANGED <<conn, closing, agentConn, conns>>
    BY DEF HubStays
  <2> QED
    BY <1>0, <1>1, <1>2, <2>1 DEF NetInv
<1>5. PairsInv' /\ HeardInv' /\ RouteInv'
  <2>1. PairsInv'
    BY <1>0 DEF PairsInv, HubStays
  <2>2. HeardInv'
    BY <1>0 DEF HeardInv, HubStays
  <2>3. RouteInv'
    BY <1>0 DEF RouteInv, HubStays
  <2> QED
    BY <2>1, <2>2, <2>3
<1>6. \A w \in Sockets, a \in Agents : Untried(w, a)' <=> Untried(w, a)
  BY DEF Untried, HubStays
<1> QED
  BY <1>1, <1>2, <1>3, <1>4, <1>5, <1>6

\* An attempt that a step of an agent is not about.
LEMMA OtherAttempt ==
  ASSUME TunnelInv, NEW x \in Agents, HubStays, NEW w \in Sockets, NEW a \in Agents,
         \/ tunnelToAgent' = tunnelToAgent
         \/ \E h : Taken(x, h) /\ (h = Tunnel!Message("ws.close", w) => a # x),
         \/ tunnelToHub' = tunnelToHub
         \/ \E n, m : /\ n # 0 /\ Answered(x, n, m)
                      /\ m.of = w /\ m.type # "http.response" => a # x,
         <<w, a>> \in DOMAIN opening' =>
           <<w, a>> \in DOMAIN opening /\ opening'[<<w, a>>] = opening[<<w, a>>],
         <<w, a>> \in DOMAIN local' => <<w, a>> \in DOMAIN local
  PROVE  /\ StagesOf(w, a)' /\ AwaitedOf(w, a)'
         /\ <<w, a>> \in DOMAIN local' => LocalOf(w, a)'
<1>1. /\ StagesOf(w, a) /\ AwaitedOf(w, a)
      /\ <<w, a>> \in DOMAIN local => LocalOf(w, a)
  BY TunnelTypes
<1>2. /\ Has(tunnelToAgent'[a], Tunnel!Message("ws.open", w)) =>
           Has(tunnelToAgent[a], Tunnel!Message("ws.open", w))
      /\ Once(tunnelToAgent[a], Tunnel!Message("ws.open", w)) =>
           Once(tunnelToAgent'[a], Tunnel!Message("ws.open", w))
      /\ Has(tunnelToHub[a], Tunnel!Message("ws.opened", w)) =>
           Has(tunnelToHub'[a], Tunnel!Message("ws.opened", w))
      /\ Untried(w, a)' <=> Untried(w, a)
  BY AgentFrame
<1>3. Has(tunnelToAgent[a], Tunnel!Message("ws.close", w)) =>
        Has(tunnelToAgent'[a], Tunnel!Message("ws.close", w))
  <2>1. ASSUME NEW h, Taken(x, h), h = Tunnel!Message("ws.close", w) => a # x
        PROVE  Has(tunnelToAgent[a], Tunnel!Message("ws.close", w)) =>
                 Has(tunnelToAgent'[a], Tunnel!Message("ws.close", w))
    BY <2>1 DEF Taken
  <2> QED
    BY <2>1
<1>4. \A t \in {"ws.opened", "ws.failed", "ws.closed"} :
        Has(tunnelToHub'[a], Tunnel!Message(t, w)) => Has(tunnelToHub[a], Tunnel!Message(t, w))
  <2>1. ASSUME NEW n, NEW m, n # 0, Answered(x, n, m),
               m.of = w /\ m.type # "http.response" => a # x,
               NEW t \in {"ws.opened", "ws.failed", "ws.closed"}
        PROVE  Has(tunnelToHub'[a], Tunnel!Message(t, w)) =>
                 Has(tunnelToHub[a], Tunnel!Message(t, w))
    <3>1. Tunnel!Message(t, w).type = t /\ Tunnel!Message(t, w).of = w /\ t # "http.response"
      BY Kinds
    <3>2. a = x => m # Tunnel!Message(t, w)
      BY <2>1, <3>1
    <3> QED
      BY <2>1, <3>2 DEF Answered
  <2> QED
    BY <2>1
<1>5. /\ Asked(w, a)' => Asked(w, a)
      /\ Opened(w, a)' <=> Opened(w, a)
      /\ Ended(w, a)' => Ended(w, a)
  BY <1>2, <1>4 DEF Asked, Opened, Ended
<1>6. UNCHANGED <<agentConn, heard, pendingOpen, routes, lapsed>>
  BY DEF HubStays
<1>7. StagesOf(w, a)'
  BY <1>1, <1>2, <1>5, StagesFrame
<1>8. AwaitedOf(w, a)'
  BY <1>1, <1>5, <1>6, AwaitedFrame
<1>9. <<w, a>> \in DOMAIN local' => LocalOf(w, a)'
  BY <1>1, <1>3, <1>5, <1>6, LocalFrame
<1> QED
  BY <1>7, <1>8, <1>9

\* The last two parts of the invariant follow from those of the attempts.
LEMMA AllAttempts ==
  ASSUME DOMAIN local' \subseteq Tunnel!Attempt,
         \A w \in Sockets, a \in Agents :
           /\ StagesOf(w, a)' /\ AwaitedOf(w, a)'
           /\ <<w, a>> \in DOMAIN local' => LocalOf(w, a)'
  PROVE  AttemptInv' /\ Tunnel!LocalIsRouted'
<1>1. (DOMAIN local \subseteq Tunnel!Attempt)'
  OBVIOUS
<1>2. (\A w \in Sockets, a \in Agents : <<w, a>> \in DOMAIN local => LocalOf(w, a))'
  OBVIOUS
<1>3. Tunnel!LocalIsRouted'
  BY <1>1, <1>2, LocalParts, PTL
<1>4. AttemptInv'
  BY DEF AttemptInv
<1> QED
  BY <1>3, <1>4

\* Requests that an agent neither is handed nor hands on.
LEMMA OtherRequests ==
  ASSUME TunnelInv, NEW x \in Agents, HubStays, served' = served,
         tunnelToAgent' = tunnelToAgent \/ \E h : Taken(x, h),
         tunnelToHub' = tunnelToHub \/ \E n, m : n # 0 /\ Answered(x, n, m)
  PROVE  HttpInv'
<1>1. HttpInv /\ tunnelAt' = tunnelAt
  BY DEF TunnelInv, HubStays
<1>2. \A a \in Agents : \A k : /\ Has(tunnelToAgent'[a], k) => Has(tunnelToAgent[a], k)
                               /\ Once(tunnelToAgent[a], k) => Once(tunnelToAgent'[a], k)
  BY AgentFrame
<1> QED
  BY <1>1, <1>2, HttpFrame

\* Word of the tunnel.
LEMMA WordKeepsTunnel ==
  ASSUME TunnelBounds, TunnelInv, NEW x \in Agents, Tunnel!OpenTunnel(x)
  PROVE  TunnelInv'
<1>0. Tunnel!TypeOK /\ OriginInv
  BY DEF TunnelInv
<1>1. /\ HubStays /\ UNCHANGED <<tunnelToHub, fetching, opening, local, served>>
      /\ ports' = ports \union {x} /\ Tunnel!Takes(x, "tunnel.open")
  BY DEF Tunnel!OpenTunnel, HubStays, Tunnel!rowVars, Tunnel!connVars, Tunnel!askVars,
     Tunnel!hubVars
<1> DEFINE h == Head(tunnelToAgent[x])
<1>2. Taken(x, h) /\ h.type = "tunnel.open"
  BY <1>1, TunnelTypes, TakesTaken
<1> HIDE DEF h
<1>3. /\ WireInv' /\ NetInv' /\ PairsInv' /\ HeardInv' /\ RouteInv'
      /\ tunnelToAgent' \in [Agents -> Seq(Tunnel!Msg)]
  BY <1>1, <1>2, AgentFrame
<1>4. Tunnel!TypeOK'
  BY <1>0, <1>1, <1>3 DEF Tunnel!TypeOK, HubStays
<1>5. OriginInv'
  BY <1>0, <1>1 DEF OriginInv
<1>6. HttpInv'
  BY <1>1, <1>2, OtherRequests
<1>7. AttemptInv' /\ Tunnel!LocalIsRouted'
  <2>1. ASSUME NEW w \in Sockets, NEW a \in Agents
        PROVE  /\ StagesOf(w, a)' /\ AwaitedOf(w, a)'
               /\ <<w, a>> \in DOMAIN local' => LocalOf(w, a)'
    <3>1. h # Tunnel!Message("ws.close", w)
      BY <1>2, Kinds
    <3> QED
      BY <1>1, <1>2, <3>1, OtherAttempt
  <2>2. DOMAIN local' \subseteq Tunnel!Attempt
    BY <1>1, TunnelTypes
  <2> QED
    BY <2>1, <2>2, AllAttempts
<1> QED
  BY <1>3, <1>4, <1>5, <1>6, <1>7 DEF TunnelInv

\* A request is passed on to the first host, or answered.
LEMMA HttpRequestKeeps ==
  ASSUME TunnelBounds, TunnelInv, NEW x \in Agents, Tunnel!HttpRequest(x)
  PROVE  TunnelInv'
<1>0. Tunnel!TypeOK /\ OriginInv /\ WireInv /\ NetInv /\ HttpInv
  BY DEF TunnelInv
<1>r. PICK r : r = Head(tunnelToAgent[x]).of
  OBVIOUS
<1> DEFINE h == Head(tunnelToAgent[x])
           p == <<r, x>>
           v == [on |-> agentConn[x], host |-> 1]
<1>1. /\ HubStays /\ UNCHANGED <<ports, opening, local>> /\ Tunnel!Takes(x, "http.request")
      /\ \/ /\ fetching' = Tunnel!With(fetching, p, v)
            /\ served' = [served EXCEPT ![<<r, x, 1>>] = served[<<r, x, 1>>] + 1]
            /\ tunnelToHub' = tunnelToHub
         \/ /\ Tunnel!Answer(x, agentConn[x], Tunnel!Message("http.response", r))
            /\ UNCHANGED <<fetching, served>>
  BY <1>r DEF Tunnel!HttpRequest, Tunnel!Calls, HubStays, Tunnel!rowVars, Tunnel!connVars, Tunnel!askVars,
     Tunnel!hubVars
<1>2. /\ Taken(x, h) /\ h.type = "http.request" /\ h = Tunnel!Message("http.request", r)
      /\ Has(tunnelToAgent[x], h) /\ h \in Tunnel!Msg /\ h.of = r
  <2>1. /\ Taken(x, h) /\ h.type = "http.request" /\ h = Tunnel!Message("http.request", h.of)
        /\ Has(tunnelToAgent[x], h) /\ h \in Tunnel!Msg
    BY <1>1, TunnelTypes, TakesTaken DEF Taken
  <2> QED
    BY <1>r, <2>1
<1> HIDE DEF h
<1>3. r \in Https /\ r \in Tunnel!Requests
  BY <1>0, <1>2, TunnelTypes DEF WireInv
<1>4. agentConn[x] # 0
  BY <1>0, <1>2 DEF NetInv, Taken
<1> DEFINE m == Tunnel!Message("http.response", r)
<1>5. m \in Tunnel!Reply /\ m.type = "http.response"
  BY <1>3, Kinds
<1>6. tunnelToHub' = tunnelToHub \/ Answered(x, agentConn[x], m)
  BY <1>1, <1>5, TunnelTypes, AnswerAnswers
<1>7. /\ WireInv' /\ NetInv' /\ PairsInv' /\ HeardInv' /\ RouteInv'
      /\ tunnelToAgent' \in [Agents -> Seq(Tunnel!Msg)]
      /\ tunnelToHub' \in [Agents -> Seq(Tunnel!Reply)]
  BY <1>1, <1>2, <1>4, <1>6, AgentFrame
<1>8. 1 \in Tunnel!Host
  BY DEF TunnelBounds, Tunnel!Host
<1>9. ASSUME UNCHANGED <<fetching, served>>
      PROVE  Tunnel!TypeOK' /\ OriginInv' /\ HttpInv'
  <2>1. Tunnel!TypeOK'
    BY <1>0, <1>1, <1>7, <1>9 DEF Tunnel!TypeOK, HubStays
  <2>2. HttpInv'
    BY <1>1, <1>2, <1>4, <1>6, <1>9, OtherRequests
  <2>3. fetching' = fetching /\ served' = served /\ opening' = opening /\ local' = local
    BY <1>1, <1>9
  <2>4. OriginInv'
    BY <1>0, <2>3 DEF OriginInv
  <2> QED
    BY <2>1, <2>2, <2>4
<1>10. ASSUME fetching' = Tunnel!With(fetching, p, v),
              served' = [served EXCEPT ![<<r, x, 1>>] = served[<<r, x, 1>>] + 1]
       PROVE  Tunnel!TypeOK' /\ OriginInv' /\ HttpInv'
  <2>1. /\ Unserved(r) /\ tunnelAt[r] \notin {"none", "asked", "trying"}
        /\ \A b \in Agents \ {x} : ~Has(tunnelToAgent[b], h)
        /\ \A b \in Agents : Once(tunnelToAgent[b], h)
    BY <1>0, <1>2, <1>3 DEF HttpInv
  <2>2. served \in [Https \X Agents \X Tunnel!Host -> Nat]
    BY <1>0 DEF Tunnel!TypeOK
  <2>3. /\ served' \in [Https \X Agents \X Tunnel!Host -> Nat]
        /\ served'[<<r, x, 1>>] = 1
        /\ \A a \in Agents, g \in Tunnel!Host :
             a # x \/ g # 1 => served'[<<r, a, g>>] = 0
        /\ \A q \in Https \ {r}, a \in Agents, g \in Tunnel!Host :
             served'[<<q, a, g>>] = served[<<q, a, g>>]
    BY <1>3, <1>8, <1>10, <2>1, <2>2 DEF Unserved
  <2>4. p \notin DOMAIN fetching
    <3>1. ASSUME p \in DOMAIN fetching PROVE FALSE
      <4>1. fetching[p].host \in Tunnel!Host
        BY <1>0, <3>1 DEF Tunnel!TypeOK
      <4>2. served[<<r, x, 1>>] = 1
        BY <1>0, <1>8, <3>1, <4>1 DEF OriginInv, Tunnel!Host
      <4> QED
        BY <1>8, <2>1, <4>2 DEF Unserved
    <3> QED
      BY <3>1
  <2>5. /\ DOMAIN fetching' = DOMAIN fetching \union {p} /\ fetching'[p] = v
        /\ \A y \in DOMAIN fetching : fetching'[y] = fetching[y]
    BY <1>10, <2>4 DEF Tunnel!With
  <2>6. v \in [on : Tunnel!Conn, host : Tunnel!Host]
    <3>1. agentConn[x] \in Tunnel!Conn
      BY <1>0 DEF Tunnel!TypeOK
    <3> QED
      BY <1>8, <3>1
  <2>7. Tunnel!TypeOK'
    <3>1. /\ DOMAIN fetching' \subseteq Https \X Agents
          /\ \A y \in DOMAIN fetching' :
               fetching'[y] \in [on : Tunnel!Conn, host : Tunnel!Host]
      <4>1. /\ DOMAIN fetching \subseteq Https \X Agents
            /\ \A y \in DOMAIN fetching :
                 fetching[y] \in [on : Tunnel!Conn, host : Tunnel!Host]
        BY <1>0 DEF Tunnel!TypeOK
      <4>2. p \in Https \X Agents
        BY <1>3
      <4> HIDE DEF p, v
      <4> QED
        BY <2>5, <2>6, <4>1, <4>2
    <3> QED
      BY <1>0, <1>1, <1>7, <2>3, <3>1 DEF Tunnel!TypeOK, HubStays
  <2>8. OriginInv'
    <3>1. ASSUME NEW y \in DOMAIN fetching', NEW g \in Tunnel!Host
          PROVE  /\ fetching'[y].on # 0
                 /\ served'[<<y[1], y[2], g>>] = IF g <= fetching'[y].host THEN 1 ELSE 0
      <4>1. CASE y = p
        <5>1. g <= 1 <=> g = 1
          BY DEF Tunnel!Host, TunnelBounds
        <5> QED
          BY <1>4, <2>3, <2>5, <4>1, <5>1
      <4>2. CASE y # p
        <5>1. /\ y \in DOMAIN fetching /\ y \in Https \X Agents /\ fetching'[y] = fetching[y]
              /\ y[1] # r \/ y[2] # x
          BY <1>0, <2>5, <4>2 DEF Tunnel!TypeOK
        <5>2. /\ fetching[y].on # 0
              /\ served[<<y[1], y[2], g>>] = IF g <= fetching[y].host THEN 1 ELSE 0
          BY <1>0, <5>1 DEF OriginInv
        <5>3. served'[<<y[1], y[2], g>>] = served[<<y[1], y[2], g>>]
          BY <2>1, <2>3, <5>1 DEF Unserved
        <5> QED
          BY <5>1, <5>2, <5>3
      <4> QED
        BY <4>1, <4>2
    <3>2. \E g : g \in Tunnel!Host
      BY <1>8
    <3> QED
      BY <1>0, <1>1, <3>1, <3>2 DEF OriginInv
  <2>9. HttpInv'
    <3>1. \A b \in Agents : ~Has(tunnelToAgent'[b], h) /\ Once(tunnelToAgent'[b], h)
      BY <1>2, <2>1 DEF Taken
    <3>2. \A a \in Agents : \A k : /\ Has(tunnelToAgent'[a], k) => Has(tunnelToAgent[a], k)
                                   /\ Once(tunnelToAgent[a], k) => Once(tunnelToAgent'[a], k)
      BY <1>2 DEF Taken
    <3>3. tunnelAt' = tunnelAt
      BY <1>1 DEF HubStays
    <3> SUFFICES ASSUME NEW q \in Https
                 PROVE  LET k == Tunnel!Message("http.request", q)
                        IN  /\ tunnelAt'[q] \in {"none", "asked", "trying"} =>
                                 Unserved(q)' /\ \A a \in Agents : ~Has(tunnelToAgent'[a], k)
                            /\ OneServer(q)'
                            /\ \A a \in Agents :
                                 /\ Once(tunnelToAgent'[a], k)
                                 /\ Has(tunnelToAgent'[a], k) =>
                                      /\ Unserved(q)'
                                      /\ \A b \in Agents \ {a} : ~Has(tunnelToAgent'[b], k)
      BY DEF HttpInv
    <3>4. CASE q = r
      <4>1. OneServer(r)'
        <5>1. \A a \in Agents, g \in Tunnel!Host :
                /\ served'[<<r, a, g>>] = 0 \/ (served'[<<r, a, g>>] = 1 /\ a = x)
                /\ served'[<<r, a, g>>] > 0 => a = x
          BY <2>3
        <5> QED
          BY <5>1 DEF OneServer
      <4> QED
        BY <1>2, <2>1, <3>1, <3>3, <3>4, <4>1
    <3>5. CASE q # r
      <4>1. /\ Unserved(q) => Unserved(q)'
            /\ OneServer(q) => OneServer(q)'
        BY <2>3, <3>5 DEF Unserved, OneServer
      <4> QED
        BY <1>0, <3>2, <3>3, <3>5, <4>1 DEF HttpInv
    <3> QED
      BY <3>4, <3>5
  <2> QED
    BY <2>7, <2>8, <2>9
<1>11. Tunnel!TypeOK' /\ OriginInv' /\ HttpInv'
  BY <1>1, <1>9, <1>10
<1>12. AttemptInv' /\ Tunnel!LocalIsRouted'
  <2>1. ASSUME NEW w \in Sockets, NEW a \in Agents
        PROVE  /\ StagesOf(w, a)' /\ AwaitedOf(w, a)'
               /\ <<w, a>> \in DOMAIN local' => LocalOf(w, a)'
    <3>1. h # Tunnel!Message("ws.close", w)
      BY <1>2, Kinds
    <3> QED
      BY <1>1, <1>2, <1>4, <1>5, <1>6, <3>1, OtherAttempt
  <2>2. DOMAIN local' \subseteq Tunnel!Attempt
    BY <1>1, TunnelTypes
  <2> QED
    BY <2>1, <2>2, AllAttempts
<1> QED
  BY <1>7, <1>11, <1>12 DEF TunnelInv

\* A call has failed, and the next host is called.
LEMMA NextHostKeeps ==
  ASSUME TunnelBounds, TunnelInv, NEW r \in Https, NEW x \in Agents, Tunnel!NextHost(r, x)
  PROVE  TunnelInv'
<1>0. Tunnel!TypeOK /\ OriginInv /\ HttpInv
  BY DEF TunnelInv
<1> DEFINE p == <<r, x>>
           h == fetching[p].host + 1
           v == [on |-> fetching[p].on, host |-> h]
<1>1. /\ HubStays /\ UNCHANGED <<tunnelToAgent, tunnelToHub, ports, opening, local>>
      /\ p \in DOMAIN fetching /\ h \in Tunnel!Host
      /\ fetching' = Tunnel!With(fetching, p, v)
      /\ served' = [served EXCEPT ![<<r, x, h>>] = served[<<r, x, h>>] + 1]
  BY DEF Tunnel!NextHost, Tunnel!Calls, HubStays, Tunnel!rowVars, Tunnel!connVars,
     Tunnel!askVars, Tunnel!hubVars
<1>2. /\ WireInv' /\ NetInv' /\ PairsInv' /\ HeardInv' /\ RouteInv'
      /\ tunnelToAgent' \in [Agents -> Seq(Tunnel!Msg)]
      /\ tunnelToHub' \in [Agents -> Seq(Tunnel!Reply)]
  BY <1>1, AgentFrame
<1>3. /\ served \in [Https \X Agents \X Tunnel!Host -> Nat]
      /\ fetching[p] \in [on : Tunnel!Conn, host : Tunnel!Host]
  BY <1>0, <1>1 DEF Tunnel!TypeOK
<1>4. /\ fetching[p].on # 0 /\ fetching[p].host \in Tunnel!Host
      /\ \A g \in Tunnel!Host :
           served[<<r, x, g>>] = IF g <= fetching[p].host THEN 1 ELSE 0
  BY <1>0, <1>1, <1>3 DEF OriginInv
<1>5. /\ DOMAIN fetching' = DOMAIN fetching /\ fetching'[p] = v
      /\ \A y \in DOMAIN fetching \ {p} : fetching'[y] = fetching[y]
  BY <1>1 DEF Tunnel!With
<1>6. v \in [on : Tunnel!Conn, host : Tunnel!Host]
  BY <1>1, <1>3
<1>7. /\ served' \in [Https \X Agents \X Tunnel!Host -> Nat]
      /\ \A g \in Tunnel!Host : served'[<<r, x, g>>] = IF g <= h THEN 1 ELSE 0
      /\ \A q \in Https, a \in Agents, g \in Tunnel!Host :
           q # r \/ a # x => served'[<<q, a, g>>] = served[<<q, a, g>>]
  <2>1. served[<<r, x, h>>] = 0
    BY <1>1, <1>4 DEF Tunnel!Host
  <2>2. served'[<<r, x, h>>] = 1
    BY <1>1, <1>3, <2>1
  <2>3. \A g \in Tunnel!Host \ {h} : served'[<<r, x, g>>] = served[<<r, x, g>>]
    BY <1>1, <1>3
  <2>4. \A g \in Tunnel!Host \ {h} : g <= h <=> g <= fetching[p].host
    BY <1>4 DEF Tunnel!Host
  <2>5. h <= h
    BY <1>1 DEF Tunnel!Host
  <2>6. \A g \in Tunnel!Host : served'[<<r, x, g>>] = IF g <= h THEN 1 ELSE 0
    BY <1>4, <2>2, <2>3, <2>4, <2>5
  <2> QED
    BY <1>1, <1>3, <2>6
<1>8. Tunnel!TypeOK'
  <2>1. /\ DOMAIN fetching' \subseteq Https \X Agents
        /\ \A y \in DOMAIN fetching' :
             fetching'[y] \in [on : Tunnel!Conn, host : Tunnel!Host]
    BY <1>0, <1>5, <1>6 DEF Tunnel!TypeOK
  <2> QED
    BY <1>0, <1>1, <1>2, <1>7, <2>1 DEF Tunnel!TypeOK, HubStays
<1>9. OriginInv'
  <2>1. ASSUME NEW y \in DOMAIN fetching'
        PROVE  /\ fetching'[y].on # 0
               /\ \A g \in Tunnel!Host :
                    served'[<<y[1], y[2], g>>] = IF g <= fetching'[y].host THEN 1 ELSE 0
    <3>1. CASE y = p
      BY <1>4, <1>5, <1>7, <3>1
    <3>2. CASE y # p
      <4>1. /\ y \in DOMAIN fetching /\ y \in Https \X Agents /\ fetching'[y] = fetching[y]
            /\ y[1] # r \/ y[2] # x
        BY <1>0, <1>5, <3>2 DEF Tunnel!TypeOK
      <4>2. /\ fetching[y].on # 0
            /\ \A g \in Tunnel!Host :
                 served[<<y[1], y[2], g>>] = IF g <= fetching[y].host THEN 1 ELSE 0
        BY <1>0, <4>1 DEF OriginInv
      <4>3. \A g \in Tunnel!Host : served'[<<y[1], y[2], g>>] = served[<<y[1], y[2], g>>]
        BY <1>7, <4>1
      <4> QED
        BY <4>1, <4>2, <4>3
    <3> QED
      BY <3>1, <3>2
  <2> QED
    BY <1>0, <1>1, <2>1 DEF OriginInv
<1>10. HttpInv'
  <2>1. ~Unserved(r) /\ OneServer(r)
    <3>1. served[<<r, x, fetching[p].host>>] = 1
      BY <1>4 DEF Tunnel!Host
    <3> QED
      BY <1>0, <1>4, <3>1 DEF Unserved, HttpInv
  <2>2. tunnelAt' = tunnelAt /\ tunnelToAgent' = tunnelToAgent
    BY <1>1 DEF HubStays
  <2>3. OneServer(r)'
    <3>1. \A a \in Agents, g \in Tunnel!Host : served[<<r, a, g>>] > 0 => a = x
      <4>1. served[<<r, x, fetching[p].host>>] > 0
        BY <1>4 DEF Tunnel!Host
      <4> QED
        BY <1>4, <2>1, <4>1 DEF OneServer
    <3>2. \A a \in Agents, g \in Tunnel!Host :
            /\ served'[<<r, a, g>>] <= 1
            /\ served'[<<r, a, g>>] > 0 => a = x
      BY <1>7, <2>1, <3>1 DEF OneServer
    <3> QED
      BY <3>2 DEF OneServer
  <2>4. \A q \in Https \ {r} : /\ Unserved(q) => Unserved(q)'
                               /\ OneServer(q) => OneServer(q)'
    BY <1>7 DEF Unserved, OneServer
  <2> QED
    BY <1>0, <2>1, <2>2, <2>3, <2>4 DEF HttpInv
<1>11. AttemptInv' /\ Tunnel!LocalIsRouted'
  <2>1. ASSUME NEW w \in Sockets, NEW a \in Agents
        PROVE  /\ StagesOf(w, a)' /\ AwaitedOf(w, a)'
               /\ <<w, a>> \in DOMAIN local' => LocalOf(w, a)'
    BY <1>1, OtherAttempt
  <2>2. DOMAIN local' \subseteq Tunnel!Attempt
    BY <1>1, TunnelTypes
  <2> QED
    BY <2>1, <2>2, AllAttempts
<1> QED
  BY <1>2, <1>8, <1>9, <1>10, <1>11 DEF TunnelInv

\* The application answers it.
LEMMA HttpAnsweredKeeps ==
  ASSUME TunnelBounds, TunnelInv, NEW r \in Https, NEW x \in Agents, Tunnel!HttpAnswered(r, x)
  PROVE  TunnelInv'
<1>0. Tunnel!TypeOK /\ OriginInv
  BY DEF TunnelInv
<1> DEFINE p == <<r, x>>
           n == fetching[p].on
           m == Tunnel!Message("http.response", r)
<1>1. /\ HubStays /\ UNCHANGED <<tunnelToAgent, ports, opening, local, served>>
      /\ p \in DOMAIN fetching /\ fetching' = Tunnel!Without(fetching, p)
      /\ Tunnel!Answer(x, n, m)
  BY DEF Tunnel!HttpAnswered, HubStays, Tunnel!rowVars, Tunnel!connVars, Tunnel!askVars,
     Tunnel!hubVars
<1>2. n # 0 /\ m \in Tunnel!Reply /\ m.type = "http.response"
  BY <1>0, <1>1, TunnelTypes, Kinds DEF OriginInv
<1>3. Answered(x, n, m)
  BY <1>1, <1>2, TunnelTypes, AnswerAnswers
<1>4. /\ DOMAIN fetching' \subseteq DOMAIN fetching
      /\ \A y \in DOMAIN fetching' : fetching'[y] = fetching[y]
  BY <1>1 DEF Tunnel!Without
<1> HIDE DEF n, m
<1>5. /\ WireInv' /\ NetInv' /\ PairsInv' /\ HeardInv' /\ RouteInv'
      /\ tunnelToAgent' \in [Agents -> Seq(Tunnel!Msg)]
      /\ tunnelToHub' \in [Agents -> Seq(Tunnel!Reply)]
  BY <1>1, <1>2, <1>3, AgentFrame
<1>6. Tunnel!TypeOK'
  BY <1>0, <1>1, <1>4, <1>5 DEF Tunnel!TypeOK, HubStays
<1>7. OriginInv'
  BY <1>0, <1>1, <1>4 DEF OriginInv
<1>8. HttpInv'
  BY <1>1, <1>2, <1>3, OtherRequests
<1>9. AttemptInv' /\ Tunnel!LocalIsRouted'
  <2>1. ASSUME NEW w \in Sockets, NEW a \in Agents
        PROVE  /\ StagesOf(w, a)' /\ AwaitedOf(w, a)'
               /\ <<w, a>> \in DOMAIN local' => LocalOf(w, a)'
    BY <1>1, <1>2, <1>3, OtherAttempt
  <2>2. DOMAIN local' \subseteq Tunnel!Attempt
    BY <1>1, TunnelTypes
  <2> QED
    BY <2>1, <2>2, AllAttempts
<1> QED
  BY <1>5, <1>6, <1>7, <1>8, <1>9 DEF TunnelInv

\* A websocket that is asked for is being opened, or has failed.
LEMMA WsOpenKeeps ==
  ASSUME TunnelBounds, TunnelInv, NEW x \in Agents, Tunnel!WsOpen(x)
  PROVE  TunnelInv'
<1>0. Tunnel!TypeOK /\ OriginInv /\ WireInv /\ NetInv
  BY DEF TunnelInv
<1>v. PICK v : v = Head(tunnelToAgent[x]).of
  OBVIOUS
<1> DEFINE h == Head(tunnelToAgent[x])
           m == Tunnel!Message("ws.failed", v)
<1>1. /\ HubStays /\ UNCHANGED <<ports, fetching, local, served>> /\ Tunnel!Takes(x, "ws.open")
      /\ \/ opening' = Tunnel!With(opening, <<v, x>>, agentConn[x]) /\ tunnelToHub' = tunnelToHub
         \/ Tunnel!Answer(x, agentConn[x], m) /\ opening' = opening
  BY <1>v DEF Tunnel!WsOpen, HubStays, Tunnel!rowVars, Tunnel!connVars, Tunnel!askVars,
     Tunnel!hubVars
<1>2. /\ Taken(x, h) /\ h.type = "ws.open" /\ h = Tunnel!Message("ws.open", v)
      /\ Has(tunnelToAgent[x], h) /\ h \in Tunnel!Msg /\ h.of = v
  BY <1>1, <1>v, TunnelTypes, TakesTaken DEF Taken
<1>3. v \in Sockets /\ v \in Tunnel!Requests
  BY <1>0, <1>2, TunnelTypes DEF WireInv
<1>4. agentConn[x] # 0
  BY <1>0, <1>2 DEF NetInv, Taken
<1>5. m \in Tunnel!Reply /\ m.type = "ws.failed" /\ m.of = v
  BY <1>3, Kinds
<1>6. tunnelToHub' = tunnelToHub \/ Answered(x, agentConn[x], m)
  BY <1>1, <1>5, TunnelTypes, AnswerAnswers
<1> HIDE DEF h, m
<1>7. /\ WireInv' /\ NetInv' /\ PairsInv' /\ HeardInv' /\ RouteInv'
      /\ tunnelToAgent' \in [Agents -> Seq(Tunnel!Msg)]
      /\ tunnelToHub' \in [Agents -> Seq(Tunnel!Reply)]
  BY <1>1, <1>2, <1>4, <1>6, AgentFrame
<1>8. PICK y : y = <<v, x>>
  OBVIOUS
<1>9. /\ \A z \in DOMAIN opening' : z = y \/ (z \in DOMAIN opening /\ opening'[z] = opening[z])
      /\ y \in DOMAIN opening' =>
           \/ tunnelToHub' = tunnelToHub /\ opening'[y] = agentConn[x]
           \/ y \in DOMAIN opening /\ opening'[y] = opening[y]
      /\ opening' = opening => Answered(x, agentConn[x], m) \/ y \in DOMAIN opening'
  <2>1. CASE opening' = opening /\ Tunnel!Answer(x, agentConn[x], m)
    BY <1>5, <2>1, TunnelTypes, AnswerAnswers
  <2>2. CASE /\ opening' = Tunnel!With(opening, <<v, x>>, agentConn[x])
             /\ tunnelToHub' = tunnelToHub
    <3>1. opening' = Tunnel!With(opening, y, agentConn[x])
      BY <1>8, <2>2
    <3>2. /\ DOMAIN opening' = DOMAIN opening \union {y} /\ opening'[y] = agentConn[x]
          /\ \A z \in DOMAIN opening \ {y} : opening'[z] = opening[z]
      BY <3>1 DEF Tunnel!With
    <3> QED
      BY <2>2, <3>2
  <2> QED
    BY <1>1, <2>1, <2>2
<1>10. y \in Tunnel!Attempt
  BY <1>3, <1>8 DEF Tunnel!Attempt
<1>11. Tunnel!TypeOK'
  <2>1. DOMAIN opening' \subseteq Tunnel!Attempt
    BY <1>9, <1>10, TunnelTypes
  <2> QED
    BY <1>0, <1>1, <1>7, <2>1 DEF Tunnel!TypeOK, HubStays
<1>12. OriginInv'
  <2>1. \A z \in DOMAIN opening' : opening'[z] # 0
    BY <1>0, <1>4, <1>9 DEF OriginInv
  <2> QED
    BY <1>0, <1>1, <2>1 DEF OriginInv
<1>13. HttpInv'
  BY <1>1, <1>2, <1>4, <1>6, OtherRequests
<1>14. Asked(v, x) /\ StagesOf(v, x) /\ AwaitedOf(v, x)
  BY <1>2, <1>3, TunnelTypes DEF Asked
<1>15. /\ <<v, x>> \notin DOMAIN opening /\ <<v, x>> \notin DOMAIN local
       /\ ~Opened(v, x) /\ ~Ended(v, x) /\ ~Untried(v, x)
       /\ Once(tunnelToAgent[x], Tunnel!Message("ws.open", v))
       /\ <<v, x>> \in pendingOpen \union lapsed
  BY <1>14 DEF StagesOf, AwaitedOf
<1>16. ~Asked(v, x)' /\ Once(tunnelToAgent'[x], Tunnel!Message("ws.open", v))
  BY <1>2, <1>15 DEF Taken, Asked
<1>17. ~Opened(v, x)' /\ ~Untried(v, x)'
  <2>1. ~Opened(v, x)'
    <3>1. m # Tunnel!Message("ws.opened", v)
      BY <1>5, Kinds
    <3> QED
      BY <1>6, <1>15, <3>1 DEF Opened, Answered
  <2>2. ~Untried(v, x)'
    BY <1>1, <1>3, <1>15, <1>7, AgentFrame DEF Untried, HubStays
  <2> QED
    BY <2>1, <2>2
<1>18. <<v, x>> \in DOMAIN opening' =>
         tunnelToHub' = tunnelToHub /\ opening'[<<v, x>>] = agentConn[x]
  BY <1>8, <1>9, <1>15
<1>19. AttemptInv' /\ Tunnel!LocalIsRouted'
  <2>1. ASSUME NEW w \in Sockets, NEW a \in Agents
        PROVE  /\ StagesOf(w, a)' /\ AwaitedOf(w, a)'
               /\ <<w, a>> \in DOMAIN local' => LocalOf(w, a)'
    <3>1. CASE <<w, a>> = <<v, x>>
      <4>0. w = v /\ a = x
        BY <3>1
      <4>1. <<v, x>> \in DOMAIN opening' => ~Ended(v, x)'
        BY <1>15, <1>18 DEF Ended
      <4>2. StagesOf(v, x)'
        BY <1>1, <1>15, <1>16, <1>17, <4>1 DEF StagesOf
      <4>3. AwaitedOf(v, x)'
        <5>1. pendingOpen' = pendingOpen /\ lapsed' = lapsed /\ agentConn' = agentConn
          BY <1>1 DEF HubStays
        <5> QED
          BY <1>15, <1>16, <1>18, <5>1 DEF AwaitedOf
      <4>4. <<v, x>> \notin DOMAIN local'
        BY <1>1, <1>15
      <4> QED
        BY <4>0, <4>2, <4>3, <4>4
    <3>2. CASE <<w, a>> # <<v, x>>
      <4>1. h # Tunnel!Message("ws.close", w)
        BY <1>2, Kinds
      <4>2. /\ <<w, a>> \in DOMAIN opening' =>
                 <<w, a>> \in DOMAIN opening /\ opening'[<<w, a>>] = opening[<<w, a>>]
            /\ w = v => a # x
        BY <1>8, <1>9, <3>2
      <4>3. tunnelToHub' = tunnelToHub \/ \E n, k : /\ n # 0 /\ Answered(x, n, k)
                                                    /\ k.of = w /\ k.type # "http.response" =>
                                                         a # x
        BY <1>4, <1>5, <1>6, <4>2
      <4> QED
        BY <1>1, <1>2, <4>1, <4>2, <4>3, OtherAttempt
    <3> QED
      BY <3>1, <3>2
  <2>2. DOMAIN local' \subseteq Tunnel!Attempt
    BY <1>1, TunnelTypes
  <2> QED
    BY <2>1, <2>2, AllAttempts
<1> QED
  BY <1>7, <1>11, <1>12, <1>13, <1>19 DEF TunnelInv

\* One that is being opened is open, or has failed.
LEMMA WsOpenEndsKeeps ==
  ASSUME TunnelBounds, TunnelInv, NEW v \in Sockets, NEW x \in Agents, NEW ok \in BOOLEAN,
         Tunnel!WsOpenEnds(v, x, ok)
  PROVE  TunnelInv'
<1>0. Tunnel!TypeOK /\ OriginInv
  BY DEF TunnelInv
<1> DEFINE t == IF ok THEN "ws.opened" ELSE "ws.failed"
           m == Tunnel!Message(t, v)
<1>y. PICK y : y = <<v, x>>
  OBVIOUS
<1>n. PICK n : n = opening[y]
  OBVIOUS
<1>1. /\ HubStays /\ UNCHANGED <<tunnelToAgent, ports, fetching, served>>
      /\ y \in DOMAIN opening /\ opening' = Tunnel!Without(opening, y)
      /\ local' = IF ok THEN Tunnel!With(local, y, n) ELSE local
      /\ Tunnel!Answer(x, n, m)
  BY <1>y, <1>n DEF Tunnel!WsOpenEnds, HubStays, Tunnel!rowVars, Tunnel!connVars,
     Tunnel!askVars, Tunnel!hubVars
<1>2. n # 0
  BY <1>0, <1>1, <1>n DEF OriginInv
<1>3. m \in Tunnel!Reply /\ m.type = t /\ m.of = v
  BY TunnelTypes, Kinds
<1>4. Answered(x, n, m)
  BY <1>1, <1>3, TunnelTypes, AnswerAnswers
<1>5. /\ WireInv' /\ NetInv' /\ PairsInv' /\ HeardInv' /\ RouteInv'
      /\ tunnelToAgent' \in [Agents -> Seq(Tunnel!Msg)]
      /\ tunnelToHub' \in [Agents -> Seq(Tunnel!Reply)]
      /\ Untried(v, x)' <=> Untried(v, x)
  BY <1>1, <1>2, <1>4, AgentFrame
<1>6. y \in Tunnel!Attempt
  BY <1>y DEF Tunnel!Attempt
<1>7. /\ DOMAIN opening' = DOMAIN opening \ {y}
      /\ \A z \in DOMAIN opening' : opening'[z] = opening[z]
  BY <1>1 DEF Tunnel!Without
<1>8. /\ DOMAIN local' \subseteq DOMAIN local \union {y}
      /\ ~ok => local' = local
      /\ \A z \in DOMAIN local' : local'[z] = n \/ (z \in DOMAIN local /\ local'[z] = local[z])
  <2>1. CASE ok
    <3>1. local' = Tunnel!With(local, y, n)
      BY <1>1, <2>1
    <3>2. /\ DOMAIN local' = DOMAIN local \union {y} /\ local'[y] = n
          /\ \A z \in DOMAIN local \ {y} : local'[z] = local[z]
      BY <3>1 DEF Tunnel!With
    <3> QED
      BY <2>1, <3>2
  <2>2. CASE ~ok
    BY <1>1, <2>2
  <2> QED
    BY <2>1, <2>2
<1>9. Tunnel!TypeOK'
  <2>1. DOMAIN opening' \subseteq Tunnel!Attempt /\ DOMAIN local' \subseteq Tunnel!Attempt
    BY <1>6, <1>7, <1>8, TunnelTypes
  <2> QED
    BY <1>0, <1>1, <1>5, <2>1 DEF Tunnel!TypeOK, HubStays
<1>10. OriginInv'
  <2>1. /\ \A z \in DOMAIN opening' : opening'[z] # 0
        /\ \A z \in DOMAIN local' : local'[z] # 0
    BY <1>0, <1>2, <1>7, <1>8 DEF OriginInv
  <2> QED
    BY <1>0, <1>1, <2>1 DEF OriginInv
<1>11. HttpInv'
  BY <1>1, <1>2, <1>4, OtherRequests
<1>12. StagesOf(v, x) /\ AwaitedOf(v, x)
  BY TunnelTypes
<1>13. /\ y \notin DOMAIN local /\ ~Asked(v, x) /\ ~Opened(v, x) /\ ~Ended(v, x)
       /\ ~Untried(v, x) /\ Once(tunnelToAgent[x], Tunnel!Message("ws.open", v))
       /\ y \in lapsed \/ (y \in pendingOpen /\ n = agentConn[x])
  BY <1>1, <1>12, <1>y, <1>n DEF StagesOf, AwaitedOf
<1>14. /\ ~Asked(v, x)' /\ ~Untried(v, x)'
       /\ Once(tunnelToAgent'[x], Tunnel!Message("ws.open", v))
       /\ y \notin DOMAIN opening'
  <2>1. ~Asked(v, x)'
    BY <1>1, <1>13 DEF Asked
  <2>2. ~Untried(v, x)'
    BY <1>5, <1>13
  <2> QED
    BY <1>1, <1>7, <1>13, <2>1, <2>2
<1>15. y \in DOMAIN local' => ok /\ ~Ended(v, x)'
  <2>1. ok => m # Tunnel!Message("ws.failed", v) /\ m # Tunnel!Message("ws.closed", v)
    BY <1>3, Kinds
  <2>2. ok => ~Ended(v, x)'
    BY <1>4, <1>13, <2>1 DEF Ended, Answered
  <2>3. y \in DOMAIN local' => ok
    BY <1>8, <1>13
  <2> QED
    BY <2>2, <2>3
<1>16. StagesOf(v, x)'
  BY <1>14, <1>15, <1>y DEF StagesOf
<1>17. AwaitedOf(v, x)'
  BY <1>14, <1>y DEF AwaitedOf
<1>18. y \in DOMAIN local' => LocalOf(v, x)'
  <2>1. ASSUME y \in DOMAIN local', y \in pendingOpen, n = agentConn[x] PROVE Opened(v, x)'
    <3>1. m = Tunnel!Message("ws.opened", v)
      BY <1>15, <2>1
    <3> QED
      BY <1>4, <2>1, <3>1 DEF Opened, Answered
  <2>2. pendingOpen' = pendingOpen /\ lapsed' = lapsed
    BY <1>1 DEF HubStays
  <2> QED
    BY <1>13, <1>y, <2>1, <2>2 DEF LocalOf
<1>19. AttemptInv' /\ Tunnel!LocalIsRouted'
  <2>1. ASSUME NEW w \in Sockets, NEW a \in Agents
        PROVE  /\ StagesOf(w, a)' /\ AwaitedOf(w, a)'
               /\ <<w, a>> \in DOMAIN local' => LocalOf(w, a)'
    <3>1. CASE <<w, a>> = y
      <4>1. w = v /\ a = x
        BY <1>y, <3>1
      <4> QED
        BY <1>16, <1>17, <1>18, <3>1, <4>1
    <3>2. CASE <<w, a>> # y
      <4>1. w = v => a # x
        BY <1>y, <3>2
      <4>2. /\ <<w, a>> \in DOMAIN opening' =>
                 <<w, a>> \in DOMAIN opening /\ opening'[<<w, a>>] = opening[<<w, a>>]
            /\ <<w, a>> \in DOMAIN local' => <<w, a>> \in DOMAIN local
        BY <1>7, <1>8, <3>2
      <4>3. \E k, q : /\ k # 0 /\ Answered(x, k, q)
                      /\ q.of = w /\ q.type # "http.response" => a # x
        BY <1>2, <1>3, <1>4, <4>1
      <4> QED
        BY <1>1, <4>2, <4>3, OtherAttempt
    <3> QED
      BY <3>1, <3>2
  <2>2. DOMAIN local' \subseteq Tunnel!Attempt
    BY <1>6, <1>8, TunnelTypes
  <2> QED
    BY <2>1, <2>2, AllAttempts
<1> QED
  BY <1>5, <1>9, <1>10, <1>11, <1>19 DEF TunnelInv

\* What is open closes, and the hub is told.
LEMMA ClosesKeeps ==
  ASSUME TunnelBounds, TunnelInv, NEW v \in Sockets, NEW x \in Agents, HubStays,
         UNCHANGED <<ports, fetching, opening, served>>,
         <<v, x>> \in DOMAIN local, local' = Tunnel!Without(local, <<v, x>>),
         Tunnel!Answer(x, local[<<v, x>>], Tunnel!Message("ws.closed", v)),
         tunnelToAgent' = tunnelToAgent \/ Taken(x, Tunnel!Message("ws.close", v))
  PROVE  TunnelInv'
<1>0. Tunnel!TypeOK /\ OriginInv
  BY DEF TunnelInv
<1> DEFINE m == Tunnel!Message("ws.closed", v)
<1>y. PICK y : y = <<v, x>>
  OBVIOUS
<1>n. PICK n : n = local[y]
  OBVIOUS
<1>1. y \in DOMAIN local /\ local' = Tunnel!Without(local, y) /\ Tunnel!Answer(x, n, m)
  BY <1>y, <1>n
<1>2. n # 0
  BY <1>0, <1>1, <1>n DEF OriginInv
<1>3. m \in Tunnel!Reply /\ m.type = "ws.closed" /\ m.of = v
  BY TunnelTypes, Kinds
<1>4. Answered(x, n, m)
  BY <1>1, <1>3, TunnelTypes, AnswerAnswers
<1>5. /\ WireInv' /\ NetInv' /\ PairsInv' /\ HeardInv' /\ RouteInv'
      /\ tunnelToAgent' \in [Agents -> Seq(Tunnel!Msg)]
      /\ tunnelToHub' \in [Agents -> Seq(Tunnel!Reply)]
      /\ Untried(v, x)' <=> Untried(v, x)
      /\ Has(tunnelToAgent'[x], Tunnel!Message("ws.open", v)) =>
           Has(tunnelToAgent[x], Tunnel!Message("ws.open", v))
      /\ Once(tunnelToAgent[x], Tunnel!Message("ws.open", v)) =>
           Once(tunnelToAgent'[x], Tunnel!Message("ws.open", v))
  BY <1>2, <1>4, AgentFrame
<1>6. /\ DOMAIN local' = DOMAIN local \ {y}
      /\ \A z \in DOMAIN local' : local'[z] = local[z]
  BY <1>1 DEF Tunnel!Without
<1>7. Tunnel!TypeOK'
  <2>1. DOMAIN local' \subseteq Tunnel!Attempt
    BY <1>6, TunnelTypes
  <2> QED
    BY <1>0, <1>5, <2>1 DEF Tunnel!TypeOK, HubStays
<1>8. OriginInv'
  BY <1>0, <1>6 DEF OriginInv
<1>9. HttpInv'
  <2>1. tunnelToAgent' = tunnelToAgent \/ \E h : Taken(x, h)
    OBVIOUS
  <2>2. tunnelToHub' = tunnelToHub \/ \E k, q : k # 0 /\ Answered(x, k, q)
    BY <1>2, <1>4
  <2> QED
    BY <2>1, <2>2, OtherRequests
<1>10. StagesOf(v, x)
  BY TunnelTypes
<1>11. /\ ~Asked(v, x) /\ y \notin DOMAIN opening /\ ~Untried(v, x)
       /\ Once(tunnelToAgent[x], Tunnel!Message("ws.open", v))
  BY <1>1, <1>10, <1>y DEF StagesOf
<1>12. ~Asked(v, x)' /\ ~Untried(v, x)' /\ y \notin DOMAIN opening' /\ y \notin DOMAIN local'
  <2>1. ~Asked(v, x)'
    BY <1>5, <1>11 DEF Asked
  <2>2. ~Untried(v, x)'
    BY <1>5, <1>11
  <2> QED
    BY <1>6, <1>11, <2>1, <2>2
<1>13. StagesOf(v, x)'
  BY <1>5, <1>11, <1>12, <1>y DEF StagesOf
<1>14. AwaitedOf(v, x)'
  BY <1>12, <1>y DEF AwaitedOf
<1>15. AttemptInv' /\ Tunnel!LocalIsRouted'
  <2>1. ASSUME NEW w \in Sockets, NEW a \in Agents
        PROVE  /\ StagesOf(w, a)' /\ AwaitedOf(w, a)'
               /\ <<w, a>> \in DOMAIN local' => LocalOf(w, a)'
    <3>1. CASE <<w, a>> = y
      <4>1. w = v /\ a = x
        BY <1>y, <3>1
      <4> QED
        BY <1>12, <1>13, <1>14, <3>1, <4>1
    <3>2. CASE <<w, a>> # y
      <4>1. w = v => a # x
        BY <1>y, <3>2
      <4>2. <<w, a>> \in DOMAIN local' => <<w, a>> \in DOMAIN local
        BY <1>6
      <4>3. \E k, q : /\ k # 0 /\ Answered(x, k, q)
                      /\ q.of = w /\ q.type # "http.response" => a # x
        BY <1>2, <1>3, <1>4, <4>1
      <4>4. Tunnel!Message("ws.close", v) = Tunnel!Message("ws.close", w) => a # x
        BY <4>1, Kinds
      <4>5. tunnelToAgent' = tunnelToAgent \/ \E h : Taken(x, h) /\ (h = Tunnel!Message("ws.close", w) => a # x)
        BY <4>4
      <4> QED
        BY <4>2, <4>3, <4>5, OtherAttempt
    <3> QED
      BY <3>1, <3>2
  <2>2. DOMAIN local' \subseteq Tunnel!Attempt
    BY <1>6, TunnelTypes
  <2> QED
    BY <2>1, <2>2, AllAttempts
<1> QED
  BY <1>5, <1>7, <1>8, <1>9, <1>15 DEF TunnelInv

\* The application closes it, or the hub asks for it.
LEMMA LocalClosesKeeps ==
  ASSUME TunnelBounds, TunnelInv, NEW v \in Sockets, NEW x \in Agents, Tunnel!LocalCloses(v, x)
  PROVE  TunnelInv'
<1>1. /\ HubStays /\ UNCHANGED <<ports, fetching, opening,
                                  served>> /\ tunnelToAgent' = tunnelToAgent
      /\ <<v, x>> \in DOMAIN local /\ local' = Tunnel!Without(local, <<v, x>>)
      /\ Tunnel!Answer(x, local[<<v, x>>], Tunnel!Message("ws.closed", v))
  BY DEF Tunnel!LocalCloses, HubStays, Tunnel!rowVars, Tunnel!connVars, Tunnel!askVars,
     Tunnel!hubVars
<1> QED
  BY <1>1, ClosesKeeps

\* tunnel.ws.close of a websocket that is not open is ignored.
LEMMA WsCloseKeeps ==
  ASSUME TunnelBounds, TunnelInv, NEW x \in Agents, Tunnel!WsClose(x)
  PROVE  TunnelInv'
<1>0. Tunnel!TypeOK /\ OriginInv /\ WireInv
  BY DEF TunnelInv
<1>v. PICK v : v = Head(tunnelToAgent[x]).of
  OBVIOUS
<1> DEFINE h == Head(tunnelToAgent[x])
<1>1. /\ HubStays /\ UNCHANGED <<ports, fetching, opening, served>> /\ Tunnel!Takes(x,
                                  "ws.close")
      /\ \/ /\ <<v, x>> \in DOMAIN local /\ local' = Tunnel!Without(local, <<v, x>>)
            /\ Tunnel!Answer(x, local[<<v, x>>], Tunnel!Message("ws.closed", v))
         \/ <<v, x>> \notin DOMAIN local /\ UNCHANGED <<local, tunnelToHub>>
  <2>1. <<v, x>>[1] = v
    OBVIOUS
  <2> QED
    BY <1>v, <2>1 DEF Tunnel!WsClose, HubStays, Tunnel!rowVars, Tunnel!connVars,
       Tunnel!askVars, Tunnel!hubVars
<1>2. /\ Taken(x, h) /\ h.type = "ws.close" /\ h = Tunnel!Message("ws.close", v)
      /\ Has(tunnelToAgent[x], h) /\ h \in Tunnel!Msg /\ h.of = v
  BY <1>1, <1>v, TunnelTypes, TakesTaken DEF Taken
<1> HIDE DEF h
<1>3. v \in Sockets
  BY <1>0, <1>2 DEF WireInv
<1>4. CASE <<v, x>> \in DOMAIN local
  BY <1>1, <1>2, <1>3, <1>4, ClosesKeeps
<1>5. CASE <<v, x>> \notin DOMAIN local
  <2>0. UNCHANGED <<local, tunnelToHub>>
    BY <1>1, <1>5
  <2>1. /\ WireInv' /\ NetInv' /\ PairsInv' /\ HeardInv' /\ RouteInv'
        /\ tunnelToAgent' \in [Agents -> Seq(Tunnel!Msg)]
    BY <1>1, <1>2, <2>0, AgentFrame
  <2>2. Tunnel!TypeOK'
    BY <1>0, <1>1, <2>0, <2>1 DEF Tunnel!TypeOK, HubStays
  <2>3. OriginInv'
    BY <1>0, <1>1, <2>0 DEF OriginInv
  <2>4. HttpInv'
    BY <1>1, <1>2, <2>0, OtherRequests
  <2>5. ASSUME NEW w \in Sockets, NEW a \in Agents
        PROVE  /\ StagesOf(w, a)' /\ AwaitedOf(w, a)'
               /\ <<w, a>> \in DOMAIN local' => LocalOf(w, a)'
    <3>1. CASE w # v \/ a # x
      <4>1. h = Tunnel!Message("ws.close", w) => a # x
        BY <1>2, <3>1, Kinds
      <4> QED
        BY <1>1, <1>2, <2>0, <4>1, OtherAttempt
    <3>2. CASE w = v /\ a = x
      <4>1. StagesOf(v, x) /\ AwaitedOf(v, x) /\ StagesOf(w, a) /\ AwaitedOf(w, a)
        BY <1>3, TunnelTypes
      <4>2. UNCHANGED <<agentConn, pendingOpen, lapsed, opening, local, tunnelToHub>>
        BY <1>1, <2>0 DEF HubStays
      <4>3. /\ Asked(w, a)' => Asked(w, a)
            /\ Once(tunnelToAgent[a], Tunnel!Message("ws.open", w)) =>
                 Once(tunnelToAgent'[a], Tunnel!Message("ws.open", w))
            /\ Opened(w, a)' => Opened(w, a)
            /\ Ended(w, a)' => Ended(w, a)
            /\ Untried(w, a)' => Untried(w, a)
        BY <1>1, <1>2, <2>0, AgentFrame DEF Asked, Opened, Ended
      <4>4. StagesOf(w, a)'
        BY <4>1, <4>2, <4>3, StagesFrame
      <4>5. AwaitedOf(w, a)'
        BY <4>1, <4>2, <4>3, AwaitedFrame
      <4> QED
        BY <1>5, <3>2, <4>2, <4>4, <4>5
    <3> QED
      BY <3>1, <3>2
  <2>6. AttemptInv' /\ Tunnel!LocalIsRouted'
    <3>1. DOMAIN local' \subseteq Tunnel!Attempt
      BY <2>0, TunnelTypes
    <3> QED
      BY <2>5, <3>1, AllAttempts
  <2> QED
    BY <2>1, <2>2, <2>3, <2>4, <2>6 DEF TunnelInv
<1> QED
  BY <1>4, <1>5

-----------------------------------------------------------------------------
(* The specification.                                                       *)

\* Nothing is open, sent or asked for at first.
LEMMA InitTunnel ==
  ASSUME TunnelBounds, Tunnel!Init PROVE TunnelInv
<1>1. /\ tunnel = "none" /\ rowAgent = Owner /\ conns = 0
      /\ conn = [a \in Agents |-> 0] /\ agentConn = [a \in Agents |-> 0]
      /\ bound = [a \in Agents |-> {}] /\ closing = [a \in Agents |-> {}]
      /\ tunnelToAgent = [a \in Agents |-> <<>>] /\ tunnelToHub = [a \in Agents |-> <<>>]
      /\ tunnelAt = [r \in Tunnel!Requests |-> "none"]
      /\ candidates = [r \in Tunnel!Requests |-> {}]
      /\ gone = {} /\ heard = {} /\ pendingProxy = {} /\ pendingOpen = {} /\ routes = {}
      /\ ports = {} /\ lapsed = {}
      /\ served = [call \in Https \X Agents \X Tunnel!Host |-> 0]
  BY DEF Tunnel!Init
<1>2. DOMAIN fetching = {} /\ DOMAIN opening = {} /\ DOMAIN local = {}
  BY DEF Tunnel!Init
<1>3. 0 \in Tunnel!Conn /\ <<>> \in Seq(Tunnel!Msg) /\ <<>> \in Seq(Tunnel!Reply)
  <2>1. MaxConns \in Nat
    BY DEF TunnelBounds
  <2> QED
    BY <2>1 DEF Tunnel!Conn
<1>4. \A a \in Agents : \A k : /\ ~Has(tunnelToAgent[a], k) /\ Once(tunnelToAgent[a], k)
                               /\ ~Has(tunnelToHub[a], k)
  BY <1>1, EmptyHas
<1>5. Tunnel!TypeOK
  BY <1>1, <1>2, <1>3 DEF Tunnel!TypeOK, TunnelBounds
<1>6. WireInv
  BY <1>4 DEF WireInv
<1>7. OriginInv
  BY <1>2 DEF OriginInv
<1>8. NetInv
  BY <1>1 DEF NetInv
<1>9. HttpInv
  BY <1>1, <1>4 DEF HttpInv, Unserved, OneServer
<1>10. PairsInv /\ HeardInv /\ RouteInv
  BY <1>1 DEF PairsInv, HeardInv, RouteInv
<1>11. AttemptInv
  BY <1>2, <1>4 DEF AttemptInv, StagesOf, AwaitedOf, Asked, Opened, Ended
<1>12. Tunnel!LocalIsRouted
  BY <1>2 DEF Tunnel!LocalIsRouted
<1> QED
  BY <1>5, <1>6, <1>7, <1>8, <1>9, <1>10, <1>11, <1>12 DEF TunnelInv

\* Every answer keeps the invariant.
LEMMA ReplyKeeps ==
  ASSUME TunnelBounds, TunnelInv, NEW x \in Agents, Tunnel!ReceiveReply(x)
  PROVE  TunnelInv'
<1>1. PICK h \in Tunnel!Reply :
        /\ Received(x, h) /\ AgentsStay
        /\ \/ /\ UNCHANGED <<pendingProxy, pendingOpen, routes, tunnelAt, rowAgent>>
              /\ lapsed' = lapsed \union ({<<h.of, x>>} \intersect Tunnel!Attempt)
           \/ h.type = "http.response" /\ Tunnel!HttpResponse(h.of, x) /\ lapsed' = lapsed
           \/ h.type = "ws.opened" /\ Tunnel!WsOpened(h.of, x) /\ lapsed' = lapsed
           \/ /\ h.type \in {"ws.failed", "ws.closed"} /\ Tunnel!WsEnded(h.of, x)
              /\ lapsed' = lapsed
  BY ReplyRead
<1> QED
  BY <1>1, LostKeeps, ResponseKeeps, OpenedKeeps, EndedKeeps

\* Every step of the hub keeps it,
LEMMA HubKeepsTunnel ==
  ASSUME TunnelBounds, TunnelInv, Tunnel!HubStep PROVE TunnelInv'
<1>1. ASSUME NEW a \in Agents, NEW n \in 1 .. MaxConns, Tunnel!SeesClose(a, n) PROVE TunnelInv'
  BY <1>1, SeenCloseKeeps
<1>2. ASSUME NEW a \in Agents, Tunnel!HandlersAttached(a) PROVE TunnelInv'
  BY <1>2, AskKeeps
<1>3. ASSUME NEW a \in Agents, Tunnel!ReceiveReply(a) PROVE TunnelInv'
  BY <1>3, ReplyKeeps
<1>4. ASSUME NEW r \in Tunnel!Requests, Tunnel!GiveUp(r) \/ Tunnel!ConnectionIdKnown(r) PROVE TunnelInv'
  BY <1>4, AskKeeps
<1>5. ASSUME NEW r \in Tunnel!Requests, NEW a \in Agents, Tunnel!Try(r, a) PROVE TunnelInv'
  BY <1>5, PassKeeps, TryKeeps
<1> QED
  BY <1>1, <1>2, <1>3, <1>4, <1>5 DEF Tunnel!HubStep

\* every step of an agent,
LEMMA AgentKeepsTunnel ==
  ASSUME TunnelBounds, TunnelInv, NEW a \in Agents, Tunnel!AgentStep(a) PROVE TunnelInv'
<1>1. CASE Tunnel!OpenTunnel(a)
  BY <1>1, WordKeepsTunnel
<1>2. CASE Tunnel!HttpRequest(a)
  BY <1>2, HttpRequestKeeps
<1>3. CASE Tunnel!WsOpen(a)
  BY <1>3, WsOpenKeeps
<1>4. CASE Tunnel!WsClose(a)
  BY <1>4, WsCloseKeeps
<1>5. ASSUME NEW r \in Https, Tunnel!HttpAnswered(r, a) PROVE TunnelInv'
  BY <1>5, HttpAnsweredKeeps
<1>6. ASSUME NEW r \in Https, Tunnel!NextHost(r, a) PROVE TunnelInv'
  BY <1>6, NextHostKeeps
<1>7. ASSUME NEW w \in Sockets, NEW ok \in BOOLEAN, Tunnel!WsOpenEnds(w, a, ok) PROVE TunnelInv'
  BY <1>7, WsOpenEndsKeeps
<1> QED
  BY <1>1, <1>2, <1>3, <1>4, <1>5, <1>6, <1>7 DEF Tunnel!AgentStep

\* and every other step.
LEMMA NextKeepsTunnel ==
  ASSUME TunnelBounds, TunnelInv, [Tunnel!Next]_(Tunnel!tunnelVars) PROVE TunnelInv'
<1>1. CASE Tunnel!HubStep
  BY <1>1, HubKeepsTunnel
<1>2. CASE Tunnel!CreateTunnel
  BY <1>2, CreateKeeps
<1>3. CASE Tunnel!CloseTunnel
  BY <1>3, AskKeeps
<1>4. ASSUME NEW r \in Tunnel!Requests,
             \/ Tunnel!GatewayProxy(r) \/ Tunnel!GatewayUpgrade(r) \/ Tunnel!GatewayFails(r) \/ Tunnel!ClientCloses(r)
             \/ Tunnel!Proxy(r) \/ Tunnel!Upgrade(r)
      PROVE  TunnelInv'
  BY <1>4, AskKeeps
<1>5. ASSUME NEW r \in Tunnel!Requests, Tunnel!UpstreamCloses(r) PROVE TunnelInv'
  BY <1>5, UpstreamKeeps
<1>6. ASSUME NEW r \in Tunnel!Requests, NEW a \in Agents, Tunnel!Timeout(r, a) PROVE TunnelInv'
  BY <1>6, TimeoutKeeps
<1>7. ASSUME NEW a \in Agents, Tunnel!Connect(a) PROVE TunnelInv'
  BY <1>7, ConnectKeeps
<1>8. ASSUME NEW a \in Agents, Tunnel!AgentStep(a) PROVE TunnelInv'
  BY <1>8, AgentKeepsTunnel
<1>9. ASSUME NEW a \in Agents, Tunnel!ConnectionDrops(a) \/ Tunnel!AgentStops(a) PROVE TunnelInv'
  BY <1>9, DropKeeps
<1>10. ASSUME NEW a \in Agents, NEW w \in Sockets, Tunnel!LocalCloses(w, a) PROVE TunnelInv'
  BY <1>10, LocalClosesKeeps
<1>11. CASE UNCHANGED Tunnel!tunnelVars
  <2>1. UNCHANGED <<tunnel, bound, tunnelAt, candidates, gone>> /\ Stays
    BY <1>11 DEF Tunnel!tunnelVars, Tunnel!rowVars, Tunnel!connVars, Tunnel!wireVars,
       Tunnel!askVars, Tunnel!hubVars, Tunnel!agentVars, Stays
  <2>2. Tunnel!TypeOK'
    <3>1. Tunnel!TypeOK
      BY DEF TunnelInv
    <3> QED
      BY <2>1, <3>1 DEF Tunnel!TypeOK, Stays
  <2> QED
    BY <2>1, <2>2, MovesKeep DEF Moves
<1> QED
  BY <1>1, <1>2, <1>3, <1>4, <1>5, <1>6, <1>7, <1>8, <1>9, <1>10, <1>11 DEF Tunnel!Next

\* A request is served by one agent because it is sent to one, once.
LEMMA SentOnce == TunnelInv => Tunnel!ServedByOneAgent
  BY DEF TunnelInv, HttpInv, OneServer, Tunnel!ServedByOneAgent

\* The invariant of a tunnel (proxyTunnelThroughAvailableAgent, closeTunnelWs, bindAgentSocket).
THEOREM TunnelInvariant == TunnelBounds => (Tunnel!Spec => []TunnelInv)
<1> SUFFICES ASSUME TunnelBounds PROVE Tunnel!Spec => []TunnelInv
  OBVIOUS
<1>1. Tunnel!Init => TunnelInv
  BY InitTunnel
<1>2. TunnelInv /\ [Tunnel!Next]_(Tunnel!tunnelVars) => TunnelInv'
  BY NextKeepsTunnel
<1> QED
  BY <1>1, <1>2, PTL DEF Tunnel!Spec

-----------------------------------------------------------------------------
(* The properties of the runs.                                             *)

\* The codex client of the computer behaves as CodexClient says.
LEMMA CodexBehaves == Spec => Codex!Spec
<1>1. Init => Codex!Init
  BY DEF Init
<1>2. [Next]_vars => [Codex!Next]_(Codex!clientVars)
  BY DEF Next, Rest, vars, clientVars, Codex!clientVars, Codex!backoffVars, Codex!callVars
<1> QED
  BY <1>1, <1>2, PTL DEF Spec, Codex!Spec

\* Its daemon and the commands behave as AgentDaemon says.
LEMMA DaemonBehaves == Spec => Daemon!Spec
<1>1. Init => Daemon!Init
  BY DEF Init
<1>2. [Next]_vars => [Daemon!Next]_(Daemon!daemonVars)
  BY DEF Next, Rest, vars, daemonVars, Daemon!daemonVars, Daemon!commandVars, Daemon!countVars
<1> QED
  BY <1>1, <1>2, PTL DEF Spec, Daemon!Spec

\* The tokens of its tunnel behave as TunnelTokens says.
LEMMA TokenBehaves == Spec => Token!Spec
<1>1. Init => Token!Init
  BY DEF Init
<1>2. [Next]_vars => [Token!Next]_(Token!tokenVars)
  BY DEF Next, Rest, vars, tokenVars, Token!tokenVars
<1> QED
  BY <1>1, <1>2, PTL DEF Spec, Token!Spec

\* The conversations of its threads behave as ThreadSync says.
LEMMA SyncBehaves == Spec => Sync!Spec
<1>1. Init => Sync!Init
  BY DEF Init
<1>2. [Next]_vars => [Sync!Next]_(Sync!threadSyncVars)
  BY DEF Next, Rest, vars, syncVars, Sync!threadSyncVars, Sync!codexVars,
     Sync!conversationVars, Sync!syncVars
<1> QED
  BY <1>1, <1>2, PTL DEF Spec, Sync!Spec

\* Its end-to-end channel behaves as E2EChannel says.
LEMMA ChannelBehaves == Spec => Channel!Spec
<1>1. Init => Channel!Init
  BY DEF Init
<1>2. [Next]_vars => [Channel!Next]_(Channel!channelVars)
  BY DEF Next, Rest, vars, channelVars, Channel!channelVars, Channel!phoneVars,
     Channel!peerVars, Channel!answerVars
<1> QED
  BY <1>1, <1>2, PTL DEF Spec, Channel!Spec

\* The session file of its agent behaves as AgentSession says.
LEMMA SessionBehaves == Spec => Session!Spec
<1>1. Init => Session!Init
  BY DEF Init
<1>2. [Next]_vars => [Session!Next]_(Session!vars)
  BY DEF Next, Rest, vars, sessionVars, Session!vars, Session!serverVars,
     Session!procVars, Session!runtimeVars, Session!writerVars, Session!historyVars
<1> QED
  BY <1>1, <1>2, PTL DEF Spec, Session!Spec

\* Its terminal sessions behave as TerminalSession says.
LEMMA TerminalBehaves == Spec => Terminal!Spec
<1>1. Init => Terminal!Init
  BY DEF Init
<1>2. [Next]_vars => [Terminal!Next]_(Terminal!sessionVars)
  BY DEF Next, Rest, vars, terminalVars, Terminal!sessionVars, Terminal!serverVars,
     Terminal!wireVars, Terminal!agentVars, Terminal!awakeVars, Terminal!pastVars
<1> QED
  BY <1>1, <1>2, PTL DEF Spec, Terminal!Spec

\* Its tunnels behave as TunnelRelay says.
LEMMA TunnelBehaves == Spec => Tunnel!Spec
<1>1. Init => Tunnel!Init
  BY DEF Init
<1>2. [Next]_vars => [Tunnel!Next]_(Tunnel!tunnelVars)
  BY DEF Next, Rest, vars, tunnelVars, Tunnel!tunnelVars, Tunnel!rowVars, Tunnel!connVars,
     Tunnel!wireVars, Tunnel!askVars, Tunnel!hubVars, Tunnel!agentVars
<1> QED
  BY <1>1, <1>2, PTL DEF Spec, Tunnel!Spec

\* One command at a time is a bound of the component.
LEMMA SessionBounded == SessionBounds
<1>1. IsFiniteSet({"command"}) /\ "agent" \notin {"command"}
  BY FS_Singleton
<1> QED
  BY <1>1, SessionAssumption DEF SessionBounds

\* A call that waits will be answered or fail, and is answered by the codex it asked,
\* whatever else happens on the computer.
THEOREM CallsAnswered == Spec => []CallsGetTheirAnswers
<1>1. Codex!Spec => []Codex!CallsGetTheirAnswers
  BY CodexAssumption, Codex!CallsCorrect
<1>2. Codex!CallsGetTheirAnswers <=> CallsGetTheirAnswers
  BY DEF CallsGetTheirAnswers
<1> QED
  BY <1>1, <1>2, CodexBehaves, PTL

\* A codex that runs on is the one the client knows, but for a late exit.
THEOREM RunningKnown == Spec => []RunningIsChild
<1>1. Codex!Spec => []Codex!RunningIsChild
  BY CodexAssumption, Codex!RunningCorrect
<1>2. Codex!RunningIsChild <=> RunningIsChild
  BY DEF RunningIsChild
<1> QED
  BY <1>1, <1>2, CodexBehaves, PTL

\* The daemon that runs is the one runtime.json names, unless a start overlapped
\* another command or one was interrupted.
THEOREM DaemonNamed == Spec => []DaemonIsOnFile
<1>1. Daemon!Spec => []Daemon!DaemonIsOnFile
  BY DaemonAssumption, Daemon!DaemonOnFile
<1>2. Daemon!DaemonIsOnFile <=> DaemonIsOnFile
  BY DEF DaemonIsOnFile
<1> QED
  BY <1>1, <1>2, DaemonBehaves, PTL

\* The token that is handed out again is the one the tunnel admits, unless two were
\* minted at once.
THEOREM TokenAdmitted == Spec => []CachedTokenWorks
<1>1. Token!Spec => []Token!CachedTokenWorks
  BY TokenAssumption, CachedTokenCorrect
<1>2. Token!CachedTokenWorks <=> CachedTokenWorks
  BY DEF CachedTokenWorks
<1> QED
  BY <1>1, <1>2, TokenBehaves, PTL

\* A thread is shown as one conversation, unless it was listed while the report of it
\* was on its way or lost.
THEOREM ThreadsBoundOnce == Spec => []BoundOnce
<1>1. 1 \in Nat
  OBVIOUS
<1>2. Sync!Spec => []Sync!BoundOnce
  BY <1>1, SyncAssumption, Sync!BoundOnceCorrect
<1>3. Sync!BoundOnce <=> BoundOnce
  BY DEF BoundOnce
<1> QED
  BY <1>2, <1>3, SyncBehaves, PTL

\* The phone gives every prompt of a scan a number above those of the prompts before.
THEOREM PromptsGrow == Spec => []PromptNumbersGrow
<1>1. ChannelInv => PromptNumbersGrow
  BY SentGrow DEF PromptNumbersGrow
<1>2. Channel!Spec => []ChannelInv
  BY ChannelAssumption, ChannelInvariant DEF ChannelBounds
<1> QED
  BY <1>1, <1>2, ChannelBehaves, PTL

\* An envelope is refused as a replay only if it was overtaken, or if the phone lost
\* its numbers.
THEOREM RefusedOvertaken == Spec => []RefusedWasOvertaken
<1>1. ChannelInv => RefusedWasOvertaken
  BY DEF ChannelInv, AgentInv, RefusedWasOvertaken
<1>2. Channel!Spec => []ChannelInv
  BY ChannelAssumption, ChannelInvariant DEF ChannelBounds
<1> QED
  BY <1>1, <1>2, ChannelBehaves, PTL

\* A sign-in never has more live refresh tokens than one, and the one on file is it,
\* unless a lost answer, a failed write or an overlapping write parted them.
THEOREM OneLiveToken == Spec => []TokensInStep
<1>1. SessionInv => TokensInStep
  BY SessionBounded, SessionIsSafe DEF TokensInStep
<1>2. Session!Spec => []SessionInv
  BY SessionBounded, SessionInvariant
<1> QED
  BY <1>1, <1>2, SessionBehaves, PTL

\* Every sequence number the idle agent has used is on file, unless an overlapping
\* write put back an older one, or the numbers could not be saved: a write that failed,
\* or a file that looked deleted, is not made up for until the next number is used.
THEOREM UsedNumbersKept == Spec => []UsedSeqIsOnFile
<1>1. SessionInv => UsedSeqIsOnFile
  BY SessionBounded, SessionIsSafe DEF UsedSeqIsOnFile
<1>2. Session!Spec => []SessionInv
  BY SessionBounded, SessionInvariant
<1> QED
  BY <1>1, <1>2, SessionBehaves, PTL

\* Nobody but the inhibitor that the manager refers to keeps the computer awake, and
\* only while a session or a turn is at work.
THEOREM AwakeForWork == Spec => []AwakeOnlyForWork
<1>1. TerminalInv => AwakeOnlyForWork
  BY DEF TerminalInv, AwakeOnlyForWork
<1>2. Terminal!Spec => []TerminalInv
  BY TerminalAssumption, TerminalInvariant DEF TerminalBounds
<1> QED
  BY <1>1, <1>2, TerminalBehaves, PTL

\* Once all is quiet a row says "running" only of a session whose process runs, unless
\* its agent ended first, its start threw, two of its statuses were written at once, or a
\* message, a write or a waiting handler was lost.
THEOREM RowsFollow == Spec => []RowFollowsSession
<1>1. TerminalInv => RowFollowsSession
  BY ToldFollows DEF RowFollowsSession
<1>2. Terminal!Spec => []TerminalInv
  BY TerminalAssumption, TerminalInvariant DEF TerminalBounds
<1> QED
  BY <1>1, <1>2, TerminalBehaves, PTL

\* However often connections drop and agents are tried, a request that goes through a
\* tunnel is served on the computer of one agent, which calls each loopback host for it
\* at most once: the application may still get the request up to three times.
THEOREM RequestsServedByOne == Spec => []ServedByOneAgent
<1>1. TunnelInv => ServedByOneAgent
  BY SentOnce DEF ServedByOneAgent
<1>2. Tunnel!Spec => []TunnelInv
  BY TunnelAssumption, TunnelInvariant DEF TunnelBounds
<1> QED
  BY <1>1, <1>2, TunnelBehaves, PTL

\* A websocket that is open on the agent's computer is known to the hub, which has its
\* client or has told the agent to close it, or word of it is on the way, unless its
\* open timed out or a connection dropped.
THEOREM LocalsRouted == Spec => []LocalIsRouted
<1>1. TunnelInv => LocalIsRouted
  BY DEF TunnelInv, LocalIsRouted
<1>2. Tunnel!Spec => []TunnelInv
  BY TunnelAssumption, TunnelInvariant DEF TunnelBounds
<1> QED
  BY <1>1, <1>2, TunnelBehaves, PTL

\* Every component that runs on the computer keeps its variables in their types.
THEOREM ComputerTypes == Spec => []TypeOK
<1>1. Spec => []Session!TypeOK
  <2>1. Session!Spec => []SessionInv
    BY SessionBounded, SessionInvariant
  <2>2. SessionInv => Session!TypeOK
    BY DEF SessionInv
  <2> QED
    BY <2>1, <2>2, SessionBehaves, PTL
<1>2. Spec => []Daemon!TypeOK
  <2>1. Daemon!Spec => []Daemon!DaemonInv
    BY DaemonAssumption, Daemon!DaemonInvariant
  <2>2. Daemon!DaemonInv => Daemon!TypeOK
    BY DEF Daemon!DaemonInv
  <2> QED
    BY <2>1, <2>2, DaemonBehaves, PTL
<1>3. Spec => []Terminal!TypeOK
  <2>1. Terminal!Spec => []TerminalInv
    BY TerminalAssumption, TerminalInvariant DEF TerminalBounds
  <2>2. TerminalInv => Terminal!TypeOK
    BY DEF TerminalInv
  <2> QED
    BY <2>1, <2>2, TerminalBehaves, PTL
<1>4. Spec => []Tunnel!TypeOK
  <2>1. Tunnel!Spec => []TunnelInv
    BY TunnelAssumption, TunnelInvariant DEF TunnelBounds
  <2>2. TunnelInv => Tunnel!TypeOK
    BY DEF TunnelInv
  <2> QED
    BY <2>1, <2>2, TunnelBehaves, PTL
<1>5. Spec => []Token!TypeOK
  <2>1. Token!Spec => []TokensInv
    BY TokenAssumption, TokensInvariant
  <2>2. TokensInv => Token!TypeOK
    BY DEF TokensInv
  <2> QED
    BY <2>1, <2>2, TokenBehaves, PTL
<1>6. Spec => []Channel!TypeOK
  <2>1. Channel!Spec => []ChannelInv
    BY ChannelAssumption, ChannelInvariant DEF ChannelBounds
  <2>2. ChannelInv => Channel!TypeOK
    BY DEF ChannelInv
  <2> QED
    BY <2>1, <2>2, ChannelBehaves, PTL
<1>7. Spec => []Codex!TypeOK
  <2>1. Codex!Spec => []Codex!TypeOK
    BY CodexAssumption, Codex!TypeCorrect
  <2> QED
    BY <2>1, CodexBehaves, PTL
<1>8. Spec => []Sync!TypeOK
  <2>1. 1 \in Nat
    OBVIOUS
  <2>2. Sync!Spec => []Sync!SyncInv
    BY <2>1, SyncAssumption, Sync!SyncInvariant
  <2>3. Sync!SyncInv => Sync!TypeOK
    BY DEF Sync!SyncInv
  <2> QED
    BY <2>2, <2>3, SyncBehaves, PTL
<1>9. Spec => [](part \in Parts)
  <2>1. Init => part \in Parts
    BY DEF Init
  <2>2. part \in Parts /\ [Next]_vars => (part \in Parts)'
    BY DEF Next, Rest, vars
  <2> QED
    BY <2>1, <2>2, PTL DEF Spec
<1>10. /\ part \in Parts /\ Session!TypeOK /\ Daemon!TypeOK /\ Terminal!TypeOK
       /\ Tunnel!TypeOK /\ Token!TypeOK /\ Channel!TypeOK /\ Codex!TypeOK /\ Sync!TypeOK
       => TypeOK
  BY DEF TypeOK
<1> QED
  BY <1>1, <1>2, <1>3, <1>4, <1>5, <1>6, <1>7, <1>8, <1>9, <1>10, PTL
=============================================================================
