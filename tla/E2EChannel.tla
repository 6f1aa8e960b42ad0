----------------------------- MODULE E2EChannel -----------------------------
(***************************************************************************)
(* The numbered envelopes of one conversation from a phone to the agent:   *)
(* prompts, which the phone sends once their number is stored, and answers *)
(* to server requests, whose number it stores in the background.  The      *)
(* agent refuses an envelope that is not above the last number it has      *)
(* accepted, which it keeps in memory, and asks control-api for the        *)
(* devices of the user when it does not know the sender.                   *)
(*                                                                         *)
(* Keys and ciphertexts are left out: an envelope of a known sender opens. *)
(* `sent`, `accepted`, `refused` and `unknown` are histories.              *)
(***************************************************************************)
EXTENDS Integers, Sequences

CONSTANTS
  MaxEnvelopes,  \* bound on the envelopes the phone makes
  MaxScans,      \* bound on the secure scans after the first
  MaxFaults      \* bound on restarts, failed requests and lost envelopes

VARIABLES
  phoneSeq,      \* the phone's seqByScope of the conversation
  phoneFile,     \* the one in its storage
  phoneWrites,   \* writes to its storage that are not done: a number, and the
                 \*   prompts that are sent after it
  made, scans,   \* envelopes made, and secure scans done, so far
  onTheWay,      \* envelopes on their way to the agent
  knownPeer,     \* the agent's runtime knows the phone,
  peerOnFile,    \*   and so does its session file
  peerSync,      \* peerSyncInFlight
  held,          \* envelopes whose handlers wait for it
  lastSeen,      \* the agent's lastSeenSeqBySenderScope of the phone
  sent, accepted, refused, unknown,
  faults

phoneVars   == <<phoneSeq, phoneFile, phoneWrites, made, scans>>
peerVars    == <<knownPeer, peerOnFile, peerSync, held>>
answerVars  == <<lastSeen, accepted, refused, unknown>>
channelVars == <<phoneVars, onTheWay, peerVars, answerVars, sent, faults>>

Envelope == [id : 1 .. MaxEnvelopes, kind : {"prompt", "answer"},
             seq : 1 .. MaxEnvelopes, scan : 0 .. MaxScans]

Fault ==
  /\ faults < MaxFaults
  /\ faults' = faults + 1

-----------------------------------------------------------------------------
(* The phone.                                                               *)

\* encryptEnvelope: the next number of the conversation.
Encrypted(kind) == [id |-> made + 1, kind |-> kind, seq |-> phoneSeq + 1, scan |-> scans]

MakesEnvelope ==
  /\ made < MaxEnvelopes
  /\ made' = made + 1
  /\ phoneSeq' = phoneSeq + 1

\* _persistE2ERuntime writes the numbers as they are; writes are done in order.
Persist(seq, prompts) ==
  phoneWrites' = Append(phoneWrites, [seq |-> seq, prompts |-> prompts])

\* Mutant: the prompt is sent while its number is being stored.
SendPromptAtOnce ==
  /\ MakesEnvelope
  /\ Persist(phoneSeq', {})
  /\ onTheWay' = onTheWay \union {Encrypted("prompt")}
  /\ sent' = sent \union {Encrypted("prompt")}
  /\ UNCHANGED <<phoneFile, scans, peerVars, answerVars, faults>>

\* The prompt waits until its number is stored.
SendPrompt ==
  /\ MakesEnvelope
  /\ Persist(phoneSeq', {Encrypted("prompt")})
  /\ UNCHANGED <<phoneFile, scans, onTheWay, peerVars, answerVars, sent, faults>>

AnswerRequest ==
  /\ MakesEnvelope
  /\ Persist(phoneSeq', {})
  /\ onTheWay' = onTheWay \union {Encrypted("answer")}
  /\ sent' = sent \union {Encrypted("answer")}
  /\ UNCHANGED <<phoneFile, scans, peerVars, answerVars, faults>>

WriteIsDone ==
  /\ phoneWrites # <<>>
  /\ phoneFile' = Head(phoneWrites).seq
  /\ phoneWrites' = Tail(phoneWrites)
  /\ onTheWay' = onTheWay \union Head(phoneWrites).prompts
  /\ sent' = sent \union Head(phoneWrites).prompts
  /\ UNCHANGED <<phoneSeq, made, scans, peerVars, answerVars, faults>>

PhoneRestarts ==
  /\ Fault
  /\ phoneSeq' = phoneFile
  /\ phoneWrites' = <<>>
  /\ UNCHANGED <<phoneFile, made, scans, onTheWay, peerVars, answerVars, sent>>

\* Another secure scan makes a runtime without numbers and stores it.
ScanAgain ==
  /\ scans < MaxScans
  /\ scans' = scans + 1
  /\ phoneSeq' = 0
  /\ Persist(0, {})
  /\ UNCHANGED <<phoneFile, made, onTheWay, peerVars, answerVars, sent, faults>>

-----------------------------------------------------------------------------
(* The agent.                                                               *)

\* The control connection is lost, or control-api is restarted: answers are not
\* sent again.
AnswerIsLost(m) ==
  /\ m \in onTheWay /\ m.kind = "answer"
  /\ Fault
  /\ onTheWay' = onTheWay \ {m}
  /\ UNCHANGED <<phoneVars, peerVars, answerVars, sent>>

\* Mutant: the number is remembered before the sender is looked up.
NumberSeen(m, opened) == m.seq

\* The number is remembered once the envelope is opened.
SeenAfter(m, opened) == IF opened THEN m.seq ELSE lastSeen

\* reportE2EDecryptFailure: the error, and for a prompt the failed turn.
ReportE2EDecryptFailure(m, replay) ==
  IF replay THEN refused' = refused \union {m} /\ UNCHANGED unknown
            ELSE unknown' = unknown \union {m} /\ UNCHANGED refused

\* E2ERuntime.decrypt.
Decrypt(m) ==
  LET replay == m.seq <= lastSeen
      opened == ~replay /\ knownPeer
  IN  /\ lastSeen' = IF replay THEN lastSeen ELSE SeenAfter(m, opened)
      /\ IF opened
         THEN accepted' = accepted \union {m} /\ UNCHANGED <<refused, unknown>>
         ELSE ReportE2EDecryptFailure(m, replay) /\ UNCHANGED accepted

\* The handlers that waited for a sync resume one after the other, before anything
\* else is received.
Resuming == peerSync = "none" /\ held # <<>>

ReceiveKnown(m) ==
  /\ knownPeer /\ ~Resuming
  /\ onTheWay' = onTheWay \ {m}
  /\ Decrypt(m)
  /\ UNCHANGED <<phoneVars, peerVars, sent, faults>>

\* syncE2EPeers({ requiredDeviceId }): one request at a time.
ReceiveUnknown(m) ==
  /\ ~knownPeer /\ ~Resuming
  /\ onTheWay' = onTheWay \ {m}
  /\ held' = Append(held, m)
  /\ peerSync' = IF peerSync = "none" THEN "fetching" ELSE peerSync
  /\ UNCHANGED <<phoneVars, knownPeer, peerOnFile, answerVars, sent, faults>>

Receive(m) == ReceiveKnown(m) \/ ReceiveUnknown(m)

\* conversation.turn.start, and conversation.server.response.
ReceivePrompt(m) == m \in onTheWay /\ m.kind = "prompt" /\ Receive(m)
ReceiveAnswer(m) == m \in onTheWay /\ m.kind = "answer" /\ Receive(m)

\* mergePeerDevices: the runtime knows the phone before the session file does.
MergePeerDevices ==
  /\ peerSync = "fetching"
  /\ knownPeer' = TRUE
  /\ peerSync' = "persisting"
  /\ UNCHANGED <<phoneVars, onTheWay, peerOnFile, held, answerVars, sent, faults>>

PeersPersisted ==
  /\ peerSync = "persisting"
  /\ peerOnFile' = TRUE
  /\ peerSync' = "none"
  /\ UNCHANGED <<phoneVars, onTheWay, knownPeer, held, answerVars, sent, faults>>

\* The request, or the write of the session file, fails.
SyncE2EPeersFails ==
  /\ peerSync # "none"
  /\ Fault
  /\ peerSync' = "none"
  /\ UNCHANGED <<phoneVars, onTheWay, knownPeer, peerOnFile, held, answerVars, sent>>

Resume ==
  /\ Resuming
  /\ held' = Tail(held)
  /\ Decrypt(Head(held))
  /\ UNCHANGED <<phoneVars, onTheWay, knownPeer, peerOnFile, peerSync, sent, faults>>

AgentRestarts ==
  /\ Fault
  /\ lastSeen' = 0
  /\ knownPeer' = peerOnFile
  /\ peerSync' = "none" /\ held' = <<>>
  /\ UNCHANGED <<phoneVars, onTheWay, peerOnFile, accepted, refused, unknown, sent>>

Init ==
  /\ phoneSeq = 0 /\ phoneFile = 0 /\ phoneWrites = <<>> /\ made = 0 /\ scans = 0
  /\ onTheWay = {} /\ knownPeer = FALSE /\ peerOnFile = FALSE
  /\ peerSync = "none" /\ held = <<>> /\ lastSeen = 0
  /\ sent = {} /\ accepted = {} /\ refused = {} /\ unknown = {} /\ faults = 0

Next ==
  \/ SendPrompt \/ AnswerRequest \/ WriteIsDone \/ PhoneRestarts \/ ScanAgain
  \/ \E m \in onTheWay : AnswerIsLost(m) \/ ReceivePrompt(m) \/ ReceiveAnswer(m)
  \/ MergePeerDevices \/ PeersPersisted \/ SyncE2EPeersFails \/ Resume \/ AgentRestarts

Spec == Init /\ [][Next]_channelVars

-----------------------------------------------------------------------------
TypeOK ==
  /\ {phoneSeq, phoneFile, lastSeen} \subseteq 0 .. MaxEnvelopes
  /\ phoneWrites \in Seq([seq : 0 .. MaxEnvelopes, prompts : SUBSET Envelope])
  /\ made \in 0 .. MaxEnvelopes /\ scans \in 0 .. MaxScans /\ faults \in 0 .. MaxFaults
  /\ UNION {onTheWay, sent, accepted, refused, unknown} \subseteq Envelope
  /\ {knownPeer, peerOnFile} \subseteq BOOLEAN
  /\ peerSync \in {"none", "fetching", "persisting"}
  /\ held \in Seq(Envelope)

\* The phone never gives the number of a prompt it has sent to a later prompt, although
\* it may be restarted at any time, until it forgets its numbers in a secure scan.
PromptNumbersGrow ==
  \A m, n \in sent :
    (m.kind = "prompt" /\ n.kind = "prompt" /\ m.scan = n.scan /\ m.id < n.id) =>
      m.seq < n.seq

\* An envelope is refused as a replay for one of three reasons: the agent has accepted
\* one made later, which overtook it; the phone lost the number of an answer in a
\* restart; or it started over in a secure scan.  In particular an envelope that the
\* agent refused as of an unknown sender does not cause the refusal of others.
RefusedWasOvertaken ==
  \A m \in refused : \E n \in accepted :
    \/ n.id > m.id
    \/ n.kind = "answer" /\ n.seq >= m.seq
    \/ n.scan < m.scan
=============================================================================
