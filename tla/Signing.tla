------------------------------ MODULE Signing ------------------------------
(***************************************************************************)
(* Signed messages (MySigning.cpp, MySigningAtsha204Soft.cpp) and the node *)
(* lock (MySensorsCore.cpp).  A sender asks the destination for a nonce,   *)
(* waits for it while it handles other messages, signs and sends; the      *)
(* receiver accepts one message for the last nonce it gave out, and locks  *)
(* itself after too many requests or failures in a row.                    *)
(*                                                                         *)
(* A handler that runs during the wait may send a signed message itself:   *)
(* the calls of signerSignMsg() form a stack, and share one status and one *)
(* buffer.  The network keeps every message: it may lose, repeat, delay    *)
(* and reorder them.                                                       *)
(***************************************************************************)
EXTENDS Integers, Sequences, SequencesExt

CONSTANTS
  Senders, Receivers,
  Messages,           \* what the sketches send, each once
  NonceRequest,       \* the message in the buffer is a nonce request
  None,
  LockAfter,          \* MY_NODE_LOCK_COUNTER_MAX
  LockCounterSize,    \* 2^8: the lock counters are 8 bits wide
  MaxDepth,           \* bound: calls of signerSignMsg() within each other
  MaxNonces,          \* bound: nonces of a receiver
  MaxResets           \* bound: resets of nodes

ASSUME SigningAssumption ==
  /\ NonceRequest \notin Messages
  /\ None \notin Receivers /\ None \notin Receivers \X Nat
  /\ LockCounterSize \in Nat /\ LockAfter \in 1 .. LockCounterSize - 1
  /\ MaxDepth \in Nat \ {0} /\ MaxNonces \in Nat /\ MaxResets \in Nat

VARIABLES
  unsent,             \* messages no sketch has sent yet
  calls,              \* the calls of signerSignMsg() that wait, innermost last
  waiting,            \* _signingNonceStatus = SIGN_WAITING_FOR_NONCE
  msgSign,            \* _msgSign, with the nonce it is signed with
  phase,              \* a receiver boots, runs or hangs in _nodeLock()
  lockCounter,        \* EEPROM_NODE_LOCK_COUNTER: "locked" for 0
  expected,           \* _signing_verifying_nonce, None: no verification ongoing
  issued,             \* nonces given out so far
  requests,           \* nof_nonce_requests
  failures,           \* nof_failed_verifications
  accepted,           \* messages whose signature was verified, in order
  net,                \* every message ever transmitted
  resets

sender == <<unsent, calls, waiting, msgSign>>
receiver == <<phase, lockCounter, expected, issued, requests, failures, accepted>>
vars == <<unsent, calls, waiting, msgSign, phase, lockCounter, expected, issued,
          requests, failures, accepted, net, resets>>

Nonces == Receivers \X (1 .. MaxNonces)
Buffers == [id : Messages \cup {NonceRequest}, to : Receivers \cup {None},
            nonce : Nonces \cup {None}]
\* late: the wait of a call within this one has timed out, so its own has too.
\* nested: a handler has called signerSignMsg() since this call began.
Calls == [id : Messages, to : Receivers, late : BOOLEAN, nested : BOOLEAN]
Packets ==
  [type : {"request"}, from : Senders, to : Receivers]
    \cup [type : {"nonce"}, nonce : Nonces, to : Senders]
    \cup [type : {"signed"}, from : Senders, to : Receivers,
          id : Messages, nonce : Nonces]

TypeOK ==
  /\ unsent \subseteq Messages
  /\ calls \in [Senders -> Seq(Calls)]
  /\ waiting \in [Senders -> BOOLEAN]
  /\ msgSign \in [Senders -> Buffers]
  /\ phase \in [Receivers -> {"starting", "running", "hanging"}]
  /\ lockCounter \in [Receivers -> {"erased", "full", "locked"}]
  /\ expected \in [Receivers -> Nonces \cup {None}]
  /\ issued \in [Receivers -> 0 .. MaxNonces]
  /\ requests \in [Receivers -> 0 .. LockCounterSize - 1]
  /\ failures \in [Receivers -> 0 .. LockCounterSize - 1]
  /\ accepted \in [Receivers -> Seq([id : Messages, from : Senders, nonce : Nonces])]
  /\ net \subseteq Packets
  /\ resets \in 0 .. MaxResets

Blank == [id |-> NonceRequest, to |-> None, nonce |-> None]

Init ==
  /\ unsent = Messages
  /\ calls = [s \in Senders |-> <<>>]
  /\ waiting = [s \in Senders |-> FALSE]
  /\ msgSign = [s \in Senders |-> Blank]
  /\ phase = [r \in Receivers |-> "starting"]
  /\ lockCounter = [r \in Receivers |-> "erased"]
  /\ expected = [r \in Receivers |-> None]
  /\ issued = [r \in Receivers |-> 0]
  /\ requests = [r \in Receivers |-> 0]
  /\ failures = [r \in Receivers |-> 0]
  /\ accepted = [r \in Receivers |-> <<>>]
  /\ net = {}
  /\ resets = 0

-----------------------------------------------------------------------------
(* The sender *)

Waits(s) == calls[s] # <<>>
Innermost(s) == Last(calls[s])

\* signerSignMsg: from loop(), or from a handler while another call waits.
BeginSign(s, m) ==
  /\ m \in unsent
  /\ Len(calls[s]) < MaxDepth
  /\ unsent' = unsent \ {m}
  /\ waiting' = [waiting EXCEPT ![s] = TRUE]

\* The calls a new one is nested in.
Enclosing(s) ==
  [i \in DOMAIN calls[s] |-> [calls[s][i] EXCEPT !.nested = TRUE]]

\* Mutation: the status of the last session is kept.
SignStatusKept(s, m, r) ==
  /\ m \in unsent
  /\ Len(calls[s]) < MaxDepth
  /\ unsent' = unsent \ {m}
  /\ msgSign' = [msgSign EXCEPT ![s] = [id |-> m, to |-> r, nonce |-> None]]
  /\ calls' = [calls EXCEPT ![s] = Append(Enclosing(s),
                 [id |-> m, to |-> r, late |-> FALSE, nested |-> FALSE])]
  /\ net' = net \cup {[type |-> "request", from |-> s, to |-> r]}
  /\ UNCHANGED <<waiting, receiver, resets>>

\* The nonce request is transmitted, and the message copied to _msgSign.
Sign(s, m, r) ==
  /\ BeginSign(s, m)
  /\ msgSign' = [msgSign EXCEPT ![s] = [id |-> m, to |-> r, nonce |-> None]]
  /\ calls' = [calls EXCEPT ![s] = Append(Enclosing(s),
                 [id |-> m, to |-> r, late |-> FALSE, nested |-> FALSE])]
  /\ net' = net \cup {[type |-> "request", from |-> s, to |-> r]}
  /\ UNCHANGED <<receiver, resets>>

\* The nonce request, built in _msgSign, fails and stays there.
SignFails(s, m, r) ==
  /\ BeginSign(s, m)
  /\ msgSign' = [msgSign EXCEPT
                   ![s] = [id |-> NonceRequest, to |-> r, nonce |-> None]]
  /\ calls' = [calls EXCEPT ![s] = Enclosing(s)]
  /\ UNCHANGED <<receiver, net, resets>>

\* Mutation: a nonce of any receiver is taken.
RecvAnyNonce(s, p) ==
  /\ p.type = "nonce" /\ p.to = s
  /\ msgSign' = [msgSign EXCEPT ![s].nonce = p.nonce]
  /\ waiting' = [waiting EXCEPT ![s] = FALSE]
  /\ UNCHANGED <<unsent, calls, receiver, net, resets>>

\* signerInternalProcessNonceResponse: whatever is in _msgSign is signed, if
\* the nonce comes from where it goes.  (A message too long for a signature
\* stays as it is, as if the nonce had been lost.)
RecvNonce(s, p) ==
  /\ p.type = "nonce" /\ p.to = s
  /\ p.nonce[1] = msgSign[s].to
  /\ msgSign' = [msgSign EXCEPT ![s].nonce = p.nonce]
  /\ waiting' = [waiting EXCEPT ![s] = FALSE]
  /\ UNCHANGED <<unsent, calls, receiver, net, resets>>

Written(s) ==
  IF msgSign[s].id = NonceRequest
  THEN [type |-> "request", from |-> s, to |-> msgSign[s].to]
  ELSE [type |-> "signed", from |-> s, to |-> msgSign[s].to,
        id |-> msgSign[s].id, nonce |-> msgSign[s].nonce]

\* The wait ends with a nonce, and transportSendWrite() sends what _msgSign is.
SendSigned(s) ==
  /\ Waits(s) /\ ~waiting[s] /\ ~Innermost(s).late
  /\ net' = net \cup {Written(s)}
  /\ calls' = [calls EXCEPT ![s] = Front(@)]
  /\ UNCHANGED <<unsent, waiting, msgSign, receiver, resets>>

\* The wait ends too late, with or without a nonce: the message is given up,
\* and the calls this one is nested in are too late as well.
Timeout(s) ==
  /\ Waits(s)
  /\ calls' = [calls EXCEPT ![s] =
                 [i \in 1 .. Len(@) - 1 |-> [@[i] EXCEPT !.late = TRUE]]]
  /\ UNCHANGED <<unsent, waiting, msgSign, receiver, net, resets>>

-----------------------------------------------------------------------------
(* The receiver *)

\* Mutation: the counter in EEPROM is left alone.
HangOnly(r) ==
  /\ phase' = [phase EXCEPT ![r] = "hanging"]
  /\ UNCHANGED lockCounter

\* _nodeLock.  The node hangs until it is reset, but handles messages while its
\* I_LOCKED message waits to be signed.
NodeLock(r) ==
  /\ phase' = [phase EXCEPT ![r] = "hanging"]
  /\ lockCounter' = [lockCounter EXCEPT ![r] = "locked"]

\* signerInternalProcessNonceRequest and signerBackendGetNonce
RecvNonceRequest(r, p) ==
  /\ p.type = "request" /\ p.to = r
  /\ requests' = [requests EXCEPT ![r] = (@ + 1) % LockCounterSize]
  /\ IF requests'[r] >= LockAfter
     THEN NodeLock(r) /\ UNCHANGED <<expected, issued, net>>
     ELSE /\ issued[r] < MaxNonces
          /\ issued' = [issued EXCEPT ![r] = @ + 1]
          /\ expected' = [expected EXCEPT ![r] = <<r, issued'[r]>>]
          /\ net' = net \cup
               {[type |-> "nonce", nonce |-> <<r, issued'[r]>>, to |-> p.from]}
          /\ UNCHANGED <<phase, lockCounter>>
  /\ UNCHANGED <<sender, failures, accepted, resets>>

\* signerBackendCheckTimer: the message did not come in time.
PurgeNonce(r) ==
  /\ expected[r] # None
  /\ expected' = [expected EXCEPT ![r] = None]
  /\ UNCHANGED <<sender, phase, lockCounter, issued, requests, failures,
                 accepted, net, resets>>

\* signerVerifyMsg after a signature that is good.
Verified(r, p) ==
  /\ accepted' = [accepted EXCEPT
                    ![r] = Append(@, [id |-> p.id, from |-> p.from, nonce |-> p.nonce])]
  /\ requests' = [requests EXCEPT ![r] = 0]
  /\ failures' = [failures EXCEPT ![r] = 0]
  /\ UNCHANGED <<phase, lockCounter>>

\* signerVerifyMsg after one that is not.
Rejected(r) ==
  /\ failures' = [failures EXCEPT ![r] = (@ + 1) % LockCounterSize]
  /\ IF failures'[r] >= LockAfter
     THEN NodeLock(r) ELSE UNCHANGED <<phase, lockCounter>>
  /\ UNCHANGED <<requests, accepted>>

\* Mutation: the verification goes on after a good signature.
RecvSignedAgain(r, p) ==
  /\ p.type = "signed" /\ p.to = r
  /\ expected' = [expected EXCEPT ![r] = IF p.nonce = @ THEN @ ELSE None]
  /\ IF p.nonce = expected[r] THEN Verified(r, p) ELSE Rejected(r)
  /\ UNCHANGED <<sender, issued, net, resets>>

\* signerBackendVerifyMsg: any message ends the verification.
RecvSigned(r, p) ==
  /\ p.type = "signed" /\ p.to = r
  /\ expected' = [expected EXCEPT ![r] = None]
  /\ IF p.nonce = expected[r] THEN Verified(r, p) ELSE Rejected(r)
  /\ UNCHANGED <<sender, issued, net, resets>>

-----------------------------------------------------------------------------
(* Boot and reset *)

\* _checkNodeLock, which _begin() calls when the transport is ready: until
\* then messages are handled.
CheckNodeLock(r, pinGrounded) ==
  /\ phase[r] = "starting"
  /\ IF lockCounter[r] = "locked" /\ ~pinGrounded
     THEN NodeLock(r)
     ELSE /\ phase' = [phase EXCEPT ![r] = "running"]
          /\ lockCounter' = [lockCounter EXCEPT ![r] = "full"]
  /\ UNCHANGED <<sender, expected, issued, requests, failures, accepted, net, resets>>

ResetReceiver(r) ==
  /\ resets < MaxResets
  /\ resets' = resets + 1
  /\ phase' = [phase EXCEPT ![r] = "starting"]
  /\ expected' = [expected EXCEPT ![r] = None]
  /\ requests' = [requests EXCEPT ![r] = 0]
  /\ failures' = [failures EXCEPT ![r] = 0]
  /\ UNCHANGED <<sender, lockCounter, issued, accepted, net>>

ResetSender(s) ==
  /\ resets < MaxResets
  /\ resets' = resets + 1
  /\ calls' = [calls EXCEPT ![s] = <<>>]
  /\ waiting' = [waiting EXCEPT ![s] = FALSE]
  /\ msgSign' = [msgSign EXCEPT ![s] = Blank]
  /\ UNCHANGED <<unsent, receiver, net>>

-----------------------------------------------------------------------------
SenderStep(s) ==
  \/ \E m \in Messages, r \in Receivers : Sign(s, m, r) \/ SignFails(s, m, r)
  \/ \E p \in net : RecvNonce(s, p)
  \/ SendSigned(s) \/ Timeout(s) \/ ResetSender(s)

ReceiverStep(r) ==
  \/ \E p \in net : RecvNonceRequest(r, p) \/ RecvSigned(r, p)
  \/ \E pinGrounded \in BOOLEAN : CheckNodeLock(r, pinGrounded)
  \/ PurgeNonce(r) \/ ResetReceiver(r)

Next == (\E s \in Senders : SenderStep(s)) \/ (\E r \in Receivers : ReceiverStep(r))

Spec == Init /\ [][Next]_vars

-----------------------------------------------------------------------------
(* Properties *)

\* A nonce verifies one message: signerBackendVerifyMsg() ends the session
\* whatever comes, however often the network repeats a message or a request.
NonceAcceptedOnce ==
  \A r \in Receivers : \A i, j \in DOMAIN accepted[r] :
    accepted[r][i].nonce = accepted[r][j].nonce => i = j

\* A message is signed with a nonce of the node it goes to, though late nonces
\* of earlier destinations arrive during the wait, and handlers redirect the
\* buffer to others.
SignedForItsDestination ==
  \A p \in net : p.type = "signed" => p.nonce[1] = p.to

\* The lock is in EEPROM when the node hangs, and so outlives every reset; a
\* node that runs has been unlocked.
LockInEEPROM ==
  \A r \in Receivers :
    /\ phase[r] = "hanging" => lockCounter[r] = "locked"
    /\ phase[r] = "running" => lockCounter[r] # "locked"

\* A call sends its own message, and signed, unless a handler called
\* signerSignMsg() during its wait: then the two share status and buffer.
SendsItsOwnUnlessNested ==
  \A s \in Senders : Waits(s) /\ ~Innermost(s).nested =>
    /\ <<msgSign[s].id, msgSign[s].to>> = <<Innermost(s).id, Innermost(s).to>>
    /\ waiting[s] \/ msgSign[s].nonce # None
=============================================================================
