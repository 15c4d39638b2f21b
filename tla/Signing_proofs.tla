--------------------------- MODULE Signing_proofs ---------------------------
(***************************************************************************)
(* Proofs about signed messages and the node lock, for any number of nodes *)
(* and messages, any depth of nested calls and any number of losses,       *)
(* repetitions and resets.                                                 *)
(***************************************************************************)
EXTENDS Signing, SequenceTheorems, TLAPS

\* A node that does not hang has not reached the limit of a counter.
BelowLimits ==
  \A r \in Receivers : phase[r] # "hanging" =>
    requests[r] < LockAfter /\ failures[r] < LockAfter

\* What a call may send has a destination and a nonce from there.
BufferReady ==
  \A s \in Senders :
    /\ Waits(s) => msgSign[s].to # None
    /\ Waits(s) /\ ~waiting[s] => msgSign[s].nonce # None
    /\ msgSign[s].nonce # None => msgSign[s].nonce[1] = msgSign[s].to

\* The nonces a receiver has used are old, and not the one it expects.
NoncesUsedUp ==
  \A r \in Receivers :
    /\ expected[r] # None =>
         expected[r][1] = r /\ expected[r][2] \in 1 .. issued[r]
    /\ \A i \in DOMAIN accepted[r] :
         /\ accepted[r][i].nonce # expected[r]
         /\ accepted[r][i].nonce[1] = r
         /\ accepted[r][i].nonce[2] \in 1 .. issued[r]

IInv == TypeOK /\ BelowLimits /\ BufferReady

-----------------------------------------------------------------------------
(* The calls that wait *)

\* The flags of a call are set one at a time.
LEMMA CallFlags ==
  ASSUME NEW c \in Calls
  PROVE  /\ [c EXCEPT !.nested = TRUE] \in Calls
         /\ [c EXCEPT !.nested = TRUE].nested = TRUE
         /\ [c EXCEPT !.late = TRUE] \in Calls
         /\ [c EXCEPT !.late = TRUE].nested = c.nested
BY DEF Calls

\* A new call goes on top, and marks the others.
LEMMA CallsGrow ==
  ASSUME NEW c \in Seq(Calls), NEW e, NEW new \in Calls,
         e = [i \in DOMAIN c |-> [c[i] EXCEPT !.nested = TRUE]]
  PROVE  /\ e \in Seq(Calls) /\ Len(e) = Len(c)
         /\ Append(e, new) \in Seq(Calls)
         /\ Append(e, new) # <<>> /\ Last(Append(e, new)) = new
         /\ Len(Append(e, new)) = Len(c) + 1
         /\ \A i \in 1 .. Len(c) : Append(e, new)[i].nested
         /\ \A i \in 1 .. Len(c) : e[i].nested
<1>1. DOMAIN c = 1 .. Len(c) /\ Len(c) \in Nat
  BY LenProperties
<1>2. \A i \in 1 .. Len(c) : [c[i] EXCEPT !.nested = TRUE] \in Calls
  <2>. TAKE i \in 1 .. Len(c)
  <2>1. c[i] \in Calls
    BY ElementOfSeq
  <2>. QED  BY <2>1, CallFlags
<1>3. e \in Seq(Calls) /\ Len(e) = Len(c)
  <2>1. e = [i \in 1 .. Len(c) |-> [c[i] EXCEPT !.nested = TRUE]]
    BY <1>1
  <2>2. e \in [1 .. Len(c) -> Calls]
    BY <2>1, <1>2
  <2>. QED  BY <2>2, <1>1, SeqDef, LenProperties
<1>4. \A i \in 1 .. Len(c) : e[i].nested
  <2>. SUFFICES ASSUME NEW i \in 1 .. Len(c) PROVE e[i].nested
    OBVIOUS
  <2>1. c[i] \in Calls
    BY ElementOfSeq
  <2>2. e[i] = [c[i] EXCEPT !.nested = TRUE]
    BY <1>1
  <2>. QED  BY <2>1, <2>2, CallFlags
<1>5. /\ Append(e, new) \in Seq(Calls) /\ Len(Append(e, new)) = Len(c) + 1
      /\ \A i \in 1 .. Len(c) : Append(e, new)[i] = e[i]
      /\ Append(e, new)[Len(c) + 1] = new
  BY <1>1, <1>3, AppendProperties
<1>6. Append(e, new) # <<>>
  BY <1>5, <1>1, EmptySeq
<1>. QED  BY <1>1, <1>3, <1>4, <1>5, <1>6 DEF Last

\* The calls that are left when the innermost times out.
Expired(c) == [i \in 1 .. Len(c) - 1 |-> [c[i] EXCEPT !.late = TRUE]]

\* The innermost call returns, and leaves the others, or their late copies.
LEMMA CallsShrink ==
  ASSUME NEW c \in Seq(Calls), c # <<>>
  PROVE  /\ Front(c) \in Seq(Calls) /\ Expired(c) \in Seq(Calls)
         /\ Len(Front(c)) = Len(c) - 1 /\ Len(Expired(c)) = Len(c) - 1
         /\ \A i \in 1 .. Len(c) - 1 :
              Front(c)[i] = c[i] /\ Expired(c)[i].nested = c[i].nested
<1>1. Len(c) \in Nat \ {0}
  BY LenProperties, EmptySeq
<1>2. \A i \in 1 .. Len(c) - 1 : c[i] \in Calls
  BY <1>1, ElementOfSeq
<1>3. /\ Front(c) \in Seq(Calls) /\ Len(Front(c)) = Len(c) - 1
      /\ \A i \in 1 .. Len(c) - 1 : Front(c)[i] = c[i]
  <2>1. PICK k \in Nat : k = Len(c) - 1
    BY <1>1
  <2>2. Front(c) = SubSeq(c, 1, k)
    BY <2>1 DEF Front
  <2>3. /\ SubSeq(c, 1, k) \in Seq(Calls)
        /\ Len(SubSeq(c, 1, k)) = IF 1 <= k THEN k - 1 + 1 ELSE 0
        /\ \A i \in 1 .. k - 1 + 1 : SubSeq(c, 1, k)[i] = c[1 + i - 1]
    BY <1>2, <2>1, SubSeqProperties
  <2>4. Len(SubSeq(c, 1, k)) = k /\ \A i \in 1 .. k : SubSeq(c, 1, k)[i] = c[i]
    BY <2>3
  <2>. QED  BY <2>1, <2>2, <2>3, <2>4
<1>4. Expired(c) \in [1 .. Len(c) - 1 -> Calls]
  BY <1>2, CallFlags DEF Expired
<1>5. Expired(c) \in Seq(Calls) /\ Len(Expired(c)) = Len(c) - 1
  BY <1>4, <1>1, SeqDef, LenProperties
<1>6. \A i \in 1 .. Len(c) - 1 : Expired(c)[i].nested = c[i].nested
  BY <1>2, CallFlags DEF Expired
<1>. QED  BY <1>3, <1>5, <1>6

-----------------------------------------------------------------------------
(* Types, counters and the buffer *)

LEMMA InitIInv == Init => IInv
<1>. SUFFICES ASSUME Init PROVE IInv
  OBVIOUS
<1>. USE SigningAssumption DEF Init
<1>1. TypeOK
  BY EmptySeq DEF TypeOK, Blank, Buffers
<1>2. BelowLimits
  BY DEF BelowLimits
<1>3. BufferReady
  BY DEF BufferReady, Waits, Blank
<1>. QED  BY <1>1, <1>2, <1>3 DEF IInv

LEMMA SenderKeepsIInv ==
  ASSUME IInv, NEW s \in Senders, SenderStep(s)
  PROVE  IInv'
<1>. USE SigningAssumption DEF IInv
<1>1. TypeOK
  OBVIOUS
<1>2. calls[s] \in Seq(Calls)
  BY <1>1 DEF TypeOK
<1>3. ASSUME NEW m \in Messages, NEW r \in Receivers, Sign(s, m, r)
      PROVE  IInv'
  <2>. DEFINE new == [id |-> m, to |-> r, late |-> FALSE, nested |-> FALSE]
  <2>. USE <1>3 DEF Sign, BeginSign, receiver
  <2>1. new \in Calls
    BY DEF Calls
  <2>2. Append(Enclosing(s), new) \in Seq(Calls)
    BY <1>2, <2>1, CallsGrow DEF Enclosing
  <2>3. [id |-> m, to |-> r, nonce |-> None] \in Buffers
    BY DEF Buffers
  <2>4. [type |-> "request", from |-> s, to |-> r] \in Packets
    BY DEF Packets
  <2>5. TypeOK'
    BY <1>1, <2>2, <2>3, <2>4 DEF TypeOK
  <2>6. BelowLimits'
    BY DEF BelowLimits
  <2>7. BufferReady'
    BY <1>1, <2>3 DEF BufferReady, Waits, TypeOK
  <2>. QED  BY <2>5, <2>6, <2>7
<1>4. ASSUME NEW m \in Messages, NEW r \in Receivers, SignFails(s, m, r)
      PROVE  IInv'
  <2>. USE <1>4 DEF SignFails, BeginSign, receiver
  <2>1. Enclosing(s) \in Seq(Calls)
    <3>1. [id |-> m, to |-> r, late |-> FALSE, nested |-> FALSE] \in Calls
      BY DEF Calls
    <3>. QED  BY <1>2, <3>1, CallsGrow DEF Enclosing
  <2>3. [id |-> NonceRequest, to |-> r, nonce |-> None] \in Buffers
    BY DEF Buffers
  <2>5. TypeOK'
    BY <1>1, <2>1, <2>3 DEF TypeOK
  <2>6. BelowLimits'
    BY DEF BelowLimits
  <2>7. BufferReady'
    BY <1>1, <2>3 DEF BufferReady, Waits, TypeOK
  <2>. QED  BY <2>5, <2>6, <2>7
<1>5. ASSUME NEW p \in net, RecvNonce(s, p)
      PROVE  IInv'
  <2>. USE <1>5 DEF RecvNonce, receiver
  <2>1. p.nonce \in Nonces
    BY <1>1 DEF TypeOK, Packets
  <2>2. p.nonce # None /\ p.nonce[1] \in Receivers
    BY <2>1 DEF Nonces
  <2>3. msgSign[s] \in Buffers
    BY <1>1 DEF TypeOK
  <2>4. /\ [msgSign[s] EXCEPT !.nonce = p.nonce] \in Buffers
        /\ [msgSign[s] EXCEPT !.nonce = p.nonce].nonce = p.nonce
        /\ [msgSign[s] EXCEPT !.nonce = p.nonce].to = msgSign[s].to
    BY <2>1, <2>3 DEF Buffers
  <2>5. TypeOK'
    BY <1>1, <2>4 DEF TypeOK
  <2>6. BelowLimits'
    BY DEF BelowLimits
  <2>7. BufferReady'
    BY <1>1, <2>2, <2>4 DEF BufferReady, Waits, TypeOK
  <2>. QED  BY <2>5, <2>6, <2>7
<1>6. ASSUME SendSigned(s)
      PROVE  IInv'
  <2>. USE <1>6 DEF SendSigned, receiver, Waits
  <2>1. Front(calls[s]) \in Seq(Calls)
    BY <1>2, CallsShrink
  <2>2. Written(s) \in Packets
    <3>1. msgSign[s] \in Buffers
      BY <1>1 DEF TypeOK
    <3>2. msgSign[s].to # None /\ msgSign[s].nonce # None
      BY DEF BufferReady
    <3>3. /\ msgSign[s].to \in Receivers /\ msgSign[s].nonce \in Nonces
          /\ msgSign[s].id \in Messages \cup {NonceRequest}
      BY <3>1, <3>2 DEF Buffers
    <3>4. CASE msgSign[s].id = NonceRequest
      BY <3>3, <3>4 DEF Written, Packets
    <3>5. CASE msgSign[s].id # NonceRequest
      BY <3>3, <3>5 DEF Written, Packets
    <3>. QED  BY <3>4, <3>5
  <2>3. TypeOK'
    BY <1>1, <2>1, <2>2 DEF TypeOK
  <2>4. BelowLimits'
    BY DEF BelowLimits
  <2>5. BufferReady'
    BY <1>1 DEF BufferReady, TypeOK
  <2>. QED  BY <2>3, <2>4, <2>5
<1>7. ASSUME Timeout(s)
      PROVE  IInv'
  <2>. USE <1>7 DEF Timeout, receiver, Waits
  <2>1. Expired(calls[s]) \in Seq(Calls)
    BY <1>2, CallsShrink
  <2>3. TypeOK'
    BY <1>1, <2>1 DEF TypeOK, Expired
  <2>4. BelowLimits'
    BY DEF BelowLimits
  <2>5. BufferReady'
    BY <1>1 DEF BufferReady, TypeOK
  <2>. QED  BY <2>3, <2>4, <2>5
<1>8. ASSUME ResetSender(s)
      PROVE  IInv'
  <2>. USE <1>8 DEF ResetSender, receiver
  <2>1. Blank \in Buffers /\ <<>> \in Seq(Calls)
    BY EmptySeq DEF Blank, Buffers
  <2>2. resets' \in 0 .. MaxResets
    BY <1>1 DEF TypeOK
  <2>3. TypeOK'
    BY <1>1, <2>1, <2>2 DEF TypeOK
  <2>4. BelowLimits'
    BY DEF BelowLimits
  <2>5. BufferReady'
    BY <1>1 DEF BufferReady, TypeOK, Waits, Blank
  <2>. QED  BY <2>3, <2>4, <2>5
<1>. QED  BY <1>3, <1>4, <1>5, <1>6, <1>7, <1>8 DEF SenderStep

LEMMA ReceiverKeepsIInv ==
  ASSUME IInv, NEW r \in Receivers, ReceiverStep(r)
  PROVE  IInv'
<1>. USE SigningAssumption DEF IInv
<1>1. TypeOK /\ BelowLimits
  OBVIOUS
<1>2. ASSUME NEW p \in net, RecvNonceRequest(r, p)
      PROVE  IInv'
  <2>. USE <1>2 DEF RecvNonceRequest, sender
  <2>1. p \in Packets /\ p.from \in Senders
    BY <1>1 DEF TypeOK, Packets
  <2>. DEFINE q == (requests[r] + 1) % LockCounterSize
  <2>2. q \in 0 .. LockCounterSize - 1
    BY <1>1 DEF TypeOK
  <2>3. BufferReady'
    BY DEF BufferReady, Waits
  <2>. HIDE DEF q
  <2>6. /\ requests' = [requests EXCEPT ![r] = q] /\ requests'[r] = q
        /\ IF q >= LockAfter
           THEN NodeLock(r) /\ UNCHANGED <<expected, issued, net>>
           ELSE /\ issued[r] < MaxNonces
                /\ issued' = [issued EXCEPT ![r] = @ + 1]
                /\ expected' = [expected EXCEPT ![r] = <<r, issued'[r]>>]
                /\ net' = net \cup
                     {[type |-> "nonce", nonce |-> <<r, issued'[r]>>, to |-> p.from]}
                /\ UNCHANGED <<phase, lockCounter>>
    BY <1>1 DEF q, TypeOK
  <2>4. CASE q >= LockAfter
    <3>1. /\ phase' = [phase EXCEPT ![r] = "hanging"]
          /\ lockCounter' = [lockCounter EXCEPT ![r] = "locked"]
          /\ UNCHANGED <<expected, issued, net>>
      BY <2>4, <2>6 DEF NodeLock
    <3>2. /\ phase' \in [Receivers -> {"starting", "running", "hanging"}]
          /\ lockCounter' \in [Receivers -> {"erased", "full", "locked"}]
          /\ requests' \in [Receivers -> 0 .. LockCounterSize - 1]
      BY <1>1, <2>2, <2>6, <3>1 DEF TypeOK
    <3>3. TypeOK'
      BY <1>1, <3>1, <3>2 DEF TypeOK
    <3>4. BelowLimits'
      BY <1>1, <2>6, <3>1 DEF BelowLimits, TypeOK
    <3>. QED  BY <2>3, <3>3, <3>4
  <2>5. CASE ~(q >= LockAfter)
    <3>. DEFINE n == issued[r] + 1
    <3>1. n \in 1 .. MaxNonces /\ issued' = [issued EXCEPT ![r] = n]
      BY <1>1, <2>5, <2>6 DEF TypeOK
    <3>2. issued'[r] = n
      BY <1>1, <3>1 DEF TypeOK
    <3>3. <<r, n>> \in Nonces
      BY <3>1 DEF Nonces
    <3>4. [type |-> "nonce", nonce |-> <<r, n>>, to |-> p.from] \in Packets
      BY <2>1, <3>3 DEF Packets
    <3>5. /\ expected' = [expected EXCEPT ![r] = <<r, n>>]
          /\ net' = net \cup
               {[type |-> "nonce", nonce |-> <<r, n>>, to |-> p.from]}
          /\ UNCHANGED <<phase, lockCounter>>
      BY <2>5, <2>6, <3>2
    <3>. HIDE DEF n
    <3>6. TypeOK'
      <4>. USE <1>1 DEF TypeOK
      <4>1. issued' \in [Receivers -> 0 .. MaxNonces]
        BY <3>1
      <4>2. expected' \in [Receivers -> Nonces \cup {None}]
        BY <3>3, <3>5
      <4>3. requests' \in [Receivers -> 0 .. LockCounterSize - 1]
        BY <2>2, <2>6
      <4>4. net' \subseteq Packets
        BY <3>4, <3>5
      <4>. QED  BY <3>5, <4>1, <4>2, <4>3, <4>4
    <3>7. BelowLimits'
      <4>1. q < LockAfter
        BY <2>2, <2>5
      <4>. QED  BY <1>1, <2>6, <3>5, <4>1 DEF BelowLimits, TypeOK
    <3>. QED  BY <2>3, <3>6, <3>7
  <2>. QED  BY <2>4, <2>5
<1>3. ASSUME NEW p \in net, RecvSigned(r, p)
      PROVE  IInv'
  <2>. USE <1>3 DEF RecvSigned, sender
  <2>1. /\ p.id \in Messages /\ p.from \in Senders /\ p.nonce \in Nonces
    BY <1>1 DEF TypeOK, Packets
  <2>. DEFINE f == (failures[r] + 1) % LockCounterSize
  <2>2. f \in 0 .. LockCounterSize - 1
    BY <1>1 DEF TypeOK
  <2>3. BufferReady'
    BY DEF BufferReady, Waits
  <2>4. CASE p.nonce = expected[r]
    <3>. DEFINE a == [id |-> p.id, from |-> p.from, nonce |-> p.nonce]
    <3>. USE <2>4 DEF Verified
    <3>1. Append(accepted[r], a)
            \in Seq([id : Messages, from : Senders, nonce : Nonces])
      BY <1>1, <2>1, AppendProperties DEF TypeOK
    <3>2. TypeOK'
      <4>. USE <1>1 DEF TypeOK
      <4>1. accepted' \in [Receivers ->
                             Seq([id : Messages, from : Senders, nonce : Nonces])]
        BY <3>1
      <4>2. /\ requests' \in [Receivers -> 0 .. LockCounterSize - 1]
            /\ failures' \in [Receivers -> 0 .. LockCounterSize - 1]
        <5>1. 0 \in 0 .. LockCounterSize - 1
          OBVIOUS
        <5>2. /\ requests' = [requests EXCEPT ![r] = 0]
              /\ failures' = [failures EXCEPT ![r] = 0]
          OBVIOUS
        <5>. QED  BY ONLY <1>1, <5>1, <5>2 DEF TypeOK
      <4>3. expected' \in [Receivers -> Nonces \cup {None}]
        OBVIOUS
      <4>. QED  BY <4>1, <4>2, <4>3
    <3>3. BelowLimits'
      <4>1. /\ requests' = [requests EXCEPT ![r] = 0]
            /\ failures' = [failures EXCEPT ![r] = 0]
            /\ phase' = phase
        OBVIOUS
      <4>. QED  BY <1>1, <4>1, SigningAssumption DEF BelowLimits, TypeOK
    <3>. QED  BY <2>3, <3>2, <3>3
  <2>5. CASE p.nonce # expected[r]
    <3>. USE <2>5 DEF Rejected, NodeLock
    <3>1. TypeOK'
      <4>. USE <1>1 DEF TypeOK
      <4>1. failures' \in [Receivers -> 0 .. LockCounterSize - 1]
        BY <2>2
      <4>2. /\ phase' \in [Receivers -> {"starting", "running", "hanging"}]
            /\ lockCounter' \in [Receivers -> {"erased", "full", "locked"}]
        BY <2>5, ZenonT(40)
      <4>. QED  BY <4>1, <4>2
    <3>2. BelowLimits'
      <4>. SUFFICES ASSUME NEW q \in Receivers, phase'[q] # "hanging"
                    PROVE  requests'[q] < LockAfter /\ failures'[q] < LockAfter
        BY DEF BelowLimits
      <4>1. requests' = requests /\ failures' = [failures EXCEPT ![r] = f]
        OBVIOUS
      <4>2. CASE q = r
        <5>1. failures'[q] = f
          BY <1>1, <4>1, <4>2 DEF TypeOK
        <5>2. ~(f >= LockAfter) /\ phase' = phase
          BY <1>1, <4>2, <5>1 DEF TypeOK
        <5>3. f < LockAfter
          BY <2>2, <5>2
        <5>. QED  BY <1>1, <4>1, <4>2, <5>1, <5>2, <5>3 DEF BelowLimits, TypeOK
      <4>3. CASE q # r
        <5>1. failures'[q] = failures[q] /\ phase'[q] = phase[q]
          BY <1>1, <4>1, <4>3 DEF TypeOK
        <5>. QED  BY <1>1, <4>1, <5>1 DEF BelowLimits
      <4>. QED  BY <4>2, <4>3
    <3>. QED  BY <2>3, <3>1, <3>2
  <2>. QED  BY <2>4, <2>5
<1>4. ASSUME NEW pinGrounded \in BOOLEAN, CheckNodeLock(r, pinGrounded)
      PROVE  IInv'
  <2>. USE <1>4 DEF CheckNodeLock, NodeLock, sender
  <2>1. TypeOK'
    BY <1>1 DEF TypeOK
  <2>2. BelowLimits'
    BY <1>1 DEF BelowLimits, TypeOK
  <2>3. BufferReady'
    BY DEF BufferReady, Waits
  <2>. QED  BY <2>1, <2>2, <2>3
<1>5. ASSUME PurgeNonce(r)
      PROVE  IInv'
  BY <1>5 DEF PurgeNonce, sender, TypeOK, BelowLimits, BufferReady, Waits
<1>6. ASSUME ResetReceiver(r)
      PROVE  IInv'
  <2>. USE <1>6 DEF ResetReceiver, sender
  <2>1. resets' \in 0 .. MaxResets
    BY <1>1 DEF TypeOK
  <2>2. TypeOK'
    <3>. USE <1>1 DEF TypeOK
    <3>1. /\ requests' \in [Receivers -> 0 .. LockCounterSize - 1]
          /\ failures' \in [Receivers -> 0 .. LockCounterSize - 1]
      OBVIOUS
    <3>2. /\ phase' \in [Receivers -> {"starting", "running", "hanging"}]
          /\ expected' \in [Receivers -> Nonces \cup {None}]
      OBVIOUS
    <3>. QED  BY <2>1, <3>1, <3>2
  <2>3. BelowLimits'
    BY <1>1 DEF BelowLimits, TypeOK
  <2>4. BufferReady'
    BY DEF BufferReady, Waits
  <2>. QED  BY <2>2, <2>3, <2>4
<1>. QED  BY <1>2, <1>3, <1>4, <1>5, <1>6 DEF ReceiverStep

LEMMA StutterKeepsIInv == IInv /\ UNCHANGED vars => IInv'
BY DEF vars, IInv, TypeOK, BelowLimits, BufferReady, Waits

THEOREM Invariant == Spec => []IInv
<1>1. IInv /\ [Next]_vars => IInv'
  BY SenderKeepsIInv, ReceiverKeepsIInv, StutterKeepsIInv DEF Next
<1>. QED  BY InitIInv, <1>1, PTL DEF Spec

\* The state stays within its types: no counter passes the limit, whatever
\* arrives, before the node hangs.
THEOREM TypeCorrect == Spec => []TypeOK
BY Invariant, PTL DEF IInv

-----------------------------------------------------------------------------
(* The destination of a signature *)

\* A message is signed with a nonce of the node it goes to: the sender of a
\* nonce is compared with the destination in the buffer, whoever put it there.
THEOREM SignedForDestination == Spec => []SignedForItsDestination
<1>1. Init => SignedForItsDestination
  BY DEF Init, SignedForItsDestination
<1>2. ASSUME IInv, SignedForItsDestination, [Next]_vars
      PROVE  SignedForItsDestination'
  <2>1. ASSUME NEW s \in Senders, SenderStep(s) PROVE SignedForItsDestination'
    <3>1. CASE SendSigned(s)
      <4>1. net' = net \cup {Written(s)}
        BY <3>1 DEF SendSigned
      <4>2. Waits(s) /\ ~waiting[s]
        BY <3>1 DEF SendSigned
      <4>3. msgSign[s].nonce[1] = msgSign[s].to
        BY <1>2, <4>2 DEF IInv, BufferReady
      <4>4. Written(s).type = "signed" => Written(s).nonce[1] = Written(s).to
        BY <4>3 DEF Written
      <4>. QED  BY <1>2, <4>1, <4>4 DEF SignedForItsDestination
    <3>2. ASSUME NEW m \in Messages, NEW r \in Receivers, Sign(s, m, r)
          PROVE  SignedForItsDestination'
      BY <1>2, <3>2 DEF Sign, SignedForItsDestination
    <3>3. CASE ~SendSigned(s) /\ UNCHANGED net
      BY <1>2, <3>3 DEF SignedForItsDestination
    <3>. QED
      BY <2>1, <3>1, <3>2, <3>3 DEF SenderStep, SignFails, RecvNonce, Timeout, ResetSender
  <2>2. ASSUME NEW r \in Receivers, ReceiverStep(r) PROVE SignedForItsDestination'
    <3>1. ASSUME NEW p \in net, RecvNonceRequest(r, p)
          PROVE  SignedForItsDestination'
      BY <1>2, <3>1 DEF RecvNonceRequest, SignedForItsDestination
    <3>2. CASE UNCHANGED net
      BY <1>2, <3>2 DEF SignedForItsDestination
    <3>. QED
      BY <2>2, <3>1, <3>2
      DEF ReceiverStep, RecvSigned, CheckNodeLock, PurgeNonce, ResetReceiver
  <2>3. CASE UNCHANGED vars
    BY <1>2, <2>3 DEF vars, SignedForItsDestination
  <2>. QED  BY <1>2, <2>1, <2>2, <2>3 DEF Next
<1>. QED  BY Invariant, <1>1, <1>2, PTL DEF Spec

-----------------------------------------------------------------------------
(* The nonces *)

LEMMA ReceiverKeepsNonces ==
  ASSUME TypeOK, NoncesUsedUp, NonceAcceptedOnce,
         NEW r \in Receivers, ReceiverStep(r)
  PROVE  (NoncesUsedUp /\ NonceAcceptedOnce)'
<1>. USE SigningAssumption
<1>. DEFINE Books(q) ==
       /\ expected[q] # None =>
            expected[q][1] = q /\ expected[q][2] \in 1 .. issued[q]
       /\ \A i \in DOMAIN accepted[q] :
            /\ accepted[q][i].nonce # expected[q]
            /\ accepted[q][i].nonce[1] = q
            /\ accepted[q][i].nonce[2] \in 1 .. issued[q]
       /\ \A i, j \in DOMAIN accepted[q] :
            accepted[q][i].nonce = accepted[q][j].nonce => i = j
<1>1. \A q \in Receivers : Books(q)
  BY DEF NoncesUsedUp, NonceAcceptedOnce
<1>2. SUFFICES \A q \in Receivers : Books(q)'
  BY DEF NoncesUsedUp, NonceAcceptedOnce
<1>3. /\ accepted[r] \in Seq([id : Messages, from : Senders, nonce : Nonces])
      /\ issued[r] \in Nat
  <2>1. issued[r] \in 0 .. MaxNonces
    BY DEF TypeOK
  <2>2. accepted[r] \in Seq([id : Messages, from : Senders, nonce : Nonces])
    BY DEF TypeOK
  <2>. QED  BY <2>1, <2>2
<1>4. \A i \in DOMAIN accepted[r] : accepted[r][i].nonce \in Nonces
  <2>. TAKE i \in DOMAIN accepted[r]
  <2>1. i \in 1 .. Len(accepted[r])
    BY <1>3, LenProperties
  <2>2. accepted[r][i] \in [id : Messages, from : Senders, nonce : Nonces]
    BY <1>3, <2>1, ElementOfSeq
  <2>. QED  BY <2>2
<1>5. None \notin Nonces
  BY DEF Nonces
<1>6. CASE UNCHANGED <<expected, issued, accepted>>
  BY <1>1, <1>6
<1>7. CASE /\ expected' = [expected EXCEPT ![r] = None]
           /\ UNCHANGED <<issued, accepted>>
  <2>1. \A q \in Receivers : q # r => expected'[q] = expected[q]
    BY <1>7 DEF TypeOK
  <2>2. expected'[r] = None
    BY <1>7 DEF TypeOK
  <2>. QED  BY <1>1, <1>4, <1>5, <1>7, <2>1, <2>2
<1>8. ASSUME NEW p \in net, RecvNonceRequest(r, p), ~(requests'[r] >= LockAfter)
      PROVE  \A q \in Receivers : Books(q)'
  <2>1. /\ issued' = [issued EXCEPT ![r] = issued[r] + 1]
        /\ expected' = [expected EXCEPT ![r] = <<r, issued'[r]>>]
        /\ accepted' = accepted
    BY <1>8 DEF RecvNonceRequest
  <2>2. issued'[r] = issued[r] + 1 /\ expected'[r] = <<r, issued[r] + 1>>
    BY <2>1 DEF TypeOK
  <2>3. \A q \in Receivers : q # r => issued'[q] = issued[q] /\ expected'[q] = expected[q]
    BY <2>1 DEF TypeOK
  <2>4. Books(r)'
    <3>1. \A i \in DOMAIN accepted[r] :
             accepted[r][i].nonce[2] \in 1 .. issued[r] /\ accepted[r][i].nonce[1] = r
      BY <1>1
    <3>2. \A i \in DOMAIN accepted[r] : accepted[r][i].nonce # <<r, issued[r] + 1>>
      BY <1>3, <3>1
    <3>. QED  BY <1>1, <1>3, <2>1, <2>2, <3>1, <3>2
  <2>. QED  BY <1>1, <2>1, <2>3, <2>4
<1>9. ASSUME NEW p \in net, RecvSigned(r, p), p.nonce = expected[r]
      PROVE  \A q \in Receivers : Books(q)'
  <2>. DEFINE a == [id |-> p.id, from |-> p.from, nonce |-> p.nonce]
              n == Len(accepted[r])
  <2>1. p.id \in Messages /\ p.from \in Senders /\ p.nonce \in Nonces
    BY <1>9 DEF TypeOK, Packets, RecvSigned
  <2>2. /\ accepted' = [accepted EXCEPT ![r] = Append(accepted[r], a)]
        /\ expected' = [expected EXCEPT ![r] = None]
        /\ issued' = issued
    BY <1>9 DEF RecvSigned, Verified
  <2>3. accepted'[r] = Append(accepted[r], a) /\ expected'[r] = None
    BY <2>2 DEF TypeOK
  <2>4. \A q \in Receivers : q # r =>
           accepted'[q] = accepted[q] /\ expected'[q] = expected[q]
    BY <2>2 DEF TypeOK
  <2>5. a \in [id : Messages, from : Senders, nonce : Nonces] /\ a.nonce = p.nonce
    BY <2>1
  <2>. HIDE DEF a
  <2>6. /\ n \in Nat /\ DOMAIN accepted[r] = 1 .. n
        /\ DOMAIN accepted'[r] = 1 .. n + 1
        /\ \A i \in 1 .. n : accepted'[r][i] = accepted[r][i]
        /\ accepted'[r][n + 1] = a
    BY <1>3, <2>3, <2>5, AppendProperties, LenProperties
  <2>7. p.nonce[1] = r /\ p.nonce[2] \in 1 .. issued[r]
    BY <1>1, <1>5, <1>9, <2>1
  <2>8. \A i \in 1 .. n : /\ accepted[r][i].nonce # p.nonce
                          /\ accepted[r][i].nonce \in Nonces
                          /\ accepted[r][i].nonce[1] = r
                          /\ accepted[r][i].nonce[2] \in 1 .. issued[r]
    BY <1>1, <1>4, <1>9, <2>6
  <2>9. \A i, j \in 1 .. n : accepted[r][i].nonce = accepted[r][j].nonce => i = j
    BY <1>1, <2>6
  <2>. HIDE DEF n
  <2>10. \A i \in 1 .. n + 1 : i \in 1 .. n \/ i = n + 1
    BY <2>6
  <2>11. Books(r)'
    <3>1. \A i \in DOMAIN accepted'[r] :
             /\ accepted'[r][i].nonce # None
             /\ accepted'[r][i].nonce[1] = r
             /\ accepted'[r][i].nonce[2] \in 1 .. issued[r]
      <4>1. ASSUME NEW i \in 1 .. n
            PROVE  /\ accepted'[r][i].nonce \in Nonces
                   /\ accepted'[r][i].nonce[1] = r
                   /\ accepted'[r][i].nonce[2] \in 1 .. issued[r]
        BY <2>6, <2>8
      <4>2. /\ accepted'[r][n + 1].nonce \in Nonces
            /\ accepted'[r][n + 1].nonce[1] = r
            /\ accepted'[r][n + 1].nonce[2] \in 1 .. issued[r]
        BY <2>1, <2>5, <2>6, <2>7
      <4>. QED  BY <1>5, <2>6, <2>10, <4>1, <4>2
    <3>2. \A i, j \in DOMAIN accepted'[r] :
             accepted'[r][i].nonce = accepted'[r][j].nonce => i = j
      BY <2>5, <2>6, <2>8, <2>9, <2>10
    <3>. QED  BY <2>2, <2>3, <3>1, <3>2
  <2>12. ASSUME NEW q \in Receivers, q # r
         PROVE  Books(q)'
    <3>1. /\ accepted'[q] = accepted[q] /\ expected'[q] = expected[q]
          /\ issued'[q] = issued[q]
      BY <2>2, <2>4, <2>12
    <3>2. Books(q)
      BY <1>1
    <3>. QED  BY <3>1, <3>2
  <2>. HIDE DEF Books
  <2>. QED  BY <2>11, <2>12
<1>10. ASSUME NEW p \in net, RecvNonceRequest(r, p), requests'[r] >= LockAfter
       PROVE  UNCHANGED <<expected, issued, accepted>>
  BY <1>10 DEF RecvNonceRequest
<1>11. ASSUME NEW p \in net, RecvSigned(r, p), p.nonce # expected[r]
       PROVE  /\ expected' = [expected EXCEPT ![r] = None]
              /\ UNCHANGED <<issued, accepted>>
  BY <1>11 DEF RecvSigned, Rejected
<1>12. ASSUME PurgeNonce(r) \/ ResetReceiver(r)
       PROVE  /\ expected' = [expected EXCEPT ![r] = None]
              /\ UNCHANGED <<issued, accepted>>
  BY <1>12 DEF PurgeNonce, ResetReceiver
<1>13. ASSUME NEW b \in BOOLEAN, CheckNodeLock(r, b)
       PROVE  UNCHANGED <<expected, issued, accepted>>
  BY <1>13 DEF CheckNodeLock
<1>. HIDE DEF Books
<1>. QED
  BY <1>6, <1>7, <1>8, <1>9, <1>10, <1>11, <1>12, <1>13 DEF ReceiverStep

\* A nonce verifies one message, although the network repeats messages and
\* requests, the sender signs several messages, and nodes are reset.
THEOREM NonceUsedOnce == Spec => []NonceAcceptedOnce
<1>1. Init => NoncesUsedUp /\ NonceAcceptedOnce
  BY DEF Init, NoncesUsedUp, NonceAcceptedOnce
<1>2. ASSUME TypeOK, NoncesUsedUp, NonceAcceptedOnce, [Next]_vars
      PROVE  NoncesUsedUp' /\ NonceAcceptedOnce'
  <2>1. CASE UNCHANGED <<expected, issued, accepted>>
    BY <1>2, <2>1 DEF NoncesUsedUp, NonceAcceptedOnce
  <2>2. ASSUME NEW s \in Senders, SenderStep(s)
        PROVE  UNCHANGED <<expected, issued, accepted>>
    BY <2>2
    DEF SenderStep, Sign, SignFails, RecvNonce, SendSigned, Timeout, ResetSender, receiver
  <2>3. ASSUME NEW r \in Receivers, ReceiverStep(r)
        PROVE  NoncesUsedUp' /\ NonceAcceptedOnce'
    BY <1>2, <2>3, ReceiverKeepsNonces
  <2>. QED  BY <1>2, <2>1, <2>2, <2>3 DEF Next, vars
<1>. QED  BY TypeCorrect, <1>1, <1>2, PTL DEF Spec

-----------------------------------------------------------------------------
(* The lock *)

\* A node that hangs is locked in EEPROM, and one that runs is not: only the
\* unlock pin brings a locked node back.
THEOREM LockOutlivesReset == Spec => []LockInEEPROM
<1>1. Init => LockInEEPROM
  BY DEF Init, LockInEEPROM
<1>2. ASSUME TypeOK, LockInEEPROM, [Next]_vars PROVE LockInEEPROM'
  <2>1. CASE UNCHANGED <<phase, lockCounter>>
    BY <1>2, <2>1 DEF LockInEEPROM
  <2>2. ASSUME NEW s \in Senders, SenderStep(s)
        PROVE  UNCHANGED <<phase, lockCounter>>
    BY <2>2
    DEF SenderStep, Sign, SignFails, RecvNonce, SendSigned, Timeout, ResetSender, receiver
  <2>3. ASSUME NEW r \in Receivers, NodeLock(r) PROVE LockInEEPROM'
    BY <1>2, <2>3 DEF NodeLock, LockInEEPROM, TypeOK
  <2>4. ASSUME NEW r \in Receivers, ReceiverStep(r) PROVE LockInEEPROM'
    <3>1. ASSUME NEW b \in BOOLEAN, CheckNodeLock(r, b) PROVE LockInEEPROM'
      BY <1>2, <2>3, <3>1 DEF CheckNodeLock, LockInEEPROM, TypeOK
    <3>2. CASE ResetReceiver(r)
      BY <1>2, <3>2 DEF ResetReceiver, LockInEEPROM, TypeOK
    <3>3. ASSUME NEW p \in net, RecvNonceRequest(r, p) \/ RecvSigned(r, p)
          PROVE  NodeLock(r) \/ UNCHANGED <<phase, lockCounter>>
      BY <3>3 DEF RecvNonceRequest, RecvSigned, Verified, Rejected
    <3>4. CASE PurgeNonce(r)
      BY <2>1, <3>4 DEF PurgeNonce
    <3>. QED  BY <2>1, <2>3, <2>4, <3>1, <3>2, <3>3, <3>4 DEF ReceiverStep
  <2>. QED  BY <1>2, <2>1, <2>2, <2>4 DEF Next, vars
<1>. QED  BY TypeCorrect, <1>1, <1>2, PTL DEF Spec

-----------------------------------------------------------------------------
(* The message that is sent *)

\* A call with another one within it is marked.
OuterNested ==
  \A s \in Senders : \A i \in 1 .. Len(calls[s]) - 1 : calls[s][i].nested

LEMMA SenderKeepsOwn ==
  ASSUME IInv, OuterNested, SendsItsOwnUnlessNested,
         NEW s \in Senders, SenderStep(s)
  PROVE  (OuterNested /\ SendsItsOwnUnlessNested)'
<1>. DEFINE Own(q) ==
       /\ \A i \in 1 .. Len(calls[q]) - 1 : calls[q][i].nested
       /\ calls[q] # <<>> /\ ~Last(calls[q]).nested =>
            /\ msgSign[q].id = Last(calls[q]).id
            /\ msgSign[q].to = Last(calls[q]).to
            /\ waiting[q] \/ msgSign[q].nonce # None
<1>1. \A q \in Senders : Own(q)
  BY DEF OuterNested, SendsItsOwnUnlessNested, Waits, Innermost
<1>2. SUFFICES \A q \in Senders : Own(q)'
  BY DEF OuterNested, SendsItsOwnUnlessNested, Waits, Innermost
<1>3. /\ calls \in [Senders -> Seq(Calls)] /\ waiting \in [Senders -> BOOLEAN]
      /\ msgSign \in [Senders -> Buffers] /\ calls[s] \in Seq(Calls)
  BY DEF IInv, TypeOK
<1>4. ASSUME NEW c, calls' = [calls EXCEPT ![s] = c],
             NEW b, msgSign' = [msgSign EXCEPT ![s] = b],
             NEW w, waiting' = [waiting EXCEPT ![s] = w],
             \A i \in 1 .. Len(c) - 1 : c[i].nested,
             c # <<>> /\ ~Last(c).nested =>
               b.id = Last(c).id /\ b.to = Last(c).to /\ (w \/ b.nonce # None)
      PROVE  \A q \in Senders : Own(q)'
  <2>1. /\ calls'[s] = c /\ msgSign'[s] = b /\ waiting'[s] = w
        /\ \A q \in Senders : q # s =>
             /\ calls'[q] = calls[q] /\ msgSign'[q] = msgSign[q]
             /\ waiting'[q] = waiting[q]
    BY <1>3, <1>4
  <2>2. Own(s)'
    BY <1>4, <2>1
  <2>3. ASSUME NEW q \in Senders, q # s PROVE Own(q)'
    BY <1>1, <2>1, <2>3
  <2>. QED  BY <2>2, <2>3
<1>5. /\ calls = [calls EXCEPT ![s] = calls[s]]
      /\ msgSign = [msgSign EXCEPT ![s] = msgSign[s]]
      /\ waiting = [waiting EXCEPT ![s] = waiting[s]]
  BY <1>3
<1>6. \A c \in Seq(Calls) : c # <<>> => Len(c) \in 1 .. Len(c)
  <2>. TAKE c \in Seq(Calls)
  <2>. QED  BY EmptySeq
<1>7. ASSUME NEW m \in Messages, NEW r \in Receivers, Sign(s, m, r)
      PROVE  \A q \in Senders : Own(q)'
  <2>. DEFINE new == [id |-> m, to |-> r, late |-> FALSE, nested |-> FALSE]
              c == Append(Enclosing(s), new)
              b == [id |-> m, to |-> r, nonce |-> None]
  <2>1. new \in Calls
    BY DEF Calls
  <2>2. /\ c \in Seq(Calls) /\ Last(c) = new /\ Len(c) - 1 = Len(calls[s])
        /\ \A i \in 1 .. Len(calls[s]) : c[i].nested
    <3>1. Len(calls[s]) \in Nat
      BY <1>3, LenProperties
    <3>. HIDE DEF new
    <3>2. /\ c \in Seq(Calls) /\ Last(c) = new
          /\ Len(c) = Len(calls[s]) + 1
          /\ \A i \in 1 .. Len(calls[s]) : c[i].nested
      BY <1>3, <2>1, CallsGrow DEF Enclosing
    <3>. HIDE DEF c
    <3>. QED  BY <3>1, <3>2
  <2>3. /\ calls' = [calls EXCEPT ![s] = c] /\ msgSign' = [msgSign EXCEPT ![s] = b]
        /\ waiting' = [waiting EXCEPT ![s] = TRUE]
    BY <1>7 DEF Sign, BeginSign
  <2>4. b.id = new.id /\ b.to = new.to
    OBVIOUS
  <2>. HIDE DEF c, b, new
  <2>. QED  BY <1>4, <2>2, <2>3, <2>4
<1>8. ASSUME NEW m \in Messages, NEW r \in Receivers, SignFails(s, m, r)
      PROVE  \A q \in Senders : Own(q)'
  <2>. DEFINE c == Enclosing(s)
              b == [id |-> NonceRequest, to |-> r, nonce |-> None]
  <2>1. /\ c \in Seq(Calls) /\ Len(c) = Len(calls[s]) /\ Len(c) \in Nat
        /\ \A i \in 1 .. Len(c) : c[i].nested
    <3>1. [id |-> m, to |-> r, late |-> FALSE, nested |-> FALSE] \in Calls
      BY DEF Calls
    <3>2. Len(calls[s]) \in Nat
      BY <1>3, LenProperties
    <3>. QED  BY <1>3, <3>1, <3>2, CallsGrow DEF Enclosing
  <2>2. c # <<>> => Last(c).nested
    BY <1>6, <2>1 DEF Last
  <2>3. /\ calls' = [calls EXCEPT ![s] = c] /\ msgSign' = [msgSign EXCEPT ![s] = b]
        /\ waiting' = [waiting EXCEPT ![s] = TRUE]
    BY <1>8 DEF SignFails, BeginSign
  <2>. HIDE DEF c, b
  <2>4. \A i \in 1 .. Len(c) - 1 : c[i].nested
    BY <2>1
  <2>. QED  BY <1>4, <2>2, <2>3, <2>4
<1>9. ASSUME NEW p \in net, RecvNonce(s, p)
      PROVE  \A q \in Senders : Own(q)'
  <2>. DEFINE b == [msgSign[s] EXCEPT !.nonce = p.nonce]
  <2>1. /\ msgSign' = [msgSign EXCEPT ![s] = b]
        /\ waiting' = [waiting EXCEPT ![s] = FALSE] /\ calls' = calls
    BY <1>9 DEF RecvNonce
  <2>2. p.nonce # None
    BY <1>9, SigningAssumption DEF RecvNonce, IInv, TypeOK, Packets, Nonces
  <2>3. b.id = msgSign[s].id /\ b.to = msgSign[s].to /\ b.nonce = p.nonce
    <3>1. msgSign[s] \in Buffers
      BY <1>3
    <3>. QED  BY <3>1 DEF Buffers
  <2>. HIDE DEF b
  <2>4. /\ \A i \in 1 .. Len(calls[s]) - 1 : calls[s][i].nested
        /\ calls[s] # <<>> /\ ~Last(calls[s]).nested =>
             b.id = Last(calls[s]).id /\ b.to = Last(calls[s]).to /\ b.nonce # None
    BY <1>1, <2>2, <2>3
  <2>5. calls' = [calls EXCEPT ![s] = calls[s]]
    BY <1>5, <2>1
  <2>. QED  BY <1>4, <2>1, <2>4, <2>5
<1>10. ASSUME NEW c, calls' = [calls EXCEPT ![s] = c], c \in Seq(Calls),
              UNCHANGED <<msgSign, waiting>>, calls[s] # <<>>,
              Len(c) = Len(calls[s]) - 1,
              \A i \in 1 .. Len(c) : c[i].nested = calls[s][i].nested
       PROVE  \A q \in Senders : Own(q)'
  <2>1. \A i \in 1 .. Len(c) : c[i].nested
    BY <1>1, <1>10
  <2>2. c # <<>> => Last(c).nested
    BY <1>6, <1>10, <2>1 DEF Last
  <2>3. \A i \in 1 .. Len(c) - 1 : c[i].nested
    BY <1>10, <2>1, LenProperties
  <2>. QED  BY <1>4, <1>5, <1>10, <2>2, <2>3, ZenonT(40)
<1>11. CASE SendSigned(s)
  <2>1. calls[s] # <<>> /\ calls' = [calls EXCEPT ![s] = Front(calls[s])]
    BY <1>11 DEF SendSigned, Waits
  <2>2. UNCHANGED <<msgSign, waiting>>
    BY <1>11 DEF SendSigned
  <2>3. /\ Front(calls[s]) \in Seq(Calls) /\ Len(Front(calls[s])) = Len(calls[s]) - 1
        /\ \A i \in 1 .. Len(calls[s]) - 1 : Front(calls[s])[i] = calls[s][i]
    BY <1>3, <2>1, CallsShrink
  <2>. QED  BY <1>10, <2>1, <2>2, <2>3
<1>12. CASE Timeout(s)
  <2>1. calls[s] # <<>> /\ calls' = [calls EXCEPT ![s] = Expired(calls[s])]
    BY <1>12 DEF Timeout, Waits, Expired
  <2>2. UNCHANGED <<msgSign, waiting>>
    BY <1>12 DEF Timeout
  <2>3. /\ Expired(calls[s]) \in Seq(Calls)
        /\ Len(Expired(calls[s])) = Len(calls[s]) - 1
        /\ \A i \in 1 .. Len(calls[s]) - 1 :
             Expired(calls[s])[i].nested = calls[s][i].nested
    BY <1>3, <2>1, CallsShrink
  <2>. QED  BY <1>10, <2>1, <2>2, <2>3
<1>13. CASE ResetSender(s)
  <2>1. /\ calls' = [calls EXCEPT ![s] = <<>>] /\ msgSign' = [msgSign EXCEPT ![s] = Blank]
        /\ waiting' = [waiting EXCEPT ![s] = FALSE]
    BY <1>13 DEF ResetSender
  <2>2. \A i \in 1 .. Len(<<>>) - 1 : <<>>[i].nested
    BY EmptySeq
  <2>. QED  BY <1>4, <2>1, <2>2
<1>. HIDE DEF Own
<1>. QED  BY <1>7, <1>8, <1>9, <1>11, <1>12, <1>13 DEF SenderStep

\* A call sends its own message, with a nonce, unless a handler has called
\* signerSignMsg() within it.
THEOREM SendsItsOwn == Spec => []SendsItsOwnUnlessNested
<1>1. Init => OuterNested /\ SendsItsOwnUnlessNested
  BY EmptySeq DEF Init, OuterNested, SendsItsOwnUnlessNested, Waits
<1>2. ASSUME IInv, OuterNested, SendsItsOwnUnlessNested, [Next]_vars
      PROVE  OuterNested' /\ SendsItsOwnUnlessNested'
  <2>1. CASE UNCHANGED <<calls, msgSign, waiting>>
    BY <1>2, <2>1 DEF OuterNested, SendsItsOwnUnlessNested, Waits, Innermost
  <2>2. ASSUME NEW s \in Senders, SenderStep(s)
        PROVE  OuterNested' /\ SendsItsOwnUnlessNested'
    BY <1>2, <2>2, SenderKeepsOwn
  <2>3. ASSUME NEW r \in Receivers, ReceiverStep(r)
        PROVE  UNCHANGED <<calls, msgSign, waiting>>
    BY <2>3
    DEF ReceiverStep, RecvNonceRequest, RecvSigned, CheckNodeLock, PurgeNonce,
        ResetReceiver, sender
  <2>. QED  BY <1>2, <2>1, <2>2, <2>3 DEF Next, vars
<1>. QED  BY Invariant, <1>1, <1>2, PTL DEF Spec
=============================================================================
