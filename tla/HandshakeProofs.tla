-------------------------- MODULE HandshakeProofs --------------------------
(***************************************************************************)
(* Proofs about Handshake, for all keys, numbers of calls and candidates.  *)
(***************************************************************************)
EXTENDS Handshake, TLAPS

(***************************************************************************)
(* The inductive invariant.  Of one session description at most one copy   *)
(* is under way: in the mailbox of Hi, in the hands of Hi, or, as its      *)
(* answer, in the mailbox of Lo; and as long as it is, Lo is waiting for   *)
(* it in recvSignal and has not started over.                              *)
(***************************************************************************)
OfferUnderWay ==
  mailbox[Hi] # <<>> =>
    /\ pc[Lo] = "recv" /\ mailbox[Hi][1].epoch = epoch[Lo]
    /\ ~HiHolds /\ mailbox[Lo] = <<>>

OfferHeld ==
  HiHolds =>
    /\ pc[Lo] = "recv" /\ signal[Hi].epoch = epoch[Lo]
    /\ mailbox[Lo] = <<>>

AnswerUnderWay ==
  mailbox[Lo] # <<>> => pc[Lo] = "recv" /\ mailbox[Lo][1].re = epoch[Lo]

AnswerHeld == pc[Lo] \in {"apply", "wait", "open"} => signal[Lo].re = epoch[Lo]

Session ==
  /\ pc[Hi] # "offer"
  /\ OfferUnderWay /\ OfferHeld /\ AnswerUnderWay /\ AnswerHeld

\* Without Js, the callbacks that ran are the first ones.
InOrder ==
  \A p \in Peers :
    /\ \A c \in ran[p] : \A d \in 1 .. LastCall : d < c => d \in ran[p]
    /\ pc[p] = "send" => LastCall \in ran[p]

-----------------------------------------------------------------------------
\* The two keys are in order: Lo makes the offer, Hi answers it.
LEMMA Roles ==
  /\ Lo # Hi /\ Peers = {Lo, Hi}
  /\ Other(Lo) = Hi /\ Other(Hi) = Lo
  /\ Offers(Lo) /\ ~Offers(Hi)
BY HandshakeAssumption DEF Peers, Other, Offers

LEMMA OtherIsPeer == \A p \in Peers : Other(p) \in Peers /\ Other(p) # p
BY HandshakeAssumption DEF Peers, Other

\* Every variable keeps its type: the control states of Open, and mailboxes
\* that never hold more than one signal.
THEOREM TypeCorrect == Spec => []TypeOK
<1>1. Init => TypeOK
  BY HandshakeAssumption DEF Init, TypeOK, NoSignal, Signals, LastCall, Candidates
<1>2. TypeOK /\ [Next]_vars => TypeOK'
  <2> SUFFICES ASSUME TypeOK, [Next]_vars PROVE TypeOK'
    OBVIOUS
  <2> USE HandshakeAssumption DEF TypeOK
  <2>1. ASSUME NEW p \in Peers, Start(p) PROVE TypeOK'
    BY <2>1 DEF Start, NoSignal, Signals, Candidates
  <2>2. ASSUME NEW p \in Peers, CreateOffer(p) PROVE TypeOK'
    BY <2>2 DEF CreateOffer
  <2>3. ASSUME NEW p \in Peers, NEW c \in 1 .. LastCall, Candidate(p, c) PROVE TypeOK'
    BY <2>3 DEF Candidate
  <2>4. ASSUME NEW p \in Peers, IceReady(p) PROVE TypeOK'
    BY <2>4 DEF IceReady
  <2>5. ASSUME NEW p \in Peers, GatherCanceled(p) PROVE TypeOK'
    BY <2>5 DEF GatherCanceled
  <2>6. ASSUME NEW p \in Peers, SendSignal(p) PROVE TypeOK'
    <3> DEFINE m == [epoch |-> epoch[p], re |-> signal[p].epoch, cands |-> ran[p] \cap Candidates]
    <3>1. m \in Signals
      BY DEF Signals
    <3>2. Other(p) \in Peers /\ Append(mailbox[Other(p)], m) = <<m>>
      BY <2>6, OtherIsPeer DEF SendSignal
    <3> HIDE DEF m
    <3>3. mailbox' = [mailbox EXCEPT ![Other(p)] = <<m>>]
      BY <2>6, <3>2 DEF SendSignal, m
    <3>4. mailbox' \in [Peers -> {<<>>} \cup {<<k>> : k \in Signals}]
      BY <3>1, <3>2, <3>3
    <3> QED
      BY <2>6, <3>4 DEF SendSignal
  <2>7. ASSUME NEW p \in Peers, RecvSignal(p) PROVE TypeOK'
    <3>1. PICK m \in Signals : mailbox[p] = <<m>>
      BY <2>7 DEF RecvSignal
    <3>2. Head(mailbox[p]) = m /\ Tail(mailbox[p]) = <<>>
      BY <3>1
    <3> QED
      BY <2>7, <3>2 DEF RecvSignal
  <2>8. ASSUME NEW p \in Peers, Apply(p) PROVE TypeOK'
    BY <2>8 DEF Apply
  <2>9. ASSUME NEW p \in Peers, IceConnected(p) PROVE TypeOK'
    BY <2>9 DEF IceConnected
  <2>10. ASSUME NEW p \in Peers, IceClosed(p) PROVE TypeOK'
    BY <2>10 DEF IceClosed, Fault
  <2>11. ASSUME NEW p \in Peers, OpenReturns(p) PROVE TypeOK'
    BY <2>11 DEF OpenReturns
  <2>12. ASSUME NEW p \in Peers, TimerFires(p) PROVE TypeOK'
    BY <2>12 DEF TimerFires, Fault
  <2>13. ASSUME NEW p \in Peers, CallFails(p) PROVE TypeOK'
    BY <2>13 DEF CallFails, Fault
  <2>14. ASSUME NEW p \in Peers, CloseConn(p) PROVE TypeOK'
    BY <2>14 DEF CloseConn
  <2>15. CASE UNCHANGED vars
    BY <2>15 DEF vars
  <2> QED
    BY <2>1, <2>2, <2>3, <2>4, <2>5, <2>6, <2>7, <2>8, <2>9, <2>10, <2>11, <2>12,
       <2>13, <2>14, <2>15 DEF Next, Running
<1> QED
  BY <1>1, <1>2, PTL DEF Spec

-----------------------------------------------------------------------------
\* The session invariant is inductive: whatever either peer does, the only
\* description under way is the one that Lo is waiting to see answered.
THEOREM SessionInvariant == Spec => []Session
<1>1. Init => Session
  BY Roles DEF Init, Session, OfferUnderWay, OfferHeld, AnswerUnderWay, AnswerHeld, HiHolds
<1>2. TypeOK /\ Session /\ [Next]_vars => Session'
  <2> SUFFICES ASSUME TypeOK, Session, [Next]_vars PROVE Session'
    OBVIOUS
  <2> USE Roles DEF TypeOK, Session, OfferUnderWay, OfferHeld, AnswerUnderWay, AnswerHeld, HiHolds
  <2>1. ASSUME NEW p \in Peers, Start(p) PROVE Session'
    BY <2>1 DEF Start, Ended
  <2>2. ASSUME NEW p \in Peers, CreateOffer(p) PROVE Session'
    BY <2>2 DEF CreateOffer
  <2>3. ASSUME NEW p \in Peers, NEW c \in 1 .. LastCall, Candidate(p, c) PROVE Session'
    BY <2>3 DEF Candidate
  <2>4. ASSUME NEW p \in Peers, IceReady(p) PROVE Session'
    BY <2>4 DEF IceReady
  <2>5. ASSUME NEW p \in Peers, GatherCanceled(p) PROVE Session'
    BY <2>5 DEF GatherCanceled
  <2>6. ASSUME NEW p \in Peers, SendSignal(p) PROVE Session'
    <3> DEFINE m == [epoch |-> epoch[p], re |-> signal[p].epoch, cands |-> ran[p] \cap Candidates]
    <3>1. m.epoch = epoch[p] /\ m.re = signal[p].epoch
      OBVIOUS
    <3>2. Append(mailbox[Other(p)], m) = <<m>>
      BY <2>6 DEF SendSignal
    <3>3. mailbox' = [mailbox EXCEPT ![Other(p)] = <<m>>]
      BY <2>6, <3>2 DEF SendSignal
    <3> HIDE DEF m
    <3>4. CASE p = Lo
      BY <2>6, <3>1, <3>3, <3>4 DEF SendSignal
    <3>5. CASE p = Hi
      BY <2>6, <3>1, <3>3, <3>5 DEF SendSignal
    <3> QED
      BY <3>4, <3>5
  <2>7. ASSUME NEW p \in Peers, RecvSignal(p) PROVE Session'
    <3>1. PICK m \in Signals : mailbox[p] = <<m>>
      BY <2>7 DEF RecvSignal
    <3>2. Head(mailbox[p]) = mailbox[p][1] /\ Tail(mailbox[p]) = <<>>
      BY <3>1
    <3>3. CASE p = Lo
      BY <2>7, <3>2, <3>3 DEF RecvSignal
    <3>4. CASE p = Hi
      BY <2>7, <3>2, <3>4 DEF RecvSignal
    <3> QED
      BY <3>3, <3>4
  <2>8. ASSUME NEW p \in Peers, Apply(p) PROVE Session'
    BY <2>8 DEF Apply
  <2>9. ASSUME NEW p \in Peers, IceConnected(p) PROVE Session'
    BY <2>9 DEF IceConnected
  <2>10. ASSUME NEW p \in Peers, IceClosed(p) PROVE Session'
    BY <2>10 DEF IceClosed
  <2>11. ASSUME NEW p \in Peers, OpenReturns(p) PROVE Session'
    BY <2>11 DEF OpenReturns
  <2>12. ASSUME NEW p \in Peers, TimerFires(p) PROVE Session'
    BY <2>12 DEF TimerFires
  <2>13. ASSUME NEW p \in Peers, CallFails(p) PROVE Session'
    BY <2>13 DEF CallFails
  <2>14. ASSUME NEW p \in Peers, CloseConn(p) PROVE Session'
    BY <2>14 DEF CloseConn
  <2>15. CASE UNCHANGED vars
    BY <2>15 DEF vars
  <2> QED
    BY <2>1, <2>2, <2>3, <2>4, <2>5, <2>6, <2>7, <2>8, <2>9, <2>10, <2>11, <2>12,
       <2>13, <2>14, <2>15 DEF Next, Running
<1> QED
  BY <1>1, <1>2, TypeCorrect, PTL DEF Spec

\* However often Open fails, returns and is called again, the answer that an
\* offerer applies replies to the offer of the same call.
THEOREM AnswersMatch == Spec => []AnswerMatchesOffer
<1>1. Session => AnswerMatchesOffer
  BY Roles DEF Session, AnswerHeld, AnswerMatchesOffer
<1> QED
  BY <1>1, SessionInvariant, PTL

\* sendSignal always finds the other peer's mailbox empty, and never blocks.
THEOREM SendsDoNotBlock == Spec => []SendNeverBlocks
<1>1. TypeOK /\ Session => SendNeverBlocks
  BY Roles DEF TypeOK, Session, OfferUnderWay, OfferHeld, AnswerUnderWay, HiHolds, SendNeverBlocks
<1> QED
  BY <1>1, TypeCorrect, SessionInvariant, PTL

-----------------------------------------------------------------------------
\* Where candidate callbacks run one after the other, every signal carries all
\* the candidates of its sender, whatever their number.
THEOREM CandidatesAreComplete ==
  ASSUME Js = FALSE
  PROVE  Spec => []CandidatesComplete
<1> DEFINE IInv == InOrder /\ CandidatesComplete
<1>1. Init => IInv
  BY DEF Init, InOrder, CandidatesComplete
<1>2. TypeOK /\ IInv /\ [Next]_vars => IInv'
  <2> SUFFICES ASSUME TypeOK, InOrder, CandidatesComplete, [Next]_vars PROVE IInv'
    OBVIOUS
  <2> USE HandshakeAssumption DEF TypeOK, LastCall
  <2>1. ASSUME NEW p \in Peers, Start(p) PROVE IInv'
    BY <2>1 DEF Start, InOrder, CandidatesComplete
  <2>2. ASSUME NEW p \in Peers, NEW c \in 1 .. LastCall, Candidate(p, c) PROVE IInv'
    <3>1. InOrder'
      BY <2>2 DEF Candidate, InOrder
    <3>2. CandidatesComplete'
      BY <2>2 DEF Candidate, CandidatesComplete
    <3> QED
      BY <3>1, <3>2
  <2>3. ASSUME NEW p \in Peers, IceReady(p) PROVE IInv'
    BY <2>3 DEF IceReady, InOrder, CandidatesComplete
  <2>4. ASSUME NEW p \in Peers, SendSignal(p) PROVE IInv'
    <3> DEFINE m == [epoch |-> epoch[p], re |-> signal[p].epoch, cands |-> ran[p] \cap Candidates]
    <3>1. m.cands = Candidates
      BY <2>4 DEF SendSignal, InOrder, Candidates
    <3>2. Other(p) \in Peers /\ Append(mailbox[Other(p)], m) = <<m>>
      BY <2>4, OtherIsPeer DEF SendSignal
    <3>3. mailbox' = [mailbox EXCEPT ![Other(p)] = <<m>>]
      BY <2>4, <3>2 DEF SendSignal
    <3> HIDE DEF m
    <3>4. CandidatesComplete'
      BY <3>1, <3>2, <3>3 DEF CandidatesComplete
    <3>5. InOrder'
      BY <2>4 DEF SendSignal, InOrder
    <3> QED
      BY <3>4, <3>5
  <2>5. ASSUME NEW p \in Peers, RecvSignal(p) PROVE IInv'
    <3>1. PICK m \in Signals : mailbox[p] = <<m>>
      BY <2>5 DEF RecvSignal
    <3>2. mailbox' = [mailbox EXCEPT ![p] = <<>>]
      BY <2>5, <3>1 DEF RecvSignal
    <3>3. CandidatesComplete'
      BY <3>2 DEF CandidatesComplete
    <3>4. InOrder'
      BY <2>5 DEF RecvSignal, InOrder
    <3> QED
      BY <3>3, <3>4
  <2>6. ASSUME NEW p \in Peers,
               \/ CreateOffer(p) \/ GatherCanceled(p) \/ Apply(p) \/ IceConnected(p)
               \/ IceClosed(p) \/ OpenReturns(p) \/ TimerFires(p) \/ CallFails(p)
               \/ CloseConn(p)
        PROVE  IInv'
    <3>1. /\ ran' = ran /\ mailbox' = mailbox
          /\ \A q \in Peers : pc'[q] = "send" => pc[q] = "send"
      BY <2>6 DEF CreateOffer, GatherCanceled, Apply, IceConnected, IceClosed,
                  OpenReturns, TimerFires, CallFails, CloseConn
    <3> QED
      BY <3>1 DEF InOrder, CandidatesComplete
  <2>7. CASE UNCHANGED vars
    BY <2>7 DEF vars, InOrder, CandidatesComplete
  <2> QED
    BY <2>1, <2>2, <2>3, <2>4, <2>5, <2>6, <2>7 DEF Next, Running
<1> QED
  BY <1>1, <1>2, TypeCorrect, PTL DEF Spec

-----------------------------------------------------------------------------
(***************************************************************************)
(* What Open promises: the refinement of OfferAnswer.                      *)
(***************************************************************************)

\* Until a call has taken a signal it holds none, and it is not connected before
\* it waits for that, and always when it has returned; a call that was made, or answered, has a number.
Unset ==
  /\ pc[Lo] \in {"idle", "offer", "gather", "send", "recv"} => signal[Lo].epoch = 0
  /\ pc[Hi] \in {"idle", "recv"} => signal[Hi].epoch = 0
  /\ \A p \in Peers : pc[p] \in {"offer", "gather", "send", "recv", "apply"} => ~connected[p]
  /\ \A p \in Peers : pc[p] = "open" => connected[p]
  /\ \A p \in Peers : pc[p] # "idle" => epoch[p] # 0
  /\ mailbox[Lo] # <<>> => mailbox[Lo][1].epoch # 0

\* Every variable of a call starts anew.
LEMMA UnsetInvariant == Spec => []Unset
<1>1. Init => Unset
  BY Roles DEF Init, Unset, NoSignal
<1>2. TypeOK /\ Session /\ Unset /\ [Next]_vars => Unset'
  <2> SUFFICES ASSUME TypeOK, Session, Unset, [Next]_vars PROVE Unset'
    OBVIOUS
  <2> USE Roles DEF TypeOK, Unset
  <2>1. ASSUME NEW p \in Peers, Start(p) PROVE Unset'
    <3>1. pc[p] # "wait" /\ pc'[p] \in {"offer", "recv"} /\ epoch[p] \in Nat
      BY <2>1, HandshakeAssumption DEF Start, Ended
    <3> QED
      BY <2>1, <3>1 DEF Start, NoSignal
  <2>2. ASSUME NEW p \in Peers, CreateOffer(p) PROVE Unset'
    BY <2>2 DEF CreateOffer
  <2>3. ASSUME NEW p \in Peers, NEW c \in 1 .. LastCall, Candidate(p, c) PROVE Unset'
    BY <2>3 DEF Candidate
  <2>4. ASSUME NEW p \in Peers, IceReady(p) PROVE Unset'
    BY <2>4 DEF IceReady
  <2>5. ASSUME NEW p \in Peers, GatherCanceled(p) PROVE Unset'
    BY <2>5 DEF GatherCanceled
  <2>6. ASSUME NEW p \in Peers, SendSignal(p) PROVE Unset'
    <3> DEFINE m == [epoch |-> epoch[p], re |-> signal[p].epoch, cands |-> ran[p] \cap Candidates]
    <3>1. m.epoch = epoch[p] /\ Append(mailbox[Other(p)], m) = <<m>>
      BY <2>6 DEF SendSignal
    <3>2. mailbox' = [mailbox EXCEPT ![Other(p)] = <<m>>]
      BY <2>6, <3>1 DEF SendSignal
    <3> HIDE DEF m
    <3> QED
      BY <2>6, <3>1, <3>2 DEF SendSignal
  <2>7. ASSUME NEW p \in Peers, RecvSignal(p) PROVE Unset'
    <3>1. PICK m \in Signals : mailbox[p] = <<m>>
      BY <2>7 DEF RecvSignal
    <3>2. Head(mailbox[p]) = mailbox[p][1] /\ Tail(mailbox[p]) = <<>>
      BY <3>1
    <3> QED
      BY <2>7, <3>2 DEF RecvSignal
  <2>8. ASSUME NEW p \in Peers, Apply(p) PROVE Unset'
    BY <2>8 DEF Apply
  <2>9. ASSUME NEW p \in Peers, IceConnected(p) PROVE Unset'
    BY <2>9 DEF IceConnected, Linked
  <2>10. ASSUME NEW p \in Peers, IceClosed(p) PROVE Unset'
    BY <2>10 DEF IceClosed
  <2>11. ASSUME NEW p \in Peers, OpenReturns(p) PROVE Unset'
    BY <2>11 DEF OpenReturns
  <2>12. ASSUME NEW p \in Peers, TimerFires(p) PROVE Unset'
    BY <2>12 DEF TimerFires
  <2>13. ASSUME NEW p \in Peers, CallFails(p) PROVE Unset'
    BY <2>13 DEF CallFails
  <2>14. ASSUME NEW p \in Peers, CloseConn(p) PROVE Unset'
    BY <2>14 DEF CloseConn
  <2>15. CASE UNCHANGED vars
    BY <2>15 DEF vars
  <2> QED
    BY <2>1, <2>2, <2>3, <2>4, <2>5, <2>6, <2>7, <2>8, <2>9, <2>10, <2>11, <2>12,
       <2>13, <2>14, <2>15 DEF Next, Running
<1> QED
  BY <1>1, <1>2, TypeCorrect, SessionInvariant, PTL DEF Spec

\* A step that changes nothing of what OfferAnswer shows.
Quiet ==
  /\ epoch' = epoch /\ Asking' = Asking /\ Reply' = Reply
  /\ Holds' = Holds /\ Up' = Up /\ IsOpen' = IsOpen

\* A call starts, and replaces the one before.
LEMMA StartCalls ==
  ASSUME TypeOK, Session, Unset, NEW p \in Peers, Start(p)
  PROVE  Negotiation!Call(p)
<1> USE Roles DEF TypeOK
<1>1. pc[p] \in Ended /\ ~Up[p] /\ ~IsOpen[p]
  BY DEF Start, Ended, Up, IsOpen
<1>2. epoch' = [epoch EXCEPT ![p] = @ + 1]
  BY DEF Start
<1>3. Holds' = [Holds EXCEPT ![p] = 0]
  BY DEF Start, Holds, NoSignal
<1>4. Up' = Up /\ IsOpen' = IsOpen
  BY <1>1 DEF Start, Up, IsOpen, Ended
<1>5. CASE p = Lo
  <2>1. ~HiHolds /\ mailbox[Lo] = <<>>
    BY <1>1, <1>5 DEF Session, OfferHeld, AnswerUnderWay, Ended
  <2>2. Asking' = TRUE
    BY <1>5 DEF Start, Asking
  <2>3. Reply' = 0
    BY <1>5, <2>1 DEF Start, Reply, HiHolds, NoSignal
  <2> QED
    BY <1>1, <1>2, <1>3, <1>4, <1>5, <2>2, <2>3 DEF Negotiation!Call
<1>6. CASE p = Hi
  <2>1. ~HiHolds /\ ~HiHolds'
    BY <1>1, <1>6 DEF Start, HiHolds, Ended
  <2>2. Asking' = Asking /\ Reply' = Reply
    BY <1>6, <2>1 DEF Start, Asking, Reply
  <2> QED
    BY <1>1, <1>2, <1>3, <1>4, <1>6, <2>2 DEF Negotiation!Call
<1> QED
  BY <1>5, <1>6

\* A signal is put in the mailbox: the offer may be taken as before, and the
\* reply is on its way.
LEMMA SendIsQuiet ==
  ASSUME TypeOK, Session, Unset, NEW p \in Peers, SendSignal(p)
  PROVE  Quiet
<1> USE Roles DEF TypeOK
<1> DEFINE m == [epoch |-> epoch[p], re |-> signal[p].epoch, cands |-> ran[p] \cap Candidates]
<1>1. m.epoch = epoch[p] /\ Append(mailbox[Other(p)], m) = <<m>>
  BY DEF SendSignal
<1>2. mailbox' = [mailbox EXCEPT ![Other(p)] = <<m>>] /\ Head(<<m>>) = m
  BY <1>1 DEF SendSignal
<1> HIDE DEF m
<1>3. epoch' = epoch /\ Holds' = Holds /\ IsOpen' = IsOpen
  BY DEF SendSignal, Holds, IsOpen
<1>4. ~connected[p] /\ Up' = Up
  BY DEF SendSignal, Unset, Up
<1>5. CASE p = Lo
  BY <1>2, <1>3, <1>4, <1>5 DEF SendSignal, Asking, Reply, HiHolds, Quiet
<1>6. CASE p = Hi
  <2>1. HiHolds /\ ~HiHolds' /\ mailbox'[Lo] = <<m>> /\ mailbox'[Hi] = mailbox[Hi]
    BY <1>2, <1>6 DEF SendSignal, HiHolds
  <2>2. Reply' = Reply
    BY <1>1, <1>2, <1>6, <2>1 DEF Reply
  <2>3. Asking' = Asking
    BY <1>6, <2>1 DEF SendSignal, Asking
  <2> QED
    BY <1>3, <1>4, <2>2, <2>3 DEF Quiet
<1> QED
  BY <1>5, <1>6

\* Hi takes the offer of the call that Lo is in, or Lo takes the answer to it.
LEMMA RecvTakes ==
  ASSUME TypeOK, Session, Unset, NEW p \in Peers, RecvSignal(p)
  PROVE  IF p = Lo THEN Negotiation!TakeAnswer ELSE Negotiation!TakeOffer
<1> USE Roles DEF TypeOK
<1>1. PICK m \in Signals : mailbox[p] = <<m>>
  BY DEF RecvSignal
<1>2. /\ Head(mailbox[p]) = m /\ Tail(mailbox[p]) = <<>>
      /\ mailbox[p][1] = m /\ mailbox[p] # <<>>
  BY <1>1 DEF RecvSignal
<1>3. /\ pc[p] = "recv" /\ pc' = [pc EXCEPT ![p] = "apply"]
      /\ signal' = [signal EXCEPT ![p] = m] /\ mailbox' = [mailbox EXCEPT ![p] = <<>>]
      /\ epoch' = epoch /\ connected' = connected
  BY <1>2 DEF RecvSignal
<1>4. Holds' = [Holds EXCEPT ![p] = m.epoch] /\ Holds[p] = 0
  BY <1>3 DEF Holds, Unset
<1>5. Up' = Up /\ IsOpen' = IsOpen
  BY <1>3 DEF Up, IsOpen
<1>6. CASE p = Lo
  <2>1. ~HiHolds /\ ~HiHolds' /\ mailbox[Lo] # <<>>
    BY <1>2, <1>3, <1>6 DEF Session, OfferHeld, HiHolds
  <2>2. mailbox[Hi] = <<>>
    BY <2>1 DEF Session, OfferUnderWay
  <2>3. Reply = m.epoch /\ m.epoch # 0
    BY <1>2, <1>6, <2>1 DEF Reply, Unset
  <2>4. Reply' = m.epoch
    BY <1>3, <1>6, <2>1 DEF Reply
  <2>5. Asking' = Asking
    BY <1>3, <1>6, <2>2 DEF Asking
  <2> QED
    BY <1>3, <1>4, <1>5, <1>6, <2>3, <2>4, <2>5 DEF Negotiation!TakeAnswer
<1>7. CASE p = Hi
  <2>1. pc[Lo] = "recv" /\ m.epoch = epoch[Lo]
    BY <1>2, <1>7 DEF Session, OfferUnderWay
  <2>2. Asking /\ Asking' = FALSE
    BY <1>2, <1>3, <1>7, <2>1 DEF Asking
  <2>3. Reply' = epoch[Hi]
    BY <1>3, <1>7 DEF Reply, HiHolds
  <2> QED
    BY <1>3, <1>4, <1>5, <1>7, <2>1, <2>2, <2>3 DEF Negotiation!TakeOffer
<1> QED
  BY <1>6, <1>7

\* A call that fails before it is done withdraws what it owes.
LEMMA FailureWithdraws ==
  ASSUME TypeOK, Session, Unset, NEW p \in Peers, GatherCanceled(p) \/ CallFails(p)
  PROVE  Negotiation!WithdrawOffer \/ Negotiation!WithdrawAnswer \/ Quiet
<1> USE Roles DEF TypeOK
<1>1. /\ pc[p] \in {"offer", "gather", "send", "apply"} \/ (pc[p] = "recv" /\ p = Hi)
      /\ pc' = [pc EXCEPT ![p] = "failed"]
      /\ epoch' = epoch /\ signal' = signal /\ mailbox' = mailbox /\ connected' = connected
  BY DEF GatherCanceled, CallFails
<1>2. Holds' = Holds /\ Up' = Up /\ IsOpen' = IsOpen
  BY <1>1 DEF Holds, Up, IsOpen
<1>3. CASE p = Lo
  <2>1. Reply' = Reply
    BY <1>1, <1>3 DEF Reply, HiHolds
  <2>2. Asking' = FALSE
    BY <1>1, <1>3 DEF Asking
  <2>3. Asking \in BOOLEAN
    BY DEF Asking
  <2> QED
    BY <1>1, <1>2, <2>1, <2>2, <2>3 DEF Negotiation!WithdrawOffer, Quiet
\* An answerer that has not received an offer owes nothing.
<1>4. CASE p = Hi /\ pc[p] = "recv"
  <2>1. ~HiHolds /\ ~HiHolds'
    BY <1>1, <1>4 DEF HiHolds
  <2>2. Reply' = Reply /\ Asking' = Asking
    BY <1>1, <1>4, <2>1 DEF Reply, Asking
  <2> QED
    BY <1>1, <1>2, <2>2 DEF Quiet
<1>5. CASE p = Hi /\ pc[p] # "recv"
  <2>1. HiHolds /\ ~HiHolds'
    BY <1>1, <1>5 DEF HiHolds, Session
  <2>2. pc[Lo] = "recv" /\ mailbox[Lo] = <<>> /\ signal[Lo].epoch = 0 /\ epoch[Hi] # 0
    BY <1>1, <1>5, <2>1 DEF Session, OfferHeld, Unset
  <2>3. Reply = epoch[Hi] /\ Reply' = 0 /\ Holds[Lo] = 0 /\ Asking' = Asking
    BY <1>1, <1>5, <2>1, <2>2 DEF Reply, Holds, Asking
  <2> QED
    BY <1>1, <1>2, <2>2, <2>3 DEF Negotiation!WithdrawAnswer
<1> QED
  BY <1>3, <1>4, <1>5

\* The minute is over, or the connection is closed.
LEMMA ConnectionEnds ==
  ASSUME TypeOK, Unset, NEW p \in Peers, TimerFires(p) \/ CloseConn(p)
  PROVE  Negotiation!End(p) \/ Quiet
<1> USE Roles DEF TypeOK
<1>1. /\ pc[p] \in {"wait", "open"} /\ pc'[p] \in {"failed", "closed"}
      /\ pc' = [pc EXCEPT ![p] = pc'[p]] /\ (pc[p] = "open" => connected[p])
      /\ epoch' = epoch /\ signal' = signal /\ mailbox' = mailbox /\ connected' = connected
  BY DEF TimerFires, CloseConn, Unset
<1>2. Asking' = Asking /\ Reply' = Reply /\ Holds' = Holds
  BY <1>1 DEF Asking, Reply, HiHolds, Holds
<1>3. Up' = [Up EXCEPT ![p] = FALSE] /\ IsOpen' = [IsOpen EXCEPT ![p] = FALSE]
  BY <1>1 DEF Up, IsOpen
<1>4. CASE Up[p]
  BY <1>1, <1>2, <1>3, <1>4 DEF Negotiation!End
<1>5. CASE ~Up[p]
  BY <1>1, <1>2, <1>5 DEF Quiet, Up, IsOpen
<1> QED
  BY <1>4, <1>5

\* peer.Open keeps the promises of OfferAnswer, whatever fails and however often it
\* is called again: each step is one of that module, or does not show there.
THEOREM Refinement == Spec => ImplementsOfferAnswer
<1>1. Init => Negotiation!Init
  <2> SUFFICES ASSUME Init PROVE Negotiation!Init
    OBVIOUS
  <2>1. Negotiation!Peers = Peers
    BY DEF Peers, Negotiation!Peers
  <2>2. Asking = FALSE /\ Reply = 0
    BY Roles DEF Init, Asking, Reply, HiHolds, NoSignal
  <2>3. /\ Holds = [p \in Peers |-> 0] /\ Up = [p \in Peers |-> FALSE]
        /\ IsOpen = [p \in Peers |-> FALSE]
    BY DEF Init, Holds, Up, IsOpen, NoSignal
  <2> QED
    BY <2>1, <2>2, <2>3 DEF Init, Negotiation!Init
<1>2. TypeOK /\ Session /\ Unset /\ [Next]_vars => [Negotiation!Next]_(Negotiation!vars)
  <2> SUFFICES ASSUME TypeOK, Session, Unset, [Next]_vars
               PROVE  Negotiation!Next \/ Quiet
    BY DEF Quiet, Negotiation!vars
  <2>0. Peers = Negotiation!Peers
    BY DEF Peers, Negotiation!Peers
  <2> USE Roles
  <2>1. ASSUME NEW p \in Peers, Start(p) PROVE Negotiation!Next
    BY <2>0, <2>1, StartCalls DEF Negotiation!Next
  <2>2. ASSUME NEW p \in Peers, SendSignal(p) PROVE Quiet
    BY <2>2, SendIsQuiet
  <2>3. ASSUME NEW p \in Peers, RecvSignal(p) PROVE Negotiation!Next
    BY <2>3, RecvTakes DEF Negotiation!Next
  <2>4. ASSUME NEW p \in Peers, GatherCanceled(p) \/ CallFails(p)
        PROVE  Negotiation!Next \/ Quiet
    BY <2>4, FailureWithdraws DEF Negotiation!Next
  <2>5. ASSUME NEW p \in Peers, TimerFires(p) \/ CloseConn(p)
        PROVE  Negotiation!Next \/ Quiet
    BY <2>0, <2>5, ConnectionEnds DEF Negotiation!Next
  <2>6. ASSUME NEW p \in Peers, CreateOffer(p) \/ IceReady(p) PROVE Quiet
    BY <2>6 DEF CreateOffer, IceReady, TypeOK, Session, Quiet, Asking, Reply, HiHolds, Holds,
                Up, IsOpen
  <2>7. ASSUME NEW p \in Peers, Apply(p) PROVE Quiet
    BY <2>7 DEF Apply, TypeOK, Unset, Quiet, Asking, Reply, HiHolds, Holds, Up, IsOpen
  <2>8. ASSUME NEW p \in Peers, IceConnected(p) PROVE Negotiation!Next
    <3>1. Negotiation!Match /\ ~Up[p]
      BY <2>0, <2>8 DEF IceConnected, Linked, Negotiation!Match, Holds, Up, Unset
    <3>2. Up' = [Up EXCEPT ![p] = TRUE]
      BY <2>8 DEF IceConnected, Linked, TypeOK, Up
    <3>3. /\ epoch' = epoch /\ Asking' = Asking /\ Reply' = Reply
          /\ Holds' = Holds /\ IsOpen' = IsOpen
      BY <2>8 DEF IceConnected, Asking, Reply, HiHolds, Holds, IsOpen
    <3> QED
      BY <2>0, <3>1, <3>2, <3>3 DEF Negotiation!Link, Negotiation!Next
  <2>9. ASSUME NEW p \in Peers, OpenReturns(p) PROVE Negotiation!Next
    <3>1. Up[p] /\ ~IsOpen[p] /\ IsOpen' = [IsOpen EXCEPT ![p] = TRUE]
      BY <2>9 DEF OpenReturns, TypeOK, Up, IsOpen
    <3>2. /\ epoch' = epoch /\ Asking' = Asking /\ Reply' = Reply
          /\ Holds' = Holds /\ Up' = Up
      BY <2>9 DEF OpenReturns, TypeOK, Asking, Reply, HiHolds, Holds, Up
    <3> QED
      BY <2>0, <3>1, <3>2 DEF Negotiation!Open, Negotiation!Next
  <2>10. ASSUME NEW p \in Peers, IceClosed(p) PROVE Quiet
    BY <2>10 DEF IceClosed, Quiet, Asking, Reply, HiHolds, Holds, Up, IsOpen
  <2>11. ASSUME NEW p \in Peers, NEW c \in 1 .. LastCall, Candidate(p, c) PROVE Quiet
    BY <2>11 DEF Candidate, Quiet, Asking, Reply, HiHolds, Holds, Up, IsOpen
  <2>12. CASE UNCHANGED vars
    BY <2>12 DEF vars, Quiet, Asking, Reply, HiHolds, Holds, Up, IsOpen
  <2> QED
    BY <2>1, <2>2, <2>3, <2>4, <2>5, <2>6, <2>7, <2>8, <2>9, <2>10, <2>11, <2>12
       DEF Next, Running
<1> QED
  BY <1>1, <1>2, TypeCorrect, SessionInvariant, UnsetInvariant, PTL
     DEF Spec, ImplementsOfferAnswer, Negotiation!Spec

-----------------------------------------------------------------------------
\* Of two connections that are up at the same time, each is the other's end.
EndsMatch ==
  /\ (\A p \in Peers : Up[p]) => Negotiation!Match
  /\ \A p \in Peers : Up[p] => Holds[p] # 0

\* That much follows from the promises alone.
LEMMA PromisesMatch == Negotiation!Spec => []EndsMatch
<1> USE Roles DEF Negotiation!Peers, Negotiation!Match
<1>1. Negotiation!Init => EndsMatch
  BY DEF Negotiation!Init, EndsMatch
<1>2. EndsMatch /\ [Negotiation!Next]_(Negotiation!vars) => EndsMatch'
  <2> SUFFICES ASSUME EndsMatch, [Negotiation!Next]_(Negotiation!vars) PROVE EndsMatch'
    OBVIOUS
  <2>0. Holds = [p \in Peers |-> Holds[p]] /\ Up = [p \in Peers |-> Up[p]]
    BY DEF Holds, Up
  <2>1. CASE Negotiation!TakeOffer
    BY <2>0, <2>1 DEF EndsMatch, Negotiation!TakeOffer
  <2>2. CASE Negotiation!TakeAnswer
    BY <2>0, <2>2 DEF EndsMatch, Negotiation!TakeAnswer
  <2>3. CASE Negotiation!WithdrawOffer \/ Negotiation!WithdrawAnswer
    BY <2>3 DEF EndsMatch, Negotiation!WithdrawOffer, Negotiation!WithdrawAnswer
  <2>4. ASSUME NEW p \in Peers, Negotiation!Call(p) PROVE EndsMatch'
    BY <2>0, <2>4 DEF EndsMatch, Negotiation!Call
  <2>5. ASSUME NEW p \in Peers, Negotiation!Link(p) PROVE EndsMatch'
    BY <2>0, <2>5 DEF EndsMatch, Negotiation!Link
  <2>6. ASSUME NEW p \in Peers, Negotiation!Open(p) PROVE EndsMatch'
    BY <2>6 DEF EndsMatch, Negotiation!Open
  <2>7. ASSUME NEW p \in Peers, Negotiation!End(p) PROVE EndsMatch'
    BY <2>0, <2>7 DEF EndsMatch, Negotiation!End
  <2>8. CASE UNCHANGED Negotiation!vars
    BY <2>8 DEF EndsMatch, Negotiation!vars
  <2> QED
    BY <2>1, <2>2, <2>3, <2>4, <2>5, <2>6, <2>7, <2>8 DEF Negotiation!Next
<1> QED
  BY <1>1, <1>2, PTL DEF Negotiation!Spec

\* When Open has returned at both peers, and neither has closed its connection,
\* each of them holds the session description that the other one's call made.
THEOREM OpenConnectionsMatch ==
  Spec => []((\A p \in Peers : pc[p] = "open") =>
               signal[Lo].epoch = epoch[Hi] /\ signal[Hi].epoch = epoch[Lo])
<1>1. Unset /\ EndsMatch =>
        ((\A p \in Peers : pc[p] = "open") =>
            signal[Lo].epoch = epoch[Hi] /\ signal[Hi].epoch = epoch[Lo])
  BY Roles DEF Unset, EndsMatch, Up, Holds, Negotiation!Match
<1> QED
  BY <1>1, UnsetInvariant, Refinement, PromisesMatch, PTL DEF ImplementsOfferAnswer
=============================================================================
