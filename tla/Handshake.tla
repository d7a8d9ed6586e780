----------------------------- MODULE Handshake -----------------------------
(***************************************************************************)
(* peer.Open (peer/conn.go) run by two peers against each other: the offer *)
(* and the answer travel through the in-memory signalling channel, one     *)
(* mailbox of capacity 1 for each direction, and both ends wait until ICE  *)
(* reports "connected".  Connections may be closed, or fail to open, and   *)
(* be opened again.                                                        *)
(*                                                                         *)
(* A session description is the number of the Open call (epoch) it was     *)
(* made by, and, in an answer, the epoch of the offer it replies to.  The  *)
(* RTCPeerConnection is external: modelled from how the code uses it.      *)
(***************************************************************************)
EXTENDS Naturals, Sequences

CONSTANTS
  Lo, Hi,     \* the two public keys, ordered as their strings are
  MaxEpoch,   \* bound: calls of Open by each peer
  NumCand,    \* bound: ICE candidates gathered by each connection
  Js,         \* TRUE: each candidate callback is started with "go handler()"
  MaxFaults   \* bound: calls that return errors, ICE that closes, minutes too short

ASSUME HandshakeAssumption ==
  /\ Lo \in Nat /\ Hi \in Nat /\ Lo < Hi
  /\ MaxEpoch \in Nat /\ NumCand \in Nat /\ MaxFaults \in Nat
  /\ Js \in BOOLEAN

VARIABLES
  epoch,      \* calls of Open so far
  pc,         \* what Open does next, or what became of it
  ran,        \* OnICECandidate callbacks that ran; the last one has candidate ""
  signal,     \* the SignalMessage that recvSignal returned
  rtc,        \* the RTCPeerConnection; closeCond.C is closed when "closed"
  connected,  \* the condition of that name was signalled
  mailbox,    \* signals on their way to each peer
  faults      \* how often something failed

vars == <<epoch, pc, ran, signal, rtc, connected, mailbox, faults>>

Peers      == {Lo, Hi}
Other(p)   == IF p = Lo THEN Hi ELSE Lo
Candidates == 1 .. NumCand
LastCall   == NumCand + 1
Signals    == [epoch : 0 .. MaxEpoch, re : 0 .. MaxEpoch, cands : SUBSET Candidates]
NoSignal   == [epoch |-> 0, re |-> 0, cands |-> {}]

Ended   == {"idle", "failed", "closed"}
Opening(p) == pc[p] \notin Ended \cup {"open"}

\* Variant: the keys are not compared.
OffersAlways(p) == p # Other(p)

\* The peer with the smaller key makes the offer.
Offers(p) == p < Other(p)

\* Both ends hold each other's current description.
Linked ==
  /\ pc[Lo] \in {"wait", "open"} /\ pc[Hi] \in {"wait", "open"}
  /\ rtc[Lo] = "live" /\ rtc[Hi] = "live"
  /\ signal[Lo].epoch = epoch[Hi] /\ signal[Lo].re = epoch[Lo]
  /\ signal[Hi].epoch = epoch[Lo]

\* An end that waits for ICE in vain: it, or the other end, is not there any
\* more, or the other end is ready with descriptions that do not match.
Lost(p) ==
  \/ rtc[p] # "live" \/ rtc[Other(p)] # "live"
  \/ signal[p].epoch # epoch[Other(p)]
  \/ pc[Other(p)] \in {"wait", "open"} /\ ~Linked

Init ==
  /\ epoch = [p \in Peers |-> 0]
  /\ pc = [p \in Peers |-> "idle"]
  /\ ran = [p \in Peers |-> {}]
  /\ signal = [p \in Peers |-> NoSignal]
  /\ rtc = [p \in Peers |-> "none"]
  /\ connected = [p \in Peers |-> FALSE]
  /\ mailbox = [p \in Peers |-> <<>>]
  /\ faults = 0

-----------------------------------------------------------------------------
Fault == faults < MaxFaults /\ faults' = faults + 1

\* Variant: the condition of the call before is used again.
StartKeepsConnected(p) ==
  /\ pc[p] \in Ended /\ epoch[p] < MaxEpoch
  /\ epoch' = [epoch EXCEPT ![p] = @ + 1]
  /\ pc' = [pc EXCEPT ![p] = IF Offers(p) THEN "offer" ELSE "recv"]
  /\ ran' = [ran EXCEPT ![p] = {}]
  /\ signal' = [signal EXCEPT ![p] = NoSignal]
  /\ rtc' = [rtc EXCEPT ![p] = "live"]
  /\ UNCHANGED <<connected, mailbox, faults>>

\* Open is called, and makes the connection.
Start(p) ==
  /\ pc[p] \in Ended /\ epoch[p] < MaxEpoch
  /\ epoch' = [epoch EXCEPT ![p] = @ + 1]
  /\ pc' = [pc EXCEPT ![p] = IF Offers(p) THEN "offer" ELSE "recv"]
  /\ ran' = [ran EXCEPT ![p] = {}]
  /\ signal' = [signal EXCEPT ![p] = NoSignal]
  /\ rtc' = [rtc EXCEPT ![p] = "live"]
  /\ connected' = [connected EXCEPT ![p] = FALSE]
  /\ UNCHANGED <<mailbox, faults>>

\* CreateDataChannel and CreateOffer, which starts to gather candidates.
CreateOffer(p) ==
  /\ pc[p] = "offer" /\ rtc[p] = "live"
  /\ pc' = [pc EXCEPT ![p] = "gather"]
  /\ UNCHANGED <<epoch, ran, signal, rtc, connected, mailbox, faults>>

\* OnICECandidate: a native connection runs the callbacks one after the other.
Candidate(p, c) ==
  /\ pc[p] \in {"gather", "send"} /\ c \notin ran[p]
  /\ ~Js => \A d \in 1 .. LastCall : d < c => d \in ran[p]
  /\ ran' = [ran EXCEPT ![p] = @ \cup {c}]
  /\ UNCHANGED <<epoch, pc, signal, rtc, connected, mailbox, faults>>

\* Variant: the wait for iceReady is left out.
IceReadyAtOnce(p) ==
  /\ pc[p] = "gather"
  /\ pc' = [pc EXCEPT ![p] = "send"]
  /\ UNCHANGED <<epoch, ran, signal, rtc, connected, mailbox, faults>>

IceReady(p) ==
  /\ pc[p] = "gather" /\ LastCall \in ran[p]
  /\ pc' = [pc EXCEPT ![p] = "send"]
  /\ UNCHANGED <<epoch, ran, signal, rtc, connected, mailbox, faults>>

\* The other case of that select: closeCond.
GatherCanceled(p) ==
  /\ pc[p] = "gather" /\ rtc[p] = "closed"
  /\ pc' = [pc EXCEPT ![p] = "failed"]
  /\ UNCHANGED <<epoch, ran, signal, rtc, connected, mailbox, faults>>

\* sendSignal; the Go channel behind the mailbox blocks while it is full.
SendSignal(p) ==
  /\ pc[p] = "send" /\ mailbox[Other(p)] = <<>>
  /\ LET m == [epoch |-> epoch[p], re |-> signal[p].epoch, cands |-> ran[p] \cap Candidates]
     IN  mailbox' = [mailbox EXCEPT ![Other(p)] = Append(@, m)]
  /\ pc' = [pc EXCEPT ![p] = IF Offers(p) THEN "recv" ELSE "wait"]
  /\ UNCHANGED <<epoch, ran, signal, rtc, connected, faults>>

\* Variant: the message stays in the mailbox.
RecvSignalPeeks(p) ==
  /\ pc[p] = "recv" /\ mailbox[p] # <<>>
  /\ signal' = [signal EXCEPT ![p] = Head(mailbox[p])]
  /\ pc' = [pc EXCEPT ![p] = "apply"]
  /\ UNCHANGED <<epoch, ran, rtc, connected, mailbox, faults>>

\* recvSignal blocks until there is a message: it has no timeout.
RecvSignal(p) ==
  /\ pc[p] = "recv" /\ mailbox[p] # <<>>
  /\ signal' = [signal EXCEPT ![p] = Head(mailbox[p])]
  /\ mailbox' = [mailbox EXCEPT ![p] = Tail(@)]
  /\ pc' = [pc EXCEPT ![p] = "apply"]
  /\ UNCHANGED <<epoch, ran, rtc, connected, faults>>

\* SetAnswer, or SetOffer and CreateAnswer, which starts to gather candidates;
\* then AddICECandidate for each candidate of the message.
Apply(p) ==
  /\ pc[p] = "apply" /\ rtc[p] = "live"
  /\ pc' = [pc EXCEPT ![p] = IF Offers(p) THEN "wait" ELSE "gather"]
  /\ UNCHANGED <<epoch, ran, signal, rtc, connected, mailbox, faults>>

\* OnICEConnectionStateChange("connected").
IceConnected(p) ==
  /\ Linked /\ ~connected[p]
  /\ connected' = [connected EXCEPT ![p] = TRUE]
  /\ UNCHANGED <<epoch, pc, ran, signal, rtc, mailbox, faults>>

\* OnICEConnectionStateChange("closed"): Open itself looks at closeCond only
\* while it gathers candidates.
IceClosed(p) ==
  /\ rtc[p] = "live"
  /\ rtc' = [rtc EXCEPT ![p] = "closed"]
  /\ Fault
  /\ UNCHANGED <<epoch, pc, ran, signal, connected, mailbox>>

OpenReturns(p) ==
  /\ pc[p] = "wait" /\ connected[p]
  /\ pc' = [pc EXCEPT ![p] = "open"]
  /\ UNCHANGED <<epoch, ran, signal, rtc, connected, mailbox, faults>>

\* Variant: the minute also limits the wait in recvSignal.
TimerCoversRecv(p) ==
  /\ pc[p] \in {"recv", "wait"}
  /\ IF Lost(p) THEN UNCHANGED faults ELSE Fault
  /\ pc' = [pc EXCEPT ![p] = "failed"]
  /\ rtc' = [rtc EXCEPT ![p] = "closed"]
  /\ UNCHANGED <<epoch, ran, signal, connected, mailbox>>

\* time.After(time.Minute).  A minute that is too short for two ends that
\* are both there counts as a fault.
TimerFires(p) ==
  /\ pc[p] = "wait"
  /\ IF Lost(p) THEN UNCHANGED faults ELSE Fault
  /\ pc' = [pc EXCEPT ![p] = "failed"]
  /\ rtc' = [rtc EXCEPT ![p] = "closed"]
  /\ UNCHANGED <<epoch, ran, signal, connected, mailbox>>

\* A call returns an error, before it sent anything or after it took its
\* message from the mailbox, and Open returns through closeWithError.  An answerer
\* at "recv" has yet to make its connection, which may fail, or to call recvSignal.
CallFails(p) ==
  /\ pc[p] \in {"offer", "send", "apply"} \/ (pc[p] = "recv" /\ ~Offers(p))
  /\ IF rtc[p] = "closed" /\ pc[p] \in {"offer", "apply"} THEN UNCHANGED faults ELSE Fault
  /\ pc' = [pc EXCEPT ![p] = "failed"]
  /\ rtc' = [rtc EXCEPT ![p] = "closed"]
  /\ UNCHANGED <<epoch, ran, signal, connected, mailbox>>

CloseConn(p) ==
  /\ pc[p] = "open"
  /\ pc' = [pc EXCEPT ![p] = "closed"]
  /\ rtc' = [rtc EXCEPT ![p] = "closed"]
  /\ UNCHANGED <<epoch, ran, signal, connected, mailbox, faults>>

-----------------------------------------------------------------------------
\* The goroutine in Open and the callbacks it waits for.
Running(p) ==
  \/ CreateOffer(p) \/ IceReady(p) \/ GatherCanceled(p) \/ SendSignal(p)
  \/ RecvSignal(p) \/ Apply(p) \/ OpenReturns(p) \/ TimerFires(p) \/ CallFails(p)
  \/ IceConnected(p) \/ \E c \in 1 .. LastCall : Candidate(p, c)

Next == \E p \in Peers : Running(p) \/ Start(p) \/ IceClosed(p) \/ CloseConn(p)

Spec == Init /\ [][Next]_vars

\* A goroutine that can go on does, and ICE raises the events it owes.
\* Nothing makes a user open or close a connection.
FairSpec == Spec /\ \A p \in Peers : WF_vars(Running(p))

-----------------------------------------------------------------------------
(***************************************************************************)
(* Properties.                                                             *)
(***************************************************************************)

\* Every variable holds a value of its type; a mailbox never holds more than
\* its Go channel does, and a message names only candidates there are.
TypeOK ==
  /\ epoch \in [Peers -> 0 .. MaxEpoch]
  /\ pc \in [Peers -> {"idle", "offer", "gather", "send", "recv", "apply",
                       "wait", "open", "failed", "closed"}]
  /\ ran \in [Peers -> SUBSET (1 .. LastCall)]
  /\ signal \in [Peers -> Signals]
  /\ rtc \in [Peers -> {"none", "live", "closed"}]
  /\ connected \in [Peers -> BOOLEAN]
  /\ faults \in 0 .. MaxFaults
  /\ mailbox \in [Peers -> {<<>>} \cup {<<m>> : m \in Signals}]

\* Whatever was closed, failed or opened again before, the answer that an
\* offerer applies replies to the offer of the same call of Open.
AnswerMatchesOffer ==
  \A p \in Peers :
     Offers(p) /\ pc[p] \in {"apply", "wait", "open"} => signal[p].re = epoch[p]

\* No call of Open blocks in sendSignal on a message that an earlier one left
\* in the mailbox.
SendNeverBlocks ==
  \A p \in Peers : pc[p] = "send" => mailbox[Other(p)] = <<>>

\* A signal carries every candidate that its sender gathered.
CandidatesComplete ==
  \A p \in Peers : \A k \in 1 .. Len(mailbox[p]) : mailbox[p][k].cands = Candidates

\* Towards its callers Open keeps the promises of OfferAnswer: an offer is taken
\* once, by a call that replies to it while its maker still waits, and what comes
\* up is a connection between two calls that took each other's descriptions.
HiHolds == pc[Hi] \in {"apply", "gather", "send"}

Asking ==
  pc[Lo] \in {"offer", "gather", "send"} \/ (pc[Lo] = "recv" /\ mailbox[Hi] # <<>>)

Reply ==
  IF HiHolds THEN epoch[Hi]
  ELSE IF mailbox[Lo] # <<>> THEN Head(mailbox[Lo]).epoch
  ELSE signal[Lo].epoch

Holds  == [p \in Peers |-> signal[p].epoch]
Up     == [p \in Peers |-> connected[p] /\ pc[p] \in {"wait", "open"}]
IsOpen == [p \in Peers |-> pc[p] = "open"]

Negotiation ==
  INSTANCE OfferAnswer WITH
    Offerer <- Lo, Answerer <- Hi, call <- epoch, asking <- Asking, reply <- Reply,
    holds <- Holds, linked <- Up, open <- IsOpen

ImplementsOfferAnswer == Negotiation!Spec

\* When both peers are in Open, none of them waiting in vain already, and
\* nothing fails, both connections come up, unless a user closes one of them
\* before that.
OpensTogether ==
  [](faults = 0) =>
    ( (\A p \in Peers : Opening(p) /\ (pc[p] = "wait" => ~Lost(p)))
        ~> \/ \A p \in Peers : pc[p] = "open"
           \/ \E p \in Peers : pc[p] = "closed" )
=============================================================================
