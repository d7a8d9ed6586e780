---------------------------- MODULE OfferAnswer ----------------------------
(***************************************************************************)
(* What two peers that call peer.Open against each other get from it,      *)
(* however often calls fail and are repeated: an offer is taken once, and  *)
(* only while the call that made it waits for the answer; the answer is    *)
(* the one to that offer; and a connection comes up only between two calls *)
(* that hold each other's descriptions.                                    *)
(***************************************************************************)
EXTENDS Naturals

CONSTANTS Offerer, Answerer

Peers == {Offerer, Answerer}

VARIABLES
  call,     \* the number of the latest call of each peer
  asking,   \* the offer of the offerer's call may still be taken
  reply,    \* the answerer's call that took it and has not failed to reply, or 0
  holds,    \* the call whose description each peer's call holds, or 0
  linked,   \* the connection of the call came up
  open      \* the call returned it

vars == <<call, asking, reply, holds, linked, open>>

Init ==
  /\ call = [p \in Peers |-> 0] /\ asking = FALSE /\ reply = 0
  /\ holds = [p \in Peers |-> 0]
  /\ linked = [p \in Peers |-> FALSE] /\ open = [p \in Peers |-> FALSE]

\* A call replaces the one before, which has ended.
Call(p) ==
  /\ ~linked[p] /\ ~open[p]
  /\ call' = [call EXCEPT ![p] = @ + 1]
  /\ holds' = [holds EXCEPT ![p] = 0]
  /\ IF p = Offerer THEN asking' = TRUE /\ reply' = 0 ELSE UNCHANGED <<asking, reply>>
  /\ UNCHANGED <<linked, open>>

TakeOffer ==
  /\ asking /\ holds[Answerer] = 0
  /\ holds' = [holds EXCEPT ![Answerer] = call[Offerer]]
  /\ asking' = FALSE /\ reply' = call[Answerer]
  /\ UNCHANGED <<call, linked, open>>

TakeAnswer ==
  /\ reply # 0 /\ holds[Offerer] = 0
  /\ holds' = [holds EXCEPT ![Offerer] = reply]
  /\ UNCHANGED <<call, asking, reply, linked, open>>

\* Both ends hold each other's description.
Match ==
  /\ \A p \in Peers : holds[p] # 0
  /\ holds[Offerer] = call[Answerer] /\ holds[Answerer] = call[Offerer]

Link(p) ==
  /\ Match /\ ~linked[p]
  /\ linked' = [linked EXCEPT ![p] = TRUE]
  /\ UNCHANGED <<call, asking, reply, holds, open>>

Open(p) ==
  /\ linked[p] /\ ~open[p]
  /\ open' = [open EXCEPT ![p] = TRUE]
  /\ UNCHANGED <<call, asking, reply, holds, linked>>

\* The offerer fails before its offer was taken, or the answerer before it replied.
WithdrawOffer ==
  /\ asking /\ asking' = FALSE
  /\ UNCHANGED <<call, reply, holds, linked, open>>

WithdrawAnswer ==
  /\ reply # 0 /\ holds[Offerer] = 0 /\ reply' = 0
  /\ UNCHANGED <<call, asking, holds, linked, open>>

\* A connection that came up is given up before Open returned, or closed after.
End(p) ==
  /\ linked[p]
  /\ linked' = [linked EXCEPT ![p] = FALSE]
  /\ open' = [open EXCEPT ![p] = FALSE]
  /\ UNCHANGED <<call, asking, reply, holds>>

Next ==
  \/ TakeOffer \/ TakeAnswer \/ WithdrawOffer \/ WithdrawAnswer
  \/ \E p \in Peers : Call(p) \/ Link(p) \/ Open(p) \/ End(p)

Spec == Init /\ [][Next]_vars
=============================================================================
