------------------------------ MODULE Mailbox ------------------------------
(***************************************************************************)
(* What a signalling channel promises (channels.Channel): under each key   *)
(* there is one mailbox with room for one message.  A send waits for room, *)
(* a receive waits for a message, and each message is received once.       *)
(***************************************************************************)
EXTENDS Naturals, Sequences

CONSTANTS Keys, Messages

VARIABLES
  box,     \* the messages in the mailbox of each key
  taken    \* the messages received under each key, in order

vars == <<box, taken>>

Init ==
  /\ box = [k \in Keys |-> <<>>]
  /\ taken = [k \in Keys |-> <<>>]

Put(k) ==
  /\ box[k] = <<>>
  /\ \E m \in Messages : box' = [box EXCEPT ![k] = <<m>>]
  /\ UNCHANGED taken

Take(k) ==
  /\ box[k] # <<>>
  /\ taken' = [taken EXCEPT ![k] = Append(@, Head(box[k]))]
  /\ box' = [box EXCEPT ![k] = <<>>]

Next == \E k \in Keys : Put(k) \/ Take(k)

Spec == Init /\ [][Next]_vars
=============================================================================
