----------------------------- MODULE ByteStream -----------------------------
(***************************************************************************)
(* What one direction of a tunnelled connection promises its reader: the   *)
(* bytes come in the order they were written, none is skipped, repeated or *)
(* made up, and the stream ends either after the last byte written or      *)
(* because the connection was cut (closed on this side, or lost).          *)
(*                                                                         *)
(* Bytes are numbered by their place in the stream, 1, 2, 3, ...           *)
(***************************************************************************)
EXTENDS Naturals, Sequences

VARIABLES
  written,   \* how many bytes the peer has written
  got,       \* the bytes the reader has received, in order of arrival
  cut,       \* the connection was closed on this side, or lost
  ended      \* the reader was told that nothing more will come

vars == <<written, got, cut, ended>>

Init ==
  /\ written = 0
  /\ got = <<>>
  /\ cut = FALSE
  /\ ended = FALSE

\* The peer writes, which it cannot do once the reader saw a regular end.
Write ==
  /\ ended => cut
  /\ written' > written
  /\ UNCHANGED <<got, cut, ended>>

\* The reader receives the next bytes of the stream.
Read ==
  /\ ~ended
  /\ Len(got') \in Len(got) + 1 .. written
  /\ got' = [k \in 1 .. Len(got') |-> k]
  /\ UNCHANGED <<written, cut, ended>>

Cut ==
  /\ cut' = TRUE
  /\ UNCHANGED <<written, got, ended>>

End ==
  /\ cut \/ Len(got) = written
  /\ ended' = TRUE
  /\ UNCHANGED <<written, got, cut>>

Next == Write \/ Read \/ Cut \/ End

Spec == Init /\ [][Next]_vars
=============================================================================
