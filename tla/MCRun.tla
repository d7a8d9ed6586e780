------------------------------- MODULE MCRun -------------------------------
(***************************************************************************)
(* Run for TLC: three peers, with routes between any two of them.          *)
(***************************************************************************)
EXTENDS Run, TLC

To(p, q) == [local |-> p, remote |-> q]

\* The lists of one peer: nothing, one connection or both in either order, the
\* first one again in the other direction, and a route of two others.
Lists(p, q, r) ==
  {<<>>, <<To(p, q)>>, <<To(q, p), To(p, r)>>, <<To(p, r), To(q, p)>>,
   <<To(p, q), To(q, p), To(r, p)>>, <<To(p, r), To(p, q), To(r, p)>>,
   <<To(q, r), To(p, q)>>}

ThreePeers ==
  {"a" :> x @@ "b" :> y @@ "c" :> z :
     x \in Lists("a", "b", "c"), y \in Lists("b", "c", "a"), z \in Lists("c", "a", "b")}

\* Connections between two peers in each order, after those of a peer to itself.
Orders ==
  LET Pairs == {{"a", "b"}, {"b", "c"}, {"a", "c"}}
      Self  == "a" :> 1 @@ "b" :> 2 @@ "c" :> 3
      Rank(f, k) == IF k \in Pairs THEN f[k] ELSE Self[CHOOSE p \in k : TRUE]
  IN  {[k \in Pairs \cup {{"a"}, {"b"}, {"c"}} |-> Rank(f, k)] :
         f \in {g \in [Pairs -> 4 .. 6] : \A k, m \in Pairs : g[k] = g[m] => k = m}}
=============================================================================
