----------------------------- MODULE RunProofs -----------------------------
(***************************************************************************)
(* Proofs about Run: routes that all peers list in a common order never    *)
(* lead to circular waits, whatever the number of peers and routes.        *)
(***************************************************************************)
EXTENDS Run, WellFoundedInduction, TLAPS

\* What the loop has done: of the routes it has looked at, all but the one whose
\* connection it opens have one.
LoopInv ==
  \A p \in Peers :
     \A i \in done[p] :
        \/ at[p] \in {"open", "connecting", "ended"} /\ i = cur[p]
        \/ PeerOf(p, i) \in conns[p]

\* A process waits for a connection that it does not have.
OpenInv == \A p \in Peers : at[p] = "open" => Target(p) \notin conns[p]

\* Two ends of a connection: where one has entered it, or is about to, so has
\* the other one, or it is about to, or it has ended.
Linked(p, q) ==
  p \in conns[q] \/ at[q] = "ended" \/ (at[q] = "connecting" /\ Target(q) = p)

LinkInv ==
  \A p, q \in Peers :
     /\ q \in conns[p] => Linked(p, q)
     /\ at[p] = "connecting" /\ Target(p) = q => Linked(p, q)

\* A process that is through has looked at all of its routes.
ReadyInv == \A p \in Peers : at[p] = "ready" => Indices(p) \subseteq done[p]

IInv == TypeOK /\ LoopInv /\ OpenInv /\ LinkInv /\ ReadyInv

-----------------------------------------------------------------------------
(***************************************************************************)
(* Types.                                                                  *)
(***************************************************************************)

\* Every route has a peer at its other end, or the zero key.
LEMMA PeerOfType ==
  ASSUME NEW p \in Peers, routes \in [Peers -> Seq(Routes)], NEW i \in Indices(p)
  PROVE  PeerOf(p, i) \in Peers \cup {Zero}
  <1>1. routes[p] \in Seq(Routes)
    OBVIOUS
  <1>2. routes[p][i] \in Routes
    BY <1>1 DEF Indices
  <1> QED
    BY <1>2 DEF PeerOf, Routes

\* Every variable keeps its type, for any peers and any routes.
LEMMA TypeInit == Init => TypeOK
  BY RunAssumption DEF Init, TypeOK

LEMMA TypeStep == TypeOK /\ [Next]_vars => TypeOK'
  <1> SUFFICES ASSUME TypeOK, [Next]_vars PROVE TypeOK'
    OBVIOUS
  <1> USE DEF TypeOK, Indices, Target, PeerOf
  <1>1. ASSUME NEW p \in Peers, Start(p) PROVE TypeOK'
    BY <1>1 DEF Start
  <1>2. ASSUME NEW p \in Peers, NEW i \in Indices(p), SharesConn(p, i) PROVE TypeOK'
    BY <1>2 DEF SharesConn, Looks, Serve, IsNext
  <1>3. ASSUME NEW p \in Peers, NEW i \in Indices(p), CallsOpen(p, i) PROVE TypeOK'
    BY <1>3 DEF CallsOpen, Looks, IsNext
  <1>4. ASSUME NEW p \in Peers, Ready(p) PROVE TypeOK'
    BY <1>4 DEF Ready
  <1>5. ASSUME NEW p \in Peers, OpenReturns(p) PROVE TypeOK'
    BY <1>5 DEF OpenReturns, Serve
  <1>6. ASSUME NEW p \in Peers, Ends(p) PROVE TypeOK'
    BY <1>6 DEF Ends
  <1>7. ASSUME NEW p \in Peers, NEW q \in Peers, Meet(p, q) PROVE TypeOK'
    <2>1. at' \in [Peers -> {"down", "routes", "open", "connecting", "ready", "ended"}]
      BY <1>7 DEF Meet
    <2>2. UNCHANGED <<routes, done, cur, conns, listening>>
      BY <1>7 DEF Meet
    <2>3. ASSUME NEW x \in Peers, at'[x] \in {"open", "connecting"}
          PROVE  cur[x] \in done[x] /\ (at'[x] = "connecting" => Target(x) \in Peers)
      <3>1. x \in {p, q} => at[x] = "open" /\ Target(x) \in Peers
        BY <1>7 DEF Meet, Waits
      <3>2. x \notin {p, q} => at'[x] = at[x]
        BY <1>7 DEF Meet
      <3> QED
        BY <2>3, <3>1, <3>2
    <2> QED
      BY <2>1, <2>2, <2>3
  <1>8. CASE UNCHANGED vars
    BY <1>8 DEF vars
  <1> QED
    BY <1>1, <1>2, <1>3, <1>4, <1>5, <1>6, <1>7, <1>8 DEF Next, Goes

THEOREM TypeCorrect == Spec => []TypeOK
  BY TypeInit, TypeStep, PTL DEF Spec

-----------------------------------------------------------------------------
(***************************************************************************)
(* The invariant, part by part.                                            *)
(***************************************************************************)

\* Nobody has looked at a route or connected yet.
LEMMA IInit == Init => IInv
  BY TypeInit DEF Init, IInv, LoopInv, OpenInv, LinkInv, ReadyInv

\* PeerOf and Target stay what they are while the route is not exchanged.
LEMMA SamePeerOf ==
  ASSUME UNCHANGED routes
  PROVE  /\ \A p \in Peers : \A i : PeerOf(p, i)' = PeerOf(p, i)
         /\ \A p \in Peers : cur'[p] = cur[p] => Target(p)' = Target(p)
  BY DEF PeerOf, Target

LEMMA LoopStep == IInv /\ [Next]_vars => LoopInv'
  <1> SUFFICES ASSUME IInv, [Next]_vars, NEW p \in Peers, NEW i \in done'[p]
               PROVE  \/ at'[p] \in {"open", "connecting", "ended"} /\ i = cur'[p]
                      \/ PeerOf(p, i)' \in conns'[p]
    BY DEF LoopInv
  <1> USE DEF IInv, TypeOK, LoopInv, OpenInv
  <1>1. UNCHANGED routes
    BY DEF Next, Goes, Start, SharesConn, CallsOpen, Looks, Ready, OpenReturns, Ends, Meet, vars
  <1>2. PeerOf(p, i)' = PeerOf(p, i)
    BY <1>1, SamePeerOf
  <1>3. ASSUME NEW x \in Peers, Start(x) \/ Ready(x) \/ Ends(x)
        PROVE  \/ at'[p] \in {"open", "connecting", "ended"} /\ i = cur'[p]
               \/ PeerOf(p, i) \in conns'[p]
    BY <1>3 DEF Start, Ready, Ends
  <1>4. ASSUME NEW x \in Peers, NEW j \in Indices(x), SharesConn(x, j)
        PROVE  \/ at'[p] \in {"open", "connecting", "ended"} /\ i = cur'[p]
               \/ PeerOf(p, i) \in conns'[p]
    BY <1>4 DEF SharesConn, Looks, HasConn
  <1>5. ASSUME NEW x \in Peers, NEW j \in Indices(x), CallsOpen(x, j)
        PROVE  \/ at'[p] \in {"open", "connecting", "ended"} /\ i = cur'[p]
               \/ PeerOf(p, i) \in conns'[p]
    BY <1>5 DEF CallsOpen, Looks, Indices
  <1>6. ASSUME NEW x \in Peers, OpenReturns(x)
        PROVE  \/ at'[p] \in {"open", "connecting", "ended"} /\ i = cur'[p]
               \/ PeerOf(p, i) \in conns'[p]
    BY <1>6 DEF OpenReturns, Target
  <1>7. ASSUME NEW x \in Peers, NEW y \in Peers, Meet(x, y)
        PROVE  \/ at'[p] \in {"open", "connecting", "ended"} /\ i = cur'[p]
               \/ PeerOf(p, i) \in conns'[p]
    BY <1>7 DEF Meet, Waits
  <1>8. CASE UNCHANGED vars
    BY <1>2, <1>8 DEF vars
  <1> QED
    BY <1>2, <1>3, <1>4, <1>5, <1>6, <1>7, <1>8 DEF Next, Goes

LEMMA OpenStep == IInv /\ [Next]_vars => OpenInv'
  <1> SUFFICES ASSUME IInv, [Next]_vars, NEW p \in Peers, at'[p] = "open"
               PROVE  Target(p)' \notin conns'[p]
    BY DEF OpenInv
  <1> USE DEF IInv, TypeOK, OpenInv
  <1>1. CASE \E i \in Indices(p) : CallsOpen(p, i)
    BY <1>1 DEF CallsOpen, Looks, HasConn, Target, PeerOf, Indices
  <1>2. CASE at[p] = "open" /\ UNCHANGED <<routes, cur[p], conns[p]>>
    BY <1>2 DEF Target, PeerOf
  <1>3. \/ \E i \in Indices(p) : CallsOpen(p, i)
        \/ at[p] = "open" /\ UNCHANGED <<routes, cur[p], conns[p]>>
    BY DEF Next, Goes, Start, SharesConn, CallsOpen, Looks, Ready, OpenReturns, Ends, Meet, vars
  <1> QED
    BY <1>1, <1>2, <1>3

LEMMA LinkStep == IInv /\ [Next]_vars => LinkInv'
  <1> SUFFICES ASSUME IInv, [Next]_vars PROVE LinkInv'
    OBVIOUS
  <1> USE DEF IInv, TypeOK
  <1>1. UNCHANGED routes
    BY DEF Next, Goes, Start, SharesConn, CallsOpen, Looks, Ready, OpenReturns, Ends, Meet, vars
  <1>2. ASSUME NEW x \in Peers, Start(x) \/ Ready(x) \/ Ends(x)
        PROVE  LinkInv'
    <2>1. \A p \in Peers : Target(p)' = Target(p)
      BY <1>1, <1>2, SamePeerOf DEF Start, Ready, Ends
    <2> QED
      BY <1>2, <2>1 DEF Start, Ready, Ends, LinkInv, Linked
  <1>3. ASSUME NEW x \in Peers, NEW j \in Indices(x), SharesConn(x, j)
        PROVE  LinkInv'
    <2>1. \A p \in Peers : Target(p)' = Target(p)
      BY <1>1, <1>3, SamePeerOf DEF SharesConn
    <2> QED
      BY <1>3, <2>1 DEF SharesConn, Looks, LinkInv, Linked
  <1>4. ASSUME NEW x \in Peers, NEW j \in Indices(x), CallsOpen(x, j)
        PROVE  LinkInv'
    <2>1. \A p \in Peers \ {x} : Target(p)' = Target(p)
      BY <1>1, <1>4, SamePeerOf DEF CallsOpen
    <2>2. at[x] = "routes" /\ at' = [at EXCEPT ![x] = "open"] /\ UNCHANGED conns
      BY <1>4 DEF CallsOpen, Looks
    <2> QED
      BY <2>1, <2>2 DEF LinkInv, Linked
  <1>5. ASSUME NEW x \in Peers, OpenReturns(x)
        PROVE  LinkInv'
    <2>1. \A p \in Peers : Target(p)' = Target(p)
      BY <1>1, <1>5, SamePeerOf DEF OpenReturns
    <2> QED
      BY <1>5, <2>1 DEF OpenReturns, LinkInv, Linked
  <1>6. ASSUME NEW x \in Peers, NEW y \in Peers, Meet(x, y)
        PROVE  LinkInv'
    <2>1. \A p \in Peers : Target(p)' = Target(p)
      BY <1>1, <1>6, SamePeerOf DEF Meet
    <2> QED
      BY <1>6, <2>1 DEF Meet, Waits, LinkInv, Linked
  <1>7. CASE UNCHANGED vars
    <2>1. \A p \in Peers : Target(p)' = Target(p)
      BY <1>1, <1>7, SamePeerOf DEF vars
    <2> QED
      BY <1>7, <2>1 DEF vars, LinkInv, Linked
  <1> QED
    BY <1>2, <1>3, <1>4, <1>5, <1>6, <1>7 DEF Next, Goes

LEMMA ReadyStep == IInv /\ [Next]_vars => ReadyInv'
  <1> SUFFICES ASSUME IInv, [Next]_vars, NEW p \in Peers, at'[p] = "ready"
               PROVE  Indices(p)' \subseteq done'[p]
    BY DEF ReadyInv
  <1> USE DEF IInv, TypeOK, ReadyInv, Indices
  <1>1. UNCHANGED routes /\ done[p] \subseteq done'[p]
    <2>1. ASSUME NEW x \in Peers, Start(x) \/ Ready(x) \/ OpenReturns(x) \/ Ends(x)
          PROVE  UNCHANGED routes /\ done[p] \subseteq done'[p]
      BY <2>1 DEF Start, Ready, OpenReturns, Ends
    <2>2. ASSUME NEW x \in Peers, NEW j \in Indices(x), SharesConn(x, j) \/ CallsOpen(x, j)
          PROVE  UNCHANGED routes /\ done[p] \subseteq done'[p]
      BY <2>2 DEF SharesConn, CallsOpen, Looks
    <2>3. ASSUME NEW x \in Peers, NEW y \in Peers, Meet(x, y)
          PROVE  UNCHANGED routes /\ done[p] \subseteq done'[p]
      BY <2>3 DEF Meet
    <2> QED
      BY <2>1, <2>2, <2>3 DEF Next, Goes, vars
  <1>2. at[p] = "ready" \/ Ready(p)
    BY DEF Next, Goes, Start, SharesConn, CallsOpen, Looks, Ready, OpenReturns, Ends, Meet, vars
  <1> QED
    BY <1>1, <1>2 DEF Ready

\* The invariant that the theorems about waits rest on.
THEOREM WaitInvariant == Spec => []IInv
  <1>1. IInv /\ [Next]_vars => IInv'
    BY TypeStep, LoopStep, OpenStep, LinkStep, ReadyStep DEF IInv
  <1> QED
    BY IInit, <1>1, PTL DEF Spec

-----------------------------------------------------------------------------
(***************************************************************************)
(* Waits.                                                                  *)
(***************************************************************************)

\* A peer that does not wait for the one that waits for it has yet to look at the
\* routes they share.
LEMMA StillToCome ==
  ASSUME IInv, NEW p \in Peers, NEW q \in Peers, NEW r, r # p,
         Waits(p, q), Waits(q, r), NEW j \in Indices(q), PeerOf(q, j) = p
  PROVE  cur[q] \in Indices(q) /\ cur[q] < j
  <1> USE DEF IInv, TypeOK, Waits
  <1>1. p \notin conns[q]
    BY DEF OpenInv, LinkInv, Linked
  <1>2. j \notin done[q]
    BY <1>1 DEF LoopInv, Target
  <1>3. cur[q] \in Indices(q) /\ \A i \in 1 .. cur[q] : i \in done[q]
    OBVIOUS
  <1> QED
    BY <1>2, <1>3 DEF Indices

\* The two ends of the connection that a route needs.
LEMMA LinkOf ==
  ASSUME TypeOK, Agreed, NEW p \in Peers, NEW i \in Indices(p)
  PROVE  /\ routes[p][i] \in Routes
         /\ Link(routes[p][i]) = {p, PeerOf(p, i)} /\ Link(routes[p][i]) \in Links
  <1>1. routes[p][i] \in Routes
    <2>1. routes[p] \in Seq(Routes)
      BY DEF TypeOK
    <2> QED
      BY <2>1 DEF Indices
  <1>2. PeerOf(p, i) \in Peers \ {p}
    BY DEF Agreed
  <1>3. routes[p][i].local = p \/ routes[p][i].remote = p
    BY <1>2, RunAssumption DEF PeerOf
  <1> QED
    BY <1>1, <1>3 DEF Link, Links, PeerOf

\* In a common order of connections, the connection that a peer waits for while it
\* is waited for itself comes first, for any number of peers and routes.
LEMMA Descent == IInv => WaitsDescend
  <1> SUFFICES ASSUME IInv, NEW rank \in Rankings, Agreed, Follows(rank),
                      NEW p \in Peers, NEW q \in Peers, NEW r \in Peers,
                      Waits(p, q), Waits(q, r), r # p
               PROVE  rank[{q, r}] < rank[{p, q}]
    BY DEF WaitsDescend
  <1>1. cur[p] \in Indices(p) /\ PeerOf(p, cur[p]) = q /\ p # q
    <2>1. cur[p] \in Indices(p) /\ PeerOf(p, cur[p]) = q
      BY DEF IInv, TypeOK, Waits, Target
    <2> QED
      BY <2>1 DEF Agreed
  <1>2. PICK j \in Indices(q) : PeerOf(q, j) = p
    BY <1>1 DEF Agreed
  <1>3. cur[q] \in Indices(q) /\ cur[q] < j
    BY <1>2, StillToCome
  <1>4. PeerOf(q, cur[q]) = r
    BY DEF Waits, Target
  <1>5. rank[Link(routes[q][cur[q]])] <= rank[Link(routes[q][j])]
    BY <1>3 DEF Follows
  <1>6. /\ Link(routes[q][cur[q]]) = {q, r} /\ {q, r} \in Links
        /\ Link(routes[q][j]) = {p, q} /\ {p, q} \in Links
    <2>1. TypeOK
      BY DEF IInv
    <2>2. /\ Link(routes[q][cur[q]]) = {q, PeerOf(q, cur[q])}
          /\ Link(routes[q][cur[q]]) \in Links
      BY <1>3, <2>1, LinkOf
    <2>3. Link(routes[q][j]) = {q, PeerOf(q, j)} /\ Link(routes[q][j]) \in Links
      BY <1>2, <2>1, LinkOf
    <2>4. {p, q} = {q, p}
      OBVIOUS
    <2> QED
      BY <1>2, <1>4, <2>2, <2>3, <2>4
  <1>7. rank[{q, r}] # rank[{p, q}]
    <2>1. {q, r} # {p, q}
      BY <1>1
    <2> QED
      BY <1>6, <2>1, RunAssumption
  <1>8. rank[{q, r}] \in Nat /\ rank[{p, q}] \in Nat
    BY <1>6, RunAssumption
  <1> QED
    BY <1>5, <1>6, <1>7, <1>8

THEOREM WaitsAlwaysDescend == Spec => []WaitsDescend
  BY WaitInvariant, Descent, PTL

\* Every set of natural numbers has a least element.
LEMMA LeastNumber ==
  ASSUME NEW T \in SUBSET Nat, T # {}
  PROVE  \E n \in T : \A m \in T : n <= m
  <1> DEFINE Less == {ss \in Nat \X Nat : ss[1] < ss[2]}
  <1>1. IsWellFoundedOn(Less, Nat)
    BY NatLessThanWellFounded DEF OpToRel
  <1> HIDE DEF Less
  <1>2. PICK n \in T : \A m \in T : <<m, n>> \notin Less
    BY <1>1, WFMin
  <1>3. ASSUME NEW m \in T PROVE n <= m
    <2>1. ~(m < n)
      BY <1>2 DEF Less
    <2> QED
      BY <2>1
  <1> QED
    BY <1>3

\* Among the connections that circular waits are for, one would come first, and
\* by Descent another one before it.
LEMMA DescentEnds == IInv /\ WaitsDescend => NoCircularWait
  <1> SUFFICES ASSUME IInv, WaitsDescend, Agreed, NEW rank \in Rankings, Follows(rank),
                      NEW S \in SUBSET Peers, S # {},
                      \A p \in S : \E q \in S : Waits(p, q) /\ ~Waits(q, p)
               PROVE  FALSE
    BY DEF NoCircularWait, CircularWait
  <1> DEFINE T == {rank[{p, Target(p)}] : p \in S}
  <1>1. ASSUME NEW p \in S PROVE rank[{p, Target(p)}] \in Nat
    <2>1. cur[p] \in Indices(p) /\ TypeOK
      BY DEF IInv, TypeOK, Waits
    <2>2. Link(routes[p][cur[p]]) = {p, PeerOf(p, cur[p])} /\ Link(routes[p][cur[p]]) \in Links
      BY <2>1, LinkOf
    <2> QED
      BY <2>2, RunAssumption DEF Target
  <1>2. T \in SUBSET Nat /\ T # {}
    BY <1>1
  <1> HIDE DEF T
  <1>3. PICK n \in T : \A m \in T : n <= m
    BY <1>2, LeastNumber
  <1>4. PICK p \in S : n = rank[{p, Target(p)}]
    BY <1>3 DEF T
  <1>5. PICK q \in S : Waits(p, q) /\ ~Waits(q, p)
    OBVIOUS
  <1>6. PICK r \in S : Waits(q, r)
    OBVIOUS
  <1>7. rank[{q, r}] < rank[{p, q}]
    BY <1>5, <1>6 DEF WaitsDescend
  <1>8. Target(p) = q /\ Target(q) = r
    BY <1>5, <1>6 DEF Waits
  <1>9. rank[{q, r}] \in T /\ n = rank[{p, q}]
    BY <1>4, <1>8 DEF T
  <1>10. rank[{q, r}] \in Nat /\ n \in Nat /\ n <= rank[{q, r}]
    BY <1>2, <1>3, <1>9
  <1> QED
    BY <1>7, <1>9, <1>10

\* If all peers list their connections in one common order, their waits are never
\* circular, for any number of peers and routes.
THEOREM NeverCircular == Spec => []NoCircularWait
  BY WaitInvariant, Descent, DescentEnds, PTL

-----------------------------------------------------------------------------
(***************************************************************************)
(* Deadlocks.                                                              *)
(***************************************************************************)

\* A peer that is waited for is not through: it would have the connection, and so
\* would the one that waits for it.
LEMMA AwaitedIsNotReady ==
  ASSUME IInv, Agreed, NEW p \in Peers, NEW q \in Peers, Waits(p, q)
  PROVE  at[q] # "ready"
  <1> SUFFICES ASSUME at[q] = "ready" PROVE FALSE
    OBVIOUS
  <1> USE DEF IInv, TypeOK, Waits
  <1>1. PICK j \in Indices(q) : PeerOf(q, j) = p
    BY DEF Agreed, Target
  <1>2. p \in conns[q]
    BY <1>1 DEF ReadyInv, LoopInv
  <1>3. q \in conns[p]
    BY <1>2 DEF LinkInv, Linked
  <1> QED
    BY <1>3 DEF OpenInv

\* The peers that wait are the circular ones: each waits for another of them.
LEMMA StallIsCircular == IInv => OnlyCircularWaitsStall
  <1> SUFFICES ASSUME IInv, Agreed, Stalled PROVE CircularWait
    BY DEF OnlyCircularWaitsStall
  <1> DEFINE S == {p \in Peers : at[p] = "open"}
  <1>1. S \in SUBSET Peers /\ S # {}
    BY DEF Stalled
  <1>2. ASSUME NEW p \in S PROVE \E q \in S : Waits(p, q) /\ ~Waits(q, p)
    <2>1. cur[p] \in Indices(p)
      BY DEF IInv, TypeOK
    <2>2. Target(p) \in Peers /\ Waits(p, Target(p))
      BY <2>1 DEF Agreed, Target, Waits
    <2>3. at[Target(p)] = "open"
      BY <2>2, AwaitedIsNotReady DEF Stalled
    <2> QED
      BY <2>2, <2>3 DEF Stalled
  <1> HIDE DEF S
  <1> QED
    BY <1>1, <1>2 DEF CircularWait

\* Only circular waits stall the peers, for any number of peers and routes.
THEOREM StallsOnlyCircular == Spec => []OnlyCircularWaitsStall
  BY WaitInvariant, StallIsCircular, PTL

\* Deadlock freedom: peers that agree on their routes and list them in one common
\* order are never stalled.
THEOREM NeverStalls ==
  Spec => [](Agreed /\ (\E rank \in Rankings : Follows(rank)) => ~Stalled)
  <1>1. /\ NoCircularWait /\ OnlyCircularWaitsStall
        => (Agreed /\ (\E rank \in Rankings : Follows(rank)) => ~Stalled)
    BY DEF NoCircularWait, OnlyCircularWaitsStall
  <1> QED
    BY <1>1, NeverCircular, StallsOnlyCircular, PTL
=============================================================================
