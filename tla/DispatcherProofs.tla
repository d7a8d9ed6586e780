------------------------- MODULE DispatcherProofs -------------------------
(***************************************************************************)
(* Proofs about Dispatcher, for any ports, listeners, connections and      *)
(* capacity.                                                               *)
(***************************************************************************)
EXTENDS Dispatcher, SequenceTheorems, TLAPS

-----------------------------------------------------------------------------
\* A push adds the connection at the end of what the listener takes.
LEMMA ConcatAppend ==
  ASSUME NEW S, NEW s \in Seq(S), NEW t \in Seq(S), NEW x \in S
  PROVE  s \o Append(t, x) = Append(s \o t, x)
<1>1. s \o Append(t, x) = s \o (t \o <<x>>)
  BY AppendIsConcat
<1>2. s \o (t \o <<x>>) = (s \o t) \o <<x>>
  BY ConcatAssociative
<1>3. (s \o t) \o <<x>> = Append(s \o t, x)
  BY AppendIsConcat, ConcatProperties
<1> QED
  BY <1>1, <1>2, <1>3

\* An Accept moves a connection from the queue, and changes nothing in what the
\* listener takes.
LEMMA ConcatShift ==
  ASSUME NEW S, NEW s \in Seq(S), NEW t \in Seq(S), t # <<>>
  PROVE  Append(s, Head(t)) \o Tail(t) = s \o t
<1>1. /\ Head(t) \in S /\ Head(t) = t[1] /\ Tail(t) \in Seq(S)
      /\ Len(t) \in Nat \ {0} /\ Len(Tail(t)) = Len(t) - 1
      /\ \A i \in 1 .. Len(Tail(t)) : Tail(t)[i] = t[i + 1]
  BY HeadTailProperties
<1>2. /\ <<Head(t)>> \in Seq(S) /\ Len(<<Head(t)>>) = 1 /\ <<Head(t)>>[1] = t[1]
  BY <1>1
<1>3. <<Head(t)>> \o Tail(t) = t
  <2> DEFINE u == <<Head(t)>> \o Tail(t)
  <2>1. /\ u \in Seq(S) /\ Len(u) = Len(t)
        /\ \A i \in 1 .. Len(t) : u[i] = IF i <= 1 THEN <<Head(t)>>[i] ELSE Tail(t)[i - 1]
    BY <1>1, <1>2, ConcatProperties
  <2> HIDE DEF u
  <2>2. \A i \in 1 .. Len(t) : u[i] = t[i]
    BY <1>1, <1>2, <2>1
  <2>3. u = t
    BY <2>1, <2>2, SeqEqual
  <2> QED
    BY <2>3 DEF u
<1>4. Append(s, Head(t)) = s \o <<Head(t)>>
  BY <1>1, AppendIsConcat
<1>5. (s \o <<Head(t)>>) \o Tail(t) = s \o (<<Head(t)>> \o Tail(t))
  BY <1>1, <1>2, ConcatAssociative
<1> QED
  BY <1>3, <1>4, <1>5

-----------------------------------------------------------------------------
\* While the dispatcher is busy, the last connection that arrived is the one it
\* is busy with.
Current == dpc # "accept" => arrived \in Conns /\ portOf[arrived] \in Ports

\* The types hold together with the knowledge of the current connection.
LEMMA TypeInvariance == Spec => [](TypeOK /\ Current)
<1>1. Init => TypeOK /\ Current
  BY DispatcherAssumption DEF Init, TypeOK, Current, Conns
<1>2. TypeOK /\ Current /\ [Next]_vars => (TypeOK /\ Current)'
  <2> SUFFICES ASSUME TypeOK, Current, [Next]_vars PROVE (TypeOK /\ Current)'
    OBVIOUS
  <2> USE DispatcherAssumption DEF TypeOK, Current, Conns, dispatchVars, userVars
  <2>1. CASE ConnArrives
    BY <2>1 DEF ConnArrives
  <2>2. CASE Dispatch
    <3>1. arrived \in Conns /\ Target \in Listeners
      BY <2>2 DEF Dispatch, Target
    <3>2. /\ Append(pending[Target], arrived) \in Seq(Conns)
          /\ Len(Append(pending[Target], arrived)) = Len(pending[Target]) + 1
      BY <3>1, AppendProperties
    <3>3. Len(pending[Target]) < Cap /\ Len(pending[Target]) \in Nat
      BY <2>2, <3>1, LenProperties DEF Dispatch, HasRoom
    <3>4. pending' = [pending EXCEPT ![Target] = Append(pending[Target], arrived)]
      BY <2>2 DEF Dispatch, Push
    <3> HIDE DEF Target
    <3>5. pending' \in [Listeners -> Seq(Conns)]
      BY <3>1, <3>2, <3>4
    <3>6. \A l \in Listeners : Len(pending'[l]) <= Cap
      BY <3>1, <3>2, <3>3, <3>4
    <3> QED
      BY <2>2, <3>5, <3>6 DEF Dispatch
  <2>3. CASE RejectUnlisted \/ RejectFull
    BY <2>3 DEF RejectUnlisted, RejectFull
  <2>4. CASE CloseRejected
    BY <2>4 DEF CloseRejected
  <2>5. ASSUME NEW l \in Listeners, NEW q \in Ports, Listen(l, q)
        PROVE  (TypeOK /\ Current)'
    BY <2>5 DEF Listen
  <2>6. ASSUME NEW l \in Listeners, AcceptCalled(l) PROVE (TypeOK /\ Current)'
    BY <2>6 DEF AcceptCalled
  <2>7. ASSUME NEW l \in Listeners, AcceptReturns(l) PROVE (TypeOK /\ Current)'
    <3>1. /\ Head(pending[l]) \in Conns /\ Tail(pending[l]) \in Seq(Conns)
          /\ Len(Tail(pending[l])) = Len(pending[l]) - 1
      BY <2>7, HeadTailProperties DEF AcceptReturns
    <3>2. Len(pending[l]) \in Nat /\ Len(pending[l]) <= Cap
      BY LenProperties
    <3>3. Append(accepted[l], Head(pending[l])) \in Seq(Conns)
      BY <3>1, AppendProperties
    <3>4. /\ pending' \in [Listeners -> Seq(Conns)]
          /\ \A k \in Listeners : Len(pending'[k]) <= Cap
      BY <2>7, <3>1, <3>2 DEF AcceptReturns
    <3>5. accepted' \in [Listeners -> Seq(Conns)]
      BY <2>7, <3>3 DEF AcceptReturns
    <3> QED
      BY <2>7, <3>4, <3>5 DEF AcceptReturns
  <2>8. ASSUME NEW l \in Listeners, CloseListener(l) PROVE (TypeOK /\ Current)'
    BY <2>8 DEF CloseListener
  <2>9. CASE UNCHANGED vars
    BY <2>9 DEF vars
  <2> QED
    BY <2>1, <2>2, <2>3, <2>4, <2>5, <2>6, <2>7, <2>8, <2>9 DEF Next, Dispatching
<1> QED
  BY <1>1, <1>2, PTL DEF Spec

\* Every variable keeps its type; a queue never holds more than its capacity.
THEOREM TypeCorrect == Spec => []TypeOK
BY TypeInvariance, PTL

-----------------------------------------------------------------------------
\* Where ports are listened on, and listeners closed, once at a time, an open
\* listener is the registered one of its port.
OpenRegistered ==
  \A l \in open : lport[l] \in Ports /\ listeners[lport[l]] = l

LEMMA OpenListenersAreRegistered ==
  ASSUME Reuse = FALSE
  PROVE  Spec => []OpenRegistered
<1>1. Init => OpenRegistered
  BY DEF Init, OpenRegistered
<1>2. TypeOK /\ OpenRegistered /\ [Next]_vars => OpenRegistered'
  <2> SUFFICES ASSUME TypeOK, OpenRegistered, [Next]_vars PROVE OpenRegistered'
    OBVIOUS
  <2> USE DispatcherAssumption DEF TypeOK, OpenRegistered
  <2>1. ASSUME NEW l \in Listeners, NEW q \in Ports, Listen(l, q) PROVE OpenRegistered'
    BY <2>1 DEF Listen
  <2>2. ASSUME NEW l \in Listeners, CloseListener(l) PROVE OpenRegistered'
    BY <2>2 DEF CloseListener
  <2>3. CASE \/ ConnArrives \/ Dispatching \/ UNCHANGED vars
             \/ \E l \in Listeners : AcceptCalled(l) \/ AcceptReturns(l)
    <3>1. open' = open /\ lport' = lport /\ listeners' = listeners
      BY <2>3 DEF ConnArrives, Dispatching, Dispatch, RejectUnlisted, RejectFull,
                  CloseRejected, AcceptCalled, AcceptReturns, vars, userVars
    <3> QED
      BY <3>1
  <2> QED
    BY <2>1, <2>2, <2>3 DEF Next
<1> QED
  BY <1>1, <1>2, TypeCorrect, PTL DEF Spec

\* With listeners that come and go one after the other on their port, the
\* dispatcher turns a connection away only when no open listener of its port has
\* room for it.
THEOREM OnlyUnwantedRejected ==
  ASSUME Reuse = FALSE
  PROVE  Spec => RejectsOnlyUnwanted
<1>1. /\ TypeOK /\ OpenRegistered /\ [Next]_vars
      => [dpc = "dispatch" /\ dpc' = "close" =>
            \A l \in open : lport[l] = portOf[arrived] => Len(pending[l]) = Cap]_vars
  <2> SUFFICES ASSUME TypeOK, OpenRegistered, [Next]_vars,
                      dpc = "dispatch", dpc' = "close",
                      NEW l \in open, lport[l] = portOf[arrived]
               PROVE  Len(pending[l]) = Cap
    OBVIOUS
  <2>1. Target = l /\ l # "none" /\ l \in Listeners
    BY DispatcherAssumption DEF OpenRegistered, Target, TypeOK
  <2>2. RejectFull
    BY <2>1 DEF Next, Dispatching, ConnArrives, Dispatch, RejectUnlisted, CloseRejected,
                Listen, AcceptCalled, AcceptReturns, CloseListener, vars, dispatchVars
  <2>3. Len(pending[l]) \in Nat /\ Len(pending[l]) <= Cap /\ Cap \in Nat
    BY <2>1, LenProperties, DispatcherAssumption DEF TypeOK
  <2> QED
    BY <2>1, <2>2, <2>3 DEF RejectFull, HasRoom
<1> QED
  BY <1>1, TypeCorrect, OpenListenersAreRegistered, PTL DEF Spec, RejectsOnlyUnwanted

-----------------------------------------------------------------------------
(***************************************************************************)
(* Order.  What a listener takes only ever grows at its end, by the        *)
(* current connection, which is later than all that was taken before; and  *)
(* the listener found under a port was made for that port.                 *)
(***************************************************************************)
Registered ==
  \A q \in Ports : listeners[q] # "none" => lport[listeners[q]] = q

Unused == \A l \in Listeners : lport[l] = "none" => Taken(l) = <<>>

Before ==
  \A l \in Listeners : \A i \in 1 .. Len(Taken(l)) :
     /\ Taken(l)[i] \in 1 .. arrived
     /\ dpc = "dispatch" => Taken(l)[i] < arrived

Order == Registered /\ Unused /\ Before /\ InOrderOnOwnPort

LEMMA TakenIsSeq ==
  ASSUME TypeOK, NEW l \in Listeners
  PROVE  /\ Taken(l) \in Seq(Conns) /\ Len(Taken(l)) \in Nat
         /\ \A i \in 1 .. Len(Taken(l)) : Taken(l)[i] \in Nat
<1>1. accepted[l] \in Seq(Conns) /\ pending[l] \in Seq(Conns)
  BY DEF TypeOK
<1>2. Taken(l) \in Seq(Conns)
  BY <1>1, ConcatProperties DEF Taken
<1>3. Len(Taken(l)) \in Nat /\ \A i \in 1 .. Len(Taken(l)) : Taken(l)[i] \in Conns
  BY <1>2, LenProperties, ElementOfSeq
<1> QED
  BY <1>2, <1>3, DispatcherAssumption DEF Conns

\* A step of the dispatcher that hands a connection over appends it to what the
\* listener of its port takes.
LEMMA DispatchAppends ==
  ASSUME TypeOK, Current, Dispatch, NEW l \in Listeners
  PROVE  Taken(l)' = IF l = Target THEN Append(Taken(l), arrived) ELSE Taken(l)
<1>1. /\ accepted' = accepted /\ arrived \in Conns
      /\ accepted[l] \in Seq(Conns) /\ pending[l] \in Seq(Conns)
      /\ pending' = [pending EXCEPT ![Target] = Append(@, arrived)]
  BY DEF TypeOK, Current, Dispatch, Push, userVars
<1>2. pending'[l] = IF l = Target THEN Append(pending[l], arrived) ELSE pending[l]
  BY <1>1 DEF TypeOK
<1>3. Taken(l)' = accepted[l] \o pending'[l] /\ Taken(l) = accepted[l] \o pending[l]
  BY <1>1 DEF Taken
<1>4. accepted[l] \o Append(pending[l], arrived) = Append(accepted[l] \o pending[l], arrived)
  <2> DEFINE s == accepted[l]
             t == pending[l]
  <2>1. s \in Seq(Conns) /\ t \in Seq(Conns)
    BY <1>1
  <2> HIDE DEF s, t
  <2>2. \A S : \A u, v \in Seq(S), x \in S : u \o Append(v, x) = Append(u \o v, x)
    BY ConcatAppend
  <2>3. s \o Append(t, arrived) = Append(s \o t, arrived)
    BY <1>1, <2>1, <2>2
  <2> QED
    BY <2>3 DEF s, t
<1> QED
  BY <1>2, <1>3, <1>4

\* An Accept that returns leaves what its listener takes as it was.
LEMMA AcceptKeepsTaken ==
  ASSUME TypeOK, NEW k \in Listeners, AcceptReturns(k), NEW l \in Listeners
  PROVE  Taken(l)' = Taken(l)
<1>1. CASE l = k
  <2>1. /\ accepted[l] \in Seq(Conns) /\ pending[l] \in Seq(Conns) /\ pending[l] # <<>>
        /\ accepted'[l] = Append(accepted[l], Head(pending[l]))
        /\ pending'[l] = Tail(pending[l])
    BY <1>1 DEF TypeOK, AcceptReturns
  <2> QED
    BY <2>1, ConcatShift DEF Taken
<1>2. CASE l # k
  BY <1>2 DEF TypeOK, AcceptReturns, Taken
<1> QED
  BY <1>1, <1>2

\* A listener gets the connections of its own port only, in the order in which
\* they arrived, and none twice.
THEOREM ListenersTakeInOrder == Spec => []InOrderOnOwnPort
<1>1. Init => Order
  <2> SUFFICES ASSUME Init PROVE Order
    OBVIOUS
  <2>1. \A l \in Listeners : Taken(l) = <<>>
    BY ConcatEmptySeq, EmptySeq DEF Init, Taken
  <2> QED
    BY <2>1, EmptySeq DEF Init, Order, Registered, Unused, Before, InOrderOnOwnPort
<1>2. TypeOK /\ Current /\ Order /\ [Next]_vars => Order'
  <2> SUFFICES ASSUME TypeOK, Current, Order, [Next]_vars PROVE Order'
    OBVIOUS
  <2> USE DispatcherAssumption DEF Order, Registered, Unused, Before, InOrderOnOwnPort
  <2>1. CASE ConnArrives
    <3>1. /\ \A l \in Listeners : Taken(l)' = Taken(l)
          /\ arrived \in Nat /\ arrived' = arrived + 1
          /\ \A c \in 1 .. arrived : portOf'[c] = portOf[c]
          /\ listeners' = listeners /\ lport' = lport
      BY <2>1 DEF ConnArrives, Taken, TypeOK, Conns, userVars
    <3> QED
      BY <3>1, TakenIsSeq
  <2>2. CASE Dispatch
    <3> DEFINE tk == Target
    <3>1. /\ tk \in Listeners /\ lport[tk] = portOf[arrived] /\ arrived \in Nat \ {0}
          /\ lport[tk] # "none" /\ dpc = "dispatch" /\ dpc' = "accept"
          /\ UNCHANGED <<arrived, portOf, listeners, lport>>
      BY <2>2 DEF Dispatch, Target, TypeOK, Current, Conns, userVars
    <3>2. \A l \in Listeners :
             Taken(l)' = IF l = tk THEN Append(Taken(l), arrived) ELSE Taken(l)
      BY <2>2, DispatchAppends
    <3>3. /\ Len(Append(Taken(tk), arrived)) = Len(Taken(tk)) + 1
          /\ \A i \in 1 .. Len(Taken(tk)) : Append(Taken(tk), arrived)[i] = Taken(tk)[i]
          /\ Append(Taken(tk), arrived)[Len(Taken(tk)) + 1] = arrived
      BY <2>2, <3>1, TakenIsSeq, AppendProperties DEF Current
    <3>4. \A l \in Listeners : Len(Taken(l)) \in Nat
      BY TakenIsSeq
    <3> HIDE DEF tk
    <3>5. Registered' /\ Unused'
      BY <3>1, <3>2
    <3>6. ASSUME NEW l \in Listeners, NEW i \in 1 .. Len(Taken(l)')
          PROVE  /\ Taken(l)'[i] \in 1 .. arrived
                 /\ portOf[Taken(l)'[i]] = lport[l]
                 /\ i > 1 => Taken(l)'[i - 1] < Taken(l)'[i]
      <4>1. CASE l # tk
        BY <3>2, <4>1
      <4>2. CASE l = tk /\ i \in 1 .. Len(Taken(tk))
        <5>1. /\ Taken(l)' = Append(Taken(tk), arrived) /\ Taken(l)'[i] = Taken(tk)[i]
              /\ i \in 1 .. Len(Taken(l))
          BY <3>2, <3>3, <4>2
        <5>2. i > 1 => Taken(l)'[i - 1] = Taken(tk)[i - 1]
          BY <3>3, <3>4, <4>2, <5>1
        <5> QED
          BY <3>1, <4>2, <5>1, <5>2
      <4>3. CASE l = tk /\ i = Len(Taken(tk)) + 1
        <5>1. /\ Taken(l)' = Append(Taken(tk), arrived) /\ Taken(l)'[i] = arrived
              /\ portOf[arrived] = lport[l]
          BY <3>1, <3>2, <3>3, <4>3
        <5>2. i > 1 => /\ i - 1 \in 1 .. Len(Taken(tk))
                       /\ Taken(l)'[i - 1] = Taken(tk)[i - 1]
                       /\ Taken(tk)[i - 1] < arrived
          BY <3>1, <3>3, <3>4, <4>3, <5>1
        <5> QED
          BY <3>1, <5>1, <5>2
      <4>4. l = tk => i \in 1 .. Len(Taken(tk)) + 1
        BY <3>1, <3>2, <3>3
      <4> QED
        BY <3>1, <3>4, <4>1, <4>2, <4>3, <4>4
    <3> QED
      BY <3>1, <3>5, <3>6
  <2>3. CASE RejectUnlisted \/ RejectFull \/ CloseRejected
    <3>1. /\ \A l \in Listeners : Taken(l)' = Taken(l)
          /\ dpc' # "dispatch" /\ UNCHANGED <<arrived, portOf, listeners, lport>>
      BY <2>3 DEF RejectUnlisted, RejectFull, CloseRejected, Taken, userVars
    <3> QED
      BY <3>1
  <2>4. ASSUME NEW k \in Listeners, NEW q \in Ports, Listen(k, q) PROVE Order'
    <3>1. /\ \A l \in Listeners : Taken(l)' = Taken(l)
          /\ UNCHANGED <<dpc, arrived, portOf>> /\ Len(Taken(k)) = 0
          /\ lport[k] = "none" /\ lport' = [lport EXCEPT ![k] = q]
          /\ listeners' = [listeners EXCEPT ![q] = k]
      BY <2>4, EmptySeq DEF Listen, Taken, dispatchVars
    <3>2. Registered' /\ Unused'
      BY <3>1 DEF TypeOK
    <3>3. Before' /\ InOrderOnOwnPort'
      BY <3>1 DEF TypeOK
    <3> QED
      BY <3>2, <3>3
  <2>5. ASSUME NEW k \in Listeners, AcceptCalled(k) PROVE Order'
    <3>1. /\ \A l \in Listeners : Taken(l)' = Taken(l)
          /\ UNCHANGED <<dpc, arrived, portOf, listeners, lport>>
      BY <2>5 DEF AcceptCalled, Taken, dispatchVars
    <3> QED
      BY <3>1
  <2>6. ASSUME NEW k \in Listeners, AcceptReturns(k) PROVE Order'
    <3>1. /\ \A l \in Listeners : Taken(l)' = Taken(l)
          /\ UNCHANGED <<dpc, arrived, portOf, listeners, lport>>
      BY <2>6, AcceptKeepsTaken DEF AcceptReturns, dispatchVars
    <3> QED
      BY <3>1
  <2>7. ASSUME NEW k \in Listeners, CloseListener(k) PROVE Order'
    <3>1. /\ \A l \in Listeners : Taken(l)' = Taken(l)
          /\ UNCHANGED <<dpc, arrived, portOf, lport>>
          /\ listeners' = [listeners EXCEPT ![lport[k]] = "none"]
      BY <2>7 DEF CloseListener, Taken, dispatchVars
    <3> QED
      BY <3>1 DEF TypeOK
  <2>8. CASE UNCHANGED vars
    <3>1. /\ \A l \in Listeners : Taken(l)' = Taken(l)
          /\ UNCHANGED <<dpc, arrived, portOf, listeners, lport>>
      BY <2>8 DEF vars, dispatchVars, userVars, Taken
    <3> QED
      BY <3>1
  <2> QED
    BY <2>1, <2>2, <2>3, <2>4, <2>5, <2>6, <2>7, <2>8 DEF Next, Dispatching
<1>3. Order => InOrderOnOwnPort
  BY DEF Order
<1> QED
  BY <1>1, <1>2, <1>3, TypeInvariance, PTL DEF Spec

-----------------------------------------------------------------------------
(***************************************************************************)
(* Conservation.  Every connection that Conn.Accept returned is in one     *)
(* place: in the hands of the dispatcher, closed by it, or with one of the *)
(* listeners.  This is the safe part of EveryConnSettles: what a listener  *)
(* or a Close leaves behind is still in a queue that somebody may read.    *)
(***************************************************************************)
TakenBy(l) == {Taken(l)[i] : i \in 1 .. Len(Taken(l))}

InHand == IF dpc = "accept" THEN {} ELSE {arrived}

NoneMissing ==
  1 .. arrived = InHand \cup closed \cup UNION {TakenBy(l) : l \in Listeners}

NoneShared ==
  /\ InHand \cap closed = {}
  /\ \A l \in Listeners :
        /\ TakenBy(l) \cap (InHand \cup closed) = {}
        /\ \A k \in Listeners \ {l} : TakenBy(k) \cap TakenBy(l) = {}

InOnePlace == NoneMissing /\ NoneShared

\* What a push does to the set of what the listener takes.
LEMMA AppendAdds ==
  ASSUME NEW S, NEW s \in Seq(S), NEW x \in S
  PROVE  {Append(s, x)[i] : i \in 1 .. Len(Append(s, x))} = {s[i] : i \in 1 .. Len(s)} \cup {x}
<1>1. /\ Len(s) \in Nat /\ Len(Append(s, x)) = Len(s) + 1
      /\ \A i \in 1 .. Len(s) : Append(s, x)[i] = s[i]
      /\ Append(s, x)[Len(s) + 1] = x
  BY LenProperties, AppendProperties
<1> QED
  BY <1>1

LEMMA OnePlaceInit == Init => InOnePlace
<1> SUFFICES ASSUME Init PROVE InOnePlace
  OBVIOUS
<1>1. \A l \in Listeners : TakenBy(l) = {}
  <2>1. \A l \in Listeners : Taken(l) = <<>>
    BY ConcatEmptySeq, EmptySeq DEF Init, Taken
  <2> QED
    BY <2>1, EmptySeq DEF TakenBy
<1> QED
  BY <1>1 DEF Init, InOnePlace, NoneMissing, NoneShared, InHand

LEMMA OnePlaceStep == TypeOK /\ Current /\ InOnePlace /\ [Next]_vars => InOnePlace'
<1> SUFFICES ASSUME TypeOK, Current, InOnePlace, [Next]_vars PROVE InOnePlace'
  OBVIOUS
<1> USE DispatcherAssumption DEF InOnePlace, NoneMissing, NoneShared
<1>1. CASE ConnArrives
  <2>1. /\ \A l \in Listeners : TakenBy(l)' = TakenBy(l)
        /\ arrived \in Nat /\ arrived' = arrived + 1 /\ closed' = closed
        /\ InHand = {} /\ InHand' = {arrived + 1}
    BY <1>1 DEF ConnArrives, TakenBy, Taken, InHand, TypeOK, userVars
  <2>2. 1 .. arrived' = (1 .. arrived) \cup {arrived + 1} /\ arrived + 1 \notin 1 .. arrived
    BY <2>1
  <2> QED
    BY <2>1, <2>2
<1>2. CASE Dispatch
  <2> DEFINE tk == Target
  <2>1. /\ tk \in Listeners /\ UNCHANGED <<arrived, closed>>
        /\ InHand = {arrived} /\ InHand' = {}
    BY <1>2 DEF Dispatch, Target, TypeOK, Current, InHand
  <2>2. ASSUME NEW l \in Listeners
        PROVE  TakenBy(l)' = IF l = tk THEN TakenBy(l) \cup {arrived} ELSE TakenBy(l)
    <3>1. Taken(l)' = IF l = tk THEN Append(Taken(l), arrived) ELSE Taken(l)
      BY <1>2, DispatchAppends
    <3>2. Taken(l) \in Seq(Conns) /\ arrived \in Conns
      BY <1>2, TakenIsSeq DEF Current, Dispatch
    <3> HIDE DEF tk
    <3> QED
      BY <3>1, <3>2, AppendAdds DEF TakenBy
  <2> HIDE DEF tk
  <2> QED
    BY <2>1, <2>2
<1>3. CASE RejectUnlisted \/ RejectFull \/ CloseRejected
  <2>1. /\ \A l \in Listeners : TakenBy(l)' = TakenBy(l)
        /\ arrived' = arrived /\ InHand = {arrived}
        /\ InHand' \cup closed' = InHand \cup closed
        /\ InHand' \cap closed' = {}
    BY <1>3 DEF RejectUnlisted, RejectFull, CloseRejected, TakenBy, Taken, InHand, userVars
  <2> QED
    BY <2>1
<1>4. ASSUME NEW k \in Listeners, AcceptReturns(k) PROVE InOnePlace'
  <2>1. \A l \in Listeners : TakenBy(l)' = TakenBy(l)
    BY <1>4, AcceptKeepsTaken DEF TakenBy
  <2>2. UNCHANGED <<arrived, closed, InHand>>
    BY <1>4 DEF AcceptReturns, dispatchVars, InHand
  <2> QED
    BY <2>1, <2>2
<1>5. CASE \/ UNCHANGED vars
           \/ \E l \in Listeners : \/ AcceptCalled(l) \/ CloseListener(l)
                                   \/ \E q \in Ports : Listen(l, q)
  <2>1. UNCHANGED <<accepted, pending, dpc, arrived, closed>>
    BY <1>5 DEF AcceptCalled, CloseListener, Listen, vars, dispatchVars, userVars
  <2>2. /\ \A l \in Listeners : TakenBy(l)' = TakenBy(l)
        /\ UNCHANGED <<arrived, closed, InHand>>
    BY <2>1 DEF TakenBy, Taken, InHand
  <2> QED
    BY <2>2
<1> QED
  BY <1>1, <1>2, <1>3, <1>4, <1>5 DEF Next, Dispatching

\* However listeners come and go, every connection that arrived is in exactly one
\* place: none is dropped without being closed, and none is given to two.
THEOREM ConnectionsAreConserved == Spec => []InOnePlace
BY OnePlaceInit, OnePlaceStep, TypeInvariance, PTL DEF Spec
=============================================================================
