---------------------------- MODULE TunnelProofs ----------------------------
(***************************************************************************)
(* Proofs about Tunnel: types, the order in which channels are dealt with, *)
(* and how they end, for any number of programs, ports and routes.         *)
(***************************************************************************)
EXTENDS Tunnel, TLAPS

USE TunnelAssumption DEF Chans, Routed

-----------------------------------------------------------------------------
(***************************************************************************)
(* Types.                                                                  *)
(***************************************************************************)

\* The accept loop has a channel in hand, and only then.
InHand == at = "accept" <=> cur = "none"

Types == NetTypes /\ NearTypes /\ FarTypes /\ InHand

LEMMA TypeInit == Init => Types
  <1> SUFFICES ASSUME Init PROVE Types
    OBVIOUS
  <1>1. NetTypes
    BY DEF Init, NetTypes
  <1>2. NearTypes
    BY DEF Init, NearTypes
  <1>3. FarTypes
    <2>1. arriving \in Seq(Chans) /\ incoming \in Seq(Chans) /\ Len(incoming) <= 1
      BY DEF Init
    <2>2. far \in [Chans -> {"none", "ignored", "refused", "failed", "joined", "ended"}]
      BY DEF Init
    <2>3. callback = "none" /\ at = "accept" /\ cur = "none" /\ deaf = FALSE
      BY DEF Init
    <2> QED
      BY <2>1, <2>2, <2>3 DEF FarTypes
  <1>4. InHand
    BY DEF Init, InHand
  <1> QED
    BY <1>1, <1>2, <1>3, <1>4 DEF Types

LEMMA NetStep == Types /\ [Next]_vars => NetTypes'
  <1> SUFFICES ASSUME Types, [Next]_vars PROVE NetTypes'
    OBVIOUS
  <1> USE DEF Types, NetTypes, FarTypes, InHand, nearVars, loopVars, queueVars, Done, OpenFailed
  <1>1. CASE AssocUp \/ NetEnds \/ ListenerFatal
    BY <1>1 DEF AssocUp, NetEnds, ListenerFatal
  <1>2. CASE AcceptLoop
    BY <1>2 DEF AcceptLoop, Announce, Push, Take, IgnoreLabel, Wrap, IgnoreClosed, AcceptReturns,
                Refuse, BadType, DialSucceeds, DialFailsTCP, DialFailsUDP
  <1>3. ASSUME NEW c \in Programs, Listening(c) \/ ProgramLeaves(c) \/ ChannelEnds(c)
        PROVE  NetTypes'
    BY <1>3 DEF Listening, CreateChannel, CreateFails, OpenReturns, WrapFails, ProgramLeaves, ChannelEnds
  <1>4. ASSUME NEW c \in Programs, FarHears(c) \/ FarEnds(c) \/ FarChannelEnds(c)
        PROVE  NetTypes'
    BY <1>4 DEF FarHears, FarEnds, FarChannelEnds
  <1>5. ASSUME NEW c \in Programs, NEW p \in Ports, Connect(c, p) PROVE NetTypes'
    BY <1>5 DEF Connect
  <1>6. CASE UNCHANGED vars
    BY <1>6 DEF vars
  <1> QED
    BY <1>1, <1>2, <1>3, <1>4, <1>5, <1>6 DEF Next

LEMMA NearStep == Types /\ [Next]_vars => NearTypes'
  <1> SUFFICES ASSUME Types, [Next]_vars PROVE NearTypes'
    OBVIOUS
  <1> USE DEF Types, NearTypes, nearVars, loopVars, queueVars, Done, OpenFailed
  <1>1. CASE AssocUp \/ NetEnds \/ ListenerFatal
    BY <1>1 DEF AssocUp, NetEnds, ListenerFatal
  <1>2. CASE AcceptLoop
    BY <1>2 DEF AcceptLoop, Announce, Push, Take, IgnoreLabel, Wrap, IgnoreClosed, AcceptReturns,
                Refuse, BadType, DialSucceeds, DialFailsTCP, DialFailsUDP
  <1>3. ASSUME NEW c \in Programs, Listening(c) \/ ProgramLeaves(c) \/ ChannelEnds(c)
        PROVE  NearTypes'
    BY <1>3 DEF Listening, CreateChannel, CreateFails, OpenReturns, WrapFails, ProgramLeaves, ChannelEnds
  <1>4. ASSUME NEW c \in Programs, FarHears(c) \/ FarEnds(c) \/ FarChannelEnds(c)
        PROVE  NearTypes'
    BY <1>4 DEF FarHears, FarEnds, FarChannelEnds
  <1>5. ASSUME NEW c \in Programs, NEW p \in Ports, Connect(c, p) PROVE NearTypes'
    BY <1>5 DEF Connect
  <1>6. CASE UNCHANGED vars
    BY <1>6 DEF vars
  <1> QED
    BY <1>1, <1>2, <1>3, <1>4, <1>5, <1>6 DEF Next

LEMMA FarStep == Types /\ [Next]_vars => FarTypes' /\ InHand'
  <1> SUFFICES ASSUME Types, [Next]_vars PROVE FarTypes' /\ InHand'
    OBVIOUS
  <1> USE DEF Types, FarTypes, InHand, nearVars, loopVars, queueVars, Done
  <1>1. CASE AssocUp \/ NetEnds \/ ListenerFatal
    BY <1>1 DEF AssocUp, NetEnds, ListenerFatal
  <1>2. CASE Announce \/ Push
    <2>1. CASE Announce
      <3>1. Head(arriving) \in Chans /\ Tail(arriving) \in Seq(Chans)
        BY <2>1 DEF Announce
      <3> QED
        BY <2>1, <3>1 DEF Announce
    <2>2. CASE Push
      BY <2>2 DEF Push
    <2> QED
      BY <1>2, <2>1, <2>2
  <1>3. CASE Take
    BY <1>3 DEF Take
  <1>4. CASE Wrap \/ AcceptReturns \/ BadType
    <2>1. (cur \in heard) \in BOOLEAN
      OBVIOUS
    <2> QED
      BY <1>4, <2>1 DEF Wrap, AcceptReturns, BadType
  <1>5. CASE IgnoreLabel \/ IgnoreClosed \/ Refuse \/ DialSucceeds \/ DialFailsTCP \/ DialFailsUDP
    BY <1>5 DEF IgnoreLabel, IgnoreClosed, Refuse, DialSucceeds, DialFailsTCP, DialFailsUDP
  <1>6. ASSUME NEW c \in Programs, Listening(c) \/ ProgramLeaves(c) \/ ChannelEnds(c)
        PROVE  FarTypes' /\ InHand'
    <2>1. arriving' \in Seq(Chans)
      BY <1>6 DEF Listening, CreateChannel, CreateFails, OpenReturns, WrapFails, ProgramLeaves,
                  ChannelEnds
    <2>2. UNCHANGED <<callback, incoming, at, cur, deaf, far>>
      BY <1>6 DEF Listening, CreateChannel, CreateFails, OpenReturns, WrapFails, ProgramLeaves,
                  ChannelEnds
    <2> QED
      BY <2>1, <2>2
  <1>7. ASSUME NEW c \in Programs, FarHears(c) \/ FarEnds(c) \/ FarChannelEnds(c)
        PROVE  FarTypes' /\ InHand'
    BY <1>7 DEF FarHears, FarEnds, FarChannelEnds
  <1>8. ASSUME NEW c \in Programs, NEW p \in Ports, Connect(c, p) PROVE FarTypes' /\ InHand'
    BY <1>8 DEF Connect
  <1>9. CASE UNCHANGED vars
    BY <1>9 DEF vars
  <1> QED
    BY <1>1, <1>2, <1>3, <1>4, <1>5, <1>6, <1>7, <1>8, <1>9 DEF Next, AcceptLoop

\* Every variable keeps its type, and incoming holds one channel at most.
THEOREM TypeCorrect == Spec => []TypeOK
  <1>1. Types /\ [Next]_vars => Types'
    BY NetStep, NearStep, FarStep DEF Types
  <1>2. Types => TypeOK
    BY DEF Types, TypeOK
  <1> QED
    BY TypeInit, <1>1, <1>2, PTL DEF Spec

-----------------------------------------------------------------------------
(***************************************************************************)
(* No channel is lost or overtaken.  Placed is NoChannelLost place by      *)
(* place.  It is inductive together with Once: a channel is opened once,   *)
(* and handled only after it was opened.                                   *)
(***************************************************************************)
Handled == Len(opened) - Len(Waiting)

Placed ==
  /\ Handled \in Nat
  /\ \A k \in 1 .. Len(Waiting) : Waiting[k] = opened[Handled + k]
  /\ \A i \in 1 .. Len(opened) : far[opened[i]] = "none" <=> i > Handled

Once ==
  /\ \A i, j \in 1 .. Len(opened) : opened[i] = opened[j] => i = j
  /\ \A i \in 1 .. Len(opened) :
        opened[i] \in Programs => local[opened[i]] \notin {"none", "backlog"}
  /\ \A c \in Chans : far[c] # "none" => \E i \in 1 .. Len(opened) : opened[i] = c

OrderInv == Types /\ Placed /\ Once

LEMMA OneOfSeq == \A c \in Chans \cup {"none"} : OneOf(c) \in Seq(Chans)
  <1> SUFFICES ASSUME NEW c \in Chans \cup {"none"} PROVE OneOf(c) \in Seq(Chans)
    OBVIOUS
  <1>1. CASE c = "none"
    BY <1>1 DEF OneOf
  <1>2. CASE c \in Chans
    <2>1. <<>> \in Seq(Chans) /\ <<c>> \in Seq(Chans)
      BY <1>2
    <2> QED
      BY <2>1 DEF OneOf
  <1> QED
    BY <1>1, <1>2

LEMMA WaitingSeq == Types => Waiting \in Seq(Chans)
  BY OneOfSeq DEF Types, FarTypes, Waiting

\* Facts about sequences: how the parts of Waiting move on.
LEMMA MoveHead ==
  ASSUME NEW S, NEW x \in Seq(S), NEW s \in Seq(S), s # <<>>
  PROVE  (x \o <<Head(s)>>) \o Tail(s) = (x \o <<>>) \o s
  OBVIOUS

LEMMA MoveOne ==
  ASSUME NEW S, NEW x \in Seq(S), NEW c \in S, NEW a \in Seq(S)
  PROVE  ((x \o <<c>>) \o <<>>) \o a = ((x \o <<>>) \o <<c>>) \o a
  OBVIOUS

LEMMA MoveFirst ==
  ASSUME NEW S, NEW s \in Seq(S), s # <<>>
  PROVE  <<Head(s)>> \o Tail(s) = <<>> \o s
  OBVIOUS

LEMMA DropFirst ==
  ASSUME NEW S, NEW x \in S, NEW a \in Seq(S), NEW b \in Seq(S), NEW c \in Seq(S)
  PROVE  ((<<x>> \o a) \o b) \o c = <<x>> \o (((<<>> \o a) \o b) \o c)
  OBVIOUS

LEMMA AddLast ==
  ASSUME NEW S, NEW x \in Seq(S), NEW a \in Seq(S), NEW c \in S
  PROVE  x \o Append(a, c) = Append(x \o a, c)
  OBVIOUS

LEMMA Suffix ==
  ASSUME NEW S, NEW x \in Seq(S), NEW n \in 0 .. Len(x), NEW w \in Seq(S),
         Len(w) = Len(x) - n, \A k \in 1 .. Len(w) : w[k] = x[n + k]
  PROVE  w = SubSeq(x, n + 1, Len(x))
  OBVIOUS

LEMMA OrderInit == Init => OrderInv
  <1> SUFFICES ASSUME Init PROVE OrderInv
    OBVIOUS
  <1>1. Types
    BY TypeInit
  <1>2. Waiting = <<"init">>
    BY DEF Init, Waiting, OneOf
  <1>3. opened = <<"init">> /\ far["init"] = "none"
    BY DEF Init
  <1>4. Placed
    BY <1>2, <1>3 DEF Placed, Handled
  <1>5. Once
    BY <1>3 DEF Once, Init
  <1> QED
    BY <1>1, <1>4, <1>5 DEF OrderInv

\* A step that leaves the waiting channels alone.
LEMMA SameOrder ==
  ASSUME OrderInv, UNCHANGED <<Waiting, opened>>,
         local' \in [Programs -> {"none", "backlog", "opening", "joined", "closed"}],
         \A c \in Programs : local'[c] \in {"none", "backlog"} => local[c] \in {"none", "backlog"},
         \A c \in Chans : far'[c] = "none" <=> far[c] = "none"
  PROVE  Placed' /\ Once'
  <1>1. opened \in Seq(Chans)
    BY DEF OrderInv, Types, NearTypes
  <1>2. Placed'
    BY <1>1 DEF OrderInv, Placed, Handled
  <1>3. Once'
    BY <1>1 DEF OrderInv, Once
  <1> QED
    BY <1>2, <1>3

\* The loop is done with the first waiting channel.
LEMMA DoneOrder ==
  ASSUME OrderInv, UNCHANGED <<opened, local, incoming, callback, arriving>>,
         cur \in Chans, cur' = "none",
         NEW outcome, outcome # "none", far' = [far EXCEPT ![cur] = outcome]
  PROVE  Placed' /\ Once'
  <1> DEFINE w == Waiting'
  <1>1. incoming \in Seq(Chans) /\ OneOf(callback) \in Seq(Chans) /\ arriving \in Seq(Chans)
    BY OneOfSeq DEF OrderInv, Types, FarTypes
  <1>2. OneOf(cur) = <<cur>> /\ OneOf(cur') = <<>> /\ OneOf(callback)' = OneOf(callback)
    BY DEF OneOf
  <1>3. w = ((<<>> \o incoming) \o OneOf(callback)) \o arriving
    BY <1>2 DEF Waiting
  <1>3a. Waiting = ((<<cur>> \o incoming) \o OneOf(callback)) \o arriving
    BY <1>2 DEF Waiting
  <1>3b. w \in Seq(Chans)
    BY <1>1, <1>3
  <1>4. Waiting = <<cur>> \o w
    <2> HIDE DEF w
    <2> QED
      BY <1>1, <1>3, <1>3a, DropFirst
  <1>5. /\ opened \in Seq(Chans) /\ far \in [Chans -> {"none", "ignored", "refused", "failed", "joined", "ended"}]
        /\ \A i \in 1 .. Len(opened) : opened[i] \in Chans
    BY DEF OrderInv, Types, NearTypes, FarTypes
  <1> HIDE DEF w
  <1>6. Len(Waiting) = Len(w) + 1 /\ Waiting[1] = cur
        /\ \A k \in 1 .. Len(w) : w[k] = Waiting[k + 1]
    BY <1>3b, <1>4
  <1>7. Len(w) \in Nat /\ Len(opened) \in Nat /\ Handled \in Nat
    BY <1>3b, <1>5 DEF OrderInv, Placed
  <1>8. Handled' = Handled + 1 /\ Handled + 1 \in 1 .. Len(opened)
    BY <1>6, <1>7 DEF Handled, w
  <1>9. cur = opened[Handled + 1]
    BY <1>6, <1>7 DEF OrderInv, Placed
  <1>10. \A k \in 1 .. Len(w) : w[k] = opened'[Handled' + k]
    <2> SUFFICES ASSUME NEW k \in 1 .. Len(w) PROVE w[k] = opened[Handled + 1 + k]
      BY <1>8
    <2>1. k + 1 \in 1 .. Len(Waiting)
      BY <1>6, <1>7
    <2>2. Waiting[k + 1] = opened[Handled + (k + 1)]
      BY <2>1 DEF OrderInv, Placed
    <2>3. Handled + (k + 1) = Handled + 1 + k
      BY <1>7
    <2> QED
      BY <1>6, <2>2, <2>3
  <1>11. \A i \in 1 .. Len(opened) : far'[opened[i]] = "none" <=> i > Handled'
    <2> SUFFICES ASSUME NEW i \in 1 .. Len(opened)
                 PROVE  far'[opened[i]] = "none" <=> i > Handled + 1
      BY <1>8
    <2>1. far[opened[i]] = "none" <=> i > Handled
      BY DEF OrderInv, Placed
    <2>2. CASE i = Handled + 1
      BY <1>5, <1>7, <1>9, <2>2
    <2>3. CASE i # Handled + 1
      <3>1. opened[i] # cur
        BY <1>8, <1>9, <2>3 DEF OrderInv, Once
      <3> QED
        BY <1>5, <1>7, <2>1, <2>3, <3>1
    <2> QED
      BY <2>2, <2>3
  <1>12. Placed'
    BY <1>7, <1>8, <1>10, <1>11 DEF Placed, w
  <1>13. Once'
    <2>1. \A c \in Chans : c # cur => far'[c] = far[c]
      BY <1>5
    <2> QED
      BY <1>8, <1>9, <2>1 DEF OrderInv, Once
  <1> QED
    BY <1>12, <1>13

\* A new channel is the last one opened and the last one waiting.
LEMMA CreateOrder ==
  ASSUME OrderInv, NEW c \in Programs, CreateChannel(c)
  PROVE  Placed' /\ Once'
  <1>1. incoming \in Seq(Chans) /\ OneOf(callback) \in Seq(Chans) /\ arriving \in Seq(Chans)
        /\ OneOf(cur) \in Seq(Chans)
    BY OneOfSeq DEF OrderInv, Types, FarTypes
  <1>2. UNCHANGED <<incoming, callback, cur, far>> /\ arriving' = Append(arriving, c)
        /\ opened' = Append(opened, c) /\ local' = [local EXCEPT ![c] = "opening"]
        /\ local[c] = "backlog"
    BY DEF CreateChannel, loopVars
  <1>3. OneOf(cur)' = OneOf(cur) /\ OneOf(callback)' = OneOf(callback)
    BY <1>2 DEF OneOf
  <1>4. Waiting' = Append(Waiting, c)
    <2> DEFINE x == (OneOf(cur) \o incoming) \o OneOf(callback)
    <2>1. x \in Seq(Chans)
      BY <1>1
    <2>2. Waiting = x \o arriving /\ Waiting' = x \o Append(arriving, c)
      BY <1>2, <1>3 DEF Waiting
    <2> HIDE DEF x
    <2> QED
      BY <1>1, <2>1, <2>2, AddLast
  <1>5. Waiting \in Seq(Chans) /\ opened \in Seq(Chans) /\ c \in Chans
        /\ local \in [Programs -> {"none", "backlog", "opening", "joined", "closed"}]
    BY WaitingSeq DEF OrderInv, Types, NearTypes
  <1>6. \A i \in 1 .. Len(opened) : opened[i] # c
    BY <1>2 DEF OrderInv, Once
  <1>7. far[c] = "none"
    BY <1>5, <1>6 DEF OrderInv, Once
  <1>8. Len(Waiting) \in Nat /\ Len(opened) \in Nat /\ Handled \in Nat
    BY <1>5 DEF OrderInv, Placed
  <1>9. Len(Waiting') = Len(Waiting) + 1 /\ Len(opened') = Len(opened) + 1
    BY <1>2, <1>4, <1>5
  <1>10. Handled' = Handled
    BY <1>8, <1>9 DEF Handled
  <1>11. \A k \in 1 .. Len(Waiting') : Waiting'[k] = opened'[Handled' + k]
    <2> SUFFICES ASSUME NEW k \in 1 .. Len(Waiting) + 1
                 PROVE  Append(Waiting, c)[k] = Append(opened, c)[Handled + k]
      BY <1>2, <1>4, <1>9, <1>10
    <2>1. Handled + Len(Waiting) = Len(opened)
      BY <1>8 DEF Handled
    <2>2. CASE k = Len(Waiting) + 1
      <3>1. Handled + k = Len(opened) + 1
        BY <1>8, <2>1, <2>2
      <3>2. Append(Waiting, c)[k] = c /\ Append(opened, c)[Len(opened) + 1] = c
        BY <1>5, <2>2
      <3> QED
        BY <3>1, <3>2
    <2>3. CASE k \in 1 .. Len(Waiting)
      <3>1. Waiting[k] = opened[Handled + k] /\ Handled + k \in 1 .. Len(opened)
        BY <1>8, <2>1, <2>3 DEF OrderInv, Placed
      <3> QED
        BY <1>5, <2>3, <3>1
    <2>4. k = Len(Waiting) + 1 \/ k \in 1 .. Len(Waiting)
      BY <1>8
    <2> QED
      BY <2>2, <2>3, <2>4
  <1>12. \A i \in 1 .. Len(opened') : far'[opened'[i]] = "none" <=> i > Handled'
    <2> SUFFICES ASSUME NEW i \in 1 .. Len(opened) + 1
                 PROVE  far[Append(opened, c)[i]] = "none" <=> i > Handled
      BY <1>2, <1>9, <1>10
    <2>1. CASE i = Len(opened) + 1
      BY <1>5, <1>7, <1>8, <2>1 DEF Handled
    <2>2. CASE i \in 1 .. Len(opened)
      BY <1>5, <2>2 DEF OrderInv, Placed
    <2> QED
      BY <1>8, <2>1, <2>2
  <1>13. Placed'
    BY <1>8, <1>10, <1>11, <1>12 DEF Placed
  <1>14. Once'
    <2>1. \A i \in 1 .. Len(opened) : opened'[i] = opened[i] /\ opened'[Len(opened) + 1] = c
      BY <1>2, <1>5
    <2>2. \A i, j \in 1 .. Len(opened') : opened'[i] = opened'[j] => i = j
      BY <1>2, <1>5, <1>6 DEF OrderInv, Once
    <2>3. \A i \in 1 .. Len(opened') :
             opened'[i] \in Programs => local'[opened'[i]] \notin {"none", "backlog"}
      BY <1>2, <1>5 DEF OrderInv, Once
    <2>4. \A d \in Chans : far'[d] # "none" => \E i \in 1 .. Len(opened') : opened'[i] = d
      <3> SUFFICES ASSUME NEW d \in Chans, far[d] # "none"
                   PROVE  \E i \in 1 .. Len(opened') : opened'[i] = d
        BY <1>2
      <3>1. PICK i \in 1 .. Len(opened) : opened[i] = d
        BY DEF OrderInv, Once
      <3>2. i \in 1 .. Len(opened') /\ opened'[i] = d
        BY <1>2, <1>5, <1>8, <1>9, <3>1
      <3> QED
        BY <3>2
    <2> QED
      BY <2>2, <2>3, <2>4 DEF Once
  <1> QED
    BY <1>13, <1>14

LEMMA OrderStep == OrderInv /\ [Next]_vars => Placed' /\ Once'
  <1> SUFFICES ASSUME OrderInv, [Next]_vars PROVE Placed' /\ Once'
    OBVIOUS
  <1>1. /\ local \in [Programs -> {"none", "backlog", "opening", "joined", "closed"}]
        /\ far \in [Chans -> {"none", "ignored", "refused", "failed", "joined", "ended"}]
        /\ arriving \in Seq(Chans) /\ incoming \in Seq(Chans) /\ Len(incoming) <= 1
        /\ callback \in Chans \cup {"none"} /\ cur \in Chans \cup {"none"} /\ InHand
    BY DEF OrderInv, Types, NearTypes, FarTypes
  <1> USE DEF nearVars, loopVars, queueVars
  <1>2. CASE UNCHANGED <<opened, local, far, cur, incoming, callback, arriving>>
    BY <1>1, <1>2, SameOrder DEF Waiting, OneOf
  <1>3. CASE Announce
    <2>1. Waiting' = Waiting
      <3> DEFINE x == OneOf(cur) \o incoming
      <3>1. x \in Seq(Chans) /\ arriving # <<>>
        BY <1>1, <1>3, OneOfSeq DEF Announce
      <3>2. Head(arriving) \in Chans
        BY <1>1, <3>1
      <3>3. x' = x
        BY <1>3 DEF Announce, OneOf
      <3>4. OneOf(callback) = <<>> /\ OneOf(callback)' = <<Head(arriving)>>
        BY <1>3, <3>2 DEF Announce, OneOf
      <3>5. Waiting = (x \o <<>>) \o arriving /\ Waiting' = (x \o <<Head(arriving)>>) \o Tail(arriving)
        BY <1>3, <3>3, <3>4 DEF Waiting, Announce
      <3> HIDE DEF x
      <3> QED
        BY <1>1, <3>1, <3>5, MoveHead
    <2> QED
      BY <1>1, <1>3, <2>1, SameOrder DEF Announce
  <1>4. CASE Push
    <2>1. Waiting' = Waiting
      <3>1. callback \in Chans /\ incoming = <<>> /\ incoming' = <<callback>> /\ callback' = "none"
            /\ UNCHANGED <<cur, arriving>>
        BY <1>1, <1>4 DEF Push
      <3>2. OneOf(callback) = <<callback>> /\ OneOf(callback)' = <<>> /\ OneOf(cur)' = OneOf(cur)
        BY <3>1 DEF OneOf
      <3>3. Waiting = ((OneOf(cur) \o <<>>) \o <<callback>>) \o arriving
            /\ Waiting' = ((OneOf(cur) \o <<callback>>) \o <<>>) \o arriving
        BY <3>1, <3>2 DEF Waiting
      <3>4. OneOf(cur) \in Seq(Chans)
        BY <1>1, OneOfSeq
      <3> QED
        BY <1>1, <3>1, <3>3, <3>4, MoveOne
    <2> QED
      BY <1>1, <1>4, <2>1, SameOrder DEF Push
  <1>5. CASE Take
    <2>1. Waiting' = Waiting
      <3>1. cur = "none" /\ incoming # <<>> /\ cur' = Head(incoming) /\ incoming' = Tail(incoming)
            /\ UNCHANGED <<callback, arriving>>
        BY <1>1, <1>5 DEF Take, InHand
      <3>2. Head(incoming) \in Chans
        BY <1>1, <3>1
      <3>3. OneOf(cur) = <<>> /\ OneOf(cur)' = <<Head(incoming)>> /\ OneOf(callback)' = OneOf(callback)
        BY <3>1, <3>2 DEF OneOf
      <3>4. Waiting = ((<<>> \o incoming) \o OneOf(callback)) \o arriving
            /\ Waiting' = ((<<Head(incoming)>> \o Tail(incoming)) \o OneOf(callback)) \o arriving
        BY <3>1, <3>3 DEF Waiting
      <3> QED
        BY <1>1, <3>1, <3>4, MoveFirst
    <2> QED
      BY <1>1, <1>5, <2>1, SameOrder DEF Take
  <1>6. CASE IgnoreLabel \/ IgnoreClosed \/ Refuse \/ DialSucceeds \/ DialFailsTCP \/ DialFailsUDP
    <2>1. UNCHANGED <<opened, local, incoming, callback, arriving>> /\ cur' = "none" /\ at # "accept"
      BY <1>6 DEF Done, IgnoreLabel, IgnoreClosed, Refuse, DialSucceeds, DialFailsTCP, DialFailsUDP
    <2>2. PICK outcome \in {"ignored", "refused", "failed", "joined"} :
             far' = [far EXCEPT ![cur] = outcome]
      BY <1>6 DEF Done, IgnoreLabel, IgnoreClosed, Refuse, DialSucceeds, DialFailsTCP, DialFailsUDP
    <2>3. cur \in Chans /\ outcome # "none"
      BY <1>1, <2>1, <2>2 DEF InHand
    <2> QED
      BY <2>1, <2>2, <2>3, DoneOrder
  <1>7. ASSUME NEW c \in Programs, CreateFails(c) \/ OpenReturns(c) \/ WrapFails(c) \/ ProgramLeaves(c)
                                   \/ ChannelEnds(c)
        PROVE  Placed' /\ Once'
    <2>1. UNCHANGED <<opened, far, cur, incoming, callback, arriving>>
      BY <1>7 DEF CreateFails, OpenReturns, WrapFails, ProgramLeaves, ChannelEnds, OpenFailed
    <2>2. \E s \in {"joined", "closed"} : local' = [local EXCEPT ![c] = s]
      BY <1>7 DEF CreateFails, OpenReturns, WrapFails, ProgramLeaves, ChannelEnds, OpenFailed
    <2> QED
      BY <1>1, <2>1, <2>2, SameOrder DEF Waiting, OneOf
  <1>8. ASSUME NEW c \in Programs, FarEnds(c) \/ FarChannelEnds(c)
        PROVE  Placed' /\ Once'
    <2>1. UNCHANGED <<opened, local, cur, incoming, callback, arriving>>
          /\ far[c] = "joined" /\ far' = [far EXCEPT ![c] = "ended"]
      BY <1>8 DEF FarEnds, FarChannelEnds
    <2>2. \A d \in Chans : far'[d] = "none" <=> far[d] = "none"
      BY <1>1, <2>1
    <2> QED
      BY <1>1, <2>1, <2>2, SameOrder DEF Waiting, OneOf
  <1>9. ASSUME NEW c \in Programs, NEW p \in Ports, Connect(c, p)
        PROVE  Placed' /\ Once'
    <2>1. UNCHANGED <<opened, far, cur, incoming, callback, arriving>>
          /\ local[c] = "none" /\ local' = [local EXCEPT ![c] = "backlog"]
      BY <1>9 DEF Connect
    <2> QED
      BY <1>1, <2>1, SameOrder DEF Waiting, OneOf
  <1>10. CASE \/ AssocUp \/ NetEnds \/ ListenerFatal
              \/ Wrap \/ AcceptReturns \/ BadType \/ UNCHANGED vars
    BY <1>2, <1>10 DEF AssocUp, NetEnds, ListenerFatal, Wrap, AcceptReturns, BadType, vars
  <1>11. ASSUME NEW c \in Programs, FarHears(c) PROVE Placed' /\ Once'
    BY <1>2, <1>11 DEF FarHears
  <1>12. ASSUME NEW c \in Programs, Listening(c) PROVE Placed' /\ Once'
    BY <1>7, <1>12, CreateOrder DEF Listening
  <1> QED
    BY <1>3, <1>4, <1>5, <1>6, <1>7, <1>8, <1>9, <1>10, <1>11, <1>12 DEF Next, AcceptLoop

\* Every step keeps the order.
LEMMA OrderInvariant == Spec => []OrderInv
  <1>1. OrderInv /\ [Next]_vars => OrderInv'
    BY OrderStep, NetStep, NearStep, FarStep DEF OrderInv, Types
  <1> QED
    BY OrderInit, <1>1, PTL DEF Spec

\* No channel is lost: what waits is what was opened last, in that order.
THEOREM NeverLost == Spec => []NoChannelLost
  <1>1. OrderInv => NoChannelLost
    <2> SUFFICES ASSUME OrderInv PROVE NoChannelLost
      OBVIOUS
    <2>1. Waiting \in Seq(Chans) /\ opened \in Seq(Chans)
      BY WaitingSeq DEF OrderInv, Types, NearTypes
    <2>2. Len(Waiting) \in Nat /\ Len(opened) \in Nat /\ Handled \in 0 .. Len(opened)
          /\ Len(Waiting) = Len(opened) - Handled
      BY <2>1 DEF OrderInv, Placed, Handled
    <2>3. Waiting = SubSeq(opened, Handled + 1, Len(opened))
      BY <2>1, <2>2, Suffix DEF OrderInv, Placed
    <2>4. \A i \in 1 .. Handled : far[opened[i]] # "none"
      BY <2>2 DEF OrderInv, Placed
    <2>5. \A i \in Handled + 1 .. Len(opened) : far[opened[i]] = "none"
      BY <2>2 DEF OrderInv, Placed
    <2> QED
      BY <2>2, <2>3, <2>4, <2>5 DEF NoChannelLost, Handled
  <1> QED
    BY OrderInvariant, <1>1, PTL

-----------------------------------------------------------------------------
(***************************************************************************)
(* How channels and processes come to an end.  The near peer chooses the   *)
(* port, the far peer looks for its route when the channel's turn comes:   *)
(* the port is still the same one then, as a channel in hand was opened.   *)
(***************************************************************************)
\* A program has its port from the moment it connects.
Ported == \A c \in Programs : port[c] = "none" <=> local[c] = "none"

\* The channel init ends at its label; its name is no program's.
OnlyPrograms ==
  /\ at \in {"wrap", "route"} => cur \in Programs
  /\ far["init"] \in {"none", "ignored"}

\* What became of a channel follows from the route of its port.
OutcomeFitsRoute ==
  \A c \in Programs :
     /\ far[c] = "refused" => port[c] \notin Routed
     /\ far[c] \in {"joined", "failed", "ended"} => port[c] \in Tcp \cup Udp

\* Neither end leaves the other one with half a tunnel: both what the far peer
\* turned away, failed to dial or ended, and what the near peer ended, is closed
\* for the other one to hear, unless all else is lost.
HalvesAreClosed ==
  \A c \in Programs :
     /\ far[c] \in {"refused", "failed", "ended"} => c \in closed \/ ~FarRuns
     /\ local[c] = "closed" => c \in closed \/ net = "closed"

\* What acceptRemote may end its process by: a route of unknown type, whose channel
\* stays in hand, or a failed dial of a TCP service.
LoopEndHasCause ==
  \/ FarRuns
  \/ at = "route" /\ port[cur] \in Bad
  \/ \E c \in Programs : far[c] = "failed" /\ port[c] \in Tcp

EndInv ==
  Ported /\ OnlyPrograms /\ OutcomeFitsRoute /\ HalvesAreClosed /\ LoopEndHasCause

\* Nothing has come to an end.
LEMMA EndInit == Init => EndInv
  BY DEF Init, EndInv, Ported, OnlyPrograms, OutcomeFitsRoute, HalvesAreClosed,
         LoopEndHasCause, FarRuns

\* A channel that is in hand, or was, belongs to a program that is connected.
LEMMA AcceptedIsOpened ==
  ASSUME OrderInv, NEW c \in Programs, c = cur \/ far[c] # "none"
  PROVE  local[c] \notin {"none", "backlog"}
  <1>1. opened \in Seq(Chans)
    BY DEF OrderInv, Types, NearTypes
  <1>2. CASE c = cur
    <2>1. incoming \in Seq(Chans) /\ OneOf(callback) \in Seq(Chans) /\ arriving \in Seq(Chans)
      BY OneOfSeq DEF OrderInv, Types, FarTypes
    <2>2. Waiting = ((<<c>> \o incoming) \o OneOf(callback)) \o arriving
      BY <1>2 DEF Waiting, OneOf
    <2>3. Len(Waiting) \in Nat /\ Len(Waiting) >= 1 /\ Waiting[1] = c
      BY <2>1, <2>2
    <2>4. Handled \in Nat /\ Len(opened) \in Nat /\ Handled + 1 \in 1 .. Len(opened)
      BY <1>1, <2>3 DEF OrderInv, Placed, Handled
    <2>5. opened[Handled + 1] = c
      BY <2>3 DEF OrderInv, Placed
    <2> QED
      BY <2>4, <2>5 DEF OrderInv, Once
  <1>3. CASE far[c] # "none"
    BY <1>3 DEF OrderInv, Once
  <1> QED
    BY <1>2, <1>3

\* A program that connects is not in the hands of the far peer yet.
LEMMA ConnectEnds ==
  ASSUME OrderInv, EndInv, NEW c \in Programs, NEW p \in Ports, Connect(c, p)
  PROVE  EndInv'
  <1>1. /\ local[c] = "none" /\ local' = [local EXCEPT ![c] = "backlog"]
        /\ port' = [port EXCEPT ![c] = p]
        /\ UNCHANGED <<net, dead, closed, far, at, cur>>
    BY DEF Connect, loopVars
  <1>2. c # cur /\ far[c] = "none"
    BY <1>1, AcceptedIsOpened
  <1>3. /\ port \in [Programs -> Ports \cup {"none"}]
        /\ local \in [Programs -> {"none", "backlog", "opening", "joined", "closed"}]
    BY DEF OrderInv, Types, NearTypes
  <1>4. Ported' /\ OnlyPrograms' /\ OutcomeFitsRoute' /\ HalvesAreClosed'
    BY <1>1, <1>2, <1>3
       DEF EndInv, Ported, OnlyPrograms, OutcomeFitsRoute, HalvesAreClosed, FarRuns
  <1>5. LoopEndHasCause'
    BY <1>1, <1>2, <1>3 DEF EndInv, LoopEndHasCause, OnlyPrograms, FarRuns
  <1> QED
    BY <1>4, <1>5 DEF EndInv

\* The other steps of the near peer leave the ports and the far peer alone.
LEMMA NearEnds ==
  ASSUME OrderInv, EndInv, NEW c \in Programs, Listening(c) \/ ProgramLeaves(c)
  PROVE  EndInv'
  <1> USE DEF EndInv, Ported, OnlyPrograms, OutcomeFitsRoute, HalvesAreClosed,
              LoopEndHasCause, FarRuns
  <1>1. /\ port \in [Programs -> Ports \cup {"none"}]
        /\ local \in [Programs -> {"none", "backlog", "opening", "joined", "closed"}]
    BY DEF OrderInv, Types, NearTypes
  <1>2. CASE CreateChannel(c) \/ OpenReturns(c)
    BY <1>1, <1>2 DEF CreateChannel, OpenReturns, loopVars
  <1>3. CASE CreateFails(c) \/ WrapFails(c)
    BY <1>1, <1>3 DEF CreateFails, WrapFails, OpenFailed, loopVars
  <1>4. CASE ProgramLeaves(c)
    BY <1>1, <1>4 DEF ProgramLeaves, loopVars
  <1> QED
    BY <1>2, <1>3, <1>4 DEF Listening

\* The far peer is done with the channel in hand.
LEMMA DoneEnds ==
  ASSUME OrderInv, EndInv,
         \/ IgnoreLabel \/ IgnoreClosed \/ Refuse
         \/ DialSucceeds \/ DialFailsTCP \/ DialFailsUDP
  PROVE  EndInv'
  <1> USE DEF EndInv, Ported, OnlyPrograms, OutcomeFitsRoute, HalvesAreClosed,
              LoopEndHasCause, FarRuns, Done
  <1>1. far \in [Chans -> {"none", "ignored", "refused", "failed", "joined", "ended"}]
    BY DEF OrderInv, Types, FarTypes
  <1>2. CASE IgnoreLabel
    BY <1>1, <1>2 DEF IgnoreLabel, nearVars
  <1>3. CASE IgnoreClosed
    BY <1>1, <1>3 DEF IgnoreClosed, nearVars
  <1>4. CASE Refuse
    BY <1>1, <1>4 DEF Refuse, nearVars
  <1>5. CASE DialSucceeds
    BY <1>1, <1>5 DEF DialSucceeds, nearVars
  <1>6. CASE DialFailsTCP
    BY <1>1, <1>6 DEF DialFailsTCP, nearVars
  <1>7. CASE DialFailsUDP
    BY <1>1, <1>7 DEF DialFailsUDP, nearVars
  <1> QED
    BY <1>2, <1>3, <1>4, <1>5, <1>6, <1>7

\* The remaining steps, and all of them together.
LEMMA EndStep == OrderInv /\ EndInv /\ [Next]_vars => EndInv'
  <1> SUFFICES ASSUME OrderInv, EndInv, [Next]_vars PROVE EndInv'
    OBVIOUS
  <1> USE DEF EndInv, Ported, OnlyPrograms, OutcomeFitsRoute, HalvesAreClosed,
              LoopEndHasCause, FarRuns
  <1>1. CASE \/ AssocUp \/ NetEnds \/ ListenerFatal
             \/ Announce \/ Push \/ Take \/ AcceptReturns \/ UNCHANGED vars
    BY <1>1 DEF AssocUp, NetEnds, ListenerFatal, Announce, Push, Take, AcceptReturns,
                vars, nearVars, loopVars
  <1>2. CASE Wrap
    <2>1. cur \in Programs
      BY <1>2 DEF Wrap, OrderInv, Types, InHand, FarTypes
    <2> QED
      BY <1>2, <2>1 DEF Wrap, nearVars
  <1>3. CASE BadType
    BY <1>3 DEF BadType, nearVars, loopVars
  <1>4. ASSUME NEW c \in Programs, FarHears(c) PROVE EndInv'
    BY <1>4 DEF FarHears, nearVars, loopVars
  <1>5. ASSUME NEW c \in Programs, FarEnds(c) PROVE EndInv'
    <2>1. far \in [Chans -> {"none", "ignored", "refused", "failed", "joined", "ended"}]
      BY DEF OrderInv, Types, FarTypes
    <2> QED
      BY <1>5, <2>1 DEF FarEnds, nearVars, loopVars
  <1>6. ASSUME NEW c \in Programs, Listening(c) \/ ProgramLeaves(c) PROVE EndInv'
    BY <1>6, NearEnds
  <1>7. ASSUME NEW c \in Programs, NEW p \in Ports, Connect(c, p) PROVE EndInv'
    BY <1>7, ConnectEnds
  <1>8. CASE \/ IgnoreLabel \/ IgnoreClosed \/ Refuse
             \/ DialSucceeds \/ DialFailsTCP \/ DialFailsUDP
    BY <1>8, DoneEnds
  <1> QED
    BY <1>1, <1>2, <1>3, <1>4, <1>5, <1>6, <1>7, <1>8
       DEF Next, AcceptLoop, ChannelEnds, FarChannelEnds

\* The invariant that the theorems about ends rest on.
THEOREM EndInvariant == Spec => []EndInv
  BY OrderInvariant, EndInit, EndStep, PTL DEF Spec

\* A service is dialled for a port only that the far peer has a TCP or UDP route
\* for, and a channel is refused only if it has none, however late its turn comes.
THEOREM OutcomesFitRoutes == Spec => []OutcomeFitsRoute
  BY EndInvariant, PTL DEF EndInv

\* No half of a tunnel is left open: whichever end a tunnel ends at, and for
\* whatever reason, the channel is closed, unless the process or the connection is
\* at its end.
THEOREM HalvesAreAlwaysClosed == Spec => []HalvesAreClosed
  BY EndInvariant, PTL DEF EndInv

\* acceptRemote ends its process by a route of unknown type or a failed dial of a
\* TCP service and by nothing else: without such a route, a failed dial is the only
\* way to break FarGoesOn.  Nothing is said of the listeners of the same process.
THEOREM LoopEndsForACause == Spec => []LoopEndHasCause
  BY EndInvariant, PTL DEF EndInv
=============================================================================
