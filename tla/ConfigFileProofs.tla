-------------------------- MODULE ConfigFileProofs --------------------------
(***************************************************************************)
(* Proofs about ConfigFile, for any number of commands and routes.         *)
(***************************************************************************)
EXTENDS ConfigFile, TLAPS

-----------------------------------------------------------------------------
(***************************************************************************)
(* Types.                                                                  *)
(***************************************************************************)

\* Adding a route to a list of routes gives a list of routes.
LEMMA WithRouteType ==
  ASSUME NEW rs \in Seq(Routes), NEW r \in Routes
  PROVE  WithRoute(rs, r) \in Seq(Routes)
  BY DEF WithRoute

\* LoadConfig returns configurations, those that Loads names.
LEMMA LoadsType == content \in Configs => Loads \subseteq Configs
  <1> SUFFICES ASSUME content \in Configs PROVE Loads \subseteq Configs
    OBVIOUS
  <1>1. EmptyConfig \in Configs
    BY DEF EmptyConfig, Configs
  <1>2. \A rs \in Seq(Routes) : [content EXCEPT !.routes = rs] \in Configs
    BY DEF Configs
  <1>3. content.routes \in Seq(Routes) /\ <<>> \in Seq(Routes)
    BY DEF Configs
  <1>4. \A r \in Routes : [content EXCEPT !.routes = Append(@, r)] \in Configs
    <2> TAKE r \in Routes
    <2>1. Append(content.routes, r) \in Seq(Routes)
      BY <1>3
    <2> QED
      BY <2>1 DEF Configs
  <1>5. TornLoads \subseteq Configs
    BY <1>1, <1>2, <1>3, <1>4 DEF TornLoads
  <1> QED
    BY <1>1, <1>5 DEF Loads

\* A mix of two configurations is a configuration.
LEMMA MixesType ==
  ASSUME NEW p \in Procs, cfg[p] \in Configs, content \in Configs, Mixes(p)
  PROVE  content' \in Configs
  <1> DEFINE new == cfg[p].routes
             old == content.routes
             end(j) == SubSeq(old, j, Len(old))
  <1>1. CASE content' = [content EXCEPT !.key = "mixed"]
    BY <1>1 DEF Configs
  <1>2. ASSUME NEW rs \in Seq(Routes), content' = [cfg[p] EXCEPT !.routes = rs]
        PROVE  content' \in Configs
    BY <1>2 DEF Configs
  <1>3. ASSUME NEW i \in 0 .. Len(new), NEW j \in 1 .. Len(old) + 1
        PROVE  /\ SubSeq(new, 1, i) \o end(j) \in Seq(Routes)
               /\ \A r \in Routes : Append(SubSeq(new, 1, i), r) \o end(j) \in Seq(Routes)
    <2>1. new \in Seq(Routes) /\ old \in Seq(Routes)
      BY DEF Configs
    <2>2. SubSeq(new, 1, i) \in Seq(Routes) /\ end(j) \in Seq(Routes)
      BY <2>1
    <2>3. \A r \in Routes : Append(SubSeq(new, 1, i), r) \in Seq(Routes)
      BY <2>2
    <2> HIDE DEF new, end
    <2> QED
      BY <2>2, <2>3
  <1> QED
    BY <1>1, <1>2, <1>3 DEF Mixes

LEMMA TypeInit == Init => TypeOK
  <1> SUFFICES ASSUME Init PROVE TypeOK
    OBVIOUS
  <1>1. EmptyConfig \in Configs
    BY DEF EmptyConfig, Configs
  <1> QED
    BY <1>1, ConfigFileAssumption DEF Init, TypeOK, InProgress

LEMMA TypeStep == TypeOK /\ [Next]_vars => TypeOK'
  <1> SUFFICES ASSUME TypeOK, [Next]_vars PROVE TypeOK'
    OBVIOUS
  <1> USE DEF TypeOK, InProgress, histVars
  <1>1. ASSUME NEW p \in Procs, InitStarts(p) PROVE TypeOK'
    <2>1. [EmptyConfig EXCEPT !.key = p] \in Configs
      <3>1. [EmptyConfig EXCEPT !.key = p] = [key |-> p, routes |-> <<>>]
        BY DEF EmptyConfig
      <3>2. <<>> \in Seq(Routes)
        OBVIOUS
      <3> QED
        BY <3>1, <3>2 DEF Configs
    <2> QED
      BY <1>1, <2>1 DEF InitStarts, Overlap
  <1>2. ASSUME NEW p \in Procs, AddStarts(p) PROVE TypeOK'
    BY <1>2, LoadsType DEF AddStarts, Overlap
  <1>3. ASSUME NEW p \in Procs, ReadsConfig(p) PROVE TypeOK'
    BY <1>3, LoadsType DEF ReadsConfig
  <1>4. ASSUME NEW p \in Procs, StartFails(p) PROVE TypeOK'
    BY <1>4 DEF StartFails
  <1>5. ASSUME NEW p \in Procs, AddsRoute(p) PROVE TypeOK'
    <2>1. cfg[p].routes \in Seq(Routes) /\ adding[p] \in Routes
      BY DEF Configs
    <2>2. WithRoute(cfg[p].routes, adding[p]) \in Seq(Routes)
      BY <2>1, WithRouteType
    <2>3. [cfg[p] EXCEPT !.routes = WithRoute(@, adding[p])] \in Configs
      BY <2>2 DEF Configs
    <2>4. cfg' \in [Procs -> Configs]
      BY <1>5, <2>3 DEF AddsRoute
    <2> QED
      BY <1>5, <2>4 DEF AddsRoute
  <1>6. ASSUME NEW p \in Procs, GivesUp(p) PROVE TypeOK'
    BY <1>6 DEF GivesUp
  <1>7. ASSUME NEW p \in Procs, Truncates(p) PROVE TypeOK'
    BY <1>7 DEF Truncates
  <1>8. ASSUME NEW p \in Procs, Writes(p) PROVE TypeOK'
    BY <1>8 DEF Writes
  <1>9. ASSUME NEW p \in Procs, SaveFails(p) PROVE TypeOK'
    <2>1. content' \in Configs
      BY <1>9, MixesType DEF SaveFails
    <2>2. patched' \in BOOLEAN
      BY <1>9 DEF SaveFails
    <2> QED
      BY <1>9, <2>1, <2>2 DEF SaveFails
  <1>10. CASE UNCHANGED vars
    BY <1>10 DEF vars, procVars, histVars
  <1> QED
    BY <1>1, <1>2, <1>3, <1>4, <1>5, <1>6, <1>7, <1>8, <1>9, <1>10 DEF Next

\* Every variable keeps its type, for any commands, routes and formats.
THEOREM TypeCorrect == Spec => []TypeOK
  BY TypeInit, TypeStep, PTL DEF Spec

-----------------------------------------------------------------------------
(***************************************************************************)
(* The invariants.                                                         *)
(***************************************************************************)

Distinct(rs) == \A i, j \in 1 .. Len(rs) : rs[i] = rs[j] => i = j
Sound(c)     == c.key \in Procs /\ Distinct(c.routes)

\* What may be loaded or is about to be saved has a key pair and no duplicates.
SoundInv ==
  Reliable =>
     /\ file = "whole" => Sound(content)
     /\ Distinct(content.routes)
     /\ \A p \in InProgress : Sound(cfg[p])

\* Two texts become one by a save that stopped over what another command wrote;
\* only an init is misled.
HistInv ==
  /\ file = "mixed" => patched
  /\ patched => disturbed
  /\ \A p \in misled : cmd[p] = "init" /\ at[p] # "idle"

\* Before the first save there is nothing to lose.
AbsentInv == file = "absent" => content = EmptyConfig /\ acked = {}

\* Without overlaps and failures: a file that is empty is being written.
QuietInv ==
  ~disturbed =>
     /\ file # "torn"
     /\ \A p, q \in InProgress : p = q
     /\ file = "empty" <=> \E p \in Procs : at[p] = "writing"

\* And then a command in progress keeps the key pair and the routes, unless it
\* is an init that an error of LoadConfig has misled.
Has(c, rs) == \A r \in rs : Contains(c.routes, r)

KeepsInv ==
  ~disturbed =>
     /\ misled = {} => Has(content, acked)
     /\ \A p \in InProgress : p \notin misled =>
           /\ misled = {} => Has(cfg[p], acked)
           /\ content.key # "none" => cfg[p].key = content.key
           /\ cmd[p] = "add" /\ at[p] \in {"saving", "writing"} => Has(cfg[p], {adding[p]})

\* What JSON commands load was saved.
SavedInv ==
  format = "json" /\ ~patched =>
     /\ file = "whole" => content \in saved
     /\ \A p \in Procs : cmd[p] \in {"info", "run"} /\ at[p] = "done" => cfg[p] \in saved

IInv == TypeOK /\ HistInv /\ SoundInv /\ AbsentInv /\ QuietInv /\ KeepsInv /\ SavedInv

-----------------------------------------------------------------------------
(***************************************************************************)
(* Lemmas about loading and adding.                                        *)
(***************************************************************************)

\* A route that is added becomes no duplicate, and no other one is lost.
LEMMA WithRouteKeeps ==
  ASSUME NEW rs \in Seq(Routes), NEW r \in Routes
  PROVE  /\ Distinct(rs) => Distinct(WithRoute(rs, r))
         /\ Contains(WithRoute(rs, r), r)
         /\ \A s : Contains(rs, s) => Contains(WithRoute(rs, r), s)
  <1>1. CASE Contains(rs, r)
    BY <1>1 DEF WithRoute
  <1>2. CASE ~Contains(rs, r)
    <2> DEFINE ts == Append(rs, r)
    <2>1. /\ Len(ts) = Len(rs) + 1 /\ ts[Len(rs) + 1] = r /\ Len(rs) \in Nat
          /\ \A i \in 1 .. Len(rs) : ts[i] = rs[i] /\ rs[i] # r
      BY <1>2 DEF Contains
    <2>2. Distinct(rs) => Distinct(ts)
      BY <2>1 DEF Distinct
    <2>3. Contains(ts, r) /\ \A s : Contains(rs, s) => Contains(ts, s)
      BY <2>1 DEF Contains
    <2> QED
      BY <1>2, <2>2, <2>3 DEF WithRoute
  <1> QED
    BY <1>1, <1>2

\* What is loaded under reliable conditions is what the whole file holds.
LEMMA LoadsWhole ==
  ASSUME format \in {"json", "yaml"}, format = "json" \/ file \notin {"torn", "empty"},
         file # "mixed", NEW c \in Loads
  PROVE  file = "whole" /\ c = content
  BY DEF Loads, EmptyIsConfig

LEMMA IInit == Init => IInv
  <1> SUFFICES ASSUME Init PROVE IInv
    OBVIOUS
  <1>1. Distinct(EmptyConfig.routes)
    BY DEF EmptyConfig, Distinct
  <1> QED
    BY <1>1, TypeInit DEF Init, IInv, HistInv, SoundInv, AbsentInv, QuietInv, KeepsInv, SavedInv, InProgress, Has

-----------------------------------------------------------------------------
(***************************************************************************)
(* The steps.                                                              *)
(***************************************************************************)

LEMMA InitStartsStep ==
  ASSUME IInv, NEW p \in Procs, InitStarts(p)
  PROVE  HistInv' /\ SoundInv' /\ AbsentInv' /\ QuietInv' /\ KeepsInv' /\ SavedInv'
  <1> USE DEF IInv, HistInv, histVars, TypeOK, InProgress, InitStarts, Overlap
  <1>1. /\ cfg' = [cfg EXCEPT ![p] = [key |-> p, routes |-> <<>>]] /\ at' = [at EXCEPT ![p] = "saving"]
        /\ UNCHANGED <<format, file, content, acked, saved>>
        /\ p # "none" /\ Distinct(<<>>)
    <2>1. [EmptyConfig EXCEPT !.key = p] = [key |-> p, routes |-> <<>>]
      BY DEF EmptyConfig
    <2>2. Distinct(<<>>)
      BY DEF Distinct
    <2> QED
      BY <2>1, <2>2, ConfigFileAssumption
  <1>0. HistInv'
    BY DEF HistInv
  <1>2. SoundInv'
    BY <1>1 DEF SoundInv, Reliable, Sound
  <1>3. AbsentInv'
    BY DEF AbsentInv
  <1>4. QuietInv'
    BY DEF QuietInv
  <1>5. KeepsInv'
    <2> SUFFICES ASSUME ~disturbed' PROVE KeepsInv'
      BY DEF KeepsInv
    <2>1. ~disturbed /\ InProgress = {} /\ InProgress' = {p} /\ file \in {"absent", "whole"}
      BY DEF QuietInv
    <2>2. CASE file = "whole"
      <3>1. p \in misled'
        BY <2>2
      <3> QED
        BY <1>1, <2>1, <3>1 DEF KeepsInv, Has
    <2>3. CASE file = "absent"
      <3>1. content = EmptyConfig /\ acked = {}
        BY <2>3 DEF AbsentInv
      <3> QED
        BY <1>1, <2>1, <3>1 DEF KeepsInv, Has, EmptyConfig
    <2> QED
      BY <2>1, <2>2, <2>3
  <1>6. SavedInv'
    BY DEF SavedInv
  <1> QED
    BY <1>0, <1>2, <1>3, <1>4, <1>5, <1>6

LEMMA AddStartsStep ==
  ASSUME IInv, NEW p \in Procs, AddStarts(p)
  PROVE  HistInv' /\ SoundInv' /\ AbsentInv' /\ QuietInv' /\ KeepsInv' /\ SavedInv'
  <1> USE DEF IInv, HistInv, histVars, TypeOK, InProgress, AddStarts, Overlap
  <1>1. PICK c \in Loads : cfg' = [cfg EXCEPT ![p] = c]
    OBVIOUS
  <1>2. ASSUME Reliable' PROVE Reliable /\ file = "whole" /\ c = content
    <2>1. format = "json" \/ (~disturbed /\ InProgress = {})
      BY <1>2 DEF Reliable
    <2>2. /\ format = "json" \/ file \notin {"torn", "empty"}
          /\ file # "mixed"
      BY <1>2, <2>1 DEF QuietInv, HistInv, Reliable
    <2>3. file = "whole" /\ c = content
      BY <2>2, LoadsWhole
    <2> QED
      BY <1>2, <2>1, <2>3 DEF Reliable
  <1>0. HistInv'
    BY DEF HistInv
  <1>3. SoundInv'
    <2> SUFFICES ASSUME Reliable' PROVE SoundInv'
      BY DEF SoundInv
    <2>1. Sound(content) /\ c = content
      BY <1>2 DEF SoundInv
    <2> QED
      BY <1>1, <1>2, <2>1 DEF SoundInv
  <1>4. AbsentInv'
    BY DEF AbsentInv
  <1>5. QuietInv'
    BY DEF QuietInv
  <1>6. KeepsInv'
    <2> SUFFICES ASSUME ~disturbed' PROVE KeepsInv'
      BY DEF KeepsInv
    <2>1. ~disturbed /\ InProgress = {} /\ c = content
      BY <1>2 DEF Reliable
    <2> QED
      BY <1>1, <2>1 DEF KeepsInv, Has
  <1>7. SavedInv'
    BY DEF SavedInv
  <1> QED
    BY <1>0, <1>3, <1>4, <1>5, <1>6, <1>7

LEMMA ReadsConfigStep ==
  ASSUME IInv, NEW p \in Procs, ReadsConfig(p)
  PROVE  HistInv' /\ SoundInv' /\ AbsentInv' /\ QuietInv' /\ KeepsInv' /\ SavedInv'
  <1> USE DEF IInv, HistInv, histVars, TypeOK, InProgress, ReadsConfig
  <1>0. HistInv'
    BY DEF HistInv
  <1>1. SoundInv'
    BY DEF SoundInv, Reliable
  <1>2. AbsentInv'
    BY DEF AbsentInv
  <1>3. QuietInv'
    BY DEF QuietInv
  <1>4. KeepsInv'
    BY DEF KeepsInv, Has
  <1>5. SavedInv'
    <2>1. PICK c \in Loads : cfg' = [cfg EXCEPT ![p] = c]
      OBVIOUS
    <2>2. format = "json" /\ ~patched => file = "whole" /\ c = content
      BY LoadsWhole DEF HistInv
    <2>3. UNCHANGED <<format, file, content, saved, patched>>
      OBVIOUS
    <2>4. \A q \in Procs \ {p} : cfg'[q] = cfg[q] /\ cmd'[q] = cmd[q] /\ at'[q] = at[q]
      OBVIOUS
    <2> QED
      BY <2>1, <2>2, <2>3, <2>4 DEF SavedInv
  <1> QED
    BY <1>0, <1>1, <1>2, <1>3, <1>4, <1>5

LEMMA StartFailsStep ==
  ASSUME IInv, NEW p \in Procs, StartFails(p)
  PROVE  HistInv' /\ SoundInv' /\ AbsentInv' /\ QuietInv' /\ KeepsInv' /\ SavedInv'
  <1> USE DEF IInv, HistInv, histVars, TypeOK, InProgress
  <1>0. HistInv'
    BY DEF StartFails, HistInv
  <1>1. SoundInv'
    BY DEF StartFails, SoundInv, Reliable, Sound
  <1>2. AbsentInv'
    BY DEF StartFails, AbsentInv
  <1>3. QuietInv'
    BY DEF StartFails, QuietInv
  <1>4. KeepsInv'
    BY DEF StartFails, KeepsInv, Has
  <1>5. SavedInv'
    BY DEF StartFails, SavedInv
  <1> QED
    BY <1>0, <1>1, <1>2, <1>3, <1>4, <1>5

LEMMA AddsRouteStep ==
  ASSUME IInv, NEW p \in Procs, AddsRoute(p)
  PROVE  HistInv' /\ SoundInv' /\ AbsentInv' /\ QuietInv' /\ KeepsInv' /\ SavedInv'
  <1> USE DEF IInv, HistInv, histVars, TypeOK, InProgress, AddsRoute
  <1> DEFINE rs == WithRoute(cfg[p].routes, adding[p])
  <1>1. /\ Distinct(cfg[p].routes) => Distinct(rs)
        /\ Contains(rs, adding[p])
        /\ \A s : Contains(cfg[p].routes, s) => Contains(rs, s)
    <2>1. cfg[p].routes \in Seq(Routes) /\ adding[p] \in Routes
      BY DEF Configs
    <2> QED
      BY <2>1, WithRouteKeeps
  <1>2. /\ cfg'[p].key = cfg[p].key /\ cfg'[p].routes = rs
        /\ \A q \in Procs \ {p} : cfg'[q] = cfg[q] /\ at'[q] = at[q]
        /\ UNCHANGED <<format, file, content, cmd, adding, acked, saved, misled, disturbed, patched>>
        /\ at[p] = "loaded" /\ at'[p] = "saving"
    BY DEF Configs
  <1> HIDE DEF rs, AddsRoute
  <1>0. HistInv'
    BY DEF AddsRoute, HistInv
  <1>3. SoundInv'
    BY <1>1, <1>2 DEF SoundInv, Reliable, Sound
  <1>4. AbsentInv'
    BY <1>2 DEF AbsentInv
  <1>5. QuietInv'
    BY <1>2 DEF QuietInv
  <1>6. KeepsInv'
    BY <1>1, <1>2 DEF KeepsInv, Has
  <1>7. SavedInv'
    BY <1>2 DEF SavedInv, AddsRoute
  <1> QED
    BY <1>0, <1>3, <1>4, <1>5, <1>6, <1>7

LEMMA GivesUpStep ==
  ASSUME IInv, NEW p \in Procs, GivesUp(p)
  PROVE  HistInv' /\ SoundInv' /\ AbsentInv' /\ QuietInv' /\ KeepsInv' /\ SavedInv'
  <1> USE DEF IInv, HistInv, histVars, TypeOK, InProgress
  <1>0. HistInv'
    BY DEF GivesUp, HistInv
  <1>1. SoundInv'
    BY DEF GivesUp, SoundInv, Reliable, Sound
  <1>2. AbsentInv'
    BY DEF GivesUp, AbsentInv
  <1>3. QuietInv'
    BY DEF GivesUp, QuietInv
  <1>4. KeepsInv'
    BY DEF GivesUp, KeepsInv, Has
  <1>5. SavedInv'
    BY DEF GivesUp, SavedInv
  <1> QED
    BY <1>0, <1>1, <1>2, <1>3, <1>4, <1>5

LEMMA TruncatesStep ==
  ASSUME IInv, NEW p \in Procs, Truncates(p)
  PROVE  HistInv' /\ SoundInv' /\ AbsentInv' /\ QuietInv' /\ KeepsInv' /\ SavedInv'
  <1> USE DEF IInv, HistInv, histVars, TypeOK, InProgress
  <1>0. HistInv'
    BY DEF Truncates, HistInv
  <1>1. SoundInv'
    BY DEF Truncates, SoundInv, Reliable, Sound
  <1>2. AbsentInv'
    BY DEF Truncates, AbsentInv
  <1>3. QuietInv'
    <2>1. p \in InProgress' /\ InProgress' = InProgress
      BY DEF Truncates
    <2> QED
      BY <2>1 DEF Truncates, QuietInv
  <1>4. KeepsInv'
    BY DEF Truncates, KeepsInv, Has
  <1>5. SavedInv'
    BY DEF Truncates, SavedInv
  <1> QED
    BY <1>0, <1>1, <1>2, <1>3, <1>4, <1>5

LEMMA WritesStep ==
  ASSUME IInv, NEW p \in Procs, Writes(p)
  PROVE  HistInv' /\ SoundInv' /\ AbsentInv' /\ QuietInv' /\ KeepsInv' /\ SavedInv'
  <1> USE DEF IInv, HistInv, histVars, TypeOK
  <1>1. /\ content' = cfg[p] /\ file' \in {"whole", "torn"}
        /\ acked' \in {acked, acked \cup {adding[p]}}
        /\ cmd[p] # "add" => acked' = acked
        /\ saved' = saved \cup {cfg[p]}
        /\ UNCHANGED <<format, cmd, cfg, adding, misled, disturbed, patched>>
    BY DEF Writes
  <1>2. /\ p \in InProgress /\ InProgress' = InProgress \ {p}
        /\ at[p] = "writing" /\ at'[p] = "done" /\ \A q \in Procs \ {p} : at'[q] = at[q]
    BY DEF Writes, InProgress
  <1>0. HistInv'
    BY DEF Writes, HistInv
  <1>3. SoundInv'
    BY <1>1, <1>2 DEF SoundInv, Reliable, Sound
  <1>4. AbsentInv'
    BY <1>1 DEF AbsentInv
  <1>5. ~disturbed => file = "empty" /\ InProgress = {p}
    BY <1>2 DEF QuietInv
  <1>6. QuietInv'
    <2> SUFFICES ASSUME ~disturbed PROVE QuietInv'
      BY <1>1 DEF QuietInv
    <2>1. file' = "whole" /\ InProgress' = {}
      BY <1>2, <1>5 DEF Writes
    <2>2. \A q \in Procs : at'[q] # "writing"
      BY <2>1 DEF InProgress
    <2> QED
      BY <2>1, <2>2 DEF QuietInv
  <1>7. KeepsInv'
    <2> SUFFICES ASSUME ~disturbed, misled = {} PROVE Has(cfg[p], acked')
      BY <1>1, <1>2, <1>5 DEF KeepsInv
    <2> QED
      BY <1>1, <1>2 DEF KeepsInv, Has
  <1>8. SavedInv'
    <2>1. cmd[p] \in {"init", "add"}
      BY <1>2
    <2> QED
      BY <1>1, <1>2, <2>1 DEF SavedInv
  <1> QED
    BY <1>0, <1>3, <1>4, <1>6, <1>7, <1>8

LEMMA SaveFailsStep ==
  ASSUME IInv, NEW p \in Procs, SaveFails(p)
  PROVE  HistInv' /\ SoundInv' /\ AbsentInv' /\ QuietInv' /\ KeepsInv' /\ SavedInv'
  <1> USE DEF IInv, HistInv, histVars, TypeOK, InProgress
  <1>1. /\ UNCHANGED <<format, cfg>> /\ p \in InProgress /\ InProgress' \subseteq InProgress
        /\ ~patched' => (file' = "torn" /\ content' = cfg[p]) \/ UNCHANGED <<file, content>>
        /\ ~patched' => ~patched /\ file' # "mixed"
    BY DEF SaveFails, HistInv
  <1>0. HistInv'
    BY DEF SaveFails, HistInv
  <1>2. SoundInv'
    <2> SUFFICES ASSUME format = "json", ~patched' PROVE SoundInv'
      BY DEF SoundInv, Reliable, SaveFails
    <2> QED
      BY <1>1 DEF SoundInv, Reliable, Sound
  <1>3. AbsentInv'
    BY DEF SaveFails, AbsentInv
  <1>4. QuietInv' /\ KeepsInv'
    BY DEF SaveFails, QuietInv, KeepsInv
  <1>5. SavedInv'
    BY DEF SaveFails, SavedInv
  <1> QED
    BY <1>0, <1>2, <1>3, <1>4, <1>5

-----------------------------------------------------------------------------
(***************************************************************************)
(* The theorems.                                                           *)
(***************************************************************************)

LEMMA IStep == IInv /\ [Next]_vars => IInv'
  <1> SUFFICES ASSUME IInv, [Next]_vars
               PROVE  HistInv' /\ SoundInv' /\ AbsentInv' /\ QuietInv' /\ KeepsInv' /\ SavedInv'
    BY TypeStep DEF IInv
  <1>1. CASE UNCHANGED vars
    BY <1>1 DEF IInv, HistInv, SoundInv, Reliable, AbsentInv, QuietInv, KeepsInv, Has, SavedInv, Sound,
                InProgress, vars, procVars, histVars
  <1>2. CASE Next
    BY <1>2, InitStartsStep, AddStartsStep, ReadsConfigStep, StartFailsStep, AddsRouteStep,
       GivesUpStep, TruncatesStep, WritesStep, SaveFailsStep DEF Next
  <1> QED
    BY <1>1, <1>2

THEOREM FileInvariant == Spec => []IInv
  BY IInit, IStep, PTL DEF Spec

\* A configuration that loads has a key pair that init generated: a JSON one unless a
\* save stopped over what another command had written, a YAML one while commands
\* neither overlap nor fail to save.
THEOREM KeyIsAlwaysThere == Spec => []KeyIsThere
  <1>1. IInv => KeyIsThere
    BY DEF IInv, SoundInv, Sound, KeyIsThere
  <1> QED
    BY <1>1, FileInvariant, PTL

\* Under the same conditions no route is in the file twice.
THEOREM NeverTwice == Spec => []NoDuplicates
  <1>1. IInv => NoDuplicates
    BY DEF IInv, SoundInv, Distinct, NoDuplicates
  <1> QED
    BY <1>1, FileInvariant, PTL

\* A route whose add-route has succeeded stays while commands neither overlap nor
\* fail to save, and LoadConfig does not mislead an init.
THEOREM RoutesAlwaysStay == Spec => []RoutesStay
  <1>1. IInv => RoutesStay
    BY DEF IInv, KeepsInv, Has, RoutesStay
  <1> QED
    BY <1>1, FileInvariant, PTL

\* Under the first two of these conditions nothing replaces the key pair but an
\* init that an error of LoadConfig has misled.
THEOREM KeyStaysButForInit == Spec => OnlyInitReplacesKey
  <1>1. ASSUME IInv, [Next]_vars, ~disturbed', content.key # "none", content'.key # content.key
        PROVE  \E p \in misled : cmd[p] = "init" /\ at[p] = "writing"
    <2>1. ASSUME NEW p \in Procs, Writes(p)
          PROVE  p \in misled /\ cmd[p] = "init" /\ at[p] = "writing"
      <3>1. ~disturbed /\ p \in InProgress /\ content' = cfg[p]
        BY <1>1, <2>1 DEF Writes, InProgress, histVars
      <3>2. p \in misled
        BY <1>1, <3>1 DEF IInv, KeepsInv
      <3> QED
        BY <1>1, <2>1, <3>2 DEF Writes, IInv, HistInv
    <2>2. ASSUME NEW p \in Procs, SaveFails(p) PROVE FALSE
      BY <1>1, <2>2 DEF SaveFails
    <2>3. \/ UNCHANGED content
          \/ \E p \in Procs : Writes(p) \/ SaveFails(p)
      BY <1>1 DEF Next, InitStarts, AddStarts, ReadsConfig, StartFails, AddsRoute, GivesUp,
                  Truncates, vars
    <2> QED
      BY <1>1, <2>1, <2>2, <2>3
  <1>2. IInv /\ [Next]_vars =>
          [~disturbed' /\ content.key \notin {"none", content'.key} =>
             \E p \in misled : cmd[p] = "init" /\ at[p] = "writing"]_vars
    BY <1>1
  <1> QED
    BY <1>2, FileInvariant, PTL DEF Spec, OnlyInitReplacesKey

\* A command that loads a JSON configuration gets one that was saved as a whole,
\* unless a save stopped over what another command had written.
THEOREM ReadsOnlyWhatWasSaved == Spec => []ReadsWhatWasSaved
  <1>1. IInv => ReadsWhatWasSaved
    BY DEF IInv, SavedInv, ReadsWhatWasSaved
  <1> QED
    BY <1>1, FileInvariant, PTL
=============================================================================
