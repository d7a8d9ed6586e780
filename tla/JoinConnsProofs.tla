-------------------------- MODULE JoinConnsProofs --------------------------
(***************************************************************************)
(* Proofs about JoinConns, for any number of bytes and any buffer size.    *)
(***************************************************************************)
EXTENDS JoinConns, Sequences, TLAPS

USE DEF Sides, Other

-----------------------------------------------------------------------------
(***************************************************************************)
(* Types.                                                                  *)
(***************************************************************************)

CountTypes ==
  /\ written \in [Sides -> Nat] /\ read \in [Sides -> Nat] /\ sent \in [Sides -> Nat]
  /\ taken \in [Sides -> Nat] /\ put \in [Sides -> Nat] /\ got \in [Sides -> Nat]
  /\ \A s \in Sides : written[s] <= MaxBytes(s)

StateTypes ==
  /\ app \in [Sides -> {"open", "shut", "closed"}] /\ ended \in [Sides -> BOOLEAN]
  /\ up \in [Sides -> {"read", "send", "exit", "done"}]
  /\ down \in [Sides -> {"read", "write", "exit", "done"}]
  /\ errs \in [Sides -> 0 .. 2]
  /\ main \in [Sides -> {"wait", "closing", "closed", "end"}]
  /\ dc \in [Sides -> BOOLEAN] /\ reset \in [Sides -> BOOLEAN]

LEMMA TypeParts == TypeOK <=> CountTypes /\ StateTypes
  BY DEF TypeOK, CountTypes, StateTypes

LEMMA TypeInit == Init => CountTypes /\ StateTypes
  BY JoinConnsAssumption DEF Init, CountTypes, StateTypes, MaxBytes

LEMMA CountStep == CountTypes /\ [Next]_vars => CountTypes'
  <1> SUFFICES ASSUME CountTypes, [Next]_vars PROVE CountTypes'
    OBVIOUS
  <1> USE JoinConnsAssumption DEF CountTypes, MaxBytes, appVars, upVars, downVars, mainVars
  <1>1. ASSUME NEW s \in Sides, Apps(s) PROVE CountTypes'
    BY <1>1 DEF Apps, AppWrites, AppShutsDown, AppCloses
  <1>2. ASSUME NEW s \in Sides, Reading(s) PROVE CountTypes'
    BY <1>2 DEF Reading, AppReads, AppSeesEnd
  <1>3. ASSUME NEW s \in Sides, Copying(s) PROVE CountTypes'
    BY <1>3 DEF Copying, UpReads, UpSends, UpEnds, DownReads, DownWrites, DownEnds, PeerCloseArrives
  <1>4. ASSUME NEW s \in Sides, Ending(s) PROVE CountTypes'
    BY <1>4 DEF Ending, Exit, Returns, ClosesRemote, ClosesLocal
  <1>5. CASE UNCHANGED vars
    BY <1>5 DEF vars
  <1> QED
    BY <1>1, <1>2, <1>3, <1>4, <1>5 DEF Next

LEMMA StateStep == StateTypes /\ [Next]_vars => StateTypes'
  <1> SUFFICES ASSUME StateTypes, [Next]_vars PROVE StateTypes'
    OBVIOUS
  <1> USE DEF StateTypes, appVars, upVars, downVars, mainVars
  <1>1. ASSUME NEW s \in Sides, Apps(s) PROVE StateTypes'
    <2>1. CASE AppCloses(s)
      <3>1. (reset[s] \/ got[s] < put[s]) \in BOOLEAN
        OBVIOUS
      <3> QED
        BY <2>1, <3>1 DEF AppCloses
    <2>2. CASE AppWrites(s) \/ AppShutsDown(s)
      BY <2>2 DEF AppWrites, AppShutsDown
    <2> QED
      BY <1>1, <2>1, <2>2 DEF Apps
  <1>2. ASSUME NEW s \in Sides, Reading(s) PROVE StateTypes'
    BY <1>2 DEF Reading, AppReads, AppSeesEnd
  <1>3. ASSUME NEW s \in Sides, Copying(s) PROVE StateTypes'
    <2>1. CASE DownWrites(s)
      <3>1. (app[s] = "closed") \in BOOLEAN
        OBVIOUS
      <3> QED
        BY <2>1, <3>1 DEF DownWrites
    <2>2. CASE UpReads(s) \/ UpSends(s) \/ UpEnds(s)
      BY <2>2 DEF UpReads, UpSends, UpEnds
    <2>3. CASE DownReads(s) \/ DownEnds(s)
      BY <2>3 DEF DownReads, DownEnds
    <2>4. CASE PeerCloseArrives(s)
      BY <2>4 DEF PeerCloseArrives
    <2> QED
      BY <1>3, <2>1, <2>2, <2>3, <2>4 DEF Copying
  <1>4. ASSUME NEW s \in Sides, Ending(s) PROVE StateTypes'
    <2>1. CASE Exit(s)
      <3>1. errs[s] + 1 \in 0 .. 2
        BY <2>1 DEF Exit, Room
      <3> QED
        BY <2>1, <3>1 DEF Exit
    <2>2. CASE Returns(s)
      <3>1. errs[s] - 1 \in 0 .. 2
        BY <2>2 DEF Returns
      <3> QED
        BY <2>2, <3>1 DEF Returns
    <2>3. CASE ClosesRemote(s)
      BY <2>3 DEF ClosesRemote
    <2>4. CASE ClosesLocal(s)
      <3>1. (reset[s] \/ read[s] < written[s]) \in BOOLEAN
        OBVIOUS
      <3> QED
        BY <2>4, <3>1 DEF ClosesLocal
    <2> QED
      BY <1>4, <2>1, <2>2, <2>3, <2>4 DEF Ending
  <1>5. CASE UNCHANGED vars
    BY <1>5 DEF vars
  <1> QED
    BY <1>1, <1>2, <1>3, <1>4, <1>5 DEF Next

\* Every variable keeps its type, and errc never holds more than two errors.
THEOREM TypeCorrect == Spec => []TypeOK
  BY TypeInit, CountStep, StateStep, TypeParts, PTL DEF Spec

-----------------------------------------------------------------------------
(***************************************************************************)
(* Bytes on their way.                                                     *)
(***************************************************************************)

\* No byte is read, sent, taken, put or got that the step before has not passed on;
\* a copy holds at most one byte.
Chain(s, t) ==
  /\ read[s] <= written[s]
  /\ up[s] = "read" => sent[s] = read[s]
  /\ up[s] = "send" => read[s] = sent[s] + 1
  /\ sent[s] <= read[s]
  /\ taken[t] <= sent[s]
  /\ put[t] <= taken[t]
  /\ down[t] = "read" => put[t] = taken[t]
  /\ down[t] = "write" => taken[t] = put[t] + 1
  /\ got[t] <= put[t]

ChainInv == \A s \in Sides : Chain(s, Other(s))

LEMMA ChainStep == CountTypes /\ StateTypes /\ ChainInv /\ [Next]_vars => ChainInv'
  <1> SUFFICES ASSUME CountTypes, StateTypes, ChainInv, [Next]_vars,
                      NEW x \in Sides
               PROVE  Chain(x, Other(x))'
    BY DEF ChainInv
  <1> USE JoinConnsAssumption
      DEF CountTypes, StateTypes, ChainInv, Chain, appVars, upVars, downVars, mainVars
  <1>1. ASSUME NEW s \in Sides, Apps(s) PROVE Chain(x, Other(x))'
    BY <1>1 DEF Apps, AppWrites, AppShutsDown, AppCloses
  <1>2. ASSUME NEW s \in Sides, Reading(s) PROVE Chain(x, Other(x))'
    BY <1>2 DEF Reading, AppReads, AppSeesEnd
  <1>3. ASSUME NEW s \in Sides, Copying(s) PROVE Chain(x, Other(x))'
    <2>1. CASE UpReads(s)
      BY <2>1 DEF UpReads
    <2>2. CASE UpSends(s)
      BY <2>2 DEF UpSends
    <2>3. CASE UpEnds(s)
      BY <2>3 DEF UpEnds
    <2>4. CASE DownReads(s)
      BY <2>4 DEF DownReads
    <2>5. CASE DownWrites(s)
      BY <2>5 DEF DownWrites
    <2>6. CASE DownEnds(s)
      BY <2>6 DEF DownEnds
    <2>7. CASE PeerCloseArrives(s)
      BY <2>7 DEF PeerCloseArrives
    <2> QED
      BY <1>3, <2>1, <2>2, <2>3, <2>4, <2>5, <2>6, <2>7 DEF Copying
  <1>4. ASSUME NEW s \in Sides, Ending(s) PROVE Chain(x, Other(x))'
    BY <1>4 DEF Ending, Exit, Returns, ClosesRemote, ClosesLocal
  <1>5. CASE UNCHANGED vars
    BY <1>5 DEF vars
  <1> QED
    BY <1>1, <1>2, <1>3, <1>4, <1>5 DEF Next

LEMMA ChainInit == Init => ChainInv
  BY JoinConnsAssumption DEF Init, ChainInv, Chain

\* In each direction no byte gets ahead of an earlier place on its way.
THEOREM BytesComeFromBefore == Spec => []ChainInv
  <1>1. Init => CountTypes /\ StateTypes /\ ChainInv
    BY TypeInit, ChainInit
  <1> QED
    BY <1>1, CountStep, StateStep, ChainStep, PTL DEF Spec

-----------------------------------------------------------------------------
(***************************************************************************)
(* How the tunnel ends.                                                    *)
(***************************************************************************)

\* Something of the tunnel has come to an end on side x.
Touched(x) ==
  \/ up[x] \in {"exit", "done"} \/ down[x] \in {"exit", "done"}
  \/ main[x] # "wait" \/ ~dc[x]

\* More has ended on side x than the channel.
CopiesEnd(x) ==
  up[x] \in {"exit", "done"} \/ down[x] \in {"exit", "done"} \/ main[x] # "wait"

\* An error in errc comes from a copy that is over.
ErrsInv == \A x \in Sides : errs[x] > 0 => up[x] = "done" \/ down[x] = "done"

\* While both applications are there nothing ends.
OpenInv ==
  (\A x \in Sides : app[x] = "open") => \A x \in Sides : ~Touched(x) /\ ~reset[x]

\* In a direction that is not cut, things end when the writer has.  At the reader
\* the channel closes when all bytes were taken from it, and nothing else ends
\* before its down copy has, which has written them all by then.
EndsInv ==
  \A w \in Sides : ~Cut(w) =>
     /\ (\E x \in Sides : Touched(x)) =>
           app[w] # "open" /\ read[w] = written[w] /\ sent[w] = read[w]
     /\ ~dc[Other(w)] => taken[Other(w)] = sent[w]
     /\ CopiesEnd(Other(w)) =>
           /\ ~dc[Other(w)] /\ down[Other(w)] \in {"exit", "done"}
           /\ put[Other(w)] = taken[Other(w)]

IInv == CountTypes /\ StateTypes /\ ChainInv /\ ErrsInv /\ OpenInv /\ EndsInv

LEMMA IInit == Init => IInv
  BY TypeInit, ChainInit DEF Init, IInv, ErrsInv, OpenInv, EndsInv, Touched, CopiesEnd

LEMMA ErrsStep == StateTypes /\ ErrsInv /\ [Next]_vars => ErrsInv'
  <1> SUFFICES ASSUME StateTypes, ErrsInv, [Next]_vars PROVE ErrsInv'
    OBVIOUS
  <1> USE DEF StateTypes, ErrsInv, appVars, upVars, downVars, mainVars
  <1>1. ASSUME NEW s \in Sides, AppWrites(s) PROVE ErrsInv'
    BY <1>1 DEF AppWrites
  <1>2. ASSUME NEW s \in Sides, AppShutsDown(s) PROVE ErrsInv'
    BY <1>2 DEF AppShutsDown
  <1>3. ASSUME NEW s \in Sides, AppCloses(s) PROVE ErrsInv'
    BY <1>3 DEF AppCloses
  <1>4. ASSUME NEW s \in Sides, AppReads(s) PROVE ErrsInv'
    BY <1>4 DEF AppReads
  <1>5. ASSUME NEW s \in Sides, AppSeesEnd(s) PROVE ErrsInv'
    BY <1>5 DEF AppSeesEnd
  <1>6. ASSUME NEW s \in Sides, UpReads(s) PROVE ErrsInv'
    BY <1>6 DEF UpReads
  <1>7. ASSUME NEW s \in Sides, UpSends(s) PROVE ErrsInv'
    BY <1>7 DEF UpSends
  <1>8. ASSUME NEW s \in Sides, UpEnds(s) PROVE ErrsInv'
    BY <1>8 DEF UpEnds
  <1>9. ASSUME NEW s \in Sides, DownReads(s) PROVE ErrsInv'
    BY <1>9 DEF DownReads
  <1>10. ASSUME NEW s \in Sides, DownWrites(s) PROVE ErrsInv'
    BY <1>10 DEF DownWrites
  <1>11. ASSUME NEW s \in Sides, DownEnds(s) PROVE ErrsInv'
    BY <1>11 DEF DownEnds
  <1>12. ASSUME NEW s \in Sides, PeerCloseArrives(s) PROVE ErrsInv'
    BY <1>12 DEF PeerCloseArrives
  <1>13. ASSUME NEW s \in Sides, Exit(s) PROVE ErrsInv'
    BY <1>13 DEF Exit
  <1>14. ASSUME NEW s \in Sides, Returns(s) PROVE ErrsInv'
    BY <1>14 DEF Returns
  <1>15. ASSUME NEW s \in Sides, ClosesRemote(s) PROVE ErrsInv'
    BY <1>15 DEF ClosesRemote
  <1>16. ASSUME NEW s \in Sides, ClosesLocal(s) PROVE ErrsInv'
    BY <1>16 DEF ClosesLocal
  <1>17. CASE UNCHANGED vars
    BY <1>17 DEF vars
  <1> QED
    BY <1>1, <1>2, <1>3, <1>4, <1>5, <1>6, <1>7, <1>8, <1>9, <1>10, <1>11,
       <1>12, <1>13, <1>14, <1>15, <1>16, <1>17
       DEF Next, Apps, Reading, Copying, Ending

LEMMA OpenStep == StateTypes /\ ErrsInv /\ OpenInv /\ [Next]_vars => OpenInv'
  <1> SUFFICES ASSUME StateTypes, ErrsInv, OpenInv, [Next]_vars PROVE OpenInv'
    OBVIOUS
  <1> USE DEF StateTypes, ErrsInv, OpenInv, Touched, LocalClosed, appVars, upVars, downVars, mainVars
  <1>1. ASSUME NEW s \in Sides, AppWrites(s) PROVE OpenInv'
    BY <1>1 DEF AppWrites
  <1>2. ASSUME NEW s \in Sides, AppShutsDown(s) PROVE OpenInv'
    BY <1>2 DEF AppShutsDown
  <1>3. ASSUME NEW s \in Sides, AppCloses(s) PROVE OpenInv'
    BY <1>3 DEF AppCloses
  <1>4. ASSUME NEW s \in Sides, AppReads(s) PROVE OpenInv'
    BY <1>4 DEF AppReads
  <1>5. ASSUME NEW s \in Sides, AppSeesEnd(s) PROVE OpenInv'
    BY <1>5 DEF AppSeesEnd
  <1>6. ASSUME NEW s \in Sides, UpReads(s) PROVE OpenInv'
    BY <1>6 DEF UpReads
  <1>7. ASSUME NEW s \in Sides, UpSends(s) PROVE OpenInv'
    BY <1>7 DEF UpSends
  <1>8. ASSUME NEW s \in Sides, UpEnds(s) PROVE OpenInv'
    BY <1>8 DEF UpEnds
  <1>9. ASSUME NEW s \in Sides, DownReads(s) PROVE OpenInv'
    BY <1>9 DEF DownReads
  <1>10. ASSUME NEW s \in Sides, DownWrites(s) PROVE OpenInv'
    BY <1>10 DEF DownWrites
  <1>11. ASSUME NEW s \in Sides, DownEnds(s) PROVE OpenInv'
    BY <1>11 DEF DownEnds
  <1>12. ASSUME NEW s \in Sides, PeerCloseArrives(s) PROVE OpenInv'
    BY <1>12 DEF PeerCloseArrives
  <1>13. ASSUME NEW s \in Sides, Exit(s) PROVE OpenInv'
    BY <1>13 DEF Exit
  <1>14. ASSUME NEW s \in Sides, Returns(s) PROVE OpenInv'
    BY <1>14 DEF Returns
  <1>15. ASSUME NEW s \in Sides, ClosesRemote(s) PROVE OpenInv'
    BY <1>15 DEF ClosesRemote
  <1>16. ASSUME NEW s \in Sides, ClosesLocal(s) PROVE OpenInv'
    BY <1>16 DEF ClosesLocal
  <1>17. CASE UNCHANGED vars
    BY <1>17 DEF vars
  <1> QED
    BY <1>1, <1>2, <1>3, <1>4, <1>5, <1>6, <1>7, <1>8, <1>9, <1>10, <1>11,
       <1>12, <1>13, <1>14, <1>15, <1>16, <1>17
       DEF Next, Apps, Reading, Copying, Ending

LEMMA EndsStep == IInv /\ [Next]_vars => EndsInv'
  <1> SUFFICES ASSUME IInv, [Next]_vars PROVE EndsInv'
    OBVIOUS
  <1> USE DEF IInv, CountTypes, StateTypes, ChainInv, Chain, ErrsInv, EndsInv, Cut, SendFailed,
              CopiesEnd, Touched,
              LocalClosed, appVars, upVars, downVars, mainVars
  <1>1. ASSUME NEW s \in Sides, AppWrites(s) PROVE EndsInv'
    BY <1>1 DEF AppWrites
  <1>2. ASSUME NEW s \in Sides, AppShutsDown(s) PROVE EndsInv'
    BY <1>2 DEF AppShutsDown
  <1>3. ASSUME NEW s \in Sides, AppCloses(s) PROVE EndsInv'
    BY <1>3 DEF AppCloses
  <1>4. ASSUME NEW s \in Sides, AppReads(s) PROVE EndsInv'
    BY <1>4 DEF AppReads
  <1>5. ASSUME NEW s \in Sides, AppSeesEnd(s) PROVE EndsInv'
    BY <1>5 DEF AppSeesEnd
  <1>6. ASSUME NEW s \in Sides, UpReads(s) PROVE EndsInv'
    BY <1>6 DEF UpReads
  <1>7. ASSUME NEW s \in Sides, UpSends(s) PROVE EndsInv'
    BY <1>7 DEF UpSends
  <1>8. ASSUME NEW s \in Sides, UpEnds(s) PROVE EndsInv'
    BY <1>8 DEF UpEnds
  <1>9. ASSUME NEW s \in Sides, DownReads(s) PROVE EndsInv'
    BY <1>9 DEF DownReads
  <1>10. ASSUME NEW s \in Sides, DownWrites(s) PROVE EndsInv'
    BY <1>10 DEF DownWrites
  <1>11. ASSUME NEW s \in Sides, DownEnds(s) PROVE EndsInv'
    BY <1>11 DEF DownEnds
  <1>12. ASSUME NEW s \in Sides, PeerCloseArrives(s) PROVE EndsInv'
    BY <1>12 DEF PeerCloseArrives
  <1>13. ASSUME NEW s \in Sides, Exit(s) PROVE EndsInv'
    BY <1>13 DEF Exit
  <1>14. ASSUME NEW s \in Sides, Returns(s) PROVE EndsInv'
    BY <1>14 DEF Returns
  <1>15. ASSUME NEW s \in Sides, ClosesRemote(s) PROVE EndsInv'
    BY <1>15 DEF ClosesRemote
  <1>16. ASSUME NEW s \in Sides, ClosesLocal(s) PROVE EndsInv'
    BY <1>16 DEF ClosesLocal
  <1>17. CASE UNCHANGED vars
    BY <1>17 DEF vars
  <1> QED
    BY <1>1, <1>2, <1>3, <1>4, <1>5, <1>6, <1>7, <1>8, <1>9, <1>10, <1>11,
       <1>12, <1>13, <1>14, <1>15, <1>16, <1>17
       DEF Next, Apps, Reading, Copying, Ending

THEOREM TunnelInvariant == Spec => []IInv
  <1>1. IInv /\ [Next]_vars => IInv'
    BY CountStep, StateStep, ChainStep, ErrsStep, OpenStep, EndsStep DEF IInv
  <1> QED
    BY IInit, <1>1, PTL DEF Spec

\* As long as both applications keep their connections open, so does the tunnel.
THEOREM AlwaysStaysOpen == Spec => []StaysOpen
  <1>1. IInv => StaysOpen
    BY DEF IInv, StateTypes, OpenInv, Touched, StaysOpen
  <1> QED
    BY <1>1, TunnelInvariant, PTL

-----------------------------------------------------------------------------
(***************************************************************************)
(* Refinement: what a step means for the direction that starts at w.       *)
(***************************************************************************)

Same(w) == got'[Other(w)] = got[Other(w)] /\ ended'[Other(w)] = ended[Other(w)]

Writes(w) ==
  /\ ended[Other(w)] => Cut(w)
  /\ written'[w] > written[w] /\ Same(w) /\ Cut(w)' = Cut(w)

Reads(w) ==
  /\ ~ended[Other(w)] /\ got[Other(w)] \in Nat /\ got'[Other(w)] = got[Other(w)] + 1
  /\ got'[Other(w)] <= written[w] /\ written[w] \in Nat
  /\ written'[w] = written[w] /\ ended'[Other(w)] = ended[Other(w)] /\ Cut(w)' = Cut(w)

Cuts(w) == Cut(w)' = TRUE /\ written'[w] = written[w] /\ Same(w)

Ends(w) ==
  /\ Cut(w) \/ got[Other(w)] = written[w]
  /\ ended'[Other(w)] = TRUE /\ got[Other(w)] \in Nat
  /\ written'[w] = written[w] /\ got'[Other(w)] = got[Other(w)] /\ Cut(w)' = Cut(w)

Rests(w) == written'[w] = written[w] /\ Same(w) /\ Cut(w)' = Cut(w)

\* A reader that was told of the end of a direction that is not cut has all of it.
EndedInv ==
  \A w \in Sides : ended[Other(w)] /\ ~Cut(w) =>
     Touched(Other(w)) /\ got[Other(w)] = written[w]

LEMMA EndedStep == IInv /\ EndedInv /\ [Next]_vars => EndedInv'
  <1> SUFFICES ASSUME IInv, EndedInv, [Next]_vars PROVE EndedInv'
    OBVIOUS
  <1> USE DEF IInv, CountTypes, StateTypes, ChainInv, Chain, EndsInv, EndedInv, Cut, SendFailed,
              CopiesEnd, Touched,
              LocalClosed, appVars, upVars, downVars, mainVars
  <1>1. ASSUME NEW s \in Sides, AppWrites(s) PROVE EndedInv'
    BY <1>1 DEF AppWrites
  <1>2. ASSUME NEW s \in Sides, AppShutsDown(s) PROVE EndedInv'
    BY <1>2 DEF AppShutsDown
  <1>3. ASSUME NEW s \in Sides, AppCloses(s) PROVE EndedInv'
    BY <1>3 DEF AppCloses
  <1>4. ASSUME NEW s \in Sides, AppReads(s) PROVE EndedInv'
    BY <1>4 DEF AppReads
  <1>5. ASSUME NEW s \in Sides, AppSeesEnd(s) PROVE EndedInv'
    BY <1>5 DEF AppSeesEnd
  <1>6. ASSUME NEW s \in Sides, UpReads(s) PROVE EndedInv'
    BY <1>6 DEF UpReads
  <1>7. ASSUME NEW s \in Sides, UpSends(s) PROVE EndedInv'
    BY <1>7 DEF UpSends
  <1>8. ASSUME NEW s \in Sides, UpEnds(s) PROVE EndedInv'
    BY <1>8 DEF UpEnds
  <1>9. ASSUME NEW s \in Sides, DownReads(s) PROVE EndedInv'
    BY <1>9 DEF DownReads
  <1>10. ASSUME NEW s \in Sides, DownWrites(s) PROVE EndedInv'
    BY <1>10 DEF DownWrites
  <1>11. ASSUME NEW s \in Sides, DownEnds(s) PROVE EndedInv'
    BY <1>11 DEF DownEnds
  <1>12. ASSUME NEW s \in Sides, PeerCloseArrives(s) PROVE EndedInv'
    BY <1>12 DEF PeerCloseArrives
  <1>13. ASSUME NEW s \in Sides, Exit(s) PROVE EndedInv'
    BY <1>13 DEF Exit
  <1>14. ASSUME NEW s \in Sides, Returns(s) PROVE EndedInv'
    BY <1>14 DEF Returns
  <1>15. ASSUME NEW s \in Sides, ClosesRemote(s) PROVE EndedInv'
    BY <1>15 DEF ClosesRemote
  <1>16. ASSUME NEW s \in Sides, ClosesLocal(s) PROVE EndedInv'
    BY <1>16 DEF ClosesLocal
  <1>17. CASE UNCHANGED vars
    BY <1>17 DEF vars
  <1> QED
    BY <1>1, <1>2, <1>3, <1>4, <1>5, <1>6, <1>7, <1>8, <1>9, <1>10, <1>11,
       <1>12, <1>13, <1>14, <1>15, <1>16, <1>17
       DEF Next, Apps, Reading, Copying, Ending

\* A direction that was cut stays cut.
LEMMA CutStays ==
  ASSUME CountTypes, StateTypes, [Next]_vars, NEW w \in Sides, Cut(w)
  PROVE  Cut(w)'
  <1> USE DEF CountTypes, StateTypes, Cut, SendFailed, appVars, upVars, downVars, mainVars
  <1>1. ASSUME NEW s \in Sides, AppWrites(s) PROVE Cut(w)'
    BY <1>1 DEF AppWrites
  <1>2. ASSUME NEW s \in Sides, AppShutsDown(s) PROVE Cut(w)'
    BY <1>2 DEF AppShutsDown
  <1>3. ASSUME NEW s \in Sides, AppCloses(s) PROVE Cut(w)'
    BY <1>3 DEF AppCloses
  <1>4. ASSUME NEW s \in Sides, AppReads(s) PROVE Cut(w)'
    BY <1>4 DEF AppReads
  <1>5. ASSUME NEW s \in Sides, AppSeesEnd(s) PROVE Cut(w)'
    BY <1>5 DEF AppSeesEnd
  <1>6. ASSUME NEW s \in Sides, UpReads(s) PROVE Cut(w)'
    BY <1>6 DEF UpReads
  <1>7. ASSUME NEW s \in Sides, UpSends(s) PROVE Cut(w)'
    BY <1>7 DEF UpSends
  <1>8. ASSUME NEW s \in Sides, UpEnds(s) PROVE Cut(w)'
    BY <1>8 DEF UpEnds
  <1>9. ASSUME NEW s \in Sides, DownReads(s) PROVE Cut(w)'
    BY <1>9 DEF DownReads
  <1>10. ASSUME NEW s \in Sides, DownWrites(s) PROVE Cut(w)'
    BY <1>10 DEF DownWrites
  <1>11. ASSUME NEW s \in Sides, DownEnds(s) PROVE Cut(w)'
    BY <1>11 DEF DownEnds
  <1>12. ASSUME NEW s \in Sides, PeerCloseArrives(s) PROVE Cut(w)'
    BY <1>12 DEF PeerCloseArrives
  <1>13. ASSUME NEW s \in Sides, Exit(s) PROVE Cut(w)'
    BY <1>13 DEF Exit
  <1>14. ASSUME NEW s \in Sides, Returns(s) PROVE Cut(w)'
    BY <1>14 DEF Returns
  <1>15. ASSUME NEW s \in Sides, ClosesRemote(s) PROVE Cut(w)'
    BY <1>15 DEF ClosesRemote
  <1>16. ASSUME NEW s \in Sides, ClosesLocal(s) PROVE Cut(w)'
    BY <1>16 DEF ClosesLocal
  <1>17. CASE UNCHANGED vars
    BY <1>17 DEF vars
  <1> QED
    BY <1>1, <1>2, <1>3, <1>4, <1>5, <1>6, <1>7, <1>8, <1>9, <1>10, <1>11,
       <1>12, <1>13, <1>14, <1>15, <1>16, <1>17
       DEF Next, Apps, Reading, Copying, Ending

\* Every step is one of a byte stream, or none, in each direction.
LEMMA DirectionStep ==
  ASSUME IInv, EndedInv, [Next]_vars, NEW w \in Sides
  PROVE  Writes(w) \/ Reads(w) \/ Cuts(w) \/ Ends(w) \/ Rests(w)
  <1> DEFINE t == Other(w)
  <1> USE DEF IInv, CountTypes, StateTypes, appVars, upVars, downVars, mainVars
  <1>1. CASE UNCHANGED <<written, got, ended>>
    <2>1. CASE Cut(w)' = TRUE
      BY <1>1, <2>1 DEF Cuts, Same
    <2>2. CASE Cut(w)' = FALSE
      <3>1. Cut(w) = FALSE
        BY <2>2, CutStays DEF Cut
      <3> QED
        BY <1>1, <2>2, <3>1 DEF Rests, Same
    <2>3. Cut(w)' \in BOOLEAN
      BY DEF Cut
    <2> QED
      BY <2>1, <2>2, <2>3
  <1>2. ASSUME UNCHANGED <<app, upVars, reset>> PROVE Cut(w)' = Cut(w)
    BY <1>2 DEF Cut, SendFailed
  <1>3. ASSUME NEW s \in Sides, AppWrites(s) PROVE Writes(w) \/ Rests(w)
    <2>1. Cut(w)' = Cut(w)
      BY <1>2, <1>3 DEF AppWrites
    <2>2. CASE s = w
      <3>1. ended[t] => Cut(w)
        BY <1>3, <2>2 DEF AppWrites, EndedInv, EndsInv
      <3> QED
        BY <1>3, <2>1, <2>2, <3>1 DEF AppWrites, Writes, Same
    <2>3. CASE s # w
      BY <1>3, <2>1, <2>3 DEF AppWrites, Rests, Same
    <2> QED
      BY <2>2, <2>3
  <1>4. ASSUME NEW s \in Sides, AppReads(s) PROVE Reads(w) \/ Rests(w)
    <2>1. Cut(w)' = Cut(w)
      BY <1>2, <1>4 DEF AppReads
    <2>2. CASE s = t
      <3>1. got[t] + 1 <= written[w]
        BY <1>4, <2>2 DEF AppReads, ChainInv, Chain
      <3> QED
        BY <1>4, <2>1, <2>2, <3>1 DEF AppReads, Reads
    <2>3. CASE s # t
      BY <1>4, <2>1, <2>3 DEF AppReads, Rests, Same
    <2> QED
      BY <2>2, <2>3
  <1>5. ASSUME NEW s \in Sides, AppSeesEnd(s) PROVE Ends(w) \/ Rests(w)
    <2>1. Cut(w)' = Cut(w)
      BY <1>2, <1>5 DEF AppSeesEnd
    <2>2. CASE s = t
      <3>1. Cut(w) \/ got[t] = written[w]
        BY <1>5, <2>2 DEF AppSeesEnd, LocalClosed, EndsInv, Touched, CopiesEnd, Cut
      <3> QED
        BY <1>5, <2>1, <2>2, <3>1 DEF AppSeesEnd, Ends
    <2>3. CASE s # t
      BY <1>5, <2>1, <2>3 DEF AppSeesEnd, Rests, Same
    <2> QED
      BY <2>2, <2>3
  <1>6. \/ UNCHANGED <<written, got, ended>>
        \/ \E s \in Sides : AppWrites(s) \/ AppReads(s) \/ AppSeesEnd(s)
    BY DEF Next, Apps, Reading, Copying, Ending, AppShutsDown, AppCloses, UpReads, UpSends, UpEnds,
           DownReads, DownWrites, DownEnds, PeerCloseArrives, Exit, Returns, ClosesRemote,
           ClosesLocal, vars
  <1> QED
    BY <1>1, <1>3, <1>4, <1>5, <1>6

LEMMA SidesDiffer == L \in Sides /\ R \in Sides /\ Other(L) = R /\ Other(R) = L
  BY JoinConnsAssumption

LEMMA MapsFromL ==
  ASSUME Writes(L) \/ Reads(L) \/ Cuts(L) \/ Ends(L) \/ Rests(L)
  PROVE  [FromL!Next]_(FromL!vars)
  <1>1. CASE Writes(L)
    BY <1>1, SidesDiffer DEF Writes, Same, FromL!Next, FromL!Write
  <1>2. CASE Reads(L)
    <2>1. Len(Prefix(got[R])) = got[R] /\ Len(Prefix(got'[R])) = got'[R]
      BY <1>2, SidesDiffer DEF Reads, Prefix
    <2>2. Prefix(got'[R]) = [k \in 1 .. Len(Prefix(got'[R])) |-> k]
      BY <2>1 DEF Prefix
    <2>3. got'[R] \in got[R] + 1 .. written[L]
      BY <1>2, SidesDiffer DEF Reads
    <2> QED
      BY <1>2, <2>1, <2>2, <2>3, SidesDiffer DEF Reads, FromL!Next, FromL!Read
  <1>3. CASE Cuts(L)
    BY <1>3, SidesDiffer DEF Cuts, Same, FromL!Next, FromL!Cut
  <1>4. CASE Ends(L)
    <2>1. Len(Prefix(got[R])) = got[R]
      BY <1>4, SidesDiffer DEF Ends, Prefix
    <2> QED
      BY <1>4, <2>1, SidesDiffer DEF Ends, FromL!Next, FromL!End
  <1>5. CASE Rests(L)
    BY <1>5, SidesDiffer DEF Rests, Same, FromL!vars
  <1> QED
    BY <1>1, <1>2, <1>3, <1>4, <1>5

LEMMA MapsFromR ==
  ASSUME Writes(R) \/ Reads(R) \/ Cuts(R) \/ Ends(R) \/ Rests(R)
  PROVE  [FromR!Next]_(FromR!vars)
  <1>1. CASE Writes(R)
    BY <1>1, SidesDiffer DEF Writes, Same, FromR!Next, FromR!Write
  <1>2. CASE Reads(R)
    <2>1. Len(Prefix(got[L])) = got[L] /\ Len(Prefix(got'[L])) = got'[L]
      BY <1>2, SidesDiffer DEF Reads, Prefix
    <2>2. Prefix(got'[L]) = [k \in 1 .. Len(Prefix(got'[L])) |-> k]
      BY <2>1 DEF Prefix
    <2>3. got'[L] \in got[L] + 1 .. written[R]
      BY <1>2, SidesDiffer DEF Reads
    <2> QED
      BY <1>2, <2>1, <2>2, <2>3, SidesDiffer DEF Reads, FromR!Next, FromR!Read
  <1>3. CASE Cuts(R)
    BY <1>3, SidesDiffer DEF Cuts, Same, FromR!Next, FromR!Cut
  <1>4. CASE Ends(R)
    <2>1. Len(Prefix(got[L])) = got[L]
      BY <1>4, SidesDiffer DEF Ends, Prefix
    <2> QED
      BY <1>4, <2>1, SidesDiffer DEF Ends, FromR!Next, FromR!End
  <1>5. CASE Rests(R)
    BY <1>5, SidesDiffer DEF Rests, Same, FromR!vars
  <1> QED
    BY <1>1, <1>2, <1>3, <1>4, <1>5

\* From end to end, each direction of a tunnelled connection is a byte stream, for
\* any number of bytes, any buffer and any order of ends.
THEOREM Refinement == Spec => ImplementsByteStream
  <1>1. Init => FromL!Init /\ FromR!Init
    <2>1. ASSUME Init
          PROVE  \A w \in Sides : /\ written[w] = 0 /\ Prefix(got[Other(w)]) = <<>>
                                  /\ Cut(w) = FALSE /\ ended[Other(w)] = FALSE
      BY <2>1 DEF Init, Prefix, Cut, SendFailed
    <2> QED
      BY <2>1, SidesDiffer DEF FromL!Init, FromR!Init
  <1>2. Init => EndedInv
    BY DEF Init, EndedInv
  <1>3. IInv /\ EndedInv /\ [Next]_vars => [FromL!Next]_(FromL!vars) /\ [FromR!Next]_(FromR!vars)
    BY DirectionStep, MapsFromL, MapsFromR, SidesDiffer
  <1> QED
    BY <1>1, <1>2, <1>3, EndedStep, TunnelInvariant, PTL
       DEF Spec, ImplementsByteStream, FromL!Spec, FromR!Spec
=============================================================================
