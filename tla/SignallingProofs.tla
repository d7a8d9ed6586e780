-------------------------- MODULE SignallingProofs --------------------------
(***************************************************************************)
(* Proofs about the two signalling channels whose operations have steps:   *)
(* MemoryChannel, for any goroutines and keys, and Operator, for any       *)
(* numbers of messages, faults and timeouts.                               *)
(***************************************************************************)
EXTENDS Operator, TLAPS

\* The constants and variables of MemoryChannel.
CONSTANTS Procs, Keys
VARIABLES pc, op, key, ch, table, queue, taken

Memory == INSTANCE MemoryChannel

(***************************************************************************)
(* The in-memory channel.                                                  *)
(*                                                                         *)
(* The inductive invariant: whoever is past getChannel holds the channel   *)
(* in the table, a channel is in the table under the key it was made for,  *)
(* and no message is in a channel outside of the table.                    *)
(***************************************************************************)
Shared == \A p \in Procs : pc[p] = "use" => ch[p] # "none" /\ ch[p] = table[key[p]]

Owned ==
  \A k \in Keys :
     table[k] # "none" => key[table[k]] = k /\ pc[table[k]] \in {"use", "done"}

NoStray == \A c \in Procs : queue[c] # <<>> => table[key[c]] = c

OneChannel == Shared /\ Owned /\ NoStray

\* The invariant and the types hold together, whatever the goroutines do.
THEOREM MemoryInvariance ==
  ASSUME Memory!MemoryChannelAssumption
  PROVE  Memory!Spec => [](Memory!TypeOK /\ OneChannel)
<1>1. Memory!Init => Memory!TypeOK /\ OneChannel
  BY DEF Memory!Init, Memory!TypeOK, OneChannel, Shared, Owned, NoStray
<1>2. Memory!TypeOK /\ OneChannel /\ [Memory!Next]_(Memory!vars)
        => Memory!TypeOK' /\ OneChannel'
  <2> SUFFICES ASSUME Memory!TypeOK, OneChannel, [Memory!Next]_(Memory!vars)
               PROVE  Memory!TypeOK' /\ OneChannel'
    OBVIOUS
  <2> USE DEF Memory!MemoryChannelAssumption, Memory!TypeOK, OneChannel, Shared, Owned, NoStray
  <2>1. ASSUME NEW p \in Procs, Memory!Lookup(p) PROVE Memory!TypeOK' /\ OneChannel'
    BY <2>1 DEF Memory!Lookup
  <2>2. ASSUME NEW p \in Procs, Memory!Create(p) PROVE Memory!TypeOK' /\ OneChannel'
    BY <2>2 DEF Memory!Create
  <2>3. ASSUME NEW p \in Procs, Memory!Send(p) PROVE Memory!TypeOK' /\ OneChannel'
    BY <2>3 DEF Memory!Send
  <2>4. ASSUME NEW p \in Procs, Memory!Recv(p) PROVE Memory!TypeOK' /\ OneChannel'
    <3>1. ch[p] \in Procs /\ key[p] \in Keys
      BY <2>4 DEF Memory!Recv
    <3>2. PICK m \in Procs : queue[ch[p]] = <<m>>
      BY <2>4, <3>1 DEF Memory!Recv
    <3>3. Head(queue[ch[p]]) = m /\ Tail(queue[ch[p]]) = <<>>
      BY <3>2
    <3>4. taken' = [taken EXCEPT ![key[p]] = Append(@, m)]
      BY <2>4, <3>3 DEF Memory!Recv
    <3>5. taken' \in [Keys -> Seq(Procs)]
      BY <3>1, <3>4
    <3>6. queue' = [queue EXCEPT ![ch[p]] = <<>>]
      BY <2>4, <3>3 DEF Memory!Recv
    <3> QED
      BY <2>4, <3>1, <3>5, <3>6 DEF Memory!Recv
  <2>5. CASE UNCHANGED Memory!vars
    BY <2>5 DEF Memory!vars
  <2> QED
    BY <2>1, <2>2, <2>3, <2>4, <2>5 DEF Memory!Next
<1> QED
  BY <1>1, <1>2, PTL DEF Memory!Spec

\* Every variable keeps its type, and every buffer its capacity of one.
THEOREM MemoryTypeCorrect ==
  ASSUME Memory!MemoryChannelAssumption
  PROVE  Memory!Spec => []Memory!TypeOK
BY MemoryInvariance, PTL

\* Goroutines that use a key together use one channel, even if several of them
\* find the table empty and go on to make one.
THEOREM OneChannelPerKey ==
  ASSUME Memory!MemoryChannelAssumption
  PROVE  Memory!Spec => []OneChannel
BY MemoryInvariance, PTL

-----------------------------------------------------------------------------
Box == [k \in Keys |-> IF table[k] = "none" THEN <<>> ELSE queue[table[k]]]

\* A goroutine past getChannel that changes its Go channel changes the mailbox
\* of its key, and no other.
LEMMA OneBoxChanges ==
  ASSUME Memory!MemoryChannelAssumption, Memory!TypeOK, OneChannel,
         NEW p \in Procs, pc[p] = "use", NEW q,
         queue' = [queue EXCEPT ![ch[p]] = q], table' = table
  PROVE  /\ key[p] \in Keys /\ ch[p] \in Procs
         /\ Box[key[p]] = queue[ch[p]]
         /\ Box' = [Box EXCEPT ![key[p]] = q]
<1> USE DEF Memory!MemoryChannelAssumption, Memory!TypeOK, OneChannel, Shared, Owned
<1>1. key[p] \in Keys /\ ch[p] \in Procs /\ table[key[p]] = ch[p]
  OBVIOUS
<1>2. \A k \in Keys : table[k] = ch[p] => k = key[p]
  BY <1>1
<1>3. \A k \in Keys \ {key[p]} : table[k] # "none" => queue'[table[k]] = queue[table[k]]
  BY <1>1, <1>2
<1>4. queue'[ch[p]] = q
  BY <1>1
<1>5. Box[key[p]] = queue[ch[p]]
  BY <1>1 DEF Box
<1>6. Box'[key[p]] = q
  BY <1>1, <1>4 DEF Box
<1>7. ASSUME NEW k \in Keys, k # key[p] PROVE Box'[k] = Box[k]
  BY <1>3, <1>7 DEF Box
<1>8. Box' = [k \in Keys |-> Box'[k]] /\ Box = [k \in Keys |-> Box[k]]
  BY DEF Box
<1> HIDE DEF Memory!TypeOK, OneChannel, Shared, Owned
<1>9. Box' = [Box EXCEPT ![key[p]] = q]
  BY <1>6, <1>7, <1>8
<1> QED
  BY <1>1, <1>5, <1>9

\* The in-memory channel implements the mailboxes that the handshake relies
\* on: each step of a goroutine puts or takes one message, or changes nothing.
THEOREM MemoryRefinement ==
  ASSUME Memory!MemoryChannelAssumption
  PROVE  Memory!Spec => Memory!ImplementsMailbox
<1>1. Memory!Init => Memory!Boxes!Init
  BY DEF Memory!Init, Memory!Boxes!Init
<1>2. Memory!TypeOK /\ OneChannel /\ [Memory!Next]_(Memory!vars)
        => [Memory!Boxes!Next]_(Memory!Boxes!vars)
  <2> SUFFICES ASSUME Memory!TypeOK, OneChannel, [Memory!Next]_(Memory!vars)
               PROVE  [Memory!Boxes!Next]_(Memory!Boxes!vars)
    OBVIOUS
  <2> USE DEF Memory!MemoryChannelAssumption, Memory!TypeOK, OneChannel, Shared, Owned,
             NoStray, Box
  <2>1. ASSUME NEW p \in Procs, Memory!Lookup(p) PROVE UNCHANGED <<Box, taken>>
    BY <2>1 DEF Memory!Lookup
  <2>2. ASSUME NEW p \in Procs, Memory!Create(p) PROVE UNCHANGED <<Box, taken>>
    BY <2>2 DEF Memory!Create
  <2>3. ASSUME NEW p \in Procs, Memory!Send(p)
        PROVE  /\ key[p] \in Keys /\ Box[key[p]] = <<>>
               /\ Box' = [Box EXCEPT ![key[p]] = <<p>>]
               /\ taken' = taken
    <3>1. /\ pc[p] = "use" /\ queue[ch[p]] = <<>> /\ taken' = taken
          /\ queue' = [queue EXCEPT ![ch[p]] = <<p>>] /\ table' = table
      BY <2>3 DEF Memory!Send
    <3> HIDE DEF Memory!TypeOK, OneChannel, Box
    <3> QED
      BY <3>1, OneBoxChanges
  <2>4. ASSUME NEW p \in Procs, Memory!Recv(p)
        PROVE  /\ key[p] \in Keys /\ Box[key[p]] # <<>>
               /\ taken' = [taken EXCEPT ![key[p]] = Append(@, Head(Box[key[p]]))]
               /\ Box' = [Box EXCEPT ![key[p]] = <<>>]
    <3>1. ch[p] \in Procs
      BY <2>4 DEF Memory!Recv
    <3>2. PICK m \in Procs : queue[ch[p]] = <<m>>
      BY <2>4, <3>1 DEF Memory!Recv
    <3>3. queue' = [queue EXCEPT ![ch[p]] = <<>>]
      BY <2>4, <3>2 DEF Memory!Recv
    <3>4. /\ pc[p] = "use" /\ queue[ch[p]] # <<>> /\ table' = table
          /\ taken' = [taken EXCEPT ![key[p]] = Append(@, Head(queue[ch[p]]))]
      BY <2>4 DEF Memory!Recv
    <3> HIDE DEF Memory!TypeOK, OneChannel, Box
    <3>5. /\ key[p] \in Keys /\ Box[key[p]] = queue[ch[p]]
          /\ Box' = [Box EXCEPT ![key[p]] = <<>>]
      BY <3>3, <3>4, OneBoxChanges
    <3> QED
      BY <3>4, <3>5
  <2>5. CASE UNCHANGED Memory!vars
    BY <2>5 DEF Memory!vars, Memory!Boxes!vars
  <2> HIDE DEF Box, Memory!TypeOK, OneChannel
  <2> QED
    BY <2>1, <2>2, <2>3, <2>4, <2>5
       DEF Memory!Next, Box, Memory!Boxes!Next, Memory!Boxes!Put, Memory!Boxes!Take,
           Memory!Boxes!vars
<1> QED
  BY <1>1, <1>2, MemoryInvariance, PTL
     DEF Memory!Spec, Memory!ImplementsMailbox, Memory!Boxes!Spec

-----------------------------------------------------------------------------
(***************************************************************************)
(* The operator channel.                                                   *)
(*                                                                         *)
(* The inductive invariant follows each message from place to place.  It   *)
(* is conjoined from four parts and the types.                             *)
(***************************************************************************)

\* Where a message may be once the server has answered for it.
Answered == Received \cup InAnswer \cup dropped

\* What goes on between a call of Send or Recv, its request and the answer;
\* a Send that is under way has no outcome yet.
Control ==
  /\ sender = "waiting" <=> pub # "none"
  /\ receiver = "waiting" <=> sub # "none"
  /\ sender # "idle" => msg \in Msgs /\ outcome[msg] = "none"
  /\ \A m \in Msgs : m > msg => outcome[m] = "none"
  /\ sub = "200" => answer \in Msgs
  /\ oldSubs <= faults

\* The server has not answered for the message, nor can it by an abandoned request.
Fresh(m) ==
  m > msg \/ (m = msg /\ sender # "idle" /\ pub \notin {"200", "other"})

\* A message is in one place only.
OnePlace ==
  /\ \A m \in Msgs : Fresh(m) => m \notin Answered \cup oldPubs
  /\ oldPubs \cap Answered = {}
  /\ InAnswer \cap Received = {}
  /\ NothingTwice

\* A message whose Send is about to return without an error is not lost.
Handed ==
  /\ pub \in {"200", "other"} => msg \in Answered
  /\ SentIsHandedOver

\* Only an abandoned request can be answered late, and its Send has failed.
Late ==
  /\ \A m \in oldPubs : outcome[m] = "error"
  /\ \A m \in InAnswer : \A i \in 1 .. Len(received) :
        received[i] > m => outcome[m] = "error"
  /\ OnlyFailedSendsAreLate

\* Requests that are going to fail because they were made before the fallback.
Stale(side, scheme) == IF side = "request" /\ scheme = "https" THEN 1 ELSE 0

Schemes ==
  /\ \A s \in Sides : url[s] = "https" \/ ~plain => schemeErrs[s] = 0
  /\ schemeErrs["sender"] + Stale(sender, sendUrl) <= 1
  /\ schemeErrs["receiver"] + Stale(receiver, recvUrl) <= 1

OperatorInv == TypeOK /\ Control /\ OnePlace /\ Handed /\ Late /\ Schemes

\* What Append does to the messages received.
LEMMA ReceivesOne ==
  ASSUME received \in Seq(Msgs), answer \in Msgs, received' = Append(received, answer)
  PROVE  /\ received' \in Seq(Msgs) /\ Len(received') = Len(received) + 1
         /\ \A i \in 1 .. Len(received) : received'[i] = received[i]
         /\ received'[Len(received')] = answer
         /\ Received' = Received \cup {answer}
<1>1. /\ received' \in Seq(Msgs) /\ Len(received') = Len(received) + 1
      /\ \A i \in 1 .. Len(received) : received'[i] = received[i]
      /\ received'[Len(received')] = answer
  OBVIOUS
<1>2. 1 .. Len(received') = 1 .. Len(received) \cup {Len(received')}
  BY <1>1
<1>3. Received' = Received \cup {answer}
  BY <1>1, <1>2 DEF Received
<1> QED
  BY <1>1, <1>3

\* It holds before the first call.
LEMMA OperatorInit == Init => OperatorInv
<1> SUFFICES ASSUME Init PROVE OperatorInv
  OBVIOUS
<1> USE OperatorAssumption DEF Init
<1>1. Received = {} /\ InAnswer = {} /\ Answered = {}
  BY DEF Received, InAnswer, Answered
<1>2. TypeOK
  BY DEF TypeOK, Statuses, Msgs, Sides
<1>3. Control
  BY DEF Control, Msgs
<1>4. OnePlace
  BY <1>1 DEF OnePlace, NothingTwice
<1>5. Handed
  BY <1>1 DEF Handed, SentIsHandedOver
<1>6. Late
  BY <1>1 DEF Late, OnlyFailedSendsAreLate
<1>7. Schemes
  BY DEF Schemes, Stale, Sides
<1> QED
  BY <1>2, <1>3, <1>4, <1>5, <1>6, <1>7 DEF OperatorInv

\* Types and control, action by action.
LEMMA OperatorTypeStep == TypeOK /\ Control /\ [Next]_vars => TypeOK' /\ Control'
<1> SUFFICES ASSUME TypeOK, Control, [Next]_vars PROVE TypeOK' /\ Control'
  OBVIOUS
<1> USE OperatorAssumption
    DEF TypeOK, Control, Statuses, Msgs, Sides, sendVars, recvVars, serverVars, boundVars, Fault
<1>1. CASE SendCalled
  BY <1>1 DEF SendCalled
<1>2. CASE Posts
  BY <1>2 DEF Posts
<1>3. CASE SendSchemeFails
  BY <1>3 DEF SendSchemeFails, SendReturns, Fallback
<1>4. CASE SendRetries
  BY <1>4 DEF SendRetries
<1>5. CASE SendSucceeds
  BY <1>5 DEF SendSucceeds, SendReturns
<1>6. CASE SendFails
  BY <1>6 DEF SendFails, SendReturns, LeavePub
<1>7. CASE RecvCalled
  BY <1>7 DEF RecvCalled
<1>8. CASE Gets
  BY <1>8 DEF Gets
<1>9. CASE RecvSchemeFails
  BY <1>9 DEF RecvSchemeFails, Fallback
<1>10. CASE RecvRetries
  BY <1>10 DEF RecvRetries
<1>11. CASE RecvReturns
  BY <1>11 DEF RecvReturns
<1>12. CASE RecvTimesOut
  BY <1>12 DEF RecvTimesOut, LeaveSub, InAnswer
<1>13. CASE RecvFails
  BY <1>13 DEF RecvFails, LeaveSub, InAnswer
<1>14. CASE GatewayTimeout
  BY <1>14 DEF GatewayTimeout
<1>15. CASE OtherStatus
  <2>1. CASE pub = "waiting" /\ pub' = "other" /\ dropped' = dropped \cup {msg} /\ sub' = sub
    BY <1>15, <2>1 DEF OtherStatus
  <2>2. CASE sub = "waiting" /\ sub' = "other" /\ UNCHANGED <<pub, dropped>>
    BY <1>15, <2>2 DEF OtherStatus
  <2> QED
    BY <1>15, <2>1, <2>2 DEF OtherStatus
<1>16. CASE Forget
  <2>1. oldPubs' \subseteq oldPubs /\ oldSubs' \in 0 .. oldSubs
    BY <1>16 DEF Forget
  <2> QED
    BY <1>16, <2>1 DEF Forget
<1>17. ASSUME NEW m \in Msgs, Match(m) PROVE TypeOK' /\ Control'
  <2>1. /\ oldPubs' \subseteq oldPubs
        /\ pub' = pub \/ (pub = "waiting" /\ pub' = "200")
    BY <1>17 DEF Match
  <2>2. /\ oldSubs' \in 0 .. oldSubs /\ dropped' \subseteq dropped \cup {m}
        /\ (sub' = sub /\ answer' = answer) \/ (sub = "waiting" /\ sub' = "200" /\ answer' = m)
    BY <1>17 DEF Match
  <2> QED
    BY <1>17, <2>1, <2>2 DEF Match
<1>18. CASE UNCHANGED vars
  BY <1>18 DEF vars
<1>19. ASSUME NEW s \in Sides, FallbackElsewhere(s) PROVE TypeOK' /\ Control'
  BY <1>19 DEF FallbackElsewhere
<1> QED
  BY <1>1, <1>2, <1>3, <1>4, <1>5, <1>6, <1>7, <1>8, <1>9, <1>10, <1>11, <1>12, <1>13,
     <1>14, <1>15, <1>16, <1>17, <1>18, <1>19 DEF Next, Sending, Receiving

\* A step that moves no message out of its place.
LEMMA PlacesKept ==
  ASSUME OnePlace, received' = received, InAnswer' = InAnswer, dropped' = dropped,
         oldPubs' \subseteq oldPubs, \A m \in Msgs : Fresh(m)' => Fresh(m)
  PROVE  OnePlace' /\ Answered' = Answered
<1>1. Received' = Received /\ Answered' = Answered /\ NothingTwice'
  BY DEF Received, Answered, OnePlace, NothingTwice
<1> QED
  BY <1>1 DEF OnePlace

\* An answer that Recv returns, or that is lost, is answered for as before.
LEMMA AnswerMoves ==
  ASSUME TypeOK, Control, OnePlace, oldPubs' = oldPubs, InAnswer' = {},
         \/ sub = "200" /\ received' = Append(received, answer) /\ dropped' = dropped
         \/ received' = received /\ dropped' = dropped \cup InAnswer,
         \A m \in Msgs : Fresh(m)' => Fresh(m)
  PROVE  OnePlace' /\ Answered' = Answered
<1>1. CASE sub = "200" /\ received' = Append(received, answer) /\ dropped' = dropped
  <2>1. answer \in Msgs /\ received \in Seq(Msgs) /\ InAnswer = {answer}
    BY <1>1 DEF TypeOK, Control, InAnswer
  <2>2. /\ Received' = Received \cup {answer} /\ Len(received') = Len(received) + 1
        /\ \A i \in 1 .. Len(received) : received'[i] = received[i]
        /\ received'[Len(received')] = answer
    BY <1>1, <2>1, ReceivesOne
  <2>3. Answered' = Answered
    BY <1>1, <2>1, <2>2 DEF Answered
  <2>4. answer \notin Received
    BY <2>1 DEF OnePlace
  <2>5. NothingTwice'
    <3>1. \A i \in 1 .. Len(received) : received[i] # answer
      BY <2>4 DEF Received
    <3>2. Len(received) \in Nat /\ NothingTwice
      BY <2>1 DEF OnePlace
    <3>3. ASSUME NEW i \in 1 .. Len(received'), NEW j \in 1 .. Len(received'), i # j
          PROVE  received'[i] # received'[j]
      BY <2>2, <3>1, <3>2, <3>3 DEF NothingTwice
    <3> QED
      BY <3>3 DEF NothingTwice
  <2> QED
    BY <1>1, <2>3, <2>5 DEF OnePlace
<1>2. CASE received' = received /\ dropped' = dropped \cup InAnswer
  <2>1. Received' = Received /\ Answered' = Answered /\ NothingTwice'
    BY <1>2 DEF Received, Answered, OnePlace, NothingTwice
  <2> QED
    BY <2>1 DEF OnePlace
<1> QED
  BY <1>1, <1>2

\* The server answers for a message that is fresh, or in an abandoned request.
LEMMA AnswerComes ==
  ASSUME TypeOK, Control, OnePlace, NEW m \in Msgs,
         \/ Fresh(m) /\ ~Fresh(m)' /\ oldPubs' = oldPubs
         \/ m \in oldPubs /\ oldPubs' = oldPubs \ {m},
         \/ InAnswer = {} /\ InAnswer' = {m} /\ dropped' = dropped
         \/ InAnswer' = InAnswer /\ dropped' = dropped \cup {m},
         received' = received,
         \A k \in Msgs : Fresh(k)' => Fresh(k)
  PROVE  OnePlace' /\ Answered' = Answered \cup {m}
<1>1. m \notin Answered /\ ~Fresh(m)' /\ m \notin oldPubs'
  BY DEF OnePlace
<1>2. Received' = Received /\ NothingTwice'
  BY DEF Received, NothingTwice, OnePlace
<1>3. Answered' = Answered \cup {m}
  BY <1>2 DEF Answered
<1>4. oldPubs' \subseteq oldPubs
  OBVIOUS
<1>5. InAnswer' \cap Received' = {}
  BY <1>1, <1>2 DEF OnePlace, Answered
<1>6. \A k \in Msgs : Fresh(k)' => k \notin Answered' \cup oldPubs'
  BY <1>1, <1>3, <1>4 DEF OnePlace
<1>7. oldPubs' \cap Answered' = {}
  BY <1>1, <1>3, <1>4 DEF OnePlace
<1> QED
  BY <1>2, <1>3, <1>5, <1>6, <1>7 DEF OnePlace

\* No step puts a message in two places, or takes back an answer.
LEMMA PlaceStep ==
  TypeOK /\ Control /\ OnePlace /\ [Next]_vars => OnePlace' /\ Answered \subseteq Answered'
<1> SUFFICES ASSUME TypeOK, Control, OnePlace, [Next]_vars
             PROVE  OnePlace' /\ Answered \subseteq Answered'
  OBVIOUS
<1> USE DEF sendVars, recvVars, serverVars
<1>1. CASE SendCalled \/ Posts \/ SendSchemeFails \/ SendRetries \/ SendSucceeds
  <2>1. /\ received' = received /\ dropped' = dropped /\ oldPubs' = oldPubs
        /\ sub' = sub /\ answer' = answer
    BY <1>1 DEF SendCalled, Posts, SendSchemeFails, SendRetries, SendSucceeds
  <2>2. \A m \in Msgs : Fresh(m)' => Fresh(m)
    <3>1. CASE SendCalled
      BY <3>1 DEF SendCalled, Fresh, TypeOK, Msgs
    <3>2. CASE Posts \/ SendRetries
      BY <3>2 DEF Posts, SendRetries, Fresh, Control
    <3>3. CASE SendSchemeFails \/ SendSucceeds
      BY <3>3 DEF SendSchemeFails, SendSucceeds, SendReturns, Fresh
    <3> QED
      BY <1>1, <3>1, <3>2, <3>3
  <2> QED
    BY <2>1, <2>2, PlacesKept DEF InAnswer
<1>2. CASE RecvCalled \/ Gets \/ RecvSchemeFails \/ RecvRetries \/ GatewayTimeout
           \/ Forget \/ (\E s \in Sides : FallbackElsewhere(s)) \/ UNCHANGED vars
  <2>1. /\ received' = received /\ dropped' = dropped /\ oldPubs' \subseteq oldPubs
        /\ InAnswer' = InAnswer
    BY <1>2 DEF RecvCalled, Gets, RecvSchemeFails, RecvRetries, GatewayTimeout, Forget,
                FallbackElsewhere, vars, InAnswer, Control
  <2>2. \A m \in Msgs : Fresh(m)' => Fresh(m)
    BY <1>2 DEF RecvCalled, Gets, RecvSchemeFails, RecvRetries, GatewayTimeout, Forget,
                FallbackElsewhere, vars, Fresh
  <2> QED
    BY <2>1, <2>2, PlacesKept
<1>3. CASE SendFails
  <2>1. /\ received' = received /\ dropped' = dropped /\ sub' = sub /\ answer' = answer
        /\ \A m \in Msgs : Fresh(m)' => Fresh(m) /\ m # msg
    BY <1>3 DEF SendFails, SendReturns, Fresh, TypeOK, Msgs
  <2>2. oldPubs' = oldPubs \/ (oldPubs' = oldPubs \cup {msg} /\ msg \in Msgs /\ Fresh(msg))
    BY <1>3 DEF SendFails, LeavePub, Control, Fresh
  <2>3. /\ Received' = Received /\ Answered' = Answered /\ NothingTwice'
        /\ InAnswer' = InAnswer
    BY <2>1 DEF Received, Answered, InAnswer, OnePlace, NothingTwice
  <2> QED
    BY <2>1, <2>2, <2>3 DEF OnePlace
<1>4. CASE RecvReturns \/ RecvTimesOut \/ RecvFails
  <2>1. /\ oldPubs' = oldPubs /\ InAnswer' = {}
        /\ \/ sub = "200" /\ received' = Append(received, answer) /\ dropped' = dropped
           \/ received' = received /\ dropped' = dropped \cup InAnswer
    BY <1>4 DEF RecvReturns, RecvTimesOut, RecvFails, LeaveSub, InAnswer
  <2>2. \A m \in Msgs : Fresh(m)' => Fresh(m)
    BY <1>4 DEF RecvReturns, RecvTimesOut, RecvFails, LeaveSub, Fresh
  <2> QED
    BY <2>1, <2>2, AnswerMoves
<1>5. CASE OtherStatus
  <2>1. CASE pub = "waiting" /\ pub' = "other" /\ dropped' = dropped \cup {msg} /\ sub' = sub
    <3>1. PICK m \in Msgs : m = msg
      BY <2>1 DEF Control
    <3>2. /\ Fresh(m) /\ ~Fresh(m)' /\ oldPubs' = oldPubs
          /\ InAnswer' = InAnswer /\ received' = received
          /\ \A k \in Msgs : Fresh(k)' => Fresh(k)
      BY <1>5, <2>1, <3>1 DEF OtherStatus, Control, Fresh, InAnswer, TypeOK, Msgs
    <3> QED
      BY <2>1, <3>1, <3>2, AnswerComes
  <2>2. CASE sub = "waiting" /\ sub' = "other" /\ UNCHANGED <<pub, dropped>>
    <3>1. /\ received' = received /\ dropped' = dropped /\ oldPubs' = oldPubs
          /\ InAnswer' = InAnswer /\ \A m \in Msgs : Fresh(m)' => Fresh(m)
      BY <1>5, <2>2 DEF OtherStatus, InAnswer, Fresh
    <3> QED
      BY <3>1, PlacesKept
  <2> QED
    BY <1>5, <2>1, <2>2 DEF OtherStatus
<1>6. ASSUME NEW m \in Msgs, Match(m) PROVE OnePlace' /\ Answered \subseteq Answered'
  <2>1. \/ Fresh(m) /\ ~Fresh(m)' /\ oldPubs' = oldPubs
        \/ m \in oldPubs /\ oldPubs' = oldPubs \ {m}
    BY <1>6 DEF Match, Control, Fresh, TypeOK, Msgs
  <2>2. /\ \/ InAnswer = {} /\ InAnswer' = {m} /\ dropped' = dropped
           \/ InAnswer' = InAnswer /\ dropped' = dropped \cup {m}
        /\ received' = received
    BY <1>6 DEF Match, InAnswer
  <2>3. \A k \in Msgs : Fresh(k)' => Fresh(k)
    BY <1>6 DEF Match, Fresh
  <2> QED
    BY <2>1, <2>2, <2>3, AnswerComes
<1> QED
  BY <1>1, <1>2, <1>3, <1>4, <1>5, <1>6 DEF Next, Sending, Receiving

\* An outcome "nil" is recorded only for a message that was answered for.
LEMMA HandedStep ==
  TypeOK /\ Control /\ OnePlace /\ Handed /\ [Next]_vars => Handed'
<1> SUFFICES ASSUME TypeOK, Control, OnePlace, Handed, [Next]_vars PROVE Handed'
  OBVIOUS
<1>1. Answered \subseteq Answered'
  BY PlaceStep
<1> USE DEF sendVars, recvVars, serverVars, boundVars
<1>2. pub' \in {"200", "other"} => msg' \in Answered'
  <2>1. CASE pub' = pub /\ msg' = msg
    BY <1>1, <2>1 DEF Handed
  <2>2. CASE OtherStatus
    BY <1>1, <2>2 DEF OtherStatus, Answered, Handed
  <2>3. ASSUME NEW m \in Msgs, Match(m) PROVE pub' \in {"200", "other"} => msg' \in Answered'
    <3>1. m \in InAnswer' \cup dropped'
      BY <2>3 DEF Match, InAnswer
    <3> QED
      BY <1>1, <2>3, <3>1 DEF Match, Answered, Handed
  <2>4. CASE SendCalled \/ Posts \/ SendSchemeFails \/ SendRetries \/ SendSucceeds
             \/ SendFails \/ GatewayTimeout
    BY <1>1, <2>4 DEF SendCalled, Posts, SendSchemeFails, SendRetries, SendSucceeds, SendFails,
                      SendReturns, GatewayTimeout, Control, Handed
  <2>5. CASE Receiving \/ RecvTimesOut \/ RecvFails \/ Forget
             \/ (\E s \in Sides : FallbackElsewhere(s)) \/ UNCHANGED vars
    <3>1. pub' = pub /\ msg' = msg
      BY <2>5 DEF Receiving, RecvCalled, Gets, RecvSchemeFails, RecvRetries, RecvReturns,
                  RecvTimesOut, RecvFails, Forget, FallbackElsewhere, vars
    <3> QED
      BY <2>1, <3>1
  <2> QED
    BY <2>2, <2>3, <2>4, <2>5 DEF Next, Sending
<1>3. ASSUME NEW m \in Msgs, outcome'[m] = "nil" PROVE m \in Answered'
  <2>1. CASE SendSucceeds
    <3>1. outcome[m] = "nil" \/ m = msg
      BY <1>3, <2>1 DEF SendSucceeds, SendReturns, TypeOK
    <3> QED
      BY <1>1, <2>1, <3>1 DEF SendSucceeds, Handed, SentIsHandedOver, Answered
  <2>2. CASE ~SendSucceeds
    <3>1. outcome' = outcome \/ outcome' = [outcome EXCEPT ![msg] = "error"]
      BY <2>2 DEF Next, Sending, Receiving, SendCalled, Posts, SendSchemeFails, SendRetries,
                  SendFails, SendReturns, RecvCalled, Gets, RecvSchemeFails, RecvRetries,
                  RecvReturns, RecvTimesOut, RecvFails, GatewayTimeout, OtherStatus, Forget,
                  FallbackElsewhere,
                  Match, vars
    <3>2. outcome[m] = "nil"
      BY <1>3, <3>1 DEF TypeOK
    <3> QED
      BY <1>1, <3>2 DEF Handed, SentIsHandedOver, Answered
  <2> QED
    BY <2>1, <2>2
<1>4. faults' = 0 => dropped' = {}
  <2>1. faults \in Nat /\ (faults = 0 => dropped = {} /\ oldSubs = 0)
    BY OperatorAssumption DEF TypeOK, Control, Handed, SentIsHandedOver
  <2>2. \/ faults' = faults + 1
        \/ faults' = faults /\ (dropped' = dropped \/ oldSubs > 0)
    BY DEF Next, Sending, Receiving, SendCalled, Posts, SendSchemeFails, SendRetries,
           SendSucceeds, SendFails, SendReturns, RecvCalled, Gets, RecvSchemeFails, RecvRetries,
           RecvReturns, RecvTimesOut, RecvFails, LeaveSub, InAnswer, GatewayTimeout, OtherStatus,
           FallbackElsewhere,
           Forget, Match, Fault, vars
  <2> QED
    BY <2>1, <2>2
<1> QED
  BY <1>2, <1>3, <1>4 DEF Handed, SentIsHandedOver, Answered

\* The order of what is received, with the reason for each exception.
LEMMA LateStep ==
  TypeOK /\ Control /\ OnePlace /\ Late /\ [Next]_vars => Late'
<1> SUFFICES ASSUME TypeOK, Control, OnePlace, Late, [Next]_vars PROVE Late'
  OBVIOUS
<1> USE DEF sendVars, recvVars, serverVars, boundVars
\* The outcome of a Send does not change once it is there.
<1>1. \A m \in Msgs : outcome[m] = "error" => outcome'[m] = "error"
  BY DEF Next, Sending, Receiving, SendCalled, Posts, SendSchemeFails, SendRetries,
         SendSucceeds, SendFails, SendReturns, RecvCalled, Gets, RecvSchemeFails, RecvRetries,
         RecvReturns, RecvTimesOut, RecvFails, GatewayTimeout, OtherStatus, Forget,
         FallbackElsewhere,
         Match, vars, TypeOK, Control
<1>2. \A m \in oldPubs' : outcome'[m] = "error"
  <2>1. CASE SendFails
    BY <1>1, <2>1 DEF SendFails, LeavePub, SendReturns, TypeOK, Control, Late
  <2>2. CASE ~SendFails
    <3>1. oldPubs' \subseteq oldPubs
      BY <2>2 DEF Next, Sending, Receiving, SendCalled, Posts, SendSchemeFails, SendRetries,
         SendSucceeds, SendReturns, RecvCalled, Gets, RecvSchemeFails, RecvRetries,
         RecvReturns, RecvTimesOut, RecvFails, LeaveSub, GatewayTimeout, OtherStatus, Forget,
         FallbackElsewhere,
         Match, vars
    <3> QED
      BY <1>1, <3>1 DEF Late, TypeOK
  <2> QED
    BY <2>1, <2>2
<1>3. CASE received' = received /\ InAnswer' \subseteq InAnswer
  <2>1. InAnswer \subseteq Msgs /\ Received \subseteq Msgs
    BY DEF TypeOK, Control, InAnswer, Received
  <2>2. \A m \in InAnswer' : \A i \in 1 .. Len(received') :
           received'[i] > m => outcome'[m] = "error"
    BY <1>1, <1>3, <2>1 DEF Late
  <2>3. OnlyFailedSendsAreLate'
    BY <1>1, <1>3, <2>1 DEF Late, OnlyFailedSendsAreLate, Received
  <2> QED
    BY <1>2, <2>2, <2>3 DEF Late
<1>4. CASE RecvReturns
  <2>1. /\ received \in Seq(Msgs) /\ answer \in Msgs /\ InAnswer = {answer} /\ InAnswer' = {}
        /\ received' = Append(received, answer) /\ outcome' = outcome
    BY <1>4 DEF RecvReturns, InAnswer, TypeOK, Control
  <2>2. /\ Len(received) \in Nat /\ Len(received') = Len(received) + 1
        /\ \A i \in 1 .. Len(received) : received'[i] = received[i]
        /\ received'[Len(received')] = answer
    BY <2>1, ReceivesOne
  <2>3. \A i \in 1 .. Len(received) : received[i] > answer => outcome[answer] = "error"
    BY <2>1 DEF Late
  <2>4. OnlyFailedSendsAreLate
    BY DEF Late
  <2>5. ASSUME NEW i \in 1 .. Len(received'), NEW j \in 1 .. Len(received'),
               i < j, received'[i] > received'[j]
        PROVE  outcome'[received'[j]] = "error"
    <3>1. i \in 1 .. Len(received) /\ received'[i] = received[i]
      BY <2>2, <2>5
    <3>2. CASE j = Len(received')
      BY <2>1, <2>2, <2>3, <2>5, <3>1, <3>2
    <3>3. CASE j # Len(received')
      <4>1. j \in 1 .. Len(received) /\ received'[j] = received[j]
        BY <2>2, <3>3
      <4> QED
        BY <2>1, <2>4, <2>5, <3>1, <4>1 DEF OnlyFailedSendsAreLate
    <3> QED
      BY <3>2, <3>3
  <2>6. OnlyFailedSendsAreLate'
    BY <2>5 DEF OnlyFailedSendsAreLate
  <2> QED
    BY <1>2, <2>1, <2>6 DEF Late
<1>5. ASSUME NEW m \in Msgs, Match(m) PROVE Late'
  <2>1. received' = received /\ outcome' = outcome
    BY <1>5 DEF Match
  <2>2. CASE InAnswer' \subseteq InAnswer
    BY <1>3, <2>1, <2>2
  <2>3. CASE ~(InAnswer' \subseteq InAnswer)
    <3>1. InAnswer' = {m}
      BY <1>5, <2>3 DEF Match, InAnswer
    <3>2. CASE m \in oldPubs
      <4>1. outcome'[m] = "error"
        BY <2>1, <3>2 DEF Late
      <4>2. OnlyFailedSendsAreLate'
        BY <2>1 DEF Late, OnlyFailedSendsAreLate
      <4> QED
        BY <1>2, <2>1, <3>1, <4>1, <4>2 DEF Late
    \* No message that was sent later has been received yet.
    <3>3. CASE m = msg
      <4>1. ASSUME NEW i \in 1 .. Len(received) PROVE ~(received[i] > m)
        <5>1. received[i] \in Received /\ received[i] \in Msgs
          BY DEF Received, TypeOK
        <5>2. ~Fresh(received[i])
          BY <5>1 DEF OnePlace, Answered
        <5> QED
          BY <3>3, <5>2 DEF Fresh
      <4>2. OnlyFailedSendsAreLate'
        BY <2>1 DEF Late, OnlyFailedSendsAreLate
      <4> QED
        BY <1>2, <2>1, <3>1, <4>1, <4>2 DEF Late
    <3> QED
      BY <1>5, <3>2, <3>3 DEF Match
  <2> QED
    BY <2>2, <2>3
<1>6. CASE /\ ~RecvReturns
           /\ \A m \in Msgs : ~Match(m)
  <2>1. received' = received /\ InAnswer' \subseteq InAnswer
    BY <1>6 DEF Next, Sending, Receiving, SendCalled, Posts, SendSchemeFails, SendRetries,
         SendSucceeds, SendFails, RecvCalled, Gets, RecvSchemeFails, RecvRetries,
         RecvTimesOut, RecvFails, LeaveSub, GatewayTimeout, OtherStatus, Forget, FallbackElsewhere,
         vars, InAnswer, Control
  <2> QED
    BY <1>3, <2>1
<1> QED
  BY <1>4, <1>5, <1>6

\* A failure because of the scheme uses up a request made before the fallback.
LEMMA SchemeStep == TypeOK /\ Control /\ Schemes /\ [Next]_vars => Schemes'
<1> SUFFICES ASSUME TypeOK, Control, Schemes, [Next]_vars PROVE Schemes'
  OBVIOUS
<1> USE DEF TypeOK, Sides, Schemes, Stale, sendVars, recvVars, serverVars, boundVars
<1>1. CASE Sending \/ SendCalled \/ SendFails
  BY <1>1 DEF Sending, SendCalled, Posts, SendSchemeFails, SendRetries, SendSucceeds, SendFails,
              SendReturns, Fallback, Reaches
<1>2. CASE Receiving \/ RecvTimesOut \/ RecvFails
  BY <1>2 DEF Receiving, RecvCalled, Gets, RecvSchemeFails, RecvRetries, RecvReturns,
              RecvTimesOut, RecvFails, Fallback, Reaches
<1>3. CASE GatewayTimeout \/ OtherStatus \/ Forget \/ (\E m \in Msgs : Match(m)) \/ UNCHANGED vars
  BY <1>3 DEF GatewayTimeout, OtherStatus, Forget, FallbackElsewhere, Match, vars
<1>4. ASSUME NEW s \in Sides, FallbackElsewhere(s) PROVE Schemes'
  BY <1>4 DEF FallbackElsewhere
<1> QED
  BY <1>1, <1>2, <1>3, <1>4 DEF Next

\* Together the parts are inductive.
LEMMA OperatorInvariance == Spec => []OperatorInv
<1>1. OperatorInv /\ [Next]_vars => OperatorInv'
  BY OperatorTypeStep, PlaceStep, HandedStep, LateStep, SchemeStep DEF OperatorInv
<1> QED
  BY <1>1, OperatorInit, PTL DEF Spec

\* Every variable keeps its type, with at most MaxFaults abandoned receives.
THEOREM OperatorTypeCorrect == Spec => []TypeOK
<1>1. OperatorInv => TypeOK
  BY DEF OperatorInv
<1> QED
  BY <1>1, OperatorInvariance, PTL

\* Each message is received at most once, however often Send and Recv repeat
\* their requests, and whatever becomes of those they abandon.
THEOREM NeverTwice == Spec => []NothingTwice
<1>1. OperatorInv => NothingTwice
  BY DEF OperatorInv, OnePlace
<1> QED
  BY <1>1, OperatorInvariance, PTL

\* A message whose Send returned without an error was received, is in an answer
\* on its way, or was lost to a fault; without faults none is lost.
THEOREM SentIsNotLost == Spec => []SentIsHandedOver
<1>1. OperatorInv => SentIsHandedOver
  BY DEF OperatorInv, Handed
<1> QED
  BY <1>1, OperatorInvariance, PTL

\* Messages are received in the order they were sent, except those whose Send
\* gave up on a request that the server answers later.
THEOREM OthersAreInOrder == Spec => []OnlyFailedSendsAreLate
<1>1. OperatorInv => OnlyFailedSendsAreLate
  BY DEF OperatorInv, Late
<1> QED
  BY <1>1, OperatorInvariance, PTL

\* The fallback to http fails at most the call that a side has under way.
THEOREM FallbackCostsOneCall == Spec => []FallbackFailsOncePerSide
<1>1. OperatorInv => FallbackFailsOncePerSide
  BY DEF OperatorInv, TypeOK, Schemes, Stale, Sides, FallbackFailsOncePerSide
<1> QED
  BY <1>1, OperatorInvariance, PTL
=============================================================================
