------------------------- MODULE DataChannelProofs -------------------------
(***************************************************************************)
(* Proofs about DataChannel, for any number and size of messages, any      *)
(* buffers and any goroutines that close the channel.                      *)
(***************************************************************************)
EXTENDS DataChannel, SequenceTheorems, TLAPS

-----------------------------------------------------------------------------
\* Where the bytes of message i are in the stream.
LEMMA BytesOfMessage ==
  ASSUME NEW i \in Msgs, NEW k \in 1 .. MsgSize
  PROVE  (i - 1) * MsgSize + k \in Bytes
<1>1. i \in Nat /\ i <= NumMsgs /\ i >= 1 /\ MsgSize \in Nat /\ NumMsgs \in Nat
  BY DataChannelAssumption DEF Msgs
<1>2. /\ (i - 1) * MsgSize \in Nat /\ NumMsgs * MsgSize \in Nat
      /\ (i - 1) * MsgSize + MsgSize = i * MsgSize
      /\ i * MsgSize <= NumMsgs * MsgSize
  BY <1>1
<1> QED
  BY <1>1, <1>2 DEF Bytes

\* One read takes count bytes of message i and appends them.
LEMMA TransferAppends ==
  ASSUME TypeOK, NEW i \in Msgs, NEW n \in 1 .. ReadMax, Transfer(i, n)
  PROVE  \E count \in 1 .. MsgSize - off :
            /\ off' = IF count = MsgSize - off THEN 0 ELSE off + count
            /\ msg' = [msg EXCEPT ![i] = IF count = MsgSize - off THEN "done" ELSE @]
            /\ received' \in Seq(Bytes)
            /\ Len(received') = Len(received) + count
            /\ \A k \in 1 .. Len(received) : received'[k] = received[k]
            /\ \A k \in 1 .. count :
                  received'[Len(received) + k] = (i - 1) * MsgSize + off + k
<1> DEFINE left  == MsgSize - off
           count == IF n < left THEN n ELSE left
           first == (i - 1) * MsgSize + off
           taken == [k \in 1 .. count |-> first + k]
<1>1. /\ off \in Nat /\ off < MsgSize /\ MsgSize \in Nat /\ received \in Seq(Bytes)
      /\ n \in Nat /\ n >= 1
  BY DataChannelAssumption DEF TypeOK, HandlerTypes, ReaderTypes
<1>2. count \in 1 .. left /\ count \in Nat
  BY <1>1
<1>3. (i - 1) * MsgSize \in Nat
  BY <1>1 DEF Msgs
<1>4. \A k \in 1 .. count : first + k \in Bytes
  <2> SUFFICES ASSUME NEW k \in 1 .. count PROVE first + k \in Bytes
    OBVIOUS
  <2>1. off + k \in 1 .. MsgSize
    BY <1>1, <1>2
  <2>2. (i - 1) * MsgSize + (off + k) \in Bytes
    BY <2>1, BytesOfMessage
  <2>3. (i - 1) * MsgSize + (off + k) = first + k
    BY <1>1, <1>2, <1>3
  <2> QED
    BY <2>2, <2>3
<1>5. /\ received' = received \o taken
      /\ off' = IF count = left THEN 0 ELSE off + count
      /\ msg' = [msg EXCEPT ![i] = IF count = left THEN "done" ELSE @]
  BY DEF Transfer
<1> HIDE DEF count, first
<1>6. taken \in Seq(Bytes) /\ Len(taken) = count /\ \A k \in 1 .. count : taken[k] = first + k
  BY <1>2, <1>4
<1> HIDE DEF taken
<1>7. /\ received' \in Seq(Bytes) /\ Len(received') = Len(received) + count
      /\ \A j \in 1 .. Len(received) + count :
            received'[j] = IF j <= Len(received) THEN received[j]
                           ELSE taken[j - Len(received)]
  BY <1>1, <1>5, <1>6, ConcatProperties
<1>8. Len(received) \in Nat
  BY <1>1, LenProperties
<1>9. \A k \in 1 .. Len(received) : received'[k] = received[k]
  BY <1>2, <1>7, <1>8
<1>10. \A k \in 1 .. count : received'[Len(received) + k] = first + k
  <2> SUFFICES ASSUME NEW k \in 1 .. count
               PROVE  received'[Len(received) + k] = first + k
    OBVIOUS
  <2>1. /\ Len(received) + k \in 1 .. Len(received) + count
        /\ ~(Len(received) + k <= Len(received))
        /\ (Len(received) + k) - Len(received) = k
    BY <1>2, <1>8
  <2> QED
    BY <1>6, <1>7, <2>1
<1> QED
  BY <1>2, <1>5, <1>7, <1>9, <1>10 DEF first

\* Variables that a step leaves alone keep their types.
LEMMA UnchangedTypes ==
  ASSUME TypeOK
  PROVE  /\ UNCHANGED channelVars => ChannelTypes'
         /\ UNCHANGED wrapVars => WrapTypes'
         /\ UNCHANGED closeVars => CloseTypes'
         /\ UNCHANGED handlerVars => HandlerTypes'
         /\ UNCHANGED readerVars => ReaderTypes'
<1>1. UNCHANGED channelVars => ChannelTypes'
  BY DEF TypeOK, ChannelTypes, channelVars
<1>2. UNCHANGED wrapVars => WrapTypes'
  BY DEF TypeOK, WrapTypes, wrapVars
<1>3. UNCHANGED closeVars => CloseTypes'
  BY DEF TypeOK, CloseTypes, closeVars
<1>4. UNCHANGED handlerVars => HandlerTypes'
  BY DEF TypeOK, HandlerTypes, handlerVars
<1>5. UNCHANGED readerVars => ReaderTypes'
  BY DEF TypeOK, ReaderTypes, readerVars
<1> QED
  BY <1>1, <1>2, <1>3, <1>4, <1>5

\* Every variable keeps its type: the callbacks, the callers of Close and
\* closeCond only ever reach the states the code has.
THEOREM TypeCorrect == Spec => []TypeOK
<1>1. Init => TypeOK
  <2> SUFFICES ASSUME Init PROVE TypeOK
    OBVIOUS
  <2>1. ChannelTypes /\ WrapTypes
    <3>1. 0 \in 0 .. NumMsgs
      BY DataChannelAssumption
    <3> QED
      BY <3>1 DEF Init, ChannelTypes, WrapTypes
  <2>2. CloseTypes
    BY DEF Init, CloseTypes
  <2>3. HandlerTypes
    <3>1. 0 \in 0 .. MsgSize - 1
      BY DataChannelAssumption
    <3> QED
      BY <3>1 DEF Init, HandlerTypes
  <2>4. ReaderTypes
    BY EmptySeq DEF Init, ReaderTypes
  <2> QED
    BY <2>1, <2>2, <2>3, <2>4 DEF TypeOK
<1>2. TypeOK /\ [Next]_vars => TypeOK'
  <2> SUFFICES ASSUME TypeOK, [Next]_vars PROVE TypeOK'
    OBVIOUS
  <2>1. CASE ChannelOpens \/ PeerSends \/ PeerCloses
    <3>1. ChannelTypes' /\ WrapTypes'
      BY <2>1, DataChannelAssumption
         DEF TypeOK, ChannelTypes, WrapTypes, ChannelOpens, PeerSends, PeerCloses, wrapVars
    <3>2. HandlerTypes'
      BY <2>1, DataChannelAssumption
         DEF TypeOK, ChannelTypes, HandlerTypes, ChannelOpens, PeerSends, PeerCloses,
             handlerVars, Msgs
    <3> QED
      BY <2>1, <3>1, <3>2, UnchangedTypes
         DEF TypeOK, ChannelOpens, PeerSends, PeerCloses
  <2>2. CASE Wrapping
    <3>1. WrapTypes'
      BY <2>2 DEF TypeOK, WrapTypes, Wrapping, RegisterOnClose, RegisterOnOpen,
                  RegisterOnMessage, OpenSignals, WrapFails, WrapReturns
    <3> QED
      BY <2>2, <3>1, UnchangedTypes
         DEF TypeOK, Wrapping, RegisterOnClose, RegisterOnOpen, RegisterOnMessage,
             OpenSignals, WrapFails, WrapReturns
  <2>3. ASSUME NEW c \in Closers, UserCloses(c) \/ DoStarts(c) \/ CloseReturns(c)
        PROVE  TypeOK'
    <3>1. CloseTypes'
      BY <2>3 DEF TypeOK, CloseTypes, UserCloses, DoStarts, CloseReturns
    <3> QED
      BY <2>3, <3>1, UnchangedTypes DEF TypeOK, UserCloses, DoStarts, CloseReturns
  <2>4. CASE \/ CloseReader \/ CloseWriter \/ CloseChannel \/ RecordCloseErr
             \/ SignalClosed
    <3>1. CloseTypes' /\ ChannelTypes'
      BY <2>4 DEF TypeOK, CloseTypes, ChannelTypes, channelVars, CloseReader,
                  CloseWriter, CloseChannel, RecordCloseErr, SignalClosed
    <3> QED
      BY <2>4, <3>1, UnchangedTypes
         DEF TypeOK, CloseReader, CloseWriter, CloseChannel, RecordCloseErr, SignalClosed
  <2>5. ASSUME NEW i \in Msgs,
               \/ Deliver(i)
               \/ HandlerSkips(i) \/ HandlerWrites(i) \/ WriteFails(i) \/ HandlerCloses(i)
        PROVE  TypeOK'
    <3>1. HandlerTypes'
      <4>1. 0 \in 0 .. MsgSize - 1
        BY DataChannelAssumption
      <4>2. CASE Deliver(i) \/ HandlerSkips(i) \/ HandlerWrites(i)
        BY <4>2 DEF TypeOK, HandlerTypes, Deliver, HandlerSkips, HandlerWrites
      <4>3. CASE WriteFails(i)
        BY <4>1, <4>3 DEF TypeOK, HandlerTypes, WriteFails
      <4>4. CASE HandlerCloses(i)
        BY <4>4 DEF TypeOK, HandlerTypes, HandlerCloses
      <4> QED
        BY <2>5, <4>2, <4>3, <4>4
    <3> QED
      BY <2>5, <3>1, UnchangedTypes
         DEF TypeOK, Deliver, HandlerSkips, HandlerWrites, WriteFails, HandlerCloses
  <2>6. CASE ReadCalled \/ ReadFails
    <3>1. ReaderTypes'
      BY <2>6 DEF TypeOK, ReaderTypes, ReadCalled, ReadFails, PipeReadErr
    <3> QED
      BY <2>6, <3>1, UnchangedTypes DEF TypeOK, ReadCalled, ReadFails
  <2>7. ASSUME NEW i \in Msgs, NEW n \in 1 .. ReadMax, Transfer(i, n) PROVE TypeOK'
    <3>1. PICK count \in 1 .. MsgSize - off :
             /\ off' = IF count = MsgSize - off THEN 0 ELSE off + count
             /\ msg' = [msg EXCEPT ![i] = IF count = MsgSize - off THEN "done" ELSE @]
             /\ received' \in Seq(Bytes)
      BY <2>7, TransferAppends
    <3>2. HandlerTypes'
      BY <2>7, <3>1, DataChannelAssumption DEF TypeOK, HandlerTypes, Transfer
    <3>3. ReaderTypes'
      BY <2>7, <3>1 DEF TypeOK, ReaderTypes, Transfer
    <3> QED
      BY <2>7, <3>2, <3>3, UnchangedTypes DEF TypeOK, Transfer
  <2>8. CASE ChannelCloses
    <3>1. ChannelTypes'
      BY <2>8 DEF TypeOK, ChannelTypes, ChannelCloses
    <3>2. CloseTypes'
      BY <2>8 DEF TypeOK, CloseTypes, ChannelCloses
    <3>3. HandlerTypes'
      BY <2>8 DEF TypeOK, HandlerTypes, ChannelCloses
    <3> QED
      BY <2>8, <3>1, <3>2, <3>3, UnchangedTypes DEF TypeOK, ChannelCloses
  <2>9. CASE UNCHANGED vars
    BY <2>9, UnchangedTypes DEF TypeOK, vars
  <2> QED
    BY <2>1, <2>2, <2>3, <2>4, <2>5, <2>6, <2>7, <2>8, <2>9
       DEF Next, Environment, Closing, Handling, Reading, Arriving, Closers
<1> QED
  BY <1>1, <1>2, PTL DEF Spec

-----------------------------------------------------------------------------
(***************************************************************************)
(* The progress of closeWithError.  Users close only what WrapDataChannel  *)
(* returned, so as long as it has not, only OnClose can be the one whose   *)
(* function closeCond.Do runs.                                             *)
(***************************************************************************)
UsersWait == wrap # "returned" => \A u \in Users : caller[u] = "idle"

RunnerCalled ==
  /\ runner = "none" <=> step = "fresh"
  /\ runner # "none" => caller[runner] # "idle"

ErrRecorded ==
  step \in {"signal", "done"} =>
    closeErr = IF runner = "OnClose" THEN "ErrClosedByPeer" ELSE "nil"

FailedOnceDone == wrap = "failed" => step = "done"

OnceOnly == UsersWait /\ RunnerCalled /\ ErrRecorded /\ FailedOnceDone

\* The steps of others leave the progress of closeWithError alone.
LEMMA OnceOnlyUnchanged ==
  ASSUME OnceOnly, UNCHANGED closeVars, UNCHANGED wrap
  PROVE  OnceOnly'
BY DEF OnceOnly, UsersWait, RunnerCalled, ErrRecorded, FailedOnceDone, closeVars

LEMMA ClosedOnce == Spec => []OnceOnly
<1>1. Init => OnceOnly
  BY DEF Init, OnceOnly, UsersWait, RunnerCalled, ErrRecorded, FailedOnceDone, Closers
<1>2. TypeOK /\ OnceOnly /\ [Next]_vars => OnceOnly'
  <2> SUFFICES ASSUME TypeOK, OnceOnly, [Next]_vars PROVE OnceOnly'
    OBVIOUS
  <2> USE DataChannelAssumption
      DEF OnceOnly, UsersWait, RunnerCalled, ErrRecorded, FailedOnceDone
  <2>1. CASE ChannelOpens \/ PeerSends \/ PeerCloses \/ Handling \/ Reading
             \/ OpenSignals \/ (\E i \in Msgs : Deliver(i)) \/ UNCHANGED vars
    <3>1. UNCHANGED closeVars /\ UNCHANGED wrap
      BY <2>1
         DEF ChannelOpens, PeerSends, PeerCloses, Handling, Reading, OpenSignals, Deliver,
             HandlerSkips, HandlerWrites, WriteFails, HandlerCloses, ReadCalled, ReadFails,
             Transfer, vars, wrapVars
    <3> QED
      BY <3>1, OnceOnlyUnchanged
  <2>2. CASE \/ RegisterOnClose \/ RegisterOnOpen \/ RegisterOnMessage
             \/ WrapFails \/ WrapReturns
    BY <2>2 DEF RegisterOnClose, RegisterOnOpen, RegisterOnMessage, WrapFails,
                WrapReturns, closeVars
  <2>3. ASSUME NEW c \in Closers, UserCloses(c) \/ DoStarts(c) \/ CloseReturns(c)
        PROVE  OnceOnly'
    <3>1. CASE UserCloses(c)
      BY <2>3, <3>1 DEF UserCloses, TypeOK, CloseTypes, wrapVars
    <3>2. CASE DoStarts(c)
      BY <2>3, <3>2 DEF DoStarts, TypeOK, CloseTypes, Closers, wrapVars
    <3>3. CASE CloseReturns(c)
      BY <2>3, <3>3 DEF CloseReturns, TypeOK, CloseTypes, wrapVars
    <3> QED
      BY <2>3, <3>1, <3>2, <3>3
  <2>4. CASE \/ CloseReader \/ CloseWriter \/ CloseChannel \/ RecordCloseErr
             \/ SignalClosed
    BY <2>4 DEF CloseReader, CloseWriter, CloseChannel, RecordCloseErr, SignalClosed,
                wrapVars
  <2>5. CASE ChannelCloses
    BY <2>5 DEF ChannelCloses, TypeOK, CloseTypes, Closers, wrapVars
  <2> QED
    BY <2>1, <2>2, <2>3, <2>4, <2>5
       DEF Next, Environment, Wrapping, Closing, Arriving, Closers
<1> QED
  BY <1>1, <1>2, TypeCorrect, PTL DEF Spec

\* When WrapDataChannel fails, its error is ErrClosedByPeer, which Conn.Accept
\* skips; it is recorded before closeCond is signalled.
THEOREM WrapFailsRecognizably == Spec => []WrapErrorIsClosedByPeer
<1>1. TypeOK /\ OnceOnly => WrapErrorIsClosedByPeer
  BY DataChannelAssumption
     DEF OnceOnly, UsersWait, RunnerCalled, ErrRecorded, FailedOnceDone, TypeOK,
         CloseTypes, Closers, WrapErrorIsClosedByPeer
<1> QED
  BY <1>1, TypeCorrect, ClosedOnce, PTL

-----------------------------------------------------------------------------
(***************************************************************************)
(* What a closed pipe, a failed callback or the end of the reader tell of  *)
(* the progress of closeWithError.                                         *)
(***************************************************************************)
PipeByRunner ==
  /\ PipeDone => step # "fresh"
  /\ step \notin {"fresh", "reader"} => rerr

ChannelByRunner ==
  /\ ready = "closing" => step # "fresh"
  /\ caller["OnClose"] # "idle" => ready = "closed"

HandlersFailClosed ==
  /\ rwNil => step = "done"
  /\ \A i \in Msgs : msg[i] = "failed" => PipeDone

ReaderEndsClosed == readErr # "nil" => PipeDone /\ reader = "stopped"

ShutOnly == PipeByRunner /\ ChannelByRunner /\ HandlersFailClosed /\ ReaderEndsClosed

LEMMA ShutByRunner == Spec => []ShutOnly
<1>1. Init => ShutOnly
  BY DEF Init, ShutOnly, PipeByRunner, ChannelByRunner, HandlersFailClosed,
         ReaderEndsClosed, PipeDone, Closers
<1>2. TypeOK /\ ShutOnly /\ [Next]_vars => ShutOnly'
  <2> SUFFICES ASSUME TypeOK, ShutOnly, [Next]_vars PROVE ShutOnly'
    OBVIOUS
  <2> USE DataChannelAssumption
      DEF ShutOnly, PipeByRunner, ChannelByRunner, HandlersFailClosed, ReaderEndsClosed,
          PipeDone, channelVars, closeVars, handlerVars, readerVars
  <2>1. CASE ChannelOpens \/ PeerSends \/ PeerCloses
    BY <2>1 DEF ChannelOpens, PeerSends, PeerCloses, TypeOK, ChannelTypes, HandlerTypes
  <2>2. CASE Wrapping
    BY <2>2 DEF Wrapping, RegisterOnClose, RegisterOnOpen, RegisterOnMessage,
                OpenSignals, WrapFails, WrapReturns
  <2>3. ASSUME NEW u \in Users, UserCloses(u) PROVE ShutOnly'
    BY <2>3 DEF UserCloses, TypeOK, CloseTypes
  <2>4. ASSUME NEW c \in Closers, DoStarts(c) \/ CloseReturns(c) PROVE ShutOnly'
    <3>1. CASE DoStarts(c)
      BY <3>1 DEF DoStarts
    <3>2. CASE CloseReturns(c)
      BY <3>2 DEF CloseReturns, TypeOK, CloseTypes
    <3> QED
      BY <2>4, <3>1, <3>2
  <2>5. CASE \/ CloseReader \/ CloseWriter \/ CloseChannel \/ RecordCloseErr
             \/ SignalClosed
    BY <2>5 DEF CloseReader, CloseWriter, CloseChannel, RecordCloseErr, SignalClosed
  <2>6. ASSUME NEW i \in Msgs,
               \/ Deliver(i)
               \/ HandlerSkips(i) \/ HandlerWrites(i) \/ WriteFails(i) \/ HandlerCloses(i)
        PROVE  ShutOnly'
    BY <2>6 DEF Deliver, HandlerSkips, HandlerWrites, WriteFails, HandlerCloses, TypeOK,
                HandlerTypes
  <2>7. CASE ReadCalled \/ ReadFails
    BY <2>7 DEF ReadCalled, ReadFails
  <2>8. ASSUME NEW i \in Msgs, NEW n \in 1 .. ReadMax, Transfer(i, n) PROVE ShutOnly'
    <3>1. /\ UNCHANGED <<channelVars, closeVars, rwNil, readErr>>
          /\ reader = "reading" /\ \A j \in Msgs : msg'[j] = "failed" => msg[j] = "failed"
      BY <2>8 DEF Transfer, TypeOK, HandlerTypes
    <3> QED
      BY <3>1
  <2>9. CASE ChannelCloses
    BY <2>9 DEF ChannelCloses, TypeOK, CloseTypes, HandlerTypes, Closers
  <2>10. CASE UNCHANGED vars
    BY <2>10 DEF vars
  <2> QED
    BY <2>1, <2>2, <2>3, <2>4, <2>5, <2>6, <2>7, <2>8, <2>9, <2>10
       DEF Next, Environment, Closing, Handling, Reading, Arriving
<1> QED
  BY <1>1, <1>2, TypeCorrect, PTL DEF Spec

-----------------------------------------------------------------------------
(***************************************************************************)
(* A native channel whose handlers are in place before its first event.    *)
(* Until the pipe is closed, d messages have been read to their end, the   *)
(* next one has been read up to off, and no later one has a handler yet.   *)
(***************************************************************************)
InOrderUpTo(d) ==
  /\ d \in 0 .. sent
  /\ \A i \in Msgs : msg[i] = "done" <=> i <= d
  /\ \A i \in Busy : i = d + 1
  /\ Len(received) = d * MsgSize + off
  /\ off > 0 => Writing # {}

InTurn == PipeDone \/ \E d \in 0 .. NumMsgs : InOrderUpTo(d)

Sent ==
  /\ \A i \in Msgs : msg[i] = "unsent" <=> i > sent
  /\ \A i \in Msgs : msg[i] = "lost" => ready = "closed"

\* A channel that closed without being cut has handed everything over.
RegularEnd ==
  ready = "closed" =>
    \/ Cut
    \/ /\ peer = "closed" /\ Len(received) = sent * MsgSize
       /\ \A i \in Msgs : msg[i] \in {"unsent", "done"}

Delivery == InTurn /\ Sent /\ RegularEnd /\ ReadsInOrder

\* A channel closes without being cut only when closeCond is still unused.
LEMMA UncutIsFresh ==
  ASSUME TypeOK, OnceOnly, ShutOnly, ready # "closed", ~Cut
  PROVE  step = "fresh" /\ ~PipeDone /\ ready # "closing"
BY DEF OnceOnly, RunnerCalled, ShutOnly, PipeByRunner, ChannelByRunner, Cut, TypeOK,
       CloseTypes, Closers

\* A step that moves no message and uncuts nothing keeps what was delivered.
LEMMA DeliveryUnchanged ==
  ASSUME Delivery, UNCHANGED <<msg, off, received, sent>>,
         PipeDone => PipeDone', ready' = "closed" <=> ready = "closed",
         peer = "closed" => peer' = "closed", Cut => Cut'
  PROVE  Delivery'
<1>1. InTurn'
  BY DEF Delivery, InTurn, InOrderUpTo, Busy, Writing
<1>2. Sent' /\ ReadsInOrder'
  BY DEF Delivery, Sent, ReadsInOrder
<1>3. RegularEnd'
  BY DEF Delivery, RegularEnd
<1> QED
  BY <1>1, <1>2, <1>3 DEF Delivery

\* The next message that gets a handler is the next one in the stream.
LEMMA DeliverNext ==
  ASSUME TypeOK, Delivery, ~Js, HandlersFirst, NEW i \in Msgs, Deliver(i),
         NEW d \in 0 .. NumMsgs, InOrderUpTo(d)
  PROVE  i = d + 1 /\ off = 0 /\ msg' = [msg EXCEPT ![i] = "handler"]
<1>1. /\ msg[i] = "wire" /\ Busy = {} /\ ready # "closed"
      /\ \A j \in OnWire : i <= j
      /\ msg' = [msg EXCEPT ![i] = "handler"]
  BY DEF Deliver, EventsMayFire, ReadLoopFree
<1>2. i > d /\ i \in Nat /\ d \in Nat /\ sent \in Nat /\ i <= sent
  BY <1>1, DataChannelAssumption
     DEF InOrderUpTo, Delivery, Sent, Msgs, TypeOK, ChannelTypes
<1>3. ASSUME d + 1 < i PROVE FALSE
  <2>1. d + 1 \in Msgs /\ d + 1 <= sent
    BY <1>2, <1>3, DataChannelAssumption DEF Msgs
  <2>2. msg[d + 1] \notin {"done", "unsent", "lost", "handler", "writing", "failed"}
    BY <1>1, <1>2, <2>1 DEF InOrderUpTo, Delivery, Sent, Busy
  <2>3. msg[d + 1] = "wire"
    BY <2>1, <2>2 DEF TypeOK, HandlerTypes
  <2> QED
    BY <1>1, <1>2, <1>3, <2>1, <2>3 DEF OnWire
<1>4. ~(off > 0)
  BY <1>1 DEF InOrderUpTo, Busy, Writing
<1> QED
  BY <1>1, <1>2, <1>3, <1>4, DataChannelAssumption DEF TypeOK, HandlerTypes

\* A read takes the next bytes of the stream.
LEMMA TransferNext ==
  ASSUME TypeOK, Delivery, NEW i \in Msgs, NEW n \in 1 .. ReadMax, Transfer(i, n),
         NEW d \in 0 .. NumMsgs, InOrderUpTo(d)
  PROVE  /\ i = d + 1 /\ d + 1 <= sent /\ d \in Nat
         /\ \E count \in 1 .. MsgSize - off :
               /\ off' = IF count = MsgSize - off THEN 0 ELSE off + count
               /\ msg' = [msg EXCEPT ![i] = IF count = MsgSize - off THEN "done" ELSE @]
               /\ Len(received') = d * MsgSize + off + count
         /\ Len(received') \in Len(received) + 1 .. sent * MsgSize
         /\ received' \in Seq(Bytes)
         /\ \A k \in 1 .. Len(received') : received'[k] = k
<1>1. PICK count \in 1 .. MsgSize - off :
         /\ off' = IF count = MsgSize - off THEN 0 ELSE off + count
         /\ msg' = [msg EXCEPT ![i] = IF count = MsgSize - off THEN "done" ELSE @]
         /\ received' \in Seq(Bytes)
         /\ Len(received') = Len(received) + count
         /\ \A k \in 1 .. Len(received) : received'[k] = received[k]
         /\ \A k \in 1 .. count :
               received'[Len(received) + k] = (i - 1) * MsgSize + off + k
  BY TransferAppends
<1>2. /\ i = d + 1 /\ d \in Nat /\ sent \in Nat /\ off \in Nat /\ MsgSize \in Nat
      /\ count \in Nat /\ count <= MsgSize - off /\ d + 1 <= sent /\ count >= 1
  <2>1. msg[i] = "writing" /\ i \in Busy
    BY DEF Transfer, Busy
  <2> QED
    BY <1>1, <2>1, DataChannelAssumption
       DEF InOrderUpTo, Delivery, Sent, TypeOK, ChannelTypes, HandlerTypes, Msgs
<1>3. (i - 1) * MsgSize = d * MsgSize /\ d * MsgSize \in Nat
  BY <1>2
<1>4. (d + 1) * MsgSize = d * MsgSize + MsgSize /\ (d + 1) * MsgSize <= sent * MsgSize
      /\ sent * MsgSize \in Nat
  BY <1>2
<1>5. Len(received) = d * MsgSize + off
  BY DEF InOrderUpTo
<1>6. \A k \in 1 .. Len(received') : received'[k] = k
  <2> SUFFICES ASSUME NEW k \in 1 .. Len(received') PROVE received'[k] = k
    OBVIOUS
  <2>1. CASE k \in 1 .. Len(received)
    BY <1>1, <2>1 DEF Delivery, ReadsInOrder
  <2>2. CASE k \notin 1 .. Len(received)
    <3> DEFINE j == k - Len(received)
    <3>1. j \in 1 .. count /\ Len(received) + j = k
      BY <1>1, <1>2, <1>3, <1>5, <2>2
    <3>2. received'[Len(received) + j] = (i - 1) * MsgSize + off + j
      BY <1>1, <3>1
    <3> HIDE DEF j
    <3>3. (i - 1) * MsgSize + off + j = k
      BY <1>2, <1>3, <1>5, <3>1
    <3> QED
      BY <3>1, <3>2, <3>3
  <2> QED
    BY <2>1, <2>2
<1>7. Len(received') = d * MsgSize + off + count
  BY <1>1, <1>5
<1>8. Len(received') \in Len(received) + 1 .. sent * MsgSize
  BY <1>1, <1>2, <1>3, <1>4, <1>5
<1> QED
  BY <1>1, <1>2, <1>6, <1>7, <1>8

\* What is delivered is the stream, in order, and a channel that closes
\* without being cut has delivered all of it.
LEMMA NativeDelivery ==
  ASSUME ~Js, HandlersFirst
  PROVE  Spec => []Delivery
<1>1. Init => Delivery
  <2> SUFFICES ASSUME Init PROVE Delivery
    OBVIOUS
  <2>1. received = <<>> /\ Len(received) = 0 /\ MsgSize \in Nat /\ 0 * MsgSize = 0
    BY DataChannelAssumption DEF Init
  <2>2. InOrderUpTo(0)
    BY <2>1 DEF InOrderUpTo, Init, Busy, Msgs
  <2>3. Sent /\ RegularEnd /\ ReadsInOrder
    BY <2>1 DEF Sent, RegularEnd, ReadsInOrder, Init, Msgs
  <2> QED
    BY <2>2, <2>3, DataChannelAssumption DEF Delivery, InTurn
<1>2. TypeOK /\ OnceOnly /\ ShutOnly /\ Delivery /\ [Next]_vars => Delivery'
  <2> SUFFICES ASSUME TypeOK, OnceOnly, ShutOnly, Delivery, [Next]_vars
               PROVE  Delivery'
    OBVIOUS
  <2>1. CASE PeerSends
    <3>1. /\ sent \in Nat /\ sent' = sent + 1 /\ sent + 1 \in Msgs /\ ready # "closed"
          /\ msg' = [msg EXCEPT ![sent + 1] = "wire"] /\ msg[sent + 1] = "unsent"
          /\ UNCHANGED <<ready, peer, off, received, rerr, werr>>
      BY <2>1, DataChannelAssumption
         DEF PeerSends, TypeOK, ChannelTypes, Delivery, Sent, Msgs, closeVars, readerVars
    <3>2. Sent' /\ RegularEnd' /\ ReadsInOrder'
      BY <3>1 DEF Delivery, Sent, RegularEnd, ReadsInOrder, TypeOK, HandlerTypes, Msgs
    <3>3. InTurn'
      <4>1. ASSUME NEW d \in 0 .. NumMsgs, InOrderUpTo(d) PROVE InOrderUpTo(d)'
        BY <3>1, <4>1 DEF InOrderUpTo, Busy, Writing, TypeOK, HandlerTypes, Msgs
      <4> QED
        BY <3>1, <4>1 DEF Delivery, InTurn, PipeDone
    <3> QED
      BY <3>2, <3>3 DEF Delivery
  <2>2. ASSUME NEW i \in Msgs, Deliver(i) PROVE Delivery'
    <3>1. /\ UNCHANGED <<ready, peer, sent, off, received, rerr, werr>>
          /\ msg[i] = "wire" /\ ready # "closed"
          /\ msg' = [msg EXCEPT ![i] = "handler"]
      BY <2>2 DEF Deliver, EventsMayFire, channelVars, closeVars, readerVars
    <3>2. Sent' /\ RegularEnd' /\ ReadsInOrder'
      BY <3>1 DEF Delivery, Sent, RegularEnd, ReadsInOrder, TypeOK, HandlerTypes
    <3>3. InTurn'
      <4>1. ASSUME NEW d \in 0 .. NumMsgs, InOrderUpTo(d) PROVE InOrderUpTo(d)'
        <5>1. i = d + 1 /\ off = 0
          BY <2>2, <4>1, DeliverNext
        <5>2. Busy = {}
          BY <2>2 DEF Deliver, ReadLoopFree
        <5> QED
          BY <3>1, <4>1, <5>1, <5>2 DEF InOrderUpTo, Busy, Writing, TypeOK, HandlerTypes
      <4> QED
        BY <3>1, <4>1 DEF Delivery, InTurn, PipeDone
    <3> QED
      BY <3>2, <3>3 DEF Delivery
  <2>3. CASE ChannelCloses
    <3>1. /\ UNCHANGED <<peer, sent, off, received, rerr, werr>>
          /\ ready # "closed" /\ ready' = "closed" /\ Busy = {}
          /\ msg' = [i \in Msgs |-> IF msg[i] = "wire" THEN "lost" ELSE msg[i]]
          /\ ready = "closing" \/ peer = "gone" \/ (peer = "closed" /\ OnWire = {})
      <4>1. /\ UNCHANGED <<peer, sent, off, received, rerr, werr>>
            /\ ready # "closed" /\ ready' = "closed" /\ Busy = {}
        BY <2>3 DEF ChannelCloses, ReadLoopFree, readerVars
      <4>2. msg' = [i \in Msgs |-> IF msg[i] = "wire" THEN "lost" ELSE msg[i]]
        BY <2>3 DEF ChannelCloses, OnWire
      <4>3. ready = "closing" \/ peer = "gone" \/ (peer = "closed" /\ OnWire = {})
        BY <2>3 DEF ChannelCloses
      <4> QED
        BY <4>1, <4>2, <4>3
    <3>2. Cut' <=> Cut
      <4>1. \A u \in Users : caller'[u] = caller[u]
        BY <2>3, DataChannelAssumption DEF ChannelCloses, TypeOK, CloseTypes, Closers
      <4> QED
        BY <3>1, <4>1 DEF Cut
    <3>3. Sent' /\ ReadsInOrder'
      BY <3>1 DEF Delivery, Sent, ReadsInOrder, TypeOK, HandlerTypes
    <3>4. InTurn'
      <4>1. ASSUME NEW d \in 0 .. NumMsgs, InOrderUpTo(d) PROVE InOrderUpTo(d)'
        BY <3>1, <4>1 DEF InOrderUpTo, Busy, Writing, TypeOK, HandlerTypes
      <4> QED
        BY <3>1, <4>1 DEF Delivery, InTurn, PipeDone
    <3>5. RegularEnd'
      <4> SUFFICES ASSUME ~Cut
                   PROVE  /\ peer = "closed" /\ Len(received) = sent * MsgSize
                          /\ \A i \in Msgs : msg'[i] \in {"unsent", "done"}
        BY <3>1, <3>2 DEF RegularEnd
      <4>1. ~PipeDone /\ ready # "closing"
        BY <3>1, UncutIsFresh
      <4>2. peer = "closed" /\ OnWire = {}
        BY <3>1, <4>1 DEF Cut
      <4>3. \A i \in Msgs : msg[i] \in {"unsent", "done"}
        BY <3>1, <4>2 DEF Busy, OnWire, Delivery, Sent, TypeOK, HandlerTypes
      <4>4. PICK d \in 0 .. NumMsgs : InOrderUpTo(d)
        BY <4>1 DEF Delivery, InTurn
      <4>5. d = sent
        <5>1. /\ \A i \in Msgs : i > sent <=> i > d
              /\ sent \in 0 .. NumMsgs /\ d \in 0 .. sent
          <6>1. sent \in 0 .. NumMsgs /\ d \in 0 .. sent
            BY <4>4 DEF InOrderUpTo, TypeOK, ChannelTypes
          <6>2. ASSUME NEW i \in Msgs PROVE i > sent <=> i > d
            <7>1. i \in Nat /\ sent \in Nat /\ d \in Nat
              BY <6>1, DataChannelAssumption DEF Msgs
            <7>2. msg[i] = "unsent" <=> i > sent
              BY DEF Delivery, Sent
            <7>3. msg[i] = "done" <=> i <= d
              BY <4>4 DEF InOrderUpTo
            <7> QED
              BY <4>3, <7>1, <7>2, <7>3
          <6> QED
            BY <6>1, <6>2
        <5>2. ~(d < sent)
          BY <5>1, DataChannelAssumption DEF Msgs
        <5> QED
          BY <5>1, <5>2
      <4>6. off = 0
        BY <4>3, <4>4, DataChannelAssumption
           DEF InOrderUpTo, Writing, TypeOK, HandlerTypes
      <4>7. Len(received) = sent * MsgSize
        BY <4>4, <4>5, <4>6, DataChannelAssumption
           DEF InOrderUpTo, TypeOK, ChannelTypes
      <4> QED
        BY <3>1, <4>2, <4>3, <4>7
    <3> QED
      BY <3>3, <3>4, <3>5 DEF Delivery
  <2>4. ASSUME NEW i \in Msgs,
               HandlerSkips(i) \/ HandlerWrites(i) \/ WriteFails(i) \/ HandlerCloses(i)
        PROVE  Delivery'
    <3>1. /\ UNCHANGED <<ready, peer, sent, received, caller, rerr, werr>>
          /\ msg[i] \in {"handler", "writing", "failed"}
          /\ msg' = [msg EXCEPT ![i] = msg'[i]]
          /\ msg'[i] \in {"done", "writing", "failed"}
      BY <2>4 DEF HandlerSkips, HandlerWrites, WriteFails, HandlerCloses, channelVars,
                  closeVars, readerVars, TypeOK, HandlerTypes
    <3>2. Sent' /\ RegularEnd' /\ ReadsInOrder'
      BY <3>1 DEF Delivery, Sent, RegularEnd, ReadsInOrder, TypeOK, HandlerTypes, Cut
    <3>3. InTurn'
      <4>1. CASE HandlerWrites(i)
        <5>1. ASSUME NEW d \in 0 .. NumMsgs, InOrderUpTo(d) PROVE InOrderUpTo(d)'
          BY <3>1, <4>1, <5>1
             DEF HandlerWrites, InOrderUpTo, Busy, Writing, TypeOK, HandlerTypes
        <5> QED
          BY <3>1, <5>1 DEF Delivery, InTurn, PipeDone
      <4>2. CASE HandlerSkips(i) \/ WriteFails(i) \/ HandlerCloses(i)
        <5>1. PipeDone
          BY <4>2 DEF HandlerSkips, WriteFails, HandlerCloses, ShutOnly,
                      HandlersFailClosed, PipeByRunner, PipeDone
        <5> QED
          BY <3>1, <5>1 DEF InTurn, PipeDone
      <4> QED
        BY <2>4, <4>1, <4>2
    <3> QED
      BY <3>2, <3>3 DEF Delivery
  <2>5. ASSUME NEW i \in Msgs, NEW n \in 1 .. ReadMax, Transfer(i, n) PROVE Delivery'
    <3>1. /\ UNCHANGED <<ready, peer, sent, caller, rerr, werr>>
          /\ ~PipeDone /\ msg[i] = "writing"
      BY <2>5 DEF Transfer, channelVars, closeVars
    <3>2. PICK d \in 0 .. NumMsgs : InOrderUpTo(d)
      BY <3>1 DEF Delivery, InTurn
    <3>3. /\ i = d + 1 /\ d + 1 <= sent /\ d \in Nat
          /\ \A k \in 1 .. Len(received') : received'[k] = k
      BY <2>5, <3>2, TransferNext
    <3>4. PICK count \in 1 .. MsgSize - off :
             /\ off' = IF count = MsgSize - off THEN 0 ELSE off + count
             /\ msg' = [msg EXCEPT ![i] = IF count = MsgSize - off THEN "done" ELSE @]
             /\ Len(received') = d * MsgSize + off + count
      BY <2>5, <3>2, TransferNext
    <3>5. Sent' /\ ReadsInOrder'
      BY <3>1, <3>3, <3>4 DEF Delivery, Sent, ReadsInOrder, TypeOK, HandlerTypes
    <3>6. RegularEnd'
      BY <3>1 DEF Delivery, RegularEnd, Cut
    <3>7. InTurn'
      <4>1. /\ off \in Nat /\ MsgSize \in Nat /\ d * MsgSize \in Nat /\ sent \in Nat
            /\ (d + 1) * MsgSize = d * MsgSize + MsgSize /\ count \in Nat /\ count > 0
            /\ sent <= NumMsgs /\ NumMsgs \in Nat
        BY <3>3, DataChannelAssumption DEF TypeOK, HandlerTypes, ChannelTypes
      <4>2. CASE count = MsgSize - off
        <5>1. off' = 0 /\ msg' = [msg EXCEPT ![i] = "done"]
          BY <3>4, <4>2
        <5>2. Len(received') = (d + 1) * MsgSize + off'
          BY <3>4, <4>1, <4>2, <5>1
        <5>3. \A j \in Msgs : msg'[j] = "done" <=> j <= d + 1
          BY <3>2, <3>3, <5>1 DEF InOrderUpTo, TypeOK, HandlerTypes, Msgs
        <5>4. Busy' = {}
          BY <3>2, <3>3, <5>1 DEF InOrderUpTo, TypeOK, HandlerTypes, Busy
        <5>5. InOrderUpTo(d + 1)'
          BY <3>1, <3>3, <4>1, <5>1, <5>2, <5>3, <5>4 DEF InOrderUpTo
        <5>6. d + 1 \in 0 .. NumMsgs
          BY <3>3, <4>1
        <5> QED
          BY <5>5, <5>6 DEF InTurn
      <4>3. CASE count # MsgSize - off
        <5>1. off' = off + count /\ msg' = msg
          BY <3>4, <4>3 DEF TypeOK, HandlerTypes
        <5>2. Len(received') = d * MsgSize + off'
          BY <3>4, <4>1, <5>1
        <5>3. InOrderUpTo(d)'
          BY <3>1, <3>2, <5>1, <5>2 DEF InOrderUpTo, Busy, Writing
        <5> QED
          BY <5>3 DEF InTurn
      <4> QED
        BY <4>2, <4>3
    <3> QED
      BY <3>5, <3>6, <3>7 DEF Delivery
  <2>6. CASE PeerCloses \/ (\E u \in Users : UserCloses(u))
    <3>1. /\ UNCHANGED <<msg, off, received, sent, ready, rerr, werr>>
          /\ peer = "closed" => peer' = "closed"
      BY <2>6 DEF PeerCloses, UserCloses, channelVars, closeVars, handlerVars, readerVars
    <3>2. Cut => Cut'
      BY <2>6 DEF PeerCloses, UserCloses, channelVars, closeVars, Cut, TypeOK, CloseTypes
    <3> QED
      BY <3>1, <3>2, DeliveryUnchanged DEF PipeDone
  <2>7. CASE Closing
    <3>1. /\ UNCHANGED <<msg, off, received, sent, peer>>
          /\ ready' = "closed" <=> ready = "closed"
          /\ PipeDone => PipeDone'
      BY <2>7 DEF Closing, DoStarts, CloseReturns, CloseReader, CloseWriter, CloseChannel,
                  RecordCloseErr, SignalClosed, channelVars, handlerVars, readerVars,
                  PipeDone
    <3>2. Cut => Cut'
      <4>1. \A u \in Users : caller[u] # "idle" => caller'[u] # "idle"
        <5>1. CASE \E c \in Closers : CloseReturns(c)
          BY <5>1 DEF CloseReturns, TypeOK, CloseTypes, Closers
        <5>2. CASE ~ \E c \in Closers : CloseReturns(c)
          BY <2>7, <5>2 DEF Closing, DoStarts, CloseReader, CloseWriter, CloseChannel,
                            RecordCloseErr, SignalClosed
        <5> QED
          BY <5>1, <5>2
      <4> QED
        BY <3>1, <4>1 DEF Cut
    <3> QED
      BY <3>1, <3>2, DeliveryUnchanged
  <2>8. CASE ChannelOpens \/ Wrapping \/ ReadCalled \/ ReadFails \/ UNCHANGED vars
    <3>1. /\ UNCHANGED <<msg, off, received, sent, peer, caller, rerr, werr>>
          /\ ready' = "closed" <=> ready = "closed"
      BY <2>8 DEF ChannelOpens, Wrapping, RegisterOnClose, RegisterOnOpen,
                  RegisterOnMessage, OpenSignals, WrapFails, WrapReturns, ReadCalled,
                  ReadFails, channelVars, closeVars, handlerVars, readerVars, vars
    <3> QED
      BY <3>1, DeliveryUnchanged DEF PipeDone, Cut
  <2> QED
    BY <2>1, <2>2, <2>3, <2>4, <2>5, <2>6, <2>7, <2>8
       DEF Next, Environment, Handling, Reading, Arriving
<1> QED
  BY <1>1, <1>2, TypeCorrect, ClosedOnce, ShutByRunner, PTL DEF Spec

\* With handlers in place before the first event and callbacks that run one
\* after the other, Read returns the bytes that the peer sent, in order.
THEOREM NativeReadsInOrder ==
  ASSUME ~Js, HandlersFirst
  PROVE  Spec => []ReadsInOrder
<1>1. Delivery => ReadsInOrder
  BY DEF Delivery
<1> QED
  BY <1>1, NativeDelivery, PTL

\* Such a channel implements a byte stream: each step is a step of the stream
\* or leaves it as it is, whatever closes the channel and whenever.
THEOREM NativeRefinement ==
  ASSUME ~Js, HandlersFirst
  PROVE  Spec => ImplementsByteStream
<1>1. Init => Stream!Init
  <2>1. ASSUME Init PROVE sent * MsgSize = 0 /\ received = <<>> /\ ~Cut /\ readErr = "nil"
    BY <2>1, DataChannelAssumption DEF Init, Cut, Closers
  <2> QED
    BY <2>1 DEF Stream!Init
<1>2. TypeOK /\ OnceOnly /\ ShutOnly /\ Delivery /\ [Next]_vars
      => [Stream!Next]_(Stream!vars)
  <2> SUFFICES ASSUME TypeOK, OnceOnly, ShutOnly, Delivery, [Next]_vars
               PROVE  [Stream!Next]_(Stream!vars)
    OBVIOUS
  <2>1. CASE PeerSends
    <3>1. /\ sent' = sent + 1 /\ sent \in Nat /\ MsgSize \in Nat \ {0}
          /\ ready # "closed" /\ peer' = peer
          /\ UNCHANGED <<received, readErr, caller>>
      BY <2>1, DataChannelAssumption
         DEF PeerSends, TypeOK, ChannelTypes, closeVars, readerVars
    <3>2. sent' * MsgSize > sent * MsgSize
      BY <3>1
    <3>3. readErr # "nil" => Cut
      BY <3>1, UncutIsFresh DEF ShutOnly, ReaderEndsClosed
    <3>4. Cut' <=> Cut
      BY <3>1 DEF Cut
    <3> QED
      BY <3>1, <3>2, <3>3, <3>4 DEF Stream!Next, Stream!Write
  <2>2. ASSUME NEW i \in Msgs, NEW n \in 1 .. ReadMax, Transfer(i, n)
        PROVE  [Stream!Next]_(Stream!vars)
    <3>1. /\ UNCHANGED <<peer, sent, caller, readErr>>
          /\ ~PipeDone /\ readErr = "nil"
      BY <2>2 DEF Transfer, channelVars, closeVars, ShutOnly, ReaderEndsClosed
    <3>2. PICK d \in 0 .. NumMsgs : InOrderUpTo(d)
      BY <3>1 DEF Delivery, InTurn
    <3>3. /\ Len(received') \in Len(received) + 1 .. sent * MsgSize
          /\ received' \in Seq(Bytes)
          /\ \A k \in 1 .. Len(received') : received'[k] = k
      BY <2>2, <3>2, TransferNext
    <3>4. received' = [k \in 1 .. Len(received') |-> k]
      BY <3>3
    <3>5. Cut' <=> Cut
      BY <3>1 DEF Cut
    <3> QED
      BY <3>1, <3>3, <3>4, <3>5 DEF Stream!Next, Stream!Read
  <2>3. CASE ReadFails
    <3>1. /\ UNCHANGED <<peer, sent, caller, received>> /\ PipeDone /\ readErr' # "nil"
      BY <2>3 DEF ReadFails, channelVars, closeVars, PipeReadErr
    <3>2. Cut \/ Len(received) = sent * MsgSize
      BY <3>1, UncutIsFresh DEF Delivery, RegularEnd
    <3>3. Cut' <=> Cut
      BY <3>1 DEF Cut
    <3> QED
      BY <3>1, <3>2, <3>3 DEF Stream!Next, Stream!End
  <2>4. CASE PeerCloses \/ (\E u \in Users : UserCloses(u))
    <3>1. UNCHANGED <<sent, received, readErr>>
      BY <2>4 DEF PeerCloses, UserCloses, channelVars, readerVars
    <3>2. Cut' \/ ~Cut
      BY <2>4 DEF PeerCloses, UserCloses, channelVars, closeVars, Cut, TypeOK, CloseTypes
    <3>3. CASE Cut'
      <4>1. Cut' = TRUE
        BY <3>3
      <4> QED
        BY <3>1, <4>1 DEF Stream!Next, Stream!Cut
    <3>4. CASE ~Cut'
      <4>1. Cut' = Cut
        BY <3>2, <3>4 DEF Cut
      <4> QED
        BY <3>1, <4>1 DEF Stream!vars
    <3> QED
      BY <3>3, <3>4
  <2>5. CASE Closing \/ ChannelCloses
    <3>1. UNCHANGED <<sent, received, readErr, peer>>
      BY <2>5 DEF Closing, DoStarts, CloseReturns, CloseReader, CloseWriter, CloseChannel,
                  RecordCloseErr, SignalClosed, ChannelCloses, channelVars, readerVars
    <3>2. \A u \in Users : caller'[u] # "idle" <=> caller[u] # "idle"
      <4>1. CASE \E c \in Closers : CloseReturns(c)
        BY <4>1 DEF CloseReturns, TypeOK, CloseTypes, Closers
      <4>2. CASE ChannelCloses
        BY <4>2, DataChannelAssumption DEF ChannelCloses, TypeOK, CloseTypes, Closers
      <4>3. CASE ~ChannelCloses /\ ~ \E c \in Closers : CloseReturns(c)
        BY <2>5, <4>3 DEF Closing, DoStarts, CloseReader, CloseWriter, CloseChannel,
                          RecordCloseErr, SignalClosed
      <4> QED
        BY <4>1, <4>2, <4>3
    <3>3. Cut' <=> Cut
      BY <3>1, <3>2 DEF Cut
    <3> QED
      BY <3>1, <3>3 DEF Stream!vars
  <2>6. CASE \/ ChannelOpens \/ Wrapping \/ ReadCalled \/ Handling
             \/ (\E i \in Msgs : Deliver(i)) \/ UNCHANGED vars
    <3>1. UNCHANGED <<sent, received, readErr, peer, caller>>
      BY <2>6 DEF ChannelOpens, Wrapping, RegisterOnClose, RegisterOnOpen,
                  RegisterOnMessage, OpenSignals, WrapFails, WrapReturns, ReadCalled,
                  Handling, HandlerSkips, HandlerWrites, WriteFails, HandlerCloses,
                  Deliver, channelVars, closeVars, readerVars, vars
    <3>2. Cut' <=> Cut
      BY <3>1 DEF Cut
    <3> QED
      BY <3>1, <3>2 DEF Stream!vars
  <2> QED
    BY <2>1, <2>2, <2>3, <2>4, <2>5, <2>6
       DEF Next, Environment, Reading, Arriving
<1> QED
  BY <1>1, <1>2, TypeCorrect, ClosedOnce, ShutByRunner, NativeDelivery, PTL
     DEF Spec, ImplementsByteStream, Stream!Spec

-----------------------------------------------------------------------------
(***************************************************************************)
(* Messages stay whole, also in the browser: io.Pipe has one writer at a   *)
(* time, and what was read last is where the message being written is.     *)
(***************************************************************************)
NotSentYet == \A i \in Msgs : i > sent => msg[i] = "unsent"

OneWriter ==
  \/ PipeDone
  \/ /\ \A i, j \in Writing : i = j
     /\ off # 0 => \E i \in Writing :
                      /\ received # <<>>
                      /\ received[Len(received)] = (i - 1) * MsgSize + off

Whole == NotSentYet /\ OneWriter /\ MessagesStayWhole

\* Steps that leave the pipe and the reader alone.
LEMMA WholeUnchanged ==
  ASSUME Whole, UNCHANGED <<received, off, rerr, werr>>, Writing' = Writing, NotSentYet'
  PROVE  Whole'
BY DEF Whole, OneWriter, PipeDone, MessagesStayWhole

LEMMA FirstOfMessage ==
  ASSUME NEW M \in Nat \ {0}, NEW q \in Nat
  PROVE  (q * M) % M = 0
OBVIOUS

LEMMA TransferWhole ==
  ASSUME TypeOK, Whole, NEW i \in Msgs, NEW n \in 1 .. ReadMax, Transfer(i, n)
  PROVE  Whole'
<1> DEFINE first == (i - 1) * MsgSize
<1>1. PICK count \in 1 .. MsgSize - off :
         /\ off' = IF count = MsgSize - off THEN 0 ELSE off + count
         /\ msg' = [msg EXCEPT ![i] = IF count = MsgSize - off THEN "done" ELSE @]
         /\ received' \in Seq(Bytes)
         /\ Len(received') = Len(received) + count
         /\ \A k \in 1 .. Len(received) : received'[k] = received[k]
         /\ \A k \in 1 .. count : received'[Len(received) + k] = first + off + k
  BY TransferAppends
<1>2. /\ msg[i] = "writing" /\ ~PipeDone /\ UNCHANGED <<sent, rerr, werr>>
  BY DEF Transfer, channelVars, closeVars
<1>3. /\ off \in Nat /\ off < MsgSize /\ MsgSize \in Nat \ {0} /\ i - 1 \in Nat
      /\ msg \in [Msgs -> {"unsent", "wire", "lost", "handler", "writing", "failed", "done"}]
      /\ Len(received) \in Nat /\ received \in Seq(Bytes) /\ count \in Nat /\ count >= 1
  BY <1>1, DataChannelAssumption, LenProperties DEF TypeOK, HandlerTypes, ReaderTypes, Msgs
<1>4. first \in Nat /\ first % MsgSize = 0
  BY <1>3, FirstOfMessage
<1>5. NotSentYet'
  BY <1>1, <1>2, <1>3 DEF Whole, NotSentYet
<1>6. i \in Writing /\ \A j \in Writing : j = i
  BY <1>2 DEF Whole, OneWriter, Writing
<1>7. off # 0 => received # <<>> /\ received[Len(received)] = first + off
  BY <1>2, <1>6 DEF Whole, OneWriter
<1>8. OneWriter'
  <2>1. \A j \in Writing' : j = i
    BY <1>1, <1>3, <1>6 DEF Writing
  <2>2. off' # 0 => i \in Writing'
    BY <1>1, <1>2, <1>3 DEF Writing
  <2>3. off' # 0 => received' # <<>> /\ received'[Len(received')] = first + off'
    <3> SUFFICES ASSUME off' # 0
                 PROVE  received' # <<>> /\ received'[Len(received')] = first + off'
      OBVIOUS
    <3> HIDE DEF first
    <3>1. off' = off + count
      BY <1>1
    <3>2. received'[Len(received) + count] = first + off + count
      BY <1>1, <1>3
    <3>3. Len(received') > 0
      BY <1>1, <1>3
    <3> QED
      BY <1>1, <1>3, <1>4, <3>1, <3>2, <3>3
  <2> QED
    BY <2>1, <2>2, <2>3 DEF OneWriter
<1>9. MessagesStayWhole'
  <2> HIDE DEF first
  <2> SUFFICES ASSUME NEW k \in 1 .. Len(received) + count,
                      (received'[k] - 1) % MsgSize # 0
               PROVE  k > 1 /\ received'[k - 1] = received'[k] - 1
    BY <1>1 DEF MessagesStayWhole
  <2>1. CASE k \in 1 .. Len(received)
    <3>1. (received[k] - 1) % MsgSize # 0
      BY <1>1, <2>1
    <3>2. k > 1 /\ received[k - 1] = received[k] - 1
      BY <2>1, <3>1 DEF Whole, MessagesStayWhole
    <3>3. k - 1 \in 1 .. Len(received)
      BY <1>3, <2>1, <3>2
    <3> QED
      BY <1>1, <2>1, <3>2, <3>3
  <2>2. CASE k = Len(received) + 1
    <3>1. received'[k] = first + off + 1
      BY <1>1, <1>3, <2>2
    <3>2. off # 0
      <4> SUFFICES ASSUME off = 0 PROVE FALSE
        OBVIOUS
      <4>1. received'[k] - 1 = first
        BY <1>3, <1>4, <3>1
      <4> QED
        BY <1>4, <4>1
    <3>3. received # <<>> /\ received[Len(received)] = first + off
      BY <1>7, <3>2
    <3>4. Len(received) \in 1 .. Len(received) /\ k - 1 = Len(received) /\ k > 1
      BY <1>3, <2>2, <3>3, EmptySeq
    <3>5. received'[k - 1] = first + off
      BY <1>1, <3>3, <3>4
    <3> QED
      BY <1>3, <1>4, <3>1, <3>4, <3>5
  <2>3. CASE k \in Len(received) + 2 .. Len(received) + count
    <3> DEFINE c == k - Len(received)
    <3>1. c \in 1 .. count /\ c - 1 \in 1 .. count /\ k > 1
          /\ k = Len(received) + c /\ k - 1 = Len(received) + (c - 1)
      BY <1>3, <2>3
    <3> HIDE DEF c
    <3>2. received'[k] = first + off + c
          /\ received'[k - 1] = first + off + (c - 1)
      BY <1>1, <3>1
    <3> QED
      BY <1>3, <1>4, <3>1, <3>2
  <2> QED
    BY <1>3, <2>1, <2>2, <2>3
<1> QED
  BY <1>5, <1>8, <1>9 DEF Whole

\* However many callbacks run at once, in the browser and natively, the bytes
\* of a message are read together.
THEOREM MessagesAreWhole == Spec => []MessagesStayWhole
<1>1. Init => Whole
  <2> SUFFICES ASSUME Init PROVE Whole
    OBVIOUS
  <2>1. NotSentYet
    BY DEF Init, NotSentYet
  <2>2. OneWriter
    BY DEF Init, OneWriter, Writing
  <2>3. Len(received) = 0
    BY DEF Init
  <2> QED
    BY <2>1, <2>2, <2>3 DEF Whole, MessagesStayWhole
<1>2. TypeOK /\ Whole /\ [Next]_vars => Whole'
  <2> SUFFICES ASSUME TypeOK, Whole, [Next]_vars PROVE Whole'
    OBVIOUS
  <2>1. /\ msg \in [Msgs -> {"unsent", "wire", "lost", "handler", "writing", "failed", "done"}]
        /\ NotSentYet /\ sent \in 0 .. NumMsgs /\ NumMsgs \in Nat
    BY DataChannelAssumption DEF TypeOK, HandlerTypes, ChannelTypes, Whole
  <2>2. CASE UNCHANGED <<sent, handlerVars, received, rerr, werr>>
    BY <2>1, <2>2, WholeUnchanged DEF handlerVars, Writing, NotSentYet
  <2>3. CASE \/ ChannelOpens \/ PeerCloses \/ Wrapping \/ ReadCalled \/ ReadFails \/ UNCHANGED vars
             \/ \E u \in Users : UserCloses(u)
             \/ \E c \in Closers : DoStarts(c) \/ CloseReturns(c)
             \/ CloseChannel \/ RecordCloseErr \/ SignalClosed
    BY <2>2, <2>3 DEF ChannelOpens, PeerCloses, Wrapping, ReadCalled, ReadFails, vars, UserCloses,
         DoStarts, CloseReturns, CloseChannel, RecordCloseErr, SignalClosed, RegisterOnClose,
         RegisterOnOpen, RegisterOnMessage, OpenSignals, WrapFails, WrapReturns, channelVars,
         closeVars, readerVars
  <2>4. CASE CloseReader \/ CloseWriter
    BY <2>1, <2>4 DEF CloseReader, CloseWriter, channelVars, handlerVars, readerVars, Whole,
         OneWriter, PipeDone, MessagesStayWhole, NotSentYet
  <2>5. CASE PeerSends
    <3>1. sent' = sent + 1 /\ sent + 1 \in Msgs /\ msg' = [msg EXCEPT ![sent + 1] = "wire"]
          /\ UNCHANGED <<received, off, rerr, werr>>
      BY <2>1, <2>5 DEF PeerSends, Msgs, closeVars, readerVars
    <3>2. msg[sent + 1] = "unsent"
      BY <2>1, <3>1 DEF NotSentYet
    <3>3. Writing' = Writing
      BY <2>1, <3>1, <3>2 DEF Writing
    <3>4. NotSentYet'
      BY <2>1, <3>1 DEF NotSentYet, Msgs
    <3> QED
      BY <3>1, <3>3, <3>4, WholeUnchanged
  <2>6. ASSUME NEW i \in Msgs, Deliver(i) \/ HandlerSkips(i) \/ HandlerCloses(i)
        PROVE  Whole'
    <3>1. UNCHANGED <<sent, received, off, rerr, werr>>
          /\ msg[i] \in {"wire", "handler", "failed"}
          /\ \E m \in {"handler", "lost", "done"} : msg' = [msg EXCEPT ![i] = m]
      BY <2>6 DEF Deliver, HandlerSkips, HandlerCloses, channelVars, closeVars, readerVars
    <3>2. Writing' = Writing
      BY <2>1, <3>1 DEF Writing
    <3>3. NotSentYet'
      BY <2>1, <3>1 DEF NotSentYet
    <3> QED
      BY <3>1, <3>2, <3>3, WholeUnchanged
  <2>7. CASE ChannelCloses
    <3>1. UNCHANGED <<sent, received, off, rerr, werr>>
          /\ msg' = [i \in Msgs |-> IF i \in OnWire THEN "lost" ELSE msg[i]]
      BY <2>7 DEF ChannelCloses, readerVars
    <3>2. Writing' = Writing
      BY <2>1, <3>1 DEF Writing, OnWire
    <3>3. NotSentYet'
      BY <2>1, <3>1 DEF NotSentYet, OnWire
    <3> QED
      BY <3>1, <3>2, <3>3, WholeUnchanged
  <2>8. ASSUME NEW i \in Msgs, HandlerWrites(i) PROVE Whole'
    <3>1. UNCHANGED <<sent, received, off, rerr, werr>> /\ ~PipeDone /\ Writing = {}
          /\ msg[i] = "handler" /\ msg' = [msg EXCEPT ![i] = "writing"]
      BY <2>8 DEF HandlerWrites, channelVars, closeVars, readerVars
    <3>2. off = 0 /\ off' = 0
      BY <3>1 DEF Whole, OneWriter
    <3>3. \A j \in Writing' : j = i
      BY <2>1, <3>1 DEF Writing
    <3>4. OneWriter'
      BY <3>2, <3>3 DEF OneWriter
    <3>5. NotSentYet'
      BY <2>1, <3>1 DEF NotSentYet
    <3> QED
      BY <3>1, <3>4, <3>5 DEF Whole, MessagesStayWhole
  <2>9. ASSUME NEW i \in Msgs, WriteFails(i) PROVE Whole'
    <3>1. UNCHANGED <<sent, received, rerr, werr>> /\ PipeDone
          /\ msg[i] \in {"handler", "writing"} /\ msg' = [msg EXCEPT ![i] = "failed"]
      BY <2>9 DEF WriteFails, channelVars, closeVars, readerVars
    <3> QED
      BY <2>1, <3>1 DEF Whole, OneWriter, NotSentYet, PipeDone, MessagesStayWhole
  <2>10. ASSUME NEW i \in Msgs, NEW n \in 1 .. ReadMax, Transfer(i, n) PROVE Whole'
    BY <2>10, TransferWhole
  <2> QED
    BY <2>3, <2>4, <2>5, <2>6, <2>7, <2>8, <2>9, <2>10
       DEF Next, Environment, Closing, Handling, Reading, Arriving
<1>3. Whole => MessagesStayWhole
  BY DEF Whole
<1> QED
  BY <1>1, <1>2, <1>3, TypeCorrect, PTL DEF Spec
=============================================================================
