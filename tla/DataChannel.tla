---------------------------- MODULE DataChannel ----------------------------
(***************************************************************************)
(* peer/datachannel.go: one end of a WebRTC data channel wrapped as a      *)
(* net.Conn, with the goroutines that meet in it: WrapDataChannel, the     *)
(* channel's OnOpen, OnMessage and OnClose callbacks, a reader and the     *)
(* callers of Close.                                                       *)
(*                                                                         *)
(* Bytes are numbered by their place in the peer's stream.  The            *)
(* RTCDataChannel under the wrapper and io.Pipe are external: they are     *)
(* modelled from how the code uses them.                                   *)
(***************************************************************************)
EXTENDS Naturals, Sequences

CONSTANTS
  NumMsgs,        \* bound: messages the peer may send
  MsgSize,        \* bytes in each message
  ReadMax,        \* bound: largest buffer passed to Read
  Users,          \* goroutines that may call Close
  Js,             \* TRUE: each callback is started with "go handler()" (webrtc_js.go)
  HandlersFirst   \* TRUE: the handlers are registered before the channel's first event

ASSUME DataChannelAssumption ==
  /\ NumMsgs \in Nat
  /\ MsgSize \in Nat \ {0}
  /\ ReadMax \in Nat \ {0}
  /\ "OnClose" \notin Users /\ "none" \notin Users
  /\ Js \in BOOLEAN
  /\ HandlersFirst \in BOOLEAN

VARIABLES
  ready,      \* readyState of the RTCDataChannel
  peer,       \* the other end: open, closed, or gone with the connection
  sent,       \* messages the peer has sent
  msg,        \* where each message, or the callback that handles it, is
  wrap,       \* WrapDataChannel: the next step it takes, or its outcome
  openTask,   \* the OnOpen callback
  openSig,    \* openCond.C is closed
  caller,     \* each call of closeWithError made by a user or by OnClose
  runner,     \* the caller whose function closeCond.Do runs
  step,       \* progress of closeCond.Do; closeCond.C is closed when "done"
  closeErr,   \* DataChannel.closeErr
  rerr,       \* the pipe's reader was closed
  werr,       \* the pipe's writer was closed
  off,        \* bytes of the message being written that were read already
  rwNil,      \* the OnMessage closure set rw to nil
  reader,     \* the goroutine that calls Read in a loop
  received,   \* the bytes it was given
  readErr     \* the error that ended it

channelVars == <<ready, peer, sent>>
wrapVars    == <<wrap, openTask, openSig>>
closeVars   == <<caller, runner, step, closeErr, rerr, werr>>
handlerVars == <<msg, off, rwNil>>
readerVars  == <<reader, received, readErr>>
vars == <<channelVars, wrapVars, closeVars, handlerVars, readerVars>>

Msgs    == 1 .. NumMsgs
Closers == Users \cup {"OnClose"}
Bytes   == 1 .. NumMsgs * MsgSize

(***************************************************************************)
(* States of the RTCDataChannel and of the handlers registered on it.      *)
(***************************************************************************)
HasOnClose   == wrap # "OnClose"
HasOnOpen    == wrap \notin {"OnClose", "OnOpen"}
HasOnMessage == wrap \notin {"OnClose", "OnOpen", "OnMessage"}

\* When the channel may raise an event.
EventsMayFire == HandlersFirst => HasOnMessage

OnWire  == {i \in Msgs : msg[i] = "wire"}
Busy    == {i \in Msgs : msg[i] \in {"handler", "writing", "failed"}}
Writing == {i \in Msgs : msg[i] = "writing"}

\* A native channel runs OnMessage in its read loop, one message at a time;
\* in the browser each message gets a goroutine.
ReadLoopFree == Js \/ Busy = {}

PipeDone == rerr \/ werr

\* What a Read on a closed io.Pipe returns.
PipeReadErr == IF rerr THEN "ErrClosedPipe" ELSE "EOF"

Init ==
  /\ ready = "connecting" /\ peer = "open" /\ sent = 0
  /\ msg = [i \in Msgs |-> "unsent"] /\ off = 0 /\ rwNil = FALSE
  /\ wrap = "OnClose" /\ openTask = "none" /\ openSig = FALSE
  /\ caller = [c \in Closers |-> "idle"] /\ runner = "none" /\ step = "fresh"
  /\ closeErr = "nil" /\ rerr = FALSE /\ werr = FALSE
  /\ reader = "idle" /\ received = <<>> /\ readErr = "nil"

-----------------------------------------------------------------------------
(***************************************************************************)
(* The channel and its peer.                                               *)
(***************************************************************************)
ChannelOpens ==
  /\ ready = "connecting" /\ EventsMayFire
  /\ ready' = "open"
  /\ openTask' = IF HasOnOpen THEN "sleeping" ELSE openTask
  /\ UNCHANGED <<peer, sent, wrap, openSig, closeVars, handlerVars, readerVars>>

PeerSends ==
  /\ peer = "open" /\ ready \in {"open", "closing"} /\ sent < NumMsgs
  /\ sent' = sent + 1
  /\ msg' = [msg EXCEPT ![sent + 1] = "wire"]
  /\ UNCHANGED <<ready, peer, wrapVars, closeVars, off, rwNil, readerVars>>

PeerCloses ==
  /\ peer = "open"
  /\ peer' \in {"closed", "gone"}
  /\ UNCHANGED <<ready, sent, wrapVars, closeVars, handlerVars, readerVars>>

\* The channel is ordered and reliable: messages arrive in the order sent.
\* One that arrives before OnMessage is registered has no handler.
Deliver(i) ==
  /\ msg[i] = "wire" /\ ready \in {"open", "closing"} /\ EventsMayFire
  /\ \A j \in OnWire : i <= j
  /\ ReadLoopFree
  /\ msg' = [msg EXCEPT ![i] = IF HasOnMessage THEN "handler" ELSE "lost"]
  /\ UNCHANGED <<channelVars, wrapVars, closeVars, off, rwNil, readerVars>>

\* The channel closes once the peer closed it and what it sent has arrived,
\* or at any time after a local close or with a lost connection.
ChannelCloses ==
  /\ ready # "closed" /\ EventsMayFire /\ ReadLoopFree
  /\ \/ ready = "closing"
     \/ peer = "gone"
     \/ peer = "closed" /\ OnWire = {}
  /\ ready' = "closed"
  /\ msg' = [i \in Msgs |-> IF i \in OnWire THEN "lost" ELSE msg[i]]
  /\ caller' = IF HasOnClose THEN [caller EXCEPT !["OnClose"] = "called"] ELSE caller
  /\ UNCHANGED <<peer, sent, wrapVars, runner, step, closeErr, rerr, werr,
                 off, rwNil, readerVars>>

-----------------------------------------------------------------------------
(***************************************************************************)
(* WrapDataChannel.                                                        *)
(***************************************************************************)
RegisterOnClose ==
  /\ wrap = "OnClose"
  /\ wrap' = "OnOpen"
  /\ UNCHANGED <<channelVars, openTask, openSig, closeVars, handlerVars, readerVars>>

\* A native channel that is open already calls the new handler at once; a
\* browser raised its open event before and will not raise it again.
RegisterOnOpen ==
  /\ wrap = "OnOpen"
  /\ wrap' = "OnMessage"
  /\ openTask' = IF ready = "open" /\ ~Js THEN "sleeping" ELSE openTask
  /\ UNCHANGED <<channelVars, openSig, closeVars, handlerVars, readerVars>>

RegisterOnMessage ==
  /\ wrap = "OnMessage"
  /\ wrap' = "waiting"
  /\ UNCHANGED <<channelVars, openTask, openSig, closeVars, handlerVars, readerVars>>

\* The OnOpen callback after its 50ms sleep.
OpenSignals ==
  /\ openTask = "sleeping"
  /\ openTask' = "done"
  /\ openSig' = TRUE
  /\ UNCHANGED <<channelVars, wrap, closeVars, handlerVars, readerVars>>

\* Variant: select waits for openCond only.
WrapFailsOnlyOnceOpen ==
  /\ wrap = "waiting" /\ step = "done" /\ openSig
  /\ wrap' = "failed"
  /\ UNCHANGED <<channelVars, openTask, openSig, closeVars, handlerVars, readerVars>>

WrapFails ==
  /\ wrap = "waiting" /\ step = "done"
  /\ wrap' = "failed"
  /\ UNCHANGED <<channelVars, openTask, openSig, closeVars, handlerVars, readerVars>>

WrapReturns ==
  /\ wrap = "waiting" /\ openSig
  /\ wrap' = "returned"
  /\ UNCHANGED <<channelVars, openTask, openSig, closeVars, handlerVars, readerVars>>

-----------------------------------------------------------------------------
(***************************************************************************)
(* The OnMessage callback for message i: rw.Write, then closeWithError if  *)
(* the write failed.                                                       *)
(***************************************************************************)
\* Variant: the test of rw is dropped, and with it the Write.
HandlerSkipsAnyway(i) ==
  /\ msg[i] = "handler"
  /\ msg' = [msg EXCEPT ![i] = "done"]
  /\ UNCHANGED <<channelVars, wrapVars, closeVars, off, rwNil, readerVars>>

HandlerSkips(i) ==
  /\ msg[i] = "handler" /\ rwNil
  /\ msg' = [msg EXCEPT ![i] = "done"]
  /\ UNCHANGED <<channelVars, wrapVars, closeVars, off, rwNil, readerVars>>

\* Variant: callbacks write side by side.
HandlerWritesAtOnce(i) ==
  /\ msg[i] = "handler" /\ ~PipeDone
  /\ msg' = [msg EXCEPT ![i] = "writing"]
  /\ UNCHANGED <<channelVars, wrapVars, closeVars, off, rwNil, readerVars>>

\* io.Pipe serializes its writers.
HandlerWrites(i) ==
  /\ msg[i] = "handler" /\ ~PipeDone /\ Writing = {}
  /\ msg' = [msg EXCEPT ![i] = "writing"]
  /\ UNCHANGED <<channelVars, wrapVars, closeVars, off, rwNil, readerVars>>

WriteFails(i) ==
  /\ msg[i] \in {"handler", "writing"} /\ PipeDone
  /\ msg' = [msg EXCEPT ![i] = "failed"]
  /\ off' = IF msg[i] = "writing" THEN 0 ELSE off
  /\ UNCHANGED <<channelVars, wrapVars, closeVars, rwNil, readerVars>>

\* Its closeWithError finds closeCond taken and waits until it is done.
HandlerCloses(i) ==
  /\ msg[i] = "failed" /\ step = "done"
  /\ msg' = [msg EXCEPT ![i] = "done"]
  /\ rwNil' = TRUE
  /\ UNCHANGED <<channelVars, wrapVars, closeVars, off, readerVars>>

-----------------------------------------------------------------------------
(***************************************************************************)
(* closeWithError: the first caller runs the function, the others wait.    *)
(***************************************************************************)
UserCloses(u) ==
  /\ wrap = "returned" /\ caller[u] = "idle"
  /\ caller' = [caller EXCEPT ![u] = "called"]
  /\ UNCHANGED <<channelVars, wrapVars, runner, step, closeErr, rerr, werr,
                 handlerVars, readerVars>>

DoStarts(c) ==
  /\ caller[c] = "called" /\ step = "fresh"
  /\ step' = "reader"
  /\ runner' = c
  /\ UNCHANGED <<channelVars, wrapVars, caller, closeErr, rerr, werr,
                 handlerVars, readerVars>>

CloseReader ==
  /\ step = "reader"
  /\ rerr' = TRUE
  /\ step' = "writer"
  /\ UNCHANGED <<channelVars, wrapVars, caller, runner, closeErr, werr,
                 handlerVars, readerVars>>

CloseWriter ==
  /\ step = "writer"
  /\ werr' = TRUE
  /\ step' = "channel"
  /\ UNCHANGED <<channelVars, wrapVars, caller, runner, closeErr, rerr,
                 handlerVars, readerVars>>

\* Variant: the channel is closed once its callbacks have returned.
CloseChannelWhenQuiet ==
  /\ step = "channel" /\ Busy = {}
  /\ ready' = IF ready = "open" THEN "closing" ELSE ready
  /\ step' = "record"
  /\ UNCHANGED <<peer, sent, wrapVars, caller, runner, closeErr, rerr, werr,
                 handlerVars, readerVars>>

CloseChannel ==
  /\ step = "channel"
  /\ ready' = IF ready = "open" THEN "closing" ELSE ready
  /\ step' = "record"
  /\ UNCHANGED <<peer, sent, wrapVars, caller, runner, closeErr, rerr, werr,
                 handlerVars, readerVars>>

\* Variant: "if err == nil" is dropped, the last Close decides.
RecordLastErr ==
  /\ step = "record"
  /\ closeErr' = "nil"
  /\ step' = "signal"
  /\ UNCHANGED <<channelVars, wrapVars, caller, runner, rerr, werr,
                 handlerVars, readerVars>>

RecordCloseErr ==
  /\ step = "record"
  /\ closeErr' = IF runner = "OnClose" THEN "ErrClosedByPeer" ELSE "nil"
  /\ step' = "signal"
  /\ UNCHANGED <<channelVars, wrapVars, caller, runner, rerr, werr,
                 handlerVars, readerVars>>

\* close(c.C) in Cond.Do, with which once.Do is over.
SignalClosed ==
  /\ step = "signal"
  /\ step' = "done"
  /\ UNCHANGED <<channelVars, wrapVars, caller, runner, closeErr, rerr, werr,
                 handlerVars, readerVars>>

CloseReturns(c) ==
  /\ caller[c] = "called" /\ step = "done"
  /\ caller' = [caller EXCEPT ![c] = "returned"]
  /\ UNCHANGED <<channelVars, wrapVars, runner, step, closeErr, rerr, werr,
                 handlerVars, readerVars>>

-----------------------------------------------------------------------------
(***************************************************************************)
(* The reader.                                                             *)
(***************************************************************************)
ReadCalled ==
  /\ wrap = "returned" /\ reader = "idle"
  /\ reader' = "reading"
  /\ UNCHANGED <<channelVars, wrapVars, closeVars, handlerVars, received, readErr>>

\* Variant of the transfer below: a short read ends the message.
TransferEndsMessage(i, n) ==
  /\ reader = "reading" /\ msg[i] = "writing" /\ ~PipeDone
  /\ LET count == IF n < MsgSize THEN n ELSE MsgSize
     IN  received' = received \o [k \in 1 .. count |-> (i - 1) * MsgSize + k]
  /\ msg' = [msg EXCEPT ![i] = "done"]
  /\ reader' = "idle"
  /\ UNCHANGED <<channelVars, wrapVars, closeVars, off, rwNil, readErr>>

\* The pipe hands at most n bytes of the message being written to the reader.
Transfer(i, n) ==
  /\ reader = "reading" /\ msg[i] = "writing" /\ ~PipeDone
  /\ LET left  == MsgSize - off
         count == IF n < left THEN n ELSE left
         first == (i - 1) * MsgSize + off
     IN  /\ received' = received \o [k \in 1 .. count |-> first + k]
         /\ off' = IF count = left THEN 0 ELSE off + count
         /\ msg' = [msg EXCEPT ![i] = IF count = left THEN "done" ELSE @]
  /\ reader' = "idle"
  /\ UNCHANGED <<channelVars, wrapVars, closeVars, rwNil, readErr>>

ReadFails ==
  /\ reader = "reading" /\ PipeDone
  /\ reader' = "stopped"
  /\ readErr' = PipeReadErr
  /\ UNCHANGED <<channelVars, wrapVars, closeVars, handlerVars, received>>

-----------------------------------------------------------------------------
Environment ==
  \/ ChannelOpens \/ PeerSends \/ PeerCloses
  \/ \E u \in Users : UserCloses(u)

Wrapping ==
  \/ RegisterOnClose \/ RegisterOnOpen \/ RegisterOnMessage
  \/ OpenSignals \/ WrapFails \/ WrapReturns

Closing ==
  \/ \E c \in Closers : DoStarts(c) \/ CloseReturns(c)
  \/ CloseReader \/ CloseWriter \/ CloseChannel \/ RecordCloseErr \/ SignalClosed

Handling ==
  \E i \in Msgs :
     HandlerSkips(i) \/ HandlerWrites(i) \/ WriteFails(i) \/ HandlerCloses(i)

Reading ==
  \/ ReadCalled \/ ReadFails
  \/ \E i \in Msgs, n \in 1 .. ReadMax : Transfer(i, n)

Arriving == ChannelCloses \/ \E i \in Msgs : Deliver(i)

Next == Environment \/ Wrapping \/ Closing \/ Handling \/ Reading \/ Arriving

Spec == Init /\ [][Next]_vars

\* Every goroutine that can run does, the reader calls Read until it gets an
\* error (io.Copy), and the transport delivers what it has.  Nothing makes a
\* peer or a user act, or a channel open.
Fairness ==
  /\ WF_vars(Wrapping) /\ WF_vars(Closing) /\ WF_vars(Handling)
  /\ WF_vars(Reading) /\ WF_vars(Arriving)

FairSpec == Spec /\ Fairness

-----------------------------------------------------------------------------
(***************************************************************************)
(* Properties.                                                             *)
(***************************************************************************)

ChannelTypes ==
  /\ ready \in {"connecting", "open", "closing", "closed"}
  /\ peer \in {"open", "closed", "gone"}
  /\ sent \in 0 .. NumMsgs

WrapTypes ==
  /\ wrap \in {"OnClose", "OnOpen", "OnMessage", "waiting", "returned", "failed"}
  /\ openTask \in {"none", "sleeping", "done"}
  /\ openSig \in BOOLEAN

CloseTypes ==
  /\ caller \in [Closers -> {"idle", "called", "returned"}]
  /\ runner \in Closers \cup {"none"}
  /\ step \in {"fresh", "reader", "writer", "channel", "record", "signal", "done"}
  /\ closeErr \in {"nil", "ErrClosedByPeer"}
  /\ rerr \in BOOLEAN /\ werr \in BOOLEAN

HandlerTypes ==
  /\ msg \in [Msgs -> {"unsent", "wire", "lost", "handler", "writing", "failed", "done"}]
  /\ off \in 0 .. MsgSize - 1
  /\ rwNil \in BOOLEAN

ReaderTypes ==
  /\ reader \in {"idle", "reading", "stopped"}
  /\ received \in Seq(Bytes)
  /\ readErr \in {"nil", "ErrClosedPipe", "EOF"}

\* Every variable holds a value of its type: in particular the callbacks,
\* Close callers and closeCond only ever reach the states the code has.
TypeOK == ChannelTypes /\ WrapTypes /\ CloseTypes /\ HandlerTypes /\ ReaderTypes

\* What the reader gets is a byte stream: no byte of the peer is skipped,
\* repeated or moved, and Read reports the end only when everything the peer
\* sent was read, unless this side closed or the connection was lost.
Cut == peer = "gone" \/ \E u \in Users : caller[u] # "idle"

Stream == INSTANCE ByteStream WITH
  written <- sent * MsgSize, got <- received, cut <- Cut, ended <- readErr # "nil"

ImplementsByteStream == Stream!Spec

\* The bytes read so far are the first bytes the peer sent.
ReadsInOrder == \A k \in 1 .. Len(received) : received[k] = k

\* The bytes of one message stay together, however many reads take them and
\* however many OnMessage callbacks run at the same time.
MessagesStayWhole ==
  \A k \in 1 .. Len(received) :
     (received[k] - 1) % MsgSize # 0 => k > 1 /\ received[k - 1] = received[k] - 1

\* When WrapDataChannel gives up, the error it returns is the one that
\* Conn.Accept recognizes (errors.Is(err, ErrClosedByPeer)), never the
\* "closed for unknown reasons" of a closeErr that is not recorded yet.
WrapErrorIsClosedByPeer == wrap = "failed" => closeErr = "ErrClosedByPeer"

\* Once anyone starts to close the channel, everyone comes free for good: the
\* callers of Close, the OnClose callback, a blocked Read and every OnMessage
\* callback blocked in rw.Write or in its own closeWithError.
Quiet ==
  /\ step = "done" /\ reader # "reading" /\ Busy = {}
  /\ \A c \in Closers : caller[c] # "called"

CloseReleasesEveryone == step # "fresh" ~> []Quiet

\* A channel that has opened or closed lets WrapDataChannel return.
WrapEnds == ready # "connecting" ~> wrap \in {"returned", "failed"}

\* Whatever the peer sent reaches the reader, unless this side closes or the
\* connection is lost.
EverythingIsRead ==
  \A i \in Msgs :
     msg[i] = "wire" ~> Cut \/ \E k \in 1 .. Len(received) : received[k] = i * MsgSize
=============================================================================
