# RTCTunnel in TLA+

A verification project for RTCTunnel, which tunnels TCP connections between two
machines through a WebRTC peer connection. The modules in this directory model
the parts of the Go program where goroutines, callbacks and two machines meet,
TLC checks them on small instances, and TLAPS proves the main safety properties
for every value of the constants.

## 1. The system

Two peers know each other's public key. A *signalling channel* (memory, operator
or apprtc) carries one offer and one answer; with them `peer.Open` sets up a
WebRTC connection. For each TCP connection that a local listener accepts, the
run command opens a WebRTC *data channel* labelled with the remote port; at the
other end the channel is accepted, wrapped as a `net.Conn` and joined to a TCP
connection to that port. The browser examples use a `Dispatcher` to listen on
several ports of one peer connection.

    cmd/rtctunnel run ──> peer.Open ──> signal.Send/Recv ──> channels (memory, operator, apprtc)
          │                   │
          │                   └──> RTCPeerConnection (pion, or the browser's)
          └──> Conn.Open / Conn.Accept ──> WrapDataChannel ──> RTCDataChannel
                        │
                        └──> Dispatcher ──> listeners by port

| Component | State | Operations | What is hard | What makes it correct |
|---|---|---|---|---|
| `peer/datachannel.go`, `cond.go` | pipe, `openCond`, `closeCond`, `closeErr` | Wrap, Read, Write, Close, deadlines; callbacks OnOpen, OnMessage, OnClose | callbacks that block in the pipe while a close runs under `once.Do`; events before the handlers are registered; in the browser, one goroutine for each event | the reader sees a byte stream; a close releases everyone; Wrap returns, and with the right error |
| `peer/conn.go` Open | `epoch` of the call, pc, candidates, `iceReady`, `connected`, `closeCond` | both roles of Open, Close, ICE callbacks, timer | signals left over by an earlier call; waits without a limit; callbacks out of order | an answer belongs to the offer; candidates complete; both ends open, or fail |
| `peer/conn.go` Accept/Open of channels | `incoming` (capacity 1) | OnDataChannel, Accept, Open, Close | a slow channel holds up the next; Accept after Close | no announced channel is lost or overtaken; one that is closed early does not stop the loop |
| `peer/dispatcher.go` | `listeners`, `pending` (capacity 16) | the goroutine, Listen, Accept, Close | a close that races an arriving connection; a port that is reused; a full queue | connections reach their own listener, in order; nothing blocks; none is lost |
| `peer/webrtc_*.go` | a promise for each call, handler registrations | adapters of the WebRTC APIs | callbacks in place, or through `go handler()` | — |
| `channels/memory.go` | table of Go channels behind an RWMutex | getChannel, Send, Recv | two goroutines that use a key for the first time | one mailbox for each key |
| `channels/operator` | none (a rendezvous server) | Send, Recv with retries | a retry of what was delivered; a status nobody reads | a message is received at most once; what counts as sent is handed over |
| `channels/apprtc`, `channels.go`, `crypt`, `signal` | none, or written during initialization only | one call each | — | only the owner of a key reads a message |
| `cmd/rtctunnel` run | peer connections by key | listeners, accept loops, `joinConns` | half-closed connections, failed dials, routes opened one after the other | what was written before an end arrives; everything ends together; no circular wait |
| `cmd/rtctunnel` config | one YAML file | load, add route, save | two commands at once; a crash in Save | no route and no key is lost; what loads was saved |

## 2. Plan

Written, in this order:

1. `ByteStream` (abstract) and `DataChannel`: the core, on which every tunnelled byte depends.
2. `OfferAnswer` (abstract) and `Handshake` over mailboxes: the two-peer protocol, with
   failures and repeated calls.
3. `Dispatcher`.
4. `Mailbox` (abstract) and `MemoryChannel`: the channel implements what `Handshake` assumes.
5. `Tunnel`: the listeners, `incoming`, Accept, the accept loop and the dials of one peer
   connection, which may go away.
6. `JoinConns`: one tunnelled connection from application to application; implements
   two `ByteStream`s.
7. `Run`: the order in which several peers open their connections.
8. `Operator`: Send and Recv over a rendezvous server that fails.
9. `ConfigFile`: overlapping commands on one file, with crashes.
10. A module of proofs for each of them; one, `SignallingProofs`, for both signalling
    channels: eight in all.

The modules stand on each other through their properties, not by one big product of
state spaces: `DataChannel` implements `ByteStream`, so `JoinConns` may count bytes and
`Tunnel` may treat a channel as open or closed; `WrapErrorIsClosedByPeer` is why `Tunnel` and
`Dispatcher` give Accept no error; `MemoryChannel` implements the `Mailbox` of `Handshake`;
`Handshake` implements `OfferAnswer`; and `Run` takes from `Handshake` that two peers connect
when both are in `Open`.

Left: `Handshake` over the operator channel, whose messages may be late or lost; and the
safe part of the remaining liveness properties as invariants with proofs (done for
`EveryConnSettles`, `DeadEndsAreClosed`, `ServicesAreReleased` and `StallsAreCircular`).

## 3. The modules and the code

### ByteStream and DataChannel

`ByteStream` says what one direction of a tunnelled connection promises: bytes are
read in the order in which they were written, none skipped or repeated, and the
reader is told of the end only after the last byte, or when the connection was
cut (closed on the reader's side, or lost).

`DataChannel` is one end of a channel:

* `wrap` is the progress of `WrapDataChannel` through its three registrations and its
  `select`; `openTask` and `openSig` are the OnOpen callback and `openCond`.
* `msg[i]` is where message *i* is: on the wire, waiting for its turn in `rw.Write`
  ("handler"), in the pipe ("writing"), in its own `closeWithError` ("failed"), done or
  lost. `off` is how much of the message in the pipe was read: `io.Pipe` hands a
  message over in as many reads as the reader's buffers need.
* `caller`, `runner`, `step` and `closeErr` are `closeWithError` under `closeCond.Do`: the
  first caller runs the function, one action for each of its steps (close the
  reader, close the writer, close the channel, record the error, signal), the
  others wait for it to be over.
* `reader`, `received` and `readErr` are a goroutine that calls Read in a loop, as
  `io.Copy` does.

`Js` says whether callbacks run in place, one after the other (`webrtc_native.go`,
where pion's read loop calls OnMessage), or each in a goroutine of its own
(`webrtc_js.go`, `go handler(...)`). `HandlersFirst` says whether all handlers are
registered before the channel raises its first event. They are for a channel
made by `Conn.Open`, and for an accepted one that its peer leaves alone for a
moment. An accepted channel waits in `incoming` before `WrapDataChannel` sees it,
so in general they need not be.

The RTCDataChannel (ordered and reliable; it runs a handler that is registered
late only for an open event, and only natively) and `io.Pipe` are external.

### OfferAnswer and Handshake

`OfferAnswer` is what two peers get from calling `Open` against each other, whatever fails:
an offer is taken once, and only while the call that made it waits for the answer; an
answer is the one to that offer; a connection comes up only between two calls that hold
each other's descriptions. It has neither signals, candidates nor callbacks. `Negotiation`
in `Handshake` maps the state: `asking` is a call of Lo whose offer Hi may still take,
`reply` the call of Hi that took it and has not failed (its answer is being made, in the
mailbox, or applied), `holds` the remote descriptions, `linked` and `open` the connection.
An offer left over by a failed call needs no place in it: nothing in the code takes one
back, but as Lo cannot leave `recvSignal` without an answer, no call of Lo ends while its
offer is in the mailbox. A call that begins while its signals of an earlier call are under
way would be no step of `OfferAnswer`.

`Handshake` is `peer.Open` at two peers. The public keys are two numbers, ordered as
the strings are; `Offers(p)` is the comparison in `Open` that gives out the roles. A
session description is the number (*epoch*) of the call that made it; an answer
also names the epoch of the offer it replies to. `pc` follows `Open` from call to
call, `ran` is the set of OnICECandidate callbacks that ran (the last one carries the
empty candidate that signals `iceReady`), `mailbox` the signalling channel, `rtc`
the RTCPeerConnection (closed by `closeWithError`, by `Close`, or by ICE). Every
call that can return an error does so in `CallFails`, before it sent anything or
after it took its message (an answerer also before it receives one, when it cannot
make its connection). A failed or closed connection may be opened again,
up to `MaxEpoch` times.

ICE connects two ends that hold each other's current description (`Linked`), which
is how the code relies on it. The one-minute timer may fire whenever `Open`
waits in its last `select`. Where both ends are there, a minute that is too short
counts as a fault, as do failing calls and an ICE "closed" event; `MaxFaults`
bounds them.

### Dispatcher

`Dispatcher` is the goroutine of `NewDispatcher`, with any number of users that call
Listen, Accept and Close. `dpc` is where the goroutine is: in `Conn.Accept`, before
the lock, or in `conn.Close`. The code between `d.mu.Lock` and `Unlock` does not block
(the send to `pending` has a default case), so it is one step. `Cap` is the capacity
of `pending`, 16 in the code. `Reuse` allows a second Listen on a port that has a
listener, and a second Close. `Accept` of the Conn returns no error in the model:
the only errors it would pass on are those of `WrapDataChannel` other than
`ErrClosedByPeer`, and `WrapErrorIsClosedByPeer` (module `DataChannel`) says there are
none.

### Mailbox and MemoryChannel

`Mailbox` is what `Handshake` assumes of a signalling channel. `MemoryChannel` is
`channels/memory.go`: the lookup under RLock, the second lookup and the creation
under Lock, and the send or receive on the Go channel found. Its `box` is the buffer
of the Go channel registered for a key.

### Tunnel

`Tunnel` is one peer connection between a peer with listeners ("near") and the peer
that runs `acceptRemote` ("far"). A data channel is named after the local program it
was opened for; `"init"` is the channel that `Open` creates, which the far loop must
ignore because its label has no port.

* `local` follows a program: in the backlog of its listener, while `Conn.Open` waits for
  the channel, joined, closed. A listener opens one channel at a time, and a UDP
  listener one in all (its failure is fatal).
* `arriving`, `callback`, `incoming`, `cur` are the places of a channel on its way to the loop:
  announced by the transport in order, in the OnDataChannel callback that blocks in
  `conn.incoming <- dc`, in `incoming` (capacity 1), in hand. `at` is where the loop is, and
  `far` what became of each channel.
* `heard` are the close events raised at the far end. `deaf` says that the one of the
  current channel came before `WrapDataChannel` had registered its handlers: Wrap does
  not end then.
* `net` goes from up to "gone" (ICE disconnected or failed, which the code ignores) or
  "closed" (which it does not); `dead` are the processes that ended, by `log.Fatal` or by
  a panic. `ListenerFatal` is every `log.Fatal` of a listener that no program takes part in: a
  route of unknown type, a failed listen, an Accept that fails for good.
* What the transport promises is external. A close by one end, and the close of a
  connection that was up, raise OnClose at the other end (`NearHears`, `FarHears`). The close
  of a connection whose transport never came up raises nothing: the library marks its
  channels as closed and no more, so an `Open` under way waits forever.

Ports are in one of four classes: routed as TCP, as UDP, with a type that is neither
(`Bad`: `AddRoute` stores any), or not routed at the far peer.

### JoinConns

On each side `up` is `io.Copy` from the local connection to the channel, `down` the copy
back, `errs` the errors in `errc`, and `main` the goroutine in `joinConns` with its two
deferred closes, the channel first. Bytes are counted at every stage: written, read,
sent, taken, put, got. TCP is external, with what matters here: half-closed
connections, a bounded receive buffer, and a reset, which drops what was not
read, when a connection is closed with unread input. `DataChannel.Write` is one call
of `dc.Send`, which never blocks. The close of the channel may arrive as soon as the
down copy has taken the last byte from the pipe, and so before that byte is written to
the local connection: the pipe lets the OnMessage callback go when `io.Copy` has read.

The stream to an application is cut (`Cut`) by a reset, once the application ended its own
direction, or once its up copy failed to send what it had read (`SendFailed`).

### Run

`Run` has any number of peers, each with a list of routes. `conns` are the keys of
`peerConns`, `cur` the route whose connection is being opened, `listening` the listeners
started. `Zero` is the zero key that a route between two other peers leaves in
`peerPublicKey`. What becomes of a call of `Open` is reduced to: both ends meet, or one
waits. A process may end in every state, by `log.Fatal` or by a signal.

### Operator

`Operator` has one sender and one receiver at one address, which are two processes, each
with the `url` of its own `operatorChannel`, which `do` rewrites; so may a call at another
address in the same process (`FallbackElsewhere`). A request is a record of the scheme it was made with and its
state at the server (`pub`, `sub`): waiting, or answered with 200, 504 or another
status. A client that gives up leaves its request behind (`oldPubs`, `oldSubs`), where it may
still be matched with a partner. `outcome` is what Send returned. The server is not
part of the repository; the model holds what the client code takes for granted of
it: one POST is handed to one GET, 504 is not a delivery.

### ConfigFile and MCConfigFile

Each process runs one command. `file` is absent, empty (between the truncation and
the write of `ioutil.WriteFile`), whole, torn (part of a text, or one with the end of
another one after it), or mixed: a save that is killed part way over what another command wrote
may leave the start of one text and the end of the other, and the two may make a valid file
that nobody saved (`Mixes`: the cut is in the key pair, in a route, or between two). An
empty or torn JSON file never loads. An empty YAML file loads as an empty
configuration, and a torn one as a prefix or a mix of what was written (`TornLoads`).

`LoadConfig` may fail on any file, since it may be unreadable, or edited by hand and no
longer parse. add-route, info and run then stop; init goes on, and `misled` holds the init
commands that this happened to while the file was whole. `disturbed` records that commands
overlapped or a save did not complete, `patched` that a save stopped part way over
another command's text; some of the properties exclude them.

## 4. What TLC checks

Runs that pass:

| Run | Instance | What it shows |
|---|---|---|
| `datachannel_native` | 2 messages of 3 bytes, buffers of 1 or 2, 2 closers, native, handlers first | the refinement `ImplementsByteStream`; `WrapErrorIsClosedByPeer`; `CloseReleasesEveryone`, `WrapEnds`, `EverythingIsRead` under fairness |
| `datachannel_js` | 3 messages of 2 bytes, 1 closer, browser, late handlers | `MessagesStayWhole`, `CloseReleasesEveryone` |
| `handshake_native` | 3 calls of Open each, 2 candidates, 2 faults | the refinement `ImplementsOfferAnswer`; `AnswerMatchesOffer`, `SendNeverBlocks`, `CandidatesComplete`, `OpensTogether` |
| `dispatcher_safe` | 4 connections, 2 ports, 2 listeners, queues of 2 | `InOrderOnOwnPort`, `RejectsOnlyUnwanted`, `DispatcherNeverBlocks`, `EveryConnSettles` |
| `memory_channel` | 4 goroutines, 2 keys | `ImplementsMailbox` |
| `tunnel_routes` | 2 programs, one port of each class | `NoChannelLost`; under fairness `EveryProgramSettles`, `AcceptLoopGoesOn`, `DeadEndsAreClosed`, `ServicesAreReleased` |
| `join_conns` | 2 bytes one way, 1 byte the other, a receive buffer of 1 | the refinement `ImplementsByteStream` for both directions; `StaysOpen`; `EverythingEnds`, `EverythingArrives` under fairness |
| `operator_faults` | 3 messages, 3 faults, 2 answers 504, servers with and without TLS | `NothingTwice`, `SentIsHandedOver`, `OnlyFailedSendsAreLate`, `FallbackFailsOncePerSide`; `SendMeetsRecv` under fairness |
| `config_file` | 4 commands, 2 routes, JSON and YAML | `KeyIsThere`, `NoDuplicates`, `RoutesStay`, `OnlyInitReplacesKey`, `ReadsWhatWasSaved` |
| `run_order` | 3 peers with 7 lists of routes each, 343 combinations | `NoCircularWait`, `WaitsDescend`, `OnlyCircularWaitsStall`; `StallsAreCircular` under fairness |

The type invariants (`TypeOK`) are proved for every value of the constants (section
5), so the runs leave them out, as all other invariants they check are proved, too.

Runs that end in a counterexample, each about a place where the code does not do
what it says:

| Run | What happens |
|---|---|
| `tunnel_dial` | `acceptRemoteTCP` warns of a failed dial, closes the channel and goes on to `joinConns` with a nil connection: the far process panics (`cmd_run.go:119`; the UDP twin returns) |
| `operator_fallback` | `do` rewrites the url of the channel but repeats the request with the old one, so the first call against a plain HTTP server, as in the README's `operator://localhost:8000`, fails |

### Observations

Further places where the code falls short, found while modelling. The models contain
each of them, and the properties that hold say where they stop:

* *Browser callbacks.* `webrtc_js.go:45` starts a goroutine for each message, so a second
  message may enter the pipe before the first (`ReadsInOrder` holds only for `~Js`);
  what does hold is `MessagesStayWhole`. The candidates of `webrtc_js.go:101` have the same
  problem: a signal may go out incomplete (`CandidatesComplete` needs `~Js`).
* *Late handlers.* A channel waits in `incoming` before `WrapDataChannel` registers its
  handlers. A message that arrives earlier is dropped and the stream goes on with
  the next; a close that comes earlier leaves Wrap, and with it the accept loop,
  waiting forever. `AcceptLoopGoesOn` names that case (`deaf`) as the one besides the end of
  the process.
* *Transports that never come up.* If the connection is closed before its transport was up,
  nothing tells a `Conn.Open` that waits for its channel to open, and its listener waits
  with it. `EveryProgramSettles` leaves the case out.
* *End of a stream.* `closeWithError` closes the reading end of the pipe before the writing
  end, so a regular end reads as `io.ErrClosedPipe`, not as `io.EOF`. `joinConns` ends
  in both cases.
* *Half-closed connections.* `joinConns` ends with the first direction. In `JoinConns` the
  stream *to* an application counts as cut as soon as it shuts down its own
  writing half: a request sent with a half-close loses its answer. And if it sends
  something after the peer closed the channel, the failed send ends `joinConns` as well,
  which closes the local connection while the other copy may still hold the last
  bytes: a server that answers and hangs up can lose the end of its answer to a client
  that is still sending.
* *Open without a limit.* `recvSignal` has no timeout. If the answerer took an offer and
  failed, both peers may end up in it, also when it calls `Open` again. A timeout
  there (`TimerCoversRecv`) would let a late answer meet a new offer, since nothing
  in the messages names the call they belong to.
* *Listeners.* `dispatchListener.Close` deletes by port: a listener that was replaced, or
  is closed twice, takes the port from the one that is open (`Reuse = TRUE`). Nothing
  closes `dispatchListener.closer`, so a blocked Accept stays blocked.
* *Deadlines.* `ContextReadCloser` and `ContextWriteCloser` have value receivers, so a
  deadline is never seen by Read or Write.
* *Invalid routes.* `AddRoute` validates nothing (its comment says it does). A route of an
  unknown type ends the process at the first connection (`BadType`); a route between
  two other peers opens a connection to the zero key, which never comes.
* *Restarts.* A peer that is started again finds its partners in their accept loops: they
  do not open the connection again, and it waits.
* *init.* It takes every error of `LoadConfig` for a missing file (`cmd_init.go:14-15`), so a
  configuration that is there but cannot be read, or no longer parses, is replaced, key
  and routes, though its message asks to remove the file first. `OnlyInitReplacesKey` says
  that nothing else replaces a key pair, and `RoutesStay` leaves these commands out
  (`misled`).
* *YAML and JSON.* A YAML file may load as empty, in part, or as a mix while or after saves
  overlap or are cut off. A JSON file never loads in part; as a mix only if a save was
  killed part way over the text of another command (`ReadsWhatWasSaved`, `patched`).
* *UDP.* The listening socket is handed to `joinConns` unconnected, so what comes back from
  the tunnel cannot be written to it.
* *Documentation.* The README names `apprtc://` as the default signalling channel; the code
  has an operator.

### Bounds, and why they are enough

* `NumMsgs`, `MsgSize`, `ReadMax`: two messages let one wait while the other is in the
  pipe; three bytes read by at most two need a message to be cut twice, at
  different places. Three messages in the browser let two overtake each other in
  any order.
* `Users`: two callers of Close, with OnClose and the handlers, make every order of
  arrival at `closeCond.Do`.
* `MaxEpoch`: with three calls a message could survive a whole call in between;
  `MaxFaults = 2` lets both ends fail, or one fail twice.
* `NumCand`: two candidates and the end mark.
* `NumConns`, `Cap`: queues of two are filled, drained and filled again by four
  connections. Nothing in the code depends on 16.
* `Programs`: two, with `"init"`, put three channels on the way, one more than the loop and
  `incoming` hold, so the callback blocks. One port of each class gives every branch
  of the accept loop; two programs at the same port share its listener.
* `MaxL`, `MaxR`, `SockCap`: the second byte one way is where an end can come between two
  bytes, or find the buffer full; the other way a byte is on its way or not.
* `Operator`: three messages let an abandoned one be overtaken and come late; three
  faults strike the sender, the receiver and the server in one behaviour; two
  waits give each side a 504, or one side two.
* `Procs` in `ConfigFile`: `init`, two overlapping commands that save, and one that reads or
  is killed. Commands are interchangeable, so symmetry is sound; the run's one
  temporal property, `OnlyInitReplacesKey`, is an action formula.
* `Run`: three peers make the shortest circular wait. The seven lists hold both orders of the two
  connections, routes in both directions, a second route over a connection and
  a route of two others; the rankings are all six orders of the connections.
* Checks of deadlock are off: every run ends when the bounds are used up, and
  users may stop to call anything.

### Fairness

Weak fairness is assumed of goroutines that can take a step (the Go scheduler),
of the transport for what was sent, of a reader that reads until it gets an error
(`io.Copy`), and of the events that ICE owes. Nothing makes a user open, close,
listen or accept, and nothing makes a peer send. `EveryConnSettles` assumes in its
own statement (`Served`) that listeners are accepted from again and again, as by
`http.Server` in the example server. `OpensTogether` assumes that nothing fails and that
neither end is waiting in vain already.

In `Tunnel` the accept loop is one goroutine and gets one condition, each listener's
channel another. Programs and services need not leave, nor the network fail; a dial
succeeds or fails, since the operating system bounds it. In `JoinConns` applications that have not closed
read what is there, but need not write, shut down or close. In `Operator` the
server answers a POST and a GET that are both there, and forgets requests whose
client is gone; without that an abandoned GET could swallow every message. In `Run` a started process goes on, but nobody has
to start one, and it may end.

## 5. What is proved

The proof modules are checked by TLAPS from the `ASSUME`s of the modules they extend:
the bounds are naturals, the markers `"none"`, `"init"` and `"OnClose"` are not names of
programs, goroutines, listeners or ports, route types exclude each other, `Lo < Hi`, and
a ranking gives different connections different places. Nothing bounds the
sizes. The type invariant of each modelled component is a theorem (`TypeCorrect`,
`MemoryTypeCorrect`, `OperatorTypeCorrect`), and so is every invariant, action property and
refinement that a passing run checks; liveness stays with TLC.

* **`DataChannelProofs`.** `TypeCorrect` and `WrapFailsRecognizably` hold for native and
  browser channels and for early and late handlers. For the second one the
  invariant (`OnceOnly`) says that users close only what `WrapDataChannel` returned,
  that the caller whose function `closeCond.Do` runs has been called, and that the
  error is recorded before the signal. So a failed Wrap can only have seen the
  close of OnClose.
  `NativeRefinement` (`Spec => ImplementsByteStream`) and `NativeReadsInOrder` assume what
  the code assumes without saying so: callbacks one after the other, and handlers
  in place before the first event. Neither can be left out (see the
  observations). The inductive invariant
  (`Delivery`) says that, until the pipe is closed, the messages read to their end are
  the first *d*, the only one that may have a handler is number *d + 1*, and `d *
  MsgSize + off` bytes were read; and that a channel that closes without being cut
  has handed over everything. The order alone is not inductive, because it does
  not say which message is next. `ShutOnly` adds what a closed pipe tells of the
  progress of `closeWithError`.
  `MessagesAreWhole` needs neither condition: `io.Pipe` has one writer at a time, and
  (`OneWriter`) as long as the pipe is open the last byte read is where the message
  being written stands.
* **`HandshakeProofs`.** `TypeCorrect`, `AnswersMatch`, `SendsDoNotBlock` and
  `CandidatesAreComplete` (the last one for native callbacks). The invariant is
  `Session`: of one session description at most one copy is under way (in the mailbox
  of Hi, held by Hi, or as an answer in the mailbox of Lo), and while it is, Lo is in
  `recvSignal` in the same call. It holds because `recvSignal` cannot be given up. The
  mutant `TimerCoversRecv`, the obvious repair of a wait without a limit, breaks
  `AnswerMatchesOffer`: then a late answer meets a new offer.
  `Refinement` (`Spec => ImplementsOfferAnswer`) takes each action to one step of
  `OfferAnswer`, or to none: a receive to TakeOffer or TakeAnswer, a failure to
  WithdrawOffer, WithdrawAnswer or End, by where the call stood. Besides `Session` it needs
  `Unset`: before a call holds a description it is not connected.
  `OpenConnectionsMatch` is proved of the abstract specification and carried over by the
  refinement: connections that are open at both ends are the same one.
* **`DispatcherProofs`.** `TypeCorrect`, `OnlyUnwantedRejected` (where ports are not
  reused: an open listener is the registered one) and `ListenersTakeInOrder`, which
  needs no such condition. Its invariant says that the registered listener of a port was
  made for it, that an unused listener has taken nothing, and that everything taken
  arrived before the current connection. `ConnectionsAreConserved` is the safe part of
  `EveryConnSettles`: with ports reused or not, each connection that arrived is in exactly one
  of three places, the hands of the dispatcher, `closed`, or the queue or the user of one
  listener.
* **`SignallingProofs`.** It extends `Operator` and takes `MemoryChannel` as the instance
  `Memory`, whose assumption (`"none"` is not a goroutine) its theorems state.
  Memory: `MemoryTypeCorrect`, `OneChannelPerKey` and `MemoryRefinement`
  (`Memory!Spec => Memory!ImplementsMailbox`): goroutines past `getChannel` hold the channel
  registered for their key, no other one holds a message, and so each step puts a
  message in a mailbox, takes one, or changes nothing.
  Operator: `OperatorTypeCorrect`, `NeverTwice`, `SentIsNotLost`, `OthersAreInOrder` and
  `FallbackCostsOneCall`, for any number of messages, faults and 504 answers. None of the
  four invariants is inductive, because a message can be in a request that was
  abandoned, in one that is answered but not read, or in an answer on its way.
  `OperatorInv` follows it there: what goes on at each side (`Control`); a message the server
  has not answered for is in no later place, and no message is in two (`OnePlace`); what
  the server answered for by 200, or another status that Send does not read, was received,
  is in an answer, or was dropped by a fault (`Handed`); only a message whose Send failed
  can come late (`Late`); and each side has at most one call that can still fail by the
  old url (`Schemes`).
* **`TunnelProofs`.** `TypeCorrect` and `NeverLost` (`NoChannelLost`), for any number of
  programs, ports and routes. The invariant says, place by place, that the waiting
  channels are the last ones opened and that a channel was handled exactly if it
  stands before them (`Placed`). It is inductive with `Once`: a channel is opened once, and
  nothing becomes of it before. Each step moves a channel from one
  place to the next, which leaves the sequence `Waiting` alone, takes its first one, or
  adds one at its end; three lemmas treat these cases.
  `OutcomesFitRoutes`, `HalvesAreAlwaysClosed` and `LoopEndsForACause` say how it ends
  (`EndInv`). The near peer chooses the port and the far peer looks up its route, so they
  need `OrderInv`: a channel in hand was opened, and its program does not connect to
  another port meanwhile. `HalvesAreClosed` is the safe part of `DeadEndsAreClosed` and
  `ServicesAreReleased`: an end that is through has closed the channel. Its exception, a
  far process that ended, has two causes only (`LoopEndHasCause`): a route of unknown type or the
  panic of `tunnel_dial`. That is about `acceptRemote`; the listeners end their process for
  reasons of their own.
* **`JoinConnsProofs`.** `AlwaysStaysOpen` and `Refinement` (`Spec => ImplementsByteStream`), on
  `ChainInv` (`BytesComeFromBefore`): in each direction got <= put <= taken <= sent <= read <=
  written, with at most one byte in the hands of a copy. What makes it inductive is
  what an end tells of the other side (`EndsInv`): unless the reader ended first, sent
  something after the channel was closed, or a connection was reset, a copy ends only
  after it has carried everything, and the channel closes only after what was sent.
* **`ConfigFileProofs`.** `KeyIsAlwaysThere`, `NeverTwice`, `RoutesAlwaysStay`, `KeyStaysButForInit` and
  `ReadsOnlyWhatWasSaved`. Without disturbance at most one command is in progress
  (`QuietInv`), and what it holds keeps every route of the file that was acknowledged, unless an
  init was misled (`KeepsInv`). Where the file is JSON and was not patched, or nothing was
  disturbed, every configuration that a command holds has a key and no route twice, since then
  only whole files load (`SoundInv`); a whole JSON file was saved (`SavedInv`). `HistInv` ties the
  histories together: a mixed file was patched, what is patched is disturbed, and only init
  commands are misled.
* **`RunProofs`.** `WaitsAlwaysDescend`, `NeverCircular`, `StallsOnlyCircular` and `NeverStalls`, for
  any number of peers, lists and orders. A peer has a connection for every route before the one it waits for; a
  connection that one end has, or is making, the other one has too, or is making it,
  or it has ended (`LinkInv`). So a peer
  that is waited for waits at an earlier route, hence for an earlier connection, and a
  circular wait would descend forever: the least connection of one (by
  well-foundedness of the naturals) has an earlier one. A peer that is waited for is
  not through with its routes either (`AwaitedIsNotReady`): it would have the connection, and
  then so would the one that waits. So peers that are stalled wait in circles, and with
  one common order they are never stalled (`NeverStalls`): there is no deadlock.

Only model-checked: everything under fairness (`CloseReleasesEveryone`, `WrapEnds`,
`EverythingIsRead`, `OpensTogether`, `DispatcherNeverBlocks`, `EveryConnSettles`,
`EveryProgramSettles`, `AcceptLoopGoesOn`, `DeadEndsAreClosed`, `ServicesAreReleased`,
`EverythingEnds`, `EverythingArrives`, `SendMeetsRecv`, `StallsAreCircular`), which is out of the
prover's reach.

## 6. What is not modelled

* Payloads, encryption, key formats, logging, the text of JSON and YAML, and flag
  parsing. `crypt`, `channels.go`, `main.go` and `cmd.go` have no steps of their own; `signal`
  is part of the signal actions of `Handshake` and of the calls in `Operator`.
* The apprtc channel: one HTTP call or websocket for each operation and no state;
  what it delivers is up to a server that is not part of the repository.
* The promises of `webrtc_js.go` and the calls of pion in `webrtc_native.go`, beyond the way
  they start callbacks.
* `Handshake` over the operator channel: it runs over the in-memory channel, whose `Recv`
  never returns without a message. Crashes of a whole peer in `Handshake`, and two
  calls of `Open` at one peer for the same other key at the same time.
* In `Tunnel`: a channel that breaks while the connection stays up; what joined
  connections carry (`JoinConns`); and the channels that the near peer accepts and the far
  peer opens, the mirror image over the same connection.
  In `JoinConns`: a lost connection, the loss of bytes in a UDP socket and the
  boundaries of its packets.
* Back pressure: `dc.Send` queues without a limit, so nothing in the model fills up.
* The browser examples and local storage: example programs without a protocol of
  their own.
