------------------------------- MODULE Tunnel -------------------------------
(***************************************************************************)
(* The tunnel over one peer connection, cmd/rtctunnel/cmd_run.go with      *)
(* Conn.Open and Conn.Accept of peer/conn.go.  At the near peer a listener *)
(* for each port takes the connections of local programs and opens a data  *)
(* channel for each; at the far peer acceptRemote takes the channels one   *)
(* after the other, looks up the route, dials the service and joins both.  *)
(*                                                                         *)
(* A channel is named after the program it is opened for.  The transport   *)
(* (SCTP over DTLS over ICE) is external, and what joinConns carries is    *)
(* the business of JoinConns.  Both peers run listeners and an accept loop *)
(* for each connection; what the near peer accepts and the far peer        *)
(* listens for is the mirror image, and left out.                          *)
(***************************************************************************)
EXTENDS Naturals, Sequences, FiniteSets

CONSTANTS
  Programs,         \* bound: connections of local programs
  Ports,            \* remote ports that the near peer routes to
  Tcp, Udp, Bad     \* those that the far peer has a route for, by route type

ASSUME TunnelAssumption ==
  /\ "init" \notin Programs /\ "none" \notin Programs \cup {"init"}
  /\ "none" \notin Ports
  /\ Tcp \subseteq Ports /\ Udp \subseteq Ports /\ Bad \subseteq Ports
  /\ Tcp \cap Udp = {} /\ Tcp \cap Bad = {} /\ Udp \cap Bad = {}

VARIABLES
  net,        \* the connection: up, gone without notice, or closed
  assoc,      \* the transport under the data channels came up
  dead,       \* peers whose process ended by one of these goroutines
  port,       \* the port each program connected to
  local,      \* the connection of each program with its listener
  closed,     \* data channels that were closed by either end
  opened,     \* channels in the order they were created
  arriving,   \* channels the far transport has yet to announce
  callback,   \* the channel whose OnDataChannel callback is running
  incoming,   \* Conn.incoming
  at, cur,    \* acceptRemote: where it is, and the channel it is at
  deaf,       \* cur had closed before WrapDataChannel registered its handlers
  heard,      \* channels whose close event was raised at the far peer
  far         \* what became of each channel at the far peer

nearVars == <<port, local, opened>>
loopVars == <<at, cur, deaf>>
queueVars == <<arriving, callback, incoming>>
vars == <<net, assoc, dead, closed, heard, far, nearVars, loopVars, queueVars>>

Chans  == Programs \cup {"init"}
Routed == Tcp \cup Udp \cup Bad

\* Open creates the channel "rtctunnel:init" before any other.
Init ==
  /\ net = "up" /\ assoc = FALSE /\ dead = {}
  /\ port = [c \in Programs |-> "none"] /\ local = [c \in Programs |-> "none"]
  /\ closed = {} /\ opened = <<"init">>
  /\ arriving = <<"init">> /\ callback = "none" /\ incoming = <<>>
  /\ at = "accept" /\ cur = "none" /\ deaf = FALSE
  /\ heard = {} /\ far = [c \in Chans |-> "none"]

-----------------------------------------------------------------------------
(***************************************************************************)
(* The network.                                                            *)
(***************************************************************************)
AssocUp ==
  /\ net = "up" /\ ~assoc
  /\ assoc' = TRUE
  /\ UNCHANGED <<net, dead, closed, heard, far, nearVars, loopVars, queueVars>>

\* The ICE states disconnected and failed are ignored, closed is not.
NetEnds ==
  /\ net = "up"
  /\ net' \in {"gone", "closed"}
  /\ UNCHANGED <<assoc, dead, closed, heard, far, nearVars, loopVars, queueVars>>

-----------------------------------------------------------------------------
(***************************************************************************)
(* The near peer: localTCPListener, localUDPListener, Conn.Open.           *)
(***************************************************************************)
NearRuns == "near" \notin dead

\* A route of unknown type, a listener that cannot be created, or a failed Accept
\* that is not temporary ends the process.
ListenerFatal ==
  /\ NearRuns
  /\ dead' = dead \cup {"near"}
  /\ UNCHANGED <<net, assoc, closed, heard, far, nearVars, loopVars, queueVars>>

\* A program connects.  The socket of a UDP route counts as its one program.
Connect(c, p) ==
  /\ NearRuns /\ local[c] = "none"
  /\ p \in Udp => \A d \in Programs : port[d] # p
  /\ port' = [port EXCEPT ![c] = p]
  /\ local' = [local EXCEPT ![c] = "backlog"]
  /\ UNCHANGED <<net, assoc, dead, closed, heard, far, opened, loopVars, queueVars>>

\* The listener of a port opens one channel at a time.
ListenerFree(p) == \A d \in Programs : port[d] = p => local[d] # "opening"

CreateChannel(c) ==
  /\ NearRuns /\ local[c] = "backlog" /\ ListenerFree(port[c]) /\ net # "closed"
  /\ local' = [local EXCEPT ![c] = "opening"]
  /\ opened' = Append(opened, c)
  /\ arriving' = Append(arriving, c)
  /\ UNCHANGED <<net, assoc, dead, closed, heard, far, port, loopVars, callback, incoming>>

\* Variant: the listener keeps the program and tries again.
TriesAgain(c) ==
  /\ local' = [local EXCEPT ![c] = "backlog"]
  /\ UNCHANGED dead

\* pc.Open returned an error: a TCP listener goes on, a UDP listener is fatal.
OpenFailed(c) ==
  /\ local' = [local EXCEPT ![c] = "closed"]
  /\ dead' = IF port[c] \in Udp THEN dead \cup {"near"} ELSE dead

CreateFails(c) ==
  /\ NearRuns /\ local[c] = "backlog" /\ ListenerFree(port[c]) /\ net = "closed"
  /\ OpenFailed(c)
  /\ UNCHANGED <<net, assoc, closed, heard, far, port, opened, loopVars, queueVars>>

\* The near end is open as soon as the transport is: it waits for no answer.
OpenReturns(c) ==
  /\ NearRuns /\ local[c] = "opening" /\ assoc
  /\ local' = [local EXCEPT ![c] = "joined"]
  /\ UNCHANGED <<net, assoc, dead, closed, heard, far, port, opened, loopVars, queueVars>>

\* The near end learns of a close by the far peer, or of the whole connection; of
\* the latter only if the transport came up.  Otherwise the library marks the
\* channel as closed but does not raise OnClose.
NearHears(c) == (net = "closed" /\ assoc) \/ (c \in closed /\ net = "up")

WrapFails(c) ==
  /\ NearRuns /\ local[c] = "opening" /\ NearHears(c)
  /\ OpenFailed(c) /\ closed' = closed \cup {c}
  /\ UNCHANGED <<net, assoc, heard, far, port, opened, loopVars, queueVars>>

\* Variant: joinConns closes the local connection only.
LeavesChannelOpen(c) ==
  /\ NearRuns /\ local[c] = "joined"
  /\ local' = [local EXCEPT ![c] = "closed"]
  /\ UNCHANGED <<net, assoc, dead, closed, heard, far, port, opened, loopVars, queueVars>>

\* joinConns ends when either side does, and closes both.
ProgramLeaves(c) ==
  /\ NearRuns /\ local[c] = "joined"
  /\ local' = [local EXCEPT ![c] = "closed"]
  /\ closed' = closed \cup {c}
  /\ UNCHANGED <<net, assoc, dead, heard, far, port, opened, loopVars, queueVars>>

ChannelEnds(c) == local[c] = "joined" /\ NearHears(c) /\ ProgramLeaves(c)

-----------------------------------------------------------------------------
(***************************************************************************)
(* The far peer: OnDataChannel, Conn.Accept, acceptRemote.                 *)
(***************************************************************************)
FarRuns == "far" \notin dead

\* The transport runs one OnDataChannel callback at a time.
Announce ==
  /\ FarRuns /\ net = "up" /\ assoc /\ callback = "none" /\ arriving # <<>>
  /\ callback' = Head(arriving)
  /\ arriving' = Tail(arriving)
  /\ UNCHANGED <<net, assoc, dead, closed, heard, far, nearVars, loopVars, incoming>>

\* Variant: the callback does not block but drops the channel.
PushOrDrop ==
  /\ FarRuns /\ callback # "none"
  /\ incoming' = IF incoming = <<>> THEN <<callback>> ELSE incoming
  /\ callback' = "none"
  /\ UNCHANGED <<net, assoc, dead, closed, heard, far, nearVars, loopVars, arriving>>

Push ==
  /\ FarRuns /\ callback # "none" /\ incoming = <<>>
  /\ incoming' = <<callback>>
  /\ callback' = "none"
  /\ UNCHANGED <<net, assoc, dead, closed, heard, far, nearVars, loopVars, arriving>>

\* A close event, once the callback that announced the channel has returned.
FarHears(c) ==
  /\ FarRuns /\ c \notin heard /\ (net = "closed" \/ (c \in closed /\ net = "up"))
  /\ \E i \in 1 .. Len(opened) : opened[i] = c
  /\ c # callback /\ \A i \in 1 .. Len(arriving) : arriving[i] # c
  /\ heard' = heard \cup {c}
  /\ UNCHANGED <<net, assoc, dead, closed, far, nearVars, loopVars, queueVars>>

Take ==
  /\ FarRuns /\ at = "accept" /\ incoming # <<>>
  /\ cur' = Head(incoming) /\ incoming' = Tail(incoming)
  /\ at' = "label"
  /\ UNCHANGED <<net, assoc, dead, closed, heard, far, nearVars, deaf, arriving, callback>>

\* The loop is done with the current channel.
Done(outcome) ==
  /\ far' = [far EXCEPT ![cur] = outcome]
  /\ at' = "accept" /\ cur' = "none"

\* The part of the label after the colon is not a number.
IgnoreLabel ==
  /\ FarRuns /\ at = "label" /\ cur = "init"
  /\ Done("ignored")
  /\ UNCHANGED <<net, assoc, dead, closed, heard, nearVars, deaf, queueVars>>

Wrap ==
  /\ FarRuns /\ at = "label" /\ cur # "init"
  /\ at' = "wrap"
  /\ deaf' = (cur \in heard)
  /\ UNCHANGED <<net, assoc, dead, closed, heard, far, nearVars, cur, queueVars>>

\* Variant: the loop ends on a channel that its peer closed.
PeerClosedEndsLoop ==
  /\ FarRuns /\ at = "wrap" /\ ~deaf /\ cur \in heard
  /\ far' = [far EXCEPT ![cur] = "ignored"]
  /\ at' = "ended" /\ cur' = "none"
  /\ UNCHANGED <<net, assoc, dead, closed, heard, nearVars, deaf, queueVars>>

\* ErrClosedByPeer, the only error (see DataChannel): Accept takes the next.
IgnoreClosed ==
  /\ FarRuns /\ at = "wrap" /\ ~deaf /\ cur \in heard
  /\ Done("ignored")
  /\ UNCHANGED <<net, assoc, dead, closed, heard, nearVars, deaf, queueVars>>

AcceptReturns ==
  /\ FarRuns /\ at = "wrap" /\ ~deaf
  /\ at' = "route"
  /\ UNCHANGED <<net, assoc, dead, closed, heard, far, nearVars, cur, deaf, queueVars>>

\* Variant: a channel to a disallowed port is dropped and not closed.
RefuseSilently ==
  /\ FarRuns /\ at = "route" /\ port[cur] \notin Routed
  /\ Done("refused")
  /\ UNCHANGED <<net, assoc, dead, closed, heard, nearVars, deaf, queueVars>>

Refuse ==
  /\ FarRuns /\ at = "route" /\ port[cur] \notin Routed
  /\ closed' = closed \cup {cur}
  /\ Done("refused")
  /\ UNCHANGED <<net, assoc, dead, heard, nearVars, deaf, queueVars>>

\* add-route stores any type, and the first connection on the route is fatal.
BadType ==
  /\ FarRuns /\ at = "route" /\ port[cur] \in Bad
  /\ dead' = dead \cup {"far"}
  /\ UNCHANGED <<net, assoc, closed, heard, far, nearVars, loopVars, queueVars>>

DialSucceeds ==
  /\ FarRuns /\ at = "route" /\ port[cur] \in Tcp \cup Udp
  /\ Done("joined")
  /\ UNCHANGED <<net, assoc, dead, closed, heard, nearVars, deaf, queueVars>>

\* acceptRemoteTCP closes the channel, does not return, and starts joinConns
\* with a nil connection, whose Close is a panic of the process; whether the
\* close of the channel still gets out is open.
DialFailsTCP ==
  /\ FarRuns /\ at = "route" /\ port[cur] \in Tcp
  /\ closed' \in {closed, closed \cup {cur}}
  /\ dead' = dead \cup {"far"}
  /\ Done("failed")
  /\ UNCHANGED <<net, assoc, heard, nearVars, deaf, queueVars>>

DialFailsUDP ==
  /\ FarRuns /\ at = "route" /\ port[cur] \in Udp
  /\ closed' = closed \cup {cur}
  /\ Done("failed")
  /\ UNCHANGED <<net, assoc, dead, heard, nearVars, deaf, queueVars>>

\* The service closes its connection, or the channel does.
FarEnds(c) ==
  /\ FarRuns /\ far[c] = "joined"
  /\ far' = [far EXCEPT ![c] = "ended"]
  /\ closed' = closed \cup {c}
  /\ UNCHANGED <<net, assoc, dead, heard, nearVars, loopVars, queueVars>>

FarChannelEnds(c) == c \in heard /\ FarEnds(c)

-----------------------------------------------------------------------------
Listening(c) == CreateChannel(c) \/ CreateFails(c) \/ OpenReturns(c) \/ WrapFails(c)

AcceptLoop ==
  \/ Announce \/ Push \/ Take \/ IgnoreLabel \/ Wrap \/ IgnoreClosed \/ AcceptReturns
  \/ Refuse \/ BadType \/ DialSucceeds \/ DialFailsTCP \/ DialFailsUDP

Next ==
  \/ AssocUp \/ NetEnds \/ ListenerFatal \/ AcceptLoop
  \/ \E c \in Programs :
        \/ Listening(c) \/ ProgramLeaves(c) \/ ChannelEnds(c)
        \/ FarHears(c) \/ FarEnds(c) \/ FarChannelEnds(c)
        \/ \E p \in Ports : Connect(c, p)

Spec == Init /\ [][Next]_vars

\* Go runs every goroutine that can go on, and the transport delivers what it
\* has.  Nothing makes a program or a service connect, leave or answer.
FairSpec ==
  /\ Spec /\ WF_vars(AssocUp) /\ WF_vars(AcceptLoop)
  /\ \A c \in Programs :
        /\ WF_vars(Listening(c)) /\ WF_vars(ChannelEnds(c))
        /\ WF_vars(FarHears(c)) /\ WF_vars(FarChannelEnds(c))

-----------------------------------------------------------------------------
(***************************************************************************)
(* Properties.                                                             *)
(***************************************************************************)

NetTypes ==
  /\ net \in {"up", "gone", "closed"} /\ assoc \in BOOLEAN
  /\ dead \subseteq {"near", "far"}
  /\ closed \subseteq Chans /\ heard \subseteq Chans

NearTypes ==
  /\ port \in [Programs -> Ports \cup {"none"}]
  /\ local \in [Programs -> {"none", "backlog", "opening", "joined", "closed"}]
  /\ opened \in Seq(Chans)

FarTypes ==
  /\ arriving \in Seq(Chans)
  /\ callback \in Chans \cup {"none"}
  /\ incoming \in Seq(Chans) /\ Len(incoming) <= 1
  /\ at \in {"accept", "label", "wrap", "route"}
  /\ cur \in Chans \cup {"none"}
  /\ deaf \in BOOLEAN
  /\ far \in [Chans -> {"none", "ignored", "refused", "failed", "joined", "ended"}]

\* Every variable holds a value of its type, and incoming at most one channel.
TypeOK == NetTypes /\ NearTypes /\ FarTypes

\* However long the accept loop is held up, no announced channel is lost or
\* overtaken: those in hand, in incoming, in the blocked callback and in the
\* transport are the last ones opened, in that order, and all those before
\* them were handled.
OneOf(c) == IF c = "none" THEN <<>> ELSE <<c>>
Waiting == OneOf(cur) \o incoming \o OneOf(callback) \o arriving

NoChannelLost ==
  LET handled == Len(opened) - Len(Waiting)
  IN  /\ handled >= 0
      /\ Waiting = SubSeq(opened, handled + 1, Len(opened))
      /\ \A i \in 1 .. handled : far[opened[i]] # "none"
      /\ \A i \in handled + 1 .. Len(opened) : far[opened[i]] = "none"

\* Every program that connects gets its tunnel or is hung up on, one slow
\* channel after the other, unless the connection ended before its transport was
\* up, for then Open waits forever, or the near process ended.
EveryProgramSettles ==
  \A c \in Programs :
     local[c] = "backlog" ~>
        \/ local[c] \in {"joined", "closed"}
        \/ (~assoc /\ net # "up")
        \/ ~NearRuns

\* Every channel that was opened is dealt with by the far peer.  The accept
\* loop stops for good in two cases only: its process ended, or it waits for a
\* channel that was closed before WrapDataChannel registered its handlers.
AcceptLoopGoesOn ==
  \A c \in Programs :
     local[c] = "opening" ~>
        \/ far[c] # "none"
        \/ net # "up" \/ ~FarRuns
        \/ (at = "wrap" /\ deaf)

\* A program whose channel has no service behind it, because its port is not
\* allowed, the dial failed or the service left, is hung up on, as long as the
\* network and both processes last.
DeadEndsAreClosed ==
  \A c \in Programs :
     far[c] \in {"refused", "failed", "ended"} ~>
        local[c] = "closed" \/ net = "gone" \/ ~NearRuns \/ ~FarRuns

\* Conversely a service is let go when its program leaves.
ServicesAreReleased ==
  \A c \in Programs :
     far[c] = "joined" /\ local[c] = "closed" ~>
        far[c] = "ended" \/ net = "gone" \/ ~NearRuns \/ ~FarRuns

\* acceptRemoteTCP warns of a failed dial and closes the channel: whatever
\* programs and services do, the far peer goes on.
FarGoesOn == Bad = {} => FarRuns
=============================================================================
