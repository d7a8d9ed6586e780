---------------------------- MODULE Dispatcher ----------------------------
(***************************************************************************)
(* peer/dispatcher.go: a goroutine takes the connections of a peer.Conn    *)
(* and hands each one to the listener of its port, while users listen,     *)
(* accept and close listeners.                                             *)
(*                                                                         *)
(* Connections are numbered in the order Conn.Accept returns them.  The    *)
(* code between d.mu.Lock and Unlock never blocks, so it is one step.      *)
(***************************************************************************)
EXTENDS Naturals, Sequences

CONSTANTS
  NumConns,   \* bound: connections that arrive
  Ports,
  Listeners,  \* the dispatchListeners that may be made
  Cap,        \* capacity of dispatchListener.pending (16 in the code)
  Reuse       \* TRUE: a port may be listened on, or a listener closed, twice

ASSUME DispatcherAssumption ==
  /\ NumConns \in Nat /\ Cap \in Nat \ {0}
  /\ "none" \notin Ports \cup Listeners
  /\ Reuse \in BOOLEAN

VARIABLES
  dpc,        \* the goroutine: in Conn.Accept, before d.mu.Lock, or in conn.Close
  arrived,    \* connections taken so far; the last one is the current one
  portOf,     \* the port of each connection
  listeners,  \* Dispatcher.listeners
  lport,      \* dispatchListener.port, "none" before Listen
  open,       \* listeners that have not been closed
  pending,    \* dispatchListener.pending
  accepting,  \* listeners on which a goroutine is in Accept
  accepted,   \* what Accept returned, for each listener
  closed      \* connections that the dispatcher closed

dispatchVars == <<dpc, arrived, portOf, closed>>
userVars     == <<lport, open, accepting, accepted>>
vars == <<dispatchVars, userVars, listeners, pending>>

Conns == 1 .. NumConns

Init ==
  /\ dpc = "accept" /\ arrived = 0 /\ closed = {}
  /\ portOf = [c \in Conns |-> "none"]
  /\ listeners = [p \in Ports |-> "none"]
  /\ lport = [l \in Listeners |-> "none"]
  /\ open = {} /\ accepting = {}
  /\ pending = [l \in Listeners |-> <<>>]
  /\ accepted = [l \in Listeners |-> <<>>]

-----------------------------------------------------------------------------
\* Conn.Accept returns a connection; it returns no error (see DataChannel).
ConnArrives ==
  /\ dpc = "accept" /\ arrived < NumConns
  /\ arrived' = arrived + 1
  /\ \E p \in Ports : portOf' = [portOf EXCEPT ![arrived + 1] = p]
  /\ dpc' = "dispatch"
  /\ UNCHANGED <<closed, userVars, listeners, pending>>

Target == listeners[portOf[arrived]]

\* Variant: the queue counts as full one early.
HasRoomForTwo(l) == Len(pending[l]) + 1 < Cap

HasRoom(l) == Len(pending[l]) < Cap

\* Variant: the newest connection goes first.
PushFront(l) == pending' = [pending EXCEPT ![l] = <<arrived>> \o @]

Push(l) == pending' = [pending EXCEPT ![l] = Append(@, arrived)]

Dispatch ==
  /\ dpc = "dispatch" /\ Target # "none" /\ HasRoom(Target)
  /\ Push(Target)
  /\ dpc' = "accept"
  /\ UNCHANGED <<arrived, portOf, closed, userVars, listeners>>

RejectUnlisted ==
  /\ dpc = "dispatch" /\ Target = "none"
  /\ dpc' = "close"
  /\ UNCHANGED <<arrived, portOf, closed, userVars, listeners, pending>>

\* Variant: no default case, the goroutine waits for room.
WaitsWhenFull ==
  /\ dpc = "dispatch" /\ Target # "none" /\ ~HasRoom(Target)
  /\ UNCHANGED vars

\* The default case of the select.
RejectFull ==
  /\ dpc = "dispatch" /\ Target # "none" /\ ~HasRoom(Target)
  /\ dpc' = "close"
  /\ UNCHANGED <<arrived, portOf, closed, userVars, listeners, pending>>

CloseRejected ==
  /\ dpc = "close"
  /\ closed' = closed \cup {arrived}
  /\ dpc' = "accept"
  /\ UNCHANGED <<arrived, portOf, userVars, listeners, pending>>

-----------------------------------------------------------------------------
Listen(l, p) ==
  /\ lport[l] = "none"
  /\ Reuse \/ listeners[p] = "none"
  /\ lport' = [lport EXCEPT ![l] = p]
  /\ open' = open \cup {l}
  /\ listeners' = [listeners EXCEPT ![p] = l]
  /\ UNCHANGED <<dispatchVars, accepting, accepted, pending>>

\* Accept is called on a closed listener as well: nothing tells its caller.
AcceptCalled(l) ==
  /\ lport[l] # "none" /\ l \notin accepting
  /\ accepting' = accepting \cup {l}
  /\ UNCHANGED <<dispatchVars, lport, open, accepted, listeners, pending>>

\* The other case of the select never runs: no code closes dl.closer.
AcceptReturns(l) ==
  /\ l \in accepting /\ pending[l] # <<>>
  /\ accepted' = [accepted EXCEPT ![l] = Append(@, Head(pending[l]))]
  /\ pending' = [pending EXCEPT ![l] = Tail(@)]
  /\ accepting' = accepting \ {l}
  /\ UNCHANGED <<dispatchVars, lport, open, listeners>>

\* Variant: Close empties the queue.
CloseDiscards(l) ==
  /\ lport[l] # "none" /\ (Reuse \/ l \in open)
  /\ open' = open \ {l}
  /\ listeners' = [listeners EXCEPT ![lport[l]] = "none"]
  /\ pending' = [pending EXCEPT ![l] = <<>>]
  /\ UNCHANGED <<dispatchVars, lport, accepting, accepted>>

\* Close deletes the listener of that port, whichever it is.
CloseListener(l) ==
  /\ lport[l] # "none" /\ (Reuse \/ l \in open)
  /\ open' = open \ {l}
  /\ listeners' = [listeners EXCEPT ![lport[l]] = "none"]
  /\ UNCHANGED <<dispatchVars, lport, accepting, accepted, pending>>

-----------------------------------------------------------------------------
Dispatching == Dispatch \/ RejectUnlisted \/ RejectFull \/ CloseRejected

Next ==
  \/ ConnArrives \/ Dispatching
  \/ \E l \in Listeners :
        \/ AcceptCalled(l) \/ AcceptReturns(l) \/ CloseListener(l)
        \/ \E p \in Ports : Listen(l, p)

Spec == Init /\ [][Next]_vars

\* Go runs the goroutine and wakes up those in Accept.  Nothing makes a user
\* call anything.
FairSpec ==
  /\ Spec /\ WF_vars(Dispatching)
  /\ \A l \in Listeners : WF_vars(AcceptReturns(l))

-----------------------------------------------------------------------------
(***************************************************************************)
(* Properties.                                                             *)
(***************************************************************************)

\* Every variable holds a value of its type, and no queue more than Cap.
TypeOK ==
  /\ dpc \in {"accept", "dispatch", "close"}
  /\ arrived \in 0 .. NumConns
  /\ portOf \in [Conns -> Ports \cup {"none"}]
  /\ listeners \in [Ports -> Listeners \cup {"none"}]
  /\ lport \in [Listeners -> Ports \cup {"none"}]
  /\ open \subseteq Listeners /\ accepting \subseteq Listeners
  /\ pending \in [Listeners -> Seq(Conns)]
  /\ \A l \in Listeners : Len(pending[l]) <= Cap
  /\ accepted \in [Listeners -> Seq(Conns)]
  /\ closed \subseteq Conns

\* A listener gets the connections of its own port only, in the order they
\* arrived, none twice, however Listen, Close and the dispatcher interleave.
Taken(l) == accepted[l] \o pending[l]

InOrderOnOwnPort ==
  \A l \in Listeners : \A i \in 1 .. Len(Taken(l)) :
     /\ portOf[Taken(l)[i]] = lport[l]
     /\ i > 1 => Taken(l)[i - 1] < Taken(l)[i]

\* The dispatcher turns a connection away only when no open listener of its
\* port has room for it.
RejectsOnlyUnwanted ==
  [][ dpc = "dispatch" /\ dpc' = "close" =>
        \A l \in open : lport[l] = portOf[arrived] => Len(pending[l]) = Cap ]_vars

\* A listener that nobody accepts from never holds up the dispatcher, which
\* would stop every other port of the peer.
DispatcherNeverBlocks == []<>(dpc = "accept")

\* While every listener is served, as by http.Server, which calls Accept again
\* and again, each connection is accepted or closed at last, even one that was
\* pending when its listener was closed.
Served == \A l \in Listeners : WF_vars(AcceptCalled(l))

EveryConnSettles ==
  Served =>
    \A c \in Conns :
       arrived >= c ~>
          \/ c \in closed
          \/ \E l \in Listeners : \E i \in 1 .. Len(accepted[l]) : accepted[l][i] = c
=============================================================================
