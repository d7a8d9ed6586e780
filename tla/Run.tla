-------------------------------- MODULE Run --------------------------------
(***************************************************************************)
(* cmd/rtctunnel/cmd_run.go, the run command at several peers: each goes   *)
(* through its routes in their order, opens a connection to the peer at    *)
(* the other end of a route if it has none yet, and waits until it is up   *)
(* before it looks at the next route.                                      *)
(*                                                                         *)
(* Two peers connect when both are in peer.Open for each other (see        *)
(* Handshake); Open has no limit on how long it waits for the other one.   *)
(***************************************************************************)
EXTENDS Integers, Sequences

CONSTANTS
  Peers,     \* public keys
  Zero,      \* the zero value of crypt.Key
  Configs,   \* the routes of each peer (bound: those that TLC looks at)
  Rankings   \* orders in which connections may be listed (bound: likewise)

Routes  == [local : Peers, remote : Peers]
Link(r) == {r.local, r.remote}
Links   == {Link(r) : r \in Routes}

ASSUME RunAssumption ==
  /\ Zero \notin Peers
  /\ Configs \subseteq [Peers -> Seq(Routes)]
  /\ Rankings \subseteq [Links -> Nat]
  /\ \A rank \in Rankings : \A k, m \in Links : rank[k] = rank[m] => k = m

VARIABLES
  routes,    \* cfg.Routes
  at,        \* where the process is: down, routes, open, connecting, ready, ended
  done,      \* the indices of the routes it has looked at
  cur,       \* that of the route it opens a connection for
  conns,     \* the keys of peerConns
  listening  \* the routes for which it started a listener

vars == <<routes, at, done, cur, conns, listening>>

Init ==
  /\ routes \in Configs
  /\ at = [p \in Peers |-> "down"]
  /\ done = [p \in Peers |-> {}] /\ cur = [p \in Peers |-> 0]
  /\ conns = [p \in Peers |-> {}] /\ listening = [p \in Peers |-> {}]

-----------------------------------------------------------------------------
(***************************************************************************)
(* The loop over the routes.                                               *)
(***************************************************************************)
Indices(p) == 1 .. Len(routes[p])

\* The peer at the other end; a route of two others leaves the key zero.
PeerOf(p, i) ==
  LET r == routes[p][i]
  IN  IF r.local = p THEN r.remote ELSE IF r.remote = p THEN r.local ELSE Zero

\* LoadConfig, and the checks of the private key and of the signal channel.
Start(p) ==
  /\ at[p] = "down"
  /\ at' = [at EXCEPT ![p] = "routes"]
  /\ UNCHANGED <<routes, done, cur, conns, listening>>

\* Variants: routes are taken in any order, as from a map of Go, and every one
\* gets a connection of its own.
IsAnyRoute(p, i) == i \in Indices(p) \ done[p]
NeverHasConn(p, i) == FALSE

\* The first route that was not looked at.
IsNext(p, i) == i \in Indices(p) \ done[p] /\ \A j \in 1 .. i - 1 : j \in done[p]

HasConn(p, i) == PeerOf(p, i) \in conns[p]

Looks(p, i) ==
  /\ at[p] = "routes" /\ IsNext(p, i)
  /\ done' = [done EXCEPT ![p] = @ \cup {i}]

\* go localListener, for a route that starts here.
Serve(p, i) ==
  listening' = [listening EXCEPT ![p] = IF routes[p][i].local = p THEN @ \cup {i} ELSE @]

SharesConn(p, i) ==
  /\ Looks(p, i) /\ HasConn(p, i)
  /\ Serve(p, i)
  /\ UNCHANGED <<routes, at, cur, conns>>

CallsOpen(p, i) ==
  /\ Looks(p, i) /\ ~HasConn(p, i)
  /\ at' = [at EXCEPT ![p] = "open"]
  /\ cur' = [cur EXCEPT ![p] = i]
  /\ UNCHANGED <<routes, conns, listening>>

\* select {}
Ready(p) ==
  /\ at[p] = "routes" /\ Indices(p) \subseteq done[p]
  /\ at' = [at EXCEPT ![p] = "ready"]
  /\ UNCHANGED <<routes, done, cur, conns, listening>>

-----------------------------------------------------------------------------
(***************************************************************************)
(* peer.Open.                                                              *)
(***************************************************************************)
Target(p) == PeerOf(p, cur[p])
Waits(p, q) == at[p] = "open" /\ Target(p) = q

\* Offer and answer meet.
Meet(p, q) ==
  /\ p # q /\ Waits(p, q) /\ Waits(q, p)
  /\ at' = [at EXCEPT ![p] = "connecting", ![q] = "connecting"]
  /\ UNCHANGED <<routes, done, cur, conns, listening>>

OpenReturns(p) ==
  /\ at[p] = "connecting"
  /\ conns' = [conns EXCEPT ![p] = @ \cup {Target(p)}]
  /\ Serve(p, cur[p])
  /\ at' = [at EXCEPT ![p] = "routes"]
  /\ UNCHANGED <<routes, done, cur>>

\* log.Fatal: Open failed, a listener did, or the process was killed.
Ends(p) ==
  /\ at[p] \notin {"down", "ended"}
  /\ at' = [at EXCEPT ![p] = "ended"]
  /\ UNCHANGED <<routes, done, cur, conns, listening>>

-----------------------------------------------------------------------------
Goes(p) ==
  \/ Ready(p) \/ OpenReturns(p)
  \/ \E i \in Indices(p) : SharesConn(p, i) \/ CallsOpen(p, i)

Next == \E p \in Peers :
  Start(p) \/ Goes(p) \/ Ends(p) \/ \E q \in Peers : Meet(p, q)

Spec == Init /\ [][Next]_vars

\* A process that can go on does, and two that wait for each other meet.
\* Nothing makes a user start one.
FairSpec ==
  /\ Spec
  /\ \A p \in Peers : WF_vars(Goes(p)) /\ \A q \in Peers : WF_vars(Meet(p, q))

-----------------------------------------------------------------------------
(***************************************************************************)
(* Properties.                                                             *)
(***************************************************************************)

\* Every variable holds a value of its type; a process has looked at the first
\* of its routes, and at the one it opens a connection for.
TypeOK ==
  /\ routes \in [Peers -> Seq(Routes)]
  /\ at \in [Peers -> {"down", "routes", "open", "connecting", "ready", "ended"}]
  /\ done \in [Peers -> SUBSET Nat]
  /\ \A p \in Peers : done[p] \subseteq Indices(p) /\ listening[p] \subseteq done[p]
  /\ \A p \in Peers : \A i \in done[p] : \A j \in 1 .. i : j \in done[p]
  /\ cur \in [Peers -> Nat]
  /\ \A p \in Peers : at[p] \in {"open", "connecting"} => cur[p] \in done[p]
  /\ \A p \in Peers : at[p] = "connecting" => Target(p) \in Peers
  /\ conns \in [Peers -> SUBSET Peers] /\ listening \in [Peers -> SUBSET Nat]

\* Every route is one of the peer's own and leads to another peer, and that one
\* has a route back.
Agreed ==
  \A p \in Peers : \A i \in Indices(p) :
     /\ PeerOf(p, i) \in Peers \ {p}
     /\ \E j \in Indices(PeerOf(p, i)) : PeerOf(PeerOf(p, i), j) = p

\* All peers list their connections in the order of rank.
Follows(rank) ==
  \A p \in Peers : \A i, j \in Indices(p) :
     i < j => rank[Link(routes[p][i])] <= rank[Link(routes[p][j])]

\* Peers that wait for each other, each for one that waits for yet another.
CircularWait ==
  \E S \in SUBSET Peers :
     /\ S # {}
     /\ \A p \in S : \E q \in S : Waits(p, q) /\ ~Waits(q, p)

\* The order of the routes decides: if all peers list their connections in one
\* common order, no waits are ever circular.
NoCircularWait ==
  Agreed /\ (\E rank \in Rankings : Follows(rank)) => ~CircularWait

\* Why: a peer that is waited for, and waits for another one itself, does so for a
\* connection that comes earlier.
WaitsDescend ==
  \A rank \in Rankings : Agreed /\ Follows(rank) =>
     \A p, q, r \in Peers :
        Waits(p, q) /\ Waits(q, r) /\ r # p => rank[{q, r}] < rank[{p, q}]

\* Every process has either come to its end or waits for a connection, some do wait,
\* and no two of them for each other.
Stalled ==
  /\ \A p \in Peers : at[p] \in {"open", "ready"}
  /\ \E p \in Peers : at[p] = "open"
  /\ \A p, q \in Peers : Waits(p, q) => ~Waits(q, p)

\* What is stalled is in circular waits: nobody waits for a peer that has been
\* through all of its routes, or for a connection that the other end already has.
OnlyCircularWaitsStall == Agreed /\ Stalled => CircularWait

\* Nothing else is in the way: unless some process is not there, all of them get
\* through their routes and listen, or their waits are circular.
Serves(p) ==
  at[p] = "ready" /\ listening[p] = {i \in Indices(p) : routes[p][i].local = p}

StallsAreCircular ==
  Agreed => <>[]( \/ \A p \in Peers : Serves(p)
                  \/ \E p \in Peers : at[p] \in {"down", "ended"}
                  \/ CircularWait )
=============================================================================
