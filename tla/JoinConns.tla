----------------------------- MODULE JoinConns -----------------------------
(***************************************************************************)
(* cmd/rtctunnel/cmd_run.go, joinConns: one tunnelled connection from end  *)
(* to end.  On each side an application talks TCP to its rtctunnel, whose  *)
(* joinConns copies from the local connection to the data channel ("up")   *)
(* and back ("down"), and closes both when the first copy ends.            *)
(*                                                                         *)
(* DataChannel shows that bytes keep their order on the way, so here they  *)
(* are counted.  TCP and the data channel are external; one that fails on  *)
(* the way is left to Tunnel and DataChannel.                              *)
(***************************************************************************)
EXTENDS Naturals

CONSTANTS
  L, R,       \* the two sides
  MaxL, MaxR, \* bound: bytes each application may write
  SockCap     \* bytes the receive buffer of an application holds

ASSUME JoinConnsAssumption ==
  /\ L # R
  /\ MaxL \in Nat /\ MaxR \in Nat /\ SockCap \in Nat \ {0}

Sides == {L, R}
Other(s) == IF s = L THEN R ELSE L
MaxBytes(s) == IF s = L THEN MaxL ELSE MaxR

VARIABLES
  written,   \* bytes the application wrote to its connection
  app,       \* the application's end: open, shut for writing, or closed
  up,        \* the copy from the local connection to the data channel
  read,      \* bytes it has read
  sent,      \* bytes it has sent
  down,      \* the copy from the data channel to the local connection
  taken,     \* bytes it has taken from the data channel
  put,       \* bytes it has written to the local connection
  errs,      \* errors in errc
  main,      \* the goroutine that called joinConns
  dc,        \* the data channel is open on this side
  reset,     \* the local connection was reset, not closed in an orderly way
  got,       \* bytes the application has read
  ended      \* the application was told that no more bytes will come

appVars  == <<written, app, got, ended>>
upVars   == <<up, read, sent>>
downVars == <<down, taken, put>>
mainVars == <<errs, main, dc>>
vars == <<appVars, upVars, downVars, mainVars, reset>>

Init ==
  /\ written = [s \in Sides |-> 0] /\ app = [s \in Sides |-> "open"]
  /\ up = [s \in Sides |-> "read"]
  /\ read = [s \in Sides |-> 0] /\ sent = [s \in Sides |-> 0]
  /\ down = [s \in Sides |-> "read"]
  /\ taken = [s \in Sides |-> 0] /\ put = [s \in Sides |-> 0]
  /\ errs = [s \in Sides |-> 0] /\ main = [s \in Sides |-> "wait"]
  /\ dc = [s \in Sides |-> TRUE] /\ reset = [s \in Sides |-> FALSE]
  /\ got = [s \in Sides |-> 0] /\ ended = [s \in Sides |-> FALSE]

\* The tunnel has closed its end of the local connection.
LocalClosed(s) == main[s] = "end"

-----------------------------------------------------------------------------
(***************************************************************************)
(* The applications.                                                       *)
(***************************************************************************)
AppWrites(s) ==
  /\ app[s] = "open" /\ ~ended[s] /\ written[s] < MaxBytes(s)
  /\ written' = [written EXCEPT ![s] = @ + 1]
  /\ UNCHANGED <<app, got, ended, upVars, downVars, mainVars, reset>>

AppShutsDown(s) ==
  /\ app[s] = "open"
  /\ app' = [app EXCEPT ![s] = "shut"]
  /\ UNCHANGED <<written, got, ended, upVars, downVars, mainVars, reset>>

\* TCP resets a connection that is closed before all input was read.
AppCloses(s) ==
  /\ app[s] # "closed"
  /\ app' = [app EXCEPT ![s] = "closed"]
  /\ reset' = [reset EXCEPT ![s] = @ \/ got[s] < put[s]]
  /\ UNCHANGED <<written, got, ended, upVars, downVars, mainVars>>

AppReads(s) ==
  /\ app[s] # "closed" /\ ~ended[s] /\ got[s] < put[s]
  /\ got' = [got EXCEPT ![s] = @ + 1]
  /\ UNCHANGED <<written, app, ended, upVars, downVars, mainVars, reset>>

\* After a reset what was not read yet is lost.
AppSeesEnd(s) ==
  /\ app[s] # "closed" /\ ~ended[s] /\ LocalClosed(s)
  /\ reset[s] \/ got[s] = put[s]
  /\ ended' = [ended EXCEPT ![s] = TRUE]
  /\ UNCHANGED <<written, app, got, upVars, downVars, mainVars, reset>>

-----------------------------------------------------------------------------
(***************************************************************************)
(* io.Copy(c2, c1), the local connection to the data channel.              *)
(***************************************************************************)
UpReads(s) ==
  /\ up[s] = "read" /\ ~LocalClosed(s) /\ ~reset[s] /\ read[s] < written[s]
  /\ up' = [up EXCEPT ![s] = "send"]
  /\ read' = [read EXCEPT ![s] = @ + 1]
  /\ UNCHANGED <<appVars, sent, downVars, mainVars, reset>>

\* DataChannel.Write: dc.Send copies the bytes and does not wait.
UpSends(s) ==
  /\ up[s] = "send" /\ dc[s]
  /\ up' = [up EXCEPT ![s] = "read"]
  /\ sent' = [sent EXCEPT ![s] = @ + 1]
  /\ UNCHANGED <<appVars, read, downVars, mainVars, reset>>

\* Variant: the end of the input is noticed before the input was read.
UpEndsEarly(s) ==
  /\ up[s] = "read" /\ app[s] # "open"
  /\ up' = [up EXCEPT ![s] = "exit"]
  /\ UNCHANGED <<appVars, read, sent, downVars, mainVars, reset>>

\* Variant: a moment without input is taken for its end.
UpEndsWhenIdle(s) ==
  /\ up[s] = "read" /\ read[s] = written[s]
  /\ up' = [up EXCEPT ![s] = "exit"]
  /\ UNCHANGED <<appVars, read, sent, downVars, mainVars, reset>>

\* The end of the input, a reset, or a closed connection; or a failed Send.
UpEnds(s) ==
  /\ \/ /\ up[s] = "read"
        /\ \/ LocalClosed(s) \/ reset[s]
           \/ (app[s] # "open" /\ read[s] = written[s])
     \/ up[s] = "send" /\ ~dc[s]
  /\ up' = [up EXCEPT ![s] = "exit"]
  /\ UNCHANGED <<appVars, read, sent, downVars, mainVars, reset>>

-----------------------------------------------------------------------------
(***************************************************************************)
(* io.Copy(c1, c2), the data channel to the local connection.              *)
(***************************************************************************)
DownReads(s) ==
  /\ down[s] = "read" /\ dc[s] /\ taken[s] < sent[Other(s)]
  /\ down' = [down EXCEPT ![s] = "write"]
  /\ taken' = [taken EXCEPT ![s] = @ + 1]
  /\ UNCHANGED <<appVars, upVars, put, mainVars, reset>>

\* TCP takes bytes as long as there is room; an application that has closed
\* answers them with a reset.
DownWrites(s) ==
  /\ down[s] = "write" /\ ~LocalClosed(s) /\ ~reset[s]
  /\ app[s] = "closed" \/ put[s] - got[s] < SockCap
  /\ down' = [down EXCEPT ![s] = "read"]
  /\ put' = [put EXCEPT ![s] = @ + 1]
  /\ reset' = [reset EXCEPT ![s] = app[s] = "closed"]
  /\ UNCHANGED <<appVars, upVars, taken, mainVars>>

DownEnds(s) ==
  /\ \/ down[s] = "read" /\ ~dc[s]
     \/ down[s] = "write" /\ (LocalClosed(s) \/ reset[s])
  /\ down' = [down EXCEPT ![s] = "exit"]
  /\ UNCHANGED <<appVars, upVars, taken, put, mainVars, reset>>

\* The channel closes after the bytes that were sent before were taken from it;
\* the copy may still have to write the last of them.
PeerCloseArrives(s) ==
  /\ dc[s] /\ ~dc[Other(s)] /\ taken[s] = sent[Other(s)]
  /\ dc' = [dc EXCEPT ![s] = FALSE]
  /\ UNCHANGED <<appVars, upVars, downVars, errs, main, reset>>

-----------------------------------------------------------------------------
(***************************************************************************)
(* errc, which has room for both errors, and the deferred calls of Close.  *)
(***************************************************************************)
\* Variant: errc is not buffered, a send waits for the receive.
RoomUnbuffered(s) == main[s] = "wait" /\ errs[s] = 0

Room(s) == errs[s] < 2

Exit(s) ==
  /\ Room(s)
  /\ errs' = [errs EXCEPT ![s] = @ + 1]
  /\ \/ up[s] = "exit" /\ up' = [up EXCEPT ![s] = "done"] /\ UNCHANGED down
     \/ down[s] = "exit" /\ down' = [down EXCEPT ![s] = "done"] /\ UNCHANGED up
  /\ UNCHANGED <<appVars, read, sent, taken, put, main, dc, reset>>

\* Variant: joinConns waits for both copies.
ReturnsAfterBoth(s) ==
  /\ main[s] = "wait" /\ errs[s] = 2
  /\ main' = [main EXCEPT ![s] = "closing"]
  /\ UNCHANGED <<appVars, upVars, downVars, errs, dc, reset>>

Returns(s) ==
  /\ main[s] = "wait" /\ errs[s] > 0
  /\ errs' = [errs EXCEPT ![s] = @ - 1]
  /\ main' = [main EXCEPT ![s] = "closing"]
  /\ UNCHANGED <<appVars, upVars, downVars, dc, reset>>

\* The deferred calls run in reverse: c2, the data channel, goes first.
ClosesRemote(s) ==
  /\ main[s] = "closing"
  /\ dc' = [dc EXCEPT ![s] = FALSE]
  /\ main' = [main EXCEPT ![s] = "closed"]
  /\ UNCHANGED <<appVars, upVars, downVars, errs, reset>>

ClosesLocal(s) ==
  /\ main[s] = "closed"
  /\ main' = [main EXCEPT ![s] = "end"]
  /\ reset' = [reset EXCEPT ![s] = @ \/ read[s] < written[s]]
  /\ UNCHANGED <<appVars, upVars, downVars, errs, dc>>

-----------------------------------------------------------------------------
Apps(s) == AppWrites(s) \/ AppShutsDown(s) \/ AppCloses(s)

Reading(s) == AppReads(s) \/ AppSeesEnd(s)

Copying(s) ==
  \/ UpReads(s) \/ UpSends(s) \/ UpEnds(s)
  \/ DownReads(s) \/ DownWrites(s) \/ DownEnds(s) \/ PeerCloseArrives(s)

Ending(s) == Exit(s) \/ Returns(s) \/ ClosesRemote(s) \/ ClosesLocal(s)

Next == \E s \in Sides : Apps(s) \/ Reading(s) \/ Copying(s) \/ Ending(s)

Spec == Init /\ [][Next]_vars

\* Every goroutine that can go on does, the data channel delivers, and
\* applications that have not closed read what is there.  Nothing makes one
\* write, shut down or close.
FairSpec ==
  /\ Spec
  /\ \A s \in Sides : WF_vars(Reading(s)) /\ WF_vars(Copying(s)) /\ WF_vars(Ending(s))

-----------------------------------------------------------------------------
(***************************************************************************)
(* Properties.                                                             *)
(***************************************************************************)

\* Every variable holds a value of its type, and errc at most two errors.
TypeOK ==
  /\ app \in [Sides -> {"open", "shut", "closed"}]
  /\ written \in [Sides -> Nat] /\ \A s \in Sides : written[s] <= MaxBytes(s)
  /\ got \in [Sides -> Nat] /\ ended \in [Sides -> BOOLEAN]
  /\ up \in [Sides -> {"read", "send", "exit", "done"}]
  /\ read \in [Sides -> Nat] /\ sent \in [Sides -> Nat]
  /\ down \in [Sides -> {"read", "write", "exit", "done"}]
  /\ taken \in [Sides -> Nat] /\ put \in [Sides -> Nat]
  /\ errs \in [Sides -> 0 .. 2]
  /\ main \in [Sides -> {"wait", "closing", "closed", "end"}]
  /\ dc \in [Sides -> BOOLEAN] /\ reset \in [Sides -> BOOLEAN]

\* As long as both applications keep their connections open, the tunnel stays
\* open: no copy ends, and neither side closes anything.
StaysOpen ==
  (\A s \in Sides : app[s] = "open") =>
     \A s \in Sides : main[s] = "wait" /\ dc[s] /\ ~reset[s]

\* The up copy read bytes that the channel, closed by then, did not take.
SendFailed(s) == up[s] \in {"exit", "done"} /\ sent[s] < read[s]

\* From end to end each direction is a byte stream.  It is cut by a reset, and
\* through the reader: when it ends its own direction, even by shutting down
\* only its writing half, or writes once the channel is closed, as its joinConns
\* then returns with bytes that are not yet written to it.  It is never cut
\* because the writer ended: with a reader that stays and is silent everything
\* written before arrives, and then the end.
Cut(s) ==
  app[Other(s)] # "open" \/ SendFailed(Other(s)) \/ \E t \in Sides : reset[t]

Prefix(n) == [k \in 1 .. n |-> k]

FromL == INSTANCE ByteStream WITH
  written <- written[L], got <- Prefix(got[R]), cut <- Cut(L), ended <- ended[R]

FromR == INSTANCE ByteStream WITH
  written <- written[R], got <- Prefix(got[L]), cut <- Cut(R), ended <- ended[L]

ImplementsByteStream == FromL!Spec /\ FromR!Spec

\* Once an application ends its connection, everything about the tunnel comes
\* to an end on both sides: each joinConns, and all four copies.
Over(s) == main[s] = "end" /\ up[s] = "done" /\ down[s] = "done"

EverythingEnds ==
  (\E s \in Sides : app[s] # "open") ~> (\A t \in Sides : Over(t))

\* An application that ends its connection gets across what it wrote, and its
\* peer learns of the end, unless the direction is cut.
EverythingArrives ==
  \A s \in Sides :
     app[s] = "shut" ~>
        (got[Other(s)] = written[s] /\ ended[Other(s)]) \/ Cut(s)
=============================================================================
