------------------------------ MODULE Operator ------------------------------
(***************************************************************************)
(* channels/operator/operator.go: Send and Recv at one address, as         *)
(* signal.Send and signal.Recv call them, over HTTP requests to a          *)
(* rendezvous server that answers a POST and a GET once it has both.       *)
(*                                                                         *)
(* Sender and receiver of an address are two processes, with an            *)
(* operatorChannel each.  Messages are numbered in the order they are      *)
(* sent.  The server and the HTTP client are external.  A request whose    *)
(* client stopped waiting may stay at the server for a while.              *)
(***************************************************************************)
EXTENDS Naturals, Sequences

CONSTANTS
  NumMsgs,     \* bound: calls of Send
  MaxFaults,   \* bound: client timeouts, failed connections, unexpected statuses
  MaxWaits,    \* bound: requests that the server answers with 504
  Plain        \* whether the server may, or must, speak HTTP without TLS

ASSUME OperatorAssumption ==
  /\ NumMsgs \in Nat /\ MaxFaults \in Nat /\ MaxWaits \in Nat
  /\ Plain \subseteq BOOLEAN /\ Plain # {}

VARIABLES
  plain,       \* the server speaks HTTP only
  url,         \* the scheme of operatorChannel.url of each side
  sender,      \* Send: idle, with a request to do, or waiting for its answer
  sendUrl,     \* the scheme of its request
  msg,         \* the last message that Send was called with
  outcome,     \* what Send returned for each message
  pub,         \* its request at the server, or the answer
  receiver,    \* Recv, likewise
  recvUrl,
  sub,         \* its request at the server, or the status of the answer
  answer,      \* the message in an answer with status 200
  oldPubs,     \* messages of requests whose sender stopped waiting
  oldSubs,     \* number of requests whose receiver stopped waiting
  received,    \* messages that Recv returned
  dropped,     \* messages answered to nobody, or refused by the server
  schemeErrs,  \* calls of each side that failed because of the scheme
  faults, waits

sendVars   == <<sender, sendUrl, msg, outcome, pub>>
recvVars   == <<receiver, recvUrl, sub, answer, received>>
serverVars == <<oldPubs, oldSubs>>
boundVars  == <<faults, waits>>
vars == <<plain, url, sendVars, recvVars, serverVars, boundVars, dropped, schemeErrs>>

Msgs  == 1 .. NumMsgs
Sides == {"sender", "receiver"}

\* operator:// addresses are tried with https first.
Init ==
  /\ plain \in Plain /\ url = [s \in Sides |-> "https"]
  /\ sender = "idle" /\ sendUrl = "https" /\ msg = 0
  /\ outcome = [m \in Msgs |-> "none"] /\ pub = "none"
  /\ receiver = "idle" /\ recvUrl = "https" /\ sub = "none" /\ answer = 0
  /\ oldPubs = {} /\ oldSubs = 0 /\ received = <<>> /\ dropped = {}
  /\ schemeErrs = [s \in Sides |-> 0] /\ faults = 0 /\ waits = 0

Reaches(scheme) == plain => scheme = "http"

Fault == faults < MaxFaults /\ faults' = faults + 1

-----------------------------------------------------------------------------
(***************************************************************************)
(* Send.                                                                   *)
(***************************************************************************)
SendCalled ==
  /\ sender = "idle" /\ msg < NumMsgs
  /\ msg' = msg + 1
  /\ sender' = "request" /\ sendUrl' = url["sender"]
  /\ UNCHANGED <<plain, url, outcome, pub, recvVars, serverVars, boundVars, dropped, schemeErrs>>

Posts ==
  /\ sender = "request" /\ Reaches(sendUrl)
  /\ sender' = "waiting" /\ pub' = "waiting"
  /\ UNCHANGED <<plain, url, sendUrl, msg, outcome, recvVars, serverVars, boundVars, dropped, schemeErrs>>

SendReturns(result) ==
  /\ outcome' = [outcome EXCEPT ![msg] = result]
  /\ sender' = "idle" /\ pub' = "none"
  /\ UNCHANGED <<sendUrl, msg>>

\* Variant: the change of the url is lost.
ForgetScheme(s) ==
  /\ url' = url
  /\ schemeErrs' = [schemeErrs EXCEPT ![s] = @ + 1]

\* do changes the url of the channel and tries again with the same request,
\* which still has the old one and fails again.
Fallback(s) ==
  /\ url' = [url EXCEPT ![s] = "http"]
  /\ schemeErrs' = [schemeErrs EXCEPT ![s] = @ + 1]

\* A call of the same process at another address does the same.
FallbackElsewhere(s) ==
  /\ plain /\ url[s] = "https"
  /\ url' = [url EXCEPT ![s] = "http"]
  /\ UNCHANGED <<plain, sendVars, recvVars, serverVars, boundVars, dropped, schemeErrs>>

SendSchemeFails ==
  /\ sender = "request" /\ ~Reaches(sendUrl)
  /\ Fallback("sender")
  /\ SendReturns("error")
  /\ UNCHANGED <<plain, recvVars, serverVars, boundVars, dropped>>

\* Variant: a 504 is taken for an answer like any other.
SendIgnores504 ==
  /\ sender = "waiting" /\ pub = "504"
  /\ SendReturns("nil")
  /\ UNCHANGED <<plain, url, recvVars, serverVars, boundVars, dropped, schemeErrs>>

SendRetries ==
  /\ sender = "waiting" /\ pub = "504"
  /\ sender' = "request" /\ sendUrl' = url["sender"] /\ pub' = "none"
  /\ UNCHANGED <<plain, url, msg, outcome, recvVars, serverVars, boundVars, dropped, schemeErrs>>

\* Every status but 504 counts as sent.
SendSucceeds ==
  /\ sender = "waiting" /\ pub \in {"200", "other"}
  /\ SendReturns("nil")
  /\ UNCHANGED <<plain, url, recvVars, serverVars, boundVars, dropped, schemeErrs>>

\* A request whose client gives up is left at the server.
LeavePub ==
  /\ oldPubs' = IF pub = "waiting" THEN oldPubs \cup {msg} ELSE oldPubs
  /\ UNCHANGED oldSubs

\* Variants: Send retries after a timeout as Recv does, or ignores the error.
SendRetriesTimeout ==
  /\ sender = "waiting" /\ Fault /\ LeavePub
  /\ sender' = "request" /\ sendUrl' = url["sender"] /\ pub' = "none"
  /\ UNCHANGED <<plain, url, msg, outcome, recvVars, waits, dropped, schemeErrs>>

SendIgnoresError ==
  /\ sender = "waiting" /\ Fault /\ LeavePub
  /\ SendReturns("nil")
  /\ UNCHANGED <<plain, url, recvVars, waits, dropped, schemeErrs>>

\* A timeout, or a failed connection, even after the message was delivered.
SendFails ==
  /\ sender = "waiting" /\ Fault /\ LeavePub
  /\ SendReturns("error")
  /\ UNCHANGED <<plain, url, recvVars, waits, dropped, schemeErrs>>

-----------------------------------------------------------------------------
(***************************************************************************)
(* Recv.                                                                   *)
(***************************************************************************)
RecvCalled ==
  /\ receiver = "idle"
  /\ receiver' = "request" /\ recvUrl' = url["receiver"]
  /\ UNCHANGED <<plain, url, sendVars, sub, answer, received, serverVars, boundVars, dropped, schemeErrs>>

Gets ==
  /\ receiver = "request" /\ Reaches(recvUrl)
  /\ receiver' = "waiting" /\ sub' = "waiting"
  /\ UNCHANGED <<plain, url, sendVars, recvUrl, answer, received, serverVars, boundVars, dropped, schemeErrs>>

RecvSchemeFails ==
  /\ receiver = "request" /\ ~Reaches(recvUrl)
  /\ Fallback("receiver")
  /\ receiver' = "idle"
  /\ UNCHANGED <<plain, sendVars, recvUrl, sub, answer, received, serverVars, boundVars, dropped>>

\* Variant: the loop goes on without a new request.
RecvWaitsOn ==
  /\ receiver = "waiting" /\ sub = "504"
  /\ sub' = "none"
  /\ UNCHANGED <<plain, url, sendVars, receiver, recvUrl, answer, received, serverVars, boundVars, dropped, schemeErrs>>

RecvRetries ==
  /\ receiver = "waiting" /\ sub = "504"
  /\ receiver' = "request" /\ recvUrl' = url["receiver"] /\ sub' = "none"
  /\ UNCHANGED <<plain, url, sendVars, answer, received, serverVars, boundVars, dropped, schemeErrs>>

InAnswer == IF sub = "200" THEN {answer} ELSE {}

\* An answer on its way to a client that gave up is lost.
LeaveSub ==
  /\ oldSubs' = IF sub = "waiting" THEN oldSubs + 1 ELSE oldSubs
  /\ dropped' = dropped \cup InAnswer
  /\ sub' = "none" /\ UNCHANGED oldPubs

RecvTimesOut ==
  /\ receiver = "waiting" /\ Fault /\ LeaveSub
  /\ receiver' = "request" /\ recvUrl' = url["receiver"]
  /\ UNCHANGED <<plain, url, sendVars, answer, received, waits, schemeErrs>>

\* A failed connection, a status other than 200, or half an answer.
RecvFails ==
  /\ receiver = "waiting" /\ LeaveSub
  /\ IF sub = "other" THEN UNCHANGED faults ELSE Fault
  /\ receiver' = "idle"
  /\ UNCHANGED <<plain, url, sendVars, recvUrl, answer, received, waits, schemeErrs>>

RecvReturns ==
  /\ receiver = "waiting" /\ sub = "200"
  /\ received' = Append(received, answer)
  /\ receiver' = "idle" /\ sub' = "none"
  /\ UNCHANGED <<plain, url, sendVars, recvUrl, answer, serverVars, boundVars, dropped, schemeErrs>>

-----------------------------------------------------------------------------
(***************************************************************************)
(* The server.                                                             *)
(***************************************************************************)
\* It hands the message of one POST to one GET, and answers both.
Match(m) ==
  /\ \/ m = msg /\ pub = "waiting" /\ pub' = "200" /\ UNCHANGED oldPubs
     \/ m \in oldPubs /\ oldPubs' = oldPubs \ {m} /\ UNCHANGED pub
  /\ \/ sub = "waiting" /\ sub' = "200" /\ answer' = m /\ UNCHANGED <<oldSubs, dropped>>
     \/ oldSubs > 0 /\ oldSubs' = oldSubs - 1 /\ dropped' = dropped \cup {m} /\ UNCHANGED <<sub, answer>>
  /\ UNCHANGED <<plain, url, sender, sendUrl, msg, outcome, receiver, recvUrl, received,
                 boundVars, schemeErrs>>

GatewayTimeout ==
  /\ waits < MaxWaits /\ waits' = waits + 1
  /\ \/ pub = "waiting" /\ pub' = "504" /\ UNCHANGED sub
     \/ sub = "waiting" /\ sub' = "504" /\ UNCHANGED pub
  /\ UNCHANGED <<plain, url, sender, sendUrl, msg, outcome, receiver, recvUrl, answer, received,
                 serverVars, faults, dropped, schemeErrs>>

\* Any other status, for instance 500: the server does not take the request.
OtherStatus ==
  /\ Fault
  /\ \/ pub = "waiting" /\ pub' = "other" /\ dropped' = dropped \cup {msg} /\ UNCHANGED sub
     \/ sub = "waiting" /\ sub' = "other" /\ UNCHANGED <<pub, dropped>>
  /\ UNCHANGED <<plain, url, sender, sendUrl, msg, outcome, receiver, recvUrl, answer, received,
                 serverVars, waits, schemeErrs>>

\* The server notices that a client is gone.
Forget ==
  /\ \/ \E m \in oldPubs : oldPubs' = oldPubs \ {m} /\ UNCHANGED oldSubs
     \/ oldSubs > 0 /\ oldSubs' = oldSubs - 1 /\ UNCHANGED oldPubs
  /\ UNCHANGED <<plain, url, sendVars, recvVars, boundVars, dropped, schemeErrs>>

-----------------------------------------------------------------------------
Sending   == Posts \/ SendSchemeFails \/ SendRetries \/ SendSucceeds
Receiving == RecvCalled \/ Gets \/ RecvSchemeFails \/ RecvRetries \/ RecvReturns

Next ==
  \/ SendCalled \/ Sending \/ SendFails
  \/ Receiving \/ RecvTimesOut \/ RecvFails
  \/ GatewayTimeout \/ OtherStatus \/ Forget
  \/ \E m \in Msgs : Match(m)
  \/ \E s \in Sides : FallbackElsewhere(s)

Spec == Init /\ [][Next]_vars

\* Both peers run, the receiver calls Recv again and again, and the server
\* pairs requests and forgets abandoned ones.  Nothing makes anyone call Send.
FairSpec ==
  /\ Spec /\ WF_vars(Sending) /\ WF_vars(Receiving) /\ WF_vars(Forget)
  /\ WF_vars(RecvFails /\ sub = "other") /\ WF_vars(\E m \in Msgs : Match(m))

-----------------------------------------------------------------------------
(***************************************************************************)
(* Properties.                                                             *)
(***************************************************************************)
Statuses == {"none", "waiting", "200", "504", "other"}

\* Every variable holds a value of its type.
TypeOK ==
  /\ plain \in BOOLEAN /\ url \in [Sides -> {"https", "http"}]
  /\ sender \in {"idle", "request", "waiting"} /\ receiver \in {"idle", "request", "waiting"}
  /\ sendUrl \in {"https", "http"} /\ recvUrl \in {"https", "http"}
  /\ msg \in 0 .. NumMsgs
  /\ outcome \in [Msgs -> {"none", "nil", "error"}]
  /\ pub \in Statuses /\ sub \in Statuses /\ answer \in 0 .. NumMsgs
  /\ oldPubs \subseteq Msgs /\ oldSubs \in 0 .. MaxFaults
  /\ received \in Seq(Msgs) /\ dropped \subseteq Msgs
  /\ schemeErrs \in [Sides -> Nat] /\ faults \in 0 .. MaxFaults /\ waits \in 0 .. MaxWaits

Received == {received[i] : i \in 1 .. Len(received)}

\* However often requests are repeated, no message is received twice.
NothingTwice == \A i, j \in 1 .. Len(received) : i # j => received[i] # received[j]

\* When Send returns without an error, the message was received or is on its
\* way; it is lost only when the server refused it, or gave it to a receiver
\* that had stopped waiting, which takes a fault.
SentIsHandedOver ==
  /\ \A m \in Msgs : outcome[m] = "nil" => m \in Received \cup InAnswer \cup dropped
  /\ faults = 0 => dropped = {}

\* A message is received after a later one only if its Send returned an error,
\* and so was answered for by an abandoned request.
OnlyFailedSendsAreLate ==
  \A i, j \in 1 .. Len(received) :
     i < j /\ received[i] > received[j] => outcome[received[j]] = "error"

\* A Send meets its Recv in spite of all timeouts: each message is received,
\* or its Send fails, or the message was lost to a fault.
SendMeetsRecv ==
  \A m \in Msgs :
     msg = m /\ sender # "idle" ~> m \in Received \cup dropped \/ outcome[m] = "error"

\* The change to http costs each side at most one call at the address: a request
\* fails because of its scheme only if it was made before the change.
FallbackFailsOncePerSide == \A s \in Sides : schemeErrs[s] <= 1

\* The README gives operator://localhost:8000, for which the https url has to
\* fall back to http: a call fails only after a fault.
FallbackWorks == faults = 0 => \A m \in Msgs : outcome[m] # "error"
=============================================================================
