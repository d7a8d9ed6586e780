--------------------------- MODULE MemoryChannel ---------------------------
(***************************************************************************)
(* channels/memory.go: Send and Recv of the in-memory signalling channel,  *)
(* called by goroutines that share one table of Go channels, filled on     *)
(* first use.  A key stands for the prefix and the key together, and a     *)
(* message for the goroutine that sends it.                                *)
(*                                                                         *)
(* The code between a lock and its unlock never blocks, so it is one step. *)
(***************************************************************************)
EXTENDS Naturals, Sequences

CONSTANTS
  Procs,   \* goroutines, each making one call
  Keys

ASSUME MemoryChannelAssumption == "none" \notin Procs

VARIABLES
  pc,      \* where the call of each goroutine is
  op,      \* "send" or "recv"
  key,     \* the key it was called with
  ch,      \* the result of getChannel
  table,   \* memoryChannels.channels
  queue,   \* the buffer of each Go channel, named after the goroutine that made it
  taken    \* the messages received under each key, in order

vars == <<pc, op, key, ch, table, queue, taken>>

Init ==
  /\ pc = [p \in Procs |-> "idle"]
  /\ op \in [Procs -> {"send", "recv"}]
  /\ key \in [Procs -> Keys]
  /\ ch = [p \in Procs |-> "none"]
  /\ table = [k \in Keys |-> "none"]
  /\ queue = [c \in Procs |-> <<>>]
  /\ taken = [k \in Keys |-> <<>>]

\* The lookup under RLock.
Lookup(p) ==
  /\ pc[p] = "idle"
  /\ ch' = [ch EXCEPT ![p] = table[key[p]]]
  /\ pc' = [pc EXCEPT ![p] = IF table[key[p]] = "none" THEN "create" ELSE "use"]
  /\ UNCHANGED <<op, key, table, queue, taken>>

\* Variant: no second lookup under Lock.
CreateUnchecked(p) ==
  /\ pc[p] = "create"
  /\ table' = [table EXCEPT ![key[p]] = p]
  /\ ch' = [ch EXCEPT ![p] = p]
  /\ pc' = [pc EXCEPT ![p] = "use"]
  /\ UNCHANGED <<op, key, queue, taken>>

\* The second lookup, under Lock, and the channel made if it fails too.
Create(p) ==
  /\ pc[p] = "create"
  /\ table' = [table EXCEPT ![key[p]] = IF @ = "none" THEN p ELSE @]
  /\ ch' = [ch EXCEPT ![p] = table'[key[p]]]
  /\ pc' = [pc EXCEPT ![p] = "use"]
  /\ UNCHANGED <<op, key, queue, taken>>

Send(p) ==
  /\ pc[p] = "use" /\ op[p] = "send" /\ queue[ch[p]] = <<>>
  /\ queue' = [queue EXCEPT ![ch[p]] = <<p>>]
  /\ pc' = [pc EXCEPT ![p] = "done"]
  /\ UNCHANGED <<op, key, ch, table, taken>>

Recv(p) ==
  /\ pc[p] = "use" /\ op[p] = "recv" /\ queue[ch[p]] # <<>>
  /\ taken' = [taken EXCEPT ![key[p]] = Append(@, Head(queue[ch[p]]))]
  /\ queue' = [queue EXCEPT ![ch[p]] = Tail(@)]
  /\ pc' = [pc EXCEPT ![p] = "done"]
  /\ UNCHANGED <<op, key, ch, table>>

Next == \E p \in Procs : Lookup(p) \/ Create(p) \/ Send(p) \/ Recv(p)

Spec == Init /\ [][Next]_vars

-----------------------------------------------------------------------------
(***************************************************************************)
(* Properties.                                                             *)
(***************************************************************************)

\* Every variable holds a value of its type, a buffer at most one message.
TypeOK ==
  /\ pc \in [Procs -> {"idle", "create", "use", "done"}]
  /\ op \in [Procs -> {"send", "recv"}]
  /\ key \in [Procs -> Keys]
  /\ ch \in [Procs -> Procs \cup {"none"}]
  /\ table \in [Keys -> Procs \cup {"none"}]
  /\ queue \in [Procs -> {<<>>} \cup {<<p>> : p \in Procs}]
  /\ taken \in [Keys -> Seq(Procs)]

\* Goroutines that use a key at the same time, for the first time too, share
\* one mailbox of capacity one: no message is put where nobody looks for it.
Boxes ==
  INSTANCE Mailbox WITH
    Messages <- Procs,
    box <- [k \in Keys |-> IF table[k] = "none" THEN <<>> ELSE queue[table[k]]]

ImplementsMailbox == Boxes!Spec
=============================================================================
