----------------------------- MODULE ConfigFile -----------------------------
(***************************************************************************)
(* cmd/rtctunnel/config.go and the commands that use it: init, add-route,  *)
(* info and run, each a process that loads the configuration file, and     *)
(* may save it, while others do the same and any of them may be killed.    *)
(*                                                                         *)
(* ioutil.WriteFile opens the file, which empties it, and then writes.     *)
(* The file system and the JSON and YAML libraries are external.  Any      *)
(* LoadConfig may fail: the file may be unreadable for a while, or was     *)
(* edited by hand, as the README of RTCTunnel suggests for signalchannel,  *)
(* and no longer parses.                                                   *)
(***************************************************************************)
EXTENDS Naturals, Sequences, SequencesExt

CONSTANTS
  Procs,      \* bound: commands that are run
  Routes,     \* routes that may be added
  Formats     \* "json", "yaml": by the extension of the path

ASSUME ConfigFileAssumption ==
  /\ {"none", "mixed"} \cap Procs = {}
  /\ Formats \subseteq {"json", "yaml"} /\ Formats # {}

VARIABLES
  format,
  file,       \* absent, empty, whole, mixed (two texts that happen to make one),
              \* or torn: part of a text, or one with the end of another one
  content,    \* the configuration in a file that is neither absent nor empty
  cmd,        \* the command of each process
  at,         \* where it is
  cfg,        \* the configuration it holds
  adding,     \* the route it adds
  acked,      \* routes whose add-route has succeeded
  saved,      \* configurations that Save has written
  misled,     \* init commands whose LoadConfig failed though the file is whole
  disturbed,  \* two commands overlapped, or a save did not complete
  patched     \* a save stopped part way over what another command had written

procVars == <<cmd, at, cfg, adding>>
histVars == <<misled, disturbed, patched>>
vars == <<format, file, content, procVars, acked, saved, histVars>>

\* A key pair is named after the init command that generated it, or mixed from two.
EmptyConfig == [key |-> "none", routes |-> <<>>]
Configs == [key : Procs \cup {"none", "mixed"}, routes : Seq(Routes)]

Init ==
  /\ format \in Formats
  /\ file = "absent" /\ content = EmptyConfig
  /\ cmd = [p \in Procs |-> "none"] /\ at = [p \in Procs |-> "idle"]
  /\ cfg = [p \in Procs |-> EmptyConfig] /\ adding \in [Procs -> Routes]
  /\ acked = {} /\ saved = {}
  /\ misled = {} /\ disturbed = FALSE /\ patched = FALSE

InProgress == {p \in Procs : at[p] \in {"loaded", "saving", "writing"}}

-----------------------------------------------------------------------------
(***************************************************************************)
(* LoadConfig.                                                             *)
(***************************************************************************)
\* Variant: an empty file is an empty configuration in JSON as well.
EmptyLoads == TRUE

\* json.Unmarshal rejects an empty file, yaml.Unmarshal reads it as nothing.
EmptyIsConfig == format = "yaml"

\* The start of a YAML file may be valid, and so may be a mix of two, in which
\* a route of the other one follows.
TornLoads ==
  {EmptyConfig, content, [content EXCEPT !.routes = <<>>]}
     \cup {[content EXCEPT !.routes = Append(@, r)] : r \in Routes}

\* What LoadConfig may return.  In JSON no part of a text is valid, nor is one
\* that is followed by the end of another one.
Loads ==
  CASE file \in {"whole", "mixed"} -> {content}
    [] file = "empty" /\ EmptyIsConfig -> {EmptyConfig}
    [] file = "torn" /\ format = "yaml" -> TornLoads
    [] OTHER -> {}

\* A command that starts while another one is in progress overlaps with it.
Overlap == disturbed' = (disturbed \/ InProgress # {})

\* Variant: init does not look whether there is a configuration.
InitOverwrites(p) ==
  /\ at[p] = "idle"
  /\ cfg' = [cfg EXCEPT ![p] = [EmptyConfig EXCEPT !.key = p]]
  /\ cmd' = [cmd EXCEPT ![p] = "init"] /\ at' = [at EXCEPT ![p] = "saving"]
  /\ Overlap
  /\ UNCHANGED <<format, file, content, adding, acked, saved, misled, patched>>

\* init goes on if LoadConfig fails, whatever the error.
InitStarts(p) ==
  /\ at[p] = "idle"
  /\ misled' = IF file = "whole" THEN misled \cup {p} ELSE misled
  /\ cfg' = [cfg EXCEPT ![p] = [EmptyConfig EXCEPT !.key = p]]
  /\ cmd' = [cmd EXCEPT ![p] = "init"] /\ at' = [at EXCEPT ![p] = "saving"]
  /\ Overlap
  /\ UNCHANGED <<format, file, content, adding, acked, saved, patched>>

AddStarts(p) ==
  /\ at[p] = "idle"
  /\ \E c \in Loads : cfg' = [cfg EXCEPT ![p] = c]
  /\ cmd' = [cmd EXCEPT ![p] = "add"] /\ at' = [at EXCEPT ![p] = "loaded"]
  /\ Overlap
  /\ UNCHANGED <<format, file, content, adding, acked, saved, misled, patched>>

\* info and run only load the configuration; run wants a private key in it.
ReadsConfig(p) ==
  /\ at[p] = "idle"
  /\ \E c \in Loads, k \in {"info", "run"} :
        /\ cmd' = [cmd EXCEPT ![p] = k]
        /\ cfg' = [cfg EXCEPT ![p] = c]
        /\ at' = [at EXCEPT ![p] =
                    IF k = "run" /\ c.key = "none" THEN "failed" ELSE "done"]
  /\ UNCHANGED <<format, file, content, adding, acked, saved, histVars>>

\* init found a configuration, or LoadConfig failed in another command.
StartFails(p) ==
  /\ at[p] = "idle"
  /\ \/ Loads # {} /\ cmd' = [cmd EXCEPT ![p] = "init"]
     \/ \E k \in {"add", "info", "run"} : cmd' = [cmd EXCEPT ![p] = k]
  /\ at' = [at EXCEPT ![p] = "failed"]
  /\ UNCHANGED <<format, file, content, cfg, adding, acked, saved, histVars>>

-----------------------------------------------------------------------------
(***************************************************************************)
(* AddRoute and Save.                                                      *)
(***************************************************************************)
\* Variant: duplicates are not looked for.
WithDuplicate(routes, r) == Append(routes, r)

\* AddRoute leaves a route out that is there already, and checks nothing else.
WithRoute(routes, r) == IF Contains(routes, r) THEN routes ELSE Append(routes, r)

AddsRoute(p) ==
  /\ at[p] = "loaded"
  /\ cfg' = [cfg EXCEPT ![p].routes = WithRoute(@, adding[p])]
  /\ at' = [at EXCEPT ![p] = "saving"]
  /\ UNCHANGED <<format, file, content, cmd, adding, acked, saved, histVars>>

\* A missing flag, an invalid key, or a file that cannot be opened.
GivesUp(p) ==
  /\ at[p] \in {"loaded", "saving"}
  /\ at' = [at EXCEPT ![p] = "failed"]
  /\ UNCHANGED <<format, file, content, cmd, cfg, adding, acked, saved, histVars>>

Truncates(p) ==
  /\ at[p] = "saving"
  /\ file' = "empty"
  /\ at' = [at EXCEPT ![p] = "writing"]
  /\ UNCHANGED <<format, content, cmd, cfg, adding, acked, saved, histVars>>

\* Over what another process has written in the meantime, a shorter text
\* leaves the end of the longer one.
Writes(p) ==
  /\ at[p] = "writing"
  /\ file' \in (IF file = "empty" THEN {"whole"} ELSE {"whole", "torn"})
  /\ content' = cfg[p]
  /\ at' = [at EXCEPT ![p] = "done"]
  /\ acked' = IF cmd[p] = "add" THEN acked \cup {adding[p]} ELSE acked
  /\ saved' = saved \cup {cfg[p]}
  /\ UNCHANGED <<format, cmd, cfg, adding, histVars>>

\* The start of a text over another one: the cut is in the key pair, or in the
\* routes, where a route of neither may come out.
Mixes(p) ==
  LET new == cfg[p].routes
      old == content.routes
      end(j) == SubSeq(old, j, Len(old))
  IN \/ content' = [content EXCEPT !.key = "mixed"]
     \/ \E i \in 0 .. Len(new), j \in 1 .. Len(old) + 1 :
           \/ content' = [cfg[p] EXCEPT !.routes = SubSeq(new, 1, i) \o end(j)]
           \/ \E r \in Routes :
                 content' = [cfg[p] EXCEPT !.routes = Append(SubSeq(new, 1, i), r) \o end(j)]

\* The process is killed, or the disk is full: part of the text is written.
SaveFails(p) ==
  /\ at[p] = "writing"
  /\ \/ UNCHANGED <<file, content, patched>>
     \/ /\ file' = "torn" /\ content' = cfg[p]
        /\ patched' = (patched \/ file # "empty")
     \/ /\ file # "empty"
        /\ file' = "mixed" /\ Mixes(p) /\ patched' = TRUE
  /\ at' = [at EXCEPT ![p] = "failed"]
  /\ disturbed' = TRUE
  /\ UNCHANGED <<format, cmd, cfg, adding, acked, saved, misled>>

-----------------------------------------------------------------------------
Next ==
  \E p \in Procs :
     \/ InitStarts(p) \/ AddStarts(p) \/ ReadsConfig(p) \/ StartFails(p)
     \/ AddsRoute(p) \/ GivesUp(p) \/ Truncates(p) \/ Writes(p) \/ SaveFails(p)

Spec == Init /\ [][Next]_vars

-----------------------------------------------------------------------------
(***************************************************************************)
(* Properties.                                                             *)
(***************************************************************************)

\* Every variable holds a value of its type; info and run never save, and only
\* add-route changes what it loaded.
TypeOK ==
  /\ format \in {"json", "yaml"}
  /\ file \in {"absent", "empty", "torn", "mixed", "whole"} /\ content \in Configs
  /\ cmd \in [Procs -> {"none", "init", "add", "info", "run"}]
  /\ at \in [Procs -> {"idle", "loaded", "saving", "writing", "done", "failed"}]
  /\ \A p \in Procs : cmd[p] # "add" => at[p] # "loaded"
  /\ \A p \in InProgress : cmd[p] \in {"init", "add"}
  /\ cfg \in [Procs -> Configs] /\ adding \in [Procs -> Routes]
  /\ acked \subseteq Routes /\ saved \subseteq Configs
  /\ misled \subseteq Procs /\ disturbed \in BOOLEAN /\ patched \in BOOLEAN

\* What holds of a JSON configuration however commands overlap and are killed,
\* unless one is killed part way through a text it writes over another's; and of
\* a YAML one as long as none overlaps or fails to save.
Reliable == IF format = "json" THEN ~patched ELSE ~disturbed

\* A configuration that loads has a key pair that init generated.
KeyIsThere == Reliable /\ file = "whole" => content.key \in Procs

\* No route is in the file twice.
NoDuplicates ==
  Reliable => \A i, j \in 1 .. Len(content.routes) :
                 content.routes[i] = content.routes[j] => i = j

\* A route whose add-route has succeeded stays, unless commands overlap, a save
\* does not complete, or init was misled by an error of LoadConfig.
RoutesStay ==
  ~disturbed /\ misled = {} /\ file = "whole" =>
     \A r \in acked : Contains(content.routes, r)

\* While commands neither overlap nor fail to save, what replaces a key pair is
\* an init that LoadConfig gave an error for the whole file, and nothing else.
\* That such an init does replace it is against its own words, cmd_init.go:18: a
\* file that exists already is to be removed first.
OnlyInitReplacesKey ==
  [][ ~disturbed' /\ content.key \notin {"none", content'.key} =>
         \E p \in misled : cmd[p] = "init" /\ at[p] = "writing" ]_vars

\* However saves overlap, or are cut off where nobody else wrote, a command that
\* loads a JSON configuration gets one that was saved, never a part or a mix.
ReadsWhatWasSaved ==
  format = "json" /\ ~patched =>
     \A p \in Procs : cmd[p] \in {"info", "run"} /\ at[p] = "done" => cfg[p] \in saved
=============================================================================
