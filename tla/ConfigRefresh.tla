---------------------------- MODULE ConfigRefresh ----------------------------
(***************************************************************************)
(* The refresh of a workspace's config directory from its source           *)
(* (workspace.EnsureConfigSnapshotWithStatus): the new content is built    *)
(* beside the directory, the files niwa and the user keep there are copied *)
(* into it, and two renames put it in place.  A command may be killed      *)
(* between any two steps; the next one restores what it left.              *)
(***************************************************************************)
EXTENDS Naturals, FiniteSets

CONSTANTS
    File,       \* paths the source may supply and a user may add
    Mapping,    \* session mappings, kept in the config directory
    Cfg,        \* what a workspace.toml says
    WritesInRefresh,  \* niwa and users write while a refresh copies and swaps
    MaxCommit,  \* pushes to the source
    MaxEvents   \* failures, kills and what the world does beside niwa

RefreshAssumption == MaxCommit \in Nat /\ MaxEvents \in Nat
ASSUME RefreshAssumption

NoDir == [kind |-> "none"]
(* A config directory: of a snapshot or a git clone an older niwa made. *)
Tree ==
    [kind : {"snapshot", "clone"}, commit : 0..MaxCommit, cfg : Cfg,
     manifest : BOOLEAN, supplied : SUBSET File,
     files : [File -> {"absent", "source", "local"}], mappings : SUBSET Mapping]

VARIABLES
    upstream,   \* the source; one on GitHub answers drift checks
    conf,       \* the config directory
    prev,       \* its predecessor, <dir>.prev
    staging,    \* the one being built, <dir>.next
    step,       \* where the refresh is
    mapped,     \* the mappings niwa has written
    added,      \* the files users have added to a snapshot
    events

refreshVars == <<upstream, conf, prev, staging, step, mapped, added, events>>

RefreshTypeOK ==
    /\ upstream \in [github : BOOLEAN, commit : 0..MaxCommit, cfg : Cfg, files : SUBSET File]
    /\ {conf, prev, staging} \subseteq Tree \cup {NoDir}
    /\ step \in {"idle", "restore", "check", "fetch", "keep", "carry", "restore again",
                 "clear prev", "move away", "move in", "drop prev", "done", "failed"}
    /\ mapped \subseteq Mapping /\ added \subseteq File
    /\ events \in 0..MaxEvents

(* What the workspace's config is: mid-swap, its predecessor. *)
Current == IF conf # NoDir THEN conf ELSE prev

SuppliedFiles(s) == [f \in File |-> IF f \in s THEN "source" ELSE "absent"]

RefreshInit ==
    /\ upstream \in [github : BOOLEAN, commit : {0}, cfg : Cfg, files : SUBSET File]
    /\ \E k \in {"snapshot", "clone"}, m \in BOOLEAN :
          /\ k = "clone" => ~m
          /\ conf = [kind |-> k, commit |-> 0, cfg |-> upstream.cfg, manifest |-> m,
                     supplied |-> IF m THEN upstream.files ELSE {},
                     files |-> SuppliedFiles(upstream.files), mappings |-> {}]
    /\ prev = NoDir /\ staging = NoDir /\ step = "idle"
    /\ mapped = {} /\ added = {} /\ events = 0

Event == events < MaxEvents /\ events' = events + 1

(* RestoreInterruptedSwap: a directory gone in mid-swap is put back. *)
Restore ==
    IF conf = NoDir /\ prev # NoDir THEN conf' = prev /\ prev' = NoDir
    ELSE UNCHANGED <<conf, prev>>

Go(s) == step' = s

(* A failure ends the refresh: of a clone that could not be converted too, *)
(* which then stays as it is.                                              *)
GiveUp == staging' = NoDir /\ Go(IF conf.kind = "clone" THEN "done" ELSE "failed")

RestoreFirst ==
    /\ step = "restore" /\ Restore /\ Go("check")
    /\ UNCHANGED <<upstream, staging, mapped, added, events>>

(* refreshSnapshot and lazyConvertWorkingTree: what there is to refresh. A *)
(* drift check that fails leaves the cached snapshot in use.               *)
CheckDrift ==
    /\ step = "check"
    /\ \/ conf = NoDir /\ Go("done") /\ UNCHANGED events
       \/ conf # NoDir /\ conf.kind = "clone" /\ Go("fetch") /\ UNCHANGED events
       \/ /\ conf # NoDir /\ conf.kind = "snapshot"
          /\ \/ ~upstream.github /\ Go("fetch") /\ UNCHANGED events
             \/ upstream.github /\ Event /\ Go("done")
             \/ /\ upstream.github /\ UNCHANGED events
                /\ Go(IF conf.commit = upstream.commit THEN "done" ELSE "fetch")
    /\ UNCHANGED <<upstream, conf, prev, staging, mapped, added>>

(* The source's content and the manifest of its paths (writeSnapshotManifest). *)
Fetched ==
    [kind |-> "snapshot", commit |-> upstream.commit, cfg |-> upstream.cfg,
     manifest |-> TRUE, supplied |-> upstream.files,
     files |-> SuppliedFiles(upstream.files), mappings |-> {}]

FetchSource ==
    /\ step = "fetch"
    /\ \/ staging' = Fetched /\ Go("keep") /\ UNCHANGED events
       \/ Event /\ GiveUp
    /\ UNCHANGED <<upstream, conf, prev, mapped, added>>

(* preserveInstanceState, preserveDispatchBriefs, preserveSessionMappings. *)
KeepOurs ==
    /\ step = "keep"
    /\ \/ staging' = [staging EXCEPT !.mappings = conf.mappings] /\ Go("carry") /\ UNCHANGED events
       \/ Event /\ GiveUp
    /\ UNCHANGED <<upstream, conf, prev, mapped, added>>

(* Paths that did not come from the source and that it now supplies. *)
Conflicts(old, new) ==
    IF ~old.manifest THEN {}
    ELSE {f \in File \ old.supplied : old.files[f] # "absent" /\ new.files[f] # "absent"}

(* Mutant: what the source does not supply is not kept. *)
CarriedSupplied(old, new, f) == new.files[f]
(* What becomes of a path: the source's, unless it supplies nothing there  *)
(* and did not supply what is there.                                       *)
Carried(old, new, f) ==
    IF new.files[f] # "absent" \/ (old.manifest /\ f \in old.supplied) THEN new.files[f]
    ELSE old.files[f]

(* carryLocalPaths. *)
CarryLocal ==
    /\ step = "carry"
    /\ \/ /\ Conflicts(conf, staging) = {} /\ Go("restore again") /\ UNCHANGED events
          /\ staging' = [staging EXCEPT !.files = [f \in File |-> Carried(conf, staging, f)]]
       \/ Conflicts(conf, staging) # {} /\ GiveUp /\ UNCHANGED events
       \/ Event /\ GiveUp
    /\ UNCHANGED <<upstream, conf, prev, mapped, added>>

(* SwapSnapshotAtomic. *)
RestoreAgain ==
    /\ step = "restore again" /\ Restore /\ Go("clear prev")
    /\ UNCHANGED <<upstream, staging, mapped, added, events>>

ClearPrev ==
    /\ step = "clear prev" /\ prev' = NoDir /\ Go("move away")
    /\ UNCHANGED <<upstream, conf, staging, mapped, added, events>>

MoveAway ==
    /\ step = "move away"
    /\ \/ prev' = conf /\ conf' = NoDir /\ Go("move in") /\ UNCHANGED <<staging, events>>
       \/ Event /\ GiveUp /\ UNCHANGED <<conf, prev>>
    /\ UNCHANGED <<upstream, mapped, added>>

(* The second rename; when it fails the first is taken back, unless a      *)
(* command that found no directory has restored the old one by then.       *)
MoveIn ==
    /\ step = "move in"
    /\ \/ /\ conf = NoDir /\ conf' = staging /\ staging' = NoDir /\ Go("drop prev")
          /\ UNCHANGED <<prev, events>>
       \/ /\ conf = NoDir /\ Event /\ conf' = prev /\ prev' = NoDir /\ staging' = NoDir
          /\ Go(IF prev.kind = "clone" THEN "done" ELSE "failed")
       \/ conf # NoDir /\ GiveUp /\ UNCHANGED <<conf, prev, events>>
    /\ UNCHANGED <<upstream, mapped, added>>

DropPrev ==
    /\ step = "drop prev" /\ prev' = NoDir /\ Go("done")
    /\ UNCHANGED <<upstream, conf, staging, mapped, added, events>>

Refresh ==
    \/ RestoreFirst \/ CheckDrift \/ FetchSource \/ KeepOurs \/ CarryLocal
    \/ RestoreAgain \/ ClearPrev \/ MoveAway \/ MoveIn \/ DropPrev
-----------------------------------------------------------------------------
(* The world: the source moves, users add files, dispatches map sessions.  *)
Push ==
    /\ upstream.commit < MaxCommit /\ Event
    /\ \E c \in Cfg, fs \in SUBSET File :
          upstream' = [upstream EXCEPT !.commit = @ + 1, !.cfg = c, !.files = fs]
    /\ UNCHANGED <<conf, prev, staging, step, mapped, added>>

(* The files have been copied, the mappings even earlier, and the copy is  *)
(* not yet in place.                                                       *)
Swapping == {"restore again", "clear prev", "move away", "move in"}

AddFile ==
    /\ conf # NoDir /\ Event
    /\ WritesInRefresh \/ step \notin Swapping
    /\ \E f \in File :
          /\ conf.files[f] = "absent" /\ f \notin conf.supplied
          /\ conf' = [conf EXCEPT !.files[f] = "local"]
          /\ added' = IF conf.manifest THEN added \cup {f} ELSE added
    /\ UNCHANGED <<upstream, prev, staging, step, mapped>>

(* WriteSessionMapping, by a dispatch or a resume. *)
WriteMapping ==
    /\ conf # NoDir /\ Event
    /\ WritesInRefresh \/ step \notin Swapping \cup {"carry"}
    /\ \E m \in Mapping \ mapped :
          /\ conf' = [conf EXCEPT !.mappings = @ \cup {m}]
          /\ mapped' = mapped \cup {m}
    /\ UNCHANGED <<upstream, prev, staging, step, added>>

(* Another command looks for the workspace's config (config.Discover). *)
Discover ==
    /\ conf = NoDir /\ Restore /\ Event
    /\ UNCHANGED <<upstream, staging, step, mapped, added>>

World == Push \/ AddFile \/ WriteMapping \/ Discover
=============================================================================
