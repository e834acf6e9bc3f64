-------------------------------- MODULE Reap --------------------------------
(***************************************************************************)
(* `niwa reap`, and the sweep other commands run first: reapWorkspace in   *)
(* cli/reap.go with the on-reap step of cli/on_reap.go.                    *)
(*                                                                         *)
(* A sweep selects everything it will act on, then takes the targets one   *)
(* at a time: lock, re-read what justified the removal, ask the            *)
(* workspace's pre-removal command, destroy, run the on-reap command,      *)
(* settle the mapping, unlock.  When the mapped targets and the stored     *)
(* mappings are done it makes a second, separate selection for the         *)
(* backstop, which takes unmapped dispatch instances past the TTL.         *)
(***************************************************************************)
EXTENDS InstanceStore

VARIABLES
    queue,   \* [Reaper -> SUBSET Task]: selected and not yet taken
    task     \* [Reaper -> Task or NoTask]: the one it is on

reapVars == <<queue, task>>

(***************************************************************************)
(* What a selection chose.  A target is a mapped instance whose session is *)
(* gone, a stored mapping one whose instance is gone already, a backstop   *)
(* target an instance with no mapping.  The task keeps the mapping as the  *)
(* selection read it.                                                      *)
(***************************************************************************)
Task == [kind: {"target", "stored", "backstop"}, path: Path,
         m: Mapping \cup {NoMapping}]
NoTask == [kind |-> "none", path |-> None, m |-> NoMapping]

ReapPC == {"idle", "mapped", "backstop", "recheck", "destroy", "run", "settle"}

ReapTypeOK ==
    /\ queue \in [Reaper -> SUBSET Task]
    /\ task \in [Reaper -> Task \cup {NoTask}]

-----------------------------------------------------------------------------
(* Selection. *)

(* selectReapTargets.  The join keeps one mapping per instance, the last   *)
(* of a list sorted by session id; the order of ids means nothing here, so *)
(* any of the instance's mappings may be the one: the sweep picks a        *)
(* function from the mapped instances to their sessions.                   *)
ReapTargets(pick) ==
    {[kind |-> "target", path |-> p, m |-> mapping[pick[p]]] :
        p \in {q \in DOMAIN pick : /\ Verdict(pick[q], q) = "gone"
                                   /\ ~Rooted(q)}}

JoinByPath ==
    LET mapped == {p \in Path : disk[p] = "instance" /\ MappedTo(p) # {}}
    IN {f \in [mapped -> Mapped] : \A p \in mapped : f[p] \in MappedTo(p)}

(* Mutant: the stored mappings are never walked. *)
NoStoredTargets == {}

(* selectStoredMappingTargets: nothing at all is at the path. *)
StoredTargets ==
    {[kind |-> "stored", path |-> mapping[s].path, m |-> mapping[s]] :
        s \in {t \in Mapped : /\ disk[mapping[t].path] = "absent"
                              /\ Verdict(t, mapping[t].path) = "gone"}}

(* Mutant: the launch record, not the name, makes an orphan eligible. *)
RecordedBackstopTargets ==
    {[kind |-> "backstop", path |-> p, m |-> NoMapping] :
        p \in {q \in DispatchNamed : /\ disk[q] = "instance" /\ launch[q] # None
                                     /\ MappedTo(q) = {} /\ ~retain[q] /\ aged[q]
                                     /\ ~Rooted(q)}}

(* selectBackstopTargets. *)
BackstopTargets ==
    {[kind |-> "backstop", path |-> p, m |-> NoMapping] :
        p \in {q \in DispatchNamed : /\ disk[q] = "instance"
                                     /\ MappedTo(q) = {}
                                     /\ ~retain[q]
                                     /\ aged[q]
                                     /\ ~Rooted(q)}}

(* reapWorkspace up to its first loop. *)
SelectMapped(r) ==
    /\ pc[r] = "idle"
    /\ \E pick \in JoinByPath :
           queue' = [queue EXCEPT ![r] = ReapTargets(pick) \cup StoredTargets]
    /\ Goto(r, "mapped")
    /\ UNCHANGED <<worldVars, at, task, ran>>

(* sweepLaunchRecords drops the records whose transcript is gone, under no *)
(* lock; one that can't be removed is left with a warning.                 *)
SweepLaunchRecords ==
    \E swept \in SUBSET {p \in Path : launch[p] # None /\ sess[launch[p]] = "expired"} :
        launch' = [p \in Path |-> IF p \in swept THEN None ELSE launch[p]]

(* The end of the mapped half; then the backstop selects. *)
SelectBackstop(r) ==
    /\ pc[r] = "mapped"
    /\ queue[r] = {}
    /\ SweepLaunchRecords
    /\ queue' = [queue EXCEPT ![r] = BackstopTargets]
    /\ Goto(r, "backstop")
    /\ UNCHANGED <<disk, retain, aged, lock, mapping, sess, home, crashes, at, task, ran>>

FinishSweep(r) ==
    /\ pc[r] = "backstop"
    /\ queue[r] = {}
    /\ Goto(r, "idle")
    /\ UNCHANGED <<worldVars, at, queue, task, ran>>

-----------------------------------------------------------------------------
(* One target. *)

(* The targets come before the stored mappings. *)
InOrder(r, t) ==
    /\ t \in queue[r]
    /\ t.kind = "stored" => \A u \in queue[r] : u.kind = "stored"

(* Mutant: the lock is taken whoever holds it. *)
TakeTaskHeld(r, t) ==
    /\ pc[r] \in {"mapped", "backstop"}
    /\ InOrder(r, t)
    /\ Lock(r, t.path)
    /\ queue' = [queue EXCEPT ![r] = @ \ {t}]
    /\ task' = [task EXCEPT ![r] = t]
    /\ at' = [at EXCEPT ![r] = t.path]
    /\ Goto(r, "recheck")
    /\ UNCHANGED <<fileVars, crashes, ran>>

TakeTask(r, t) ==
    /\ pc[r] \in {"mapped", "backstop"}
    /\ InOrder(r, t)
    /\ LockFree(t.path)
    /\ Lock(r, t.path)
    /\ queue' = [queue EXCEPT ![r] = @ \ {t}]
    /\ task' = [task EXCEPT ![r] = t]
    /\ at' = [at EXCEPT ![r] = t.path]
    /\ Goto(r, "recheck")
    /\ UNCHANGED <<fileVars, crashes, ran>>

(* A held lock spares the target for this sweep. *)
SpareHeld(r, t) ==
    /\ pc[r] \in {"mapped", "backstop"}
    /\ InOrder(r, t)
    /\ ~LockFree(t.path)
    /\ queue' = [queue EXCEPT ![r] = @ \ {t}]
    /\ UNCHANGED <<worldVars, at, pc, task, ran>>

(* Mutant: the release is forgotten. *)
LeaveTaskHolding(r) ==
    /\ UNCHANGED lock
    /\ task' = [task EXCEPT ![r] = NoTask]
    /\ at' = [at EXCEPT ![r] = None]
    /\ Goto(r, IF task[r].kind = "backstop" THEN "backstop" ELSE "mapped")

(* The closure returns: its deferred release runs and the loop goes on. *)
LeaveTask(r) ==
    /\ Unlock(r)
    /\ task' = [task EXCEPT ![r] = NoTask]
    /\ at' = [at EXCEPT ![r] = None]
    /\ Goto(r, IF task[r].kind = "backstop" THEN "backstop" ELSE "mapped")

(* Mutant: a target is judged again by its mapped session alone. *)
JustifiedByVerdict(t) ==
    CASE t.kind = "target" -> Verdict(t.m.sess, t.path) = "gone"
      [] t.kind = "stored" -> /\ disk[t.path] = "absent"
                              /\ Verdict(t.m.sess, t.path) = "gone"
                              /\ mapping[t.m.sess] = t.m
      [] t.kind = "backstop" -> ~Rooted(t.path)

(* Mutant: a stored mapping is settled as selected, not as stored now. *)
JustifiedByOldMapping(t) ==
    CASE t.kind = "target" -> Verdict(t.m.sess, t.path) = "gone" /\ ~Rooted(t.path)
      [] t.kind = "stored" -> disk[t.path] = "absent" /\ Verdict(t.m.sess, t.path) = "gone"
      [] t.kind = "backstop" -> ~Rooted(t.path)

(* What each loop reads again under the lock.  A target's mapping is not   *)
(* read again, and neither are a backstop target's mapping, retain marker  *)
(* and age.                                                                *)
StillJustified(t) ==
    CASE t.kind = "target" -> Verdict(t.m.sess, t.path) = "gone" /\ ~Rooted(t.path)
      [] t.kind = "stored" -> /\ disk[t.path] = "absent"
                              /\ Verdict(t.m.sess, t.path) = "gone"
                              /\ mapping[t.m.sess] = t.m
      [] t.kind = "backstop" -> ~Rooted(t.path)

(* The re-read passed and, for an instance, the removal gate allowed it. *)
Recheck(r) ==
    /\ pc[r] = "recheck"
    /\ StillJustified(task[r])
    /\ Goto(r, IF task[r].kind = "stored" THEN "run" ELSE "destroy")
    /\ UNCHANGED <<worldVars, at, queue, task, ran>>

(* The re-read failed, or the pre-removal command kept the instance. *)
Spare(r) ==
    /\ pc[r] = "recheck"
    /\ task[r].kind # "stored" \/ ~StillJustified(task[r])
    /\ LeaveTask(r)
    /\ UNCHANGED <<fileVars, crashes, queue, ran>>

DestroyTarget(r) ==
    /\ pc[r] = "destroy"
    /\ disk[at[r]] = "instance"
    /\ RemovedTo(at[r], "absent")
    /\ IF task[r].kind = "target"
       THEN /\ Goto(r, "run")
            /\ UNCHANGED <<lock, at, task>>
       ELSE LeaveTask(r)
    /\ UNCHANGED <<mapping, launch, sess, home, crashes, queue, ran>>

(* A failed removal is reported and the mapping is left in place. *)
DestroyTargetFails(r) ==
    /\ pc[r] = "destroy"
    /\ \E left \in RemovalOutcome(at[r]) :
           /\ left # "absent" \/ disk[at[r]] = "absent"
           /\ RemovedTo(at[r], left)
    /\ LeaveTask(r)
    /\ UNCHANGED <<mapping, launch, sess, home, crashes, queue, ran>>

(* onReapStep.run: the command, its failures and its skips. *)
RunOnReap(r) ==
    /\ pc[r] = "run"
    /\ \E ok \in BOOLEAN : ran' = [ran EXCEPT ![r] = ok]
    /\ Goto(r, "settle")
    /\ UNCHANGED <<worldVars, at, queue, task>>

SettleMapping(r) ==
    /\ pc[r] = "settle"
    /\ Settled(task[r].m, ran[r])
    /\ LeaveTask(r)
    /\ ran' = [ran EXCEPT ![r] = FALSE]
    /\ UNCHANGED <<disk, retain, aged, launch, sess, home, crashes, queue>>

ReapStep(r) ==
    \/ SelectMapped(r) \/ SelectBackstop(r) \/ FinishSweep(r)
    \/ \E t \in queue[r] : TakeTask(r, t) \/ SpareHeld(r, t)
    \/ Recheck(r) \/ Spare(r)
    \/ DestroyTarget(r) \/ DestroyTargetFails(r)
    \/ RunOnReap(r) \/ SettleMapping(r)
=============================================================================
