------------------------- MODULE InstanceLifecycle --------------------------
(***************************************************************************)
(* Any number of niwa commands at work on one workspace: reaps, resumes,   *)
(* destroys and dispatches interleaved with each other, with the agents    *)
(* and their users, and with processes that die between two steps.         *)
(***************************************************************************)
EXTENDS Reap, Resume, Destroy, Dispatch

vars == <<worldVars, pc, at, ran, reapVars, resumeVars, destroyVars, dispatchVars>>

Fresh == {TokenPath[d] : d \in Dispatcher}

(***************************************************************************)
(* What a workspace can hold when the commands start: each session is      *)
(* unborn or was dispatched into an instance of its own.  Its instance may *)
(* be gone (destroy --force, --keep-session, rm -rf); its mapping may be   *)
(* gone (the dispatch died before writing it, or it was settled, which     *)
(* needs the session gone); its launch record may be missing.              *)
(***************************************************************************)
Init ==
    /\ lock = [p \in Path |-> None]
    /\ retain = [p \in Path |-> FALSE]
    /\ crashes = 0
    /\ sess \in [Session -> {"unborn", "running", "idle", "gone"}]
    /\ home \in [Session -> (Path \ Fresh) \cup {None}]
    /\ \A s \in Session : home[s] = None <=> sess[s] = "unborn"
    /\ \A s, t \in Session : home[s] = home[t] /\ home[s] # None => s = t
    /\ mapping \in [Session -> Mapping \cup {NoMapping}]
    /\ \A s \in Session : \/ mapping[s] = NoMapping
                          \/ /\ home[s] # None
                             /\ mapping[s] = [sess |-> s, path |-> home[s],
                                              fails |-> 0, writer |-> None]
    /\ disk \in [Path -> {"absent", "instance"}]
    /\ aged \in [Path -> BOOLEAN]
    /\ \A p \in Path : disk[p] = "absent" => ~aged[p]
    /\ launch \in [Path -> Session \cup {None}]
    /\ \A p \in Path : launch[p] # None =>
           /\ p \in DispatchNamed
           /\ home[launch[p]] = p
           /\ mapping[launch[p]] # NoMapping \/ sess[launch[p]] = "gone"
    /\ \A p \in Fresh : disk[p] = "absent"
    /\ pc = [x \in Proc |-> IF x \in Reaper THEN "idle" ELSE "start"]
    /\ at = [x \in Proc |-> None]
    /\ ran = [x \in Proc |-> FALSE]
    /\ queue = [r \in Reaper |-> {}]
    /\ task = [r \in Reaper |-> NoTask]
    /\ rec = [u \in Resumer |-> None]
    /\ prev = [u \in Resumer |-> NoMapping]
    /\ restored = [u \in Resumer |-> FALSE]
    /\ started = [u \in Resumer |-> None]
    /\ opts = [d \in Destroyer |-> [force |-> FALSE, keepSession |-> FALSE]]
    /\ listing = [d \in Destroyer |-> NotRead]
    /\ owners = [d \in Destroyer |-> {}]
    /\ owner = [d \in Destroyer |-> NoMapping]
    /\ lineage = [p \in Path |-> FALSE]
    /\ authority = [p \in Path |-> FALSE]
    /\ worker = [d \in Dispatcher |-> None]
    /\ foreground = [d \in Dispatcher |-> FALSE]

(* A SIGKILL, a power cut, a fatal signal: no deferred call runs, and the  *)
(* kernel releases the flock.  A dead reap is followed by another, later.  *)
Crash(x) ==
    /\ pc[x] \notin {"idle", "start", "done"}
    /\ crashes < MaxCrashes
    /\ crashes' = crashes + 1
    /\ Unlock(x)
    /\ Goto(x, IF x \in Reaper THEN "idle" ELSE "done")
    /\ at' = [at EXCEPT ![x] = None]
    /\ ran' = [ran EXCEPT ![x] = FALSE]
    /\ queue' = [r \in Reaper |-> IF r = x THEN {} ELSE queue[r]]
    /\ task' = [r \in Reaper |-> IF r = x THEN NoTask ELSE task[r]]
    /\ foreground' = [d \in Dispatcher |-> d # x /\ foreground[d]]
    /\ UNCHANGED <<fileVars, resumeVars, destroyVars, lineage, authority, worker>>

Reaps(r) == ReapStep(r) /\ UNCHANGED <<resumeVars, destroyVars, dispatchVars>>
Resumes(u) == ResumeStep(u) /\ UNCHANGED <<ran, reapVars, destroyVars, dispatchVars>>
Destroys(d) == DestroyStep(d) /\ UNCHANGED <<reapVars, resumeVars, dispatchVars>>
Dispatches(d) == DispatchStep(d) /\ UNCHANGED <<ran, reapVars, resumeVars, destroyVars>>
WorldStep == World /\ UNCHANGED <<pc, at, ran, reapVars, resumeVars, destroyVars, dispatchVars>>

Next ==
    \/ \E r \in Reaper : Reaps(r)
    \/ \E u \in Resumer : Resumes(u)
    \/ \E d \in Destroyer : Destroys(d)
    \/ \E d \in Dispatcher : Dispatches(d)
    \/ WorldStep
    \/ \E x \in Proc : Crash(x)

Spec == Init /\ [][Next]_vars

(***************************************************************************)
(* The fairness the liveness properties need.  A reap is run again and     *)
(* again (by hand, and before every create and dispatch) and a running one *)
(* goes on; for each instance, the lock is not held at every try, the      *)
(* removal gate does not keep it for ever, and not every removal, nor      *)
(* every write of the mapping, fails.                                      *)
(***************************************************************************)
Fairness ==
    \A r \in Reaper :
        /\ WF_vars(Reaps(r))
        /\ \A p \in Path :
               /\ SF_vars((\E t \in queue[r] : t.path = p /\ TakeTask(r, t)) /\ Reaps(r))
               /\ SF_vars(at[r] = p /\ Recheck(r) /\ Reaps(r))
               /\ SF_vars(at[r] = p /\ DestroyTarget(r) /\ Reaps(r))
               /\ SF_vars(at[r] = p /\ SettleMapping(r) /\ mapping' # mapping /\ Reaps(r))

FairSpec == Spec /\ Fairness

-----------------------------------------------------------------------------
(* What the commands promise together. *)

PCOK == /\ \A r \in Reaper : pc[r] \in ReapPC
        /\ \A u \in Resumer : pc[u] \in ResumePC
        /\ \A d \in Destroyer : pc[d] \in DestroyPC
        /\ \A d \in Dispatcher : pc[d] \in DispatchPC

(* Every variable keeps its shape: the mappings, the locks, the listings   *)
(* and the place of each process are ones the code can produce.            *)
TypeOK ==
    /\ StoreTypeOK /\ ReapTypeOK /\ ResumeTypeOK /\ DestroyTypeOK /\ DispatchTypeOK
    /\ DOMAIN pc = Proc
    /\ PCOK

-----------------------------------------------------------------------------
(* The instance's lock. *)

(* The steps a process takes under its instance's lock, from the try that  *)
(* took it to the return that releases it.                                 *)
Holding(x) ==
    \/ x \in Reaper /\ pc[x] \in {"recheck", "destroy", "run", "settle"}
    \/ x \in Resumer /\ pc[x] \notin {"start", "resolved", "done"}
    \/ x \in Destroyer /\ pc[x] \notin {"start", "resolved", "done"}

(* The lock says exactly who is between its check and the end of its       *)
(* action: no holder loses the lock before it is done, and none that died  *)
(* or returned leaves it behind (instance_lock.go).                        *)
LockIsHeldByItsActor ==
    \A p \in Path : \A x \in Proc : lock[p] = x <=> Holding(x) /\ at[x] = p

(* "No other niwa command can act on the same instance in between"         *)
(* (instance_lock.go): while a reap, resume or destroy holds an instance   *)
(* and stands still, neither what is at its path nor any mapping that      *)
(* names it changes.  A dispatch takes no lock: the fresh instance it is   *)
(* making is the exception.                                                *)
HeldInstanceIsUntouched ==
    [][\A p \in Path \ Fresh : lock[p] # None /\ pc'[lock[p]] = pc[lock[p]] =>
            /\ disk'[p] = disk[p]
            /\ \A s \in Session : p \in {mapping[s].path, mapping'[s].path}
                                  => mapping'[s] = mapping[s]]_vars

-----------------------------------------------------------------------------
(* Reap. *)

(* A reap never removes an instance some agent's records show a session    *)
(* rooted in, whichever session it is and whether or not it is mapped      *)
(* ("Never reap a live instance, mapped or not").  Only a session answered *)
(* by activity, whose user may come back after the re-read, is beyond what *)
(* any lock of niwa's can promise.                                         *)
ReapSparesLiveWorkers ==
    [][\A r \in Reaper : pc[r] = "destroy" /\ pc'[r] # "destroy" /\ disk' # disk
                             => RecordsAt(at[r]) \subseteq ActivitySession]_vars

(* The on-reap command closes state some other tool keeps for a session:   *)
(* neither a reap nor a destroy runs it for a session that is still there. *)
SettledSession(x) == IF x \in Reaper THEN task[x].m.sess ELSE owner[x].sess
OnReapSparesLiveSessions ==
    [][\A x \in Reaper \cup Destroyer : pc[x] = "run" /\ pc'[x] = "settle"
            => SettledSession(x) \in ActivitySession
               \/ sess[SettledSession(x)] \notin Listed]_vars

(* When a reap settles a stored mapping, the store still holds the mapping *)
(* the selection read: a resume's newer one is never closed or overwritten *)
(* (settleStoredMapping).                                                  *)
StoredSettleIsCurrent ==
    [][\A r \in Reaper : pc[r] = "settle" /\ task[r].kind = "stored" /\ mapping' # mapping
            => mapping[task[r].m.sess] = task[r].m]_vars

(* No sweep forgets a failed on-reap run another sweep counted: the count  *)
(* of a mapping only grows, until the last allowed run drops it.           *)
FailedRunsAreCounted ==
    [][\A s \in Session : mapping'[s] # NoMapping /\ mapping'[s].writer = mapping[s].writer
            => mapping'[s].fails >= mapping[s].fails]_vars

(* p has mapped sessions, all of them gone, and no session at all in it.   *)
Deserted(p) ==
    /\ MappedTo(p) # {} /\ ~Rooted(p)
    /\ \A s \in MappedTo(p) : Verdict(s, p) = "gone"

(* A mapped instance whose sessions are gone does not stay: it is removed  *)
(* and its mappings settled, or a user comes back to a session answered by *)
(* activity, whatever fails on the way: a kept or failed target is retried *)
(* by a later reap, and an on-reap command that keeps failing is given up  *)
(* after its last allowed run.                                             *)
DesertedIsSettled == \A p \in Path : []<>~Deserted(p)

(* An aged dispatch instance no mapping names, no marker keeps and no      *)
(* session is rooted in.                                                   *)
Orphaned(p) ==
    /\ p \in DispatchNamed /\ disk[p] = "instance" /\ MappedTo(p) = {}
    /\ ~retain[p] /\ aged[p] /\ ~Rooted(p)

(* The backstop closes the gap a killed dispatch leaves, of whichever mode *)
(* and wherever it died: the instance it made, never mapped and did not    *)
(* mark to be kept does not stay for ever.                                 *)
OrphanIsReclaimed == \A p \in Path : []<>~Orphaned(p)

-----------------------------------------------------------------------------
(* Resume. *)

(* From the check that found or restored it to the launch into it, the     *)
(* instance stays: no reap, destroy or rollback takes it away.             *)
ResumeKeepsItsInstance ==
    \A u \in Resumer : pc[u] \in {"map", "start worker"} => disk[at[u]] = "instance"

(* A worker niwa has a launch record for never runs in an instance no      *)
(* mapping names, where the backstop would see an unmapped orphan ("The    *)
(* mapping goes in before the launch").                                    *)
RunningWorkersAreMapped ==
    \A p \in Path :
        launch[p] # None /\ (\E s \in RecordsAt(p) \ ActivitySession : sess[s] = "running")
            => MappedTo(p) # {}

-----------------------------------------------------------------------------
(* Destroy. *)

(* Without --force, destroy removes an instance only if none of the        *)
(* sessions mapped to it by then was running when the sessions were        *)
(* listed: what the user confirmed is what is removed.  The instance of a  *)
(* dispatch is the exception: a destroy that chose it before the dispatch  *)
(* mapped its session lists nothing in its preflight, lists after the      *)
(* prompt, keeps the running session with its mapping and still removes    *)
(* the directory under it.                                                 *)
UnforcedDestroyFoundNobody ==
    [][\A d \in Destroyer :
           pc[d] = "remove" /\ disk' # disk /\ ~opts[d].force /\ at[d] \notin Fresh
               => \A s \in MappedTo(at[d]) : s \notin listing[d].running]_vars

-----------------------------------------------------------------------------
(* Dispatch. *)

(* A dispatch that rolls back takes its instance from nobody: no mapping   *)
(* and no launch record names it by then, so no reap, resume or list knows *)
(* a session there.                                                        *)
RollbackOrphansNobody ==
    [][\A d \in Dispatcher : pc[d] = "rollback" /\ pc'[d] = "done" =>
            MappedTo(at[d]) = {} /\ launch[at[d]] = None]_vars

(* A dispatch that maps its session has a complete record of it before the *)
(* mapping can make anybody act on it: the authority the worker runs under *)
(* and its lineage are on disk for as long as the mapping is.              *)
MappedDispatchIsRecorded ==
    \A d \in Dispatcher : \A s \in MappedTo(TokenPath[d]) :
        authority[TokenPath[d]] /\ lineage[TokenPath[d]]
=============================================================================
