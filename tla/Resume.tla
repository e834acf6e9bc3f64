------------------------------- MODULE Resume -------------------------------
(***************************************************************************)
(* `niwa resume': runResume in cli/resume.go.                              *)
(*                                                                         *)
(* The launch record is resolved first, then the instance's lock is taken  *)
(* and held until the command returns: through the checks, the restore of  *)
(* an instance that is gone, the mapping write, the launch and the         *)
(* capture.  The record is not read again under the lock.                  *)
(***************************************************************************)
EXTENDS InstanceStore

VARIABLES
    rec,       \* [Resumer -> Session or None]: the launch record's session
    prev,      \* [Resumer -> Mapping or NoMapping]: what was mapped before
    restored,  \* [Resumer -> BOOLEAN]: this command provisioned the instance
    started    \* [Resumer -> Session or None]: the session it launched

resumeVars == <<rec, prev, restored, started>>

ResumePC == {"start", "resolved", "check", "restore", "provision", "map",
             "start worker", "capture", "rekey", "finish", "undo", "rollback", "done"}

ResumeTypeOK ==
    /\ rec \in [Resumer -> Session \cup {None}]
    /\ prev \in [Resumer -> Mapping \cup {NoMapping}]
    /\ restored \in [Resumer -> BOOLEAN]
    /\ started \in [Resumer -> Session \cup {None}]

-----------------------------------------------------------------------------
(* resolveWorkerTarget: no lock is held yet.  Only an agent that declares a *)
(* resume can be resumed, and the activity answered one does not.           *)
ResolveRecord(u, p) ==
    /\ pc[u] = "start"
    /\ launch[p] \in Session \ ActivitySession
    /\ rec' = [rec EXCEPT ![u] = launch[p]]
    /\ at' = [at EXCEPT ![u] = p]
    /\ Goto(u, "resolved")
    /\ UNCHANGED <<worldVars, prev, restored, started>>

(* Mutant: the lock is taken whoever holds it. *)
TakeHeldResumeLock(u) ==
    /\ pc[u] = "resolved"
    /\ Lock(u, at[u])
    /\ Goto(u, "check")
    /\ UNCHANGED <<fileVars, crashes, at, resumeVars>>

TakeResumeLock(u) ==
    /\ pc[u] = "resolved"
    /\ LockFree(at[u])
    /\ Lock(u, at[u])
    /\ Goto(u, "check")
    /\ UNCHANGED <<fileVars, crashes, at, resumeVars>>

RefuseHeld(u) ==
    /\ pc[u] = "resolved"
    /\ ~LockFree(at[u])
    /\ Goto(u, "done")
    /\ at' = [at EXCEPT ![u] = None]
    /\ UNCHANGED <<worldVars, resumeVars>>

(* checkWorkerInstance and the session listing.  A resume goes on only     *)
(* when its session is not running, has a transcript, and, with the        *)
(* instance present, is no longer listed at all.                           *)
Resumable(u) ==
    /\ disk[at[u]] # "husk"
    /\ sess[rec[u]] \notin {"running", "expired"}
    /\ disk[at[u]] = "instance" => sess[rec[u]] \notin Listed

PassChecks(u) ==
    /\ pc[u] = "check"
    /\ Resumable(u)
    /\ Goto(u, IF disk[at[u]] = "instance" THEN "map" ELSE "restore")
    /\ UNCHANGED <<worldVars, at, resumeVars>>

(* A check refuses, or the listing or the agent's binary isn't there. *)
Refuse(u) ==
    /\ pc[u] = "check"
    /\ Return(u)
    /\ UNCHANGED <<fileVars, crashes, resumeVars>>

(* provisionInstanceNamed.  The directory is made first and its state file *)
(* written last, so the path is not an instance until the end.             *)
BeginRestore(u) ==
    /\ pc[u] = "restore"
    /\ disk' = [disk EXCEPT ![at[u]] = "husk"]
    /\ Goto(u, "provision")
    /\ UNCHANGED <<retain, aged, lock, mapping, launch, sess, home, crashes, at, resumeVars>>

Restore(u) ==
    /\ pc[u] = "provision"
    /\ disk' = [disk EXCEPT ![at[u]] = "instance"]
    /\ restored' = [restored EXCEPT ![u] = TRUE]
    /\ Goto(u, "map")
    /\ UNCHANGED <<retain, aged, lock, mapping, launch, sess, home, crashes, at,
                   rec, prev, started>>

(* A failed pipeline removes the directory, a failed state save leaves it, *)
(* and a failed delivery outside the instance leaves a whole instance.     *)
RestoreFails(u) ==
    /\ pc[u] = "provision"
    /\ \E left \in {"absent", "husk", "instance"} :
           disk' = [disk EXCEPT ![at[u]] = left]
    /\ Return(u)
    /\ UNCHANGED <<retain, aged, mapping, launch, sess, home, crashes, resumeVars>>

-----------------------------------------------------------------------------
(* The mapping goes in before the launch. *)
NewMapping(u, s) == [sess |-> s, path |-> at[u], fails |-> 0, writer |-> u]

(* Mutant: the mapping is left to the capture. *)
SkipMapping(u) ==
    /\ pc[u] = "map"
    /\ Goto(u, "start worker")
    /\ UNCHANGED <<worldVars, at, resumeVars>>

WriteMapping(u) ==
    /\ pc[u] = "map"
    /\ prev' = [prev EXCEPT ![u] = mapping[rec[u]]]
    /\ mapping' = [mapping EXCEPT ![rec[u]] = NewMapping(u, rec[u])]
    /\ Goto(u, "start worker")
    /\ UNCHANGED <<disk, retain, aged, lock, launch, sess, home, crashes, at,
                   rec, restored, started>>

(* No resume command can be built, or the mapping can't be written. *)
MappingFails(u) ==
    /\ pc[u] = "map"
    /\ Goto(u, "rollback")
    /\ UNCHANGED <<worldVars, at, resumeVars>>

(* claude --bg --resume: the session goes on under its own id or a new one. *)
LaunchWorker(u, s) ==
    /\ pc[u] = "start worker"
    /\ s = rec[u] \/ sess[s] = "unborn"
    /\ s = rec[u] => sess[s] # "idle"
    /\ sess' = [sess EXCEPT ![s] = "running"]
    /\ home' = [home EXCEPT ![s] = at[u]]
    /\ started' = [started EXCEPT ![u] = s]
    /\ Goto(u, "capture")
    /\ UNCHANGED <<disk, retain, aged, lock, mapping, launch, crashes, at,
                   rec, prev, restored>>

LaunchFails(u) ==
    /\ pc[u] = "start worker"
    /\ Goto(u, "undo")
    /\ UNCHANGED <<worldVars, at, resumeVars>>

(* unmap: the mapping that was there goes back, or none; an error is       *)
(* dropped.                                                                *)
Unmap(u) ==
    /\ pc[u] = "undo"
    /\ mapping' \in {mapping, [mapping EXCEPT ![rec[u]] = prev[u]]}
    /\ Goto(u, "rollback")
    /\ UNCHANGED <<disk, retain, aged, lock, launch, sess, home, crashes, at, resumeVars>>

(* rollback: only an instance this command restored is destroyed. *)
Rollback(u) ==
    /\ pc[u] = "rollback"
    /\ IF restored[u]
       THEN \E left \in RemovalOutcome(at[u]) : RemovedTo(at[u], left)
       ELSE UNCHANGED <<disk, retain, aged>>
    /\ Return(u)
    /\ UNCHANGED <<mapping, launch, sess, home, crashes, resumeVars>>

-----------------------------------------------------------------------------
(* The capture timed out or was ambiguous, or the mapping's rewrite failed: *)
(* the session stays mapped under the recorded id.                          *)
CaptureFails(u) ==
    /\ pc[u] = "capture"
    /\ Return(u)
    /\ UNCHANGED <<fileVars, crashes, resumeVars>>

Capture(u, s) ==
    /\ pc[u] = "capture"
    /\ RecordsAt(at[u]) = {s}
    /\ mapping' = [mapping EXCEPT ![s] = NewMapping(u, s)]
    /\ started' = [started EXCEPT ![u] = s]
    /\ Goto(u, IF s = rec[u] THEN "finish" ELSE "rekey")
    /\ UNCHANGED <<disk, retain, aged, lock, launch, sess, home, crashes, at,
                   rec, prev, restored>>

(* The old id's mapping goes, then the launch record is rewritten; either  *)
(* may fail.                                                               *)
DropOldMapping(u) ==
    /\ pc[u] = "rekey"
    /\ mapping' \in {mapping, [mapping EXCEPT ![rec[u]] = NoMapping]}
    /\ Goto(u, "finish")
    /\ UNCHANGED <<disk, retain, aged, lock, launch, sess, home, crashes, at, resumeVars>>

Finish(u) ==
    /\ pc[u] = "finish"
    /\ \/ UNCHANGED launch
       \/ started[u] # rec[u] /\ launch' = [launch EXCEPT ![at[u]] = started[u]]
    /\ Return(u)
    /\ UNCHANGED <<disk, retain, aged, mapping, sess, home, crashes, resumeVars>>

ResumeStep(u) ==
    \/ \E p \in Path : ResolveRecord(u, p)
    \/ TakeResumeLock(u) \/ RefuseHeld(u) \/ PassChecks(u) \/ Refuse(u)
    \/ BeginRestore(u) \/ Restore(u) \/ RestoreFails(u)
    \/ WriteMapping(u) \/ MappingFails(u)
    \/ (\E s \in Session : LaunchWorker(u, s)) \/ LaunchFails(u)
    \/ Unmap(u) \/ Rollback(u)
    \/ CaptureFails(u) \/ (\E s \in Session : Capture(u, s))
    \/ DropOldMapping(u) \/ Finish(u)
=============================================================================
