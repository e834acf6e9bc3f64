------------------------------ MODULE Dispatch ------------------------------
(***************************************************************************)
(* `niwa dispatch': runDispatch in cli/dispatch.go, from provisioning to   *)
(* the launch record.  (The sweep it runs first is a sweep of Reap.)       *)
(*                                                                         *)
(* A dispatch takes no instance lock: its instance is new, under a name    *)
(* nobody else has.  A backgrounded or detached dispatch lets go of its    *)
(* worker and rolls everything back if it cannot identify the session; a   *)
(* foreground one waits for the turn to end, keeps the instance whatever   *)
(* happens next, and marks it to be kept when it cannot map it.            *)
(***************************************************************************)
EXTENDS InstanceStore

CONSTANT TokenPath    \* [Dispatcher -> Path]: the fresh name each one draws

ASSUME TokenPathAssumption ==
    /\ TokenPath \in [Dispatcher -> DispatchNamed]
    /\ \A d, e \in Dispatcher : TokenPath[d] = TokenPath[e] => d = e

VARIABLES
    lineage,    \* [Path -> BOOLEAN]: its dispatch has its lineage entry
    authority,  \* [Path -> BOOLEAN]: the copy of the authority record
    worker,     \* [Dispatcher -> Session or None]: the session it identified
    foreground  \* [Dispatcher -> BOOLEAN]: its launch mode is LaunchForeground

dispatchVars == <<lineage, authority, worker, foreground>>

DispatchPC == {"start", "provision", "files", "lineage", "launch", "turn", "capture",
               "map", "record", "retain", "rollback", "done"}

DispatchTypeOK ==
    /\ lineage \in [Path -> BOOLEAN]
    /\ authority \in [Path -> BOOLEAN]
    /\ worker \in [Dispatcher -> Session \cup {None}]
    /\ foreground \in [Dispatcher -> BOOLEAN]

(* ModeFor: of the two agents, the one answered by activity has a          *)
(* foreground runner, and its turn runs in the foreground unless the       *)
(* command was given --detach.                                             *)
Foreground(s, detach) == s \in ActivitySession /\ ~detach

-----------------------------------------------------------------------------
BeginProvision(d) ==
    /\ pc[d] = "start"
    /\ disk[TokenPath[d]] = "absent"
    /\ disk' = [disk EXCEPT ![TokenPath[d]] = "husk"]
    /\ at' = [at EXCEPT ![d] = TokenPath[d]]
    /\ Goto(d, "provision")
    /\ UNCHANGED <<retain, aged, lock, mapping, launch, sess, home, crashes, dispatchVars>>

Provision(d) ==
    /\ pc[d] = "provision"
    /\ disk' = [disk EXCEPT ![at[d]] = "instance"]
    /\ Goto(d, "files")
    /\ UNCHANGED <<retain, aged, lock, mapping, launch, sess, home, crashes, at, dispatchVars>>

(* The rollback is not armed yet: what the failed create left stays. *)
ProvisionFails(d) ==
    /\ pc[d] = "provision"
    /\ \E left \in {"absent", "husk", "instance"} :
           disk' = [disk EXCEPT ![at[d]] = left]
    /\ Return(d)
    /\ UNCHANGED <<retain, aged, mapping, launch, sess, home, crashes, dispatchVars>>

(* Mutant: the copy at the workspace root is not written. *)
SkipAuthority(d) ==
    /\ pc[d] = "files"
    /\ Goto(d, "lineage")
    /\ UNCHANGED <<worldVars, at, dispatchVars>>

(* The pending marker, the authority record and its copy. *)
WriteAuthority(d) ==
    /\ pc[d] = "files"
    /\ authority' = [authority EXCEPT ![at[d]] = TRUE]
    /\ Goto(d, "lineage")
    /\ UNCHANGED <<worldVars, at, lineage, worker, foreground>>

CreateLineage(d) ==
    /\ pc[d] = "lineage"
    /\ lineage' = [lineage EXCEPT ![at[d]] = TRUE]
    /\ Goto(d, "launch")
    /\ UNCHANGED <<worldVars, at, authority, worker, foreground>>

(* A write fails, a signal arrived, or the worker cannot be started. *)
EarlyFailure(d) ==
    /\ pc[d] \in {"files", "lineage", "launch"}
    /\ Goto(d, "rollback")
    /\ UNCHANGED <<worldVars, at, dispatchVars>>

(* A worker that dies at its start leaves no record niwa can find. *)
LaunchDispatched(d, s) ==
    /\ pc[d] = "launch"
    /\ sess[s] = "unborn"
    /\ \E state \in {"running", "unseen"} : sess' = [sess EXCEPT ![s] = state]
    /\ home' = [home EXCEPT ![s] = at[d]]
    /\ \E detach \in BOOLEAN :
           /\ foreground' = [foreground EXCEPT ![d] = Foreground(s, detach)]
           /\ Goto(d, IF Foreground(s, detach) THEN "turn" ELSE "capture")
    /\ UNCHANGED <<disk, retain, aged, lock, mapping, launch, crashes, at,
                   lineage, authority, worker>>

(* The foreground process exits; success is set before the capture. *)
TurnEnds(d) ==
    /\ pc[d] = "turn"
    /\ sess' = [s \in Session |-> IF home[s] = at[d] /\ sess[s] = "running"
                                 THEN "idle" ELSE sess[s]]
    /\ Goto(d, "capture")
    /\ UNCHANGED <<disk, retain, aged, lock, mapping, launch, home, crashes, at, dispatchVars>>

(* captureSessionID.  completeLineageEntry then adds the session's id to   *)
(* the entry that is there, or warns.                                      *)
CaptureDispatched(d, s) ==
    /\ pc[d] = "capture"
    /\ RecordsAt(at[d]) = {s}
    /\ worker' = [worker EXCEPT ![d] = s]
    /\ Goto(d, "map")
    /\ UNCHANGED <<worldVars, at, lineage, authority, foreground>>

(* Mutant: a launch record that can't be written rolls back too. *)
CannotRecord(d) ==
    /\ pc[d] \in {"capture", "map", "record"}
    /\ Goto(d, IF foreground[d] THEN "retain" ELSE "rollback")
    /\ UNCHANGED <<worldVars, at, dispatchVars>>

(* The capture timed out, or the mapping could not be written. *)
CannotMap(d) ==
    /\ pc[d] \in {"capture", "map"}
    /\ Goto(d, IF foreground[d] THEN "retain" ELSE "rollback")
    /\ UNCHANGED <<worldVars, at, dispatchVars>>

WriteDispatchMapping(d) ==
    /\ pc[d] = "map"
    /\ mapping' = [mapping EXCEPT ![worker[d]] =
           [sess |-> worker[d], path |-> at[d], fails |-> 0, writer |-> d]]
    /\ Goto(d, "record")
    /\ UNCHANGED <<disk, retain, aged, lock, launch, sess, home, crashes, at, dispatchVars>>

(* The command returns, and its mode with it. *)
Exit(d) ==
    /\ Return(d)
    /\ foreground' = [foreground EXCEPT ![d] = FALSE]
    /\ UNCHANGED <<lineage, authority, worker>>

(* The launch record; a write that fails only warns. *)
WriteLaunchRecord(d) ==
    /\ pc[d] = "record"
    /\ launch' \in {launch, [launch EXCEPT ![at[d]] = worker[d]]}
    /\ Exit(d)
    /\ UNCHANGED <<disk, retain, aged, mapping, sess, home, crashes>>

(* writeDispatchRetainMarker makes the .niwa directory it writes into when *)
(* the instance is gone.                                                   *)
WriteRetainMarker(d) ==
    /\ pc[d] = "retain"
    /\ retain' = [retain EXCEPT ![at[d]] = TRUE]
    /\ disk' = [disk EXCEPT ![at[d]] = IF @ = "absent" THEN "husk" ELSE @]
    /\ Exit(d)
    /\ UNCHANGED <<aged, mapping, launch, sess, home, crashes>>

(* A marker that can't be written only warns. *)
RetainMarkerFails(d) ==
    /\ pc[d] = "retain"
    /\ Exit(d)
    /\ UNCHANGED <<disk, retain, aged, mapping, launch, sess, home, crashes>>

(* The deferred rollback: no lock, and each failed removal is ignored. *)
RollbackDispatch(d) ==
    /\ pc[d] = "rollback"
    /\ lineage' \in {lineage, [lineage EXCEPT ![at[d]] = FALSE]}
    /\ authority' \in {authority, [authority EXCEPT ![at[d]] = FALSE]}
    /\ \E left \in RemovalOutcome(at[d]) : RemovedTo(at[d], left)
    /\ Return(d)
    /\ UNCHANGED <<mapping, launch, sess, home, crashes, worker, foreground>>

DispatchStep(d) ==
    \/ BeginProvision(d) \/ Provision(d) \/ ProvisionFails(d)
    \/ WriteAuthority(d) \/ CreateLineage(d) \/ EarlyFailure(d)
    \/ (\E s \in Session : LaunchDispatched(d, s)) \/ TurnEnds(d)
    \/ (\E s \in Session : CaptureDispatched(d, s)) \/ CannotMap(d)
    \/ WriteDispatchMapping(d) \/ WriteLaunchRecord(d)
    \/ WriteRetainMarker(d) \/ RetainMarkerFails(d) \/ RollbackDispatch(d)
=============================================================================
