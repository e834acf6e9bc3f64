--------------------------- MODULE InstanceStore ---------------------------
(***************************************************************************)
(* The state niwa's commands share, all of it in files: the instance      *)
(* directories under the workspace root, the per-instance locks, the       *)
(* session mappings, the launch records, and the records the agents keep   *)
(* of their own sessions.  niwa has no daemon: each command is a process   *)
(* that reads and writes these files, so a step of a command is one read   *)
(* or one write of them and the steps of several commands interleave.      *)
(*                                                                         *)
(* The commands themselves are in Reap, Resume, Destroy and Dispatch;      *)
(* InstanceLifecycle composes them.                                        *)
(***************************************************************************)
EXTENDS Naturals, FiniteSets

CONSTANTS
    Path,               \* the instance paths of one workspace
    DispatchNamed,      \* the paths whose base name is a dispatch instance's
    Session,            \* the session ids
    ActivitySession,    \* the sessions of an agent answered by activity
    Reaper, Resumer, Destroyer, Dispatcher,  \* processes, by their command
    None,               \* no process, no path, no session
    OnReapFailureLimit, \* failed on-reap runs before a mapping is dropped
    MaxCrashes,         \* bound: processes that die between two steps
    PartialDestroy      \* may a removal fail with part of the tree removed?

Proc == Reaper \cup Resumer \cup Destroyer \cup Dispatcher

ASSUME ConstantsAssumption ==
    /\ DispatchNamed \subseteq Path
    /\ ActivitySession \subseteq Session
    /\ OnReapFailureLimit \in Nat \ {0}
    /\ MaxCrashes \in Nat
    /\ PartialDestroy \in BOOLEAN
    /\ None \notin Proc \cup Path \cup Session
    /\ Reaper \cap (Resumer \cup Destroyer \cup Dispatcher) = {}
    /\ Resumer \cap (Destroyer \cup Dispatcher) = {}
    /\ Destroyer \cap Dispatcher = {}

VARIABLES
    disk,      \* [Path -> "absent" | "instance" | "husk"]: what is at the path
    retain,    \* [Path -> BOOLEAN]: the retain marker is in the instance
    aged,      \* [Path -> BOOLEAN]: its age is past the backstop's TTL
    lock,      \* [Path -> Proc or None]: who holds the instance's flock
    mapping,   \* [Session -> Mapping or NoMapping]: the session mapping store
    launch,    \* [Path -> Session or None]: the launch record's session id
    sess,      \* [Session -> SessionState]: what the agent's records say
    home,      \* [Session -> Path or None]: the directory it is rooted in
    pc,        \* [Proc -> step]: where each process is
    at,        \* [Proc -> Path or None]: the instance it is working on
    ran,       \* [Proc -> BOOLEAN]: its last on-reap run succeeded
    crashes    \* how many processes have died so far

worldVars == <<disk, retain, aged, lock, mapping, launch, sess, home, crashes>>
fileVars == <<disk, retain, aged, mapping, launch, sess, home>>

(***************************************************************************)
(* A session mapping.  `writer' is the process that wrote it and stands    *)
(* for the Created time: every command that writes a mapping stamps a new  *)
(* one, so two mappings are the same file contents only if both the writer *)
(* and the failure count agree.                                            *)
(***************************************************************************)
Mapping == [sess: Session, path: Path, fails: 0..OnReapFailureLimit,
            writer: Proc \cup {None}]
NoMapping == [sess |-> None, path |-> None, fails |-> 0, writer |-> None]

(***************************************************************************)
(* A session as its agent's records show it.                               *)
(*   unborn   the id has not been given out                                *)
(*   running  its process is alive and it has a record                     *)
(*   idle     it stopped and can be come back to; the record is there      *)
(*   gone     deleted (a job entry removed) or, for an agent answered by   *)
(*            activity, untouched past the grace period                    *)
(*   expired  gone, and its transcript removed by the agent's retention    *)
(*   unseen   a worker that left no record niwa can find                   *)
(***************************************************************************)
SessionState == {"unborn", "running", "idle", "gone", "expired", "unseen"}
Listed == {"running", "idle"}

StoreTypeOK ==
    /\ disk \in [Path -> {"absent", "instance", "husk"}]
    /\ retain \in [Path -> BOOLEAN]
    /\ aged \in [Path -> BOOLEAN]
    /\ lock \in [Path -> Proc \cup {None}]
    /\ mapping \in [Session -> Mapping \cup {NoMapping}]
    /\ launch \in [Path -> Session \cup {None}]
    /\ sess \in [Session -> SessionState]
    /\ home \in [Session -> Path \cup {None}]
    /\ at \in [Proc -> Path \cup {None}]
    /\ ran \in [Proc -> BOOLEAN]
    /\ crashes \in 0..MaxCrashes

-----------------------------------------------------------------------------
(* Reading the store. *)

Mapped == {s \in Session : mapping[s] # NoMapping}
MappedTo(p) == {s \in Mapped : mapping[s].path = p}

(* matchRecordByCwd: the sessions whose record says they are rooted in p.  *)
(* The capture of a launched worker is the one of them, when there is one. *)
RecordsAt(p) == {s \in Session : home[s] = p /\ sess[s] \in Listed}

(* Mutant: only the mapped session counts as a worker in the instance.     *)
RootedByMapping(p) == RecordsAt(p) \cap MappedTo(p) # {}

(* instanceHasLiveJob or instanceHasRecordedSession: some agent's records  *)
(* show a session, of whatever id, rooted in p.                            *)
Rooted(p) == RecordsAt(p) # {}

(* sessionState: what the agent's own rule for proving a session gone says *)
(* about session s of the instance p.  For an agent answered by activity a *)
(* session with no record at p is unreadable.                              *)
Verdict(s, p) ==
    IF s \in ActivitySession
    THEN IF home[s] # p \/ sess[s] \in {"unborn", "unseen"} THEN "unreadable"
         ELSE IF sess[s] \in Listed THEN "live" ELSE "gone"
    ELSE IF sess[s] \in Listed THEN "live" ELSE "gone"

-----------------------------------------------------------------------------
(* Writing the store. *)

(* takeInstanceLock is one non-blocking try; it succeeds when LockFree.    *)
LockFree(p) == lock[p] = None
Lock(x, p) == lock' = [lock EXCEPT ![p] = x]
Unlock(x) == lock' = [q \in Path |-> IF lock[q] = x THEN None ELSE lock[q]]

(* Mutant: a command returns without its deferred release. *)
ReturnHolding(x) ==
    /\ pc' = [pc EXCEPT ![x] = "done"]
    /\ at' = [at EXCEPT ![x] = None]
    /\ UNCHANGED lock

(* A step of a process, and a command's return: the deferred release of    *)
(* the instance's lock runs on every way out.                              *)
Goto(x, step) == pc' = [pc EXCEPT ![x] = step]

Return(x) ==
    /\ Goto(x, "done")
    /\ at' = [at EXCEPT ![x] = None]
    /\ Unlock(x)

(* DestroyInstance on p, as the outcomes it can leave: the directory gone  *)
(* and no error; an error with nothing removed (the directory is not a     *)
(* valid instance, or the first removal fails); an error with the state    *)
(* file already removed, which leaves a directory that is not an instance. *)
(* os.RemoveAll removes all it can before it returns the first error.      *)
RemovalOutcome(p) ==
    IF disk[p] # "instance" THEN {disk[p]}
    ELSE {"absent", "instance"} \cup (IF PartialDestroy THEN {"husk"} ELSE {})

RemovedTo(p, left) ==
    /\ disk' = [disk EXCEPT ![p] = left]
    /\ retain' = [retain EXCEPT ![p] = IF left = "instance" THEN @ ELSE FALSE]
    /\ aged' = [aged EXCEPT ![p] = IF left = "instance" THEN @ ELSE FALSE]

(* Mutant: no limit on the failed runs. *)
SettledForever(m, ok) ==
    mapping' \in {mapping, [mapping EXCEPT ![m.sess] =
        IF ok THEN NoMapping ELSE [m EXCEPT !.fails = @ + 1]]}

(* onReapStep.settle, once the command has run for the mapping m: success  *)
(* or the last allowed failure deletes the stored mapping of m's session,  *)
(* any other failure writes m back with its count raised.  A write or a    *)
(* delete that fails only warns.                                           *)
Settled(m, ok) ==
    mapping' \in {mapping, [mapping EXCEPT ![m.sess] =
        IF ok \/ m.fails + 1 >= OnReapFailureLimit THEN NoMapping
        ELSE [m EXCEPT !.fails = @ + 1]]}

-----------------------------------------------------------------------------
(* What changes the store without a niwa command: the agents, their users, *)
(* and the clock.                                                          *)

(* A turn ends and the session waits to be come back to.  A foreground     *)
(* turn ends with the dispatch that waits for it: see Dispatch.            *)
SessionIdles(s) ==
    /\ sess[s] = "running"
    /\ \A d \in Dispatcher : pc[d] = "turn" => at[d] # home[s]
    /\ sess' = [sess EXCEPT ![s] = "idle"]
    /\ UNCHANGED <<disk, retain, aged, lock, mapping, launch, home, crashes>>

(* The user attaches to an idle session, or sends it a message.  A session *)
(* answered by activity has its record for good, and can be come back to   *)
(* after the grace period too.                                             *)
SessionPrompted(s) ==
    /\ sess[s] = "idle" \/ (s \in ActivitySession /\ sess[s] = "gone")
    /\ sess' = [sess EXCEPT ![s] = "running"]
    /\ UNCHANGED <<disk, retain, aged, lock, mapping, launch, home, crashes>>

(* The user deletes a stopped session in the Agent View, or an activity    *)
(* answered session goes untouched past the grace period.                  *)
SessionGoes(s) ==
    /\ sess[s] = "idle"
    /\ sess' = [sess EXCEPT ![s] = "gone"]
    /\ UNCHANGED <<disk, retain, aged, lock, mapping, launch, home, crashes>>

(* The agent's retention removes a deleted session's transcript. *)
TranscriptExpires(s) ==
    /\ sess[s] = "gone" /\ s \notin ActivitySession
    /\ sess' = [sess EXCEPT ![s] = "expired"]
    /\ UNCHANGED <<disk, retain, aged, lock, mapping, launch, home, crashes>>

(* The half hour dispatchBackstopTTL passes.  A dispatch that is between   *)
(* provisioning and launching is younger than that (R38): see Dispatch.    *)
InstanceAges(p) ==
    /\ disk[p] = "instance"
    /\ ~aged[p]
    /\ \A d \in Dispatcher : at[d] = p => pc[d] \notin {"files", "lineage", "launch"}
    /\ aged' = [aged EXCEPT ![p] = TRUE]
    /\ UNCHANGED <<disk, retain, lock, mapping, launch, sess, home, crashes>>

World == \/ \E s \in Session : \/ SessionIdles(s) \/ SessionPrompted(s)
                                \/ SessionGoes(s) \/ TranscriptExpires(s)
         \/ \E p \in Path : InstanceAges(p)
=============================================================================
