------------------------------- MODULE Retask -------------------------------
(***************************************************************************)
(* Handing a worker its next task in the session it has: stop it, wait for *)
(* the stop to settle, wake it with the prompt and nothing else, and look  *)
(* whether the same session took it or the agent started a copy.  `niwa    *)
(* retask` does this for a dispatched worker, `niwa watch` for a review.   *)
(* All of it runs under the instance's lock, taken by one try.             *)
(***************************************************************************)
EXTENDS ReviewWorld

CONSTANTS Cli, Pass      (* retasks of dispatched workers; watch passes    *)

ASSUME CallersDiffer == Cli \cap Pass = {} /\ None \notin Cli \cup Pass

Caller == Cli \cup Pass

VARIABLES
    lock,     (* who holds each instance's lock                            *)
    pc,       (* where each caller is                                      *)
    job,      (* the worker it acts on, as it read it                      *)
    live,     (* it was classified with a process, so it is to be stopped  *)
    copies,   (* the copies it has found and not yet removed               *)
    buf,      (* the handled heads it read, to write back                  *)
    sent,     (* history: the wakes sent to a session, by head, up to two  *)
    unsure,   (* history: sessions sent a wake nobody saw them take        *)
    reviewed, (* history: the heads of a pull request put to a session     *)
    of        (* history: the pull request a session was launched to review *)

coreVars == <<lock, pc, job, live, copies, buf>>
history == <<sent, unsure, reviewed, of>>

Job == [sess : Session \cup {None}, inst : Instance \cup {None}, pr : PR \cup {0},
        rec : Record \cup {NoRecord}, h : Sha \cup {0}]
NoJob == [sess |-> None, inst |-> None, pr |-> 0, rec |-> NoRecord, h |-> 0]
NotRead == [p \in PR |-> NeverHandled]

RetaskTypeOK ==
    /\ lock \in [Instance -> Caller \cup {None}]
    /\ job \in [Caller -> Job]
    /\ live \in [Caller -> BOOLEAN]
    /\ copies \in [Caller -> SUBSET Session]
    /\ buf \in [Caller -> [PR -> {NeverHandled, UnknownHead} \cup Sha]]
    /\ sent \in [Session -> [Sha -> 0..2]]
    /\ unsure \subseteq Session
    /\ reviewed \subseteq PR \X Sha
    /\ of \in [Session -> PR \cup {0}]

At(x, label) == pc[x] = label
Goto(x, label) == pc' = [pc EXCEPT ![x] = label]
Worker(x) == job[x].sess
Place(x) == job[x].inst
Strays(x) == LiveIn(Place(x)) \ {Worker(x)}

TakeLock(x, i) == lock[i] = None /\ lock' = [lock EXCEPT ![i] = x]
Release(x) == lock' = [i \in Instance |-> IF lock[i] = x THEN None ELSE lock[i]]

(* A caller that acts on the worker's session, and nothing of niwa's.      *)
ActsOn(s, state) ==
    /\ row' = [row EXCEPT ![s] = state]
    /\ UNCHANGED <<root, mapped, disk, githubVars, watchFiles>>

(* Mutant: the lock is not given back. *)
RefusedHolding(x) ==
    /\ Goto(x, "refused")
    /\ live' = [live EXCEPT ![x] = FALSE]
    /\ UNCHANGED <<worldVars, lock, job, copies, buf, history>>

(* A refusal before the wake: nothing was sent; the lock is released, and  *)
(* a watch pass prints one line and goes on, or fails when the head can't  *)
(* be fetched.                                                             *)
Refused(x) ==
    /\ Release(x)
    /\ Goto(x, "refused")
    /\ live' = [live EXCEPT ![x] = FALSE]
    /\ UNCHANGED <<worldVars, job, copies, buf, history>>

TakeRetaskLock(x) ==
    /\ At(x, "lock")
    /\ \/ /\ TakeLock(x, Place(x))
          /\ disk[Place(x)]
          /\ Goto(x, "classify")
          /\ UNCHANGED <<worldVars, job, live, copies, buf, history>>
       \/ (lock[Place(x)] # None \/ ~disk[Place(x)]) /\ Refused(x)

(* One listing and the job state: a worker with a process that is idle, or *)
(* one that is stopped with its job entry.                                 *)
Retaskable(x) == row[Worker(x)] \in {"idle", "stopping", "stopped"} /\ Strays(x) = {}

Classify(x) ==
    /\ At(x, "classify")
    /\ \/ /\ Retaskable(x)
          /\ live' = [live EXCEPT ![x] = row[Worker(x)] \in Running]
          /\ Goto(x, "prestop")
          /\ UNCHANGED <<worldVars, lock, job, copies, buf, history>>
       \/ Refused(x)

(* retask: the saved options are the record's, and no policy is stricter.  *)
CheckOptions(x) ==
    /\ At(x, "prestop") /\ x \in Cli
    /\ \/ /\ Goto(x, IF live[x] THEN "stop" ELSE "reread")
          /\ UNCHANGED <<worldVars, lock, job, live, copies, buf, history>>
       \/ Refused(x)

(* Mutant: the record is there, whatever it says by now. *)
RecordIsThere(x) == staged[HandleOf[job[x].pr]] # NoRecord

(* watch: the staged record is still the one the pass read, and the        *)
(* session, read again, is still idle.                                     *)
RecordUnchanged(x) ==
    LET cur == staged[HandleOf[job[x].pr]] IN
    /\ cur # NoRecord
    /\ <<cur.sess, cur.halted, cur.base, cur.inst>> =
       <<job[x].rec.sess, job[x].rec.halted, job[x].rec.base, job[x].rec.inst>>

PreStop(x) ==
    /\ At(x, "prestop") /\ x \in Pass
    /\ \/ /\ RecordUnchanged(x)
          /\ row[Worker(x)] \in {"idle", "stopping", "stopped"}
          /\ Goto(x, IF live[x] THEN "stop" ELSE "prewake")
          /\ UNCHANGED <<worldVars, lock, job, live, copies, buf, history>>
       \/ Refused(x)

Stop(x) ==
    /\ At(x, "stop")
    /\ \/ /\ Listed(Worker(x))
          /\ ActsOn(Worker(x), IF row[Worker(x)] \in Running THEN "stopping" ELSE "stopped")
          /\ UNCHANGED wakes
          /\ Goto(x, "settle")
          /\ UNCHANGED <<lock, job, live, copies, buf, history>>
       \/ Refused(x)

WaitStopped(x) ==
    /\ At(x, "settle")
    /\ \/ /\ row[Worker(x)] = "stopped"
          /\ Goto(x, IF x \in Pass THEN "prewake" ELSE "reread")
          /\ UNCHANGED <<worldVars, lock, job, live, copies, buf, history>>
       \/ row[Worker(x)] # "stopped" /\ Refused(x)

(* watch: the head is fetched, the gate passes the instance's settings, and *)
(* the pending marker goes into the record.                                *)
SaveRecord(x, r) == staged' = [staged EXCEPT ![HandleOf[job[x].pr]] = r]

(* Mutant: no marker goes into the record. *)
PreWakeUnmarked(x) ==
    /\ At(x, "prewake")
    /\ Goto(x, "reread")
    /\ UNCHANGED <<worldVars, lock, job, live, copies, buf, history>>

PreWake(x) ==
    /\ At(x, "prewake")
    /\ \/ /\ SaveRecord(x, [job[x].rec EXCEPT !.halted = job[x].h])
          /\ job' = [job EXCEPT ![x].rec.halted = job[x].h]
          /\ Goto(x, "reread")
          /\ UNCHANGED <<sessionVars, disk, githubVars, handled, lock, live, copies, buf, history>>
       \/ Refused(x)
       \/ /\ Release(x)
          /\ Goto(x, "failed")
          /\ UNCHANGED <<worldVars, job, live, copies, buf, history>>

(* The last look before the wake; when it refuses, the marker is cleared.  *)
FinalReread(x) ==
    /\ At(x, "reread")
    /\ \/ row[Worker(x)] = "stopped" /\ Strays(x) = {} /\ Goto(x, "wake")
       \/ Goto(x, "postrefused")
    /\ UNCHANGED <<worldVars, lock, job, live, copies, buf, history>>

Wake(x) ==
    /\ At(x, "wake")
    /\ LET s == Worker(x)
           h == IF x \in Pass THEN job[x].h ELSE 1 IN
           /\ wakes' = [wakes EXCEPT ![s] = IF Listed(s) THEN @ \cup {h} ELSE @]
           /\ sent' = [sent EXCEPT ![s][h] = IF @ < 2 THEN @ + 1 ELSE @]
           /\ unsure' = unsure \cup {s}
           /\ reviewed' = IF x \in Pass THEN reviewed \cup {<<job[x].pr, h>>} ELSE reviewed
    /\ Goto(x, "verify")
    /\ UNCHANGED <<row, root, mapped, disk, githubVars, watchFiles,
                   lock, job, live, copies, buf, of>>

(* Listings until the bound: a new session in the instance is a copy; the  *)
(* worker running took the task; neither in time leaves it unconfirmed.    *)
Verify(x) ==
    /\ At(x, "verify")
    /\ \/ /\ Strays(x) # {}
          /\ copies' = [copies EXCEPT ![x] = Strays(x)]
          /\ Goto(x, "copies")
       \/ /\ Strays(x) = {}
          /\ row[Worker(x)] \in Running
          /\ Goto(x, "postread")
          /\ UNCHANGED copies
       \/ Goto(x, "posthalted") /\ UNCHANGED copies
    /\ UNCHANGED <<worldVars, lock, job, live, buf, history>>

(* Each copy is listed again, stopped, waited for, removed and looked for. *)
StopCopy(x, c) ==
    /\ At(x, "copies") /\ c \in copies[x]
    /\ c \in LiveIn(Place(x)) /\ row[c] \in Running
    /\ ActsOn(c, "stopping")
    /\ UNCHANGED <<wakes, coreVars, history>>

RemoveCopy(x, c) ==
    /\ At(x, "copies") /\ c \in copies[x]
    /\ row[c] = "stopped"
    /\ ActsOn(c, "gone")
    /\ wakes' = [wakes EXCEPT ![c] = {}]
    /\ copies' = [copies EXCEPT ![x] = @ \ {c}]
    /\ UNCHANGED <<lock, pc, job, live, buf, history>>

LeaveCopy(x, c) ==
    /\ At(x, "copies") /\ c \in copies[x]
    /\ copies' = [copies EXCEPT ![x] = @ \ {c}]
    /\ UNCHANGED <<worldVars, lock, pc, job, live, buf, history>>

CopiesHandled(x) ==
    /\ At(x, "copies") /\ copies[x] = {}
    /\ Goto(x, "posthalted")
    /\ UNCHANGED <<worldVars, lock, job, live, copies, buf, history>>

(***************************************************************************)
(* After the outcome, still under the lock.  retask keeps no record of it. *)
(* watch records the head as handled first and clears the marker last.     *)
(***************************************************************************)
Finish(x, label) ==
    /\ Release(x)
    /\ Goto(x, label)
    /\ live' = [live EXCEPT ![x] = FALSE]

RetaskReturns(x) ==
    /\ x \in Cli
    /\ pc[x] \in {"postread", "posthalted", "postrefused", "refused"}
    /\ Finish(x, "start")
    /\ job' = [job EXCEPT ![x] = NoJob]
    /\ unsure' = IF At(x, "postread") THEN unsure \ {Worker(x)} ELSE unsure
    /\ UNCHANGED <<worldVars, copies, buf, sent, reviewed, of>>

(* AppendHandled reads the whole file and renames a new one over it.       *)
ReadHandled(x, from, to) ==
    /\ At(x, from)
    /\ buf' = [buf EXCEPT ![x] = handled]
    /\ Goto(x, to)
    /\ UNCHANGED <<worldVars, lock, job, live, copies, history>>

(* Mutant: the head of now is recorded, not the one that was reviewed. *)
WriteHandledHead(x) ==
    /\ handled' = [buf[x] EXCEPT ![job[x].pr] = head[job[x].pr]]
    /\ buf' = [buf EXCEPT ![x] = NotRead]

WriteHandled(x) ==
    /\ handled' = IF buf[x][job[x].pr] = job[x].h THEN handled
                  ELSE [buf[x] EXCEPT ![job[x].pr] = job[x].h]
    /\ buf' = [buf EXCEPT ![x] = NotRead]

AppendDelivered(x) ==
    \/ ReadHandled(x, "postread", "postwrite")
    \/ /\ At(x, "postwrite")
       /\ \/ /\ WriteHandled(x)
             /\ Goto(x, "postsave")
             /\ UNCHANGED <<lock, live>>
          \/ /\ Finish(x, "failed")
             /\ buf' = [buf EXCEPT ![x] = NotRead]
             /\ UNCHANGED handled
       /\ UNCHANGED <<sessionVars, disk, githubVars, staged, job, copies, history>>

ClearMarker(x) ==
    /\ pc[x] \in {"postsave", "postrefused"} /\ x \in Pass
    /\ LET delivered == At(x, "postsave")
           r == [job[x].rec EXCEPT !.halted = 0,
                     !.base = IF delivered THEN job[x].h ELSE @] IN
       \/ /\ SaveRecord(x, r)
          /\ Finish(x, "next")
          /\ unsure' = IF delivered THEN unsure \ {Worker(x)} ELSE unsure
       \/ Finish(x, "failed") /\ UNCHANGED <<staged, unsure>>
    /\ UNCHANGED <<sessionVars, disk, githubVars, handled, job, copies, buf, sent, reviewed, of>>

Halt(x) ==
    /\ At(x, "posthalted") /\ x \in Pass
    /\ Finish(x, "failed")
    /\ UNCHANGED <<worldVars, job, copies, buf, history>>

CoreStep(x) ==
    \/ TakeRetaskLock(x) \/ Classify(x) \/ CheckOptions(x) \/ PreStop(x)
    \/ Stop(x) \/ WaitStopped(x) \/ PreWake(x) \/ FinalReread(x)
    \/ Wake(x) \/ Verify(x) \/ CopiesHandled(x)
    \/ \E c \in Session : StopCopy(x, c) \/ RemoveCopy(x, c) \/ LeaveCopy(x, c)
    \/ x \in Pass /\ AppendDelivered(x)
    \/ ClearMarker(x) \/ Halt(x)

(* `niwa retask`: the target resolves to a dispatched worker.              *)
BeginRetask(x) ==
    /\ x \in Cli /\ At(x, "start")
    /\ \E s \in Session :
           /\ mapped[s]
           /\ job' = [job EXCEPT ![x] = [NoJob EXCEPT !.sess = s, !.inst = root[s]]]
    /\ Goto(x, "lock")
    /\ UNCHANGED <<worldVars, lock, live, copies, buf, history>>

RetaskStep(x) == BeginRetask(x) \/ RetaskReturns(x) \/ (x \in Cli /\ CoreStep(x))
=============================================================================
