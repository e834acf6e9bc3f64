-------------------------------- MODULE Watch --------------------------------
(***************************************************************************)
(* One `niwa watch --once`: discard the staged reviews that are dead or    *)
(* stale, decide for each pull request what its head calls for, and stage  *)
(* a fresh review or continue the one that is there.  Passes are run again *)
(* and again, from a timer or by hand, and nothing keeps two apart.        *)
(***************************************************************************)
EXTENDS Retask

CONSTANTS
    PerRunBound,     (* fresh reviews one pass may stage                   *)
    MaxStaged,       (* live staged reviews there may be                   *)
    Repeats          (* bound: is a pass run again once it has ended?      *)

ASSUME Limits == PerRunBound \in Nat /\ MaxStaged \in Nat \ {0}

VARIABLES
    req,      (* the pull requests whose review the search found asked for *)
    todo,     (* handles the sweep has yet to look at                      *)
    known,    (* the handled heads the pass decides from                   *)
    plans,    (* what the pass has yet to do, at most once for each        *)
    budget,   (* fresh reviews it may still stage                          *)
    mishaps   (* history: what went wrong so far                           *)

watchVars == <<req, todo, known, plans, budget, mishaps>>

Kind == {"Fresh", "Continue", "Adopt"}
Plan == [pr : PR, kind : Kind, rec : Record \cup {NoRecord}, h : Sha \cup {0}]

WatchTypeOK ==
    /\ req \in [Pass -> SUBSET PR]
    /\ todo \in [Pass -> SUBSET Handle]
    /\ known \in [Pass -> [PR -> {NeverHandled, UnknownHead} \cup Sha]]
    /\ plans \in [Pass -> SUBSET Plan]
    /\ budget \in [Pass -> 0..PerRunBound]
    /\ mishaps \subseteq {"overlap", "crash", "removal", "late"}

Idle(x) == pc[x] \in {"start", "done"}
Held(x) == {job[x].inst}

(* What the pass keeps between one record or plan and the next.            *)
Leaves(x, label) ==
    /\ Goto(x, label)
    /\ job' = [job EXCEPT ![x] = NoJob]

PassEnds(x) ==
    /\ Leaves(x, IF Repeats THEN "start" ELSE "done")
    /\ req' = [req EXCEPT ![x] = {}]
    /\ todo' = [todo EXCEPT ![x] = {}]
    /\ known' = [known EXCEPT ![x] = NotRead]
    /\ plans' = [plans EXCEPT ![x] = {}]
    /\ budget' = [budget EXCEPT ![x] = 0]
    /\ UNCHANGED mishaps

(* An error of staging or of continuing ends the pass.                     *)
PassFails(x) ==
    /\ At(x, "failed")
    /\ PassEnds(x)
    /\ UNCHANGED <<worldVars, lock, live, copies, buf, history>>

Search(x) ==
    /\ At(x, "start")
    /\ Goto(x, "prune")
    /\ req' = [req EXCEPT ![x] = {p \in PR : Requested(p)}]
    /\ todo' = [todo EXCEPT ![x] = {h \in Handle : staged[h] # NoRecord}]
    /\ mishaps' = IF \A y \in Pass \ {x} : Idle(y) THEN mishaps ELSE mishaps \cup {"overlap"}
    /\ UNCHANGED <<worldVars, lock, job, live, copies, buf, history, known, plans, budget>>

(***************************************************************************)
(* The sweep.  A record is read before its instance's lock is taken, and   *)
(* judged, under the lock, by what it said then.                           *)
(***************************************************************************)
PruneOne(x) ==
    /\ At(x, "prune") /\ todo[x] # {}
    /\ LET h == CHOOSE h \in todo[x] : TRUE IN
           /\ todo' = [todo EXCEPT ![x] = @ \ {h}]
           /\ IF staged[h] = NoRecord THEN UNCHANGED <<pc, job>>
              ELSE /\ job' = [job EXCEPT ![x] = [NoJob EXCEPT !.rec = staged[h],
                                   !.inst = staged[h].inst, !.pr = staged[h].pr]]
                   /\ Goto(x, "prunelock")
    /\ UNCHANGED <<worldVars, lock, live, copies, buf, history,
                   req, known, plans, budget, mishaps>>

TakePruneLock(x) ==
    /\ At(x, "prunelock")
    /\ \/ TakeLock(x, Place(x)) /\ Goto(x, "judge") /\ UNCHANGED job
       \/ lock[Place(x)] # None /\ Leaves(x, "prune") /\ UNCHANGED lock
    /\ UNCHANGED <<worldVars, live, copies, buf, history, watchVars>>

Stale(x) ==
    LET r == job[x].rec IN
    \/ r.pr \notin req[x]
    \/ head[r.pr] # r.base /\ ~Ancestor(r.base, r.pr)

Discards(x) ==
    \/ ~HasLiveJob(Place(x))
    \/ job[x].rec.halted = 0 /\ Stale(x)

(* Best effort: a removal may fail, and nothing asks again.                *)
RemovesPlace(x) ==
    \/ disk' = [disk EXCEPT ![Place(x)] = FALSE] /\ UNCHANGED mishaps
    \/ mishaps' = mishaps \cup {"removal"} /\ UNCHANGED disk

(* GitHub may not answer for a live record, and the gate may keep one.     *)
JudgeRecord(x) ==
    /\ At(x, "judge")
    /\ \/ /\ Discards(x)
          /\ RemovesPlace(x)
          /\ Goto(x, "forget")
          /\ UNCHANGED <<lock, job>>
       \/ Leaves(x, "prune") /\ Release(x) /\ UNCHANGED <<disk, mishaps>>
    /\ UNCHANGED <<sessionVars, githubVars, watchFiles, live, copies, buf, history,
                   req, todo, known, plans, budget>>

(* By the handle, whatever record is there by now; the write may fail.     *)
ForgetRecord(x) ==
    /\ At(x, "forget")
    /\ \/ staged' = [staged EXCEPT ![HandleOf[job[x].pr]] = NoRecord]
       \/ UNCHANGED staged
    /\ Leaves(x, "prune")
    /\ Release(x)
    /\ UNCHANGED <<sessionVars, disk, githubVars, handled, live, copies, buf, history, watchVars>>

(***************************************************************************)
(* The decision, from the handled heads, read first, then the live         *)
(* sessions, then GitHub's heads.                                          *)
(***************************************************************************)
LoadHandled(x) ==
    /\ At(x, "prune") /\ todo[x] = {}
    /\ known' = [known EXCEPT ![x] = handled]
    /\ Goto(x, "decide")
    /\ UNCHANGED <<worldVars, lock, job, live, copies, buf, history,
                   req, todo, plans, budget, mishaps>>

StagedFor(p) == {r \in {staged[h] : h \in Handle} : r # NoRecord /\ r.pr = p}

(* Mutant: a review that is at work does not count as live. *)
IsLiveIdle(p) == \E r \in StagedFor(p) : r.sess # None /\ row[r.sess] \in {"idle", "stopped"}

IsLive(p) == \E r \in StagedFor(p) : HasLiveJob(r.inst)

(* Mutant: a halted record is continued. *)
ContinuableHalted(r) ==
    /\ r.sess # None
    /\ row[r.sess] \in {"idle", "stopping", "stopped"}
    /\ HasLiveJob(r.inst)

Continuable(r) ==
    /\ r.sess # None
    /\ r.halted = 0
    /\ row[r.sess] \in {"idle", "stopping", "stopped"}
    /\ HasLiveJob(r.inst)

ContinuableRecord(p) ==
    LET able == {r \in StagedFor(p) : Continuable(r)} IN
    IF Cardinality(able) = 1 THEN CHOOSE r \in able : TRUE ELSE NoRecord

(* Mutant: the reviews that are live are not counted. *)
StageBudgetPerRun(liveCount) == PerRunBound

StageBudget(liveCount) ==
    LET remaining == IF liveCount < MaxStaged THEN MaxStaged - liveCount ELSE 0 IN
    IF remaining < PerRunBound THEN remaining ELSE PerRunBound

(* Mutant: a dead review defers its pull request too. *)
DecideKindOnce(x, p) ==
    CASE known[x][p] = NeverHandled -> "Fresh"
      [] known[x][p] = UnknownHead -> "Adopt"
      [] head[p] = known[x][p] -> "Noop"
      [] OTHER -> IF ContinuableRecord(p) # NoRecord THEN "Continue" ELSE "Defer"

DecideKind(x, p) ==
    LET recorded == known[x][p] IN
    CASE recorded = NeverHandled -> "Fresh"
      [] recorded = UnknownHead -> "Adopt"
      [] head[p] = recorded -> "Noop"
      [] OTHER -> IF ~IsLive(p) THEN "Fresh"
                  ELSE IF ContinuableRecord(p) # NoRecord THEN "Continue" ELSE "Defer"

(* At most PerRunBound of them fresh, the oldest.                          *)
Decide(x) ==
    LET kind(p) == DecideKind(x, p)
        fresh == {p \in req[x] : kind(p) = "Fresh"}
        inTime(p) == Cardinality({q \in fresh : q <= p}) <= PerRunBound IN
    {[pr |-> p, kind |-> kind(p),
      rec |-> IF kind(p) = "Continue" THEN ContinuableRecord(p) ELSE NoRecord,
      h |-> IF kind(p) = "Adopt" THEN head[p] ELSE 0] :
        p \in {p \in req[x] : kind(p) \in Kind /\ (p \in fresh => inTime(p))}}

(* A head that can't be confirmed, or a store that can't be read, fails    *)
(* the pass.                                                               *)
MakePlans(x) ==
    /\ At(x, "decide")
    /\ \/ /\ plans' = [plans EXCEPT ![x] = Decide(x)]
          /\ budget' = [budget EXCEPT ![x] =
                 StageBudget(Cardinality({p \in PR : IsLive(p)}))]
          /\ Goto(x, "next")
          /\ UNCHANGED <<job, req, todo, mishaps, known>>
       \/ PassEnds(x)
    /\ UNCHANGED <<worldVars, lock, live, copies, buf, history>>

(***************************************************************************)
(* What a plan calls for, the oldest pull request's first.                 *)
(***************************************************************************)
FirstPlan(x) == CHOOSE p \in plans[x] : \A q \in plans[x] : p.pr <= q.pr

NextPlan(x) ==
    /\ pc[x] \in {"next", "refused"} /\ x \in Pass
    /\ IF plans[x] = {} THEN PassEnds(x)
       ELSE LET p == FirstPlan(x) IN
           /\ plans' = [plans EXCEPT ![x] = @ \ {p}]
           /\ known' = [known EXCEPT ![x] = NotRead]
           /\ UNCHANGED <<req, todo, budget, mishaps>>
           /\ \/ p.kind = "Fresh" /\ budget[x] = 0 /\ Leaves(x, "next")
              \/ /\ p.kind = "Fresh" /\ budget[x] > 0
                 /\ Goto(x, "provision")
                 /\ job' = [job EXCEPT ![x] = [NoJob EXCEPT !.pr = p.pr, !.h = head[p.pr]]]
              \/ /\ p.kind = "Continue"
                 /\ Goto(x, "lock")
                 /\ job' = [job EXCEPT ![x] = [sess |-> p.rec.sess, inst |-> p.rec.inst,
                                pr |-> p.pr, rec |-> p.rec, h |-> head[p.pr]]]
              \/ /\ p.kind = "Adopt"
                 /\ Goto(x, "adoptread")
                 /\ job' = [job EXCEPT ![x] = [NoJob EXCEPT !.pr = p.pr, !.h = p.h]]
              \/ /\ p.kind = "Continue" \/ (p.kind = "Fresh" /\ budget[x] > 0)
                 /\ Leaves(x, "failed")                      (* no head *)
    /\ UNCHANGED <<worldVars, lock, live, copies, buf, history>>

(* stageReview: an instance, marked and given the review's settings.       *)
Provision(x) ==
    /\ At(x, "provision")
    /\ LET free == Unused({job[y].inst : y \in Caller}) IN
       \/ /\ free # {}
          /\ disk' = [disk EXCEPT ![Min(free)] = TRUE]
          /\ job' = [job EXCEPT ![x].inst = Min(free)]
          /\ Goto(x, "launch")
       \/ Goto(x, "failed") /\ UNCHANGED <<disk, job>>
    /\ UNCHANGED <<sessionVars, githubVars, watchFiles, lock, live, copies, buf, history, watchVars>>

(* The launch, and the wait for its session to be listed, which gives up.  *)
Launch(x) ==
    /\ At(x, "launch")
    /\ \/ /\ Unborn # {}
          /\ LET s == Min(Unborn) IN
                 /\ Born(s, Place(x), "starting")
                 /\ job' = [job EXCEPT ![x].sess = s]
                 /\ reviewed' = reviewed \cup {<<job[x].pr, job[x].h>>}
                 /\ of' = [of EXCEPT ![s] = job[x].pr]
          /\ Goto(x, "capture")
          /\ UNCHANGED <<disk, sent, unsure, mishaps>>
       \/ /\ RemovesPlace(x)
          /\ Goto(x, "failed")
          /\ UNCHANGED <<row, root, wakes, mapped, job, history>>
    /\ UNCHANGED <<githubVars, watchFiles, lock, live, copies, buf,
                   req, todo, known, plans, budget>>

Capture(x) ==
    /\ At(x, "capture")
    /\ \/ Listed(Worker(x)) /\ UNCHANGED <<job, mishaps>>
       \/ /\ ~Listed(Worker(x))
          /\ job' = [job EXCEPT ![x].sess = None]
          /\ mishaps' = mishaps \cup {"late"}
    /\ Goto(x, "record")
    /\ UNCHANGED <<row, root, wakes, mapped, disk, githubVars, watchFiles, lock,
                   live, copies, buf, history, req, todo, known, plans, budget>>

(* The record, then the head; a failure of either takes the instance away. *)
StageFails(x) ==
    /\ RemovesPlace(x)
    /\ Goto(x, "failed")

RecordReview(x) ==
    /\ At(x, "record")
    /\ \/ /\ SaveRecord(x, [pr |-> job[x].pr, inst |-> Place(x), base |-> job[x].h,
                            sess |-> Worker(x), halted |-> 0])
          /\ Goto(x, "stageread")
          /\ UNCHANGED <<disk, mishaps>>
       \/ StageFails(x) /\ UNCHANGED staged
    /\ UNCHANGED <<sessionVars, githubVars, handled, lock, job, live, copies, buf,
                   history, req, todo, known, plans, budget>>

AppendStaged(x) ==
    \/ ReadHandled(x, "stageread", "stagewrite") /\ UNCHANGED watchVars
    \/ /\ At(x, "stagewrite")
       /\ \/ /\ WriteHandled(x)
             /\ budget' = [budget EXCEPT ![x] = @ - 1]
             /\ Leaves(x, "next")
             /\ UNCHANGED <<disk, mishaps>>
          \/ /\ StageFails(x)
             /\ buf' = [buf EXCEPT ![x] = NotRead]
             /\ UNCHANGED <<handled, job, budget>>
       /\ UNCHANGED <<sessionVars, githubVars, staged, lock, live, copies, history,
                      req, todo, known, plans>>

(* An entry older than the heads takes the head it has now.                *)
AppendAdopted(x) ==
    \/ ReadHandled(x, "adoptread", "adoptwrite") /\ UNCHANGED watchVars
    \/ /\ At(x, "adoptwrite")
       /\ \/ /\ WriteHandled(x)
             /\ Leaves(x, "next")
             /\ reviewed' = reviewed \cup {<<job[x].pr, job[x].h>>}
          \/ /\ Leaves(x, "failed")
             /\ buf' = [buf EXCEPT ![x] = NotRead]
             /\ UNCHANGED <<handled, reviewed>>
       /\ UNCHANGED <<sessionVars, disk, githubVars, staged, lock, live, copies,
                      sent, unsure, of, watchVars>>

PassStep(x) ==
    \/ x \in Pass /\ CoreStep(x) /\ UNCHANGED watchVars
    \/ PassFails(x) \/ Search(x) \/ PruneOne(x) \/ TakePruneLock(x)
    \/ JudgeRecord(x) \/ ForgetRecord(x) \/ LoadHandled(x) \/ MakePlans(x)
    \/ NextPlan(x) \/ Provision(x) \/ Launch(x) \/ Capture(x)
    \/ RecordReview(x) \/ AppendStaged(x) \/ AppendAdopted(x)
=============================================================================
