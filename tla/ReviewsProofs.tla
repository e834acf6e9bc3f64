---------------------------- MODULE ReviewsProofs ----------------------------
(***************************************************************************)
(* What watch passes and retasks promise, for any pull requests, sessions, *)
(* instances, passes and retasks, and whatever goes wrong.                 *)
(***************************************************************************)
EXTENDS Reviews, FiniteSetTheorems, TLAPS

USE CallersDiffer DEF CallersDiffer, Caller, worldVars, sessionVars, githubVars,
    watchFiles, coreVars, history, watchVars

(* Where a caller is: in the core, in the sweep, staging a review, adopting *)
(* a head, or between two of these.                                        *)
Core == {"lock", "classify", "prestop", "stop", "settle", "prewake", "reread", "wake",
         "verify", "copies", "postread", "postwrite", "postsave", "postrefused", "posthalted"}
Pruning == {"prunelock", "judge", "forget"}
Launching == {"capture", "record"}
Appending == {"stageread", "stagewrite"}
Staging == {"provision", "launch"} \cup Launching \cup Appending
Adopting == {"adoptread", "adoptwrite"}
Between == {"start", "done", "prune", "decide", "next", "refused", "failed"}
Label == Core \cup Pruning \cup Staging \cup Adopting \cup Between
UnderLock == (Core \ {"lock"}) \cup {"judge", "forget"}

(* What a caller has read of the world, at each place it can be.           *)
Reads(x) ==
    /\ pc[x] \in Core => Worker(x) \in Session /\ Place(x) \in Instance
    /\ x \in Cli => pc[x] \in (Core \ {"prewake", "postwrite", "postsave"}) \cup {"start", "refused"}
    /\ x \in Pass =>
           /\ pc[x] \in Core \cup Pruning =>
                  job[x].rec \in Record /\ job[x].inst = job[x].rec.inst /\ job[x].pr = job[x].rec.pr
           /\ pc[x] \in Core => job[x].sess = job[x].rec.sess
           /\ pc[x] \in Core \cup Staging \cup Adopting => job[x].pr \in PR /\ job[x].h \in Sha
           /\ pc[x] \in Staging => budget[x] > 0
           /\ pc[x] \in Staging \ {"provision"} => job[x].inst \in Instance
           /\ pc[x] = "capture" => job[x].sess \in Session

(* What a pass has decided to do is about what was there when it did.      *)
Decided(x) ==
    \A q \in plans[x] :
        /\ q.kind = "Continue" =>
               q.rec \in Record /\ q.rec.sess \in Session /\ q.rec.pr = q.pr /\ q.rec.halted = 0
        /\ q.kind = "Adopt" => q.h \in Sha

Typed ==
    /\ WorldTypeOK
    /\ RetaskTypeOK
    /\ WatchTypeOK
    /\ pc \in [Caller -> Label]

(* Every session there has been is rooted in an instance; dispatches had   *)
(* one.                                                                    *)
Rooted ==
    \A s \in Session : /\ row[s] # "unborn" => root[s] \in Instance
                       /\ mapped[s] => row[s] # "unborn"

Placed ==
    /\ Rooted
    /\ \A x \in Caller : Reads(x)
    /\ \A x \in Pass : Decided(x)

(* A lock is held by a caller that is at work there, and a caller that is  *)
(* at work under a lock has it.                                            *)
Locked ==
    /\ \A i \in Instance : lock[i] # None => pc[lock[i]] \in UnderLock /\ Place(lock[i]) = i
    /\ \A x \in Caller : pc[x] \in UnderLock => lock[Place(x)] = x

-----------------------------------------------------------------------------
(* The smallest id, the oldest plan. *)

LEMMA LeastIs ==
    ASSUME NEW S \in SUBSET Nat, S # {}
    PROVE  Min(S) \in S /\ \A y \in S : Min(S) <= y
<1> DEFINE Upto == {0..n : n \in S}
<1>1. Upto \subseteq FiniteSubsetsOf(Nat) /\ Upto # {}
  <2>1. \A n \in S : 0..n \in SUBSET Nat
    OBVIOUS
  <2>2. \A n \in S : IsFiniteSet(0..n)
    BY FS_Interval
  <2>3. \A n \in S : 0..n \in FiniteSubsetsOf(Nat)
    BY <2>1, <2>2, Zenon DEF FiniteSubsetsOf
  <2>4. PICK n0 \in S : TRUE
    OBVIOUS
  <2>5. 0..n0 \in Upto
    OBVIOUS
  <2>6. \A U \in Upto : U \in FiniteSubsetsOf(Nat)
    BY <2>3
  <2> QED BY <2>5, <2>6
<1>2. PICK U \in Upto : \A V \in Upto : <<V, U>> \notin StrictSubsetOrdering(Nat)
  BY <1>1, FS_StrictSubsetOrderingWellFounded, WFMin
<1>3. PICK x \in S : U = 0..x
  OBVIOUS
<1>4. ASSUME NEW y \in S, y < x PROVE FALSE
  <2>1. 0..y \in SUBSET Nat /\ 0..x \in SUBSET Nat
    OBVIOUS
  <2>2. 0..y \subseteq 0..x
    BY <1>4
  <2>3. 0..y # 0..x
    <3>1. x \in 0..x /\ x \notin 0..y
      BY <1>4
    <3> QED BY <3>1, Zenon
  <2> DEFINE A == 0..y
             B == 0..x
  <2>4. A \in SUBSET Nat /\ B \in SUBSET Nat /\ A \subseteq B /\ A # B
    BY <2>1, <2>2, <2>3
  <2>5. A \in Upto /\ B = U
    BY <1>3
  <2> HIDE DEF A, B, Upto
  <2>6. <<A, B>> \in StrictSubsetOrdering(Nat)
    BY <2>4 DEF StrictSubsetOrdering
  <2> QED BY <1>2, <2>5, <2>6
<1>5. \A y \in S : x <= y
  BY <1>4
<1> QED BY <1>5 DEF Min

LEMMA HeadsAreNumbers ==
    /\ Sha \subseteq Nat \ {0} /\ 1 \in Sha
    /\ \A p \in PR : \A n \in 1..MaxHead[p] : n \in Sha
    /\ NeverHandled \notin Sha /\ UnknownHead \notin Sha
<1>1. PICK p \in PR : MaxHead[p] \in Nat \ {0}
  BY NumberedNames DEF NumberedNames
<1>2. \A p1 \in PR : MaxHead[p1] \in Nat /\ 1..MaxHead[p1] \subseteq Nat \ {0}
  BY NumberedNames DEF NumberedNames
<1>3. 1 \in 1..MaxHead[p]
  BY <1>1
<1>4. -1 \notin Nat /\ 0 \notin Nat \ {0}
  OBVIOUS
<1> QED BY <1>1, <1>2, <1>3, <1>4 DEF Sha, NeverHandled, UnknownHead

LEMMA NamesAreNumbers ==
    /\ Session \subseteq Nat /\ Instance \subseteq Nat /\ PR \subseteq Nat
    /\ 0 \notin Session /\ 0 \notin Instance /\ 0 \notin PR
    /\ None \notin Session /\ None \notin Instance
    /\ PR # {} /\ Session # {} /\ Instance # {}
BY NumberedNames DEF NumberedNames

LEMMA HandlesAreOfPRs == \A p \in PR : HandleOf[p] \in Handle
BY DEF Handle

(* A record's fields, and those of one whose marker or base was changed.   *)
LEMMA RecordFields ==
    /\ NoRecord \notin Record
    /\ \A r \in Record : /\ r.pr \in PR /\ r.inst \in Instance /\ r.base \in Sha
                         /\ r.sess \in Session \cup {None} /\ r.halted \in {0} \cup Sha
    /\ NoRecord.pr = 0 /\ NoRecord.sess = None /\ NoRecord.inst = None /\ NoRecord.halted = 0
BY NamesAreNumbers DEF Record, NoRecord

LEMMA RecordsAre ==
    ASSUME NEW p \in PR, NEW i \in Instance, NEW b \in Sha, NEW s \in Session \cup {None},
           NEW h \in {0} \cup Sha
    PROVE  [pr |-> p, inst |-> i, base |-> b, sess |-> s, halted |-> h] \in Record
BY DEF Record

LEMMA MarkedRecord ==
    ASSUME NEW r \in Record, NEW h \in {0} \cup Sha, NEW b \in Sha
    PROVE  /\ [r EXCEPT !.halted = h] \in Record
           /\ [r EXCEPT !.halted = h].pr = r.pr /\ [r EXCEPT !.halted = h].inst = r.inst
           /\ [r EXCEPT !.halted = h].sess = r.sess /\ [r EXCEPT !.halted = h].halted = h
           /\ [r EXCEPT !.halted = h, !.base = b] \in Record
           /\ [r EXCEPT !.halted = h, !.base = b].pr = r.pr
           /\ [r EXCEPT !.halted = h, !.base = b].inst = r.inst
           /\ [r EXCEPT !.halted = h, !.base = b].sess = r.sess
           /\ [r EXCEPT !.halted = h, !.base = b].halted = h
BY DEF Record

LEMMA ClearedRecord ==
    ASSUME NEW r0 \in Record, NEW b \in Sha
    PROVE  LET r == [r0 EXCEPT !.halted = 0, !.base = b]
           IN  r \in Record /\ r.sess = r0.sess /\ r.pr = r0.pr /\ r.inst = r0.inst /\ r.halted = 0
BY DEF Record

(* A job's fields, and those of one whose record was marked.               *)
LEMMA JobFields ==
    /\ NoJob \in Job /\ NoJob.sess = None /\ NoJob.inst = None /\ NoJob.pr = 0
    /\ NoJob.rec = NoRecord /\ NoJob.h = 0
    /\ \A j \in Job : /\ j.sess \in Session \cup {None} /\ j.inst \in Instance \cup {None}
                      /\ j.pr \in PR \cup {0} /\ j.rec \in Record \cup {NoRecord}
                      /\ j.h \in Sha \cup {0}
BY DEF Job, NoJob

LEMMA JobsAre ==
    ASSUME NEW s \in Session \cup {None}, NEW i \in Instance \cup {None}, NEW p \in PR \cup {0},
           NEW r \in Record \cup {NoRecord}, NEW h \in Sha \cup {0}
    PROVE  [sess |-> s, inst |-> i, pr |-> p, rec |-> r, h |-> h] \in Job
BY DEF Job

LEMMA JobEdits ==
    ASSUME NEW j \in Job, NEW s \in Session \cup {None}, NEW i \in Instance \cup {None},
           NEW p \in PR \cup {0}, NEW r \in Record \cup {NoRecord}, NEW h \in Sha \cup {0}
    PROVE  /\ [j EXCEPT !.sess = s] \in Job
           /\ [j EXCEPT !.inst = i] \in Job
           /\ [j EXCEPT !.sess = s, !.inst = i] \in Job
           /\ [j EXCEPT !.rec = r, !.inst = i, !.pr = p] \in Job
           /\ [j EXCEPT !.pr = p, !.h = h] \in Job
           /\ [j EXCEPT !.rec = r] \in Job
<1>1. [j EXCEPT !.sess = s] \in Job
  BY DEF Job
<1>2. [j EXCEPT !.inst = i] \in Job
  BY DEF Job
<1>3. [j EXCEPT !.sess = s, !.inst = i] \in Job
  BY DEF Job
<1>4. [j EXCEPT !.rec = r, !.inst = i, !.pr = p] \in Job
  BY DEF Job
<1>5. [j EXCEPT !.pr = p, !.h = h] \in Job
  BY DEF Job
<1>6. [j EXCEPT !.rec = r] \in Job
  BY DEF Job
<1> QED BY <1>1, <1>2, <1>3, <1>4, <1>5, <1>6

-----------------------------------------------------------------------------

(* A caller's step: of the core, of a retask, or of a pass.                *)
OwnStep(x) ==
    \/ PassFails(x) \/ Search(x) \/ PruneOne(x) \/ TakePruneLock(x)
    \/ JudgeRecord(x) \/ ForgetRecord(x) \/ LoadHandled(x) \/ MakePlans(x)
    \/ NextPlan(x) \/ Provision(x) \/ Launch(x) \/ Capture(x)
    \/ RecordReview(x) \/ AppendStaged(x) \/ AppendAdopted(x)

Acts(x) ==
    \/ CoreStep(x) /\ UNCHANGED watchVars
    \/ x \in Cli /\ (BeginRetask(x) \/ RetaskReturns(x)) /\ UNCHANGED watchVars
    \/ x \in Pass /\ OwnStep(x)

LEMMA CallersAct ==
    ASSUME Next
    PROVE  \/ \E x \in Caller : Acts(x)
           \/ \E x \in Caller : Crash(x)
           \/ UserStarts
           \/ WorldStep
<1>1. ASSUME NEW x \in Pass, Passes(x) PROVE Acts(x)
  BY <1>1 DEF Passes, PassStep, OwnStep, Acts
<1>2. ASSUME NEW x \in Cli, Retasks(x) PROVE Acts(x)
  BY <1>2 DEF Retasks, RetaskStep, Acts
<1> QED BY <1>1, <1>2 DEF Next

(* What a caller is about is changed by its own steps alone.               *)
SameFor(y) ==
    /\ pc'[y] = pc[y] /\ job'[y] = job[y] /\ buf'[y] = buf[y]
    /\ y \in Pass => known'[y] = known[y] /\ plans'[y] = plans[y] /\ budget'[y] = budget[y]

LEMMA OthersStay ==
    ASSUME Typed, NEW x \in Caller, Acts(x)
    PROVE  \A y \in Caller \ {x} : SameFor(y)
<1>0. /\ pc \in [Caller -> Label] /\ job \in [Caller -> Job]
      /\ buf \in [Caller -> [PR -> {NeverHandled, UnknownHead} \cup Sha]]
      /\ known \in [Pass -> [PR -> {NeverHandled, UnknownHead} \cup Sha]]
      /\ plans \in [Pass -> SUBSET Plan] /\ budget \in [Pass -> 0..PerRunBound]
  BY DEF Typed, RetaskTypeOK, WatchTypeOK
<1>1. ASSUME CoreStep(x), UNCHANGED watchVars PROVE \A y \in Caller \ {x} : SameFor(y)
  <2>1. CASE TakeRetaskLock(x)
    BY <2>1, <1>1, <1>0 DEF TakeRetaskLock, TakeLock, Refused, Release, At, Goto,
      SameFor
  <2>2. CASE Classify(x)
    BY <2>2, <1>1, <1>0 DEF Classify, Refused, Release, At, Goto, SameFor
  <2>3. CASE CheckOptions(x)
    BY <2>3, <1>1, <1>0 DEF CheckOptions, Refused, Release, At, Goto, SameFor
  <2>4. CASE PreStop(x)
    BY <2>4, <1>1, <1>0 DEF PreStop, Refused, Release, At, Goto, SameFor
  <2>5. CASE Stop(x)
    BY <2>5, <1>1, <1>0 DEF Stop, Refused, Release, ActsOn, At, Goto, SameFor
  <2>6. CASE WaitStopped(x)
    BY <2>6, <1>1, <1>0 DEF WaitStopped, Refused, Release, At, Goto, SameFor
  <2>7. CASE PreWake(x)
    BY <2>7, <1>1, <1>0 DEF PreWake, Refused, Release, SaveRecord, At, Goto, SameFor
  <2>8. CASE FinalReread(x)
    BY <2>8, <1>1, <1>0 DEF FinalReread, At, Goto, SameFor
  <2>9. CASE Wake(x)
    BY <2>9, <1>1, <1>0 DEF Wake, At, Goto, SameFor
  <2>10. CASE Verify(x)
    BY <2>10, <1>1, <1>0 DEF Verify, At, Goto, SameFor
  <2>11. CASE CopiesHandled(x)
    BY <2>11, <1>1, <1>0 DEF CopiesHandled, At, Goto, SameFor
  <2>12. ASSUME NEW c \in Session, StopCopy(x, c) PROVE \A y \in Caller \ {x} : SameFor(y)
    BY <2>12, <1>1, <1>0 DEF StopCopy, ActsOn, At, Goto, SameFor
  <2>13. ASSUME NEW c \in Session, RemoveCopy(x, c) PROVE \A y \in Caller \ {x} : SameFor(y)
    BY <2>13, <1>1, <1>0 DEF RemoveCopy, ActsOn, At, Goto, SameFor
  <2>14. ASSUME NEW c \in Session, LeaveCopy(x, c) PROVE \A y \in Caller \ {x} : SameFor(y)
    BY <2>14, <1>1, <1>0 DEF LeaveCopy, At, Goto, SameFor
  <2>15. CASE AppendDelivered(x)
    BY <2>15, <1>1, <1>0 DEF AppendDelivered, ReadHandled, WriteHandled, Finish,
      Release, At, Goto, SameFor
  <2>16. CASE ClearMarker(x)
    BY <2>16, <1>1, <1>0 DEF ClearMarker, Finish, Release, SaveRecord, At, Goto,
      SameFor
  <2>17. CASE Halt(x)
    BY <2>17, <1>1, <1>0 DEF Halt, Finish, Release, At, Goto, SameFor
  <2> QED BY <1>1, <2>1, <2>2, <2>3, <2>4, <2>5, <2>6, <2>7, <2>8, <2>9, <2>10, <2>11,
      <2>12, <2>13, <2>14, <2>15, <2>16, <2>17 DEF CoreStep
<1>2. ASSUME x \in Cli, BeginRetask(x) \/ RetaskReturns(x), UNCHANGED watchVars PROVE \A y \in Caller \ {x} : SameFor(y)
  <2>1. CASE BeginRetask(x)
    BY <2>1, <1>2, <1>0 DEF BeginRetask, At, Goto, SameFor
  <2>2. CASE RetaskReturns(x)
    BY <2>2, <1>2, <1>0 DEF RetaskReturns, Finish, Release, At, Goto, SameFor
  <2> QED BY <1>2, <2>1, <2>2
<1>3. ASSUME x \in Pass, OwnStep(x) PROVE \A y \in Caller \ {x} : SameFor(y)
  <2>1. CASE PassFails(x)
    BY <2>1, <1>3, <1>0 DEF PassFails, PassEnds, Leaves, At, Goto, SameFor
  <2>2. CASE Search(x)
    BY <2>2, <1>3, <1>0 DEF Search, At, Goto, SameFor
  <2>3. CASE PruneOne(x)
    BY <2>3, <1>3, <1>0 DEF PruneOne, At, Goto, SameFor
  <2>4. CASE TakePruneLock(x)
    BY <2>4, <1>3, <1>0 DEF TakePruneLock, TakeLock, Leaves, At, Goto, SameFor
  <2>5. CASE JudgeRecord(x)
    BY <2>5, <1>3, <1>0 DEF JudgeRecord, RemovesPlace, Leaves, Release, At, Goto,
      SameFor
  <2>6. CASE ForgetRecord(x)
    BY <2>6, <1>3, <1>0 DEF ForgetRecord, Leaves, Release, At, Goto, SameFor
  <2>7. CASE LoadHandled(x)
    BY <2>7, <1>3, <1>0 DEF LoadHandled, At, Goto, SameFor
  <2>8. CASE MakePlans(x)
    BY <2>8, <1>3, <1>0 DEF MakePlans, PassEnds, Leaves, At, Goto, SameFor
  <2>9. CASE NextPlan(x)
    BY <2>9, <1>3, <1>0 DEF NextPlan, PassEnds, Leaves, At, Goto, SameFor
  <2>10. CASE Provision(x)
    BY <2>10, <1>3, <1>0 DEF Provision, At, Goto, SameFor
  <2>11. CASE Launch(x)
    BY <2>11, <1>3, <1>0 DEF Launch, Born, RemovesPlace, At, Goto, SameFor
  <2>12. CASE Capture(x)
    BY <2>12, <1>3, <1>0 DEF Capture, At, Goto, SameFor
  <2>13. CASE RecordReview(x)
    BY <2>13, <1>3, <1>0 DEF RecordReview, SaveRecord, StageFails, RemovesPlace, At,
      Goto, SameFor
  <2>14. CASE AppendStaged(x)
    BY <2>14, <1>3, <1>0 DEF AppendStaged, ReadHandled, WriteHandled, Leaves,
      StageFails, RemovesPlace, At, Goto, SameFor
  <2>15. CASE AppendAdopted(x)
    BY <2>15, <1>3, <1>0 DEF AppendAdopted, ReadHandled, WriteHandled, Leaves, At,
      Goto, SameFor
  <2> QED BY <1>3, <2>1, <2>2, <2>3, <2>4, <2>5, <2>6, <2>7, <2>8, <2>9, <2>10, <2>11,
      <2>12, <2>13, <2>14, <2>15 DEF OwnStep
<1> QED BY <1>1, <1>2, <1>3 DEF Acts

(* The next id and the next name.                                          *)
LEMMA NextNames ==
    /\ Unborn # {} => Min(Unborn) \in Session /\ row[Min(Unborn)] = "unborn"
    /\ \A held : Unused(held) # {} => Min(Unused(held)) \in Unused(held)
<1>1. Unborn \in SUBSET Nat /\ \A held : Unused(held) \in SUBSET Nat
  BY NamesAreNumbers DEF Unborn, Unused
<1>2. Unborn # {} => Min(Unborn) \in Unborn
  BY <1>1, LeastIs
<1>3. \A held : Unused(held) # {} => Min(Unused(held)) \in Unused(held)
  BY <1>1, LeastIs
<1> QED BY <1>2, <1>3 DEF Unborn

LEMMA UnusedIs ==
    ASSUME NEW held, NEW i \in Unused(held)
    PROVE  /\ i \in Instance /\ ~disk[i] /\ i \notin held
           /\ \A s \in Session : root[s] = i => row[s] = "gone"
           /\ \A h \in Handle : staged[h].inst # i
BY DEF Unused

(* The oldest plan.                                                        *)
LEMMA FirstPlanIs ==
    ASSUME NEW x \in Pass, plans[x] \subseteq Plan, plans[x] # {}
    PROVE  FirstPlan(x) \in plans[x]
<1> DEFINE S == {q.pr : q \in plans[x]}
<1>1. S \in SUBSET Nat /\ S # {}
  BY NamesAreNumbers DEF Plan
<1>2. Min(S) \in S /\ \A y \in S : Min(S) <= y
  BY <1>1, LeastIs
<1>3. PICK p \in plans[x] : p.pr = Min(S)
  BY <1>2
<1>4. \A q \in plans[x] : p.pr <= q.pr
  BY <1>2, <1>3
<1> QED BY <1>4 DEF FirstPlan

LEMMA JobsAreTyped ==
    ASSUME Typed, Placed, NEW x \in Caller, Acts(x)
    PROVE  job' \in [Caller -> Job]
<1>0. /\ job \in [Caller -> Job] /\ WorldTypeOK /\ Reads(x)
      /\ plans \in [Pass -> SUBSET Plan]
  BY DEF Typed, Placed, RetaskTypeOK, WatchTypeOK
<1> USE JobFields
<1>1. ASSUME CoreStep(x), UNCHANGED watchVars PROVE job' \in [Caller -> Job]
  <2>1. CASE \/ TakeRetaskLock(x) \/ Classify(x) \/ CheckOptions(x) \/ PreStop(x)
             \/ Stop(x) \/ WaitStopped(x) \/ FinalReread(x) \/ Wake(x)
             \/ Verify(x) \/ CopiesHandled(x) \/ AppendDelivered(x)
             \/ ClearMarker(x) \/ Halt(x)
             \/ \E c \in Session : StopCopy(x, c) \/ RemoveCopy(x, c) \/ LeaveCopy(x, c)
    BY <2>1, <1>1, <1>0 DEF TakeRetaskLock, TakeLock, Refused, Release, At, Goto,
      Classify, CheckOptions, PreStop, Stop, ActsOn, WaitStopped, FinalReread, Wake,
      Verify, CopiesHandled, StopCopy, RemoveCopy, LeaveCopy, AppendDelivered,
      ReadHandled, WriteHandled, Finish, ClearMarker, SaveRecord, Halt
  <2>2. CASE PreWake(x)
    <3>1. job' = job \/ job' = [job EXCEPT ![x].rec.halted = job[x].h]
      BY <1>1, <2>2 DEF PreWake, Refused
    <3>2. job[x].rec \in Record /\ job[x].h \in Sha
      BY <1>0, <2>2 DEF PreWake, At, Reads, Core
    <3>3. [job[x].rec EXCEPT !.halted = job[x].h] \in Record
      BY <3>2, MarkedRecord
    <3> DEFINE r == [job[x].rec EXCEPT !.halted = job[x].h]
    <3>4. [job[x] EXCEPT !.rec = r] \in Job
      BY <1>0, <3>3, JobEdits
    <3>5. [job EXCEPT ![x].rec.halted = job[x].h] = [job EXCEPT ![x] = [job[x] EXCEPT !.rec = r]]
      BY <1>0
    <3> QED BY <1>0, <3>1, <3>4, <3>5
  <2> QED BY <1>1, <2>1, <2>2 DEF CoreStep
<1>2. ASSUME x \in Cli, BeginRetask(x) \/ RetaskReturns(x), UNCHANGED watchVars PROVE job' \in [Caller -> Job]
  <2>1. CASE BeginRetask(x)
    <3>1. PICK s \in Session : job' = [job EXCEPT ![x] = [NoJob EXCEPT !.sess = s, !.inst = root[s]]]
      BY <2>1 DEF BeginRetask
    <3>2. [NoJob EXCEPT !.sess = s, !.inst = root[s]] \in Job
      BY <1>0, JobEdits DEF WorldTypeOK
    <3> QED BY <1>0, <3>1, <3>2
  <2>2. CASE RetaskReturns(x)
    BY <2>2, <1>2, <1>0 DEF RetaskReturns, Finish, Release, At, Goto
  <2> QED BY <1>2, <2>1, <2>2
<1>3. ASSUME x \in Pass, OwnStep(x) PROVE job' \in [Caller -> Job]
  <2>1. CASE \/ PassFails(x) \/ Search(x) \/ TakePruneLock(x) \/ JudgeRecord(x)
             \/ ForgetRecord(x) \/ LoadHandled(x) \/ MakePlans(x)
             \/ RecordReview(x) \/ AppendStaged(x) \/ AppendAdopted(x)
    BY <2>1, <1>3, <1>0 DEF PassFails, PassEnds, Leaves, At, Goto, Search,
      TakePruneLock, TakeLock, JudgeRecord, RemovesPlace, Release, ForgetRecord,
      LoadHandled, MakePlans, RecordReview, SaveRecord, StageFails, AppendStaged,
      ReadHandled, WriteHandled, AppendAdopted
  <2>2. CASE PruneOne(x)
    <3>1. PICK h \in Handle : \/ job' = job
                              \/ /\ staged[h] # NoRecord
                                 /\ job' = [job EXCEPT ![x] = [NoJob EXCEPT !.rec = staged[h],
                                              !.inst = staged[h].inst, !.pr = staged[h].pr]]
      <4>1. todo[x] \subseteq Handle
        BY <1>3 DEF Typed, WatchTypeOK
      <4> DEFINE h == CHOOSE h \in todo[x] : TRUE
      <4>2. h \in Handle
        BY <4>1, <2>2 DEF PruneOne
      <4> QED BY <4>2, <2>2 DEF PruneOne
    <3>2. staged[h] # NoRecord =>
              [NoJob EXCEPT !.rec = staged[h], !.inst = staged[h].inst, !.pr = staged[h].pr] \in Job
      BY <1>0, JobEdits, RecordFields DEF WorldTypeOK
    <3> QED BY <1>0, <3>1, <3>2
  <2>3. CASE NextPlan(x)
    <3> DEFINE p == FirstPlan(x)
    <3>1. \/ job' = [job EXCEPT ![x] = NoJob]
          \/ plans[x] # {} /\ job' = [job EXCEPT ![x] = [NoJob EXCEPT !.pr = p.pr, !.h = head[p.pr]]]
          \/ plans[x] # {} /\ job' = [job EXCEPT ![x] = [sess |-> p.rec.sess, inst |-> p.rec.inst,
                                pr |-> p.pr, rec |-> p.rec, h |-> head[p.pr]]]
          \/ plans[x] # {} /\ job' = [job EXCEPT ![x] = [NoJob EXCEPT !.pr = p.pr, !.h = p.h]]
      BY <1>3, <2>3 DEF NextPlan, PassEnds, Leaves
    <3>2. plans[x] # {} => /\ p.pr \in PR /\ p.h \in Sha \cup {0} /\ head[p.pr] \in Sha
                           /\ p.rec \in Record \cup {NoRecord}
                           /\ p.rec.sess \in Session \cup {None} /\ p.rec.inst \in Instance \cup {None}
      BY <1>0, <1>3, FirstPlanIs, RecordFields DEF Plan, WorldTypeOK
    <3> HIDE DEF p
    <3>3. plans[x] # {} =>
              /\ [NoJob EXCEPT !.pr = p.pr, !.h = head[p.pr]] \in Job
              /\ [NoJob EXCEPT !.pr = p.pr, !.h = p.h] \in Job
              /\ [sess |-> p.rec.sess, inst |-> p.rec.inst, pr |-> p.pr, rec |-> p.rec, h |-> head[p.pr]] \in Job
      BY <3>2, JobEdits, JobsAre
    <3> QED BY <1>0, <3>1, <3>3
  <2>4. CASE Provision(x)
    <3>1. \/ job' = job
          \/ \E i \in Instance : job' = [job EXCEPT ![x].inst = i]
      BY <2>4, NextNames, UnusedIs DEF Provision
    <3>2. \A i \in Instance : [job[x] EXCEPT !.inst = i] \in Job
      BY <1>0, JobEdits
    <3> QED BY <1>0, <3>1, <3>2
  <2>5. CASE Launch(x)
    <3>1. \/ job' = job
          \/ \E s \in Session : job' = [job EXCEPT ![x].sess = s]
      BY <2>5, NextNames DEF Launch
    <3>2. \A s \in Session : [job[x] EXCEPT !.sess = s] \in Job
      BY <1>0, JobEdits
    <3> QED BY <1>0, <3>1, <3>2
  <2>6. CASE Capture(x)
    <3>1. job' = job \/ job' = [job EXCEPT ![x].sess = None]
      BY <2>6 DEF Capture
    <3>2. [job[x] EXCEPT !.sess = None] \in Job
      BY <1>0, JobEdits
    <3> QED BY <1>0, <3>1, <3>2
  <2> QED BY <1>3, <2>1, <2>2, <2>3, <2>4, <2>5, <2>6 DEF OwnStep
<1> QED BY <1>1, <1>2, <1>3 DEF Acts

(* What a caller keeps, and what the history keeps, has its type.          *)

LEMMA StepsAreLabelled ==
    ASSUME Typed, NEW x \in Caller, Acts(x)
    PROVE  pc' \in [Caller -> Label]
<1>0. pc \in [Caller -> Label]
  BY DEF Typed
<1>1. ASSUME CoreStep(x), UNCHANGED watchVars PROVE pc' \in [Caller -> Label]
  <2>1. CASE \/ TakeRetaskLock(x) \/ Classify(x) \/ CheckOptions(x) \/ PreStop(x)
             \/ Stop(x) \/ WaitStopped(x) \/ PreWake(x) \/ FinalReread(x)
             \/ Wake(x) \/ Verify(x) \/ CopiesHandled(x) \/ AppendDelivered(x)
             \/ ClearMarker(x) \/ Halt(x)
             \/ \E c \in Session : StopCopy(x, c) \/ RemoveCopy(x, c) \/ LeaveCopy(x, c)
    BY <2>1, <1>1, <1>0 DEF TakeRetaskLock, TakeLock, Refused, Release, At, Goto,
      Classify, CheckOptions, PreStop, Stop, ActsOn, WaitStopped, PreWake, SaveRecord,
      FinalReread, Wake, Verify, CopiesHandled, StopCopy, RemoveCopy, LeaveCopy,
      AppendDelivered, ReadHandled, WriteHandled, Finish, ClearMarker, Halt, Label,
      Core, Pruning, Staging, Launching, Appending, Adopting, Between
  <2> QED BY <1>1, <2>1 DEF CoreStep
<1>2. ASSUME x \in Cli, BeginRetask(x) \/ RetaskReturns(x), UNCHANGED watchVars PROVE pc' \in [Caller -> Label]
  <2>1. CASE BeginRetask(x)
    BY <2>1, <1>2, <1>0 DEF BeginRetask, At, Goto, Label, Core, Pruning, Staging,
      Launching, Appending, Adopting, Between
  <2>2. CASE RetaskReturns(x)
    BY <2>2, <1>2, <1>0 DEF RetaskReturns, Finish, Release, At, Goto, Label, Core,
      Pruning, Staging, Launching, Appending, Adopting, Between
  <2> QED BY <1>2, <2>1, <2>2
<1>3. ASSUME x \in Pass, OwnStep(x) PROVE pc' \in [Caller -> Label]
  <2>1. CASE \/ PassFails(x) \/ Search(x) \/ PruneOne(x) \/ TakePruneLock(x)
             \/ JudgeRecord(x) \/ ForgetRecord(x) \/ LoadHandled(x)
             \/ MakePlans(x) \/ NextPlan(x) \/ Provision(x) \/ Launch(x)
             \/ Capture(x) \/ RecordReview(x) \/ AppendStaged(x)
             \/ AppendAdopted(x)
    BY <2>1, <1>3, <1>0 DEF PassFails, PassEnds, Leaves, At, Goto, Search, PruneOne,
      TakePruneLock, TakeLock, JudgeRecord, RemovesPlace, Release, ForgetRecord,
      LoadHandled, MakePlans, NextPlan, Provision, Launch, Born, Capture, RecordReview,
      SaveRecord, StageFails, AppendStaged, ReadHandled, WriteHandled, AppendAdopted,
      Label, Core, Pruning, Staging, Launching, Appending, Adopting, Between
  <2> QED BY <1>3, <2>1 DEF OwnStep
<1> QED BY <1>1, <1>2, <1>3 DEF Acts

LEMMA LocksAreTyped ==
    ASSUME Typed, Placed, NEW x \in Caller, Acts(x)
    PROVE  lock' \in [Instance -> Caller \cup {None}]
<1>0. lock \in [Instance -> Caller \cup {None}]
  BY DEF Typed, RetaskTypeOK
<1>1. ASSUME CoreStep(x), UNCHANGED watchVars PROVE lock' \in [Instance -> Caller \cup {None}]
  <2>1. CASE \/ TakeRetaskLock(x) \/ Classify(x) \/ CheckOptions(x) \/ PreStop(x)
             \/ Stop(x) \/ WaitStopped(x) \/ PreWake(x) \/ FinalReread(x)
             \/ Wake(x) \/ Verify(x) \/ CopiesHandled(x) \/ AppendDelivered(x)
             \/ ClearMarker(x) \/ Halt(x)
             \/ \E c \in Session : StopCopy(x, c) \/ RemoveCopy(x, c) \/ LeaveCopy(x, c)
    BY <2>1, <1>1, <1>0 DEF TakeRetaskLock, TakeLock, Refused, Release, At, Goto,
      Classify, CheckOptions, PreStop, Stop, ActsOn, WaitStopped, PreWake, SaveRecord,
      FinalReread, Wake, Verify, CopiesHandled, StopCopy, RemoveCopy, LeaveCopy,
      AppendDelivered, ReadHandled, WriteHandled, Finish, ClearMarker, Halt
  <2> QED BY <1>1, <2>1 DEF CoreStep
<1>2. ASSUME x \in Cli, BeginRetask(x) \/ RetaskReturns(x), UNCHANGED watchVars PROVE lock' \in [Instance -> Caller \cup {None}]
  <2>1. CASE BeginRetask(x)
    BY <2>1, <1>2, <1>0 DEF BeginRetask, At, Goto
  <2>2. CASE RetaskReturns(x)
    BY <2>2, <1>2, <1>0 DEF RetaskReturns, Finish, Release, At, Goto
  <2> QED BY <1>2, <2>1, <2>2
<1>3. ASSUME x \in Pass, OwnStep(x) PROVE lock' \in [Instance -> Caller \cup {None}]
  <2>1. CASE \/ PassFails(x) \/ Search(x) \/ PruneOne(x) \/ TakePruneLock(x)
             \/ JudgeRecord(x) \/ ForgetRecord(x) \/ LoadHandled(x)
             \/ MakePlans(x) \/ NextPlan(x) \/ Provision(x) \/ Launch(x)
             \/ Capture(x) \/ RecordReview(x) \/ AppendStaged(x)
             \/ AppendAdopted(x)
    BY <2>1, <1>3, <1>0 DEF PassFails, PassEnds, Leaves, At, Goto, Search, PruneOne,
      TakePruneLock, TakeLock, JudgeRecord, RemovesPlace, Release, ForgetRecord,
      LoadHandled, MakePlans, NextPlan, Provision, Launch, Born, Capture, RecordReview,
      SaveRecord, StageFails, AppendStaged, ReadHandled, WriteHandled, AppendAdopted
  <2> QED BY <1>3, <2>1 DEF OwnStep
<1> QED BY <1>1, <1>2, <1>3 DEF Acts

LEMMA LivenessIsTyped ==
    ASSUME Typed, NEW x \in Caller, Acts(x)
    PROVE  live' \in [Caller -> BOOLEAN]
<1>0. live \in [Caller -> BOOLEAN]
  BY DEF Typed, RetaskTypeOK
<1>1. ASSUME CoreStep(x), UNCHANGED watchVars PROVE live' \in [Caller -> BOOLEAN]
  <2>1. CASE \/ TakeRetaskLock(x) \/ CheckOptions(x) \/ PreStop(x) \/ Stop(x)
             \/ WaitStopped(x) \/ PreWake(x) \/ FinalReread(x) \/ Wake(x)
             \/ Verify(x) \/ CopiesHandled(x) \/ AppendDelivered(x)
             \/ ClearMarker(x) \/ Halt(x)
             \/ \E c \in Session : StopCopy(x, c) \/ RemoveCopy(x, c) \/ LeaveCopy(x, c)
    BY <2>1, <1>1, <1>0 DEF TakeRetaskLock, TakeLock, Refused, Release, At, Goto,
      CheckOptions, PreStop, Stop, ActsOn, WaitStopped, PreWake, SaveRecord,
      FinalReread, Wake, Verify, CopiesHandled, StopCopy, RemoveCopy, LeaveCopy,
      AppendDelivered, ReadHandled, WriteHandled, Finish, ClearMarker, Halt
  <2>2. CASE Classify(x)
    <3>1. \E b \in BOOLEAN : live' = [live EXCEPT ![x] = b]
      <4>1. (row[Worker(x)] \in Running) \in BOOLEAN
        OBVIOUS
      <4> QED BY <2>2, <4>1, Zenon DEF Classify, Refused
    <3> QED BY <1>0, <3>1
  <2> QED BY <1>1, <2>1, <2>2 DEF CoreStep
<1>2. ASSUME x \in Cli, BeginRetask(x) \/ RetaskReturns(x), UNCHANGED watchVars PROVE live' \in [Caller -> BOOLEAN]
  <2>1. CASE BeginRetask(x)
    BY <2>1, <1>2, <1>0 DEF BeginRetask, At, Goto
  <2>2. CASE RetaskReturns(x)
    BY <2>2, <1>2, <1>0 DEF RetaskReturns, Finish, Release, At, Goto
  <2> QED BY <1>2, <2>1, <2>2
<1>3. ASSUME x \in Pass, OwnStep(x) PROVE live' \in [Caller -> BOOLEAN]
  <2>1. CASE \/ PassFails(x) \/ Search(x) \/ PruneOne(x) \/ TakePruneLock(x)
             \/ JudgeRecord(x) \/ ForgetRecord(x) \/ LoadHandled(x)
             \/ MakePlans(x) \/ NextPlan(x) \/ Provision(x) \/ Launch(x)
             \/ Capture(x) \/ RecordReview(x) \/ AppendStaged(x)
             \/ AppendAdopted(x)
    BY <2>1, <1>3, <1>0 DEF PassFails, PassEnds, Leaves, At, Goto, Search, PruneOne,
      TakePruneLock, TakeLock, JudgeRecord, RemovesPlace, Release, ForgetRecord,
      LoadHandled, MakePlans, NextPlan, Provision, Launch, Born, Capture, RecordReview,
      SaveRecord, StageFails, AppendStaged, ReadHandled, WriteHandled, AppendAdopted
  <2> QED BY <1>3, <2>1 DEF OwnStep
<1> QED BY <1>1, <1>2, <1>3 DEF Acts

LEMMA CopiesAreTyped ==
    ASSUME Typed, NEW x \in Caller, Acts(x)
    PROVE  copies' \in [Caller -> SUBSET Session]
<1>0. copies \in [Caller -> SUBSET Session]
  BY DEF Typed, RetaskTypeOK
<1>1. ASSUME CoreStep(x), UNCHANGED watchVars PROVE copies' \in [Caller -> SUBSET Session]
  <2>1. CASE \/ TakeRetaskLock(x) \/ Classify(x) \/ CheckOptions(x) \/ PreStop(x)
             \/ Stop(x) \/ WaitStopped(x) \/ PreWake(x) \/ FinalReread(x)
             \/ Wake(x) \/ CopiesHandled(x) \/ AppendDelivered(x)
             \/ ClearMarker(x) \/ Halt(x) \/ \E c \in Session : StopCopy(x, c)
    BY <2>1, <1>1, <1>0 DEF TakeRetaskLock, TakeLock, Refused, Release, At, Goto,
      Classify, CheckOptions, PreStop, Stop, ActsOn, WaitStopped, PreWake, SaveRecord,
      FinalReread, Wake, CopiesHandled, StopCopy, AppendDelivered, ReadHandled,
      WriteHandled, Finish, ClearMarker, Halt, Strays, LiveIn
  <2>2. CASE Verify(x)
    BY <2>2, <1>1, <1>0 DEF Verify, At, Goto, Strays, LiveIn
  <2>3. ASSUME NEW c \in Session, RemoveCopy(x, c) PROVE copies' \in [Caller -> SUBSET Session]
    BY <2>3, <1>1, <1>0 DEF RemoveCopy, ActsOn, At, Goto, Strays, LiveIn
  <2>4. ASSUME NEW c \in Session, LeaveCopy(x, c) PROVE copies' \in [Caller -> SUBSET Session]
    BY <2>4, <1>1, <1>0 DEF LeaveCopy, At, Goto, Strays, LiveIn
  <2> QED BY <1>1, <2>1, <2>2, <2>3, <2>4 DEF CoreStep
<1>2. ASSUME x \in Cli, BeginRetask(x) \/ RetaskReturns(x), UNCHANGED watchVars PROVE copies' \in [Caller -> SUBSET Session]
  <2>1. CASE BeginRetask(x)
    BY <2>1, <1>2, <1>0 DEF BeginRetask, At, Goto, Strays, LiveIn
  <2>2. CASE RetaskReturns(x)
    BY <2>2, <1>2, <1>0 DEF RetaskReturns, Finish, Release, At, Goto, Strays, LiveIn
  <2> QED BY <1>2, <2>1, <2>2
<1>3. ASSUME x \in Pass, OwnStep(x) PROVE copies' \in [Caller -> SUBSET Session]
  <2>1. CASE \/ PassFails(x) \/ Search(x) \/ PruneOne(x) \/ TakePruneLock(x)
             \/ JudgeRecord(x) \/ ForgetRecord(x) \/ LoadHandled(x)
             \/ MakePlans(x) \/ NextPlan(x) \/ Provision(x) \/ Launch(x)
             \/ Capture(x) \/ RecordReview(x) \/ AppendStaged(x)
             \/ AppendAdopted(x)
    BY <2>1, <1>3, <1>0 DEF PassFails, PassEnds, Leaves, At, Goto, Search, PruneOne,
      TakePruneLock, TakeLock, JudgeRecord, RemovesPlace, Release, ForgetRecord,
      LoadHandled, MakePlans, NextPlan, Provision, Launch, Born, Capture, RecordReview,
      SaveRecord, StageFails, AppendStaged, ReadHandled, WriteHandled, AppendAdopted,
      Strays, LiveIn
  <2> QED BY <1>3, <2>1 DEF OwnStep
<1> QED BY <1>1, <1>2, <1>3 DEF Acts

LEMMA HeadsReadAreTyped ==
    ASSUME Typed, NEW x \in Caller, Acts(x)
    PROVE  buf' \in [Caller -> [PR -> {NeverHandled, UnknownHead} \cup Sha]]
<1> DEFINE Heads == [PR -> {NeverHandled, UnknownHead} \cup Sha]
<1>0. buf \in [Caller -> Heads] /\ handled \in Heads
  BY DEF Typed, RetaskTypeOK, WorldTypeOK
<1>1. ASSUME CoreStep(x), UNCHANGED watchVars PROVE buf' \in [Caller -> [PR -> {NeverHandled, UnknownHead} \cup Sha]]
  <2>1. CASE \/ TakeRetaskLock(x) \/ Classify(x) \/ CheckOptions(x) \/ PreStop(x)
             \/ Stop(x) \/ WaitStopped(x) \/ PreWake(x) \/ FinalReread(x)
             \/ Wake(x) \/ Verify(x) \/ CopiesHandled(x) \/ ClearMarker(x)
             \/ Halt(x)
             \/ \E c \in Session : StopCopy(x, c) \/ RemoveCopy(x, c) \/ LeaveCopy(x, c)
    BY <2>1, <1>1, <1>0 DEF TakeRetaskLock, TakeLock, Refused, Release, At, Goto,
      Classify, CheckOptions, PreStop, Stop, ActsOn, WaitStopped, PreWake, SaveRecord,
      FinalReread, Wake, Verify, CopiesHandled, StopCopy, RemoveCopy, LeaveCopy,
      ClearMarker, Finish, Halt
  <2>2. CASE AppendDelivered(x)
    <3>1. buf' \in {buf, [buf EXCEPT ![x] = handled], [buf EXCEPT ![x] = NotRead]}
      BY <2>2 DEF AppendDelivered, ReadHandled, WriteHandled
    <3>2. NotRead \in Heads
      BY DEF NotRead
    <3> HIDE DEF Heads
    <3>3. buf' \in [Caller -> Heads]
      BY <1>0, <3>1, <3>2
    <3> QED BY <3>3 DEF Heads
  <2> QED BY <1>1, <2>1, <2>2 DEF CoreStep
<1>2. ASSUME x \in Cli, BeginRetask(x) \/ RetaskReturns(x), UNCHANGED watchVars PROVE buf' \in [Caller -> [PR -> {NeverHandled, UnknownHead} \cup Sha]]
  <2>1. CASE BeginRetask(x)
    BY <2>1, <1>2, <1>0 DEF BeginRetask, At, Goto
  <2>2. CASE RetaskReturns(x)
    BY <2>2, <1>2, <1>0 DEF RetaskReturns, Finish, Release, At, Goto
  <2> QED BY <1>2, <2>1, <2>2
<1>3. ASSUME x \in Pass, OwnStep(x) PROVE buf' \in [Caller -> [PR -> {NeverHandled, UnknownHead} \cup Sha]]
  <2>1. CASE \/ PassFails(x) \/ Search(x) \/ PruneOne(x) \/ TakePruneLock(x)
             \/ JudgeRecord(x) \/ ForgetRecord(x) \/ LoadHandled(x)
             \/ MakePlans(x) \/ NextPlan(x) \/ Provision(x) \/ Launch(x)
             \/ Capture(x) \/ RecordReview(x)
    BY <2>1, <1>3, <1>0 DEF PassFails, PassEnds, Leaves, At, Goto, Search, PruneOne,
      TakePruneLock, TakeLock, JudgeRecord, RemovesPlace, Release, ForgetRecord,
      LoadHandled, MakePlans, NextPlan, Provision, Launch, Born, Capture, RecordReview,
      SaveRecord, StageFails
  <2>2. CASE AppendStaged(x)
    <3>1. buf' \in {buf, [buf EXCEPT ![x] = handled], [buf EXCEPT ![x] = NotRead]}
      BY <2>2 DEF AppendStaged, ReadHandled, WriteHandled
    <3>2. NotRead \in Heads
      BY DEF NotRead
    <3> HIDE DEF Heads
    <3>3. buf' \in [Caller -> Heads]
      BY <1>0, <3>1, <3>2
    <3> QED BY <3>3 DEF Heads
  <2>3. CASE AppendAdopted(x)
    <3>1. buf' \in {buf, [buf EXCEPT ![x] = handled], [buf EXCEPT ![x] = NotRead]}
      BY <2>3 DEF AppendAdopted, ReadHandled, WriteHandled
    <3>2. NotRead \in Heads
      BY DEF NotRead
    <3> HIDE DEF Heads
    <3>3. buf' \in [Caller -> Heads]
      BY <1>0, <3>1, <3>2
    <3> QED BY <3>3 DEF Heads
  <2> QED BY <1>3, <2>1, <2>2, <2>3 DEF OwnStep
<1> QED BY <1>1, <1>2, <1>3 DEF Acts

HistoryTyped ==
    /\ sent \in [Session -> [Sha -> 0..2]] /\ unsure \subseteq Session
    /\ reviewed \subseteq PR \X Sha /\ of \in [Session -> PR \cup {0}]

LEMMA HistoryIsTyped ==
    ASSUME Typed, Placed, NEW x \in Caller, Acts(x)
    PROVE  HistoryTyped'
<1> USE DEF HistoryTyped
<1>0. HistoryTyped /\ Reads(x)
  BY DEF Typed, Placed, RetaskTypeOK
<1>1. ASSUME CoreStep(x), UNCHANGED watchVars PROVE HistoryTyped'
  <2>1. CASE \/ TakeRetaskLock(x) \/ Classify(x) \/ CheckOptions(x) \/ PreStop(x)
             \/ Stop(x) \/ WaitStopped(x) \/ PreWake(x) \/ FinalReread(x)
             \/ Verify(x) \/ CopiesHandled(x) \/ AppendDelivered(x)
             \/ ClearMarker(x) \/ Halt(x)
             \/ \E c \in Session : StopCopy(x, c) \/ RemoveCopy(x, c) \/ LeaveCopy(x, c)
    BY <2>1, <1>1, <1>0 DEF TakeRetaskLock, TakeLock, Refused, Release, At, Goto,
      Classify, CheckOptions, PreStop, Stop, ActsOn, WaitStopped, PreWake, SaveRecord,
      FinalReread, Verify, CopiesHandled, StopCopy, RemoveCopy, LeaveCopy,
      AppendDelivered, ReadHandled, WriteHandled, Finish, ClearMarker, Halt,
      HistoryTyped
  <2>2. CASE Wake(x)
    <3>1. /\ Worker(x) \in Session
          /\ x \in Pass => job[x].h \in Sha /\ job[x].pr \in PR
      BY <1>0, <2>2 DEF Wake, At, Reads, Core
    <3> DEFINE s == Worker(x)
               h == IF x \in Pass THEN job[x].h ELSE 1
    <3>2. s \in Session /\ h \in Sha
      BY <3>1, HeadsAreNumbers
    <3>3. sent' = [sent EXCEPT ![s][h] = IF @ < 2 THEN @ + 1 ELSE @]
      BY <2>2 DEF Wake
    <3>8. unsure' = unsure \cup {s} /\ of' = of
      BY <2>2 DEF Wake
    <3> HIDE DEF s, h
    <3> DEFINE n == IF sent[s][h] < 2 THEN sent[s][h] + 1 ELSE sent[s][h]
    <3>4. sent[s] \in [Sha -> 0..2] /\ n \in 0..2
      BY <1>0, <3>2
    <3>5. sent' \in [Session -> [Sha -> 0..2]]
      <4>1. sent' = [sent EXCEPT ![s] = [sent[s] EXCEPT ![h] = n]]
        BY <1>0, <3>2, <3>3, Zenon
      <4> HIDE DEF n
      <4>2. [sent[s] EXCEPT ![h] = n] \in [Sha -> 0..2]
        BY <3>2, <3>4
      <4> QED BY <1>0, <3>2, <4>1, <4>2
    <3>6. reviewed' \subseteq PR \X Sha
      BY <1>0, <3>1, <2>2 DEF Wake
    <3> QED BY <1>0, <3>2, <3>8, <3>5, <3>6
  <2> QED BY <1>1, <2>1, <2>2 DEF CoreStep
<1>2. ASSUME x \in Cli, BeginRetask(x) \/ RetaskReturns(x), UNCHANGED watchVars PROVE HistoryTyped'
  <2>1. CASE BeginRetask(x)
    BY <2>1, <1>2, <1>0 DEF BeginRetask, At, Goto, HistoryTyped
  <2>2. CASE RetaskReturns(x)
    BY <2>2, <1>2, <1>0 DEF RetaskReturns, Finish, Release, At, Goto, HistoryTyped
  <2> QED BY <1>2, <2>1, <2>2
<1>3. ASSUME x \in Pass, OwnStep(x) PROVE HistoryTyped'
  <2>1. CASE \/ PassFails(x) \/ Search(x) \/ PruneOne(x) \/ TakePruneLock(x)
             \/ JudgeRecord(x) \/ ForgetRecord(x) \/ LoadHandled(x)
             \/ MakePlans(x) \/ NextPlan(x) \/ Provision(x) \/ Capture(x)
             \/ RecordReview(x) \/ AppendStaged(x)
    BY <2>1, <1>3, <1>0 DEF PassFails, PassEnds, Leaves, At, Goto, Search, PruneOne,
      TakePruneLock, TakeLock, JudgeRecord, RemovesPlace, Release, ForgetRecord,
      LoadHandled, MakePlans, NextPlan, Provision, Capture, RecordReview, SaveRecord,
      StageFails, AppendStaged, ReadHandled, WriteHandled, HistoryTyped
  <2>2. CASE Launch(x)
    <3>1. /\ sent' = sent /\ unsure' = unsure
          /\ \/ reviewed' = reviewed /\ of' = of
             \/ \E s \in Session : /\ reviewed' = reviewed \cup {<<job[x].pr, job[x].h>>}
                                   /\ of' = [of EXCEPT ![s] = job[x].pr]
      BY <2>2, NextNames DEF Launch
    <3>2. job[x].pr \in PR /\ job[x].h \in Sha
      BY <1>0, <1>3, <2>2 DEF Launch, At, Reads, Staging
    <3> QED BY <1>0, <3>1, <3>2
  <2>3. CASE AppendAdopted(x)
    <3>1. /\ sent' = sent /\ unsure' = unsure /\ of' = of
          /\ \/ reviewed' = reviewed
             \/ At(x, "adoptwrite") /\ reviewed' = reviewed \cup {<<job[x].pr, job[x].h>>}
      BY <2>3 DEF AppendAdopted, ReadHandled
    <3>2. At(x, "adoptwrite") => job[x].pr \in PR /\ job[x].h \in Sha
      BY <1>0, <1>3 DEF At, Reads, Adopting
    <3> QED BY <1>0, <3>1, <3>2
  <2> QED BY <1>3, <2>1, <2>2, <2>3 DEF OwnStep
<1> QED BY <1>1, <1>2, <1>3 DEF Acts

-----------------------------------------------------------------------------
(* What a pass decides.                                                    *)

LEMMA ContinuableIs ==
    ASSUME NEW p \in PR, ContinuableRecord(p) # NoRecord
    PROVE  /\ Continuable(ContinuableRecord(p))
           /\ ContinuableRecord(p).pr = p
           /\ \E h \in Handle : staged[h] = ContinuableRecord(p)
<1> DEFINE able == {r \in StagedFor(p) : Continuable(r)}
<1>1. Cardinality(able) = 1 /\ ContinuableRecord(p) = CHOOSE r \in able : TRUE
  BY DEF ContinuableRecord
<1>2. able # {}
  BY <1>1, FS_EmptySet
<1>3. ContinuableRecord(p) \in able
  BY <1>1, <1>2
<1> QED BY <1>3 DEF StagedFor

LEMMA DecidedIs ==
    ASSUME NEW x \in Pass, req[x] \subseteq PR, NEW q \in Decide(x)
    PROVE  /\ q = [pr |-> q.pr, kind |-> q.kind, rec |-> q.rec, h |-> q.h]
           /\ q.pr \in req[x] /\ q.kind \in Kind /\ q.kind = DecideKind(x, q.pr)
           /\ q.rec = IF q.kind = "Continue" THEN ContinuableRecord(q.pr) ELSE NoRecord
           /\ q.h = IF q.kind = "Adopt" THEN head[q.pr] ELSE 0
<1>1. PICK p \in req[x] :
          /\ DecideKind(x, p) \in Kind
          /\ q = [pr |-> p, kind |-> DecideKind(x, p),
                  rec |-> IF DecideKind(x, p) = "Continue" THEN ContinuableRecord(p) ELSE NoRecord,
                  h |-> IF DecideKind(x, p) = "Adopt" THEN head[p] ELSE 0]
  BY Zenon DEF Decide
<1> QED BY <1>1

LEMMA KindIs ==
    ASSUME NEW x \in Pass, NEW p \in PR
    PROVE  /\ DecideKind(x, p) = "Continue" =>
                  /\ known[x][p] \notin {NeverHandled, UnknownHead} /\ known[x][p] # head[p]
                  /\ ContinuableRecord(p) # NoRecord
           /\ DecideKind(x, p) = "Adopt" => known[x][p] = UnknownHead
           /\ DecideKind(x, p) = "Fresh" =>
                  \/ known[x][p] = NeverHandled
                  \/ known[x][p] # UnknownHead /\ known[x][p] # head[p] /\ ~IsLive(p)
BY DEF DecideKind

LEMMA BudgetIs ==
    ASSUME NEW n \in Nat
    PROVE  /\ StageBudget(n) \in 0..PerRunBound
           /\ StageBudget(n) = 0 \/ StageBudget(n) + n <= MaxStaged
BY Limits DEF Limits, StageBudget

LEMMA LivePRsAreCounted == Cardinality({p \in PR : IsLive(p)}) \in Nat
BY NumberedNames, FS_Subset, FS_CardinalityType DEF NumberedNames

LEMMA PlansAreTyped ==
    ASSUME Typed, NEW x \in Pass
    PROVE  /\ Decide(x) \subseteq Plan
           /\ \A q \in Decide(x) :
                  /\ q.kind = "Continue" =>
                         q.rec \in Record /\ q.rec.sess \in Session /\ q.rec.pr = q.pr /\ q.rec.halted = 0
                  /\ q.kind = "Adopt" => q.h \in Sha
<1>0. req[x] \subseteq PR /\ WorldTypeOK
  BY DEF Typed, WatchTypeOK
<1> SUFFICES ASSUME NEW q \in Decide(x)
             PROVE  /\ q \in Plan
                    /\ q.kind = "Continue" =>
                           q.rec \in Record /\ q.rec.sess \in Session /\ q.rec.pr = q.pr /\ q.rec.halted = 0
                    /\ q.kind = "Adopt" => q.h \in Sha
  OBVIOUS
<1>1. /\ q = [pr |-> q.pr, kind |-> q.kind, rec |-> q.rec, h |-> q.h]
      /\ q.pr \in PR /\ q.kind \in Kind /\ q.kind = DecideKind(x, q.pr)
      /\ q.rec = IF q.kind = "Continue" THEN ContinuableRecord(q.pr) ELSE NoRecord
      /\ q.h = IF q.kind = "Adopt" THEN head[q.pr] ELSE 0
  BY <1>0, DecidedIs
<1>2. head[q.pr] \in Sha
  BY <1>0, <1>1 DEF WorldTypeOK
<1>3. q.kind = "Continue" => q.rec \in Record /\ q.rec.sess \in Session /\ q.rec.pr = q.pr /\ q.rec.halted = 0
  <2> SUFFICES ASSUME q.kind = "Continue"
               PROVE  q.rec \in Record /\ q.rec.sess \in Session /\ q.rec.pr = q.pr /\ q.rec.halted = 0
    OBVIOUS
  <2>1. q.rec = ContinuableRecord(q.pr) /\ q.rec # NoRecord
    BY <1>1, KindIs
  <2>2. Continuable(q.rec) /\ q.rec.pr = q.pr /\ \E h \in Handle : staged[h] = q.rec
    BY <1>1, <2>1, ContinuableIs
  <2>3. q.rec \in Record
    BY <1>0, <2>1, <2>2 DEF WorldTypeOK
  <2> QED BY <2>2, <2>3, RecordFields DEF Continuable
<1>4. q \in Plan
  <2>1. q.rec \in Record \cup {NoRecord} /\ q.h \in Sha \cup {0}
    BY <1>1, <1>2, <1>3
  <2> QED BY <1>1, <2>1 DEF Plan
<1> QED BY <1>1, <1>2, <1>3, <1>4

LEMMA WatchIsTyped ==
    ASSUME Typed, Placed, NEW x \in Caller, Acts(x)
    PROVE  WatchTypeOK'
<1>0. /\ WatchTypeOK /\ Reads(x) /\ NotRead \in [PR -> {NeverHandled, UnknownHead} \cup Sha]
      /\ handled \in [PR -> {NeverHandled, UnknownHead} \cup Sha]
      /\ 0 \in 0..PerRunBound
  BY Limits DEF Typed, Placed, NotRead, WorldTypeOK, Limits
<1>1. ASSUME CoreStep(x), UNCHANGED watchVars PROVE WatchTypeOK'
  <2>1. CASE \/ TakeRetaskLock(x) \/ Classify(x) \/ CheckOptions(x) \/ PreStop(x)
             \/ Stop(x) \/ WaitStopped(x) \/ PreWake(x) \/ FinalReread(x)
             \/ Wake(x) \/ Verify(x) \/ CopiesHandled(x) \/ AppendDelivered(x)
             \/ ClearMarker(x) \/ Halt(x)
             \/ \E c \in Session : StopCopy(x, c) \/ RemoveCopy(x, c) \/ LeaveCopy(x, c)
    BY <2>1, <1>1, <1>0 DEF TakeRetaskLock, TakeLock, Refused, Release, At, Goto,
      Classify, CheckOptions, PreStop, Stop, ActsOn, WaitStopped, PreWake, SaveRecord,
      FinalReread, Wake, Verify, CopiesHandled, StopCopy, RemoveCopy, LeaveCopy,
      AppendDelivered, ReadHandled, WriteHandled, Finish, ClearMarker, Halt,
      WatchTypeOK
  <2> QED BY <1>1, <2>1 DEF CoreStep
<1>2. ASSUME x \in Cli, BeginRetask(x) \/ RetaskReturns(x), UNCHANGED watchVars PROVE WatchTypeOK'
  <2>1. CASE BeginRetask(x)
    BY <2>1, <1>2, <1>0 DEF BeginRetask, At, Goto, WatchTypeOK
  <2>2. CASE RetaskReturns(x)
    BY <2>2, <1>2, <1>0 DEF RetaskReturns, Finish, Release, At, Goto, WatchTypeOK
  <2> QED BY <1>2, <2>1, <2>2
<1>3. ASSUME x \in Pass, OwnStep(x) PROVE WatchTypeOK'
  <2>1. CASE \/ TakePruneLock(x) \/ ForgetRecord(x) \/ Provision(x)
             \/ AppendAdopted(x)
    BY <2>1, <1>3, <1>0 DEF TakePruneLock, TakeLock, Leaves, At, Goto, ForgetRecord,
      Release, Provision, AppendAdopted, ReadHandled, WriteHandled, WatchTypeOK
  <2>2. CASE PassFails(x)
    BY <2>2, <1>0, <1>3 DEF PassFails, PassEnds, WatchTypeOK
  <2>3. CASE Search(x)
    BY <2>3, <1>3, <1>0 DEF Search, At, Goto, WatchTypeOK
  <2>4. CASE PruneOne(x)
    BY <2>4, <1>3, <1>0 DEF PruneOne, At, Goto, WatchTypeOK
  <2>5. CASE JudgeRecord(x)
    BY <2>5, <1>3, <1>0 DEF JudgeRecord, RemovesPlace, Leaves, Release, At, Goto,
      WatchTypeOK
  <2>6. CASE LoadHandled(x)
    <3>1. known' = [known EXCEPT ![x] = handled] /\ UNCHANGED <<req, todo, plans, budget, mishaps>>
      BY <2>6 DEF LoadHandled
    <3> QED BY <1>0, <3>1 DEF WatchTypeOK
  <2>7. CASE MakePlans(x)
    <3>1. Decide(x) \subseteq Plan
      BY <1>3, PlansAreTyped
    <3>2. StageBudget(Cardinality({p \in PR : IsLive(p)})) \in 0..PerRunBound
      BY BudgetIs, LivePRsAreCounted
    <3> DEFINE D == Decide(x)
               b == StageBudget(Cardinality({p \in PR : IsLive(p)}))
    <3>3. \/ plans' = [plans EXCEPT ![x] = D] /\ budget' = [budget EXCEPT ![x] = b] /\ UNCHANGED <<req, todo, known, mishaps>>
          \/ PassEnds(x)
      BY <2>7 DEF MakePlans
    <3> HIDE DEF D, b
    <3>4. CASE PassEnds(x)
      BY <1>0, <3>4 DEF PassEnds, WatchTypeOK
    <3>5. CASE plans' = [plans EXCEPT ![x] = D] /\ budget' = [budget EXCEPT ![x] = b] /\ UNCHANGED <<req, todo, known, mishaps>>
      <4>1. D \subseteq Plan /\ b \in 0..PerRunBound
        BY <3>1, <3>2 DEF D, b
      <4> QED BY <1>0, <3>5, <4>1 DEF WatchTypeOK
    <3> QED BY <3>3, <3>4, <3>5
  <2>8. CASE NextPlan(x)
    <3>1. \/ PassEnds(x)
          \/ /\ \E p : plans' = [plans EXCEPT ![x] = @ \ {p}]
             /\ known' = [known EXCEPT ![x] = NotRead]
             /\ UNCHANGED <<req, todo, budget, mishaps>>
      BY <2>8 DEF NextPlan
    <3>2. CASE PassEnds(x)
      BY <1>0, <3>2 DEF PassEnds, WatchTypeOK
    <3>3. CASE /\ \E p : plans' = [plans EXCEPT ![x] = @ \ {p}]
               /\ known' = [known EXCEPT ![x] = NotRead]
               /\ UNCHANGED <<req, todo, budget, mishaps>>
      BY <1>0, <1>3, <3>3 DEF WatchTypeOK
    <3> QED BY <3>1, <3>2, <3>3
  <2>9. CASE Launch(x)
    BY <2>9, <1>3, <1>0 DEF Launch, Born, RemovesPlace, At, Goto, WatchTypeOK
  <2>10. CASE Capture(x)
    BY <2>10, <1>3, <1>0 DEF Capture, At, Goto, WatchTypeOK
  <2>11. CASE RecordReview(x)
    BY <2>11, <1>3, <1>0 DEF RecordReview, SaveRecord, StageFails, RemovesPlace, At,
      Goto, WatchTypeOK
  <2>12. CASE AppendStaged(x)
    <3>1. UNCHANGED <<req, todo, known, plans>>
      BY <2>12 DEF AppendStaged
    <3>2. mishaps' \subseteq mishaps \cup {"removal"}
      BY <2>12 DEF AppendStaged, StageFails, RemovesPlace
    <3>3. budget' = budget \/ budget' = [budget EXCEPT ![x] = @ - 1]
      BY <2>12 DEF AppendStaged
    <3>4. budget[x] > 0
      BY <1>0, <1>3, <2>12 DEF AppendStaged, ReadHandled, At, Reads, Staging, Appending
    <3>5. budget[x] - 1 \in 0..PerRunBound
      BY <1>0, <1>3, <3>4, Limits DEF WatchTypeOK, Limits
    <3>6. budget' \in [Pass -> 0..PerRunBound]
      BY <1>0, <3>3, <3>5 DEF WatchTypeOK
    <3> QED BY <1>0, <3>1, <3>2, <3>6 DEF WatchTypeOK
  <2> QED BY <1>3, <2>1, <2>2, <2>3, <2>4, <2>5, <2>6, <2>7, <2>8, <2>9, <2>10, <2>11,
      <2>12 DEF OwnStep
<1> QED BY <1>1, <1>2, <1>3 DEF Acts

LEMMA WorldIsTyped ==
    ASSUME Typed, Placed, NEW x \in Caller, Acts(x)
    PROVE  WorldTypeOK'
<1>0. Typed /\ WorldTypeOK /\ Reads(x)
  BY DEF Typed, Placed
<1>1. ASSUME CoreStep(x), UNCHANGED watchVars PROVE WorldTypeOK'
  <2>1. CASE \/ TakeRetaskLock(x) \/ Classify(x) \/ CheckOptions(x) \/ PreStop(x)
             \/ WaitStopped(x) \/ FinalReread(x) \/ Verify(x) \/ CopiesHandled(x)
             \/ Halt(x) \/ \E c \in Session : LeaveCopy(x, c)
    BY <2>1, <1>1, <1>0 DEF TakeRetaskLock, TakeLock, Refused, Release, At, Goto,
      Classify, CheckOptions, PreStop, WaitStopped, FinalReread, Verify, CopiesHandled,
      LeaveCopy, Halt, Finish, WorldTypeOK
  <2>2. CASE Stop(x)
    <3>1. \E s \in Session, to \in RowState : row' \in {row, [row EXCEPT ![s] = to]}
      BY <1>0, <1>1, <2>2 DEF Stop, Refused, ActsOn, At, Reads, Core, RowState
    <3>2. UNCHANGED <<root, wakes, mapped, disk, githubVars, watchFiles>>
      BY <2>2 DEF Stop, Refused, ActsOn
    <3> QED BY <1>0, <3>1, <3>2 DEF WorldTypeOK
  <2>3. CASE PreWake(x)
    <3> DEFINE r == [job[x].rec EXCEPT !.halted = job[x].h]
    <3>1. UNCHANGED <<sessionVars, disk, githubVars, handled>>
      BY <2>3 DEF PreWake, Refused
    <3>2. staged' = staged \/ staged' = [staged EXCEPT ![HandleOf[job[x].pr]] = r]
      BY <2>3 DEF PreWake, Refused, SaveRecord
    <3>3. x \in Pass
      BY <1>0, <2>3 DEF PreWake, At, Reads, Core
    <3>4. r \in Record
      BY <1>0, <3>3, <2>3, MarkedRecord DEF PreWake, At, Reads, Core
    <3> HIDE DEF r
    <3> QED BY <1>0, <3>1, <3>2, <3>4 DEF WorldTypeOK
  <2>4. CASE Wake(x)
    <3>1. UNCHANGED <<row, root, mapped, disk, githubVars, watchFiles>>
      BY <2>4 DEF Wake
    <3>2. \E h \in Sha : wakes' \in {[wakes EXCEPT ![Worker(x)] = @ \cup {h}], [wakes EXCEPT ![Worker(x)] = @]}
      <4>1. x \in Pass => job[x].h \in Sha
        BY <1>0, <2>4 DEF Wake, At, Reads, Core
      <4>2. (IF x \in Pass THEN job[x].h ELSE 1) \in Sha
        BY <4>1, HeadsAreNumbers
      <4> QED BY <4>2, <2>4 DEF Wake
    <3> QED BY <1>0, <3>1, <3>2 DEF WorldTypeOK
  <2>5. ASSUME NEW c \in Session, StopCopy(x, c) PROVE WorldTypeOK'
    BY <2>5, <1>1, <1>0 DEF StopCopy, ActsOn, At, Goto, WorldTypeOK, RowState
  <2>6. ASSUME NEW c \in Session, RemoveCopy(x, c) PROVE WorldTypeOK'
    BY <2>6, <1>1, <1>0 DEF RemoveCopy, ActsOn, At, Goto, WorldTypeOK, RowState
  <2>7. CASE AppendDelivered(x)
    <3> DEFINE Heads == [PR -> {NeverHandled, UnknownHead} \cup Sha]
    <3>1. handled' = handled \/ handled' = buf[x] \/ handled' = [buf[x] EXCEPT ![job[x].pr] = job[x].h]
      BY <2>7 DEF AppendDelivered, ReadHandled, WriteHandled
    <3>2. At(x, "postwrite") => job[x].h \in Sha
      BY <1>0, <1>1 DEF At, Reads, Core, Staging, Appending, Adopting
    <3>3. handled' = handled \/ At(x, "postwrite")
      BY <2>7 DEF AppendDelivered, ReadHandled
    <3>4. buf[x] \in Heads /\ handled \in Heads
      BY <1>0 DEF Typed, RetaskTypeOK, WorldTypeOK
    <3>5. At(x, "postwrite") => [buf[x] EXCEPT ![job[x].pr] = job[x].h] \in Heads
      BY <3>2, <3>4
    <3> HIDE DEF Heads
    <3>6. handled' \in Heads
      BY <3>1, <3>3, <3>4, <3>5
    <3>7. UNCHANGED <<sessionVars, githubVars, staged>> /\ disk' \in [Instance -> BOOLEAN]
      BY <1>0, <2>7 DEF AppendDelivered, ReadHandled, WorldTypeOK
    <3> QED BY <1>0, <3>6, <3>7 DEF WorldTypeOK, Heads
  <2>8. CASE ClearMarker(x)
    <3> DEFINE b == IF At(x, "postsave") THEN job[x].h ELSE job[x].rec.base
               r == [job[x].rec EXCEPT !.halted = 0, !.base = b]
    <3>1. UNCHANGED <<sessionVars, disk, githubVars, handled>>
      BY <2>8 DEF ClearMarker
    <3>2. staged' = staged \/ staged' = [staged EXCEPT ![HandleOf[job[x].pr]] = r]
      BY <2>8 DEF ClearMarker, SaveRecord
    <3>3. b \in Sha /\ job[x].rec \in Record
      BY <1>0, <2>8, RecordFields DEF ClearMarker, At, Reads, Core
    <3> HIDE DEF b
    <3>4. r \in Record
      BY <3>3, MarkedRecord
    <3> HIDE DEF r
    <3> QED BY <1>0, <3>1, <3>2, <3>4 DEF WorldTypeOK
  <2> QED BY <1>1, <2>1, <2>2, <2>3, <2>4, <2>5, <2>6, <2>7, <2>8 DEF CoreStep
<1>2. ASSUME x \in Cli, BeginRetask(x) \/ RetaskReturns(x), UNCHANGED watchVars PROVE WorldTypeOK'
  <2>1. CASE BeginRetask(x)
    BY <2>1, <1>2, <1>0 DEF BeginRetask, At, Goto, WorldTypeOK, RowState
  <2>2. CASE RetaskReturns(x)
    BY <2>2, <1>2, <1>0 DEF RetaskReturns, Finish, Release, At, Goto, WorldTypeOK,
      RowState
  <2> QED BY <1>2, <2>1, <2>2
<1>3. ASSUME x \in Pass, OwnStep(x) PROVE WorldTypeOK'
  <2>1. CASE \/ PassFails(x) \/ Search(x) \/ PruneOne(x) \/ TakePruneLock(x)
             \/ LoadHandled(x) \/ MakePlans(x) \/ NextPlan(x) \/ Capture(x)
    BY <2>1, <1>3, <1>0 DEF PassFails, PassEnds, Leaves, At, Goto, Search, PruneOne,
      TakePruneLock, TakeLock, LoadHandled, MakePlans, NextPlan, Capture, WorldTypeOK
  <2>2. CASE JudgeRecord(x)
    BY <2>2, <1>3, <1>0 DEF JudgeRecord, RemovesPlace, Leaves, Release, At, Goto,
      WorldTypeOK, RowState
  <2>3. CASE ForgetRecord(x)
    BY <2>3, <1>3, <1>0 DEF ForgetRecord, Leaves, Release, At, Goto, WorldTypeOK,
      RowState
  <2>4. CASE Provision(x)
    BY <2>4, <1>3, <1>0 DEF Provision, At, Goto, WorldTypeOK, RowState
  <2>5. CASE Launch(x)
    <3>1. UNCHANGED <<githubVars, watchFiles>>
      BY <2>5 DEF Launch
    <3>2. \/ UNCHANGED sessionVars /\ disk' \in [Instance -> BOOLEAN]
          \/ \E s \in Session : Born(s, Place(x), "starting") /\ disk' = disk
      BY <1>0, <2>5, NextNames DEF Launch, RemovesPlace, WorldTypeOK
    <3>3. Place(x) \in Instance
      BY <1>0, <1>3, <2>5 DEF Launch, At, Reads, Staging, Place
    <3>4. CASE UNCHANGED sessionVars /\ disk' \in [Instance -> BOOLEAN]
      BY <1>0, <3>1, <3>4 DEF WorldTypeOK
    <3>5. ASSUME NEW s \in Session, Born(s, Place(x), "starting"), disk' = disk PROVE WorldTypeOK'
      BY <1>0, <3>1, <3>3, <3>5 DEF WorldTypeOK, Born, RowState
    <3> QED BY <3>2, <3>4, <3>5
  <2>6. CASE RecordReview(x)
    <3> DEFINE r == [pr |-> job[x].pr, inst |-> Place(x), base |-> job[x].h, sess |-> Worker(x), halted |-> 0]
    <3>1. UNCHANGED <<sessionVars, githubVars, handled>> /\ disk' \in [Instance -> BOOLEAN]
      BY <1>0, <2>6 DEF RecordReview, StageFails, RemovesPlace, WorldTypeOK
    <3>2. staged' = staged \/ staged' = [staged EXCEPT ![HandleOf[job[x].pr]] = r]
      BY <2>6 DEF RecordReview, SaveRecord
    <3>3. job[x].sess \in Session \cup {None}
      BY <1>0, JobFields DEF Typed, RetaskTypeOK
    <3>4. r \in Record
      BY <1>0, <1>3, <2>6, <3>3, RecordsAre DEF RecordReview, At, Reads, Staging, Launching, Place, Worker
    <3> HIDE DEF r
    <3> QED BY <1>0, <3>1, <3>2, <3>4 DEF WorldTypeOK
  <2>7. CASE AppendStaged(x)
    <3> DEFINE Heads == [PR -> {NeverHandled, UnknownHead} \cup Sha]
    <3>1. handled' = handled \/ handled' = buf[x] \/ handled' = [buf[x] EXCEPT ![job[x].pr] = job[x].h]
      BY <2>7 DEF AppendStaged, ReadHandled, WriteHandled, StageFails, RemovesPlace
    <3>2. At(x, "stagewrite") => job[x].h \in Sha
      BY <1>0, <1>3 DEF At, Reads, Core, Staging, Appending, Adopting
    <3>3. handled' = handled \/ At(x, "stagewrite")
      BY <2>7 DEF AppendStaged, ReadHandled
    <3>4. buf[x] \in Heads /\ handled \in Heads
      BY <1>0 DEF Typed, RetaskTypeOK, WorldTypeOK
    <3>5. At(x, "stagewrite") => [buf[x] EXCEPT ![job[x].pr] = job[x].h] \in Heads
      BY <3>2, <3>4
    <3> HIDE DEF Heads
    <3>6. handled' \in Heads
      BY <3>1, <3>3, <3>4, <3>5
    <3>7. UNCHANGED <<sessionVars, githubVars, staged>> /\ disk' \in [Instance -> BOOLEAN]
      BY <1>0, <2>7 DEF AppendStaged, ReadHandled, StageFails, RemovesPlace, WorldTypeOK
    <3> QED BY <1>0, <3>6, <3>7 DEF WorldTypeOK, Heads
  <2>8. CASE AppendAdopted(x)
    <3> DEFINE Heads == [PR -> {NeverHandled, UnknownHead} \cup Sha]
    <3>1. handled' = handled \/ handled' = buf[x] \/ handled' = [buf[x] EXCEPT ![job[x].pr] = job[x].h]
      BY <2>8 DEF AppendAdopted, ReadHandled, WriteHandled
    <3>2. At(x, "adoptwrite") => job[x].h \in Sha
      BY <1>0, <1>3 DEF At, Reads, Core, Staging, Appending, Adopting
    <3>3. handled' = handled \/ At(x, "adoptwrite")
      BY <2>8 DEF AppendAdopted, ReadHandled
    <3>4. buf[x] \in Heads /\ handled \in Heads
      BY <1>0 DEF Typed, RetaskTypeOK, WorldTypeOK
    <3>5. At(x, "adoptwrite") => [buf[x] EXCEPT ![job[x].pr] = job[x].h] \in Heads
      BY <3>2, <3>4
    <3> HIDE DEF Heads
    <3>6. handled' \in Heads
      BY <3>1, <3>3, <3>4, <3>5
    <3>7. UNCHANGED <<sessionVars, githubVars, staged>> /\ disk' \in [Instance -> BOOLEAN]
      BY <1>0, <2>8 DEF AppendAdopted, ReadHandled, WorldTypeOK
    <3> QED BY <1>0, <3>6, <3>7 DEF WorldTypeOK, Heads
  <2> QED BY <1>3, <2>1, <2>2, <2>3, <2>4, <2>5, <2>6, <2>7, <2>8 DEF OwnStep
<1> QED BY <1>1, <1>2, <1>3 DEF Acts

LEMMA CallersStayTyped ==
    ASSUME Typed, Placed, NEW x \in Caller, Acts(x)
    PROVE  Typed'
<1>1. RetaskTypeOK'
  BY LocksAreTyped, JobsAreTyped, LivenessIsTyped, CopiesAreTyped, HeadsReadAreTyped, HistoryIsTyped
     DEF RetaskTypeOK, HistoryTyped
<1> QED BY <1>1, StepsAreLabelled, WatchIsTyped, WorldIsTyped DEF Typed

-----------------------------------------------------------------------------
(* What the steps that give a caller something new to act on give it.      *)

LEMMA PreWakeDoes ==
    ASSUME Typed, Placed, NEW x \in Caller, PreWake(x)
    PROVE  /\ x \in Pass /\ pc[x] = "prewake"
           /\ \/ pc'[x] \in {"refused", "failed"} /\ job' = job /\ staged' = staged
              \/ /\ pc'[x] = "reread"
                 /\ job'[x].rec \in Record /\ job'[x].rec.halted = job[x].h
                 /\ job'[x].rec.pr = job[x].rec.pr /\ job'[x].rec.inst = job[x].rec.inst
                 /\ job'[x].rec.sess = job[x].rec.sess
                 /\ job'[x].sess = job[x].sess /\ job'[x].inst = job[x].inst
                 /\ job'[x].pr = job[x].pr /\ job'[x].h = job[x].h
                 /\ staged' = [staged EXCEPT ![HandleOf[job[x].pr]] = job'[x].rec]
<1>0. /\ pc \in [Caller -> Label] /\ job \in [Caller -> Job] /\ Reads(x)
  BY DEF Typed, Placed, RetaskTypeOK
<1>1. x \in Pass /\ pc[x] = "prewake" /\ job[x].rec \in Record /\ job[x].h \in Sha
  BY <1>0 DEF PreWake, At, Reads, Core
<1> DEFINE r == [job[x].rec EXCEPT !.halted = job[x].h]
<1>2. /\ r \in Record /\ r.halted = job[x].h /\ r.pr = job[x].rec.pr
      /\ r.inst = job[x].rec.inst /\ r.sess = job[x].rec.sess
  <2>1. job[x].h \in {0} \cup Sha /\ job[x].rec.base \in Sha
    BY <1>1, RecordFields
  <2> QED BY <1>1, <2>1, MarkedRecord
<1>3. \/ pc'[x] \in {"refused", "failed"} /\ job' = job /\ staged' = staged
      \/ /\ pc'[x] = "reread" /\ job' = [job EXCEPT ![x].rec.halted = job[x].h]
         /\ staged' = [staged EXCEPT ![HandleOf[job[x].pr]] = r]
  BY <1>0 DEF PreWake, Refused, SaveRecord, Goto
<1>4. [job EXCEPT ![x].rec.halted = job[x].h] = [job EXCEPT ![x] = [job[x] EXCEPT !.rec = r]]
  BY <1>0
<1> HIDE DEF r
<1>5. /\ [job[x] EXCEPT !.rec = r].rec = r /\ [job[x] EXCEPT !.rec = r].sess = job[x].sess
      /\ [job[x] EXCEPT !.rec = r].inst = job[x].inst /\ [job[x] EXCEPT !.rec = r].pr = job[x].pr
      /\ [job[x] EXCEPT !.rec = r].h = job[x].h
  BY <1>0 DEF Job
<1> QED BY <1>0, <1>1, <1>2, <1>3, <1>4, <1>5

LEMMA BeginRetaskDoes ==
    ASSUME Typed, Placed, NEW x \in Caller, BeginRetask(x)
    PROVE  /\ x \in Cli /\ pc[x] = "start" /\ pc'[x] = "lock"
           /\ job'[x].sess \in Session /\ job'[x].inst \in Instance
           /\ mapped[job'[x].sess] /\ job'[x].inst = root[job'[x].sess]
           /\ job'[x].rec = NoRecord /\ job'[x].pr = 0 /\ job'[x].h = 0
<1>0. /\ pc \in [Caller -> Label] /\ job \in [Caller -> Job] /\ Rooted
  BY DEF Typed, Placed, RetaskTypeOK
<1>1. PICK s \in Session :
          mapped[s] /\ job' = [job EXCEPT ![x] = [NoJob EXCEPT !.sess = s, !.inst = root[s]]]
  BY DEF BeginRetask
<1>2. root[s] \in Instance
  BY <1>0, <1>1 DEF Rooted
<1>3. job'[x] = [NoJob EXCEPT !.sess = s, !.inst = root[s]]
  BY <1>0, <1>1
<1>4. job'[x].sess = s /\ job'[x].inst = root[s] /\ job'[x].rec = NoRecord /\ job'[x].pr = 0 /\ job'[x].h = 0
  BY <1>3 DEF NoJob
<1> QED BY <1>0, <1>1, <1>2, <1>4 DEF BeginRetask, At, Goto

LEMMA PruneOneDoes ==
    ASSUME Typed, NEW x \in Pass, PruneOne(x)
    PROVE  /\ pc[x] = "prune"
           /\ \/ pc' = pc /\ job' = job
              \/ /\ pc'[x] = "prunelock"
                 /\ \E h \in Handle : staged[h] \in Record /\ job'[x].rec = staged[h]
                 /\ job'[x].inst = job'[x].rec.inst /\ job'[x].pr = job'[x].rec.pr
                 /\ job'[x].sess = None /\ job'[x].h = 0
<1>0. /\ pc \in [Caller -> Label] /\ job \in [Caller -> Job] /\ todo[x] \subseteq Handle
      /\ staged \in [Handle -> Record \cup {NoRecord}]
  BY DEF Typed, RetaskTypeOK, WatchTypeOK, WorldTypeOK
<1> DEFINE h == CHOOSE h \in todo[x] : TRUE
<1>1. h \in Handle
  BY <1>0 DEF PruneOne
<1>2. \/ pc' = pc /\ job' = job
      \/ /\ staged[h] # NoRecord
         /\ job' = [job EXCEPT ![x] = [NoJob EXCEPT !.rec = staged[h],
                                   !.inst = staged[h].inst, !.pr = staged[h].pr]]
         /\ pc' = [pc EXCEPT ![x] = "prunelock"]
  BY DEF PruneOne, Goto
<1> HIDE DEF h
<1>3. CASE /\ staged[h] # NoRecord
           /\ job' = [job EXCEPT ![x] = [NoJob EXCEPT !.rec = staged[h],
                                     !.inst = staged[h].inst, !.pr = staged[h].pr]]
           /\ pc' = [pc EXCEPT ![x] = "prunelock"]
  <2>1. job'[x] = [NoJob EXCEPT !.rec = staged[h], !.inst = staged[h].inst, !.pr = staged[h].pr]
    BY <1>0, <1>3
  <2>2. /\ job'[x].rec = staged[h] /\ job'[x].inst = staged[h].inst /\ job'[x].pr = staged[h].pr
        /\ job'[x].sess = None /\ job'[x].h = 0
    BY <2>1 DEF NoJob
  <2> QED BY <1>0, <1>1, <1>3, <2>2 DEF PruneOne, At
<1> QED BY <1>2, <1>3 DEF PruneOne, At

LEMMA NextPlanDoes ==
    ASSUME Typed, Placed, NEW x \in Caller, NextPlan(x)
    PROVE  /\ x \in Pass /\ pc[x] \in {"next", "refused"}
           /\ \/ PassEnds(x) /\ plans[x] = {}
              \/ \E p \in plans[x] :
                    /\ p \in Plan
                    /\ plans' = [plans EXCEPT ![x] = @ \ {p}]
                    /\ UNCHANGED <<req, todo, budget, mishaps>>
                    /\ known' = [known EXCEPT ![x] = NotRead]
                    /\ \/ pc'[x] \in {"next", "failed"} /\ job'[x] = NoJob
                       \/ /\ p.kind = "Fresh" /\ budget[x] > 0 /\ pc'[x] = "provision"
                          /\ job'[x].pr = p.pr /\ job'[x].h = head[p.pr]
                          /\ job'[x].sess = None /\ job'[x].inst = None /\ job'[x].rec = NoRecord
                       \/ /\ p.kind = "Continue" /\ pc'[x] = "lock"
                          /\ job'[x].rec = p.rec /\ job'[x].pr = p.pr /\ job'[x].h = head[p.pr]
                          /\ job'[x].sess = p.rec.sess /\ job'[x].inst = p.rec.inst
                       \/ /\ p.kind = "Adopt" /\ pc'[x] = "adoptread"
                          /\ job'[x].pr = p.pr /\ job'[x].h = p.h
                          /\ job'[x].sess = None /\ job'[x].inst = None /\ job'[x].rec = NoRecord
<1>0. /\ pc \in [Caller -> Label] /\ job \in [Caller -> Job] /\ plans \in [Pass -> SUBSET Plan]
  BY DEF Typed, RetaskTypeOK, WatchTypeOK
<1>1. x \in Pass /\ pc[x] \in {"next", "refused"}
  BY DEF NextPlan
<1>2. CASE plans[x] = {}
  BY <1>1, <1>2 DEF NextPlan
<1>3. CASE plans[x] # {}
  <2> DEFINE p == FirstPlan(x)
  <2>1. p \in plans[x] /\ p \in Plan
    BY <1>0, <1>1, <1>3, FirstPlanIs
  <2>2. /\ plans' = [plans EXCEPT ![x] = @ \ {p}]
        /\ UNCHANGED <<req, todo, budget, mishaps>>
        /\ known' = [known EXCEPT ![x] = NotRead]
    BY <1>3 DEF NextPlan
  <2> DEFINE j1 == [NoJob EXCEPT !.pr = p.pr, !.h = head[p.pr]]
             j2 == [sess |-> p.rec.sess, inst |-> p.rec.inst, pr |-> p.pr, rec |-> p.rec, h |-> head[p.pr]]
             j3 == [NoJob EXCEPT !.pr = p.pr, !.h = p.h]
  <2>3. \/ pc' \in {[pc EXCEPT ![x] = "next"], [pc EXCEPT ![x] = "failed"]} /\ job' = [job EXCEPT ![x] = NoJob]
        \/ p.kind = "Fresh" /\ budget[x] > 0 /\ pc' = [pc EXCEPT ![x] = "provision"] /\ job' = [job EXCEPT ![x] = j1]
        \/ p.kind = "Continue" /\ pc' = [pc EXCEPT ![x] = "lock"] /\ job' = [job EXCEPT ![x] = j2]
        \/ p.kind = "Adopt" /\ pc' = [pc EXCEPT ![x] = "adoptread"] /\ job' = [job EXCEPT ![x] = j3]
    BY <1>3 DEF NextPlan, Leaves, Goto
  <2>4. /\ j1.pr = p.pr /\ j1.h = head[p.pr] /\ j1.sess = None /\ j1.inst = None /\ j1.rec = NoRecord
        /\ j3.pr = p.pr /\ j3.h = p.h /\ j3.sess = None /\ j3.inst = None /\ j3.rec = NoRecord
        /\ j2.sess = p.rec.sess /\ j2.inst = p.rec.inst /\ j2.pr = p.pr /\ j2.rec = p.rec /\ j2.h = head[p.pr]
    BY DEF NoJob
  <2> HIDE DEF p, j1, j2, j3
  <2>5. \/ pc'[x] \in {"next", "failed"} /\ job'[x] = NoJob
        \/ p.kind = "Fresh" /\ budget[x] > 0 /\ pc'[x] = "provision" /\ job'[x] = j1
        \/ p.kind = "Continue" /\ pc'[x] = "lock" /\ job'[x] = j2
        \/ p.kind = "Adopt" /\ pc'[x] = "adoptread" /\ job'[x] = j3
    BY <1>0, <2>3
  <2> QED BY <1>1, <2>1, <2>2, <2>4, <2>5
<1> QED BY <1>2, <1>3

LEMMA ProvisionDoes ==
    ASSUME Typed, NEW x \in Pass, Provision(x)
    PROVE  /\ pc[x] = "provision"
           /\ \/ pc'[x] = "failed" /\ disk' = disk /\ job' = job
              \/ \E i \in Unused({job[y].inst : y \in Caller}) :
                    /\ pc'[x] = "launch" /\ disk' = [disk EXCEPT ![i] = TRUE]
                    /\ job'[x].inst = i /\ job'[x].sess = job[x].sess
                    /\ job'[x].pr = job[x].pr /\ job'[x].h = job[x].h /\ job'[x].rec = job[x].rec
<1>0. pc \in [Caller -> Label] /\ job \in [Caller -> Job]
  BY DEF Typed, RetaskTypeOK
<1>1. \/ pc' = [pc EXCEPT ![x] = "failed"] /\ disk' = disk /\ job' = job
      \/ \E i \in Unused({job[y].inst : y \in Caller}) :
            /\ pc' = [pc EXCEPT ![x] = "launch"] /\ disk' = [disk EXCEPT ![i] = TRUE]
            /\ job' = [job EXCEPT ![x].inst = i]
  BY NextNames DEF Provision, Goto
<1>2. ASSUME NEW i, job' = [job EXCEPT ![x].inst = i]
      PROVE  /\ job'[x].inst = i /\ job'[x].sess = job[x].sess /\ job'[x].pr = job[x].pr
             /\ job'[x].h = job[x].h /\ job'[x].rec = job[x].rec
  BY <1>0, <1>2 DEF Job
<1> QED BY <1>0, <1>1, <1>2 DEF Provision, At

LEMMA LaunchDoes ==
    ASSUME Typed, NEW x \in Pass, Launch(x)
    PROVE  /\ pc[x] = "launch"
           /\ \/ /\ pc'[x] = "failed" /\ RemovesPlace(x)
                 /\ UNCHANGED <<sessionVars, job, history>>
              \/ \E s \in Session :
                    /\ pc'[x] = "capture" /\ row[s] = "unborn" /\ Born(s, Place(x), "starting")
                    /\ job'[x].sess = s /\ job'[x].inst = job[x].inst
                    /\ job'[x].pr = job[x].pr /\ job'[x].h = job[x].h /\ job'[x].rec = job[x].rec
                    /\ reviewed' = reviewed \cup {<<job[x].pr, job[x].h>>}
                    /\ of' = [of EXCEPT ![s] = job[x].pr]
                    /\ UNCHANGED <<disk, sent, unsure, mishaps>>
<1>0. pc \in [Caller -> Label] /\ job \in [Caller -> Job]
  BY DEF Typed, RetaskTypeOK
<1>1. \/ pc' = [pc EXCEPT ![x] = "failed"] /\ RemovesPlace(x) /\ UNCHANGED <<sessionVars, job, history>>
      \/ \E s \in Session :
            /\ pc' = [pc EXCEPT ![x] = "capture"] /\ row[s] = "unborn" /\ Born(s, Place(x), "starting")
            /\ job' = [job EXCEPT ![x].sess = s]
            /\ reviewed' = reviewed \cup {<<job[x].pr, job[x].h>>}
            /\ of' = [of EXCEPT ![s] = job[x].pr]
            /\ UNCHANGED <<disk, sent, unsure, mishaps>>
  BY NextNames DEF Launch, Goto
<1>2. ASSUME NEW s, job' = [job EXCEPT ![x].sess = s]
      PROVE  /\ job'[x].sess = s /\ job'[x].inst = job[x].inst /\ job'[x].pr = job[x].pr
             /\ job'[x].h = job[x].h /\ job'[x].rec = job[x].rec
  BY <1>0, <1>2 DEF Job
<1> QED BY <1>0, <1>1, <1>2 DEF Launch, At

LEMMA CaptureDoes ==
    ASSUME Typed, NEW x \in Pass, Capture(x)
    PROVE  /\ pc[x] = "capture" /\ pc'[x] = "record"
           /\ \/ Listed(Worker(x)) /\ job' = job /\ mishaps' = mishaps
              \/ /\ ~Listed(Worker(x)) /\ job'[x].sess = None /\ mishaps' = mishaps \cup {"late"}
                 /\ job'[x].inst = job[x].inst
                 /\ job'[x].pr = job[x].pr /\ job'[x].h = job[x].h /\ job'[x].rec = job[x].rec
<1>0. pc \in [Caller -> Label] /\ job \in [Caller -> Job]
  BY DEF Typed, RetaskTypeOK
<1>1. ASSUME job' = [job EXCEPT ![x].sess = None]
      PROVE  /\ job'[x].sess = None /\ job'[x].inst = job[x].inst /\ job'[x].pr = job[x].pr
             /\ job'[x].h = job[x].h /\ job'[x].rec = job[x].rec
  BY <1>0, <1>1 DEF Job
<1> QED BY <1>0, <1>1 DEF Capture, At, Goto

(* What a caller has read stays what it was, or is read again.             *)
LEMMA ReadsStay ==
    ASSUME Typed, Placed, NEW x \in Caller, Acts(x)
    PROVE  Reads(x)'
<1>0. /\ Typed /\ Reads(x) /\ pc \in [Caller -> Label] /\ job \in [Caller -> Job] /\ job' \in [Caller -> Job]
  BY JobsAreTyped DEF Typed, Placed, RetaskTypeOK
<1>1. ASSUME CoreStep(x), UNCHANGED watchVars PROVE Reads(x)'
  <2>1. CASE TakeRetaskLock(x)
    BY <2>1, <1>1, <1>0 DEF TakeRetaskLock, TakeLock, Refused, Release, At, Goto,
      Reads, Place, Worker, Core, Pruning, Staging, Launching, Appending, Adopting,
      Between
  <2>2. CASE Classify(x)
    BY <2>2, <1>1, <1>0 DEF Classify, Refused, Release, At, Goto, Reads, Place, Worker,
      Core, Pruning, Staging, Launching, Appending, Adopting, Between
  <2>3. CASE CheckOptions(x)
    BY <2>3, <1>1, <1>0 DEF CheckOptions, Refused, Release, At, Goto, Reads, Place,
      Worker, Core, Pruning, Staging, Launching, Appending, Adopting, Between
  <2>4. CASE PreStop(x)
    BY <2>4, <1>1, <1>0 DEF PreStop, Refused, Release, At, Goto, Reads, Place, Worker,
      Core, Pruning, Staging, Launching, Appending, Adopting, Between
  <2>5. CASE Stop(x)
    BY <2>5, <1>1, <1>0 DEF Stop, Refused, Release, ActsOn, At, Goto, Reads, Place,
      Worker, Core, Pruning, Staging, Launching, Appending, Adopting, Between
  <2>6. CASE WaitStopped(x)
    BY <2>6, <1>1, <1>0 DEF WaitStopped, Refused, Release, At, Goto, Reads, Place,
      Worker, Core, Pruning, Staging, Launching, Appending, Adopting, Between
  <2>7. CASE PreWake(x)
    BY <1>0, <1>1, <2>7, PreWakeDoes, RecordFields, JobFields, UnusedIs DEF PreWake, Reads, Place, Worker, Core, Pruning,
       Staging, Launching, Appending, Adopting, Between
  <2>8. CASE FinalReread(x)
    BY <2>8, <1>1, <1>0 DEF FinalReread, At, Goto, Reads, Place, Worker, Core, Pruning,
      Staging, Launching, Appending, Adopting, Between
  <2>9. CASE Wake(x)
    BY <2>9, <1>1, <1>0 DEF Wake, At, Goto, Reads, Place, Worker, Core, Pruning,
      Staging, Launching, Appending, Adopting, Between
  <2>10. CASE Verify(x)
    BY <2>10, <1>1, <1>0 DEF Verify, At, Goto, Reads, Place, Worker, Core, Pruning,
      Staging, Launching, Appending, Adopting, Between
  <2>11. CASE CopiesHandled(x)
    BY <2>11, <1>1, <1>0 DEF CopiesHandled, At, Goto, Reads, Place, Worker, Core,
      Pruning, Staging, Launching, Appending, Adopting, Between
  <2>12. ASSUME NEW c \in Session, StopCopy(x, c) PROVE Reads(x)'
    BY <2>12, <1>1, <1>0 DEF StopCopy, ActsOn, At, Goto, Reads, Place, Worker, Core,
      Pruning, Staging, Launching, Appending, Adopting, Between
  <2>13. ASSUME NEW c \in Session, RemoveCopy(x, c) PROVE Reads(x)'
    BY <2>13, <1>1, <1>0 DEF RemoveCopy, ActsOn, At, Goto, Reads, Place, Worker, Core,
      Pruning, Staging, Launching, Appending, Adopting, Between
  <2>14. ASSUME NEW c \in Session, LeaveCopy(x, c) PROVE Reads(x)'
    BY <2>14, <1>1, <1>0 DEF LeaveCopy, At, Goto, Reads, Place, Worker, Core, Pruning,
      Staging, Launching, Appending, Adopting, Between
  <2>15. CASE x \in Pass /\ AppendDelivered(x)
    <3>1. job' = job /\ pc[x] \in {"postread", "postwrite"} /\ pc'[x] \in {"postwrite", "postsave", "failed"}
      BY <1>0, <2>15 DEF AppendDelivered, ReadHandled, Finish, At, Goto
    <3>2. x \in Pass
      BY <2>15
    <3> QED BY <1>0, <1>1, <3>1, <3>2 DEF Reads, Place, Worker, Core, Pruning, Staging,
          Launching, Appending, Adopting, Between
  <2>16. CASE ClearMarker(x)
    BY <2>16, <1>1, <1>0 DEF ClearMarker, Finish, Release, SaveRecord, At, Goto, Reads,
      Place, Worker, Core, Pruning, Staging, Launching, Appending, Adopting, Between
  <2>17. CASE Halt(x)
    BY <2>17, <1>1, <1>0 DEF Halt, Finish, Release, At, Goto, Reads, Place, Worker,
      Core, Pruning, Staging, Launching, Appending, Adopting, Between
  <2> QED BY <1>1, <2>1, <2>2, <2>3, <2>4, <2>5, <2>6, <2>7, <2>8, <2>9, <2>10, <2>11,
      <2>12, <2>13, <2>14, <2>15, <2>16, <2>17 DEF CoreStep
<1>2. ASSUME x \in Cli, BeginRetask(x) \/ RetaskReturns(x), UNCHANGED watchVars PROVE Reads(x)'
  <2>1. CASE BeginRetask(x)
    BY <1>0, <1>2, <2>1, BeginRetaskDoes, RecordFields, JobFields, UnusedIs DEF BeginRetask, Reads, Place, Worker, Core, Pruning,
       Staging, Launching, Appending, Adopting, Between
  <2>2. CASE RetaskReturns(x)
    BY <2>2, <1>2, <1>0 DEF RetaskReturns, Finish, Release, At, Goto, Reads, Place,
      Worker, Core, Pruning, Staging, Launching, Appending, Adopting, Between
  <2> QED BY <1>2, <2>1, <2>2
<1>3. ASSUME x \in Pass, OwnStep(x) PROVE Reads(x)'
  <2>1. CASE PassFails(x)
    BY <2>1, <1>3, <1>0 DEF PassFails, PassEnds, Leaves, At, Goto, Reads, Place,
      Worker, Core, Pruning, Staging, Launching, Appending, Adopting, Between
  <2>2. CASE Search(x)
    BY <2>2, <1>3, <1>0 DEF Search, At, Goto, Reads, Place, Worker, Core, Pruning,
      Staging, Launching, Appending, Adopting, Between
  <2>3. CASE PruneOne(x)
    BY <1>0, <1>3, <2>3, PruneOneDoes, RecordFields, JobFields, UnusedIs DEF Reads, Place, Worker, Core, Pruning,
       Staging, Launching, Appending, Adopting, Between
  <2>4. CASE TakePruneLock(x)
    BY <2>4, <1>3, <1>0 DEF TakePruneLock, TakeLock, Leaves, At, Goto, Reads, Place,
      Worker, Core, Pruning, Staging, Launching, Appending, Adopting, Between
  <2>5. CASE JudgeRecord(x)
    BY <2>5, <1>3, <1>0 DEF JudgeRecord, RemovesPlace, Leaves, Release, At, Goto,
      Reads, Place, Worker, Core, Pruning, Staging, Launching, Appending, Adopting,
      Between
  <2>6. CASE ForgetRecord(x)
    BY <2>6, <1>3, <1>0 DEF ForgetRecord, Leaves, Release, At, Goto, Reads, Place,
      Worker, Core, Pruning, Staging, Launching, Appending, Adopting, Between
  <2>7. CASE LoadHandled(x)
    BY <2>7, <1>3, <1>0 DEF LoadHandled, At, Goto, Reads, Place, Worker, Core, Pruning,
      Staging, Launching, Appending, Adopting, Between
  <2>8. CASE MakePlans(x)
    BY <2>8, <1>3, <1>0 DEF MakePlans, PassEnds, Leaves, At, Goto, Reads, Place,
      Worker, Core, Pruning, Staging, Launching, Appending, Adopting, Between
  <2>9. CASE NextPlan(x)
    <3>1. CASE PassEnds(x)
      BY <1>0, <1>3, <3>1 DEF PassEnds, Leaves, Goto, Reads, Place, Worker, Core, Pruning, Staging, Launching, Appending, Adopting, Between
    <3>2. CASE \E p \in plans[x] :
                    /\ p \in Plan
                    /\ UNCHANGED budget
                    /\ \/ pc'[x] \in {"next", "failed"} /\ job'[x] = NoJob
                       \/ /\ p.kind = "Fresh" /\ budget[x] > 0 /\ pc'[x] = "provision"
                          /\ job'[x].pr = p.pr /\ job'[x].h = head[p.pr]
                       \/ /\ p.kind = "Continue" /\ pc'[x] = "lock"
                          /\ job'[x].rec = p.rec /\ job'[x].pr = p.pr /\ job'[x].h = head[p.pr]
                          /\ job'[x].sess = p.rec.sess /\ job'[x].inst = p.rec.inst
                       \/ /\ p.kind = "Adopt" /\ pc'[x] = "adoptread"
                          /\ job'[x].pr = p.pr /\ job'[x].h = p.h
      <4>1. PICK p \in plans[x] :
                    /\ p \in Plan
                    /\ UNCHANGED budget
                    /\ \/ pc'[x] \in {"next", "failed"} /\ job'[x] = NoJob
                       \/ /\ p.kind = "Fresh" /\ budget[x] > 0 /\ pc'[x] = "provision"
                          /\ job'[x].pr = p.pr /\ job'[x].h = head[p.pr]
                       \/ /\ p.kind = "Continue" /\ pc'[x] = "lock"
                          /\ job'[x].rec = p.rec /\ job'[x].pr = p.pr /\ job'[x].h = head[p.pr]
                          /\ job'[x].sess = p.rec.sess /\ job'[x].inst = p.rec.inst
                       \/ /\ p.kind = "Adopt" /\ pc'[x] = "adoptread"
                          /\ job'[x].pr = p.pr /\ job'[x].h = p.h
        BY <3>2
      <4>2. /\ p.pr \in PR /\ head[p.pr] \in Sha
            /\ p.kind = "Continue" => p.rec \in Record /\ p.rec.sess \in Session /\ p.rec.pr = p.pr
            /\ p.kind = "Adopt" => p.h \in Sha
        BY <1>3, <4>1 DEF Typed, WorldTypeOK, Placed, Decided, Plan
      <4> QED BY <1>3, <4>1, <4>2, RecordFields DEF Reads, Place, Worker, Core, Pruning, Staging, Launching, Appending, Adopting, Between
    <3> QED BY <2>9, <3>1, <3>2, NextPlanDoes
  <2>10. CASE Provision(x)
    <3>1. budget' = budget
      BY <2>10 DEF Provision
    <3>2. \A i \in Unused({job[y].inst : y \in Caller}) : i \in Instance
      BY UnusedIs
    <3> QED BY <1>0, <1>3, <2>10, <3>1, <3>2, ProvisionDoes DEF Reads, Place, Worker, Core, Pruning, Staging,
          Launching, Appending, Adopting, Between
  <2>11. CASE Launch(x)
    BY <1>0, <1>3, <2>11, LaunchDoes, RecordFields, JobFields, UnusedIs DEF Launch, Reads, Place, Worker, Core, Pruning,
       Staging, Launching, Appending, Adopting, Between
  <2>12. CASE Capture(x)
    BY <1>0, <1>3, <2>12, CaptureDoes, RecordFields, JobFields, UnusedIs DEF Capture, Reads, Place, Worker, Core, Pruning,
       Staging, Launching, Appending, Adopting, Between
  <2>13. CASE RecordReview(x)
    BY <2>13, <1>3, <1>0 DEF RecordReview, SaveRecord, StageFails, RemovesPlace, At,
      Goto, Reads, Place, Worker, Core, Pruning, Staging, Launching, Appending,
      Adopting, Between
  <2>14. CASE AppendStaged(x)
    BY <2>14, <1>3, <1>0 DEF AppendStaged, ReadHandled, WriteHandled, Leaves,
      StageFails, RemovesPlace, At, Goto, Reads, Place, Worker, Core, Pruning, Staging,
      Launching, Appending, Adopting, Between
  <2>15. CASE AppendAdopted(x)
    BY <2>15, <1>3, <1>0 DEF AppendAdopted, ReadHandled, WriteHandled, Leaves, At,
      Goto, Reads, Place, Worker, Core, Pruning, Staging, Launching, Appending,
      Adopting, Between
  <2> QED BY <1>3, <2>1, <2>2, <2>3, <2>4, <2>5, <2>6, <2>7, <2>8, <2>9, <2>10, <2>11,
      <2>12, <2>13, <2>14, <2>15 DEF OwnStep
<1> QED BY <1>1, <1>2, <1>3 DEF Acts

LEMMA RootedStays ==
    ASSUME Typed, Placed, NEW x \in Caller, Acts(x)
    PROVE  Rooted'
<1>0. Typed /\ WorldTypeOK /\ Reads(x) /\ Rooted
  BY DEF Typed, Placed
<1>1. ASSUME CoreStep(x), UNCHANGED watchVars PROVE Rooted'
  <2>1. CASE \/ TakeRetaskLock(x) \/ Classify(x) \/ CheckOptions(x) \/ PreStop(x)
             \/ WaitStopped(x) \/ PreWake(x) \/ FinalReread(x) \/ Wake(x)
             \/ Verify(x) \/ CopiesHandled(x)
             \/ (x \in Pass /\ AppendDelivered(x)) \/ ClearMarker(x) \/ Halt(x)
    BY <2>1, <1>1, <1>0 DEF TakeRetaskLock, TakeLock, Refused, Release, At, Goto,
      Classify, CheckOptions, PreStop, WaitStopped, PreWake, SaveRecord, FinalReread,
      Wake, Verify, CopiesHandled, AppendDelivered, ReadHandled, WriteHandled, Finish,
      ClearMarker, Halt, Rooted
  <2>2. CASE Stop(x)
    <3>1. Worker(x) \in Session
      BY <1>0, <2>2 DEF Stop, At, Reads, Core
    <3>2. UNCHANGED <<root, mapped>>
      BY <2>2 DEF Stop, Refused, ActsOn
    <3> DEFINE to == IF row[Worker(x)] \in Running THEN "stopping" ELSE "stopped"
    <3>3. row' = row \/ (row[Worker(x)] # "unborn" /\ row' = [row EXCEPT ![Worker(x)] = to])
      <4>1. CASE Refused(x)
        BY <4>1 DEF Refused
      <4>2. CASE Listed(Worker(x)) /\ ActsOn(Worker(x), to)
        BY <4>2 DEF ActsOn, Listed
      <4> QED BY <2>2, <4>1, <4>2 DEF Stop
    <3>4. to # "unborn"
      OBVIOUS
    <3> HIDE DEF to
    <3> QED BY <1>0, <3>1, <3>2, <3>3, <3>4 DEF Rooted, WorldTypeOK
  <2>3. ASSUME NEW c \in Session, StopCopy(x, c) PROVE Rooted'
    <3>1. UNCHANGED <<root, mapped>> /\ row[c] # "unborn" /\ \E to \in {"stopping", "gone"} : row' = [row EXCEPT ![c] = to]
      BY <2>3 DEF StopCopy, ActsOn, Running
    <3> QED BY <1>0, <3>1 DEF Rooted, WorldTypeOK
  <2>4. ASSUME NEW c \in Session, RemoveCopy(x, c) PROVE Rooted'
    <3>1. UNCHANGED <<root, mapped>> /\ row[c] # "unborn" /\ \E to \in {"stopping", "gone"} : row' = [row EXCEPT ![c] = to]
      BY <2>4 DEF RemoveCopy, ActsOn, Running
    <3> QED BY <1>0, <3>1 DEF Rooted, WorldTypeOK
  <2>5. ASSUME NEW c \in Session, LeaveCopy(x, c) PROVE Rooted'
    BY <2>5, <1>1, <1>0 DEF LeaveCopy, At, Goto, Rooted
  <2> QED BY <1>1, <2>1, <2>2, <2>3, <2>4, <2>5 DEF CoreStep
<1>2. ASSUME x \in Cli, BeginRetask(x) \/ RetaskReturns(x), UNCHANGED watchVars PROVE Rooted'
  <2>1. CASE BeginRetask(x)
    BY <2>1, <1>2, <1>0 DEF BeginRetask, At, Goto, Rooted
  <2>2. CASE RetaskReturns(x)
    BY <2>2, <1>2, <1>0 DEF RetaskReturns, Finish, Release, At, Goto, Rooted
  <2> QED BY <1>2, <2>1, <2>2
<1>3. ASSUME x \in Pass, OwnStep(x) PROVE Rooted'
  <2>1. CASE \/ PassFails(x) \/ Search(x) \/ PruneOne(x) \/ TakePruneLock(x)
             \/ JudgeRecord(x) \/ ForgetRecord(x) \/ LoadHandled(x)
             \/ MakePlans(x) \/ NextPlan(x) \/ Provision(x) \/ Capture(x)
             \/ RecordReview(x) \/ AppendStaged(x) \/ AppendAdopted(x)
    BY <2>1, <1>3, <1>0 DEF PassFails, PassEnds, Leaves, At, Goto, Search, PruneOne,
      TakePruneLock, TakeLock, JudgeRecord, RemovesPlace, Release, ForgetRecord,
      LoadHandled, MakePlans, NextPlan, Provision, Capture, RecordReview, SaveRecord,
      StageFails, AppendStaged, ReadHandled, WriteHandled, AppendAdopted, Rooted
  <2>2. CASE Launch(x)
    <3>1. \/ UNCHANGED sessionVars
          \/ \E s \in Session : Born(s, Place(x), "starting")
      BY <1>3, <2>2, <1>0, LaunchDoes
    <3>2. Place(x) \in Instance
      BY <1>0, <1>3, <2>2 DEF Launch, At, Reads, Staging, Place
    <3>3. ASSUME NEW s \in Session, Born(s, Place(x), "starting") PROVE Rooted'
      BY <1>0, <3>2, <3>3 DEF Born, Rooted, WorldTypeOK
    <3> QED BY <1>0, <3>1, <3>3 DEF Rooted
  <2> QED BY <1>3, <2>1, <2>2 DEF OwnStep
<1> QED BY <1>1, <1>2, <1>3 DEF Acts

LEMMA DecisionsStay ==
    ASSUME Typed, Placed, NEW x \in Pass, Acts(x)
    PROVE  Decided(x)'
<1>0. Typed /\ Placed /\ x \in Pass /\ Decided(x) /\ plans \in [Pass -> SUBSET Plan]
  BY DEF Typed, Placed, WatchTypeOK
<1>1. ASSUME CoreStep(x), UNCHANGED watchVars PROVE Decided(x)'
  <2>1. CASE \/ TakeRetaskLock(x) \/ Classify(x) \/ CheckOptions(x) \/ PreStop(x)
             \/ Stop(x) \/ WaitStopped(x) \/ PreWake(x) \/ FinalReread(x)
             \/ Wake(x) \/ Verify(x) \/ CopiesHandled(x)
             \/ (x \in Pass /\ AppendDelivered(x)) \/ ClearMarker(x) \/ Halt(x)
             \/ \E c \in Session : StopCopy(x, c) \/ RemoveCopy(x, c) \/ LeaveCopy(x, c)
    BY <2>1, <1>1, <1>0 DEF TakeRetaskLock, TakeLock, Refused, Release, At, Goto,
      Classify, CheckOptions, PreStop, Stop, ActsOn, WaitStopped, PreWake, SaveRecord,
      FinalReread, Wake, Verify, CopiesHandled, StopCopy, RemoveCopy, LeaveCopy,
      AppendDelivered, ReadHandled, WriteHandled, Finish, ClearMarker, Halt, Decided
  <2> QED BY <1>1, <2>1 DEF CoreStep
<1>2. ASSUME x \in Cli, BeginRetask(x) \/ RetaskReturns(x), UNCHANGED watchVars PROVE Decided(x)'
  <2>1. CASE BeginRetask(x)
    BY <2>1, <1>2, <1>0 DEF BeginRetask, At, Goto, Decided
  <2>2. CASE RetaskReturns(x)
    BY <2>2, <1>2, <1>0 DEF RetaskReturns, Finish, Release, At, Goto, Decided
  <2> QED BY <1>2, <2>1, <2>2
<1>3. ASSUME x \in Pass, OwnStep(x) PROVE Decided(x)'
  <2>1. CASE \/ PassFails(x) \/ Search(x) \/ PruneOne(x) \/ TakePruneLock(x)
             \/ JudgeRecord(x) \/ ForgetRecord(x) \/ LoadHandled(x)
             \/ Provision(x) \/ Launch(x) \/ Capture(x) \/ RecordReview(x)
             \/ AppendStaged(x) \/ AppendAdopted(x)
    BY <2>1, <1>3, <1>0 DEF PassFails, PassEnds, Leaves, At, Goto, Search, PruneOne,
      TakePruneLock, TakeLock, JudgeRecord, RemovesPlace, Release, ForgetRecord,
      LoadHandled, Provision, Launch, Born, Capture, RecordReview, SaveRecord,
      StageFails, AppendStaged, ReadHandled, WriteHandled, AppendAdopted, Decided
  <2>2. CASE MakePlans(x)
    <3>1. plans'[x] = Decide(x) \/ plans'[x] = {}
      BY <1>0, <2>2 DEF MakePlans, PassEnds
    <3> QED BY <1>0, <3>1, PlansAreTyped DEF Decided
  <2>3. CASE NextPlan(x)
    <3>1. PassEnds(x) \/ \E p \in plans[x] : plans' = [plans EXCEPT ![x] = @ \ {p}]
      BY <1>0, <2>3, NextPlanDoes
    <3>2. plans'[x] \subseteq plans[x]
      BY <1>0, <3>1 DEF PassEnds
    <3> QED BY <1>0, <3>2 DEF Decided
  <2> QED BY <1>3, <2>1, <2>2, <2>3 DEF OwnStep
<1> QED BY <1>1, <1>2, <1>3 DEF Acts

LEMMA CallersStayPlaced ==
    ASSUME Typed, Placed, NEW x \in Caller, Acts(x)
    PROVE  Placed'
<1>1. \A y \in Caller \ {x} : SameFor(y) /\ Reads(y) /\ (y \in Pass => Decided(y))
  BY OthersStay DEF Placed
<1>2. \A y \in Caller \ {x} : Reads(y)'
  <2> SUFFICES ASSUME NEW y \in Caller \ {x} PROVE Reads(y)'
    OBVIOUS
  <2>1. pc'[y] = pc[y] /\ job'[y] = job[y] /\ (y \in Pass => budget'[y] = budget[y]) /\ Reads(y)
    BY <1>1 DEF SameFor
  <2> QED BY <2>1 DEF Reads, Worker, Place
<1>3. \A y \in Pass \ {x} : Decided(y)'
  BY <1>1 DEF SameFor, Decided
<1>4. x \in Pass => Decided(x)'
  BY DecisionsStay
<1> QED BY <1>2, <1>3, <1>4, ReadsStay, RootedStays DEF Placed

-----------------------------------------------------------------------------
(* A step keeps the locks as they are, takes the one its worker's instance *)
(* has free, or lets go of what it holds.                                  *)
LockMoves(x) ==
    \/ /\ lock' = lock
       /\ pc'[x] \in UnderLock <=> pc[x] \in UnderLock
       /\ pc[x] \in UnderLock => job'[x].inst = job[x].inst
    \/ /\ pc[x] \notin UnderLock /\ pc'[x] \in UnderLock
       /\ lock[Place(x)] = None /\ lock' = [lock EXCEPT ![Place(x)] = x]
       /\ Place(x) \in Instance /\ job'[x].inst = job[x].inst
    \/ pc'[x] \notin UnderLock /\ Release(x)

LEMMA LocksMove ==
    ASSUME Typed, Placed, NEW x \in Caller, Acts(x)
    PROVE  LockMoves(x)
<1>0. /\ Typed /\ Placed /\ Reads(x) /\ pc \in [Caller -> Label] /\ job \in [Caller -> Job]
      /\ \A r \in Record : r.inst \in Instance
  BY RecordFields DEF Typed, Placed, RetaskTypeOK
<1>1. ASSUME CoreStep(x), UNCHANGED watchVars PROVE LockMoves(x)
  <2>1. CASE TakeRetaskLock(x)
    <3>1. pc[x] = "lock" /\ job' = job /\ Place(x) \in Instance
      BY <1>0, <2>1 DEF TakeRetaskLock, Refused, At, Reads, Core
    <3>2. \/ /\ lock[Place(x)] = None /\ lock' = [lock EXCEPT ![Place(x)] = x]
             /\ pc'[x] = "classify"
          \/ pc'[x] = "refused" /\ Release(x)
      BY <1>0, <2>1 DEF TakeRetaskLock, TakeLock, Refused, Goto
    <3> QED BY <3>1, <3>2 DEF LockMoves, UnderLock, Core
  <2>2. CASE Classify(x)
    BY <2>2, <1>1, <1>0 DEF Classify, Refused, Release, At, Goto, LockMoves, UnderLock,
      Core
  <2>3. CASE CheckOptions(x)
    BY <2>3, <1>1, <1>0 DEF CheckOptions, Refused, Release, At, Goto, LockMoves,
      UnderLock, Core
  <2>4. CASE PreStop(x)
    BY <2>4, <1>1, <1>0 DEF PreStop, Refused, Release, At, Goto, LockMoves, UnderLock,
      Core
  <2>5. CASE Stop(x)
    BY <2>5, <1>1, <1>0 DEF Stop, Refused, Release, ActsOn, At, Goto, LockMoves,
      UnderLock, Core
  <2>6. CASE WaitStopped(x)
    BY <2>6, <1>1, <1>0 DEF WaitStopped, Refused, Release, At, Goto, LockMoves,
      UnderLock, Core
  <2>7. CASE PreWake(x)
    <3>1. /\ pc[x] = "prewake"
          /\ \/ pc'[x] \in {"refused", "failed"} /\ Release(x)
             \/ pc'[x] = "reread" /\ lock' = lock
      BY <1>0, <2>7 DEF PreWake, Refused, At, Goto
    <3>2. pc'[x] = "reread" => job'[x].inst = job[x].inst
      BY <1>0, <2>7, PreWakeDoes
    <3> QED BY <3>1, <3>2 DEF LockMoves, UnderLock, Core
  <2>8. CASE FinalReread(x)
    BY <2>8, <1>1, <1>0 DEF FinalReread, At, Goto, LockMoves, UnderLock, Core
  <2>9. CASE Wake(x)
    BY <2>9, <1>1, <1>0 DEF Wake, At, Goto, LockMoves, UnderLock, Core
  <2>10. CASE Verify(x)
    BY <2>10, <1>1, <1>0 DEF Verify, At, Goto, LockMoves, UnderLock, Core
  <2>11. CASE CopiesHandled(x)
    BY <2>11, <1>1, <1>0 DEF CopiesHandled, At, Goto, LockMoves, UnderLock, Core
  <2>12. ASSUME NEW c \in Session, StopCopy(x, c) PROVE LockMoves(x)
    BY <2>12, <1>1, <1>0 DEF StopCopy, ActsOn, At, Goto, LockMoves, UnderLock, Core
  <2>13. ASSUME NEW c \in Session, RemoveCopy(x, c) PROVE LockMoves(x)
    BY <2>13, <1>1, <1>0 DEF RemoveCopy, ActsOn, At, Goto, LockMoves, UnderLock, Core
  <2>14. ASSUME NEW c \in Session, LeaveCopy(x, c) PROVE LockMoves(x)
    BY <2>14, <1>1, <1>0 DEF LeaveCopy, At, Goto, LockMoves, UnderLock, Core
  <2>15. CASE x \in Pass /\ AppendDelivered(x)
    BY <2>15, <1>1, <1>0 DEF AppendDelivered, ReadHandled, WriteHandled, Finish,
      Release, At, Goto, LockMoves, UnderLock, Core
  <2>16. CASE ClearMarker(x)
    BY <2>16, <1>1, <1>0 DEF ClearMarker, Finish, Release, SaveRecord, At, Goto,
      LockMoves, UnderLock, Core
  <2>17. CASE Halt(x)
    BY <2>17, <1>1, <1>0 DEF Halt, Finish, Release, At, Goto, LockMoves, UnderLock,
      Core
  <2> QED BY <1>1, <2>1, <2>2, <2>3, <2>4, <2>5, <2>6, <2>7, <2>8, <2>9, <2>10, <2>11,
      <2>12, <2>13, <2>14, <2>15, <2>16, <2>17 DEF CoreStep
<1>2. ASSUME x \in Cli, BeginRetask(x) \/ RetaskReturns(x), UNCHANGED watchVars PROVE LockMoves(x)
  <2>1. CASE BeginRetask(x)
    BY <1>0, <2>1, BeginRetaskDoes DEF BeginRetask, LockMoves, UnderLock, Core
  <2>2. CASE RetaskReturns(x)
    BY <2>2, <1>2, <1>0 DEF RetaskReturns, Finish, Release, At, Goto, LockMoves,
      UnderLock, Core
  <2> QED BY <1>2, <2>1, <2>2
<1>3. ASSUME x \in Pass, OwnStep(x) PROVE LockMoves(x)
  <2>1. CASE PassFails(x)
    BY <2>1, <1>3, <1>0 DEF PassFails, PassEnds, Leaves, At, Goto, LockMoves,
      UnderLock, Core
  <2>2. CASE Search(x)
    BY <2>2, <1>3, <1>0 DEF Search, At, Goto, LockMoves, UnderLock, Core
  <2>3. CASE PruneOne(x)
    <3>1. lock' = lock
      BY <2>3 DEF PruneOne
    <3>2. pc[x] \notin UnderLock /\ pc'[x] \notin UnderLock
      BY <1>0, <1>3, <2>3, PruneOneDoes DEF UnderLock, Core
    <3> QED BY <3>1, <3>2 DEF LockMoves
  <2>4. CASE TakePruneLock(x)
    <3>1. pc[x] = "prunelock" /\ Place(x) \in Instance
      BY <1>0, <1>3, <2>4 DEF TakePruneLock, At, Reads, Pruning, Place
    <3>2. \/ /\ lock[Place(x)] = None /\ lock' = [lock EXCEPT ![Place(x)] = x]
             /\ pc'[x] = "judge" /\ job' = job
          \/ pc'[x] = "prune" /\ lock' = lock
      BY <1>0, <2>4 DEF TakePruneLock, TakeLock, Leaves, Goto
    <3> QED BY <3>1, <3>2 DEF LockMoves, UnderLock, Core
  <2>5. CASE JudgeRecord(x)
    BY <2>5, <1>3, <1>0 DEF JudgeRecord, RemovesPlace, Leaves, Release, At, Goto,
      LockMoves, UnderLock, Core
  <2>6. CASE ForgetRecord(x)
    BY <2>6, <1>3, <1>0 DEF ForgetRecord, Leaves, Release, At, Goto, LockMoves,
      UnderLock, Core
  <2>7. CASE LoadHandled(x)
    BY <2>7, <1>3, <1>0 DEF LoadHandled, At, Goto, LockMoves, UnderLock, Core
  <2>8. CASE MakePlans(x)
    BY <2>8, <1>3, <1>0 DEF MakePlans, PassEnds, Leaves, At, Goto, LockMoves,
      UnderLock, Core
  <2>9. CASE NextPlan(x)
    <3>1. lock' = lock
      BY <2>9 DEF NextPlan
    <3>2. pc[x] \notin UnderLock /\ pc'[x] \notin UnderLock
      BY <1>0, <1>3, <2>9, NextPlanDoes DEF PassEnds, Leaves, Goto, UnderLock, Core
    <3> QED BY <3>1, <3>2 DEF LockMoves
  <2>10. CASE Provision(x)
    <3>1. lock' = lock
      BY <2>10 DEF Provision
    <3>2. pc[x] \notin UnderLock /\ pc'[x] \notin UnderLock
      BY <1>0, <1>3, <2>10, ProvisionDoes DEF UnderLock, Core
    <3> QED BY <3>1, <3>2 DEF LockMoves
  <2>11. CASE Launch(x)
    <3>1. lock' = lock
      BY <2>11 DEF Launch
    <3>2. pc[x] \notin UnderLock /\ pc'[x] \notin UnderLock
      BY <1>0, <1>3, <2>11, LaunchDoes DEF UnderLock, Core
    <3> QED BY <3>1, <3>2 DEF LockMoves
  <2>12. CASE Capture(x)
    <3>1. lock' = lock
      BY <2>12 DEF Capture
    <3>2. pc[x] \notin UnderLock /\ pc'[x] \notin UnderLock
      BY <1>0, <1>3, <2>12, CaptureDoes DEF UnderLock, Core
    <3> QED BY <3>1, <3>2 DEF LockMoves
  <2>13. CASE RecordReview(x)
    BY <2>13, <1>3, <1>0 DEF RecordReview, SaveRecord, StageFails, RemovesPlace, At,
      Goto, LockMoves, UnderLock, Core
  <2>14. CASE AppendStaged(x)
    BY <2>14, <1>3, <1>0 DEF AppendStaged, ReadHandled, WriteHandled, Leaves,
      StageFails, RemovesPlace, At, Goto, LockMoves, UnderLock, Core
  <2>15. CASE AppendAdopted(x)
    BY <2>15, <1>3, <1>0 DEF AppendAdopted, ReadHandled, WriteHandled, Leaves, At,
      Goto, LockMoves, UnderLock, Core
  <2> QED BY <1>3, <2>1, <2>2, <2>3, <2>4, <2>5, <2>6, <2>7, <2>8, <2>9, <2>10, <2>11,
      <2>12, <2>13, <2>14, <2>15 DEF OwnStep
<1> QED BY <1>1, <1>2, <1>3 DEF Acts

LEMMA LocksStay ==
    ASSUME Typed, Placed, Locked, NEW x \in Caller, LockMoves(x), Placed',
           \A y \in Caller \ {x} : SameFor(y)
    PROVE  Locked'
<1>0. lock \in [Instance -> Caller \cup {None}] /\ None \notin Caller
  BY DEF Typed, RetaskTypeOK
<1>1. \A y \in Caller \ {x} : pc'[y] = pc[y] /\ job'[y].inst = job[y].inst
  BY DEF SameFor
<1>2. /\ \A i \in Instance : lock[i] # None => pc[lock[i]] \in UnderLock /\ job[lock[i]].inst = i
      /\ \A y \in Caller : pc[y] \in UnderLock => lock[job[y].inst] = y
  BY DEF Locked, Place
<1>3. \A y \in Caller : pc[y] \in UnderLock => job[y].inst \in Instance
  BY RecordFields DEF Placed, Reads, UnderLock, Place, Core, Pruning
<1>4. CASE /\ lock' = lock
           /\ pc'[x] \in UnderLock <=> pc[x] \in UnderLock
           /\ pc[x] \in UnderLock => job'[x].inst = job[x].inst
  BY <1>0, <1>1, <1>2, <1>4 DEF Locked, Place
<1>5. CASE /\ pc[x] \notin UnderLock /\ pc'[x] \in UnderLock
           /\ lock[Place(x)] = None /\ lock' = [lock EXCEPT ![Place(x)] = x]
           /\ Place(x) \in Instance /\ job'[x].inst = job[x].inst
  <2> DEFINE i0 == job[x].inst
  <2>1. i0 \in Instance /\ lock[i0] = None /\ lock'[i0] = x /\ \A i \in Instance \ {i0} : lock'[i] = lock[i]
    BY <1>0, <1>5 DEF Place
  <2>2. ASSUME NEW i \in Instance, lock'[i] # None PROVE pc'[lock'[i]] \in UnderLock /\ job'[lock'[i]].inst = i
    <3>1. CASE i = i0
      BY <1>5, <2>1, <3>1
    <3>2. CASE i # i0
      BY <1>0, <1>1, <1>2, <1>5, <2>1, <2>2, <3>2
    <3> QED BY <3>1, <3>2
  <2>3. ASSUME NEW y \in Caller, pc'[y] \in UnderLock PROVE lock'[job'[y].inst] = y
    <3>1. CASE y = x
      BY <1>5, <2>1, <3>1
    <3>2. CASE y # x
      BY <1>0, <1>1, <1>2, <1>3, <2>1, <2>3, <3>2
    <3> QED BY <3>1, <3>2
  <2> QED BY <2>2, <2>3 DEF Locked, Place
<1>6. CASE pc'[x] \notin UnderLock /\ Release(x)
  <2>1. \A i \in Instance : lock'[i] = IF lock[i] = x THEN None ELSE lock[i]
    BY <1>6 DEF Release
  <2>2. ASSUME NEW i \in Instance, lock'[i] # None PROVE pc'[lock'[i]] \in UnderLock /\ job'[lock'[i]].inst = i
    BY <1>0, <1>1, <1>2, <2>1, <2>2
  <2>3. ASSUME NEW y \in Caller, pc'[y] \in UnderLock PROVE lock'[job'[y].inst] = y
    BY <1>0, <1>1, <1>2, <1>3, <1>6, <2>1, <2>3
  <2> QED BY <2>2, <2>3 DEF Locked, Place
<1> QED BY <1>4, <1>5, <1>6 DEF LockMoves

-----------------------------------------------------------------------------
(* Kills, users, agents and pull requests.                                 *)

LEMMA CrashMoves ==
    ASSUME Typed, NEW x \in Caller, Crash(x)
    PROVE  /\ pc[x] \notin {"start", "done"}
           /\ pc'[x] \in {"start", "done"} /\ (x \in Cli => pc'[x] = "start")
           /\ job'[x] = NoJob /\ buf'[x] = NotRead
           /\ x \in Pass => plans'[x] = {} /\ budget'[x] = 0
           /\ UNCHANGED <<worldVars, history>> /\ Release(x)
           /\ \A y \in Caller \ {x} : SameFor(y)
<1>0. /\ pc \in [Caller -> Label] /\ job \in [Caller -> Job]
      /\ buf \in [Caller -> [PR -> {NeverHandled, UnknownHead} \cup Sha]]
  BY DEF Typed, RetaskTypeOK
<1>1. \A p \in Pass : /\ known'[p] = IF p = x THEN NotRead ELSE known[p]
                      /\ plans'[p] = IF p = x THEN {} ELSE plans[p]
                      /\ budget'[p] = IF p = x THEN 0 ELSE budget[p]
  BY DEF Crash
<1>2. /\ pc[x] \notin {"start", "done"} /\ UNCHANGED <<worldVars, history>> /\ Release(x)
      /\ pc' = [pc EXCEPT ![x] = IF x \in Cli \/ Repeats THEN "start" ELSE "done"]
      /\ job' = [job EXCEPT ![x] = NoJob] /\ buf' = [buf EXCEPT ![x] = NotRead]
  BY DEF Crash, Goto
<1> QED BY <1>0, <1>1, <1>2 DEF SameFor

LEMMA CrashKeeps ==
    ASSUME Typed, Placed, Locked, NEW x \in Caller, Crash(x)
    PROVE  Typed' /\ Placed' /\ Locked'
<1>0. /\ pc \in [Caller -> Label] /\ RetaskTypeOK /\ WatchTypeOK
      /\ NotRead \in [PR -> {NeverHandled, UnknownHead} \cup Sha] /\ 0 \in 0..PerRunBound
  BY Limits DEF Typed, NotRead, Limits
<1>1. Typed'
  <2>1. WorldTypeOK'
    BY DEF Crash, Typed, WorldTypeOK
  <2>2. pc' \in [Caller -> Label]
    BY <1>0 DEF Crash, Goto, Label, Between
  <2>3. lock' \in [Instance -> Caller \cup {None}]
    BY <1>0 DEF Crash, Release, RetaskTypeOK
  <2>4. /\ job' \in [Caller -> Job] /\ live' \in [Caller -> BOOLEAN] /\ copies' \in [Caller -> SUBSET Session]
        /\ buf' \in [Caller -> [PR -> {NeverHandled, UnknownHead} \cup Sha]]
    BY <1>0, JobFields DEF Crash, RetaskTypeOK
  <2>5. RetaskTypeOK'
    BY <1>0, <2>3, <2>4 DEF Crash, RetaskTypeOK
  <2>6. /\ req' \in [Pass -> SUBSET PR] /\ todo' \in [Pass -> SUBSET Handle]
        /\ plans' \in [Pass -> SUBSET Plan]
    BY <1>0 DEF Crash, WatchTypeOK
  <2>7. known' \in [Pass -> [PR -> {NeverHandled, UnknownHead} \cup Sha]]
    BY <1>0 DEF Crash, WatchTypeOK
  <2>8. budget' \in [Pass -> 0..PerRunBound]
    BY <1>0 DEF Crash, WatchTypeOK
  <2>9. mishaps' \subseteq {"overlap", "crash", "removal", "late"}
    BY <1>0 DEF Crash, WatchTypeOK
  <2> QED BY <2>1, <2>2, <2>5, <2>6, <2>7, <2>8, <2>9 DEF Typed, WatchTypeOK
<1>2. /\ pc'[x] \in {"start", "done"} /\ (x \in Cli => pc'[x] = "start")
      /\ job'[x] = NoJob /\ (x \in Pass => plans'[x] = {} /\ budget'[x] = 0)
      /\ \A y \in Caller \ {x} : SameFor(y)
      /\ Release(x) /\ UNCHANGED worldVars
  BY CrashMoves
<1>3. \A y \in Caller \ {x} : Reads(y)' /\ (y \in Pass => Decided(y)')
  BY <1>2 DEF SameFor, Placed, Reads, Decided, Worker, Place
<1>4. Reads(x)' /\ (x \in Pass => Decided(x)')
  BY <1>2 DEF Reads, Decided, Core, Pruning, Staging, Launching, Appending, Adopting
<1>5. Placed'
  BY <1>2, <1>3, <1>4 DEF Placed, Rooted
<1>6. LockMoves(x)
  BY <1>2 DEF LockMoves, UnderLock, Core
<1> QED BY <1>1, <1>2, <1>5, <1>6, LocksStay

(* What no caller does leaves callers and locks alone.                     *)
LEMMA OutsideKeeps ==
    ASSUME Typed, Placed, Locked, WorldTypeOK', Rooted', UNCHANGED <<coreVars, history, watchVars>>
    PROVE  Typed' /\ Placed' /\ Locked'
<1>1. Typed'
  BY DEF Typed, RetaskTypeOK, WatchTypeOK
<1>2. (\A x \in Caller : Reads(x)') /\ (\A x \in Pass : Decided(x)')
  BY DEF Placed, Reads, Decided, Worker, Place
<1>3. Locked'
  BY DEF Locked, Place
<1> QED BY <1>1, <1>2, <1>3 DEF Placed

LEMMA UserStartsKeeps ==
    ASSUME Typed, Placed, UserStarts
    PROVE  /\ WorldTypeOK' /\ Rooted' /\ UNCHANGED <<coreVars, history, watchVars>>
           /\ UNCHANGED <<disk, githubVars, watchFiles>>
           /\ \E s \in Session, i \in Instance : row[s] = "unborn" /\ disk[i] /\ Born(s, i, "working")
<1>1. PICK s \in Session, i \in Instance : row[s] = "unborn" /\ disk[i] /\ Born(s, i, "working")
  BY NextNames DEF UserStarts
<1>2. UNCHANGED <<disk, githubVars, watchFiles>> /\ UNCHANGED <<coreVars, history, watchVars>>
  BY DEF UserStarts
<1>3. WorldTypeOK /\ Rooted
  BY DEF Typed, Placed
<1>4. WorldTypeOK'
  BY <1>1, <1>2, <1>3 DEF WorldTypeOK, Born, RowState
<1>5. Rooted'
  BY <1>1, <1>2, <1>3 DEF WorldTypeOK, Rooted, Born
<1> QED BY <1>1, <1>2, <1>4, <1>5

(* What agents and users do to a session's row, and where forks come from. *)
AgentMoves ==
    \/ \E s \in Session, from, to \in RowState :
           row[s] = from /\ from \notin {"unborn", "gone"} /\ to \notin {"unborn", "starting"}
           /\ row' = [row EXCEPT ![s] = to] /\ UNCHANGED <<root, mapped>>
    \/ UNCHANGED <<row, root, mapped>>
    \/ \E s, c \in Session :
           /\ row[s] \in Running /\ row[c] = "unborn"
           /\ row' = [row EXCEPT ![c] = "working"] /\ root' = [root EXCEPT ![c] = root[s]]
           /\ mapped' = [mapped EXCEPT ![c] = FALSE]

LEMMA AgentsMove ==
    ASSUME Typed, Agents
    PROVE  AgentMoves /\ wakes' \in [Session -> SUBSET Sha]
<1>0. WorldTypeOK
  BY DEF Typed
<1>1. ASSUME NEW s \in Session, SessionShowsUp(s) \/ TurnEnds(s) \/ StopSettles(s) \/ UserPrompts(s)
      PROVE  AgentMoves /\ wakes' \in [Session -> SUBSET Sha]
  BY <1>0, <1>1 DEF SessionShowsUp, TurnEnds, StopSettles, UserPrompts, RowBecomes, AgentMoves,
     WorldTypeOK, RowState
<1>2. ASSUME NEW s \in Session, UserDismisses(s) PROVE AgentMoves /\ wakes' \in [Session -> SUBSET Sha]
  <2>1. row[s] \in RowState /\ row[s] \notin {"unborn", "gone"} /\ row' = [row EXCEPT ![s] = "gone"]
        /\ UNCHANGED <<root, mapped>>
    BY <1>0, <1>2 DEF UserDismisses, Listed, WorldTypeOK
  <2>2. wakes' \in [Session -> SUBSET Sha]
    BY <1>0, <1>2 DEF UserDismisses, WorldTypeOK
  <2> QED BY <2>1, <2>2 DEF AgentMoves, RowState
<1>3. ASSUME NEW s \in Session, NEW h \in Sha, WakeLands(s, h)
      PROVE  AgentMoves /\ wakes' \in [Session -> SUBSET Sha]
  <2>1. row[s] = "stopped" /\ row' = [row EXCEPT ![s] = "working"] /\ UNCHANGED <<root, mapped>>
    BY <1>3 DEF WakeLands
  <2>2. wakes' \in [Session -> SUBSET Sha]
    BY <1>0, <1>3 DEF WakeLands, WorldTypeOK
  <2> QED BY <2>1, <2>2 DEF AgentMoves, RowState
<1>4. ASSUME NEW s \in Session, NEW h \in Sha, WakeForks(s, h)
      PROVE  AgentMoves /\ wakes' \in [Session -> SUBSET Sha]
  <2>1. PICK c \in Session : /\ row[c] = "unborn" /\ row[s] \in Running
                             /\ row' = [row EXCEPT ![c] = "working"] /\ root' = [root EXCEPT ![c] = root[s]]
                             /\ wakes' = [wakes EXCEPT ![s] = @ \ {h}, ![c] = {}]
                             /\ mapped' = [mapped EXCEPT ![c] = FALSE]
    BY <1>4, NextNames DEF WakeForks
  <2>2. wakes' \in [Session -> SUBSET Sha]
    BY <1>0, <2>1 DEF WorldTypeOK
  <2> QED BY <2>1, <2>2 DEF AgentMoves
<1>5. ASSUME NEW s \in Session, NEW h \in Sha, WakeIsLost(s, h)
      PROVE  AgentMoves /\ wakes' \in [Session -> SUBSET Sha]
  BY <1>0, <1>5 DEF WakeIsLost, AgentMoves, WorldTypeOK
<1> QED BY <1>1, <1>2, <1>3, <1>4, <1>5 DEF Agents

(* Pull requests get heads, and lose and find those who ask.               *)
LEMMA GitHubMoves ==
    ASSUME Typed, GitHub
    PROVE  /\ ask' \in [PR -> {"requested", "dropped", "closed"}]
           /\ head' \in [PR -> Sha] /\ rebased' \in [PR -> Sha]
           /\ \A p \in PR : head[p] <= head'[p]
<1>0. /\ WorldTypeOK /\ Sha \subseteq Nat
      /\ \A p \in PR : \A n \in 1..MaxHead[p] : n \in Sha
      /\ \A p \in PR : MaxHead[p] \in Nat
  BY HeadsAreNumbers, NumberedNames DEF Typed, NumberedNames
<1>3. \A p1 \in PR : head[p1] \in Nat /\ head[p1] <= head[p1]
  <2>1. \A p1 \in PR : head[p1] \in Sha
    BY <1>0 DEF WorldTypeOK
  <2>2. \A p1 \in PR : head[p1] \in Nat
    BY <1>0, <2>1
  <2> QED BY <2>2
<1>1. ASSUME NEW p \in PR, Asks(p)
      PROVE  /\ ask' \in [PR -> {"requested", "dropped", "closed"}]
             /\ head' \in [PR -> Sha] /\ rebased' \in [PR -> Sha]
             /\ \A p1 \in PR : head[p1] <= head'[p1]
  <2>1. UNCHANGED <<head, rebased>> /\ \E a \in {"requested", "dropped"} : ask' = [ask EXCEPT ![p] = a]
    BY <1>1 DEF Asks
  <2> QED BY <1>0, <1>3, <2>1 DEF WorldTypeOK
<1>2. ASSUME NEW p \in PR, NEW force \in BOOLEAN, Push(p, force)
      PROVE  /\ ask' \in [PR -> {"requested", "dropped", "closed"}]
             /\ head' \in [PR -> Sha] /\ rebased' \in [PR -> Sha]
             /\ \A p1 \in PR : head[p1] <= head'[p1]
  <2>1. head[p] \in Nat /\ head[p] \in Sha /\ head[p] < MaxHead[p] /\ MaxHead[p] \in Nat
    BY <1>0, <1>2 DEF Push, WorldTypeOK
  <2>2. head[p] + 1 \in Sha
    BY <1>0, <2>1
  <2>3. /\ head' = [head EXCEPT ![p] = head[p] + 1] /\ ask' = ask
        /\ rebased' = rebased \/ rebased' = [rebased EXCEPT ![p] = head[p] + 1]
    BY <1>2 DEF Push
  <2>4. head \in [PR -> Sha] /\ rebased \in [PR -> Sha] /\ ask \in [PR -> {"requested", "dropped", "closed"}]
    BY <1>0 DEF WorldTypeOK
  <2>5. \A p1 \in PR : head[p1] <= head'[p1]
    BY <1>3, <2>1, <2>3, <2>4
  <2> QED BY <2>2, <2>3, <2>4, <2>5
<1> QED BY <1>1, <1>2 DEF GitHub

LEMMA WorldStepKeeps ==
    ASSUME Typed, Placed, WorldStep
    PROVE  /\ WorldTypeOK' /\ Rooted' /\ UNCHANGED <<coreVars, history, watchVars>>
           /\ UNCHANGED <<disk, watchFiles>>
           /\ AgentMoves
           /\ \A p \in PR : head[p] <= head'[p]
<1>0. /\ WorldTypeOK /\ Rooted /\ Sha \subseteq Nat
      /\ UNCHANGED <<disk, watchFiles>> /\ UNCHANGED <<coreVars, history, watchVars>>
  BY HeadsAreNumbers DEF Typed, Placed, WorldStep, World
<1>1. CASE Agents /\ UNCHANGED githubVars
  <2>1. AgentMoves /\ wakes' \in [Session -> SUBSET Sha]
    BY <1>1, AgentsMove
  <2>2. /\ row' \in [Session -> RowState] /\ root' \in [Session -> Instance \cup {None}]
        /\ mapped' \in [Session -> BOOLEAN]
    <3>1. /\ row \in [Session -> RowState] /\ root \in [Session -> Instance \cup {None}]
          /\ mapped \in [Session -> BOOLEAN] /\ "working" \in RowState
      BY <1>0 DEF WorldTypeOK, RowState
    <3> QED BY <3>1, <2>1 DEF AgentMoves
  <2>3. Rooted'
    BY <1>0, <2>1 DEF AgentMoves, WorldTypeOK, Rooted, Running
  <2>4. \A p \in PR : head[p] <= head'[p]
    <3>1. \A p \in PR : head[p] \in Nat /\ head'[p] = head[p]
      BY <1>0, <1>1 DEF WorldTypeOK
    <3> QED BY <3>1
  <2> QED BY <1>0, <1>1, <2>1, <2>2, <2>3, <2>4 DEF WorldTypeOK
<1>2. CASE GitHub /\ UNCHANGED sessionVars
  <2>1. /\ ask' \in [PR -> {"requested", "dropped", "closed"}]
        /\ head' \in [PR -> Sha] /\ rebased' \in [PR -> Sha]
        /\ \A p \in PR : head[p] <= head'[p]
    BY <1>2, GitHubMoves
  <2> QED BY <1>0, <1>2, <2>1 DEF WorldTypeOK, Rooted, AgentMoves
<1> QED BY <1>1, <1>2 DEF WorldStep, World

LEMMA NextKeepsTypes ==
    ASSUME Typed, Placed, Locked, Next
    PROVE  Typed' /\ Placed' /\ Locked'
<1>1. ASSUME NEW x \in Caller, Acts(x) PROVE Typed' /\ Placed' /\ Locked'
  BY <1>1, CallersStayTyped, CallersStayPlaced, LocksMove, OthersStay, LocksStay
<1> QED BY <1>1, CallersAct, CrashKeeps, UserStartsKeeps, WorldStepKeeps, OutsideKeeps

-----------------------------------------------------------------------------
(* The workspaces there may be at first.                                   *)

LEMMA LeastNames ==
    /\ Min(Session) \in Session /\ Min(Instance) \in Instance /\ Min(PR) \in PR
    /\ [pr |-> Min(PR), inst |-> Min(Instance), base |-> 1, sess |-> Min(Session), halted |-> 0] \in Record
<1>1. Min(Session) \in Session /\ Min(Instance) \in Instance /\ Min(PR) \in PR
  BY NamesAreNumbers, LeastIs
<1> QED BY <1>1, HeadsAreNumbers, RecordsAre

FirstSessions ==
    /\ row \in [Session -> RowState] /\ root \in [Session -> Instance \cup {None}]
    /\ mapped \in [Session -> BOOLEAN] /\ disk \in [Instance -> BOOLEAN]
    /\ Rooted

LEMMA FirstSessionIs ==
    ASSUME NEW b \in BOOLEAN, FirstSession("working", b)
    PROVE  FirstSessions
<1>1. /\ row = [s \in Session |-> IF s = Min(Session) THEN "working" ELSE "unborn"]
      /\ root = [s \in Session |-> IF s = Min(Session) THEN Min(Instance) ELSE None]
  BY DEF FirstSession
<1>2. mapped = [s \in Session |-> b /\ s = Min(Session)]
  BY DEF FirstSession
<1>3. disk = [i \in Instance |-> i = Min(Instance)]
  BY DEF FirstSession
<1>4. row \in [Session -> RowState] /\ root \in [Session -> Instance \cup {None}]
  BY <1>1, LeastNames DEF RowState
<1>5. mapped \in [Session -> BOOLEAN]
  <2>1. \A s \in Session : (b /\ s = Min(Session)) \in BOOLEAN
    BY Zenon
  <2> QED BY <1>2, <2>1, Zenon
<1>6. disk \in [Instance -> BOOLEAN]
  <2>1. \A i \in Instance : (i = Min(Instance)) \in BOOLEAN
    BY Zenon
  <2> QED BY <1>3, <2>1, Zenon
<1>7. Rooted
  BY <1>1, <1>2, LeastNames DEF Rooted
<1> QED BY <1>4, <1>5, <1>6, <1>7 DEF FirstSessions

LEMMA InitialTypes == Init => Typed /\ Placed /\ Locked
<1> SUFFICES ASSUME Init PROVE Typed /\ Placed /\ Locked
  OBVIOUS
<1>0. /\ 1 \in Sha /\ NoJob \in Job /\ NoJob.sess = None /\ NoJob.inst = None
      /\ NotRead \in [PR -> {NeverHandled, UnknownHead} \cup Sha] /\ 0 \in 0..PerRunBound
  BY HeadsAreNumbers, JobFields, Limits DEF NotRead, Limits
<1>1. FirstSessions
  <2>1. CASE NothingStaged
    BY <2>1 DEF NothingStaged, RowState, Rooted, FirstSessions
  <2> QED BY <2>1, FirstSessionIs DEF Init, OneStaged, OneDispatched
<1>2. /\ ask \in [PR -> {"requested", "dropped", "closed"}]
      /\ handled \in [PR -> {NeverHandled, UnknownHead} \cup Sha]
      /\ staged \in [Handle -> Record \cup {NoRecord}]
      /\ of \in [Session -> PR \cup {0}]
      /\ reviewed \subseteq PR \X Sha
  <2>1. CASE NothingStaged
    BY <2>1 DEF NothingStaged
  <2>2. CASE OneStaged
    <3>1. ask \in [PR -> {"requested", "dropped", "closed"}] /\ reviewed \subseteq PR \X Sha
      BY <1>0, <2>2, LeastNames DEF OneStaged
    <3>2. handled \in [PR -> {NeverHandled, UnknownHead} \cup Sha]
      BY <1>0, <2>2 DEF OneStaged
    <3>3. staged \in [Handle -> Record \cup {NoRecord}]
      BY <2>2, LeastNames DEF OneStaged
    <3>4. of \in [Session -> PR \cup {0}]
      BY <2>2, LeastNames DEF OneStaged
    <3> QED BY <3>1, <3>2, <3>3, <3>4
  <2>3. CASE OneDispatched
    BY <2>3 DEF OneDispatched
  <2> QED BY <2>1, <2>2, <2>3 DEF Init
<1>3. WorldTypeOK
  <2>1. wakes \in [Session -> SUBSET Sha] /\ head \in [PR -> Sha] /\ rebased \in [PR -> Sha]
    BY <1>0 DEF Init
  <2> QED BY <1>1, <1>2, <2>1 DEF WorldTypeOK, FirstSessions
<1>4. RetaskTypeOK
  <2>1. lock \in [Instance -> Caller \cup {None}] /\ job \in [Caller -> Job] /\ live \in [Caller -> BOOLEAN]
        /\ copies \in [Caller -> SUBSET Session] /\ unsure \subseteq Session
    BY <1>0 DEF Init
  <2>2. buf \in [Caller -> [PR -> {NeverHandled, UnknownHead} \cup Sha]]
    BY <1>0 DEF Init
  <2>3. sent \in [Session -> [Sha -> 0..2]]
    BY DEF Init
  <2> QED BY <1>2, <2>1, <2>2, <2>3 DEF RetaskTypeOK
<1>5. WatchTypeOK
  <2>1. known \in [Pass -> [PR -> {NeverHandled, UnknownHead} \cup Sha]]
    BY <1>0 DEF Init
  <2>2. budget \in [Pass -> 0..PerRunBound]
    BY <1>0 DEF Init
  <2> QED BY <2>1, <2>2 DEF Init, WatchTypeOK
<1>6. pc = [x \in Caller |-> "start"] /\ plans = [x \in Pass |-> {}] /\ lock = [i \in Instance |-> None]
  BY DEF Init
<1>7. pc \in [Caller -> Label]
  BY <1>6 DEF Label, Between
<1>8. Placed
  BY <1>1, <1>6 DEF Placed, FirstSessions, Reads, Decided, Core, Pruning, Staging, Launching, Appending, Adopting
<1>9. Locked
  BY <1>6 DEF Locked, UnderLock, Core
<1> QED BY <1>3, <1>4, <1>5, <1>7, <1>8, <1>9 DEF Typed

LEMMA TypesHold == Spec => [](Typed /\ Placed /\ Locked)
<1>1. Typed /\ Placed /\ Locked /\ [Next]_vars => (Typed /\ Placed /\ Locked)'
  <2>1. Typed /\ Placed /\ Locked /\ Next => (Typed /\ Placed /\ Locked)'
    BY NextKeepsTypes
  <2>2. Typed /\ Placed /\ Locked /\ UNCHANGED vars => (Typed /\ Placed /\ Locked)'
    BY DEF vars, Typed, WorldTypeOK, RetaskTypeOK, WatchTypeOK, Placed, Rooted, Reads, Decided,
       Worker, Place, Locked
  <2> QED BY <2>1, <2>2
<1> QED BY <1>1, InitialTypes, PTL DEF Spec

(* Every variable has its type, and a lock is held by a caller that is at  *)
(* work: no path through the core, and no kill, leaves one behind.         *)
THEOREM LocksAreHeldAtWork == Spec => []TypeOK
<1>1. Typed /\ Placed /\ Locked => TypeOK
  BY DEF Typed, Locked, TypeOK, UnderLock, Core
<1> QED BY <1>1, TypesHold, PTL

-----------------------------------------------------------------------------
(* A head that is recorded, that was read or that a pass is about to       *)
(* record was put to a session, or adopted.                                *)
Given == {"verify", "copies", "postread", "postwrite", "postsave"} \cup Launching \cup Appending

Credited(x) ==
    /\ \A p \in PR : buf[x][p] \in Sha => <<p, buf[x][p]>> \in reviewed
    /\ pc[x] \in Given => <<job[x].pr, job[x].h>> \in reviewed

Justified == HandledWasReviewed /\ \A x \in Pass : Credited(x)

(* A pass's step forgets nothing that was put to a session, and records    *)
(* nothing else.                                                           *)
Credits(x) ==
    /\ reviewed \subseteq reviewed'
    /\ \A p \in PR : handled'[p] \in Sha => <<p, handled'[p]>> \in reviewed'
    /\ \A p \in PR : buf'[x][p] \in Sha => <<p, buf'[x][p]>> \in reviewed'
    /\ pc'[x] \in Given => <<job'[x].pr, job'[x].h>> \in reviewed'

LEMMA PassesCredit ==
    ASSUME Typed, Placed, Justified, NEW x \in Pass, Acts(x)
    PROVE  Credits(x)
<1>0. /\ Typed /\ Placed /\ Reads(x) /\ pc \in [Caller -> Label] /\ job \in [Caller -> Job]
      /\ buf \in [Caller -> [PR -> {NeverHandled, UnknownHead} \cup Sha]]
      /\ handled \in [PR -> {NeverHandled, UnknownHead} \cup Sha]
      /\ \A p \in PR : handled[p] \in Sha => <<p, handled[p]>> \in reviewed
      /\ \A p \in PR : buf[x][p] \in Sha => <<p, buf[x][p]>> \in reviewed
      /\ pc[x] \in Given => <<job[x].pr, job[x].h>> \in reviewed
      /\ \A p \in PR : NotRead[p] \notin Sha
  BY HeadsAreNumbers DEF Typed, Placed, RetaskTypeOK, WorldTypeOK, Justified, Credited, HandledWasReviewed, NotRead
<1>1. ASSUME CoreStep(x), UNCHANGED watchVars PROVE Credits(x)
  <2>1. CASE TakeRetaskLock(x)
    BY <2>1, <1>1, <1>0 DEF TakeRetaskLock, TakeLock, Refused, Release, At, Goto,
      Credits, Given, Launching, Appending
  <2>2. CASE Classify(x)
    BY <2>2, <1>1, <1>0 DEF Classify, Refused, Release, At, Goto, Credits, Given,
      Launching, Appending
  <2>3. CASE CheckOptions(x)
    BY <2>3, <1>1, <1>0 DEF CheckOptions, Refused, Release, At, Goto, Credits, Given,
      Launching, Appending
  <2>4. CASE PreStop(x)
    BY <2>4, <1>1, <1>0 DEF PreStop, Refused, Release, At, Goto, Credits, Given,
      Launching, Appending
  <2>5. CASE Stop(x)
    BY <2>5, <1>1, <1>0 DEF Stop, Refused, Release, ActsOn, At, Goto, Credits, Given,
      Launching, Appending
  <2>6. CASE WaitStopped(x)
    BY <2>6, <1>1, <1>0 DEF WaitStopped, Refused, Release, At, Goto, Credits, Given,
      Launching, Appending
  <2>7. CASE PreWake(x)
    <3>1. /\ pc[x] = "prewake" /\ pc'[x] \in {"refused", "failed", "reread"}
          /\ UNCHANGED <<handled, buf, reviewed>>
      BY <1>0, <2>7, PreWakeDoes DEF PreWake, Refused
    <3> QED BY <1>0, <3>1 DEF Credits, Given, Launching, Appending
  <2>8. CASE FinalReread(x)
    BY <2>8, <1>1, <1>0 DEF FinalReread, At, Goto, Credits, Given, Launching, Appending
  <2>9. CASE Wake(x)
    <3>1. /\ UNCHANGED <<handled, buf, job>>
          /\ reviewed' = IF x \in Pass THEN reviewed \cup {<<job[x].pr, job[x].h>>} ELSE reviewed
      BY <2>9 DEF Wake
    <3> QED BY <1>0, <3>1 DEF Credits, Given, Launching, Appending
  <2>10. CASE Verify(x)
    BY <2>10, <1>1, <1>0 DEF Verify, At, Goto, Credits, Given, Launching, Appending
  <2>11. CASE CopiesHandled(x)
    BY <2>11, <1>1, <1>0 DEF CopiesHandled, At, Goto, Credits, Given, Launching,
      Appending
  <2>12. ASSUME NEW c \in Session, StopCopy(x, c) PROVE Credits(x)
    BY <2>12, <1>1, <1>0 DEF StopCopy, ActsOn, At, Goto, Credits, Given, Launching,
      Appending
  <2>13. ASSUME NEW c \in Session, RemoveCopy(x, c) PROVE Credits(x)
    BY <2>13, <1>1, <1>0 DEF RemoveCopy, ActsOn, At, Goto, Credits, Given, Launching,
      Appending
  <2>14. ASSUME NEW c \in Session, LeaveCopy(x, c) PROVE Credits(x)
    BY <2>14, <1>1, <1>0 DEF LeaveCopy, At, Goto, Credits, Given, Launching, Appending
  <2>15. CASE x \in Pass /\ AppendDelivered(x)
    <3>1. \/ /\ pc[x] = "postread" /\ pc'[x] = "postwrite" /\ handled' = handled
             /\ buf' = [buf EXCEPT ![x] = handled] /\ job' = job /\ reviewed' = reviewed
          \/ /\ pc[x] = "postwrite" /\ buf' = [buf EXCEPT ![x] = NotRead]
             /\ \/ pc'[x] \in {"failed"} /\ handled' = handled /\ reviewed' = reviewed
                \/ /\ pc'[x] = "postsave" /\ reviewed' = reviewed /\ (pc'[x] = "postsave" => job' = job)
                   /\ (handled' = handled \/ handled' = [buf[x] EXCEPT ![job[x].pr] = job[x].h])
      BY <1>0, <2>15 DEF AppendDelivered, ReadHandled, WriteHandled, Finish, At, Goto
    <3> QED BY <1>0, <3>1 DEF Credits, Given, Launching, Appending
  <2>16. CASE ClearMarker(x)
    BY <2>16, <1>1, <1>0 DEF ClearMarker, Finish, Release, SaveRecord, At, Goto,
      Credits, Given, Launching, Appending
  <2>17. CASE Halt(x)
    BY <2>17, <1>1, <1>0 DEF Halt, Finish, Release, At, Goto, Credits, Given,
      Launching, Appending
  <2> QED BY <1>1, <2>1, <2>2, <2>3, <2>4, <2>5, <2>6, <2>7, <2>8, <2>9, <2>10, <2>11,
      <2>12, <2>13, <2>14, <2>15, <2>16, <2>17 DEF CoreStep
<1>2. ASSUME x \in Cli, BeginRetask(x) \/ RetaskReturns(x), UNCHANGED watchVars PROVE Credits(x)
  <2>1. CASE BeginRetask(x)
    BY <1>0, <1>2, <2>1 DEF BeginRetask, Credits, Given, Launching, Appending
  <2>2. CASE RetaskReturns(x)
    BY <2>2, <1>2, <1>0 DEF RetaskReturns, Finish, Release, At, Goto, Credits, Given,
      Launching, Appending
  <2> QED BY <1>2, <2>1, <2>2
<1>3. ASSUME x \in Pass, OwnStep(x) PROVE Credits(x)
  <2>1. CASE PassFails(x)
    BY <2>1, <1>3, <1>0 DEF PassFails, PassEnds, Leaves, At, Goto, Credits, Given,
      Launching, Appending
  <2>2. CASE Search(x)
    BY <2>2, <1>3, <1>0 DEF Search, At, Goto, Credits, Given, Launching, Appending
  <2>3. CASE PruneOne(x)
    <3>1. UNCHANGED <<handled, buf, reviewed>>
      BY <2>3 DEF PruneOne
    <3>2. pc'[x] \notin Given
      BY <1>0, <1>3, <2>3, PruneOneDoes DEF Given, Launching, Appending
    <3> QED BY <1>0, <3>1, <3>2 DEF Credits
  <2>4. CASE TakePruneLock(x)
    BY <2>4, <1>3, <1>0 DEF TakePruneLock, TakeLock, Leaves, At, Goto, Credits, Given,
      Launching, Appending
  <2>5. CASE JudgeRecord(x)
    BY <2>5, <1>3, <1>0 DEF JudgeRecord, RemovesPlace, Leaves, Release, At, Goto,
      Credits, Given, Launching, Appending
  <2>6. CASE ForgetRecord(x)
    BY <2>6, <1>3, <1>0 DEF ForgetRecord, Leaves, Release, At, Goto, Credits, Given,
      Launching, Appending
  <2>7. CASE LoadHandled(x)
    BY <2>7, <1>3, <1>0 DEF LoadHandled, At, Goto, Credits, Given, Launching, Appending
  <2>8. CASE MakePlans(x)
    BY <2>8, <1>3, <1>0 DEF MakePlans, PassEnds, Leaves, At, Goto, Credits, Given,
      Launching, Appending
  <2>9. CASE NextPlan(x)
    <3>1. UNCHANGED <<handled, buf, reviewed>>
      BY <2>9 DEF NextPlan
    <3>2. pc'[x] \notin Given
      BY <1>0, <1>3, <2>9, NextPlanDoes DEF PassEnds, Leaves, Goto, Given, Launching, Appending
    <3> QED BY <1>0, <3>1, <3>2 DEF Credits
  <2>10. CASE Provision(x)
    <3>1. UNCHANGED <<handled, buf, reviewed>>
      BY <2>10 DEF Provision
    <3>2. pc'[x] \notin Given
      BY <1>0, <1>3, <2>10, ProvisionDoes DEF Given, Launching, Appending
    <3> QED BY <1>0, <3>1, <3>2 DEF Credits
  <2>11. CASE Launch(x)
    <3>1. UNCHANGED <<handled, buf>>
      BY <2>11 DEF Launch
    <3>2. \/ pc'[x] = "failed" /\ reviewed' = reviewed
          \/ /\ reviewed' = reviewed \cup {<<job[x].pr, job[x].h>>}
             /\ job'[x].pr = job[x].pr /\ job'[x].h = job[x].h
      BY <1>0, <1>3, <2>11, LaunchDoes
    <3> QED BY <1>0, <3>1, <3>2 DEF Credits, Given, Launching, Appending
  <2>12. CASE Capture(x)
    <3>1. UNCHANGED <<handled, buf, reviewed>>
      BY <2>12 DEF Capture
    <3>2. pc[x] = "capture" /\ job'[x].pr = job[x].pr /\ job'[x].h = job[x].h
      BY <1>0, <1>3, <2>12, CaptureDoes
    <3> QED BY <1>0, <3>1, <3>2 DEF Credits, Given, Launching, Appending
  <2>13. CASE RecordReview(x)
    BY <2>13, <1>3, <1>0 DEF RecordReview, SaveRecord, StageFails, RemovesPlace, At,
      Goto, Credits, Given, Launching, Appending
  <2>14. CASE AppendStaged(x)
    <3>1. \/ /\ pc[x] = "stageread" /\ pc'[x] = "stagewrite" /\ handled' = handled
             /\ buf' = [buf EXCEPT ![x] = handled] /\ job' = job /\ reviewed' = reviewed
          \/ /\ pc[x] = "stagewrite" /\ buf' = [buf EXCEPT ![x] = NotRead]
             /\ \/ pc'[x] \in {"failed"} /\ handled' = handled /\ reviewed' = reviewed
                \/ /\ pc'[x] = "next" /\ reviewed' = reviewed /\ (pc'[x] = "postsave" => job' = job)
                   /\ (handled' = handled \/ handled' = [buf[x] EXCEPT ![job[x].pr] = job[x].h])
      BY <1>0, <2>14 DEF AppendStaged, ReadHandled, WriteHandled, StageFails, Leaves, At, Goto
    <3> QED BY <1>0, <3>1 DEF Credits, Given, Launching, Appending
  <2>15. CASE AppendAdopted(x)
    <3>1. \/ /\ pc[x] = "adoptread" /\ pc'[x] = "adoptwrite" /\ handled' = handled
             /\ buf' = [buf EXCEPT ![x] = handled] /\ job' = job /\ reviewed' = reviewed
          \/ /\ pc[x] = "adoptwrite" /\ buf' = [buf EXCEPT ![x] = NotRead]
             /\ \/ pc'[x] \in {"failed"} /\ handled' = handled /\ reviewed' = reviewed
                \/ /\ pc'[x] = "next" /\ reviewed' = reviewed \cup {<<job[x].pr, job[x].h>>} /\ (pc'[x] = "postsave" => job' = job)
                   /\ (handled' = handled \/ handled' = [buf[x] EXCEPT ![job[x].pr] = job[x].h])
      BY <1>0, <2>15 DEF AppendAdopted, ReadHandled, WriteHandled, Leaves, At, Goto
    <3> QED BY <1>0, <3>1 DEF Credits, Given, Launching, Appending
  <2> QED BY <1>3, <2>1, <2>2, <2>3, <2>4, <2>5, <2>6, <2>7, <2>8, <2>9, <2>10, <2>11,
      <2>12, <2>13, <2>14, <2>15 DEF OwnStep
<1> QED BY <1>1, <1>2, <1>3 DEF Acts

LEMMA NextCredits ==
    ASSUME Typed, Placed, Justified, Next
    PROVE  Justified'
<1>1. ASSUME NEW x \in Caller, reviewed \subseteq reviewed', \A y \in Caller \ {x} : SameFor(y)
      PROVE  \A y \in Pass \ {x} : Credited(y)'
  BY <1>1 DEF Justified, Credited, SameFor
<1>2. ASSUME NEW x \in Pass, Acts(x) PROVE Justified'
  <2>1. Credits(x) /\ \A y \in Caller \ {x} : SameFor(y)
    BY <1>2, PassesCredit, OthersStay
  <2>2. \A y \in Pass \ {x} : Credited(y)'
    BY <1>1, <2>1 DEF Credits
  <2> QED BY <2>1, <2>2 DEF Justified, Credits, Credited, HandledWasReviewed
<1>3. ASSUME NEW x \in Cli, Acts(x) PROVE Justified'
  <2>1. reviewed' = reviewed /\ handled' = handled
    <3>1. CASE CoreStep(x)
      <4>1. CASE PreWake(x)
        BY <4>1 DEF PreWake, Refused
      <4>2. CASE \/ TakeRetaskLock(x) \/ Classify(x) \/ CheckOptions(x) \/ PreStop(x)
                 \/ Stop(x) \/ WaitStopped(x) \/ FinalReread(x) \/ Wake(x)
                 \/ Verify(x) \/ CopiesHandled(x) \/ ClearMarker(x) \/ Halt(x)
                 \/ \E c \in Session : StopCopy(x, c) \/ RemoveCopy(x, c) \/ LeaveCopy(x, c)
        BY <1>3, <4>2 DEF TakeRetaskLock, Refused, Classify, CheckOptions, PreStop, Stop, ActsOn,
           WaitStopped, FinalReread, Wake, Verify, CopiesHandled, ClearMarker, Halt, StopCopy,
           RemoveCopy, LeaveCopy
      <4> QED BY <1>3, <3>1, <4>1, <4>2 DEF CoreStep
    <3>2. CASE BeginRetask(x) \/ RetaskReturns(x)
      BY <3>2 DEF BeginRetask, RetaskReturns
    <3> QED BY <1>3, <3>1, <3>2 DEF Acts
  <2>2. \A y \in Pass : Credited(y)'
    BY <1>1, <1>3, <2>1, OthersStay
  <2> QED BY <2>1, <2>2 DEF Justified, HandledWasReviewed
<1>4. ASSUME NEW x \in Caller, Crash(x) PROVE Justified'
  <2>1. /\ pc'[x] \in {"start", "done"} /\ buf'[x] = NotRead /\ \A y \in Caller \ {x} : SameFor(y)
        /\ UNCHANGED <<worldVars, history>>
    BY <1>4, CrashMoves
  <2>2. \A y \in Pass \ {x} : Credited(y)'
    BY <1>1, <2>1
  <2>3. x \in Pass => Credited(x)'
    BY <2>1, HeadsAreNumbers DEF Credited, Given, Launching, Appending, NotRead
  <2> QED BY <2>1, <2>2, <2>3 DEF Justified, HandledWasReviewed
<1>5. ASSUME UNCHANGED <<coreVars, history, watchVars, handled>> PROVE Justified'
  BY <1>5 DEF Justified, HandledWasReviewed, Credited
<1> QED BY <1>2, <1>3, <1>4, <1>5, CallersAct, UserStartsKeeps, WorldStepKeeps

LEMMA InitiallyJustified == Init => Justified
<1> SUFFICES ASSUME Init PROVE Justified
  OBVIOUS
<1>1. /\ pc = [x \in Caller |-> "start"] /\ buf = [x \in Caller |-> NotRead]
      /\ \A p \in PR : NotRead[p] \notin Sha
  BY HeadsAreNumbers DEF Init, NotRead
<1>2. \A x \in Pass : Credited(x)
  BY <1>1 DEF Credited, Given, Launching, Appending
<1>3. HandledWasReviewed
  <2>1. CASE handled \in [PR -> {NeverHandled, UnknownHead}]
    BY <2>1, HeadsAreNumbers DEF HandledWasReviewed
  <2>2. CASE OneStaged
    BY <2>2, HeadsAreNumbers DEF OneStaged, HandledWasReviewed
  <2>3. CASE OneDispatched
    BY <2>3, HeadsAreNumbers DEF OneDispatched, HandledWasReviewed
  <2> QED BY <2>1, <2>2, <2>3 DEF Init, NothingStaged
<1> QED BY <1>2, <1>3 DEF Justified

(* However passes overlap, fail and are killed, and whatever the pull      *)
(* requests' authors push meanwhile, no head is recorded as handled that   *)
(* no session was given and no old entry adopted.                          *)
THEOREM HandledHeadsWereReviewed == Spec => []HandledWasReviewed
<1>1. Typed /\ Placed /\ Locked /\ Justified /\ [Next]_vars => Justified'
  <2>1. Typed /\ Placed /\ Locked /\ Justified /\ UNCHANGED vars => Justified'
    BY DEF vars, Justified, HandledWasReviewed, Credited
  <2> QED BY <2>1, NextCredits
<1>2. Justified => HandledWasReviewed
  BY DEF Justified
<1> QED BY <1>1, <1>2, InitiallyJustified, TypesHold, PTL DEF Spec

-----------------------------------------------------------------------------
(***************************************************************************)
(* Which sessions are woken, and how often, whatever goes wrong meanwhile; *)
(* and how many review a pull request, and all of them, when nothing does. *)
(***************************************************************************)

(* What the steps do to sessions, records and wakes.                       *)

(* A session that was born stays where it was born, what it was launched   *)
(* for and what it was dispatched as.                                      *)
BornStay ==
    \A s \in Session :
        /\ row[s] # "unborn" =>
               row'[s] # "unborn" /\ root'[s] = root[s] /\ mapped'[s] = mapped[s] /\ of'[s] = of[s]
        /\ row'[s] = "unborn" => mapped'[s] = mapped[s] /\ of'[s] = of[s]
        /\ row[s] = "unborn" /\ row'[s] # "unborn" => ~mapped'[s]

LEMMA BirthsByCallers ==
    ASSUME Typed, Placed, NEW x \in Caller, Acts(x)
    PROVE  BornStay
<1>0. Typed /\ WorldTypeOK /\ RetaskTypeOK
  BY DEF Typed
<1>1. ASSUME CoreStep(x), UNCHANGED watchVars PROVE BornStay
  <2>1. CASE \/ TakeRetaskLock(x) \/ Classify(x) \/ CheckOptions(x) \/ PreStop(x)
             \/ WaitStopped(x) \/ PreWake(x) \/ FinalReread(x) \/ Wake(x)
             \/ Verify(x) \/ CopiesHandled(x)
             \/ (x \in Pass /\ AppendDelivered(x)) \/ ClearMarker(x) \/ Halt(x)
    BY <2>1, <1>1, <1>0 DEF TakeRetaskLock, TakeLock, Refused, Release, At, Goto,
      Classify, CheckOptions, PreStop, WaitStopped, PreWake, SaveRecord, FinalReread,
      Wake, Verify, CopiesHandled, AppendDelivered, ReadHandled, WriteHandled, Finish,
      ClearMarker, Halt, BornStay
  <2>2. CASE Stop(x)
    <3> DEFINE to == IF row[Worker(x)] \in Running THEN "stopping" ELSE "stopped"
    <3>1. UNCHANGED <<root, mapped, of>>
      BY <2>2 DEF Stop, Refused, ActsOn
    <3>2. CASE Refused(x)
      BY <3>1, <3>2 DEF Refused, BornStay
    <3>3. CASE Listed(Worker(x)) /\ ActsOn(Worker(x), to)
      <4>1. to # "unborn"
        OBVIOUS
      <4>2. row' = [row EXCEPT ![Worker(x)] = to] /\ row[Worker(x)] # "unborn"
        BY <3>3 DEF ActsOn, Listed
      <4> HIDE DEF to
      <4> QED BY <1>0, <3>1, <4>1, <4>2 DEF BornStay, WorldTypeOK
    <3> QED BY <2>2, <3>2, <3>3 DEF Stop
  <2>3. ASSUME NEW c \in Session, StopCopy(x, c) PROVE BornStay
    <3>1. UNCHANGED <<root, mapped, of>> /\ row[c] # "unborn" /\ \E to \in {"stopping", "gone"} : row' = [row EXCEPT ![c] = to]
      BY <2>3 DEF StopCopy, ActsOn, Running
    <3> QED BY <1>0, <3>1 DEF BornStay, WorldTypeOK
  <2>4. ASSUME NEW c \in Session, RemoveCopy(x, c) PROVE BornStay
    <3>1. UNCHANGED <<root, mapped, of>> /\ row[c] # "unborn" /\ \E to \in {"stopping", "gone"} : row' = [row EXCEPT ![c] = to]
      BY <2>4 DEF RemoveCopy, ActsOn, Running
    <3> QED BY <1>0, <3>1 DEF BornStay, WorldTypeOK
  <2>5. ASSUME NEW c \in Session, LeaveCopy(x, c) PROVE BornStay
    BY <2>5, <1>1, <1>0 DEF LeaveCopy, At, Goto, BornStay
  <2> QED BY <1>1, <2>1, <2>2, <2>3, <2>4, <2>5 DEF CoreStep
<1>2. ASSUME x \in Cli, BeginRetask(x) \/ RetaskReturns(x), UNCHANGED watchVars PROVE BornStay
  <2>1. CASE BeginRetask(x)
    BY <2>1, <1>2, <1>0 DEF BeginRetask, At, Goto, BornStay
  <2>2. CASE RetaskReturns(x)
    BY <2>2, <1>2, <1>0 DEF RetaskReturns, Finish, Release, At, Goto, BornStay
  <2> QED BY <1>2, <2>1, <2>2
<1>3. ASSUME x \in Pass, OwnStep(x) PROVE BornStay
  <2>1. CASE \/ PassFails(x) \/ Search(x) \/ PruneOne(x) \/ TakePruneLock(x)
             \/ JudgeRecord(x) \/ ForgetRecord(x) \/ LoadHandled(x)
             \/ MakePlans(x) \/ NextPlan(x) \/ Provision(x) \/ Capture(x)
             \/ RecordReview(x) \/ AppendStaged(x) \/ AppendAdopted(x)
    BY <2>1, <1>3, <1>0 DEF PassFails, PassEnds, Leaves, At, Goto, Search, PruneOne,
      TakePruneLock, TakeLock, JudgeRecord, RemovesPlace, Release, ForgetRecord,
      LoadHandled, MakePlans, NextPlan, Provision, Capture, RecordReview, SaveRecord,
      StageFails, AppendStaged, ReadHandled, WriteHandled, AppendAdopted, BornStay
  <2>2. CASE Launch(x)
    <3>1. \/ UNCHANGED <<row, root, mapped, of>>
          \/ \E s \in Session : row[s] = "unborn" /\ Born(s, Place(x), "starting")
                                /\ of' = [of EXCEPT ![s] = job[x].pr]
      BY <1>0, <1>3, <2>2, LaunchDoes
    <3>2. ASSUME NEW s \in Session, row[s] = "unborn", Born(s, Place(x), "starting"),
                 of' = [of EXCEPT ![s] = job[x].pr]
          PROVE  BornStay
      BY <1>0, <3>2 DEF Born, BornStay, WorldTypeOK, RetaskTypeOK
    <3> QED BY <3>1, <3>2 DEF BornStay
  <2> QED BY <1>3, <2>1, <2>2 DEF OwnStep
<1> QED BY <1>1, <1>2, <1>3 DEF Acts

LEMMA BirthsElsewhere ==
    ASSUME Typed, Placed, (\E x \in Caller : Crash(x)) \/ UserStarts \/ WorldStep
    PROVE  BornStay
<1>0. WorldTypeOK
  BY DEF Typed
<1>1. ASSUME NEW x \in Caller, Crash(x) PROVE BornStay
  BY <1>1 DEF Crash, BornStay
<1>2. ASSUME UserStarts PROVE BornStay
  <2>1. PICK s \in Session, i \in Instance : row[s] = "unborn" /\ Born(s, i, "working") /\ of' = of
    BY <1>2, UserStartsKeeps
  <2> QED BY <1>0, <2>1 DEF Born, BornStay, WorldTypeOK
<1>3. ASSUME WorldStep PROVE BornStay
  <2>1. AgentMoves /\ of' = of
    BY <1>3, WorldStepKeeps
  <2> QED BY <1>0, <2>1 DEF AgentMoves, BornStay, WorldTypeOK, RowState
<1> QED BY <1>1, <1>2, <1>3

(* What a step does to the staged records: none, one is taken away, or it  *)
(* is the worker's own, marked, cleared or new.                            *)
WritesOf(x, h) ==
    \/ staged'[h] = staged[h]
    \/ staged'[h] = NoRecord /\ x \in Pass /\ pc[x] = "forget" /\ h = HandleOf[job[x].pr]
    \/ /\ x \in Pass /\ h = HandleOf[job[x].pr]
       /\ staged'[h] \in Record /\ staged'[h].sess = Worker(x)
       /\ staged'[h].pr = job[x].pr /\ staged'[h].inst = Place(x)
       /\ \/ pc[x] = "prewake" /\ pc'[x] = "reread" /\ staged'[h].halted = job[x].h
          \/ pc[x] \in {"postsave", "postrefused"} /\ pc'[x] = "next" /\ staged'[h].halted = 0
          \/ pc[x] = "record" /\ pc'[x] = "stageread" /\ staged'[h].halted = 0

LEMMA RecordsMove ==
    ASSUME Typed, Placed, NEW x \in Caller, Acts(x)
    PROVE  \A h \in Handle : WritesOf(x, h)
<1>0. /\ Typed /\ Placed /\ Reads(x) /\ pc \in [Caller -> Label] /\ job \in [Caller -> Job]
      /\ staged \in [Handle -> Record \cup {NoRecord}]
  BY DEF Typed, Placed, WorldTypeOK, RetaskTypeOK
<1>1. ASSUME CoreStep(x), UNCHANGED watchVars PROVE \A h \in Handle : WritesOf(x, h)
  <2>1. CASE \/ TakeRetaskLock(x) \/ Classify(x) \/ CheckOptions(x) \/ PreStop(x)
             \/ Stop(x) \/ WaitStopped(x) \/ FinalReread(x) \/ Wake(x)
             \/ Verify(x) \/ CopiesHandled(x)
             \/ (x \in Pass /\ AppendDelivered(x)) \/ Halt(x)
             \/ \E c \in Session : StopCopy(x, c) \/ RemoveCopy(x, c) \/ LeaveCopy(x, c)
    BY <2>1, <1>1, <1>0 DEF TakeRetaskLock, TakeLock, Refused, Release, At, Goto,
      Classify, CheckOptions, PreStop, Stop, ActsOn, WaitStopped, FinalReread, Wake,
      Verify, CopiesHandled, StopCopy, RemoveCopy, LeaveCopy, AppendDelivered,
      ReadHandled, WriteHandled, Finish, Halt, WritesOf
  <2>2. CASE PreWake(x)
    <3>1. /\ x \in Pass /\ pc[x] = "prewake" /\ Reads(x)
          /\ job[x].rec \in Record /\ job[x].rec.sess = Worker(x)
          /\ job[x].rec.pr = job[x].pr /\ job[x].rec.inst = Place(x)
          /\ HandleOf[job[x].pr] \in Handle
      BY <1>0, <2>2, PreWakeDoes, HandlesAreOfPRs DEF Reads, Core, Worker, Place
    <3>2. \/ staged' = staged
          \/ /\ pc'[x] = "reread" /\ job'[x].rec \in Record /\ job'[x].rec.halted = job[x].h
             /\ job'[x].rec.pr = job[x].pr /\ job'[x].rec.inst = Place(x)
             /\ job'[x].rec.sess = Worker(x)
             /\ staged' = [staged EXCEPT ![HandleOf[job[x].pr]] = job'[x].rec]
      BY <1>0, <2>2, <3>1, PreWakeDoes
    <3> QED BY <1>0, <3>1, <3>2 DEF WritesOf
  <2>3. CASE ClearMarker(x)
    <3>1. /\ x \in Pass /\ pc[x] \in {"postsave", "postrefused"}
          /\ job[x].rec \in Record /\ job[x].rec.sess = Worker(x) /\ job[x].h \in Sha
          /\ job[x].rec.pr = job[x].pr /\ job[x].rec.inst = Place(x)
          /\ HandleOf[job[x].pr] \in Handle
      BY <1>0, <2>3, HandlesAreOfPRs DEF ClearMarker, Reads, Core, Worker, Place
    <3> DEFINE b == IF At(x, "postsave") THEN job[x].h ELSE job[x].rec.base
               r == [job[x].rec EXCEPT !.halted = 0, !.base = b]
    <3>2. staged' = staged \/ (pc' = [pc EXCEPT ![x] = "next"] /\ staged' = [staged EXCEPT ![HandleOf[job[x].pr]] = r])
      BY <2>3 DEF ClearMarker, SaveRecord, Finish, Goto
    <3>3. b \in Sha
      BY <3>1, RecordFields
    <3> HIDE DEF b
    <3>4. r \in Record /\ r.sess = Worker(x) /\ r.pr = job[x].pr /\ r.inst = Place(x) /\ r.halted = 0
      <4>1. r \in Record /\ r.sess = job[x].rec.sess /\ r.pr = job[x].rec.pr /\ r.inst = job[x].rec.inst /\ r.halted = 0
        BY <3>1, <3>3, ClearedRecord
      <4> QED BY <3>1, <4>1
    <3> HIDE DEF r
    <3> QED BY <1>0, <3>1, <3>2, <3>4 DEF WritesOf
  <2> QED BY <1>1, <2>1, <2>2, <2>3 DEF CoreStep
<1>2. ASSUME x \in Cli, BeginRetask(x) \/ RetaskReturns(x), UNCHANGED watchVars PROVE \A h \in Handle : WritesOf(x, h)
  <2>1. CASE BeginRetask(x)
    BY <2>1, <1>2, <1>0 DEF BeginRetask, At, Goto, WritesOf
  <2>2. CASE RetaskReturns(x)
    BY <2>2, <1>2, <1>0 DEF RetaskReturns, Finish, Release, At, Goto, WritesOf
  <2> QED BY <1>2, <2>1, <2>2
<1>3. ASSUME x \in Pass, OwnStep(x) PROVE \A h \in Handle : WritesOf(x, h)
  <2>1. CASE \/ PassFails(x) \/ Search(x) \/ PruneOne(x) \/ TakePruneLock(x)
             \/ JudgeRecord(x) \/ ForgetRecord(x) \/ LoadHandled(x)
             \/ MakePlans(x) \/ NextPlan(x) \/ Provision(x) \/ Launch(x)
             \/ Capture(x) \/ AppendStaged(x) \/ AppendAdopted(x)
    BY <2>1, <1>3, <1>0 DEF PassFails, PassEnds, Leaves, At, Goto, Search, PruneOne,
      TakePruneLock, TakeLock, JudgeRecord, RemovesPlace, Release, ForgetRecord,
      LoadHandled, MakePlans, NextPlan, Provision, Launch, Born, Capture, AppendStaged,
      ReadHandled, WriteHandled, StageFails, AppendAdopted, WritesOf
  <2>2. CASE RecordReview(x)
    <3> DEFINE r == [pr |-> job[x].pr, inst |-> Place(x), base |-> job[x].h, sess |-> Worker(x), halted |-> 0]
    <3>1. /\ pc[x] = "record" /\ HandleOf[job[x].pr] \in Handle
          /\ job[x].pr \in PR /\ Place(x) \in Instance /\ job[x].h \in Sha
      BY <1>0, <1>3, <2>2, HandlesAreOfPRs DEF RecordReview, At, Reads, Staging, Launching, Place
    <3>2. staged' = staged \/ (pc' = [pc EXCEPT ![x] = "stageread"] /\ staged' = [staged EXCEPT ![HandleOf[job[x].pr]] = r])
      BY <2>2 DEF RecordReview, SaveRecord, Goto
    <3>3. Worker(x) \in Session \cup {None}
      BY <1>0, JobFields DEF Worker
    <3>4. r \in Record
      BY <3>1, <3>3, RecordsAre
    <3>5. r.sess = Worker(x) /\ r.pr = job[x].pr /\ r.inst = Place(x) /\ r.halted = 0
      OBVIOUS
    <3> HIDE DEF r
    <3> QED BY <1>0, <1>3, <3>1, <3>2, <3>4, <3>5 DEF WritesOf
  <2> QED BY <1>3, <2>1, <2>2 DEF OwnStep
<1> QED BY <1>1, <1>2, <1>3 DEF Acts

(* A wake is sent at one place; and a session is seen to have taken one,   *)
(* when a retask or a pass has.                                            *)
WakesOf(x) ==
    /\ \/ /\ pc[x] = "wake" /\ pc'[x] = "verify" /\ job' = job /\ staged' = staged
          /\ unsure' = unsure \cup {Worker(x)}
          /\ \A s \in Session \ {Worker(x)} : sent'[s] = sent[s]
       \/ sent' = sent /\ unsure' = unsure
       \/ /\ sent' = sent /\ unsure' = unsure \ {Worker(x)}
          /\ \/ pc[x] = "postsave" /\ pc'[x] = "next"
             \/ x \in Cli /\ pc[x] = "postread"
    /\ pc[x] = "postsave" /\ pc'[x] = "next" => Worker(x) \notin unsure'

LEMMA WakesMove ==
    ASSUME Typed, Placed, NEW x \in Caller, Acts(x)
    PROVE  WakesOf(x)
<1>0. /\ Typed /\ Placed /\ Reads(x) /\ pc \in [Caller -> Label] /\ job \in [Caller -> Job]
      /\ sent \in [Session -> [Sha -> 0..2]]
  BY DEF Typed, Placed, RetaskTypeOK
<1>1. ASSUME CoreStep(x), UNCHANGED watchVars PROVE WakesOf(x)
  <2>1. CASE \/ TakeRetaskLock(x) \/ Classify(x) \/ CheckOptions(x) \/ PreStop(x)
             \/ Stop(x) \/ WaitStopped(x) \/ FinalReread(x) \/ Verify(x)
             \/ CopiesHandled(x) \/ (x \in Pass /\ AppendDelivered(x)) \/ Halt(x)
             \/ \E c \in Session : StopCopy(x, c) \/ RemoveCopy(x, c) \/ LeaveCopy(x, c)
    BY <2>1, <1>1, <1>0 DEF TakeRetaskLock, TakeLock, Refused, Release, At, Goto,
      Classify, CheckOptions, PreStop, Stop, ActsOn, WaitStopped, FinalReread, Verify,
      CopiesHandled, StopCopy, RemoveCopy, LeaveCopy, AppendDelivered, ReadHandled,
      WriteHandled, Finish, Halt, WakesOf
  <2>2. CASE PreWake(x)
    <3>1. UNCHANGED <<sent, unsure>> /\ pc[x] = "prewake"
      BY <2>2 DEF PreWake, Refused, At
    <3> QED BY <3>1 DEF WakesOf
  <2>3. CASE Wake(x)
    <3> DEFINE s == Worker(x)
               h == IF x \in Pass THEN job[x].h ELSE 1
    <3>1. sent' = [sent EXCEPT ![s][h] = IF @ < 2 THEN @ + 1 ELSE @]
      BY <2>3 DEF Wake
    <3>2. pc[x] = "wake" /\ pc'[x] = "verify" /\ UNCHANGED <<job, staged>> /\ unsure' = unsure \cup {s}
      BY <1>0, <2>3 DEF Wake, At, Goto
    <3>3. \A t \in Session \ {s} : sent'[t] = sent[t]
      BY <1>0, <3>1
    <3> QED BY <3>2, <3>3 DEF WakesOf
  <2>4. CASE ClearMarker(x)
    <3>1. UNCHANGED <<sent>> /\ pc[x] \in {"postsave", "postrefused"}
      BY <2>4 DEF ClearMarker
    <3>2. \/ /\ pc'[x] = "next"
             /\ unsure' = IF pc[x] = "postsave" THEN unsure \ {Worker(x)} ELSE unsure
          \/ pc'[x] = "failed" /\ unsure' = unsure
      BY <1>0, <2>4 DEF ClearMarker, At, Goto, Finish
    <3> QED BY <3>1, <3>2 DEF WakesOf
  <2> QED BY <1>1, <2>1, <2>2, <2>3, <2>4 DEF CoreStep
<1>2. ASSUME x \in Cli, BeginRetask(x) \/ RetaskReturns(x), UNCHANGED watchVars PROVE WakesOf(x)
  <2>1. CASE BeginRetask(x)
    BY <1>0, <2>1, BeginRetaskDoes DEF BeginRetask, WakesOf
  <2>2. CASE RetaskReturns(x)
    <3>1. /\ sent' = sent /\ pc'[x] = "start"
          /\ unsure' = IF pc[x] = "postread" THEN unsure \ {Worker(x)} ELSE unsure
      BY <1>0, <2>2 DEF RetaskReturns, At, Finish, Goto
    <3> QED BY <1>2, <3>1 DEF WakesOf
  <2> QED BY <1>2, <2>1, <2>2
<1>3. ASSUME x \in Pass, OwnStep(x) PROVE WakesOf(x)
  <2>1. CASE \/ PassFails(x) \/ Search(x) \/ PruneOne(x) \/ TakePruneLock(x)
             \/ JudgeRecord(x) \/ ForgetRecord(x) \/ LoadHandled(x)
             \/ MakePlans(x) \/ NextPlan(x) \/ Provision(x) \/ Launch(x)
             \/ Capture(x) \/ RecordReview(x) \/ AppendStaged(x)
             \/ AppendAdopted(x)
    BY <2>1, <1>3, <1>0 DEF PassFails, PassEnds, Leaves, At, Goto, Search, PruneOne,
      TakePruneLock, TakeLock, JudgeRecord, RemovesPlace, Release, ForgetRecord,
      LoadHandled, MakePlans, NextPlan, Provision, Launch, Born, Capture, RecordReview,
      SaveRecord, StageFails, AppendStaged, ReadHandled, WriteHandled, AppendAdopted,
      WakesOf
  <2> QED BY <1>3, <2>1 DEF OwnStep
<1> QED BY <1>1, <1>2, <1>3 DEF Acts

(* Where a pass goes, and with which record.                               *)
Early == {"lock", "classify", "prestop"}
Unsent == {"stop", "settle", "prewake", "reread", "wake", "postrefused"}
Pending == {"reread", "wake", "verify", "copies", "postread", "postwrite", "postsave",
            "posthalted", "postrefused"}

Continues(x, q) ==
    /\ q \in Plan /\ q.kind = "Continue" /\ pc'[x] = "lock" /\ pc[x] \in {"next", "refused"}
    /\ job'[x].rec = q.rec /\ job'[x].pr = q.pr /\ job'[x].h = head[q.pr]
    /\ job'[x].sess = q.rec.sess /\ job'[x].inst = q.rec.inst

SameJob(x) ==
    /\ job'[x].sess = job[x].sess /\ job'[x].inst = job[x].inst
    /\ job'[x].pr = job[x].pr /\ job'[x].h = job[x].h
    /\ job'[x].rec.sess = job[x].rec.sess /\ job'[x].rec.inst = job[x].rec.inst
    /\ job'[x].rec.pr = job[x].rec.pr
    /\ pc[x] = "prewake" \/ job'[x] = job[x]

PassMoves(x) ==
    /\ pc'[x] \in Core =>
           \/ pc[x] \in Core /\ SameJob(x) /\ pc'[x] # "lock"
           \/ \E q \in plans[x] : Continues(x, q)
    /\ pc'[x] \in Early \ {"lock"} => pc[x] \in Early
    /\ pc'[x] \in Unsent =>
           \/ pc[x] \in Unsent
           \/ pc[x] = "prestop" /\ RecordUnchanged(x) /\ UNCHANGED <<job, staged, unsure>>
    /\ pc'[x] \in Pending => pc[x] \in Pending \/ pc[x] = "prewake"
    /\ pc[x] = "prewake" /\ pc'[x] \in Pending => staged'[HandleOf[job[x].pr]].halted = job[x].h

LEMMA PassesMove ==
    ASSUME Typed, Placed, NEW x \in Pass, Acts(x)
    PROVE  PassMoves(x)
<1>0. Typed /\ Placed /\ pc \in [Caller -> Label] /\ job \in [Caller -> Job]
  BY DEF Typed, Placed, RetaskTypeOK
<1>1. ASSUME CoreStep(x), UNCHANGED watchVars PROVE PassMoves(x)
  <2>1. CASE TakeRetaskLock(x)
    BY <2>1, <1>1, <1>0 DEF TakeRetaskLock, TakeLock, Refused, Release, At, Goto,
      PassMoves, SameJob, Core, Early, Unsent, Pending
  <2>2. CASE Classify(x)
    BY <2>2, <1>1, <1>0 DEF Classify, Refused, Release, At, Goto, PassMoves, SameJob,
      Core, Early, Unsent, Pending
  <2>3. CASE CheckOptions(x)
    BY <2>3, <1>1, <1>0 DEF CheckOptions, Refused, Release, At, Goto, PassMoves,
      SameJob, Core, Early, Unsent, Pending
  <2>4. CASE PreStop(x)
    BY <2>4, <1>1, <1>0 DEF PreStop, Refused, Release, At, Goto, PassMoves, SameJob,
      Core, Early, Unsent, Pending
  <2>5. CASE Stop(x)
    BY <2>5, <1>1, <1>0 DEF Stop, Refused, Release, ActsOn, At, Goto, PassMoves,
      SameJob, Core, Early, Unsent, Pending
  <2>6. CASE WaitStopped(x)
    BY <2>6, <1>1, <1>0 DEF WaitStopped, Refused, Release, At, Goto, PassMoves,
      SameJob, Core, Early, Unsent, Pending
  <2>7. CASE PreWake(x)
    <3>1. /\ HandleOf[job[x].pr] \in Handle /\ Reads(x) /\ pc[x] = "prewake"
          /\ staged \in [Handle -> Record \cup {NoRecord}]
      BY <1>0, <2>7, PreWakeDoes, HandlesAreOfPRs DEF Placed, Reads, Core, Typed, WorldTypeOK
    <3>2. pc'[x] = "reread" => staged'[HandleOf[job[x].pr]].halted = job[x].h
      BY <1>0, <2>7, <3>1, PreWakeDoes
    <3> QED BY <1>0, <2>7, <3>1, <3>2, PreWakeDoes
      DEF PassMoves, SameJob, Core, Early, Unsent, Pending
  <2>8. CASE FinalReread(x)
    BY <2>8, <1>1, <1>0 DEF FinalReread, At, Goto, PassMoves, SameJob, Core, Early,
      Unsent, Pending
  <2>9. CASE Wake(x)
    BY <2>9, <1>1, <1>0 DEF Wake, At, Goto, PassMoves, SameJob, Core, Early, Unsent,
      Pending
  <2>10. CASE Verify(x)
    BY <2>10, <1>1, <1>0 DEF Verify, At, Goto, PassMoves, SameJob, Core, Early, Unsent,
      Pending
  <2>11. CASE CopiesHandled(x)
    BY <2>11, <1>1, <1>0 DEF CopiesHandled, At, Goto, PassMoves, SameJob, Core, Early,
      Unsent, Pending
  <2>12. ASSUME NEW c \in Session, StopCopy(x, c) PROVE PassMoves(x)
    BY <2>12, <1>1, <1>0 DEF StopCopy, ActsOn, At, Goto, PassMoves, SameJob, Core,
      Early, Unsent, Pending
  <2>13. ASSUME NEW c \in Session, RemoveCopy(x, c) PROVE PassMoves(x)
    BY <2>13, <1>1, <1>0 DEF RemoveCopy, ActsOn, At, Goto, PassMoves, SameJob, Core,
      Early, Unsent, Pending
  <2>14. ASSUME NEW c \in Session, LeaveCopy(x, c) PROVE PassMoves(x)
    BY <2>14, <1>1, <1>0 DEF LeaveCopy, At, Goto, PassMoves, SameJob, Core, Early,
      Unsent, Pending
  <2>15. CASE x \in Pass /\ AppendDelivered(x)
    BY <2>15, <1>1, <1>0 DEF AppendDelivered, ReadHandled, WriteHandled, Finish,
      Release, At, Goto, PassMoves, SameJob, Core, Early, Unsent, Pending
  <2>16. CASE ClearMarker(x)
    BY <2>16, <1>1, <1>0 DEF ClearMarker, Finish, Release, SaveRecord, At, Goto,
      PassMoves, SameJob, Core, Early, Unsent, Pending
  <2>17. CASE Halt(x)
    BY <2>17, <1>1, <1>0 DEF Halt, Finish, Release, At, Goto, PassMoves, SameJob, Core,
      Early, Unsent, Pending
  <2> QED BY <1>1, <2>1, <2>2, <2>3, <2>4, <2>5, <2>6, <2>7, <2>8, <2>9, <2>10, <2>11,
      <2>12, <2>13, <2>14, <2>15, <2>16, <2>17 DEF CoreStep
<1>2. ASSUME x \in Cli, BeginRetask(x) \/ RetaskReturns(x), UNCHANGED watchVars PROVE PassMoves(x)
  <2>1. CASE BeginRetask(x)
    BY <2>1, <1>2, <1>0 DEF BeginRetask, At, Goto, PassMoves, SameJob, Core, Early,
      Unsent, Pending
  <2>2. CASE RetaskReturns(x)
    BY <2>2, <1>2, <1>0 DEF RetaskReturns, Finish, Release, At, Goto, PassMoves,
      SameJob, Core, Early, Unsent, Pending
  <2> QED BY <1>2, <2>1, <2>2
<1>3. ASSUME x \in Pass, OwnStep(x) PROVE PassMoves(x)
  <2>1. CASE PassFails(x)
    <3>1. pc'[x] \notin Core
      BY <1>0, <2>1 DEF PassFails, PassEnds, Leaves, At, Goto, Core
    <3> QED BY <3>1 DEF PassMoves, Core, Early, Unsent, Pending
  <2>2. CASE Search(x)
    <3>1. pc'[x] \notin Core
      BY <1>0, <2>2 DEF Search, At, Goto, Core
    <3> QED BY <3>1 DEF PassMoves, Core, Early, Unsent, Pending
  <2>3. CASE PruneOne(x)
    <3>1. pc'[x] \notin Core
      BY <1>0, <2>3, PruneOneDoes DEF Core
    <3> QED BY <3>1 DEF PassMoves, Core, Early, Unsent, Pending
  <2>4. CASE TakePruneLock(x)
    <3>1. pc'[x] \notin Core
      BY <1>0, <2>4 DEF TakePruneLock, TakeLock, Leaves, At, Goto, Core
    <3> QED BY <3>1 DEF PassMoves, Core, Early, Unsent, Pending
  <2>5. CASE JudgeRecord(x)
    <3>1. pc'[x] \notin Core
      BY <1>0, <2>5 DEF JudgeRecord, RemovesPlace, Leaves, Release, At, Goto, Core
    <3> QED BY <3>1 DEF PassMoves, Core, Early, Unsent, Pending
  <2>6. CASE ForgetRecord(x)
    <3>1. pc'[x] \notin Core
      BY <1>0, <2>6 DEF ForgetRecord, Leaves, Release, At, Goto, Core
    <3> QED BY <3>1 DEF PassMoves, Core, Early, Unsent, Pending
  <2>7. CASE LoadHandled(x)
    <3>1. pc'[x] \notin Core
      BY <1>0, <2>7 DEF LoadHandled, At, Goto, Core
    <3> QED BY <3>1 DEF PassMoves, Core, Early, Unsent, Pending
  <2>8. CASE MakePlans(x)
    <3>1. pc'[x] \notin Core
      BY <1>0, <2>8 DEF MakePlans, PassEnds, Leaves, At, Goto, Core
    <3> QED BY <3>1 DEF PassMoves, Core, Early, Unsent, Pending
  <2>9. CASE NextPlan(x)
    <3>1. pc[x] \notin Core /\ (pc'[x] \notin Core \/ (pc'[x] = "lock" /\ \E q \in plans[x] : Continues(x, q)))
      BY <1>0, <2>9, NextPlanDoes DEF PassEnds, Leaves, Goto, Core, Continues
    <3> QED BY <3>1 DEF PassMoves, Core, Early, Unsent, Pending
  <2>10. CASE Provision(x)
    <3>1. pc'[x] \notin Core
      BY <1>0, <2>10, ProvisionDoes DEF Core
    <3> QED BY <3>1 DEF PassMoves, Core, Early, Unsent, Pending
  <2>11. CASE Launch(x)
    <3>1. pc'[x] \notin Core
      BY <1>0, <2>11, LaunchDoes DEF Core
    <3> QED BY <3>1 DEF PassMoves, Core, Early, Unsent, Pending
  <2>12. CASE Capture(x)
    <3>1. pc'[x] \notin Core
      BY <1>0, <2>12, CaptureDoes DEF Core
    <3> QED BY <3>1 DEF PassMoves, Core, Early, Unsent, Pending
  <2>13. CASE RecordReview(x)
    <3>1. pc'[x] \notin Core
      BY <1>0, <2>13 DEF RecordReview, SaveRecord, StageFails, RemovesPlace, At, Goto, Core
    <3> QED BY <3>1 DEF PassMoves, Core, Early, Unsent, Pending
  <2>14. CASE AppendStaged(x)
    <3>1. pc'[x] \notin Core
      BY <1>0, <2>14 DEF AppendStaged, ReadHandled, WriteHandled, Leaves, StageFails, RemovesPlace, At, Goto, Core
    <3> QED BY <3>1 DEF PassMoves, Core, Early, Unsent, Pending
  <2>15. CASE AppendAdopted(x)
    <3>1. pc'[x] \notin Core
      BY <1>0, <2>15 DEF AppendAdopted, ReadHandled, WriteHandled, Leaves, At, Goto, Core
    <3> QED BY <3>1 DEF PassMoves, Core, Early, Unsent, Pending
  <2> QED BY <1>3, <2>1, <2>2, <2>3, <2>4, <2>5, <2>6, <2>7, <2>8, <2>9, <2>10, <2>11,
      <2>12, <2>13, <2>14, <2>15 DEF OwnStep
<1> QED BY <1>1, <1>2, <1>3 DEF Acts

(* A retask begins with a worker that was dispatched.                      *)
LEMMA RetasksMove ==
    ASSUME Typed, Placed, NEW x \in Cli, Acts(x)
    PROVE  pc'[x] \in Core =>
               \/ pc[x] \in Core /\ job'[x] = job[x]
               \/ mapped[job'[x].sess] /\ job'[x].inst = root[job'[x].sess] /\ job'[x].sess \in Session
<1>0. Typed /\ Placed /\ x \in Caller /\ pc \in [Caller -> Label] /\ job \in [Caller -> Job]
  BY DEF Typed, RetaskTypeOK
<1>1. CASE CoreStep(x)
  <2>1. ~PreWake(x)
    BY <1>0, PreWakeDoes
  <2>2. CASE \/ TakeRetaskLock(x) \/ Classify(x) \/ CheckOptions(x) \/ PreStop(x)
             \/ Stop(x) \/ WaitStopped(x) \/ FinalReread(x) \/ Wake(x)
             \/ Verify(x) \/ CopiesHandled(x) \/ ClearMarker(x) \/ Halt(x)
             \/ \E c \in Session : StopCopy(x, c) \/ RemoveCopy(x, c) \/ LeaveCopy(x, c)
    BY <1>0, <2>2 DEF TakeRetaskLock, Refused, Classify, CheckOptions, PreStop, Stop, ActsOn, At,
       WaitStopped, FinalReread, Wake, Verify, CopiesHandled, ClearMarker, Halt, StopCopy,
       RemoveCopy, LeaveCopy, Core
  <2> QED BY <1>1, <2>1, <2>2 DEF CoreStep
<1>2. CASE BeginRetask(x)
  BY <1>0, <1>2, BeginRetaskDoes
<1>3. CASE RetaskReturns(x)
  BY <1>0, <1>3 DEF RetaskReturns, Finish, Goto, Core
<1> QED BY <1>1, <1>2, <1>3 DEF Acts

(* A launch is of a new session; a pass plans what it decides.             *)
LaunchMoves(x) ==
    /\ pc'[x] \in Launching =>
           \/ /\ pc[x] \in Launching /\ job'[x].inst = job[x].inst
              /\ job'[x].pr = job[x].pr /\ job'[x].h = job[x].h
              /\ job'[x].sess = job[x].sess \/ job'[x].sess = None
           \/ /\ pc[x] = "launch" /\ job'[x].inst = job[x].inst
              /\ job'[x].pr = job[x].pr /\ job'[x].h = job[x].h
              /\ \E s \in Session : /\ row[s] = "unborn" /\ job'[x].sess = s
                                    /\ Born(s, Place(x), "starting")
                                    /\ of' = [of EXCEPT ![s] = job[x].pr]
                                    /\ UNCHANGED <<sent, unsure, staged>>
    /\ \A q \in plans'[x] : q \in plans[x] \/ (pc[x] = "decide" /\ pc'[x] = "next" /\ q \in Decide(x))

LEMMA LaunchesMove ==
    ASSUME Typed, Placed, NEW x \in Pass, Acts(x)
    PROVE  LaunchMoves(x)
<1>0. /\ Typed /\ Placed /\ x \in Pass /\ pc \in [Caller -> Label] /\ job \in [Caller -> Job]
      /\ plans \in [Pass -> SUBSET Plan]
  BY DEF Typed, Placed, RetaskTypeOK, WatchTypeOK
<1>1. ASSUME CoreStep(x), UNCHANGED watchVars PROVE LaunchMoves(x)
  <2>1. CASE \/ TakeRetaskLock(x) \/ Classify(x) \/ CheckOptions(x) \/ PreStop(x)
             \/ Stop(x) \/ WaitStopped(x) \/ FinalReread(x) \/ Wake(x)
             \/ Verify(x) \/ CopiesHandled(x)
             \/ (x \in Pass /\ AppendDelivered(x)) \/ ClearMarker(x) \/ Halt(x)
             \/ \E c \in Session : StopCopy(x, c) \/ RemoveCopy(x, c) \/ LeaveCopy(x, c)
    BY <2>1, <1>1, <1>0 DEF TakeRetaskLock, TakeLock, Refused, Release, At, Goto,
      Classify, CheckOptions, PreStop, Stop, ActsOn, WaitStopped, FinalReread, Wake,
      Verify, CopiesHandled, StopCopy, RemoveCopy, LeaveCopy, AppendDelivered,
      ReadHandled, WriteHandled, Finish, ClearMarker, SaveRecord, Halt, LaunchMoves,
      Launching
  <2>2. CASE PreWake(x)
    <3>1. pc'[x] \notin Launching /\ plans' = plans
      BY <1>0, <1>1, <2>2, PreWakeDoes DEF Launching
    <3> QED BY <3>1 DEF LaunchMoves
  <2> QED BY <1>1, <2>1, <2>2 DEF CoreStep
<1>2. ASSUME x \in Cli, BeginRetask(x) \/ RetaskReturns(x), UNCHANGED watchVars PROVE LaunchMoves(x)
  <2>1. CASE BeginRetask(x)
    BY <2>1, <1>2, <1>0 DEF BeginRetask, At, Goto, LaunchMoves, Launching
  <2>2. CASE RetaskReturns(x)
    BY <2>2, <1>2, <1>0 DEF RetaskReturns, Finish, Release, At, Goto, LaunchMoves,
      Launching
  <2> QED BY <1>2, <2>1, <2>2
<1>3. ASSUME x \in Pass, OwnStep(x) PROVE LaunchMoves(x)
  <2>1. CASE PassFails(x)
    BY <2>1, <1>3, <1>0 DEF PassFails, PassEnds, Leaves, At, Goto, LaunchMoves,
      Launching
  <2>2. CASE Search(x)
    BY <2>2, <1>3, <1>0 DEF Search, At, Goto, LaunchMoves, Launching
  <2>3. CASE PruneOne(x)
    <3>1. pc'[x] \notin Launching /\ plans' = plans
      BY <1>0, <2>3, PruneOneDoes DEF PruneOne, Launching
    <3> QED BY <3>1 DEF LaunchMoves
  <2>4. CASE TakePruneLock(x)
    BY <2>4, <1>3, <1>0 DEF TakePruneLock, TakeLock, Leaves, At, Goto, LaunchMoves,
      Launching
  <2>5. CASE JudgeRecord(x)
    BY <2>5, <1>3, <1>0 DEF JudgeRecord, RemovesPlace, Leaves, Release, At, Goto,
      LaunchMoves, Launching
  <2>6. CASE ForgetRecord(x)
    BY <2>6, <1>3, <1>0 DEF ForgetRecord, Leaves, Release, At, Goto, LaunchMoves,
      Launching
  <2>7. CASE LoadHandled(x)
    BY <2>7, <1>3, <1>0 DEF LoadHandled, At, Goto, LaunchMoves, Launching
  <2>8. CASE MakePlans(x)
    <3>1. \/ pc[x] = "decide" /\ pc'[x] = "next" /\ plans'[x] = Decide(x)
          \/ pc'[x] \in {"start", "done"} /\ plans'[x] = {}
      BY <1>0, <2>8 DEF MakePlans, PassEnds, Leaves, Goto, At
    <3> QED BY <3>1 DEF LaunchMoves, Launching
  <2>9. CASE NextPlan(x)
    <3>1. pc'[x] \notin Launching /\ plans'[x] \subseteq plans[x]
      BY <1>0, <2>9, NextPlanDoes DEF PassEnds, Leaves, Goto, Launching
    <3> QED BY <3>1 DEF LaunchMoves
  <2>10. CASE Provision(x)
    <3>1. pc'[x] \notin Launching /\ plans' = plans
      BY <1>0, <2>10, ProvisionDoes DEF Provision, Launching
    <3> QED BY <3>1 DEF LaunchMoves
  <2>11. CASE Launch(x)
    <3>1. plans' = plans /\ staged' = staged
      BY <2>11 DEF Launch
    <3> QED BY <1>0, <1>3, <2>11, <3>1, LaunchDoes DEF LaunchMoves, Launching
  <2>12. CASE Capture(x)
    <3>1. plans' = plans
      BY <2>12 DEF Capture
    <3> QED BY <1>0, <1>3, <2>12, <3>1, CaptureDoes DEF LaunchMoves, Launching
  <2>13. CASE RecordReview(x)
    BY <2>13, <1>3, <1>0 DEF RecordReview, SaveRecord, StageFails, RemovesPlace, At,
      Goto, LaunchMoves, Launching
  <2>14. CASE AppendStaged(x)
    BY <2>14, <1>3, <1>0 DEF AppendStaged, ReadHandled, WriteHandled, Leaves,
      StageFails, RemovesPlace, At, Goto, LaunchMoves, Launching
  <2>15. CASE AppendAdopted(x)
    BY <2>15, <1>3, <1>0 DEF AppendAdopted, ReadHandled, WriteHandled, Leaves, At,
      Goto, LaunchMoves, Launching
  <2> QED BY <1>3, <2>1, <2>2, <2>3, <2>4, <2>5, <2>6, <2>7, <2>8, <2>9, <2>10, <2>11,
      <2>12, <2>13, <2>14, <2>15 DEF OwnStep
<1> QED BY <1>1, <1>2, <1>3 DEF Acts

(* A step of one caller, or its end, as far as sessions and records go.    *)
RetaskMoves(x) ==
    pc'[x] \in Core =>
        \/ pc[x] \in Core /\ job'[x] = job[x]
        \/ mapped[job'[x].sess] /\ job'[x].inst = root[job'[x].sess] /\ job'[x].sess \in Session

StepOf(x) ==
    /\ BornStay
    /\ \A h \in Handle : WritesOf(x, h)
    /\ WakesOf(x)
    /\ x \in Pass => PassMoves(x) /\ LaunchMoves(x)
    /\ x \in Cli => RetaskMoves(x)
    /\ \A y \in Caller \ {x} : SameFor(y)

LEMMA CallersStep ==
    ASSUME Typed, Placed, NEW x \in Caller, Acts(x) \/ Crash(x)
    PROVE  StepOf(x)
<1>1. CASE Acts(x)
  BY <1>1, BirthsByCallers, RecordsMove, WakesMove, PassesMove, LaunchesMove, RetasksMove, OthersStay
     DEF StepOf, RetaskMoves
<1>2. CASE Crash(x)
  <2>1. /\ pc'[x] \in {"start", "done"} /\ UNCHANGED <<worldVars, history>>
        /\ x \in Pass => plans'[x] = {}
        /\ \A y \in Caller \ {x} : SameFor(y)
    BY <1>2, CrashMoves
  <2>2. BornStay
    BY <1>2, BirthsElsewhere
  <2> QED BY <2>1, <2>2 DEF StepOf, WritesOf, WakesOf, PassMoves, LaunchMoves, RetaskMoves,
      Core, Early, Unsent, Pending, Launching
<1> QED BY <1>1, <1>2

-----------------------------------------------------------------------------
(* What is called by a session's id is that session: it is rooted where    *)
(* the record says, it was launched for the record's pull request, and it  *)
(* is no dispatched worker.                                                *)
Names(r) ==
    r.sess # None => /\ row[r.sess] # "unborn" /\ root[r.sess] = r.inst
                     /\ ~mapped[r.sess] /\ of[r.sess] = r.pr

NamesThen(r) ==
    r.sess # None => /\ row'[r.sess] # "unborn" /\ root'[r.sess] = r.inst
                     /\ ~mapped'[r.sess] /\ of'[r.sess] = r.pr

Unwoken(s) == s \notin unsure /\ \A h \in Sha : sent[s][h] = 0

(* A record, a plan or a pass at work names the session.                   *)
Written(s) ==
    \/ \E h \in Handle : staged[h].sess = s
    \/ \E x \in Pass : pc[x] \in Core /\ Worker(x) = s
    \/ \E x \in Pass : \E q \in plans[x] : q.kind = "Continue" /\ q.rec.sess = s

UnwokenThen(s) == s \notin unsure' /\ \A h \in Sha : sent'[s][h] = 0

WrittenThen(s) ==
    \/ \E h \in Handle : staged'[h].sess = s
    \/ \E x \in Pass : pc'[x] \in Core /\ job'[x].sess = s
    \/ \E x \in Pass : \E q \in plans'[x] : q.kind = "Continue" /\ q.rec.sess = s

(* Of a session nobody has met, nothing is known.                          *)
NewAreUnknown ==
    \A s \in Session : /\ row[s] = "unborn" => Unwoken(s) /\ of[s] = 0 /\ ~mapped[s]
                       /\ mapped[s] => of[s] = 0

RecordsName ==
    \A h \in Handle : /\ Names(staged[h])
                      /\ staged[h] # NoRecord => HandleOf[staged[h].pr] = h

PassesName ==
    \A x \in Pass : /\ \A q \in plans[x] : q.kind = "Continue" => Names(q.rec)
                    /\ pc[x] \in Core => Names(job[x].rec)
                    /\ pc[x] \in Launching => Names(job[x])

RetasksName ==
    \A x \in Cli : pc[x] \in Core =>
        row[Worker(x)] # "unborn" /\ root[Worker(x)] = Place(x) /\ mapped[Worker(x)]

(* A pass that launches a session is the only one that knows it.           *)
LaunchesAreNew ==
    \A x \in Pass : pc[x] \in Launching /\ Worker(x) # None =>
        /\ Unwoken(Worker(x)) /\ ~Written(Worker(x))
        /\ \A y \in Pass \ {x} : pc[y] \in Launching => Worker(y) # Worker(x)

Known == NewAreUnknown /\ RecordsName /\ PassesName /\ RetasksName /\ LaunchesAreNew

LEMMA NamesLast ==
    ASSUME BornStay, NEW r, r.sess \in Session \cup {None}, Names(r)
    PROVE  NamesThen(r)
BY DEF BornStay, Names, NamesThen

LEMMA NewStayUnknown ==
    ASSUME Typed, Placed, Known, NEW x \in Caller, StepOf(x)
    PROVE  NewAreUnknown'
<1>0. sent \in [Session -> [Sha -> 0..2]] /\ Reads(x) /\ pc \in [Caller -> Label]
  BY DEF Typed, RetaskTypeOK, Placed
<1>1. BornStay /\ WakesOf(x)
  BY DEF StepOf
<1>2. pc[x] = "wake" => Worker(x) \in Session /\ row[Worker(x)] # "unborn"
  <2>1. CASE x \in Pass
    BY <1>0, <2>1, NumberedNames DEF Known, PassesName, Names, Reads, Core, Worker, NumberedNames
  <2>2. CASE x \in Cli
    BY <1>0, <2>2 DEF Known, RetasksName, Reads, Core
  <2> QED BY <2>1, <2>2
<1>3. ASSUME NEW s \in Session, row'[s] = "unborn"
      PROVE  s \notin unsure' /\ (\A h \in Sha : sent'[s][h] = 0) /\ of'[s] = 0 /\ ~mapped'[s]
  <2>1. row[s] = "unborn" /\ of'[s] = of[s] /\ mapped'[s] = mapped[s]
    BY <1>1, <1>3 DEF BornStay
  <2>2. s \notin unsure /\ (\A h \in Sha : sent[s][h] = 0) /\ of[s] = 0 /\ ~mapped[s]
    BY <2>1 DEF Known, NewAreUnknown, Unwoken
  <2>3. pc[x] = "wake" => s # Worker(x)
    BY <1>2, <2>1
  <2>4. sent'[s] = sent[s] /\ (s \in unsure' => s \in unsure)
    BY <1>1, <2>3 DEF WakesOf
  <2> QED BY <2>1, <2>2, <2>4
<1>4. ASSUME NEW s \in Session, mapped'[s] PROVE of'[s] = 0
  <2>1. row'[s] # "unborn" => row[s] # "unborn" /\ mapped[s] /\ of'[s] = of[s]
    BY <1>1, <1>4 DEF BornStay
  <2> QED BY <1>3, <2>1 DEF Known, NewAreUnknown
<1> QED BY <1>3, <1>4 DEF NewAreUnknown, Unwoken

LEMMA RecordsStillName ==
    ASSUME Typed, Placed, Known, NEW x \in Caller, StepOf(x)
    PROVE  RecordsName'
<1>0. /\ staged \in [Handle -> Record \cup {NoRecord}] /\ Reads(x) /\ job \in [Caller -> Job]
      /\ BornStay
  BY DEF Typed, WorldTypeOK, RetaskTypeOK, Placed, StepOf
<1> SUFFICES ASSUME NEW h \in Handle
             PROVE  /\ NamesThen(staged'[h])
                    /\ staged'[h] # NoRecord => HandleOf[staged'[h].pr] = h
  BY DEF RecordsName, Names, NamesThen
<1>1. WritesOf(x, h)
  BY DEF StepOf
<1>2. CASE staged'[h] = staged[h]
  <2>1. staged[h].sess \in Session \cup {None} /\ Names(staged[h])
    BY <1>0, RecordFields DEF Known, RecordsName
  <2>2. NamesThen(staged[h])
    BY <1>0, <2>1, NamesLast
  <2> QED BY <1>2, <2>2 DEF Known, RecordsName
<1>3. CASE staged'[h] = NoRecord
  BY <1>3, RecordFields DEF NamesThen
<1>4. CASE /\ x \in Pass /\ h = HandleOf[job[x].pr]
           /\ staged'[h] \in Record /\ staged'[h].sess = Worker(x)
           /\ staged'[h].pr = job[x].pr /\ staged'[h].inst = Place(x)
           /\ pc[x] \in {"prewake", "postsave", "postrefused", "record"}
  <2>1. job[x].sess \in Session \cup {None}
    BY <1>0, JobFields
  <2>2. CASE pc[x] \in Core
    <3>1. /\ Names(job[x].rec) /\ job[x].sess = job[x].rec.sess
          /\ job[x].inst = job[x].rec.inst /\ job[x].pr = job[x].rec.pr
      BY <1>0, <1>4, <2>2 DEF Known, PassesName, Reads
    <3>2. NamesThen(job[x].rec)
      BY <1>0, <2>1, <3>1, NamesLast
    <3> QED BY <1>4, <3>1, <3>2 DEF NamesThen, Worker, Place
  <2>3. CASE pc[x] \in Launching
    <3>1. Names(job[x])
      BY <1>4, <2>3 DEF Known, PassesName
    <3>2. NamesThen(job[x])
      BY <1>0, <2>1, <3>1, NamesLast
    <3> QED BY <1>4, <3>2 DEF NamesThen, Worker, Place
  <2> QED BY <1>4, <2>2, <2>3 DEF Core, Launching
<1> QED BY <1>1, <1>2, <1>3, <1>4 DEF WritesOf

(* What a pass decides to continue is a record that is there.              *)
LEMMA PlansAreOfRecords ==
    ASSUME Typed, Placed, NEW x \in Pass, LaunchMoves(x), NEW q \in plans'[x], q.kind = "Continue"
    PROVE  q \in plans[x] \/ \E h \in Handle : staged[h] = q.rec
<1>1. CASE q \in plans[x]
  BY <1>1
<1>2. CASE q \in Decide(x)
  <2>1. req[x] \subseteq PR
    BY DEF Typed, WatchTypeOK
  <2>2. q.pr \in PR /\ DecideKind(x, q.pr) = "Continue" /\ q.rec = ContinuableRecord(q.pr)
    BY <1>2, <2>1, DecidedIs
  <2>3. ContinuableRecord(q.pr) # NoRecord
    BY <2>2, KindIs
  <2> QED BY <2>2, <2>3, ContinuableIs
<1> QED BY <1>1, <1>2 DEF LaunchMoves

LEMMA PassesStillName ==
    ASSUME Typed, Placed, Known, NEW x \in Caller, StepOf(x)
    PROVE  PassesName'
<1>0. /\ job \in [Caller -> Job] /\ plans \in [Pass -> SUBSET Plan] /\ BornStay
      /\ staged \in [Handle -> Record \cup {NoRecord}]
  BY DEF Typed, RetaskTypeOK, WatchTypeOK, WorldTypeOK, StepOf
<1>1. ASSUME NEW y \in Pass, NEW q \in plans[y], q.kind = "Continue" PROVE NamesThen(q.rec)
  <2>1. q.rec.sess \in Session \cup {None} /\ Names(q.rec)
    BY <1>0, <1>1, RecordFields DEF Plan, Known, PassesName
  <2> QED BY <1>0, <2>1, NamesLast
<1>2. ASSUME NEW y \in Pass, pc[y] \in Core PROVE NamesThen(job[y].rec)
  <2>1. job[y].rec.sess \in Session \cup {None} /\ Names(job[y].rec)
    BY <1>0, <1>2, JobFields, RecordFields DEF Known, PassesName
  <2> QED BY <1>0, <2>1, NamesLast
<1>3. ASSUME NEW y \in Pass, pc[y] \in Launching PROVE NamesThen(job[y])
  <2>1. job[y].sess \in Session \cup {None} /\ Names(job[y])
    BY <1>0, <1>3, JobFields DEF Known, PassesName
  <2> QED BY <1>0, <2>1, NamesLast
<1>4. ASSUME NEW y \in Pass \ {x}
      PROVE  /\ \A q \in plans'[y] : q.kind = "Continue" => NamesThen(q.rec)
             /\ pc'[y] \in Core => NamesThen(job'[y].rec)
             /\ pc'[y] \in Launching => NamesThen(job'[y])
  <2>1. pc'[y] = pc[y] /\ job'[y] = job[y] /\ plans'[y] = plans[y]
    BY <1>4 DEF StepOf, SameFor
  <2> QED BY <1>1, <1>2, <1>3, <2>1
<1>5. ASSUME x \in Pass
      PROVE  /\ \A q \in plans'[x] : q.kind = "Continue" => NamesThen(q.rec)
             /\ pc'[x] \in Core => NamesThen(job'[x].rec)
             /\ pc'[x] \in Launching => NamesThen(job'[x])
  <2>0. PassMoves(x) /\ LaunchMoves(x)
    BY <1>5 DEF StepOf
  <2>1. ASSUME NEW q \in plans'[x], q.kind = "Continue" PROVE NamesThen(q.rec)
    <3>1. CASE q \in plans[x]
      BY <1>1, <1>5, <2>1, <3>1
    <3>2. ASSUME NEW h \in Handle, staged[h] = q.rec PROVE NamesThen(q.rec)
      <4>1. staged[h].sess \in Session \cup {None} /\ Names(staged[h])
        BY <1>0, RecordFields DEF Known, RecordsName
      <4>2. NamesThen(staged[h])
        BY <1>0, <4>1, NamesLast
      <4> QED BY <3>2, <4>2
    <3> QED BY <1>5, <2>0, <2>1, <3>1, <3>2, PlansAreOfRecords
  <2>2. ASSUME pc'[x] \in Core PROVE NamesThen(job'[x].rec)
    <3>1. CASE pc[x] \in Core /\ SameJob(x)
      <4>1. NamesThen(job[x].rec)
        BY <1>2, <1>5, <3>1
      <4> QED BY <3>1, <4>1 DEF SameJob, NamesThen
    <3>2. ASSUME NEW q \in plans[x], Continues(x, q) PROVE NamesThen(job'[x].rec)
      BY <1>1, <1>5, <3>2 DEF Continues
    <3> QED BY <2>0, <2>2, <3>1, <3>2 DEF PassMoves
  <2>3. ASSUME pc'[x] \in Launching PROVE NamesThen(job'[x])
    <3>1. CASE /\ pc[x] \in Launching /\ job'[x].inst = job[x].inst
               /\ job'[x].pr = job[x].pr
               /\ job'[x].sess = job[x].sess \/ job'[x].sess = None
      <4>1. NamesThen(job[x])
        BY <1>3, <1>5, <3>1
      <4> QED BY <3>1, <4>1 DEF NamesThen
    <3>2. ASSUME job'[x].inst = job[x].inst, job'[x].pr = job[x].pr,
                 NEW s \in Session, job'[x].sess = s,
                 Born(s, Place(x), "starting"), of' = [of EXCEPT ![s] = job[x].pr]
          PROVE  NamesThen(job'[x])
      <4>1. row'[s] = "starting" /\ root'[s] = job[x].inst /\ mapped'[s] = FALSE /\ of'[s] = job[x].pr
        BY <3>2 DEF Born, Place, Typed, WorldTypeOK, RetaskTypeOK
      <4> QED BY <3>2, <4>1 DEF NamesThen
    <3> QED BY <2>0, <2>3, <3>1, <3>2 DEF LaunchMoves
  <2> QED BY <2>1, <2>2, <2>3
<1> QED BY <1>4, <1>5 DEF PassesName, Names, NamesThen

LEMMA RetasksStillName ==
    ASSUME Typed, Placed, Known, NEW x \in Caller, StepOf(x)
    PROVE  RetasksName'
<1>0. BornStay /\ Rooted
  BY DEF StepOf, Placed
<1>1. ASSUME NEW y \in Cli, pc[y] \in Core
      PROVE  row'[Worker(y)] # "unborn" /\ root'[Worker(y)] = Place(y) /\ mapped'[Worker(y)]
  <2>1. Worker(y) \in Session /\ row[Worker(y)] # "unborn" /\ root[Worker(y)] = Place(y) /\ mapped[Worker(y)]
    BY <1>1 DEF Placed, Reads, Known, RetasksName
  <2> QED BY <1>0, <2>1 DEF BornStay
<1>2. ASSUME NEW y \in Cli \ {x}, pc'[y] \in Core
      PROVE  row'[job'[y].sess] # "unborn" /\ root'[job'[y].sess] = job'[y].inst /\ mapped'[job'[y].sess]
  <2>1. pc'[y] = pc[y] /\ job'[y] = job[y]
    BY <1>2 DEF StepOf, SameFor
  <2> QED BY <1>1, <1>2, <2>1 DEF Worker, Place
<1>3. ASSUME x \in Cli, pc'[x] \in Core
      PROVE  row'[job'[x].sess] # "unborn" /\ root'[job'[x].sess] = job'[x].inst /\ mapped'[job'[x].sess]
  <2>1. CASE pc[x] \in Core /\ job'[x] = job[x]
    BY <1>1, <1>3, <2>1 DEF Worker, Place
  <2>2. CASE mapped[job'[x].sess] /\ job'[x].inst = root[job'[x].sess] /\ job'[x].sess \in Session
    BY <1>0, <2>2 DEF BornStay, Rooted
  <2> QED BY <1>3, <2>1, <2>2 DEF StepOf, RetaskMoves
<1> QED BY <1>2, <1>3 DEF RetasksName, Worker, Place

(* A session gets written about by the pass that has it already, or when   *)
(* its record is first saved.                                              *)
LEMMA WrittenAreBorn ==
    ASSUME Typed, Placed, Known, NEW s \in Session, Written(s)
    PROVE  row[s] # "unborn" /\ ~mapped[s]
<1>0. s # None
  BY NumberedNames DEF NumberedNames
<1>1. ASSUME NEW h \in Handle, staged[h].sess = s PROVE row[s] # "unborn" /\ ~mapped[s]
  BY <1>0, <1>1 DEF Known, RecordsName, Names
<1>2. ASSUME NEW x \in Pass, pc[x] \in Core, Worker(x) = s PROVE row[s] # "unborn" /\ ~mapped[s]
  BY <1>0, <1>2 DEF Known, PassesName, Names, Placed, Reads, Worker
<1>3. ASSUME NEW x \in Pass, NEW q \in plans[x], q.kind = "Continue", q.rec.sess = s
      PROVE  row[s] # "unborn" /\ ~mapped[s]
  BY <1>0, <1>3 DEF Known, PassesName, Names
<1> QED BY <1>1, <1>2, <1>3 DEF Written

LEMMA WritesAreOfKnown ==
    ASSUME Typed, Placed, NEW x \in Caller, StepOf(x), NEW s \in Session, WrittenThen(s)
    PROVE  \/ Written(s)
           \/ x \in Pass /\ pc[x] = "record" /\ pc'[x] = "stageread" /\ Worker(x) = s
<1>0. s # None
  BY NumberedNames DEF NumberedNames
<1>1. ASSUME NEW h \in Handle, staged'[h].sess = s
      PROVE  \/ Written(s)
             \/ x \in Pass /\ pc[x] = "record" /\ pc'[x] = "stageread" /\ Worker(x) = s
  <2>1. WritesOf(x, h)
    BY DEF StepOf
  <2>2. staged'[h] # NoRecord
    BY <1>0, <1>1, RecordFields
  <2>3. staged'[h] = staged[h] => Written(s)
    BY <1>1 DEF Written
  <2>4. CASE x \in Pass /\ staged'[h].sess = Worker(x) /\ pc[x] \in {"prewake", "postsave", "postrefused"}
    BY <1>1, <2>4 DEF Written, Core
  <2> QED BY <1>1, <2>1, <2>2, <2>3, <2>4 DEF WritesOf
<1>2. ASSUME NEW y \in Pass, pc'[y] \in Core, job'[y].sess = s PROVE Written(s)
  <2>1. CASE y # x
    <3>1. pc'[y] = pc[y] /\ job'[y] = job[y]
      BY <2>1 DEF StepOf, SameFor
    <3> QED BY <1>2, <3>1 DEF Written, Worker
  <2>2. CASE y = x
    <3>1. CASE pc[x] \in Core /\ SameJob(x)
      BY <1>2, <2>2, <3>1 DEF Written, Worker, SameJob
    <3>2. ASSUME NEW q \in plans[x], Continues(x, q) PROVE Written(s)
      BY <1>2, <2>2, <3>2 DEF Written, Continues
    <3> QED BY <1>2, <2>2, <3>1, <3>2 DEF StepOf, PassMoves
  <2> QED BY <2>1, <2>2
<1>3. ASSUME NEW y \in Pass, NEW q \in plans'[y], q.kind = "Continue", q.rec.sess = s PROVE Written(s)
  <2>1. CASE q \in plans[y]
    BY <1>3, <2>1 DEF Written
  <2>2. CASE y # x
    <3>1. plans'[y] = plans[y]
      BY <2>2 DEF StepOf, SameFor
    <3> QED BY <2>1, <3>1
  <2>3. CASE y = x
    <3>1. q \in plans[x] \/ \E h \in Handle : staged[h] = q.rec
      BY <1>3, <2>3, PlansAreOfRecords DEF StepOf
    <3> QED BY <1>3, <2>1, <2>3, <3>1 DEF Written
  <2> QED BY <2>2, <2>3
<1>4. \/ \E h \in Handle : staged'[h].sess = s
      \/ \E y \in Pass : pc'[y] \in Core /\ job'[y].sess = s
      \/ \E y \in Pass : \E q \in plans'[y] : q.kind = "Continue" /\ q.rec.sess = s
  BY DEF WrittenThen
<1> QED BY <1>1, <1>2, <1>3, <1>4

(* A wake is of a session that some pass or dispatch knows.                *)
LEMMA WakesAreOfKnown ==
    ASSUME Typed, Placed, Known, NEW x \in Caller, pc[x] = "wake"
    PROVE  /\ Worker(x) \in Session
           /\ x \in Pass => Written(Worker(x)) /\ ~mapped[Worker(x)]
           /\ x \in Cli => mapped[Worker(x)]
<1>1. Worker(x) \in Session /\ pc[x] \in Core
  BY DEF Placed, Reads, Core
<1>2. x \in Pass => Written(Worker(x))
  BY <1>1 DEF Written
<1> QED BY <1>1, <1>2, WrittenAreBorn DEF Known, RetasksName

LEMMA LaunchesStayNew ==
    ASSUME Typed, Placed, Known, NEW x \in Caller, StepOf(x)
    PROVE  LaunchesAreNew'
<1>0. /\ job \in [Caller -> Job] /\ sent \in [Session -> [Sha -> 0..2]] /\ WakesOf(x)
      /\ x \in Pass => LaunchMoves(x)
      /\ \A y \in Caller \ {x} : SameFor(y)
  BY DEF Typed, RetaskTypeOK, StepOf
<1>1. ASSUME NEW y \in Pass, pc[y] \in Launching, job[y].sess # None
      PROVE  /\ job[y].sess \in Session /\ row[job[y].sess] # "unborn" /\ ~mapped[job[y].sess]
             /\ Unwoken(job[y].sess) /\ ~Written(job[y].sess)
             /\ \A z \in Pass \ {y} : pc[z] \in Launching => job[z].sess # job[y].sess
  <2>1. job[y].sess \in Session
    BY <1>0, <1>1, JobFields
  <2> QED BY <1>1, <2>1 DEF Known, LaunchesAreNew, PassesName, Names, Worker
<1>2. ASSUME NEW s \in Session, Unwoken(s), pc[x] = "wake" => s # Worker(x) PROVE UnwokenThen(s)
  BY <1>0, <1>2 DEF Unwoken, UnwokenThen, WakesOf
<1>3. ASSUME NEW y \in Pass \ {x}, pc[y] \in Launching, job[y].sess # None
      PROVE  /\ UnwokenThen(job[y].sess) /\ job'[y].sess = job[y].sess
             /\ ~ \E z \in Pass \ {y} : pc'[z] \in Launching /\ job'[z].sess = job[y].sess
  <2> DEFINE s == job[y].sess
  <2>0. /\ s \in Session /\ row[s] # "unborn" /\ ~mapped[s] /\ Unwoken(s) /\ ~Written(s)
        /\ \A z \in Pass \ {y} : pc[z] \in Launching => job[z].sess # s
    BY <1>1, <1>3
  <2>1. job'[y].sess = s
    BY <1>0, <1>3 DEF SameFor
  <2>2. pc[x] = "wake" => s # Worker(x)
    BY <2>0, WakesAreOfKnown
  <2>3. s \notin unsure' /\ \A h \in Sha : sent'[s][h] = 0
    BY <1>0, <2>0, <2>2 DEF Unwoken, WakesOf
  <2>4. ASSUME NEW z \in Pass \ {y}, pc'[z] \in Launching, job'[z].sess = s PROVE FALSE
    <3>1. CASE z # x
      BY <1>0, <2>0, <2>4, <3>1 DEF SameFor
    <3>2. CASE z = x
      <4>1. CASE pc[x] \in Launching /\ (job'[x].sess = job[x].sess \/ job'[x].sess = None)
        BY <1>3, <2>0, <2>4, <3>2, <4>1
      <4>2. CASE \E s1 \in Session : row[s1] = "unborn" /\ job'[x].sess = s1
        BY <2>0, <2>4, <3>2, <4>2
      <4> QED BY <1>0, <2>4, <3>2, <4>1, <4>2 DEF LaunchMoves
    <3> QED BY <3>1, <3>2
  <2> QED BY <2>1, <2>3, <2>4 DEF UnwokenThen
<1>4. ASSUME NEW y \in Pass \ {x}, pc'[y] \in Launching, job'[y].sess # None
      PROVE  /\ UnwokenThen(job'[y].sess) /\ ~WrittenThen(job'[y].sess)
             /\ \A z \in Pass \ {y} : pc'[z] \in Launching => job'[z].sess # job'[y].sess
  <2>1. pc[y] \in Launching /\ job'[y] = job[y] /\ job[y].sess # None
    BY <1>0, <1>4 DEF SameFor
  <2>2. /\ job[y].sess \in Session /\ ~Written(job[y].sess)
        /\ \A z \in Pass \ {y} : pc[z] \in Launching => job[z].sess # job[y].sess
    BY <1>1, <2>1
  <2>3. ASSUME NEW s \in Session, s = job'[y].sess, WrittenThen(s) PROVE FALSE
    <3>1. x \in Pass /\ pc[x] = "record" /\ Worker(x) = s
      BY <2>1, <2>2, <2>3, WritesAreOfKnown
    <3> QED BY <1>4, <2>1, <2>2, <2>3, <3>1 DEF Launching, Worker
  <2>4. ~WrittenThen(job'[y].sess)
    BY <2>1, <2>2, <2>3
  <2>5. UnwokenThen(job'[y].sess)
    BY <1>3, <2>1
  <2> QED BY <1>3, <2>1, <2>4, <2>5
<1>5. ASSUME x \in Pass, pc'[x] \in Launching, job'[x].sess # None
      PROVE  /\ UnwokenThen(job'[x].sess) /\ ~WrittenThen(job'[x].sess)
             /\ \A z \in Pass \ {x} : pc'[z] \in Launching => job'[z].sess # job'[x].sess
  <2>1. /\ job'[x].sess \in Session /\ Unwoken(job'[x].sess) /\ ~Written(job'[x].sess)
        /\ \A z \in Pass \ {x} : pc[z] \in Launching => job[z].sess # job'[x].sess
        /\ pc[x] \in Launching \cup {"launch"}
    <3>1. CASE pc[x] \in Launching /\ job'[x].sess = job[x].sess
      BY <1>1, <1>5, <3>1
    <3>2. ASSUME pc[x] = "launch", NEW s \in Session, row[s] = "unborn", job'[x].sess = s
          PROVE  /\ Unwoken(s) /\ ~Written(s)
                 /\ \A z \in Pass \ {x} : pc[z] \in Launching => job[z].sess # s
      <4>1. s # None
        BY NumberedNames DEF NumberedNames
      <4> QED BY <1>1, <3>2, <4>1, WrittenAreBorn DEF Known, NewAreUnknown
    <3> QED BY <1>0, <1>5, <3>1, <3>2 DEF LaunchMoves
  <2>2. PICK s \in Session : s = job'[x].sess
    BY <2>1
  <2>3. UnwokenThen(s)
    BY <1>2, <2>1, <2>2 DEF Launching
  <2>4. ~WrittenThen(s)
    <3>1. pc'[x] # "stageread"
      BY <1>5 DEF Launching
    <3> QED BY <2>1, <2>2, <3>1, WritesAreOfKnown
  <2>5. \A z \in Pass \ {x} : pc'[z] \in Launching => job'[z].sess # job'[x].sess
    BY <1>0, <2>1 DEF SameFor
  <2> QED BY <2>2, <2>3, <2>4, <2>5
<1> QED BY <1>4, <1>5 DEF LaunchesAreNew, Unwoken, UnwokenThen, Written, WrittenThen, Worker

LEMMA KnownByCallers ==
    ASSUME Typed, Placed, Known, NEW x \in Caller, StepOf(x)
    PROVE  Known'
BY NewStayUnknown, RecordsStillName, PassesStillName, RetasksStillName, LaunchesStayNew DEF Known

(* What no caller does makes sessions, and names none.                     *)
LEMMA KnownElsewhere ==
    ASSUME Typed, Placed, Known, BornStay, UNCHANGED <<watchFiles, coreVars, history, watchVars>>
    PROVE  Known'
<1>0. /\ job \in [Caller -> Job] /\ plans \in [Pass -> SUBSET Plan]
      /\ staged \in [Handle -> Record \cup {NoRecord}]
  BY DEF Typed, RetaskTypeOK, WatchTypeOK, WorldTypeOK
<1>1. NewAreUnknown'
  BY DEF Known, NewAreUnknown, Unwoken, BornStay
<1>2. RecordsName'
  <2>1. \A h \in Handle : NamesThen(staged[h])
    <3>1. \A h \in Handle : staged[h].sess \in Session \cup {None} /\ Names(staged[h])
      BY <1>0, RecordFields DEF Known, RecordsName
    <3> QED BY <3>1, NamesLast
  <2> QED BY <2>1 DEF Known, RecordsName, Names, NamesThen
<1>3. PassesName'
  <2>1. ASSUME NEW y \in Pass, NEW q \in plans[y], q.kind = "Continue" PROVE NamesThen(q.rec)
    <3>1. q.rec.sess \in Session \cup {None} /\ Names(q.rec)
      BY <1>0, <2>1, RecordFields DEF Plan, Known, PassesName
    <3> QED BY <3>1, NamesLast
  <2>2. ASSUME NEW y \in Pass, pc[y] \in Core PROVE NamesThen(job[y].rec)
    <3>1. job[y].rec.sess \in Session \cup {None} /\ Names(job[y].rec)
      BY <1>0, <2>2, JobFields, RecordFields DEF Known, PassesName
    <3> QED BY <3>1, NamesLast
  <2>3. ASSUME NEW y \in Pass, pc[y] \in Launching PROVE NamesThen(job[y])
    <3>1. job[y].sess \in Session \cup {None} /\ Names(job[y])
      BY <1>0, <2>3, JobFields DEF Known, PassesName
    <3> QED BY <3>1, NamesLast
  <2> QED BY <2>1, <2>2, <2>3 DEF PassesName, Names, NamesThen
<1>4. RetasksName'
  <2>1. \A y \in Cli : pc[y] \in Core => Worker(y) \in Session
    BY DEF Placed, Reads
  <2> QED BY <2>1 DEF Known, RetasksName, BornStay, Worker, Place
<1>5. LaunchesAreNew'
  BY DEF Known, LaunchesAreNew, Unwoken, Written, Worker
<1> QED BY <1>1, <1>2, <1>3, <1>4, <1>5 DEF Known

-----------------------------------------------------------------------------
(* Every record of a session that was sent a wake nobody saw it take is    *)
(* marked; and a pass that is about to stop or wake one was told by an     *)
(* unmarked record that there was no such wake.                            *)
Halted(s) == \A h \in Handle : staged[h].sess = s => staged[h].halted # 0

Marked ==
    /\ \A s \in unsure : Halted(s)
    /\ \A x \in Pass : /\ pc[x] \in Early => job[x].rec.halted = 0
                       /\ pc[x] \in Unsent => Worker(x) \notin unsure
                       /\ pc[x] \in Pending => Halted(Worker(x))

(* Two callers at work under a lock are not at work on one session, and    *)
(* what one of them has just launched no other works on.                   *)
LEMMA WorkersDiffer ==
    ASSUME Typed, Placed, Locked, Known, NEW x \in Caller, NEW y \in Pass \ {x},
           pc[y] \in Core \ {"lock"},
           pc[x] \in (Core \ {"lock"}) \cup {"record"}
    PROVE  Worker(x) # Worker(y)
<1>1. /\ Worker(y) \in Session /\ Worker(y) # None /\ Written(Worker(y))
      /\ root[Worker(y)] = Place(y) /\ ~mapped[Worker(y)] /\ Reads(x) /\ Reads(y)
  BY NumberedNames DEF Placed, Reads, Known, PassesName, Names, Written, Worker, Place, NumberedNames
<1>2. CASE pc[x] = "record"
  <2>1. x \in Pass
    BY <1>1, <1>2 DEF Reads, Core
  <2> QED BY <1>1, <1>2, <2>1 DEF Known, LaunchesAreNew, Launching
<1>3. CASE pc[x] \in Core \ {"lock"} /\ x \in Cli
  BY <1>1, <1>3 DEF Known, RetasksName
<1>4. CASE pc[x] \in Core \ {"lock"} /\ x \in Pass
  <2>1. Worker(x) # None => root[Worker(x)] = Place(x)
    BY <1>1, <1>4 DEF Reads, Known, PassesName, Names, Worker, Place
  <2>2. lock[Place(x)] = x /\ lock[Place(y)] = y
    BY <1>4 DEF Locked, UnderLock
  <2> QED BY <1>1, <2>1, <2>2
<1> QED BY <1>2, <1>3, <1>4

LEMMA OneRecordEach ==
    ASSUME Typed, Placed, Known, NEW x \in Pass, pc[x] \in Core,
           NEW h \in Handle, staged[h].sess = Worker(x)
    PROVE  h = HandleOf[job[x].pr]
<1>1. Worker(x) # None /\ Names(job[x].rec) /\ Reads(x) /\ Names(staged[h])
  BY NumberedNames DEF Placed, Reads, Known, PassesName, RecordsName, NumberedNames
<1>2. staged[h] # NoRecord /\ job[x].sess = job[x].rec.sess /\ job[x].pr = job[x].rec.pr
  BY <1>1, RecordFields DEF Reads, Worker
<1>3. staged[h].pr = job[x].pr
  BY <1>1, <1>2 DEF Names, Worker
<1> QED BY <1>2, <1>3 DEF Known, RecordsName

LEMMA MarkedByCallers ==
    ASSUME Typed, Placed, Locked, Known, Marked, NEW x \in Caller, StepOf(x)
    PROVE  Marked'
<1>0. /\ staged \in [Handle -> Record \cup {NoRecord}] /\ job \in [Caller -> Job]
      /\ unsure \subseteq Session /\ WakesOf(x) /\ (\A h \in Handle : WritesOf(x, h))
      /\ (x \in Pass => PassMoves(x)) /\ (\A y \in Caller \ {x} : SameFor(y))
      /\ Reads(x) /\ 0 \notin Sha
  BY HeadsAreNumbers DEF Typed, WorldTypeOK, RetaskTypeOK, StepOf, Placed
<1>1. \A s \in unsure' : s \in unsure \/ (pc[x] = "wake" /\ s = Worker(x))
  BY <1>0 DEF WakesOf
<1>2. pc[x] \in {"prewake", "wake"} /\ x \in Pass => job[x].h \in Sha
  BY <1>0 DEF Reads, Core
<1>3. ASSUME NEW s \in unsure', NEW h \in Handle, staged'[h].sess = s
      PROVE  staged'[h].halted # 0
  <2>1. s \in Session /\ s # None
    BY <1>0, <1>1, <1>3, WakesAreOfKnown, NumberedNames DEF NumberedNames
  <2>2. staged'[h] # NoRecord
    BY <1>3, <2>1, RecordFields
  <2>3. CASE staged'[h] = staged[h]
    <3>1. CASE s \in unsure
      BY <1>3, <2>3, <3>1 DEF Marked, Halted
    <3>2. CASE pc[x] = "wake" /\ s = Worker(x) /\ x \in Pass
      BY <1>3, <2>3, <3>2 DEF Marked, Halted, Pending
    <3>3. CASE pc[x] = "wake" /\ s = Worker(x) /\ x \in Cli
      <4>1. mapped[s]
        BY <3>3, WakesAreOfKnown
      <4>2. ~mapped[s]
        BY <1>3, <2>1, <2>3 DEF Known, RecordsName, Names
      <4> QED BY <4>1, <4>2
    <3> QED BY <1>1, <1>3, <3>1, <3>2, <3>3
  <2>4. CASE pc[x] = "prewake" /\ staged'[h].halted = job[x].h /\ x \in Pass
    BY <1>0, <1>2, <2>4
  <2>5. CASE x \in Pass /\ pc[x] = "postsave" /\ pc'[x] = "next" /\ staged'[h].sess = Worker(x)
    BY <1>0, <1>3, <2>5 DEF WakesOf
  <2>6. CASE x \in Pass /\ pc[x] = "postrefused" /\ staged'[h].sess = Worker(x)
    BY <1>1, <1>3, <2>6 DEF Marked, Unsent
  <2>7. CASE x \in Pass /\ pc[x] = "record" /\ staged'[h].sess = Worker(x)
    BY <1>1, <1>3, <2>1, <2>7 DEF Known, LaunchesAreNew, Unwoken, Launching
  <2>8. WritesOf(x, h)
    BY <1>0
  <2> QED BY <2>2, <2>3, <2>4, <2>5, <2>6, <2>7, <2>8 DEF WritesOf
<1>4. ASSUME NEW y \in Pass \ {x}
      PROVE  /\ pc'[y] \in Early => job'[y].rec.halted = 0
             /\ pc'[y] \in Unsent => job'[y].sess \notin unsure'
             /\ pc'[y] \in Pending => \A h \in Handle : staged'[h].sess = job'[y].sess => staged'[h].halted # 0
  <2>0. pc'[y] = pc[y] /\ job'[y] = job[y]
    BY <1>0, <1>4 DEF SameFor
  <2>1. pc[y] \in Early => job[y].rec.halted = 0
    BY DEF Marked
  <2>2. ASSUME pc[y] \in Unsent PROVE job[y].sess \notin unsure'
    <3>1. Worker(y) \notin unsure
      BY <2>2 DEF Marked
    <3>2. pc[x] = "wake" => Worker(x) # Worker(y)
      BY <2>2, WorkersDiffer DEF Unsent, Core
    <3> QED BY <1>1, <3>1, <3>2 DEF Worker
  <2>3. ASSUME pc[y] \in Pending, NEW h \in Handle, staged'[h].sess = job[y].sess
        PROVE  staged'[h].halted # 0
    <3>1. Worker(y) \in Session /\ Worker(y) # None
      BY <2>3, NumberedNames DEF Placed, Reads, Pending, Core, NumberedNames
    <3>2. pc[x] \in (Core \ {"lock"}) \cup {"record"} => Worker(x) # Worker(y)
      BY <2>3, WorkersDiffer DEF Pending, Core
    <3>3. staged'[h] = staged[h]
      <4>1. staged'[h] # NoRecord
        BY <2>3, <3>1, RecordFields DEF Worker
      <4>2. WritesOf(x, h)
        BY <1>0
      <4> QED BY <2>3, <3>2, <4>1, <4>2 DEF WritesOf, Core, Worker
    <3>4. Halted(Worker(y))
      BY <2>3 DEF Marked
    <3> QED BY <2>3, <3>3, <3>4 DEF Halted, Worker
  <2> QED BY <2>0, <2>1, <2>2, <2>3
<1>5. ASSUME x \in Pass
      PROVE  /\ pc'[x] \in Early => job'[x].rec.halted = 0
             /\ pc'[x] \in Unsent => job'[x].sess \notin unsure'
             /\ pc'[x] \in Pending => \A h \in Handle : staged'[h].sess = job'[x].sess => staged'[h].halted # 0
  <2>0. PassMoves(x)
    BY <1>0, <1>5
  <2>1. ASSUME pc'[x] \in Early PROVE job'[x].rec.halted = 0
    <3>1. ASSUME NEW q \in plans[x], Continues(x, q) PROVE job'[x].rec.halted = 0
      BY <1>5, <3>1 DEF Continues, Placed, Decided
    <3>2. CASE pc[x] \in Core /\ SameJob(x) /\ pc'[x] # "lock"
      BY <1>5, <2>0, <2>1, <3>2 DEF PassMoves, SameJob, Marked, Early
    <3> QED BY <2>0, <2>1, <3>1, <3>2 DEF PassMoves, Early, Core
  <2>2. ASSUME pc'[x] \in Unsent PROVE job'[x].sess \notin unsure'
    <3>1. unsure' \subseteq unsure
      BY <1>0, <2>2 DEF WakesOf, Unsent
    <3>2. CASE pc[x] \in Unsent
      <4>1. job'[x].sess = job[x].sess
        <5>1. ~ \E q \in plans[x] : Continues(x, q)
          BY <3>2 DEF Continues, Unsent
        <5> QED BY <2>0, <2>2, <5>1 DEF PassMoves, SameJob, Unsent, Core
      <4> QED BY <1>1, <1>5, <3>1, <3>2, <4>1 DEF Marked, Worker
    <3>3. CASE pc[x] = "prestop" /\ RecordUnchanged(x) /\ UNCHANGED <<job, staged, unsure>>
      <4> DEFINE h == HandleOf[job[x].pr]
      <4>1. job[x].rec.halted = 0 /\ job[x].sess = job[x].rec.sess /\ job[x].pr \in PR
        BY <1>0, <1>5, <3>3 DEF Marked, Early, Reads, Core
      <4>2. h \in Handle /\ staged[h].sess = Worker(x) /\ staged[h].halted = 0
        BY <3>3, <4>1, HandlesAreOfPRs DEF RecordUnchanged, Worker
      <4> QED BY <3>3, <4>2 DEF Marked, Halted, Worker
    <3> QED BY <2>0, <2>2, <3>2, <3>3 DEF PassMoves
  <2>3. ASSUME pc'[x] \in Pending, NEW h \in Handle, staged'[h].sess = job'[x].sess
        PROVE  staged'[h].halted # 0
    <3>1. pc[x] \in Pending \cup {"prewake"} /\ pc[x] \in Core
      BY <2>0, <2>3 DEF PassMoves, Pending, Core
    <3>2. job'[x].sess = job[x].sess
      <4>1. ~ \E q \in plans[x] : Continues(x, q)
        BY <3>1 DEF Continues, Core
      <4> QED BY <2>0, <2>3, <4>1 DEF PassMoves, SameJob, Pending, Core
    <3>3. staged'[h] # NoRecord
      <4>1. job[x].sess \in Session /\ job[x].sess # None
        BY <1>0, <3>1, NumberedNames DEF Reads, Worker, NumberedNames
      <4> QED BY <2>3, <3>2, <4>1, RecordFields
    <3>4. CASE staged'[h] = staged[h] /\ pc[x] \in Pending
      BY <1>5, <2>3, <3>2, <3>4 DEF Marked, Halted, Worker
    <3>5. CASE staged'[h] = staged[h] /\ pc[x] = "prewake"
      <4>1. h = HandleOf[job[x].pr]
        BY <1>5, <2>3, <3>1, <3>2, <3>5, OneRecordEach DEF Worker
      <4> QED BY <1>0, <1>2, <1>5, <2>0, <2>3, <3>5, <4>1 DEF PassMoves
    <3>6. CASE pc[x] = "prewake" /\ staged'[h].halted = job[x].h
      BY <1>0, <1>2, <1>5, <3>6
    <3>7. WritesOf(x, h)
      BY <1>0
    <3> QED BY <2>3, <3>1, <3>3, <3>4, <3>5, <3>6, <3>7 DEF WritesOf, Pending
  <2> QED BY <2>1, <2>2, <2>3
<1> QED BY <1>3, <1>4, <1>5 DEF Marked, Halted, Worker

LEMMA NextKeepsMarks ==
    ASSUME Typed, Placed, Locked, Known, Marked, Next
    PROVE  Known' /\ Marked'
<1>1. ASSUME NEW x \in Caller, Acts(x) \/ Crash(x) PROVE Known' /\ Marked'
  BY <1>1, CallersStep, KnownByCallers, MarkedByCallers
<1>2. ASSUME UserStarts \/ WorldStep PROVE Known' /\ Marked'
  <2>1. BornStay /\ UNCHANGED <<watchFiles, coreVars, history, watchVars>>
    BY <1>2, BirthsElsewhere, UserStartsKeeps, WorldStepKeeps
  <2> QED BY <2>1, KnownElsewhere DEF Marked, Halted, Worker
<1> QED BY <1>1, <1>2, CallersAct

LEMMA InitiallyMarked == Init => Known /\ Marked
<1> SUFFICES ASSUME Init PROVE Known /\ Marked
  OBVIOUS
<1>0. Typed /\ Placed
  BY InitialTypes
<1>1. /\ unsure = {} /\ sent = [s \in Session |-> [h \in Sha |-> 0]]
      /\ pc = [x \in Caller |-> "start"] /\ plans = [x \in Pass |-> {}]
  BY DEF Init
<1>2. \A s \in Session : Unwoken(s)
  BY <1>1 DEF Unwoken
<1>3. Min(Session) \in Session /\ Min(PR) \in PR /\ Min(Instance) \in Instance /\ None \notin Session
  BY LeastNames, NumberedNames DEF NumberedNames
<1>4. NewAreUnknown /\ RecordsName
  <2>1. CASE NothingStaged
    BY <1>2, <2>1, RecordFields DEF NothingStaged, NewAreUnknown, RecordsName, Names
  <2>2. CASE OneStaged
    BY <1>2, <1>3, <2>2, RecordFields DEF OneStaged, FirstSession, NewAreUnknown, RecordsName, Names
  <2>3. CASE OneDispatched
    BY <1>2, <1>3, <2>3, RecordFields DEF OneDispatched, FirstSession, NewAreUnknown, RecordsName, Names
  <2> QED BY <2>1, <2>2, <2>3 DEF Init
<1>5. PassesName /\ RetasksName /\ LaunchesAreNew
  BY <1>1 DEF PassesName, RetasksName, LaunchesAreNew, Core, Launching
<1>6. Marked
  BY <1>1 DEF Marked, Early, Unsent, Pending
<1> QED BY <1>4, <1>5, <1>6 DEF Known

LEMMA MarksHold == Spec => [](Known /\ Marked)
<1>1. Typed /\ Placed /\ Locked /\ Known /\ Marked /\ [Next]_vars => (Known /\ Marked)'
  <2>1. ASSUME Typed, Placed, Known, Marked, UNCHANGED vars PROVE (Known /\ Marked)'
    <3>1. BornStay /\ UNCHANGED <<watchFiles, coreVars, history, watchVars>>
      BY <2>1 DEF vars, BornStay
    <3> QED BY <2>1, <3>1, KnownElsewhere DEF Marked, Halted, Worker
  <2> QED BY <2>1, NextKeepsMarks
<1> QED BY <1>1, InitiallyMarked, TypesHold, PTL DEF Spec

(* No pass wakes a session that was sent a wake nobody saw it take,        *)
(* whatever was killed, failed or overlapped since: the marker is in every *)
(* record of it before the wake goes out, and is cleared by none but the   *)
(* pass that knows.                                                        *)
THEOREM HaltedStaysUnwoken == Spec => HaltedIsNotWoken
<1> DEFINE A == \A x \in Pass : Wake(x) => Worker(x) \notin unsure
<1>1. Marked => A
  BY DEF Marked, Wake, At, Unsent
<1>2. Known /\ Marked /\ [Next]_vars => [A]_vars
  BY <1>1
<1> QED BY <1>2, MarksHold, PTL DEF Spec, HaltedIsNotWoken, A

-----------------------------------------------------------------------------
(* How heads are handled.  A pass that is about something - from a plan's  *)
(* beginning to its end - and where it has sent a prompt.                  *)
Doing == Core \cup Staging \cup Adopting
After == {"verify", "copies", "postread", "postwrite", "postsave"}
Writing == {"postwrite", "stagewrite", "adoptwrite"}

HeadMoves(x) ==
    /\ mishaps \subseteq mishaps' /\ head' = head
    /\ pc[x] \in {"start", "done"} =>
           "overlap" \in mishaps' \/ (pc'[x] = "prune" /\ \A y \in Pass \ {x} : Idle(y))
    /\ \/ handled' = handled
       \/ /\ \/ pc[x] = "postwrite" /\ pc'[x] = "postsave"
             \/ pc[x] \in {"stagewrite", "adoptwrite"} /\ pc'[x] = "next"
          /\ handled' = [buf[x] EXCEPT ![job[x].pr] = job[x].h]
    /\ pc'[x] = "decide" => known'[x] = handled'
    /\ pc'[x] \in Writing => buf'[x] = handled'
    /\ pc'[x] = "postsave" =>
           /\ pc[x] = "postwrite"
           /\ buf[x][job[x].pr] = job[x].h \/ handled' = [buf[x] EXCEPT ![job[x].pr] = job[x].h]
    /\ pc'[x] \in After => pc[x] \in After \cup {"wake"}

PlanMoves(x) ==
    /\ pc'[x] \in Doing =>
           \/ /\ pc[x] \in Doing \ {"postsave"} /\ plans'[x] = plans[x]
              /\ job'[x].pr = job[x].pr /\ job'[x].h = job[x].h
              /\ pc[x] \in Writing => pc'[x] = "postsave"
           \/ /\ pc[x] \in {"next", "refused"}
              /\ \E q \in plans[x] :
                     /\ plans'[x] = plans[x] \ {q} /\ job'[x].pr = q.pr
                     /\ job'[x].h = head[q.pr] \/ (q.kind = "Adopt" /\ job'[x].h = q.h)
    /\ pc'[x] \in {"next", "refused"} =>
           \/ pc[x] \in Doing \cup {"next", "refused"} /\ plans'[x] \subseteq plans[x]
           \/ pc[x] = "decide" /\ plans'[x] = Decide(x)

(* The head a pass's prompt is about is the one it was sent.               *)
Prompts(x) ==
    \/ sent' = sent
    \/ /\ pc[x] = "wake"
       /\ \A h \in Sha : /\ h # job[x].h => sent'[Worker(x)][h] = sent[Worker(x)][h]
                         /\ sent'[Worker(x)][h] <= sent[Worker(x)][h] + 1

LEMMA HeadsMove ==
    ASSUME Typed, Placed, NEW x \in Pass, Acts(x)
    PROVE  HeadMoves(x)
<1>0. /\ Typed /\ Placed /\ x \in Caller /\ pc \in [Caller -> Label] /\ job \in [Caller -> Job]
      /\ buf \in [Caller -> [PR -> {NeverHandled, UnknownHead} \cup Sha]]
      /\ known \in [Pass -> [PR -> {NeverHandled, UnknownHead} \cup Sha]]
      /\ plans \in [Pass -> SUBSET Plan]
  BY DEF Typed, Placed, RetaskTypeOK, WatchTypeOK
<1>1. ASSUME CoreStep(x), UNCHANGED watchVars PROVE HeadMoves(x)
  <2>1. CASE TakeRetaskLock(x)
    BY <2>1, <1>1, <1>0 DEF TakeRetaskLock, TakeLock, Refused, Release, At, Goto,
      HeadMoves, Writing, After
  <2>2. CASE Classify(x)
    BY <2>2, <1>1, <1>0 DEF Classify, Refused, Release, At, Goto, HeadMoves, Writing,
      After
  <2>3. CASE CheckOptions(x)
    BY <2>3, <1>1, <1>0 DEF CheckOptions, Refused, Release, At, Goto, HeadMoves,
      Writing, After
  <2>4. CASE PreStop(x)
    BY <2>4, <1>1, <1>0 DEF PreStop, Refused, Release, At, Goto, HeadMoves, Writing,
      After
  <2>5. CASE Stop(x)
    BY <2>5, <1>1, <1>0 DEF Stop, Refused, Release, ActsOn, At, Goto, HeadMoves,
      Writing, After
  <2>6. CASE WaitStopped(x)
    BY <2>6, <1>1, <1>0 DEF WaitStopped, Refused, Release, At, Goto, HeadMoves,
      Writing, After
  <2>7. CASE PreWake(x)
    <3>1. /\ UNCHANGED <<handled, head>> /\ mishaps \subseteq mishaps'
          /\ pc[x] \notin {"start", "done", "postwrite"}
          /\ pc'[x] \notin {"decide"} \cup Writing \cup After
      BY <1>0, <1>1, <2>7, PreWakeDoes DEF PreWake, PassEnds, Leaves, Goto, RemovesPlace, Refused, SaveRecord, Writing, After
    <3> QED BY <3>1 DEF HeadMoves, Writing, After
  <2>8. CASE FinalReread(x)
    BY <2>8, <1>1, <1>0 DEF FinalReread, At, Goto, HeadMoves, Writing, After
  <2>9. CASE Wake(x)
    BY <2>9, <1>1, <1>0 DEF Wake, At, Goto, HeadMoves, Writing, After
  <2>10. CASE Verify(x)
    BY <2>10, <1>1, <1>0 DEF Verify, At, Goto, HeadMoves, Writing, After
  <2>11. CASE CopiesHandled(x)
    BY <2>11, <1>1, <1>0 DEF CopiesHandled, At, Goto, HeadMoves, Writing, After
  <2>12. ASSUME NEW c \in Session, StopCopy(x, c) PROVE HeadMoves(x)
    BY <2>12, <1>1, <1>0 DEF StopCopy, ActsOn, At, Goto, HeadMoves, Writing, After
  <2>13. ASSUME NEW c \in Session, RemoveCopy(x, c) PROVE HeadMoves(x)
    BY <2>13, <1>1, <1>0 DEF RemoveCopy, ActsOn, At, Goto, HeadMoves, Writing, After
  <2>14. ASSUME NEW c \in Session, LeaveCopy(x, c) PROVE HeadMoves(x)
    BY <2>14, <1>1, <1>0 DEF LeaveCopy, At, Goto, HeadMoves, Writing, After
  <2>15. CASE x \in Pass /\ AppendDelivered(x)
    <3> DEFINE H == [buf[x] EXCEPT ![job[x].pr] = job[x].h]
    <3>1. UNCHANGED head /\ mishaps \subseteq mishaps'
      BY <1>1, <2>15 DEF AppendDelivered, ReadHandled, StageFails, RemovesPlace
    <3>2. \/ /\ pc[x] = "postread" /\ pc'[x] = "postwrite" /\ buf'[x] = handled /\ handled' = handled
          \/ /\ pc[x] = "postwrite" /\ pc'[x] \in {"failed"} /\ handled' = handled
          \/ /\ pc[x] = "postwrite" /\ pc'[x] = "postsave"
             /\ handled' = IF buf[x][job[x].pr] = job[x].h THEN handled ELSE H
      BY <1>0, <1>1, <2>15 DEF AppendDelivered, ReadHandled, WriteHandled, Finish, StageFails, Leaves, At, Goto
    <3> HIDE DEF H
    <3> QED BY <3>1, <3>2 DEF HeadMoves, Writing, After, H
  <2>16. CASE ClearMarker(x)
    BY <2>16, <1>1, <1>0 DEF ClearMarker, Finish, Release, SaveRecord, At, Goto,
      HeadMoves, Writing, After
  <2>17. CASE Halt(x)
    BY <2>17, <1>1, <1>0 DEF Halt, Finish, Release, At, Goto, HeadMoves, Writing, After
  <2> QED BY <1>1, <2>1, <2>2, <2>3, <2>4, <2>5, <2>6, <2>7, <2>8, <2>9, <2>10, <2>11,
      <2>12, <2>13, <2>14, <2>15, <2>16, <2>17 DEF CoreStep
<1>2. ASSUME x \in Cli, BeginRetask(x) \/ RetaskReturns(x), UNCHANGED watchVars PROVE HeadMoves(x)
  <2>1. CASE BeginRetask(x)
    BY <2>1, <1>2, <1>0 DEF BeginRetask, At, Goto, HeadMoves, Writing, After
  <2>2. CASE RetaskReturns(x)
    BY <2>2, <1>2, <1>0 DEF RetaskReturns, Finish, Release, At, Goto, HeadMoves,
      Writing, After
  <2> QED BY <1>2, <2>1, <2>2
<1>3. ASSUME x \in Pass, OwnStep(x) PROVE HeadMoves(x)
  <2>1. CASE PassFails(x)
    BY <2>1, <1>3, <1>0 DEF PassFails, PassEnds, Leaves, At, Goto, HeadMoves, Writing,
      After
  <2>2. CASE Search(x)
    <3>1. /\ UNCHANGED <<handled, head>> /\ pc[x] = "start" /\ pc'[x] = "prune"
          /\ mishaps' = IF \A y \in Pass \ {x} : Idle(y) THEN mishaps ELSE mishaps \cup {"overlap"}
      BY <1>0, <2>2 DEF Search, At, Goto
    <3> QED BY <3>1 DEF HeadMoves, Writing, After
  <2>3. CASE PruneOne(x)
    <3>1. /\ UNCHANGED <<handled, head>> /\ mishaps \subseteq mishaps'
          /\ pc[x] \notin {"start", "done", "postwrite"}
          /\ pc'[x] \notin {"decide"} \cup Writing \cup After
      BY <1>0, <1>3, <2>3, PruneOneDoes DEF PruneOne, PassEnds, Leaves, Goto, RemovesPlace, Refused, SaveRecord, Writing, After
    <3> QED BY <3>1 DEF HeadMoves, Writing, After
  <2>4. CASE TakePruneLock(x)
    BY <2>4, <1>3, <1>0 DEF TakePruneLock, TakeLock, Leaves, At, Goto, HeadMoves,
      Writing, After
  <2>5. CASE JudgeRecord(x)
    BY <2>5, <1>3, <1>0 DEF JudgeRecord, RemovesPlace, Leaves, Release, At, Goto,
      HeadMoves, Writing, After
  <2>6. CASE ForgetRecord(x)
    BY <2>6, <1>3, <1>0 DEF ForgetRecord, Leaves, Release, At, Goto, HeadMoves,
      Writing, After
  <2>7. CASE LoadHandled(x)
    BY <2>7, <1>3, <1>0 DEF LoadHandled, At, Goto, HeadMoves, Writing, After
  <2>8. CASE MakePlans(x)
    BY <2>8, <1>3, <1>0 DEF MakePlans, PassEnds, Leaves, At, Goto, HeadMoves, Writing,
      After
  <2>9. CASE NextPlan(x)
    <3>1. UNCHANGED <<handled, head>>
      BY <2>9 DEF NextPlan
    <3>2. pc[x] \in {"next", "refused"} /\ mishaps' = mishaps
      BY <1>0, <2>9, NextPlanDoes DEF PassEnds
    <3>3. pc'[x] \notin {"decide"} \cup Writing \cup After
      <4>1. CASE PassEnds(x)
        BY <1>0, <4>1 DEF PassEnds, Leaves, Goto, Writing, After
      <4> QED BY <1>0, <2>9, <4>1, NextPlanDoes DEF Writing, After
    <3> QED BY <3>1, <3>2, <3>3 DEF HeadMoves, Writing, After
  <2>10. CASE Provision(x)
    <3>1. /\ UNCHANGED <<handled, head>> /\ mishaps \subseteq mishaps'
          /\ pc[x] \notin {"start", "done", "postwrite"}
          /\ pc'[x] \notin {"decide"} \cup Writing \cup After
      BY <1>0, <1>3, <2>10, ProvisionDoes DEF Provision, PassEnds, Leaves, Goto, RemovesPlace, Refused, SaveRecord, Writing, After
    <3> QED BY <3>1 DEF HeadMoves, Writing, After
  <2>11. CASE Launch(x)
    <3>1. /\ UNCHANGED <<handled, head>> /\ mishaps \subseteq mishaps'
          /\ pc[x] \notin {"start", "done", "postwrite"}
          /\ pc'[x] \notin {"decide"} \cup Writing \cup After
      BY <1>0, <1>3, <2>11, LaunchDoes DEF Launch, PassEnds, Leaves, Goto, RemovesPlace, Refused, SaveRecord, Writing, After
    <3> QED BY <3>1 DEF HeadMoves, Writing, After
  <2>12. CASE Capture(x)
    <3>1. /\ UNCHANGED <<handled, head>> /\ mishaps \subseteq mishaps'
          /\ pc[x] \notin {"start", "done", "postwrite"}
          /\ pc'[x] \notin {"decide"} \cup Writing \cup After
      BY <1>0, <1>3, <2>12, CaptureDoes DEF Capture, PassEnds, Leaves, Goto, RemovesPlace, Refused, SaveRecord, Writing, After
    <3> QED BY <3>1 DEF HeadMoves, Writing, After
  <2>13. CASE RecordReview(x)
    BY <2>13, <1>3, <1>0 DEF RecordReview, SaveRecord, StageFails, RemovesPlace, At,
      Goto, HeadMoves, Writing, After
  <2>14. CASE AppendStaged(x)
    <3> DEFINE H == [buf[x] EXCEPT ![job[x].pr] = job[x].h]
    <3>1. UNCHANGED head /\ mishaps \subseteq mishaps'
      BY <1>3, <2>14 DEF AppendStaged, ReadHandled, StageFails, RemovesPlace
    <3>2. \/ /\ pc[x] = "stageread" /\ pc'[x] = "stagewrite" /\ buf'[x] = handled /\ handled' = handled
          \/ /\ pc[x] = "stagewrite" /\ pc'[x] \in {"failed"} /\ handled' = handled
          \/ /\ pc[x] = "stagewrite" /\ pc'[x] = "next"
             /\ handled' = IF buf[x][job[x].pr] = job[x].h THEN handled ELSE H
      BY <1>0, <1>3, <2>14 DEF AppendStaged, ReadHandled, WriteHandled, Finish, StageFails, Leaves, At, Goto
    <3> HIDE DEF H
    <3> QED BY <3>1, <3>2 DEF HeadMoves, Writing, After, H
  <2>15. CASE AppendAdopted(x)
    <3> DEFINE H == [buf[x] EXCEPT ![job[x].pr] = job[x].h]
    <3>1. UNCHANGED head /\ mishaps \subseteq mishaps'
      BY <1>3, <2>15 DEF AppendAdopted, ReadHandled, StageFails, RemovesPlace
    <3>2. \/ /\ pc[x] = "adoptread" /\ pc'[x] = "adoptwrite" /\ buf'[x] = handled /\ handled' = handled
          \/ /\ pc[x] = "adoptwrite" /\ pc'[x] \in {"failed"} /\ handled' = handled
          \/ /\ pc[x] = "adoptwrite" /\ pc'[x] = "next"
             /\ handled' = IF buf[x][job[x].pr] = job[x].h THEN handled ELSE H
      BY <1>0, <1>3, <2>15 DEF AppendAdopted, ReadHandled, WriteHandled, Finish, StageFails, Leaves, At, Goto
    <3> HIDE DEF H
    <3> QED BY <3>1, <3>2 DEF HeadMoves, Writing, After, H
  <2> QED BY <1>3, <2>1, <2>2, <2>3, <2>4, <2>5, <2>6, <2>7, <2>8, <2>9, <2>10, <2>11,
      <2>12, <2>13, <2>14, <2>15 DEF OwnStep
<1> QED BY <1>1, <1>2, <1>3 DEF Acts

LEMMA PlansMove ==
    ASSUME Typed, Placed, NEW x \in Pass, Acts(x)
    PROVE  PlanMoves(x)
<1>0. /\ Typed /\ Placed /\ x \in Caller /\ pc \in [Caller -> Label] /\ job \in [Caller -> Job]
      /\ buf \in [Caller -> [PR -> {NeverHandled, UnknownHead} \cup Sha]]
      /\ known \in [Pass -> [PR -> {NeverHandled, UnknownHead} \cup Sha]]
      /\ plans \in [Pass -> SUBSET Plan]
  BY DEF Typed, Placed, RetaskTypeOK, WatchTypeOK
<1>1. ASSUME CoreStep(x), UNCHANGED watchVars PROVE PlanMoves(x)
  <2>1. CASE TakeRetaskLock(x)
    BY <2>1, <1>1, <1>0 DEF TakeRetaskLock, TakeLock, Refused, Release, At, Goto,
      PlanMoves, Writing, After, Core, Staging, Launching, Appending, Adopting, Doing
  <2>2. CASE Classify(x)
    BY <2>2, <1>1, <1>0 DEF Classify, Refused, Release, At, Goto, PlanMoves, Writing,
      After, Core, Staging, Launching, Appending, Adopting, Doing
  <2>3. CASE CheckOptions(x)
    BY <2>3, <1>1, <1>0 DEF CheckOptions, Refused, Release, At, Goto, PlanMoves,
      Writing, After, Core, Staging, Launching, Appending, Adopting, Doing
  <2>4. CASE PreStop(x)
    BY <2>4, <1>1, <1>0 DEF PreStop, Refused, Release, At, Goto, PlanMoves, Writing,
      After, Core, Staging, Launching, Appending, Adopting, Doing
  <2>5. CASE Stop(x)
    BY <2>5, <1>1, <1>0 DEF Stop, Refused, Release, ActsOn, At, Goto, PlanMoves,
      Writing, After, Core, Staging, Launching, Appending, Adopting, Doing
  <2>6. CASE WaitStopped(x)
    BY <2>6, <1>1, <1>0 DEF WaitStopped, Refused, Release, At, Goto, PlanMoves,
      Writing, After, Core, Staging, Launching, Appending, Adopting, Doing
  <2>7. CASE PreWake(x)
    <3>1. plans' = plans
      BY <1>1
    <3> QED BY <1>0, <2>7, <3>1, PreWakeDoes DEF PlanMoves, Writing, After, Core, Staging, Launching, Appending, Adopting, Doing
  <2>8. CASE FinalReread(x)
    BY <2>8, <1>1, <1>0 DEF FinalReread, At, Goto, PlanMoves, Writing, After, Core,
      Staging, Launching, Appending, Adopting, Doing
  <2>9. CASE Wake(x)
    BY <2>9, <1>1, <1>0 DEF Wake, At, Goto, PlanMoves, Writing, After, Core, Staging,
      Launching, Appending, Adopting, Doing
  <2>10. CASE Verify(x)
    BY <2>10, <1>1, <1>0 DEF Verify, At, Goto, PlanMoves, Writing, After, Core,
      Staging, Launching, Appending, Adopting, Doing
  <2>11. CASE CopiesHandled(x)
    BY <2>11, <1>1, <1>0 DEF CopiesHandled, At, Goto, PlanMoves, Writing, After, Core,
      Staging, Launching, Appending, Adopting, Doing
  <2>12. ASSUME NEW c \in Session, StopCopy(x, c) PROVE PlanMoves(x)
    BY <2>12, <1>1, <1>0 DEF StopCopy, ActsOn, At, Goto, PlanMoves, Writing, After,
      Core, Staging, Launching, Appending, Adopting, Doing
  <2>13. ASSUME NEW c \in Session, RemoveCopy(x, c) PROVE PlanMoves(x)
    BY <2>13, <1>1, <1>0 DEF RemoveCopy, ActsOn, At, Goto, PlanMoves, Writing, After,
      Core, Staging, Launching, Appending, Adopting, Doing
  <2>14. ASSUME NEW c \in Session, LeaveCopy(x, c) PROVE PlanMoves(x)
    BY <2>14, <1>1, <1>0 DEF LeaveCopy, At, Goto, PlanMoves, Writing, After, Core,
      Staging, Launching, Appending, Adopting, Doing
  <2>15. CASE x \in Pass /\ AppendDelivered(x)
    BY <2>15, <1>1, <1>0 DEF AppendDelivered, ReadHandled, WriteHandled, Finish,
      Release, At, Goto, PlanMoves, Writing, After, Core, Staging, Launching,
      Appending, Adopting, Doing
  <2>16. CASE ClearMarker(x)
    BY <2>16, <1>1, <1>0 DEF ClearMarker, Finish, Release, SaveRecord, At, Goto,
      PlanMoves, Writing, After, Core, Staging, Launching, Appending, Adopting, Doing
  <2>17. CASE Halt(x)
    BY <2>17, <1>1, <1>0 DEF Halt, Finish, Release, At, Goto, PlanMoves, Writing,
      After, Core, Staging, Launching, Appending, Adopting, Doing
  <2> QED BY <1>1, <2>1, <2>2, <2>3, <2>4, <2>5, <2>6, <2>7, <2>8, <2>9, <2>10, <2>11,
      <2>12, <2>13, <2>14, <2>15, <2>16, <2>17 DEF CoreStep
<1>2. ASSUME x \in Cli, BeginRetask(x) \/ RetaskReturns(x), UNCHANGED watchVars PROVE PlanMoves(x)
  <2>1. CASE BeginRetask(x)
    BY <2>1, <1>2, <1>0 DEF BeginRetask, At, Goto, PlanMoves, Writing, After, Core,
      Staging, Launching, Appending, Adopting, Doing
  <2>2. CASE RetaskReturns(x)
    BY <2>2, <1>2, <1>0 DEF RetaskReturns, Finish, Release, At, Goto, PlanMoves,
      Writing, After, Core, Staging, Launching, Appending, Adopting, Doing
  <2> QED BY <1>2, <2>1, <2>2
<1>3. ASSUME x \in Pass, OwnStep(x) PROVE PlanMoves(x)
  <2>1. CASE PassFails(x)
    BY <2>1, <1>3, <1>0 DEF PassFails, PassEnds, Leaves, At, Goto, PlanMoves, Writing,
      After, Core, Staging, Launching, Appending, Adopting, Doing
  <2>2. CASE Search(x)
    BY <2>2, <1>3, <1>0 DEF Search, At, Goto, PlanMoves, Writing, After, Core, Staging,
      Launching, Appending, Adopting, Doing
  <2>3. CASE PruneOne(x)
    <3>1. plans' = plans
      BY <2>3 DEF PruneOne
    <3> QED BY <1>0, <2>3, <3>1, PruneOneDoes DEF PlanMoves, Writing, After, Core, Staging, Launching, Appending, Adopting, Doing
  <2>4. CASE TakePruneLock(x)
    BY <2>4, <1>3, <1>0 DEF TakePruneLock, TakeLock, Leaves, At, Goto, PlanMoves,
      Writing, After, Core, Staging, Launching, Appending, Adopting, Doing
  <2>5. CASE JudgeRecord(x)
    BY <2>5, <1>3, <1>0 DEF JudgeRecord, RemovesPlace, Leaves, Release, At, Goto,
      PlanMoves, Writing, After, Core, Staging, Launching, Appending, Adopting, Doing
  <2>6. CASE ForgetRecord(x)
    BY <2>6, <1>3, <1>0 DEF ForgetRecord, Leaves, Release, At, Goto, PlanMoves,
      Writing, After, Core, Staging, Launching, Appending, Adopting, Doing
  <2>7. CASE LoadHandled(x)
    BY <2>7, <1>3, <1>0 DEF LoadHandled, At, Goto, PlanMoves, Writing, After, Core,
      Staging, Launching, Appending, Adopting, Doing
  <2>8. CASE MakePlans(x)
    <3>1. \/ pc[x] = "decide" /\ pc'[x] = "next" /\ plans'[x] = Decide(x)
          \/ pc'[x] \in {"start", "done"}
      BY <1>0, <2>8 DEF MakePlans, PassEnds, Leaves, Goto, At
    <3> QED BY <3>1 DEF PlanMoves, Writing, After, Core, Staging, Launching, Appending, Adopting, Doing
  <2>9. CASE NextPlan(x)
    <3>1. pc[x] \in {"next", "refused"}
      BY <1>0, <2>9, NextPlanDoes
    <3>2. CASE PassEnds(x)
      BY <1>0, <3>2 DEF PassEnds, Leaves, Goto, PlanMoves, Writing, After, Core, Staging, Launching, Appending, Adopting, Doing
    <3>3. ASSUME NEW q \in plans[x], plans' = [plans EXCEPT ![x] = @ \ {q}]
          PROVE  plans'[x] = plans[x] \ {q}
      BY <1>0, <3>3
    <3> QED BY <1>0, <2>9, <3>1, <3>2, <3>3, NextPlanDoes DEF PlanMoves, Writing, After, Core, Staging, Launching, Appending, Adopting, Doing
  <2>10. CASE Provision(x)
    <3>1. plans' = plans
      BY <2>10 DEF Provision
    <3> QED BY <1>0, <2>10, <3>1, ProvisionDoes DEF PlanMoves, Writing, After, Core, Staging, Launching, Appending, Adopting, Doing
  <2>11. CASE Launch(x)
    <3>1. plans' = plans
      BY <2>11 DEF Launch
    <3> QED BY <1>0, <2>11, <3>1, LaunchDoes DEF PlanMoves, Writing, After, Core, Staging, Launching, Appending, Adopting, Doing
  <2>12. CASE Capture(x)
    <3>1. plans' = plans
      BY <2>12 DEF Capture
    <3> QED BY <1>0, <2>12, <3>1, CaptureDoes DEF PlanMoves, Writing, After, Core, Staging, Launching, Appending, Adopting, Doing
  <2>13. CASE RecordReview(x)
    BY <2>13, <1>3, <1>0 DEF RecordReview, SaveRecord, StageFails, RemovesPlace, At,
      Goto, PlanMoves, Writing, After, Core, Staging, Launching, Appending, Adopting,
      Doing
  <2>14. CASE AppendStaged(x)
    BY <2>14, <1>3, <1>0 DEF AppendStaged, ReadHandled, WriteHandled, Leaves,
      StageFails, RemovesPlace, At, Goto, PlanMoves, Writing, After, Core, Staging,
      Launching, Appending, Adopting, Doing
  <2>15. CASE AppendAdopted(x)
    BY <2>15, <1>3, <1>0 DEF AppendAdopted, ReadHandled, WriteHandled, Leaves, At,
      Goto, PlanMoves, Writing, After, Core, Staging, Launching, Appending, Adopting,
      Doing
  <2> QED BY <1>3, <2>1, <2>2, <2>3, <2>4, <2>5, <2>6, <2>7, <2>8, <2>9, <2>10, <2>11,
      <2>12, <2>13, <2>14, <2>15 DEF OwnStep
<1> QED BY <1>1, <1>2, <1>3 DEF Acts

LEMMA PromptsMove ==
    ASSUME Typed, Placed, NEW x \in Pass, Acts(x)
    PROVE  Prompts(x)
<1>1. ASSUME CoreStep(x), UNCHANGED watchVars PROVE Prompts(x)
  <2>1. CASE \/ TakeRetaskLock(x) \/ Classify(x) \/ CheckOptions(x) \/ PreStop(x)
             \/ Stop(x) \/ WaitStopped(x) \/ PreWake(x) \/ FinalReread(x)
             \/ Verify(x) \/ CopiesHandled(x)
             \/ (x \in Pass /\ AppendDelivered(x)) \/ ClearMarker(x) \/ Halt(x)
             \/ \E c \in Session : StopCopy(x, c) \/ RemoveCopy(x, c) \/ LeaveCopy(x, c)
    BY <2>1, <1>1 DEF TakeRetaskLock, TakeLock, Refused, Release, At, Goto, Classify,
      CheckOptions, PreStop, Stop, ActsOn, WaitStopped, PreWake, SaveRecord,
      FinalReread, Verify, CopiesHandled, StopCopy, RemoveCopy, LeaveCopy,
      AppendDelivered, ReadHandled, WriteHandled, Finish, ClearMarker, Halt, Prompts
  <2>2. CASE Wake(x)
    <3> DEFINE s == Worker(x)
    <3>1. pc[x] = "wake" /\ sent' = [sent EXCEPT ![s][job[x].h] = IF @ < 2 THEN @ + 1 ELSE @]
      BY <2>2 DEF Wake, At
    <3>2. s \in Session /\ sent \in [Session -> [Sha -> 0..2]] /\ \A h \in Sha : sent[s][h] \in 0..2
      BY <3>1 DEF Typed, RetaskTypeOK, Placed, Reads, Core
    <3> HIDE DEF s
    <3>3. \A h \in Sha : /\ h # job[x].h => sent'[s][h] = sent[s][h]
                         /\ sent'[s][h] <= sent[s][h] + 1
      BY <3>1, <3>2
    <3> QED BY <3>1, <3>3 DEF Prompts, s
  <2> QED BY <1>1, <2>1, <2>2 DEF CoreStep
<1>2. ASSUME x \in Cli, BeginRetask(x) \/ RetaskReturns(x), UNCHANGED watchVars PROVE Prompts(x)
  <2>1. CASE BeginRetask(x)
    BY <2>1, <1>2 DEF BeginRetask, At, Goto, Prompts
  <2>2. CASE RetaskReturns(x)
    BY <2>2, <1>2 DEF RetaskReturns, Finish, Release, At, Goto, Prompts
  <2> QED BY <1>2, <2>1, <2>2
<1>3. ASSUME x \in Pass, OwnStep(x) PROVE Prompts(x)
  <2>1. CASE \/ PassFails(x) \/ Search(x) \/ PruneOne(x) \/ TakePruneLock(x)
             \/ JudgeRecord(x) \/ ForgetRecord(x) \/ LoadHandled(x)
             \/ MakePlans(x) \/ NextPlan(x) \/ Provision(x) \/ Launch(x)
             \/ Capture(x) \/ RecordReview(x) \/ AppendStaged(x)
             \/ AppendAdopted(x)
    BY <2>1, <1>3 DEF PassFails, PassEnds, Leaves, At, Goto, Search, PruneOne,
      TakePruneLock, TakeLock, JudgeRecord, RemovesPlace, Release, ForgetRecord,
      LoadHandled, MakePlans, NextPlan, Provision, Launch, Born, Capture, RecordReview,
      SaveRecord, StageFails, AppendStaged, ReadHandled, WriteHandled, AppendAdopted,
      Prompts
  <2> QED BY <1>3, <2>1 DEF OwnStep
<1> QED BY <1>1, <1>2, <1>3 DEF Acts

(* As long as no pass began while another was at work: there is one; no    *)
(* head is recorded that the pull request has not got to; what the pass    *)
(* decided from, and what it is about to write back, is what is recorded;  *)
(* what it is about is a head that is not handled yet, and is not one it   *)
(* has another plan for.                                                   *)
OnePass == \A x, y \in Pass : x = y \/ Idle(x) \/ Idle(y)

HeadsAhead == \A p \in PR : handled[p] <= head[p]

Planned(x) ==
    /\ \A q, r \in plans[x] : q.pr = r.pr => q = r
    /\ \A q \in plans[x] : /\ handled[q.pr] < head[q.pr]
                           /\ q.kind = "Adopt" => handled[q.pr] < q.h /\ q.h <= head[q.pr]

Current(x) ==
    /\ pc[x] = "decide" => known[x] = handled
    /\ pc[x] \in Writing => buf[x] = handled
    /\ pc[x] \in Doing => job[x].h <= head[job[x].pr] /\ \A q \in plans[x] : q.pr # job[x].pr
    /\ pc[x] \in Doing \ {"postsave"} => handled[job[x].pr] < job[x].h
    /\ pc[x] = "postsave" => handled[job[x].pr] = job[x].h
    /\ pc[x] \in Doing \cup {"next", "refused"} => Planned(x)

(* A review was sent no head twice, and one that is sure to have taken     *)
(* what it was sent was sent no head above the one recorded, or above the  *)
(* one its pass is about to record.                                        *)
Prompted ==
    /\ \A s \in Session, h \in Sha : of[s] # 0 =>
           /\ sent[s][h] <= 1
           /\ sent[s][h] > 0 /\ s \notin unsure => h <= handled[of[s]]
    /\ \A x \in Pass, h \in Sha : pc[x] \in After /\ sent[Worker(x)][h] > 0 => h <= job[x].h

Alone == OnePass /\ HeadsAhead /\ (\A x \in Pass : Current(x)) /\ Prompted

AloneInv == "overlap" \notin mishaps => Alone

LEMMA HeadsCompare ==
    ASSUME Typed, Placed
    PROVE  /\ \A p \in PR : head[p] \in Nat \ {0} /\ handled[p] \in Int /\ handled[p] \in {-1, 0} \cup Sha
           /\ Sha \subseteq Nat \ {0}
           /\ \A x \in Pass : \A q \in plans[x] : q \in Plan /\ q.pr \in PR /\ (q.kind = "Adopt" => q.h \in Sha)
           /\ \A x \in Pass : pc[x] \in Doing => job[x].pr \in PR /\ job[x].h \in Sha
<1>1. /\ head \in [PR -> Sha] /\ handled \in [PR -> {-1, 0} \cup Sha] /\ Sha \subseteq Nat \ {0}
      /\ plans \in [Pass -> SUBSET Plan]
  BY HeadsAreNumbers DEF Typed, WorldTypeOK, WatchTypeOK, NeverHandled, UnknownHead
<1>2. \A p \in PR : head[p] \in Nat \ {0} /\ handled[p] \in {-1, 0} \cup Sha
  BY <1>1
<1>3. \A p \in PR : handled[p] \in Int
  <2>1. \A n \in {-1, 0} \cup Sha : n \in Int
    <3>1. \A n \in Sha : n \in Nat
      BY <1>1
    <3> QED BY <3>1
  <2> QED BY <1>2, <2>1
<1>4. \A x \in Pass : \A q \in plans[x] : q \in Plan /\ q.pr \in PR /\ (q.kind = "Adopt" => q.h \in Sha)
  BY <1>1 DEF Plan, Placed, Decided
<1>5. \A x \in Pass : pc[x] \in Doing => job[x].pr \in PR /\ job[x].h \in Sha
  BY DEF Placed, Reads, Doing
<1> QED BY <1>1, <1>2, <1>3, <1>4, <1>5

(* What is decided from what is recorded is not handled yet.               *)
LEMMA PlansAreNews ==
    ASSUME Typed, Placed, HeadsAhead, NEW x \in Pass, known[x] = handled
    PROVE  /\ \A q, r \in Decide(x) : q.pr = r.pr => q = r
           /\ \A q \in Decide(x) :
                 /\ q.pr \in PR /\ handled[q.pr] < head[q.pr]
                 /\ q.kind = "Adopt" => handled[q.pr] < q.h /\ q.h <= head[q.pr]
<1>0. req[x] \subseteq PR
  BY DEF Typed, WatchTypeOK
<1>1. ASSUME NEW q \in Decide(x), NEW r \in Decide(x), q.pr = r.pr PROVE q = r
  BY <1>0, <1>1, DecidedIs
<1>2. ASSUME NEW q \in Decide(x)
      PROVE  /\ q.pr \in PR /\ handled[q.pr] < head[q.pr]
             /\ q.kind = "Adopt" => handled[q.pr] < q.h /\ q.h <= head[q.pr]
  <2>1. /\ q.pr \in PR /\ q.kind \in Kind /\ q.kind = DecideKind(x, q.pr)
        /\ q.kind = "Adopt" => q.h = head[q.pr]
    BY <1>0, DecidedIs
  <2>2. /\ head[q.pr] \in Nat \ {0} /\ handled[q.pr] \in Int /\ handled[q.pr] <= head[q.pr]
    BY <2>1, HeadsCompare DEF HeadsAhead
  <2>3. handled[q.pr] # head[q.pr]
    BY <2>1, <2>2, KindIs DEF Kind, NeverHandled, UnknownHead
  <2> QED BY <2>1, <2>2, <2>3
<1> QED BY <1>1, <1>2

(* What a pass records is above what was recorded.                         *)
LEMMA HeadsGrow ==
    ASSUME Typed, Placed, Alone, NEW x \in Pass, HeadMoves(x)
    PROVE  /\ \/ handled' = handled
              \/ /\ pc[x] \in Writing /\ pc'[x] \in {"postsave", "next"}
                 /\ handled' = [handled EXCEPT ![job[x].pr] = job[x].h]
           /\ \A p \in PR : handled[p] <= handled'[p] /\ handled'[p] <= head[p]
           /\ pc'[x] = "postsave" => handled'[job[x].pr] = job[x].h
<1>0. /\ handled \in [PR -> {NeverHandled, UnknownHead} \cup Sha]
      /\ \A p \in PR : handled[p] \in Int /\ head[p] \in Nat /\ handled[p] <= head[p]
  BY HeadsCompare DEF Typed, WorldTypeOK, Alone, HeadsAhead
<1>1. pc[x] \in Writing =>
          /\ buf[x] = handled /\ job[x].pr \in PR /\ job[x].h \in Nat
          /\ handled[job[x].pr] < job[x].h /\ job[x].h <= head[job[x].pr]
  BY HeadsCompare DEF Alone, Current, Writing, Doing, Core, Staging, Appending, Adopting
<1>2. CASE handled' = handled
  <2>1. pc'[x] = "postsave" => pc[x] \in Writing /\ handled'[job[x].pr] = job[x].h
    <3>1. ASSUME pc'[x] = "postsave" PROVE handled'[job[x].pr] = job[x].h /\ pc[x] \in Writing
      <4>1. pc[x] \in Writing
        BY <3>1 DEF HeadMoves, Writing
      <4> QED BY <1>0, <1>1, <3>1, <4>1 DEF HeadMoves
    <3> QED BY <3>1
  <2> QED BY <1>0, <1>2, <2>1
<1>3. CASE /\ pc[x] \in Writing /\ pc'[x] \in {"postsave", "next"}
           /\ handled' = [buf[x] EXCEPT ![job[x].pr] = job[x].h]
  <2> DEFINE p0 == job[x].pr
             h0 == job[x].h
  <2>1. /\ handled' = [handled EXCEPT ![p0] = h0] /\ p0 \in PR
        /\ handled[p0] < h0 /\ h0 <= head[p0] /\ h0 \in Nat
    BY <1>1, <1>3
  <2> HIDE DEF p0, h0
  <2>2. handled'[p0] = h0 /\ \A p \in PR \ {p0} : handled'[p] = handled[p]
    BY <1>0, <2>1
  <2>3. ASSUME NEW p \in PR PROVE handled[p] <= handled'[p] /\ handled'[p] <= head[p]
    <3>1. CASE p = p0
      BY <1>0, <2>1, <2>2, <3>1
    <3>2. CASE p # p0
      BY <1>0, <2>2, <3>2
    <3> QED BY <3>1, <3>2
  <2> QED BY <1>3, <2>1, <2>2, <2>3 DEF p0, h0
<1> QED BY <1>2, <1>3 DEF HeadMoves, Writing

LEMMA CurrentStays ==
    ASSUME Typed, Placed, Alone, NEW x \in Pass, HeadMoves(x), PlanMoves(x), Typed', Placed'
    PROVE  Current(x)'
<1>0. /\ \A p \in PR : head[p] \in Nat /\ handled[p] \in Int
      /\ \A q \in plans[x] : q.pr \in PR /\ (q.kind = "Adopt" => q.h \in Nat)
      /\ pc[x] \in Doing => job[x].pr \in PR /\ job[x].h \in Nat
      /\ head' = head /\ Current(x) /\ HeadsAhead
      /\ handled \in [PR -> {NeverHandled, UnknownHead} \cup Sha]
  BY HeadsCompare DEF HeadMoves, Alone, Typed, WorldTypeOK
<1>1. /\ \/ handled' = handled
         \/ /\ pc[x] \in Writing /\ pc'[x] \in {"postsave", "next"}
            /\ handled' = [handled EXCEPT ![job[x].pr] = job[x].h]
      /\ pc'[x] = "postsave" => pc[x] = "postwrite" /\ handled'[job[x].pr] = job[x].h
  BY HeadsGrow DEF HeadMoves
<1>2. /\ pc'[x] = "decide" => known'[x] = handled'
      /\ pc'[x] \in Writing => buf'[x] = handled'
  BY DEF HeadMoves
<1>3. pc[x] \in Writing => pc[x] \in Doing
  BY DEF Writing, Doing, Core, Staging, Appending, Adopting
<1>4. ASSUME pc[x] \in Doing, plans'[x] \subseteq plans[x]
      PROVE  Planned(x)'
  <2>1. Planned(x) /\ \A q \in plans[x] : q.pr # job[x].pr
    BY <1>0, <1>4 DEF Current
  <2>2. \A q \in plans[x] : handled'[q.pr] = handled[q.pr]
    BY <1>0, <1>1, <2>1
  <2> QED BY <1>0, <1>4, <2>1, <2>2 DEF Planned
<1>5. ASSUME pc[x] \in {"next", "refused"}, plans'[x] \subseteq plans[x]
      PROVE  Planned(x)' /\ handled' = handled
  <2>1. Planned(x) /\ handled' = handled
    BY <1>0, <1>1, <1>5 DEF Current, Writing
  <2> QED BY <1>0, <1>5, <2>1 DEF Planned
<1>6. ASSUME pc'[x] \in Doing
      PROVE  /\ job'[x].h <= head'[job'[x].pr] /\ \A q \in plans'[x] : q.pr # job'[x].pr
             /\ pc'[x] # "postsave" => handled'[job'[x].pr] < job'[x].h
             /\ pc'[x] = "postsave" => handled'[job'[x].pr] = job'[x].h
             /\ Planned(x)'
  <2>1. CASE /\ pc[x] \in Doing \ {"postsave"} /\ plans'[x] = plans[x]
             /\ job'[x].pr = job[x].pr /\ job'[x].h = job[x].h
             /\ pc[x] \in Writing => pc'[x] = "postsave"
    <3>1. Planned(x)'
      BY <1>4, <2>1
    <3>2. job[x].h <= head[job[x].pr] /\ (\A q \in plans[x] : q.pr # job[x].pr) /\ handled[job[x].pr] < job[x].h
      BY <1>0, <2>1 DEF Current
    <3> QED BY <1>0, <1>1, <2>1, <3>1, <3>2
  <2>2. ASSUME pc[x] \in {"next", "refused"}, NEW q \in plans[x],
               plans'[x] = plans[x] \ {q}, job'[x].pr = q.pr,
               job'[x].h = head[q.pr] \/ (q.kind = "Adopt" /\ job'[x].h = q.h)
        PROVE  /\ job'[x].h <= head'[job'[x].pr] /\ \A r \in plans'[x] : r.pr # job'[x].pr
               /\ handled'[job'[x].pr] < job'[x].h
               /\ pc'[x] # "postsave" /\ Planned(x)'
    <3>1. Planned(x)' /\ handled' = handled /\ Planned(x)
      BY <1>0, <1>5, <2>2 DEF Current
    <3>2. pc'[x] # "postsave"
      BY <1>1, <2>2
    <3>3. \A r \in plans'[x] : r.pr # q.pr
      BY <2>2, <3>1 DEF Planned
    <3>4. handled[q.pr] < job'[x].h /\ job'[x].h <= head[q.pr]
      BY <1>0, <2>2, <3>1 DEF Planned
    <3> QED BY <1>0, <2>2, <3>1, <3>2, <3>3, <3>4
  <2> QED BY <1>6, <2>1, <2>2 DEF PlanMoves
<1>7. ASSUME pc'[x] \in {"next", "refused"} PROVE Planned(x)'
  <2>1. CASE pc[x] = "decide" /\ plans'[x] = Decide(x)
    <3>1. handled' = handled /\ known[x] = handled
      BY <1>0, <1>1, <2>1 DEF Current, Writing
    <3> QED BY <1>0, <2>1, <3>1, PlansAreNews DEF Planned
  <2> QED BY <1>4, <1>5, <1>7, <2>1 DEF PlanMoves
<1> QED BY <1>2, <1>6, <1>7 DEF Current, Doing, Core

LEMMA OnePassStays ==
    ASSUME Typed, Alone, NEW x \in Pass, HeadMoves(x), "overlap" \notin mishaps',
           \A y \in Caller \ {x} : SameFor(y)
    PROVE  OnePass'
<1>1. \A y \in Pass \ {x} : pc'[y] = pc[y]
  BY DEF SameFor
<1>2. Idle(x) => \/ pc'[x] \in {"start", "done"}
                 \/ \A y \in Pass \ {x} : Idle(y)
  BY DEF HeadMoves, Idle
<1> QED BY <1>1, <1>2 DEF Alone, OnePass, Idle

(* Another pass is idle, or this one begins.                               *)
LEMMA OthersStayCurrent ==
    ASSUME Typed, Placed, Alone, NEW x \in Pass, HeadMoves(x),
           \A y \in Caller \ {x} : SameFor(y)
    PROVE  \A y \in Pass \ {x} : Current(y)'
<1> TAKE y \in Pass \ {x}
<1>0. SameFor(y) /\ Current(y)
  BY DEF Alone
<1>1. CASE Idle(y)
  BY <1>0, <1>1 DEF Idle, SameFor, Current, Writing, Doing, Core, Staging, Launching, Appending, Adopting
<1>2. CASE Idle(x)
  <2>1. handled' = handled /\ head' = head
    BY <1>2 DEF HeadMoves, Idle
  <2> QED BY <1>0, <2>1 DEF SameFor, Current, Planned
<1> QED BY <1>1, <1>2 DEF Alone, OnePass

(* The session a pass is at work on is the one launched for its pull       *)
(* request; a retask's was launched for none.                              *)
LEMMA WorkersAreFor ==
    ASSUME Typed, Placed, Known, NEW x \in Caller, pc[x] \in Core
    PROVE  /\ Worker(x) \in Session /\ row[Worker(x)] # "unborn"
           /\ x \in Pass => of[Worker(x)] = job[x].pr /\ job[x].pr \in PR /\ ~mapped[Worker(x)]
           /\ x \in Cli => of[Worker(x)] = 0 /\ mapped[Worker(x)]
<1>1. Reads(x) /\ Worker(x) \in Session /\ Worker(x) # None
  BY NumberedNames DEF Placed, Reads, NumberedNames
<1>2. CASE x \in Pass
  <2>1. Names(job[x].rec) /\ job[x].sess = job[x].rec.sess /\ job[x].pr = job[x].rec.pr /\ job[x].pr \in PR
    BY <1>1, <1>2 DEF Known, PassesName, Reads
  <2> QED BY <1>1, <1>2, <2>1 DEF Names, Worker
<1>3. CASE x \in Cli
  BY <1>1, <1>3 DEF Known, RetasksName, NewAreUnknown
<1> QED BY <1>2, <1>3

LEMMA PromptedStays ==
    ASSUME Typed, Placed, Known, Marked, Alone, NEW x \in Caller, StepOf(x),
           x \in Pass => HeadMoves(x) /\ Prompts(x),
           x \in Cli => handled' = handled
    PROVE  Prompted'
<1>0. /\ sent \in [Session -> [Sha -> 0..2]] /\ of \in [Session -> PR \cup {0}]
      /\ Prompted /\ WakesOf(x) /\ BornStay /\ 0 \notin PR
      /\ \A y \in Caller \ {x} : SameFor(y)
      /\ \A h \in Sha : h \in Nat
      /\ \A p \in PR : handled[p] \in Int
  BY HeadsCompare, NamesAreNumbers DEF Typed, RetaskTypeOK, Alone, StepOf
<1>1. \A p \in PR : handled[p] <= handled'[p] /\ handled'[p] \in Int
  <2>1. CASE x \in Pass
    <3>1. \A p \in PR : handled'[p] <= head[p] /\ handled[p] <= handled'[p]
      BY <2>1, HeadsGrow
    <3>2. \A p \in PR : handled'[p] \in Int
      <4>1. CASE handled' = handled
        BY <1>0, <4>1
      <4>2. CASE pc[x] \in Writing /\ handled' = [handled EXCEPT ![job[x].pr] = job[x].h]
        <5>1. job[x].h \in Int /\ handled \in [PR -> {NeverHandled, UnknownHead} \cup Sha]
          BY <1>0, <2>1, <4>2, HeadsCompare
             DEF Writing, Doing, Core, Staging, Appending, Adopting, Typed, WorldTypeOK
        <5> QED BY <1>0, <4>2, <5>1
      <4> QED BY <2>1, <4>1, <4>2, HeadsGrow
    <3> QED BY <3>1, <3>2
  <2>2. CASE x \in Cli
    <3>1. handled' = handled
      BY <2>2
    <3> QED BY <1>0, <3>1
  <2> QED BY <2>1, <2>2
<1>2. ASSUME x \in Pass, pc[x] = "wake"
      PROVE  /\ Worker(x) \notin unsure /\ handled[job[x].pr] < job[x].h
             /\ job[x].pr \in PR /\ job[x].h \in Nat
             /\ \A h \in Sha : sent[Worker(x)][h] > 0 => h <= handled[job[x].pr]
  <2>1. Worker(x) \notin unsure /\ handled[job[x].pr] < job[x].h /\ job[x].h \in Nat
    BY <1>2, HeadsCompare DEF Marked, Unsent, Alone, Current, Doing, Core
  <2>2. of[Worker(x)] = job[x].pr /\ job[x].pr \in PR /\ Worker(x) \in Session
    BY <1>2, WorkersAreFor DEF Core
  <2> QED BY <1>0, <2>1, <2>2 DEF Prompted
<1>3. ASSUME NEW s \in Session, sent'[s] # sent[s]
      PROVE  /\ pc[x] = "wake" /\ s = Worker(x) /\ unsure' = unsure \cup {s}
             /\ x \in Pass => \A h \in Sha : /\ h # job[x].h => sent'[s][h] = sent[s][h]
                                             /\ sent'[s][h] <= sent[s][h] + 1
  BY <1>3 DEF WakesOf, StepOf, Prompts
<1>4. ASSUME NEW s \in Session, NEW h \in Sha, of'[s] # 0
      PROVE  /\ sent'[s][h] <= 1
             /\ sent'[s][h] > 0 /\ s \notin unsure' => h <= handled'[of'[s]]
  <2>1. CASE row[s] = "unborn"
    <3>1. sent[s][h] = 0
      BY <2>1 DEF Known, NewAreUnknown, Unwoken
    <3>2. sent'[s] = sent[s]
      <4>1. pc[x] = "wake" => row[Worker(x)] # "unborn"
        BY WorkersAreFor DEF Core
      <4> QED BY <1>3, <2>1, <4>1
    <3> QED BY <3>1, <3>2
  <2>2. CASE row[s] # "unborn"
    <3>1. of'[s] = of[s] /\ of[s] \in PR
      BY <1>0, <1>4, <2>2 DEF BornStay
    <3>2. sent[s][h] <= 1 /\ (sent[s][h] > 0 /\ s \notin unsure => h <= handled[of[s]])
      BY <1>0, <1>4, <3>1 DEF Prompted
    <3>3. CASE sent'[s] = sent[s]
      <4>1. CASE s \in unsure /\ s \notin unsure'
        <5>1. s = Worker(x) /\ pc[x] \in {"postsave", "postread"} /\ (x \in Pass => pc[x] = "postsave")
          BY <1>0, <4>1 DEF WakesOf
        <5>2. x \in Pass /\ of[s] = job[x].pr
          BY <1>0, <3>1, <5>1, WorkersAreFor DEF Core
        <5>3. handled[job[x].pr] = job[x].h /\ (sent[s][h] > 0 => h <= job[x].h)
          BY <1>0, <5>1, <5>2 DEF Alone, Current, Prompted, After
        <5>4. handled[of[s]] <= handled'[of[s]] /\ handled[of[s]] \in Int /\ handled'[of[s]] \in Int /\ h \in Nat
          BY <1>0, <1>1, <3>1
        <5> QED BY <3>1, <3>2, <3>3, <5>2, <5>3, <5>4
      <4>2. CASE s \notin unsure \/ s \in unsure'
        <5>1. handled[of[s]] <= handled'[of[s]] /\ handled[of[s]] \in Int /\ handled'[of[s]] \in Int /\ h \in Nat
          BY <1>0, <1>1, <3>1
        <5> QED BY <3>1, <3>2, <3>3, <4>2, <5>1
      <4> QED BY <4>1, <4>2
    <3>4. CASE sent'[s] # sent[s]
      <4>1. pc[x] = "wake" /\ s = Worker(x) /\ s \in unsure'
        BY <1>3, <3>4
      <4>2. x \in Pass /\ of[s] = job[x].pr
        BY <1>0, <3>1, <4>1, WorkersAreFor DEF Core
      <4>3. CASE h = job[x].h
        <5>1. sent[s][h] \in 0..2 /\ h \in Nat
          BY <1>0
        <5>2. ~(sent[s][h] > 0)
          <6>1. sent[s][h] > 0 => h <= handled[job[x].pr]
            BY <1>2, <4>1, <4>2
          <6>2. handled[job[x].pr] < h /\ handled[job[x].pr] \in Int
            BY <1>0, <1>2, <4>1, <4>2, <4>3
          <6> QED BY <5>1, <6>1, <6>2
        <5>3. sent'[s][h] <= sent[s][h] + 1
          BY <1>3, <3>4, <4>2
        <5>4. sent[s][h] = 0
          BY <5>1, <5>2
        <5> QED BY <4>1, <5>3, <5>4
      <4>4. CASE h # job[x].h
        BY <1>3, <3>2, <3>4, <4>1, <4>2, <4>4
      <4> QED BY <4>3, <4>4
    <3> QED BY <3>3, <3>4
  <2> QED BY <2>1, <2>2
<1>5. ASSUME NEW y \in Pass \ {x}, NEW h \in Sha, pc'[y] \in After, sent'[job'[y].sess][h] > 0
      PROVE  h <= job'[y].h
  <2>1. pc[y] \in After /\ job'[y] = job[y] /\ Worker(y) \in Session
    <3>1. pc[y] \in After /\ job'[y] = job[y]
      BY <1>0, <1>5 DEF SameFor
    <3> QED BY <3>1, WorkersAreFor DEF After, Core
  <2>2. sent'[Worker(y)] = sent[Worker(y)]
    <3>1. CASE x \in Pass
      <4>1. Idle(x)
        BY <2>1, <3>1 DEF Alone, OnePass, Idle, After
      <4> QED BY <1>3, <2>1, <4>1 DEF Idle
    <3>2. CASE x \in Cli
      <4>1. ~mapped[Worker(y)]
        BY <2>1, WorkersAreFor DEF After, Core
      <4>2. pc[x] = "wake" => mapped[Worker(x)]
        BY <3>2, WorkersAreFor DEF Core
      <4> QED BY <1>3, <2>1, <4>1, <4>2
    <3> QED BY <3>1, <3>2
  <2> QED BY <1>0, <1>5, <2>1, <2>2 DEF Prompted, Worker
<1>6. ASSUME x \in Pass, NEW h \in Sha, pc'[x] \in After, sent'[job'[x].sess][h] > 0
      PROVE  h <= job'[x].h
  <2>1. pc[x] \in After \cup {"wake"}
    BY <1>6 DEF HeadMoves
  <2>2. job'[x].sess = job[x].sess /\ job'[x].h = job[x].h
    <3>1. PassMoves(x) /\ ~ \E q \in plans[x] : Continues(x, q)
      BY <1>6, <2>1 DEF StepOf, Continues, After
    <3> QED BY <1>6, <3>1 DEF PassMoves, SameJob, After, Core
  <2>3. Worker(x) \in Session
    BY <2>1, WorkersAreFor DEF After, Core
  <2>4. CASE sent'[Worker(x)] = sent[Worker(x)]
    <3>1. CASE pc[x] \in After
      BY <1>0, <1>6, <2>2, <2>4, <3>1 DEF Prompted, Worker
    <3>2. CASE pc[x] = "wake"
      <4>1. h <= handled[job[x].pr] /\ handled[job[x].pr] < job[x].h
        BY <1>2, <1>6, <2>2, <2>4, <3>2 DEF Worker
      <4>2. handled[job[x].pr] \in Int /\ job[x].h \in Nat /\ h \in Nat
        BY <1>0, <1>2, <1>6, <3>2
      <4> QED BY <2>2, <4>1, <4>2
    <3> QED BY <2>1, <3>1, <3>2
  <2>5. CASE sent'[Worker(x)] # sent[Worker(x)]
    <3>1. pc[x] = "wake" /\ (h # job[x].h => sent'[Worker(x)][h] = sent[Worker(x)][h])
      BY <1>3, <1>6, <2>3, <2>5
    <3>2. handled[job[x].pr] \in Int /\ job[x].h \in Nat /\ h \in Nat
      BY <1>0, <1>2, <1>6, <3>1
    <3>3. h # job[x].h => h <= handled[job[x].pr] /\ handled[job[x].pr] < job[x].h
      BY <1>2, <1>6, <2>2, <3>1 DEF Worker
    <3> QED BY <2>2, <3>2, <3>3
  <2> QED BY <2>4, <2>5
<1> QED BY <1>4, <1>5, <1>6 DEF Prompted, Worker

(* A retask, and its end, leave the heads and the instances alone.         *)
LEMMA RetasksKeepHeads ==
    ASSUME Typed, Placed, NEW x \in Cli, Acts(x) \/ Crash(x)
    PROVE  UNCHANGED <<handled, head, mishaps, disk, of>>
<1>1. CASE Crash(x)
  <2>1. UNCHANGED <<worldVars, history, mishaps>>
    BY <1>1 DEF Crash
  <2> QED BY <2>1
<1>2. CASE Acts(x)
  <2>1. CASE CoreStep(x) /\ UNCHANGED watchVars
    <3>1. CASE PreWake(x)
      BY <2>1, <3>1 DEF PreWake, Refused
    <3>2. CASE \/ TakeRetaskLock(x) \/ Classify(x) \/ CheckOptions(x) \/ PreStop(x)
               \/ Stop(x) \/ WaitStopped(x) \/ FinalReread(x) \/ Wake(x)
               \/ Verify(x) \/ CopiesHandled(x) \/ ClearMarker(x) \/ Halt(x)
               \/ \E c \in Session : StopCopy(x, c) \/ RemoveCopy(x, c) \/ LeaveCopy(x, c)
      BY <2>1, <3>2 DEF TakeRetaskLock, Refused, Classify, CheckOptions, PreStop, Stop, ActsOn,
         WaitStopped, FinalReread, Wake, Verify, CopiesHandled, ClearMarker, Halt, StopCopy,
         RemoveCopy, LeaveCopy
    <3> QED BY <2>1, <3>1, <3>2 DEF CoreStep
  <2>2. CASE (BeginRetask(x) \/ RetaskReturns(x)) /\ UNCHANGED watchVars
    BY <2>2 DEF BeginRetask, RetaskReturns
  <2> QED BY <1>2, <2>1, <2>2 DEF Acts
<1> QED BY <1>1, <1>2

LEMMA AloneByPasses ==
    ASSUME Typed, Placed, Known, Marked, AloneInv, NEW x \in Pass, Acts(x) \/ Crash(x), Typed', Placed'
    PROVE  AloneInv'
<1>1. HeadMoves(x) /\ PlanMoves(x) /\ Prompts(x)
  <2>1. CASE Acts(x)
    BY <2>1, HeadsMove, PlansMove, PromptsMove
  <2>2. CASE Crash(x)
    <3>1. pc[x] \notin {"start", "done"} /\ pc'[x] \in {"start", "done"} /\ UNCHANGED <<worldVars, history>>
      BY <2>2, CrashMoves
    <3>2. mishaps \subseteq mishaps'
      BY <2>2 DEF Crash
    <3> QED BY <3>1, <3>2 DEF HeadMoves, PlanMoves, Prompts, Writing, After, Doing, Core, Staging,
        Launching, Appending, Adopting
  <2> QED BY <2>1, <2>2
<1>2. StepOf(x) /\ \A y \in Caller \ {x} : SameFor(y)
  BY CallersStep DEF StepOf
<1>3. ASSUME "overlap" \notin mishaps' PROVE Alone'
  <2>1. Alone
    BY <1>1, <1>3 DEF AloneInv, HeadMoves
  <2>2. OnePass' /\ Current(x)' /\ (\A y \in Pass \ {x} : Current(y)') /\ Prompted'
    BY <1>1, <1>2, <1>3, <2>1, OnePassStays, CurrentStays, OthersStayCurrent, PromptedStays
  <2>3. HeadsAhead'
    <3>1. \A p \in PR : handled'[p] <= head[p]
      BY <1>1, <2>1, HeadsGrow
    <3> QED BY <1>1, <3>1 DEF HeadMoves, HeadsAhead
  <2> QED BY <2>2, <2>3 DEF Alone
<1> QED BY <1>3 DEF AloneInv

LEMMA AloneElsewhere ==
    ASSUME Typed, Placed, AloneInv, Typed', handled' = handled, mishaps' = mishaps,
           \A p \in PR : head[p] <= head'[p],
           \A y \in Pass : SameFor(y), Alone => Prompted'
    PROVE  AloneInv'
<1> SUFFICES ASSUME Alone PROVE Alone'
  BY DEF AloneInv
<1>0. /\ \A p \in PR : head[p] \in Nat /\ head'[p] \in Nat /\ handled[p] \in Int
      /\ \A y \in Pass : pc[y] \in Doing => job[y].pr \in PR /\ job[y].h \in Nat
      /\ \A y \in Pass : \A q \in plans[y] : q.pr \in PR /\ (q.kind = "Adopt" => q.h \in Nat)
  <2>1. \A p \in PR : head'[p] \in Nat
    BY HeadsAreNumbers DEF Typed, WorldTypeOK
  <2> QED BY <2>1, HeadsCompare
<1>1. OnePass'
  BY DEF Alone, OnePass, Idle, SameFor
<1>2. HeadsAhead'
  BY <1>0 DEF Alone, HeadsAhead
<1>3. ASSUME NEW y \in Pass, Planned(y) PROVE Planned(y)'
  <2>1. plans'[y] = plans[y]
    BY DEF SameFor
  <2> QED BY <1>0, <1>3, <2>1 DEF Planned
<1>4. ASSUME NEW y \in Pass PROVE Current(y)'
  <2>1. Current(y) /\ SameFor(y)
    BY DEF Alone
  <2>2. pc[y] \in Doing => job[y].h <= head'[job[y].pr]
    BY <1>0, <2>1 DEF Current
  <2> QED BY <1>3, <2>1, <2>2 DEF Current, SameFor
<1> QED BY <1>1, <1>2, <1>4 DEF Alone

LEMMA NextKeepsAlone ==
    ASSUME Typed, Placed, Locked, Known, Marked, AloneInv, Next
    PROVE  AloneInv'
<1>0. Typed' /\ Placed'
  BY NextKeepsTypes
<1>1. ASSUME NEW x \in Pass, Acts(x) \/ Crash(x) PROVE AloneInv'
  BY <1>0, <1>1, AloneByPasses
<1>2. ASSUME NEW x \in Cli, Acts(x) \/ Crash(x) PROVE AloneInv'
  <2>1. handled' = handled /\ head' = head /\ mishaps' = mishaps /\ StepOf(x) /\ x \in Caller
    BY <1>2, RetasksKeepHeads, CallersStep
  <2>2. (\A y \in Pass : SameFor(y)) /\ x \notin Pass
    BY <1>2, <2>1 DEF StepOf
  <2>3. Alone => Prompted'
    BY <2>1, <2>2, PromptedStays
  <2>4. \A p \in PR : head[p] <= head'[p]
    BY <2>1, HeadsCompare
  <2> QED BY <1>0, <2>1, <2>2, <2>3, <2>4, AloneElsewhere
<1>3. ASSUME UserStarts \/ WorldStep PROVE AloneInv'
  <2>1. UNCHANGED <<watchFiles, coreVars, history, watchVars>> /\ \A p \in PR : head[p] <= head'[p]
    <3>1. \A p \in PR : head[p] <= head[p]
      BY HeadsCompare
    <3> QED BY <1>3, <3>1, UserStartsKeeps, WorldStepKeeps
  <2>2. \A y \in Pass : SameFor(y)
    BY <2>1 DEF SameFor
  <2>3. Alone => Prompted'
    BY <2>1 DEF Alone, Prompted, Worker
  <2> QED BY <1>0, <2>1, <2>2, <2>3, AloneElsewhere
<1> QED BY <1>1, <1>2, <1>3, CallersAct

LEMMA InitiallyAlone == Init => AloneInv
<1> SUFFICES ASSUME Init PROVE Alone
  BY DEF AloneInv
<1>0. Typed /\ Placed
  BY InitialTypes
<1>1. pc = [x \in Caller |-> "start"] /\ sent = [s \in Session |-> [h \in Sha |-> 0]] /\ head = [p \in PR |-> 1]
  BY DEF Init
<1>2. OnePass /\ (\A x \in Pass : Current(x)) /\ Prompted
  BY <1>1 DEF OnePass, Idle, Current, Prompted, Writing, After, Doing, Core, Staging, Launching,
     Appending, Adopting
<1>3. HeadsAhead
  <2>1. \A p \in PR : handled[p] \in {-1, 0, 1}
    BY DEF Init, NothingStaged, OneStaged, OneDispatched, NeverHandled, UnknownHead
  <2> QED BY <1>1, <2>1 DEF HeadsAhead
<1> QED BY <1>2, <1>3 DEF Alone

LEMMA AloneHolds == Spec => []AloneInv
<1>1. Typed /\ Placed /\ Locked /\ Known /\ Marked /\ AloneInv /\ [Next]_vars => AloneInv'
  <2>1. ASSUME AloneInv, UNCHANGED vars PROVE AloneInv'
    BY <2>1 DEF vars, AloneInv, Alone, OnePass, HeadsAhead, Current, Planned, Prompted, Idle, Worker
  <2> QED BY <2>1, NextKeepsAlone
<1> QED BY <1>1, InitiallyAlone, TypesHold, MarksHold, PTL DEF Spec

(* As long as no pass began while another was at work, no review was sent  *)
(* the same head's prompt twice: a pass that was killed after the wake, or *)
(* that failed to write what it had done, left the marker, and what it did *)
(* write keeps the next one from asking for that head again.               *)
THEOREM PromptedOnce == Spec => []PromptedOncePerHead
<1>1. AloneInv => PromptedOncePerHead
  BY DEF AloneInv, Alone, Prompted, PromptedOncePerHead
<1> QED BY <1>1, AloneHolds, PTL

-----------------------------------------------------------------------------
(* What a step does to the reviews that are there.  Sessions do not come   *)
(* back, and an instance is made where there is none of a session's.       *)
Ages ==
    /\ \A s \in Session :
           /\ row[s] = "gone" => row'[s] = "gone"
           /\ row[s] \notin {"unborn", "starting"} => row'[s] \notin {"unborn", "starting"}
    /\ \A i \in Instance :
           disk'[i] => disk[i] \/ \A s \in Session : root[s] = i => row[s] = "gone"

(* An instance is made where a review is staged, a session launched there. *)
Stages(x) ==
    /\ pc[x] # "provision" => \A i \in Instance : disk'[i] => disk[i]
    /\ of' = of \/ (pc[x] = "launch" /\ pc'[x] = "capture")
    /\ pc'[x] \in {"provision", "launch"} =>
           \/ pc[x] = "provision" /\ job'[x].pr = job[x].pr
           \/ /\ pc[x] \in {"next", "refused"}
              /\ \E q \in plans[x] : q.kind = "Fresh" /\ job'[x].pr = q.pr
    /\ pc'[x] = "capture" => pc[x] = "launch" /\ disk' = disk
    /\ pc'[x] = "record" =>
           /\ pc[x] = "capture"
           /\ "late" \in mishaps' \/ (Listed(Worker(x)) /\ job'[x] = job[x] /\ row' = row)
    /\ pc'[x] \in Appending =>
           /\ job'[x] = job[x]
           /\ \/ pc[x] = "stageread"
              \/ /\ pc[x] = "record"
                 /\ staged'[HandleOf[job[x].pr]].inst = Place(x)
                 /\ staged'[HandleOf[job[x].pr]].sess = Worker(x)
    /\ pc[x] \in Launching \cup Appending /\ pc'[x] \notin Launching \cup Appending =>
           \/ ~disk'[Place(x)] \/ "removal" \in mishaps'
           \/ /\ pc[x] = "stagewrite" /\ pc'[x] = "next"
              /\ \/ buf[x][job[x].pr] = job[x].h /\ handled' = handled
                 \/ handled' = [buf[x] EXCEPT ![job[x].pr] = job[x].h]

(* What the sweep is about is the record it read, and what it forgets the  *)
(* record of is taken away.                                                *)
Sweeps(x) ==
    /\ pc'[x] \in Pruning =>
           /\ staged' = staged
           /\ \/ pc[x] \in Pruning /\ job'[x] = job[x]
              \/ /\ job'[x].rec \in Record /\ job'[x].pr = job'[x].rec.pr
                 /\ \E h \in Handle : staged[h] = job'[x].rec
    /\ pc'[x] = "forget" => job'[x] = job[x] /\ (~disk'[Place(x)] \/ "removal" \in mishaps')

(* The reviews a pass may still stage.                                     *)
Counting == Doing \cup {"next", "refused"}

Budgets(x) ==
    pc'[x] \in Counting =>
        \/ pc[x] = "decide" /\ budget'[x] = StageBudget(Cardinality({p \in PR : IsLive(p)}))
        \/ /\ pc[x] \in Launching \cup Appending /\ pc'[x] = "next"
           /\ budget'[x] = budget[x] - 1
        \/ /\ pc[x] \in Counting /\ budget'[x] = budget[x]
           /\ pc[x] \in Launching \cup Appending <=> pc[x] # "launch" /\ pc'[x] \in Launching \cup Appending

LEMMA AgesByCallers ==
    ASSUME Typed, Placed, NEW x \in Caller, Acts(x)
    PROVE  Ages
<1>0. /\ Typed /\ Placed /\ Reads(x) /\ x \in Caller /\ pc \in [Caller -> Label] /\ job \in [Caller -> Job]
      /\ row \in [Session -> RowState] /\ root \in [Session -> Instance \cup {None}]
      /\ disk \in [Instance -> BOOLEAN]
      /\ staged \in [Handle -> Record \cup {NoRecord}]
  BY DEF Typed, Placed, RetaskTypeOK, WorldTypeOK
<1>1. ASSUME CoreStep(x), UNCHANGED watchVars PROVE Ages
  <2>1. CASE \/ TakeRetaskLock(x) \/ Classify(x) \/ CheckOptions(x) \/ PreStop(x)
             \/ WaitStopped(x) \/ PreWake(x) \/ FinalReread(x) \/ Wake(x)
             \/ Verify(x) \/ CopiesHandled(x)
             \/ (x \in Pass /\ AppendDelivered(x)) \/ ClearMarker(x) \/ Halt(x)
             \/ \E c \in Session : LeaveCopy(x, c)
    BY <2>1, <1>1, <1>0 DEF TakeRetaskLock, TakeLock, Refused, Release, At, Goto,
      Classify, CheckOptions, PreStop, WaitStopped, PreWake, SaveRecord, FinalReread,
      Wake, Verify, CopiesHandled, LeaveCopy, AppendDelivered, ReadHandled,
      WriteHandled, Finish, ClearMarker, Halt, Ages
  <2>2. CASE Stop(x)
    <3> DEFINE to == IF row[Worker(x)] \in Running THEN "stopping" ELSE "stopped"
    <3>1. disk' = disk
      BY <2>2 DEF Stop, Refused, ActsOn
    <3>2. row' = row \/ (Listed(Worker(x)) /\ row' = [row EXCEPT ![Worker(x)] = to])
      BY <2>2 DEF Stop, Refused, ActsOn
    <3>3. to \notin {"unborn", "starting", "gone"}
      OBVIOUS
    <3> HIDE DEF to
    <3> QED BY <1>0, <3>1, <3>2, <3>3 DEF Ages, Listed
  <2>3. ASSUME NEW c \in Session, StopCopy(x, c) PROVE Ages
    <3>1. disk' = disk /\ row[c] \in Running /\ row' = [row EXCEPT ![c] = "stopping"]
      BY <2>3 DEF StopCopy, ActsOn
    <3> QED BY <1>0, <3>1 DEF Ages, Running
  <2>4. ASSUME NEW c \in Session, RemoveCopy(x, c) PROVE Ages
    <3>1. disk' = disk /\ row' = [row EXCEPT ![c] = "gone"]
      BY <2>4 DEF RemoveCopy, ActsOn
    <3> QED BY <1>0, <3>1 DEF Ages
  <2> QED BY <1>1, <2>1, <2>2, <2>3, <2>4 DEF CoreStep
<1>2. ASSUME x \in Cli, BeginRetask(x) \/ RetaskReturns(x), UNCHANGED watchVars PROVE Ages
  <2>1. CASE BeginRetask(x)
    BY <2>1, <1>2, <1>0 DEF BeginRetask, At, Goto, Ages
  <2>2. CASE RetaskReturns(x)
    BY <2>2, <1>2, <1>0 DEF RetaskReturns, Finish, Release, At, Goto, Ages
  <2> QED BY <1>2, <2>1, <2>2
<1>3. ASSUME x \in Pass, OwnStep(x) PROVE Ages
  <2>1. CASE \/ PassFails(x) \/ Search(x) \/ PruneOne(x) \/ TakePruneLock(x)
             \/ JudgeRecord(x) \/ ForgetRecord(x) \/ LoadHandled(x)
             \/ MakePlans(x) \/ NextPlan(x) \/ Capture(x) \/ RecordReview(x)
             \/ AppendStaged(x) \/ AppendAdopted(x)
    BY <2>1, <1>3, <1>0 DEF PassFails, PassEnds, Leaves, At, Goto, Search, PruneOne,
      TakePruneLock, TakeLock, JudgeRecord, RemovesPlace, Release, ForgetRecord,
      LoadHandled, MakePlans, NextPlan, Capture, RecordReview, SaveRecord, StageFails,
      AppendStaged, ReadHandled, WriteHandled, AppendAdopted, Ages
  <2>2. CASE Provision(x)
    <3>1. row' = row
      BY <2>2 DEF Provision
    <3>2. CASE disk' = disk
      BY <3>1, <3>2 DEF Ages
    <3>3. ASSUME NEW i \in Unused({job[y].inst : y \in Caller}), disk' = [disk EXCEPT ![i] = TRUE]
          PROVE  Ages
      <4>1. \A s \in Session : root[s] = i => row[s] = "gone"
        BY DEF Unused
      <4> QED BY <1>0, <3>1, <3>3, <4>1 DEF Ages
    <3> QED BY <1>0, <1>3, <2>2, <3>2, <3>3, ProvisionDoes
  <2>3. CASE Launch(x)
    <3>1. /\ \A i \in Instance : disk'[i] => disk[i]
          /\ row' = row \/ \E s \in Session : row[s] = "unborn" /\ row' = [row EXCEPT ![s] = "starting"]
      BY <1>0, <1>3, <2>3, LaunchDoes DEF RemovesPlace, Born
    <3> QED BY <1>0, <3>1 DEF Ages
  <2> QED BY <1>3, <2>1, <2>2, <2>3 DEF OwnStep
<1> QED BY <1>1, <1>2, <1>3 DEF Acts

LEMMA StagesMove ==
    ASSUME Typed, Placed, NEW x \in Pass, Acts(x)
    PROVE  Stages(x)
<1>0. /\ Typed /\ Placed /\ Reads(x) /\ x \in Caller /\ pc \in [Caller -> Label] /\ job \in [Caller -> Job]
      /\ row \in [Session -> RowState] /\ root \in [Session -> Instance \cup {None}]
      /\ disk \in [Instance -> BOOLEAN]
      /\ staged \in [Handle -> Record \cup {NoRecord}]
  BY DEF Typed, Placed, RetaskTypeOK, WorldTypeOK
<1>1. ASSUME CoreStep(x), UNCHANGED watchVars PROVE Stages(x)
  <2>1. CASE TakeRetaskLock(x)
    BY <2>1, <1>1, <1>0 DEF TakeRetaskLock, TakeLock, Refused, Release, At, Goto,
      Stages, Core, Staging, Launching, Appending, Adopting, Doing
  <2>2. CASE Classify(x)
    BY <2>2, <1>1, <1>0 DEF Classify, Refused, Release, At, Goto, Stages, Core,
      Staging, Launching, Appending, Adopting, Doing
  <2>3. CASE CheckOptions(x)
    BY <2>3, <1>1, <1>0 DEF CheckOptions, Refused, Release, At, Goto, Stages, Core,
      Staging, Launching, Appending, Adopting, Doing
  <2>4. CASE PreStop(x)
    BY <2>4, <1>1, <1>0 DEF PreStop, Refused, Release, At, Goto, Stages, Core, Staging,
      Launching, Appending, Adopting, Doing
  <2>5. CASE Stop(x)
    BY <2>5, <1>1, <1>0 DEF Stop, Refused, Release, ActsOn, At, Goto, Stages, Core,
      Staging, Launching, Appending, Adopting, Doing
  <2>6. CASE WaitStopped(x)
    BY <2>6, <1>1, <1>0 DEF WaitStopped, Refused, Release, At, Goto, Stages, Core,
      Staging, Launching, Appending, Adopting, Doing
  <2>7. CASE PreWake(x)
    <3>1. of' = of /\ disk' = disk
      BY <2>7 DEF PreWake, Refused
    <3> QED BY <1>0, <1>1, <2>7, <3>1, PreWakeDoes DEF Stages, Core, Staging, Launching, Appending, Adopting, Doing
  <2>8. CASE FinalReread(x)
    BY <2>8, <1>1, <1>0 DEF FinalReread, At, Goto, Stages, Core, Staging, Launching,
      Appending, Adopting, Doing
  <2>9. CASE Wake(x)
    BY <2>9, <1>1, <1>0 DEF Wake, At, Goto, Stages, Core, Staging, Launching,
      Appending, Adopting, Doing
  <2>10. CASE Verify(x)
    BY <2>10, <1>1, <1>0 DEF Verify, At, Goto, Stages, Core, Staging, Launching,
      Appending, Adopting, Doing
  <2>11. CASE CopiesHandled(x)
    BY <2>11, <1>1, <1>0 DEF CopiesHandled, At, Goto, Stages, Core, Staging, Launching,
      Appending, Adopting, Doing
  <2>12. ASSUME NEW c \in Session, StopCopy(x, c) PROVE Stages(x)
    BY <2>12, <1>1, <1>0 DEF StopCopy, ActsOn, At, Goto, Stages, Core, Staging,
      Launching, Appending, Adopting, Doing
  <2>13. ASSUME NEW c \in Session, RemoveCopy(x, c) PROVE Stages(x)
    BY <2>13, <1>1, <1>0 DEF RemoveCopy, ActsOn, At, Goto, Stages, Core, Staging,
      Launching, Appending, Adopting, Doing
  <2>14. ASSUME NEW c \in Session, LeaveCopy(x, c) PROVE Stages(x)
    BY <2>14, <1>1, <1>0 DEF LeaveCopy, At, Goto, Stages, Core, Staging, Launching,
      Appending, Adopting, Doing
  <2>15. CASE x \in Pass /\ AppendDelivered(x)
    BY <2>15, <1>1, <1>0 DEF AppendDelivered, ReadHandled, WriteHandled, Finish,
      Release, At, Goto, Stages, Core, Staging, Launching, Appending, Adopting, Doing
  <2>16. CASE ClearMarker(x)
    BY <2>16, <1>1, <1>0 DEF ClearMarker, Finish, Release, SaveRecord, At, Goto,
      Stages, Core, Staging, Launching, Appending, Adopting, Doing
  <2>17. CASE Halt(x)
    BY <2>17, <1>1, <1>0 DEF Halt, Finish, Release, At, Goto, Stages, Core, Staging,
      Launching, Appending, Adopting, Doing
  <2> QED BY <1>1, <2>1, <2>2, <2>3, <2>4, <2>5, <2>6, <2>7, <2>8, <2>9, <2>10, <2>11,
      <2>12, <2>13, <2>14, <2>15, <2>16, <2>17 DEF CoreStep
<1>2. ASSUME x \in Cli, BeginRetask(x) \/ RetaskReturns(x), UNCHANGED watchVars PROVE Stages(x)
  <2>1. CASE BeginRetask(x)
    BY <2>1, <1>2, <1>0 DEF BeginRetask, At, Goto, Stages, Core, Staging, Launching,
      Appending, Adopting, Doing
  <2>2. CASE RetaskReturns(x)
    BY <2>2, <1>2, <1>0 DEF RetaskReturns, Finish, Release, At, Goto, Stages, Core,
      Staging, Launching, Appending, Adopting, Doing
  <2> QED BY <1>2, <2>1, <2>2
<1>3. ASSUME x \in Pass, OwnStep(x) PROVE Stages(x)
  <2>1. CASE PassFails(x)
    BY <2>1, <1>3, <1>0 DEF PassFails, PassEnds, Leaves, At, Goto, Stages, Core,
      Staging, Launching, Appending, Adopting, Doing
  <2>2. CASE Search(x)
    BY <2>2, <1>3, <1>0 DEF Search, At, Goto, Stages, Core, Staging, Launching,
      Appending, Adopting, Doing
  <2>3. CASE PruneOne(x)
    <3>1. of' = of /\ disk' = disk /\ staged' = staged
      BY <2>3 DEF PruneOne
    <3> QED BY <1>0, <1>3, <2>3, <3>1, PruneOneDoes DEF Stages, Core, Staging, Launching, Appending, Adopting, Doing
  <2>4. CASE TakePruneLock(x)
    BY <2>4, <1>3, <1>0 DEF TakePruneLock, TakeLock, Leaves, At, Goto, Stages, Core,
      Staging, Launching, Appending, Adopting, Doing
  <2>5. CASE JudgeRecord(x)
    <3>1. of' = of /\ pc[x] = "judge" /\ pc'[x] \in {"forget", "prune"}
      BY <1>0, <2>5 DEF JudgeRecord, Leaves, Goto, At
    <3>2. \A i \in Instance : disk'[i] => disk[i]
      BY <1>0, <2>5 DEF JudgeRecord, RemovesPlace
    <3> QED BY <3>1, <3>2 DEF Stages, Core, Staging, Launching, Appending, Adopting, Doing
  <2>6. CASE ForgetRecord(x)
    BY <2>6, <1>3, <1>0 DEF ForgetRecord, Leaves, Release, At, Goto, Stages, Core,
      Staging, Launching, Appending, Adopting, Doing
  <2>7. CASE LoadHandled(x)
    BY <2>7, <1>3, <1>0 DEF LoadHandled, At, Goto, Stages, Core, Staging, Launching,
      Appending, Adopting, Doing
  <2>8. CASE MakePlans(x)
    BY <2>8, <1>3, <1>0 DEF MakePlans, PassEnds, Leaves, At, Goto, Stages, Core,
      Staging, Launching, Appending, Adopting, Doing
  <2>9. CASE NextPlan(x)
    <3>1. of' = of /\ disk' = disk /\ pc[x] \in {"next", "refused"}
      BY <1>0, <2>9 DEF NextPlan
    <3>2. CASE PassEnds(x)
      BY <1>0, <3>1, <3>2 DEF PassEnds, Leaves, Goto, Stages, Core, Staging, Launching, Appending, Adopting, Doing
    <3> QED BY <1>0, <2>9, <3>1, <3>2, NextPlanDoes DEF Stages, Core, Staging, Launching, Appending, Adopting, Doing
  <2>10. CASE Provision(x)
    <3>1. of' = of
      BY <2>10 DEF Provision
    <3> QED BY <1>0, <1>3, <2>10, <3>1, ProvisionDoes DEF Stages, Core, Staging, Launching, Appending, Adopting, Doing
  <2>11. CASE Launch(x)
    <3>1. \A i \in Instance : disk'[i] => disk[i]
      BY <1>0, <1>3, <2>11, LaunchDoes DEF RemovesPlace
    <3> QED BY <1>0, <1>3, <2>11, <3>1, LaunchDoes DEF Stages, Core, Staging, Launching, Appending, Adopting, Doing
  <2>12. CASE Capture(x)
    <3>1. of' = of /\ disk' = disk /\ row' = row
      BY <2>12 DEF Capture
    <3> QED BY <1>0, <1>3, <2>12, <3>1, CaptureDoes DEF Stages, Core, Staging, Launching, Appending, Adopting, Doing
  <2>13. CASE RecordReview(x)
    <3> DEFINE r == [pr |-> job[x].pr, inst |-> Place(x), base |-> job[x].h, sess |-> Worker(x), halted |-> 0]
    <3>1. /\ pc[x] = "record" /\ of' = of /\ job' = job /\ HandleOf[job[x].pr] \in Handle /\ Place(x) \in Instance
      BY <1>0, <1>3, <2>13, HandlesAreOfPRs DEF RecordReview, At, Reads, Staging, Launching, Place
    <3>2. \/ /\ pc'[x] = "stageread" /\ disk' = disk /\ staged' = [staged EXCEPT ![HandleOf[job[x].pr]] = r]
          \/ /\ pc'[x] = "failed"
             /\ disk' = [disk EXCEPT ![Place(x)] = FALSE] \/ ("removal" \in mishaps' /\ disk' = disk)
      BY <1>0, <2>13 DEF RecordReview, SaveRecord, StageFails, RemovesPlace, Goto
    <3>3. r.inst = Place(x) /\ r.sess = Worker(x)
      OBVIOUS
    <3> HIDE DEF r
    <3> QED BY <1>0, <3>1, <3>2, <3>3 DEF Stages, Core, Staging, Launching, Appending, Adopting, Doing
  <2>14. CASE AppendStaged(x)
    <3> DEFINE H == [buf[x] EXCEPT ![job[x].pr] = job[x].h]
    <3>1. of' = of /\ pc[x] \in Appending /\ Place(x) \in Instance
      BY <1>0, <1>3, <2>14 DEF AppendStaged, ReadHandled, At, Reads, Staging, Appending, Place
    <3>2. \/ pc[x] = "stageread" /\ pc'[x] = "stagewrite" /\ disk' = disk /\ job' = job
          \/ /\ pc[x] = "stagewrite" /\ pc'[x] = "next" /\ disk' = disk
             /\ handled' = IF buf[x][job[x].pr] = job[x].h THEN handled ELSE H
          \/ /\ pc[x] = "stagewrite" /\ pc'[x] = "failed"
             /\ disk' = [disk EXCEPT ![Place(x)] = FALSE] \/ ("removal" \in mishaps' /\ disk' = disk)
      BY <1>0, <2>14 DEF AppendStaged, ReadHandled, WriteHandled, StageFails, RemovesPlace, Leaves, At, Goto
    <3> HIDE DEF H
    <3> QED BY <1>0, <3>1, <3>2 DEF H, Stages, Core, Staging, Launching, Appending, Adopting, Doing
  <2>15. CASE AppendAdopted(x)
    BY <2>15, <1>3, <1>0 DEF AppendAdopted, ReadHandled, WriteHandled, Leaves, At,
      Goto, Stages, Core, Staging, Launching, Appending, Adopting, Doing
  <2> QED BY <1>3, <2>1, <2>2, <2>3, <2>4, <2>5, <2>6, <2>7, <2>8, <2>9, <2>10, <2>11,
      <2>12, <2>13, <2>14, <2>15 DEF OwnStep
<1> QED BY <1>1, <1>2, <1>3 DEF Acts

LEMMA SweepsMove ==
    ASSUME Typed, Placed, NEW x \in Pass, Acts(x)
    PROVE  Sweeps(x)
<1>0. /\ Typed /\ Placed /\ Reads(x) /\ x \in Caller /\ pc \in [Caller -> Label] /\ job \in [Caller -> Job]
      /\ row \in [Session -> RowState] /\ root \in [Session -> Instance \cup {None}]
      /\ disk \in [Instance -> BOOLEAN]
      /\ staged \in [Handle -> Record \cup {NoRecord}]
  BY DEF Typed, Placed, RetaskTypeOK, WorldTypeOK
<1>1. ASSUME CoreStep(x), UNCHANGED watchVars PROVE Sweeps(x)
  <2>1. CASE TakeRetaskLock(x)
    BY <2>1, <1>1, <1>0 DEF TakeRetaskLock, TakeLock, Refused, Release, At, Goto,
      Sweeps, Pruning
  <2>2. CASE Classify(x)
    BY <2>2, <1>1, <1>0 DEF Classify, Refused, Release, At, Goto, Sweeps, Pruning
  <2>3. CASE CheckOptions(x)
    BY <2>3, <1>1, <1>0 DEF CheckOptions, Refused, Release, At, Goto, Sweeps, Pruning
  <2>4. CASE PreStop(x)
    BY <2>4, <1>1, <1>0 DEF PreStop, Refused, Release, At, Goto, Sweeps, Pruning
  <2>5. CASE Stop(x)
    BY <2>5, <1>1, <1>0 DEF Stop, Refused, Release, ActsOn, At, Goto, Sweeps, Pruning
  <2>6. CASE WaitStopped(x)
    BY <2>6, <1>1, <1>0 DEF WaitStopped, Refused, Release, At, Goto, Sweeps, Pruning
  <2>7. CASE PreWake(x)
    <3> QED BY <1>0, <1>1, <2>7, PreWakeDoes DEF Sweeps, Pruning
  <2>8. CASE FinalReread(x)
    BY <2>8, <1>1, <1>0 DEF FinalReread, At, Goto, Sweeps, Pruning
  <2>9. CASE Wake(x)
    BY <2>9, <1>1, <1>0 DEF Wake, At, Goto, Sweeps, Pruning
  <2>10. CASE Verify(x)
    BY <2>10, <1>1, <1>0 DEF Verify, At, Goto, Sweeps, Pruning
  <2>11. CASE CopiesHandled(x)
    BY <2>11, <1>1, <1>0 DEF CopiesHandled, At, Goto, Sweeps, Pruning
  <2>12. ASSUME NEW c \in Session, StopCopy(x, c) PROVE Sweeps(x)
    BY <2>12, <1>1, <1>0 DEF StopCopy, ActsOn, At, Goto, Sweeps, Pruning
  <2>13. ASSUME NEW c \in Session, RemoveCopy(x, c) PROVE Sweeps(x)
    BY <2>13, <1>1, <1>0 DEF RemoveCopy, ActsOn, At, Goto, Sweeps, Pruning
  <2>14. ASSUME NEW c \in Session, LeaveCopy(x, c) PROVE Sweeps(x)
    BY <2>14, <1>1, <1>0 DEF LeaveCopy, At, Goto, Sweeps, Pruning
  <2>15. CASE x \in Pass /\ AppendDelivered(x)
    BY <2>15, <1>1, <1>0 DEF AppendDelivered, ReadHandled, WriteHandled, Finish,
      Release, At, Goto, Sweeps, Pruning
  <2>16. CASE ClearMarker(x)
    BY <2>16, <1>1, <1>0 DEF ClearMarker, Finish, Release, SaveRecord, At, Goto,
      Sweeps, Pruning
  <2>17. CASE Halt(x)
    BY <2>17, <1>1, <1>0 DEF Halt, Finish, Release, At, Goto, Sweeps, Pruning
  <2> QED BY <1>1, <2>1, <2>2, <2>3, <2>4, <2>5, <2>6, <2>7, <2>8, <2>9, <2>10, <2>11,
      <2>12, <2>13, <2>14, <2>15, <2>16, <2>17 DEF CoreStep
<1>2. ASSUME x \in Cli, BeginRetask(x) \/ RetaskReturns(x), UNCHANGED watchVars PROVE Sweeps(x)
  <2>1. CASE BeginRetask(x)
    BY <2>1, <1>2, <1>0 DEF BeginRetask, At, Goto, Sweeps, Pruning
  <2>2. CASE RetaskReturns(x)
    BY <2>2, <1>2, <1>0 DEF RetaskReturns, Finish, Release, At, Goto, Sweeps, Pruning
  <2> QED BY <1>2, <2>1, <2>2
<1>3. ASSUME x \in Pass, OwnStep(x) PROVE Sweeps(x)
  <2>1. CASE PassFails(x)
    BY <2>1, <1>3, <1>0 DEF PassFails, PassEnds, Leaves, At, Goto, Sweeps, Pruning
  <2>2. CASE Search(x)
    BY <2>2, <1>3, <1>0 DEF Search, At, Goto, Sweeps, Pruning
  <2>3. CASE PruneOne(x)
    <3>1. staged' = staged
      BY <2>3 DEF PruneOne
    <3> QED BY <1>0, <1>3, <2>3, <3>1, PruneOneDoes DEF Sweeps, Pruning
  <2>4. CASE TakePruneLock(x)
    BY <2>4, <1>3, <1>0 DEF TakePruneLock, TakeLock, Leaves, At, Goto, Sweeps, Pruning
  <2>5. CASE JudgeRecord(x)
    <3>1. /\ pc[x] = "judge" /\ staged' = staged /\ Place(x) \in Instance
      BY <1>0, <1>3, <2>5, RecordFields DEF JudgeRecord, At, Reads, Pruning, Place
    <3>2. \/ pc'[x] = "prune"
          \/ /\ pc'[x] = "forget" /\ job' = job
             /\ disk' = [disk EXCEPT ![Place(x)] = FALSE] \/ "removal" \in mishaps'
      BY <1>0, <2>5 DEF JudgeRecord, RemovesPlace, Leaves, Goto
    <3> QED BY <1>0, <3>1, <3>2 DEF Sweeps, Pruning
  <2>6. CASE ForgetRecord(x)
    BY <2>6, <1>3, <1>0 DEF ForgetRecord, Leaves, Release, At, Goto, Sweeps, Pruning
  <2>7. CASE LoadHandled(x)
    BY <2>7, <1>3, <1>0 DEF LoadHandled, At, Goto, Sweeps, Pruning
  <2>8. CASE MakePlans(x)
    BY <2>8, <1>3, <1>0 DEF MakePlans, PassEnds, Leaves, At, Goto, Sweeps, Pruning
  <2>9. CASE NextPlan(x)
    <3>1. CASE PassEnds(x)
      BY <1>0, <3>1 DEF PassEnds, Leaves, Goto, Sweeps, Pruning
    <3> QED BY <1>0, <2>9, <3>1, NextPlanDoes DEF Sweeps, Pruning
  <2>10. CASE Provision(x)
    <3> QED BY <1>0, <1>3, <2>10, ProvisionDoes DEF Sweeps, Pruning
  <2>11. CASE Launch(x)
    <3> QED BY <1>0, <1>3, <2>11, LaunchDoes DEF Sweeps, Pruning
  <2>12. CASE Capture(x)
    <3> QED BY <1>0, <1>3, <2>12, CaptureDoes DEF Sweeps, Pruning
  <2>13. CASE RecordReview(x)
    BY <2>13, <1>3, <1>0 DEF RecordReview, SaveRecord, StageFails, RemovesPlace, At,
      Goto, Sweeps, Pruning
  <2>14. CASE AppendStaged(x)
    BY <2>14, <1>3, <1>0 DEF AppendStaged, ReadHandled, WriteHandled, Leaves,
      StageFails, RemovesPlace, At, Goto, Sweeps, Pruning
  <2>15. CASE AppendAdopted(x)
    BY <2>15, <1>3, <1>0 DEF AppendAdopted, ReadHandled, WriteHandled, Leaves, At,
      Goto, Sweeps, Pruning
  <2> QED BY <1>3, <2>1, <2>2, <2>3, <2>4, <2>5, <2>6, <2>7, <2>8, <2>9, <2>10, <2>11,
      <2>12, <2>13, <2>14, <2>15 DEF OwnStep
<1> QED BY <1>1, <1>2, <1>3 DEF Acts

LEMMA BudgetsMove ==
    ASSUME Typed, Placed, NEW x \in Pass, Acts(x)
    PROVE  Budgets(x)
<1>0. /\ Typed /\ Placed /\ Reads(x) /\ x \in Caller /\ pc \in [Caller -> Label] /\ job \in [Caller -> Job]
      /\ row \in [Session -> RowState] /\ root \in [Session -> Instance \cup {None}]
      /\ disk \in [Instance -> BOOLEAN]
      /\ staged \in [Handle -> Record \cup {NoRecord}]
  BY DEF Typed, Placed, RetaskTypeOK, WorldTypeOK
<1>1. ASSUME CoreStep(x), UNCHANGED watchVars PROVE Budgets(x)
  <2>1. CASE TakeRetaskLock(x)
    BY <2>1, <1>1, <1>0 DEF TakeRetaskLock, TakeLock, Refused, Release, At, Goto,
      Budgets, Counting, Core, Staging, Launching, Appending, Adopting, Doing
  <2>2. CASE Classify(x)
    BY <2>2, <1>1, <1>0 DEF Classify, Refused, Release, At, Goto, Budgets, Counting,
      Core, Staging, Launching, Appending, Adopting, Doing
  <2>3. CASE CheckOptions(x)
    BY <2>3, <1>1, <1>0 DEF CheckOptions, Refused, Release, At, Goto, Budgets,
      Counting, Core, Staging, Launching, Appending, Adopting, Doing
  <2>4. CASE PreStop(x)
    BY <2>4, <1>1, <1>0 DEF PreStop, Refused, Release, At, Goto, Budgets, Counting,
      Core, Staging, Launching, Appending, Adopting, Doing
  <2>5. CASE Stop(x)
    BY <2>5, <1>1, <1>0 DEF Stop, Refused, Release, ActsOn, At, Goto, Budgets,
      Counting, Core, Staging, Launching, Appending, Adopting, Doing
  <2>6. CASE WaitStopped(x)
    BY <2>6, <1>1, <1>0 DEF WaitStopped, Refused, Release, At, Goto, Budgets, Counting,
      Core, Staging, Launching, Appending, Adopting, Doing
  <2>7. CASE PreWake(x)
    <3>1. budget' = budget
      BY <1>1, <2>7 DEF PreWake
    <3> QED BY <1>0, <1>1, <2>7, <3>1, PreWakeDoes DEF Budgets, Counting, Core, Staging, Launching, Appending, Adopting, Doing
  <2>8. CASE FinalReread(x)
    BY <2>8, <1>1, <1>0 DEF FinalReread, At, Goto, Budgets, Counting, Core, Staging,
      Launching, Appending, Adopting, Doing
  <2>9. CASE Wake(x)
    BY <2>9, <1>1, <1>0 DEF Wake, At, Goto, Budgets, Counting, Core, Staging,
      Launching, Appending, Adopting, Doing
  <2>10. CASE Verify(x)
    BY <2>10, <1>1, <1>0 DEF Verify, At, Goto, Budgets, Counting, Core, Staging,
      Launching, Appending, Adopting, Doing
  <2>11. CASE CopiesHandled(x)
    BY <2>11, <1>1, <1>0 DEF CopiesHandled, At, Goto, Budgets, Counting, Core, Staging,
      Launching, Appending, Adopting, Doing
  <2>12. ASSUME NEW c \in Session, StopCopy(x, c) PROVE Budgets(x)
    BY <2>12, <1>1, <1>0 DEF StopCopy, ActsOn, At, Goto, Budgets, Counting, Core,
      Staging, Launching, Appending, Adopting, Doing
  <2>13. ASSUME NEW c \in Session, RemoveCopy(x, c) PROVE Budgets(x)
    BY <2>13, <1>1, <1>0 DEF RemoveCopy, ActsOn, At, Goto, Budgets, Counting, Core,
      Staging, Launching, Appending, Adopting, Doing
  <2>14. ASSUME NEW c \in Session, LeaveCopy(x, c) PROVE Budgets(x)
    BY <2>14, <1>1, <1>0 DEF LeaveCopy, At, Goto, Budgets, Counting, Core, Staging,
      Launching, Appending, Adopting, Doing
  <2>15. CASE x \in Pass /\ AppendDelivered(x)
    BY <2>15, <1>1, <1>0 DEF AppendDelivered, ReadHandled, WriteHandled, Finish,
      Release, At, Goto, Budgets, Counting, Core, Staging, Launching, Appending,
      Adopting, Doing
  <2>16. CASE ClearMarker(x)
    BY <2>16, <1>1, <1>0 DEF ClearMarker, Finish, Release, SaveRecord, At, Goto,
      Budgets, Counting, Core, Staging, Launching, Appending, Adopting, Doing
  <2>17. CASE Halt(x)
    BY <2>17, <1>1, <1>0 DEF Halt, Finish, Release, At, Goto, Budgets, Counting, Core,
      Staging, Launching, Appending, Adopting, Doing
  <2> QED BY <1>1, <2>1, <2>2, <2>3, <2>4, <2>5, <2>6, <2>7, <2>8, <2>9, <2>10, <2>11,
      <2>12, <2>13, <2>14, <2>15, <2>16, <2>17 DEF CoreStep
<1>2. ASSUME x \in Cli, BeginRetask(x) \/ RetaskReturns(x), UNCHANGED watchVars PROVE Budgets(x)
  <2>1. CASE BeginRetask(x)
    BY <2>1, <1>2, <1>0 DEF BeginRetask, At, Goto, Budgets, Counting, Core, Staging,
      Launching, Appending, Adopting, Doing
  <2>2. CASE RetaskReturns(x)
    BY <2>2, <1>2, <1>0 DEF RetaskReturns, Finish, Release, At, Goto, Budgets,
      Counting, Core, Staging, Launching, Appending, Adopting, Doing
  <2> QED BY <1>2, <2>1, <2>2
<1>3. ASSUME x \in Pass, OwnStep(x) PROVE Budgets(x)
  <2>1. CASE PassFails(x)
    BY <2>1, <1>3, <1>0 DEF PassFails, PassEnds, Leaves, At, Goto, Budgets, Counting,
      Core, Staging, Launching, Appending, Adopting, Doing
  <2>2. CASE Search(x)
    BY <2>2, <1>3, <1>0 DEF Search, At, Goto, Budgets, Counting, Core, Staging,
      Launching, Appending, Adopting, Doing
  <2>3. CASE PruneOne(x)
    <3>1. budget' = budget
      BY <1>3, <2>3 DEF PruneOne
    <3> QED BY <1>0, <1>3, <2>3, <3>1, PruneOneDoes DEF Budgets, Counting, Core, Staging, Launching, Appending, Adopting, Doing
  <2>4. CASE TakePruneLock(x)
    BY <2>4, <1>3, <1>0 DEF TakePruneLock, TakeLock, Leaves, At, Goto, Budgets,
      Counting, Core, Staging, Launching, Appending, Adopting, Doing
  <2>5. CASE JudgeRecord(x)
    BY <2>5, <1>3, <1>0 DEF JudgeRecord, RemovesPlace, Leaves, Release, At, Goto,
      Budgets, Counting, Core, Staging, Launching, Appending, Adopting, Doing
  <2>6. CASE ForgetRecord(x)
    BY <2>6, <1>3, <1>0 DEF ForgetRecord, Leaves, Release, At, Goto, Budgets, Counting,
      Core, Staging, Launching, Appending, Adopting, Doing
  <2>7. CASE LoadHandled(x)
    BY <2>7, <1>3, <1>0 DEF LoadHandled, At, Goto, Budgets, Counting, Core, Staging,
      Launching, Appending, Adopting, Doing
  <2>8. CASE MakePlans(x)
    <3> DEFINE n == StageBudget(Cardinality({p \in PR : IsLive(p)}))
    <3>1. \/ pc[x] = "decide" /\ budget' = [budget EXCEPT ![x] = n]
          \/ pc'[x] \in {"start", "done"}
      BY <1>0, <2>8 DEF MakePlans, PassEnds, Leaves, Goto, At
    <3> HIDE DEF n
    <3>2. budget \in [Pass -> 0..PerRunBound]
      BY <1>0 DEF Typed, WatchTypeOK
    <3> QED BY <1>3, <3>1, <3>2 DEF n, Budgets, Counting, Core, Staging, Launching, Appending, Adopting, Doing
  <2>9. CASE NextPlan(x)
    <3>1. pc[x] \in {"next", "refused"}
      BY <1>0, <2>9, NextPlanDoes
    <3>2. CASE PassEnds(x)
      BY <1>0, <3>2 DEF PassEnds, Leaves, Goto, Budgets, Counting, Core, Staging, Launching, Appending, Adopting, Doing
    <3> QED BY <1>0, <2>9, <3>1, <3>2, NextPlanDoes DEF Budgets, Counting, Core, Staging, Launching, Appending, Adopting, Doing
  <2>10. CASE Provision(x)
    <3>1. budget' = budget
      BY <1>3, <2>10 DEF Provision
    <3> QED BY <1>0, <1>3, <2>10, <3>1, ProvisionDoes DEF Budgets, Counting, Core, Staging, Launching, Appending, Adopting, Doing
  <2>11. CASE Launch(x)
    <3>1. budget' = budget
      BY <1>3, <2>11 DEF Launch
    <3> QED BY <1>0, <1>3, <2>11, <3>1, LaunchDoes DEF Budgets, Counting, Core, Staging, Launching, Appending, Adopting, Doing
  <2>12. CASE Capture(x)
    <3>1. budget' = budget
      BY <1>3, <2>12 DEF Capture
    <3> QED BY <1>0, <1>3, <2>12, <3>1, CaptureDoes DEF Budgets, Counting, Core, Staging, Launching, Appending, Adopting, Doing
  <2>13. CASE RecordReview(x)
    BY <2>13, <1>3, <1>0 DEF RecordReview, SaveRecord, StageFails, RemovesPlace, At,
      Goto, Budgets, Counting, Core, Staging, Launching, Appending, Adopting, Doing
  <2>14. CASE AppendStaged(x)
    <3>1. pc[x] \in Appending
      BY <2>14 DEF AppendStaged, ReadHandled, At, Appending
    <3>2. \/ pc'[x] = "failed" \/ (pc[x] = "stageread" /\ pc'[x] = "stagewrite" /\ budget' = budget)
          \/ pc'[x] = "next" /\ budget' = [budget EXCEPT ![x] = @ - 1]
      BY <1>0, <2>14 DEF AppendStaged, ReadHandled, StageFails, Leaves, At, Goto
    <3>3. budget \in [Pass -> 0..PerRunBound]
      BY <1>0 DEF Typed, WatchTypeOK
    <3> QED BY <1>3, <3>1, <3>2, <3>3 DEF Budgets, Counting, Core, Staging, Launching, Appending, Adopting, Doing
  <2>15. CASE AppendAdopted(x)
    BY <2>15, <1>3, <1>0 DEF AppendAdopted, ReadHandled, WriteHandled, Leaves, At,
      Goto, Budgets, Counting, Core, Staging, Launching, Appending, Adopting, Doing
  <2> QED BY <1>3, <2>1, <2>2, <2>3, <2>4, <2>5, <2>6, <2>7, <2>8, <2>9, <2>10, <2>11,
      <2>12, <2>13, <2>14, <2>15 DEF OwnStep
<1> QED BY <1>1, <1>2, <1>3 DEF Acts

-----------------------------------------------------------------------------
(* The reviews that are there: launched for a pull request, not gone, in   *)
(* an instance that is.                                                    *)
Live(s) == of[s] # 0 /\ row[s] # "gone" /\ disk[root[s]]
NoneFor(p) == \A s \in Session : Live(s) => of[s] # p

(* As long as nothing goes wrong, each of them is shown by its pull        *)
(* request's record, or its pass is about to write that; ...               *)
Shown(s) == staged[HandleOf[of[s]]].sess = s /\ row[s] \notin {"unborn", "starting"}

AllShown ==
    \A s \in Session : Live(s) =>
        Shown(s) \/ \E x \in Pass : pc[x] \in Launching /\ Worker(x) = s

(* ... one of a pull request nobody has handled is being staged; ...       *)
NewsAreStaged ==
    \A s \in Session : Live(s) /\ handled[of[s]] = NeverHandled =>
        \E x \in Pass : pc[x] \in Launching \cup Appending /\ job[x].pr = of[s]

(* ... a pass that stages one, or is to, has none beside it; and what a    *)
(* pass has read of a record, in a sweep or for a plan, is still so.       *)
Staged(x) ==
    /\ pc[x] \in {"provision", "launch"} => NoneFor(job[x].pr)
    /\ pc[x] \in Launching => \A s \in Session : Live(s) /\ of[s] = job[x].pr => s = Worker(x)
    /\ pc[x] = "record" => Worker(x) \in Session /\ row[Worker(x)] \notin {"unborn", "starting"}
    /\ pc[x] \in Appending => staged[HandleOf[job[x].pr]].inst = Place(x)

Swept(x) ==
    /\ pc[x] \in Pruning => staged[HandleOf[job[x].pr]] = job[x].rec
    /\ pc[x] = "forget" => ~disk[Place(x)]

StillSo(x) ==
    /\ pc[x] \in Core => staged[HandleOf[job[x].pr]].sess = Worker(x)
    /\ pc[x] \in Counting =>
           \A q \in plans[x] :
               /\ q.kind = "Continue" => staged[HandleOf[q.pr]].sess = q.rec.sess
               /\ q.kind = "Fresh" => NoneFor(q.pr)

Solo(x) == Staged(x) /\ Swept(x) /\ StillSo(x)

Single == AllShown /\ NewsAreStaged /\ \A x \in Pass : Solo(x)

HandlesDiffer == \A p, q \in PR : HandleOf[p] = HandleOf[q] => p = q

LEMMA LivesStay ==
    ASSUME Typed, Placed, Known, BornStay, Ages, NEW s \in Session, of'[s] = of[s], Live(s)'
    PROVE  Live(s) /\ root'[s] = root[s] /\ root[s] \in Instance /\ of[s] \in PR
<1>1. of[s] # 0 /\ row'[s] # "gone" /\ disk'[root'[s]]
  BY DEF Live
<1>2. row[s] # "unborn" /\ of[s] \in PR
  BY <1>1 DEF Known, NewAreUnknown, Typed, RetaskTypeOK
<1>3. root'[s] = root[s] /\ root[s] \in Instance
  BY <1>2 DEF BornStay, Placed, Rooted
<1>4. row[s] # "gone"
  BY <1>1 DEF Ages
<1>5. disk[root[s]]
  BY <1>1, <1>3, <1>4 DEF Ages
<1> QED BY <1>1, <1>2, <1>3, <1>4, <1>5 DEF Live

(* A review that is there was there, or has just been launched.            *)
LEMMA LivesMove ==
    ASSUME Typed, Placed, Known, NEW x \in Pass, BornStay, Ages, Stages(x), LaunchMoves(x),
           NEW s \in Session, Live(s)'
    PROVE  \/ /\ Live(s) /\ of'[s] = of[s] /\ of[s] \in PR
              /\ root'[s] = root[s] /\ root[s] \in Instance
           \/ /\ pc[x] = "launch" /\ pc'[x] = "capture" /\ job'[x].sess = s
              /\ of'[s] = job[x].pr /\ job'[x].pr = job[x].pr
<1>1. CASE of' = of
  BY <1>1, LivesStay
<1>2. CASE pc[x] = "launch" /\ pc'[x] = "capture"
  <2>1. /\ job'[x].pr = job[x].pr
        /\ \E t \in Session : job'[x].sess = t /\ of' = [of EXCEPT ![t] = job[x].pr]
    BY <1>2 DEF LaunchMoves, Launching
  <2>2. PICK t \in Session : job'[x].sess = t /\ of' = [of EXCEPT ![t] = job[x].pr]
    BY <2>1
  <2>3. of \in [Session -> PR \cup {0}]
    BY DEF Typed, RetaskTypeOK
  <2>4. CASE s = t
    BY <1>2, <2>1, <2>2, <2>3, <2>4
  <2>5. CASE s # t
    <3>1. of'[s] = of[s]
      BY <2>2, <2>3, <2>5
    <3> QED BY <3>1, LivesStay
  <2> QED BY <2>4, <2>5
<1> QED BY <1>1, <1>2 DEF Stages

LEMMA NamedIs ==
    ASSUME Typed, Known, NEW h \in Handle, NEW s \in Session, staged[h].sess = s
    PROVE  staged[h] \in Record /\ root[s] = staged[h].inst /\ of[s] = staged[h].pr /\ HandleOf[of[s]] = h
<1>1. s # None
  BY NumberedNames DEF NumberedNames
<1>2. staged[h] # NoRecord
  BY <1>1 DEF NoRecord
<1>3. staged[h] \in Record /\ Names(staged[h]) /\ HandleOf[staged[h].pr] = h
  BY <1>2 DEF Typed, WorldTypeOK, Known, RecordsName
<1> QED BY <1>1, <1>3 DEF Names

LEMMA ShownStays ==
    ASSUME HandlesDiffer, Typed, Placed, Known, Single, NEW x \in Pass, StepOf(x), Ages, Stages(x),
           mishaps' = {}
    PROVE  AllShown'
<1>0. /\ BornStay /\ LaunchMoves(x) /\ \A y \in Pass \ {x} : SameFor(y)
      /\ \A h \in Handle : WritesOf(x, h)
      /\ AllShown /\ Solo(x) /\ Reads(x) /\ None \notin Session
  BY NumberedNames DEF StepOf, Single, Placed, NumberedNames
<1> SUFFICES ASSUME NEW s \in Session, Live(s)'
             PROVE  Shown(s)' \/ \E y \in Pass : pc'[y] \in Launching /\ job'[y].sess = s
  BY DEF AllShown, Worker
<1>1. CASE pc'[x] = "capture" /\ job'[x].sess = s
  BY <1>1 DEF Launching
<1>2. CASE /\ Live(s) /\ of'[s] = of[s] /\ of[s] \in PR
           /\ root'[s] = root[s] /\ root[s] \in Instance
  <2> DEFINE h == HandleOf[of[s]]
  <2>0. h \in Handle /\ WritesOf(x, h)
    BY <1>0, <1>2, HandlesAreOfPRs
  <2>1. ASSUME NEW y \in Pass, pc[y] \in Launching, Worker(y) = s
        PROVE  Shown(s)' \/ \E z \in Pass : pc'[z] \in Launching /\ job'[z].sess = s
    <3>1. CASE y # x
      BY <1>0, <2>1, <3>1 DEF SameFor, Worker
    <3>2. CASE y = x /\ pc'[x] \in Launching
      <4>1. pc'[x] = "record" /\ job'[x] = job[x]
        BY <2>1, <3>2 DEF Stages, Launching
      <4> QED BY <2>1, <3>2, <4>1 DEF Worker
    <3>3. CASE y = x /\ pc'[x] \in Appending
      <4>1. /\ pc[x] = "record" /\ staged'[HandleOf[job[x].pr]].sess = s
            /\ row[s] \notin {"unborn", "starting"}
        BY <1>0, <2>1, <3>3 DEF Stages, Launching, Appending, Solo, Staged
      <4>2. job[x].pr = of[s]
        BY <1>0, <2>1, <3>3 DEF Known, PassesName, Names, Worker
      <4>3. row'[s] \notin {"unborn", "starting"}
        BY <4>1 DEF Ages
      <4> QED BY <1>2, <4>1, <4>2, <4>3 DEF Shown
    <3>4. CASE y = x /\ pc'[x] \notin Launching \cup Appending
      <4>1. ~disk'[Place(x)]
        BY <2>1, <3>4 DEF Stages, Launching, Appending
      <4>2. root[s] = Place(x)
        BY <1>0, <2>1, <3>4 DEF Known, PassesName, Names, Worker, Place
      <4> QED BY <1>2, <4>1, <4>2 DEF Live
    <3> QED BY <3>1, <3>2, <3>3, <3>4
  <2>2. CASE Shown(s)
    <3>1. staged[h].sess = s /\ row'[s] \notin {"unborn", "starting"}
      BY <2>2 DEF Shown, Ages
    <3>2. CASE staged'[h] = staged[h]
      BY <1>2, <3>1, <3>2 DEF Shown
    <3>3. CASE pc[x] = "forget" /\ h = HandleOf[job[x].pr]
      <4>1. staged[h] = job[x].rec /\ ~disk[Place(x)] /\ Place(x) = job[x].rec.inst
        BY <1>0, <3>3 DEF Solo, Swept, Pruning, Reads, Place
      <4>2. root[s] = staged[h].inst
        BY <2>0, <3>1, NamedIs
      <4> QED BY <1>2, <4>1, <4>2 DEF Live
    <3>4. CASE /\ h = HandleOf[job[x].pr] /\ staged'[h].sess = Worker(x)
               /\ pc[x] \in {"prewake", "postsave", "postrefused"}
      <4>1. staged[h].sess = Worker(x)
        BY <1>0, <3>4 DEF Solo, StillSo, Core
      <4> QED BY <1>2, <3>1, <3>4, <4>1 DEF Shown
    <3>5. CASE /\ h = HandleOf[job[x].pr] /\ staged'[h].sess = Worker(x) /\ pc[x] = "record"
      <4>1. job[x].pr \in PR
        BY <1>0, <3>5 DEF Reads, Staging, Launching
      <4>2. job[x].pr = of[s]
        BY <1>2, <3>5, <4>1 DEF HandlesDiffer
      <4>3. s = Worker(x)
        BY <1>0, <1>2, <3>5, <4>2 DEF Solo, Staged, Launching
      <4> QED BY <1>2, <3>1, <3>5, <4>3 DEF Shown
    <3> QED BY <2>0, <3>2, <3>3, <3>4, <3>5 DEF WritesOf
  <2> QED BY <1>0, <1>2, <2>1, <2>2 DEF AllShown
<1> QED BY <1>0, <1>1, <1>2, LivesMove

LEMMA NewsStay ==
    ASSUME HandlesDiffer, Typed, Placed, Known, Single, Alone, NEW x \in Pass, StepOf(x),
           HeadMoves(x), PlanMoves(x), Ages, Stages(x), mishaps' = {}
    PROVE  NewsAreStaged'
<1>0. /\ BornStay /\ LaunchMoves(x) /\ \A y \in Pass \ {x} : SameFor(y)
      /\ AllShown /\ NewsAreStaged /\ Solo(x) /\ Reads(x)
  BY DEF StepOf, Single, Placed
<1> SUFFICES ASSUME NEW s \in Session, Live(s)', handled'[of'[s]] = NeverHandled
             PROVE  \E y \in Pass : pc'[y] \in Launching \cup Appending /\ job'[y].pr = of'[s]
  BY DEF NewsAreStaged
<1>1. CASE pc'[x] = "capture" /\ job'[x].pr = of'[s]
  BY <1>1 DEF Launching
<1>2. CASE /\ Live(s) /\ of'[s] = of[s] /\ of[s] \in PR
           /\ root'[s] = root[s] /\ root[s] \in Instance
  <2>1. handled[of[s]] = NeverHandled
    <3>1. handled[of[s]] <= handled'[of[s]]
      BY <1>2, HeadsGrow
    <3>2. handled[of[s]] \in {-1, 0} \cup Sha /\ handled[of[s]] \in Int /\ \A n \in Sha : n \in Nat
      BY <1>2, HeadsCompare
    <3>3. handled'[of[s]] = -1
      BY <1>2 DEF NeverHandled
    <3> QED BY <3>1, <3>2, <3>3 DEF NeverHandled
  <2>2. PICK y \in Pass : pc[y] \in Launching \cup Appending /\ job[y].pr = of[s]
    BY <1>0, <1>2, <2>1 DEF NewsAreStaged
  <2>3. CASE y # x
    BY <1>0, <1>2, <2>2, <2>3 DEF SameFor
  <2>4. CASE y = x /\ pc'[x] \in Launching \cup Appending
    <3>1. job'[x].pr = job[x].pr
      <4>1. pc'[x] \in Doing /\ pc[x] \notin {"next", "refused"}
        BY <2>2, <2>4 DEF Doing, Staging, Launching, Appending
      <4> QED BY <4>1 DEF PlanMoves
    <3> QED BY <1>2, <2>2, <2>4, <3>1
  <2>5. CASE y = x /\ pc'[x] \notin Launching \cup Appending
    <3>1. CASE ~disk'[Place(x)]
      <4>1. CASE pc[x] \in Launching
        <5>1. s = Worker(x) /\ s # None
          BY <1>0, <1>2, <2>2, <2>5, <4>1, NamesAreNumbers DEF Solo, Staged
        <5>2. root[s] = Place(x)
          BY <4>1, <5>1 DEF Known, PassesName, Names, Worker, Place
        <5> QED BY <1>2, <3>1, <5>2 DEF Live
      <4>2. CASE pc[x] \in Appending
        <5>1. ASSUME NEW z \in Pass, pc[z] \in Launching PROVE FALSE
          <6>1. z # x /\ ~Idle(z) /\ ~Idle(x)
            BY <4>2, <5>1 DEF Launching, Appending, Idle
          <6> QED BY <6>1 DEF Alone, OnePass
        <5>2. staged[HandleOf[of[s]]].sess = s /\ HandleOf[of[s]] \in Handle
          BY <1>0, <1>2, <5>1, HandlesAreOfPRs DEF AllShown, Shown
        <5>3. root[s] = staged[HandleOf[of[s]]].inst
          BY <5>2, NamedIs
        <5>4. root[s] = Place(x)
          BY <1>0, <2>2, <2>5, <4>2, <5>3 DEF Solo, Staged
        <5> QED BY <1>2, <3>1, <5>4 DEF Live
      <4> QED BY <2>2, <2>5, <4>1, <4>2
    <3>2. CASE /\ pc[x] = "stagewrite" /\ pc'[x] = "next"
               /\ \/ buf[x][job[x].pr] = job[x].h /\ handled' = handled
                  \/ handled' = [buf[x] EXCEPT ![job[x].pr] = job[x].h]
      <4>1. /\ job[x].pr \in PR /\ job[x].h \in Sha /\ buf[x] = handled
            /\ handled \in [PR -> {NeverHandled, UnknownHead} \cup Sha]
        BY <1>0, <3>2 DEF Reads, Staging, Appending, Alone, Current, Writing, Typed, WorldTypeOK
      <4>2. handled'[job[x].pr] = job[x].h
        BY <3>2, <4>1
      <4>3. job[x].h # NeverHandled
        BY <4>1, HeadsAreNumbers DEF NeverHandled
      <4> QED BY <1>2, <2>2, <2>5, <4>2, <4>3
    <3> QED BY <2>2, <2>5, <3>1, <3>2 DEF Stages
  <2> QED BY <2>3, <2>4, <2>5
<1> QED BY <1>0, <1>1, <1>2, LivesMove

LEMMA StagedStays ==
    ASSUME Typed, Placed, Known, Single, NEW x \in Pass, StepOf(x), Ages, Stages(x),
           mishaps' = {}
    PROVE  Staged(x)'
<1>0. /\ BornStay /\ LaunchMoves(x) /\ Staged(x) /\ StillSo(x) /\ Reads(x)
      /\ \A h \in Handle : WritesOf(x, h)
  BY DEF StepOf, Single, Placed, Solo
<1>1. ASSUME pc'[x] \in {"provision", "launch"}
      PROVE  \A s \in Session : Live(s)' => of'[s] # job'[x].pr
  <2>1. NoneFor(job'[x].pr)
    <3>1. CASE pc[x] = "provision" /\ job'[x].pr = job[x].pr
      BY <1>0, <3>1 DEF Staged
    <3>2. CASE pc[x] \in {"next", "refused"} /\ \E q \in plans[x] : q.kind = "Fresh" /\ job'[x].pr = q.pr
      BY <1>0, <3>2 DEF StillSo, Counting
    <3> QED BY <1>1, <3>1, <3>2 DEF Stages
  <2>2. ASSUME NEW s \in Session, Live(s)' PROVE of'[s] # job'[x].pr
    <3>1. Live(s) /\ of'[s] = of[s]
      BY <1>0, <1>1, <2>2, LivesMove
    <3> QED BY <2>1, <3>1 DEF NoneFor
  <2> QED BY <2>2
<1>2. ASSUME pc'[x] \in Launching, NEW s \in Session, Live(s)', of'[s] = job'[x].pr
      PROVE  s = job'[x].sess
  <2>1. CASE pc'[x] = "capture"
    <3>1. /\ pc[x] = "launch" /\ job'[x].pr = job[x].pr
          /\ \A t \in Session : Live(t) => of[t] # job[x].pr
      BY <1>0, <2>1 DEF Stages, LaunchMoves, Launching, Staged, NoneFor
    <3> QED BY <1>0, <1>2, <3>1, LivesMove
  <2>2. CASE pc'[x] = "record"
    <3>1. pc[x] = "capture" /\ job'[x] = job[x]
      BY <2>2 DEF Stages
    <3>2. Live(s) /\ of'[s] = of[s]
      BY <1>0, <1>2, <3>1, LivesMove
    <3> QED BY <1>0, <1>2, <3>1, <3>2 DEF Staged, Launching, Worker
  <2> QED BY <1>2, <2>1, <2>2 DEF Launching
<1>3. ASSUME pc'[x] = "record"
      PROVE  job'[x].sess \in Session /\ row'[job'[x].sess] \notin {"unborn", "starting"}
  BY <1>0, <1>3 DEF Stages, Listed, Worker, Reads
<1>4. ASSUME pc'[x] \in Appending
      PROVE  staged'[HandleOf[job'[x].pr]].inst = job'[x].inst
  <2>1. CASE pc[x] = "record"
    BY <1>4, <2>1 DEF Stages, Place
  <2>2. CASE pc[x] = "stageread"
    <3>1. job[x].pr \in PR /\ HandleOf[job[x].pr] \in Handle
      BY <1>0, <2>2, HandlesAreOfPRs DEF Reads, Staging, Appending
    <3>2. staged'[HandleOf[job[x].pr]] = staged[HandleOf[job[x].pr]]
      BY <1>0, <2>2, <3>1 DEF WritesOf
    <3> QED BY <1>0, <1>4, <2>2, <3>2 DEF Stages, Staged, Appending, Place
  <2> QED BY <1>4, <2>1, <2>2 DEF Stages
<1> QED BY <1>1, <1>2, <1>3, <1>4 DEF Staged, NoneFor, Worker, Place

LEMMA SweptStays ==
    ASSUME Typed, Placed, Known, Single, NEW x \in Pass, Stages(x), Sweeps(x), mishaps' = {}
    PROVE  Swept(x)'
<1>0. Swept(x)
  BY DEF Single, Solo
<1>1. ASSUME pc'[x] \in Pruning PROVE staged'[HandleOf[job'[x].pr]] = job'[x].rec
  <2>1. CASE pc[x] \in Pruning /\ job'[x] = job[x]
    BY <1>0, <1>1, <2>1 DEF Swept, Sweeps
  <2>2. CASE /\ job'[x].rec \in Record /\ job'[x].pr = job'[x].rec.pr
             /\ \E h \in Handle : staged[h] = job'[x].rec
    <3>1. PICK h \in Handle : staged[h] = job'[x].rec
      BY <2>2
    <3>2. HandleOf[staged[h].pr] = h
      BY <2>2, <3>1, RecordFields DEF Known, RecordsName
    <3> QED BY <1>1, <2>2, <3>1, <3>2 DEF Sweeps
  <2> QED BY <1>1, <2>1, <2>2 DEF Sweeps
<1>2. ASSUME pc'[x] = "forget" PROVE ~disk'[job'[x].inst]
  BY <1>2 DEF Sweeps, Place
<1> QED BY <1>1, <1>2 DEF Swept, Place

(* A review that is shown makes its pull request count as live.            *)
LEMMA ShownAreLive ==
    ASSUME Typed, Known, NEW s \in Session, Live(s), Shown(s)
    PROVE  IsLive(of[s]) /\ of[s] \in PR
<1> DEFINE r == staged[HandleOf[of[s]]]
<1>0. of[s] \in PR
  BY DEF Live, Typed, RetaskTypeOK
<1>1. r.sess = s /\ HandleOf[of[s]] \in Handle /\ Listed(s)
  BY <1>0, HandlesAreOfPRs DEF Shown, Live, Listed
<1>2. r \in Record /\ root[s] = r.inst /\ r.pr = of[s]
  BY <1>1, NamedIs
<1>3. HasLiveJob(r.inst)
  BY <1>1, <1>2 DEF HasLiveJob, LiveIn
<1>4. r \in StagedFor(of[s])
  BY <1>1, <1>2, RecordFields DEF StagedFor
<1> QED BY <1>0, <1>3, <1>4 DEF IsLive

(* What a pass decides to stage has no review, what it decides to continue *)
(* is what is recorded.                                                    *)
LEMMA DecidesSingly ==
    ASSUME Typed, Placed, Known, Single, Alone, NEW x \in Pass, pc[x] = "decide", NEW q \in Decide(x)
    PROVE  /\ q.kind = "Continue" => staged[HandleOf[q.pr]] = q.rec
           /\ q.kind = "Fresh" => NoneFor(q.pr)
<1>0. req[x] \subseteq PR /\ known[x] = handled /\ AllShown /\ NewsAreStaged
  BY DEF Typed, WatchTypeOK, Alone, Current, Single
<1>1. q.pr \in PR /\ q.kind = DecideKind(x, q.pr) /\ (q.kind = "Continue" => q.rec = ContinuableRecord(q.pr))
  BY <1>0, DecidedIs
<1>2. ASSUME q.kind = "Continue" PROVE staged[HandleOf[q.pr]] = q.rec
  <2>1. ContinuableRecord(q.pr) # NoRecord
    BY <1>1, <1>2, KindIs
  <2>2. PICK h \in Handle : staged[h] = q.rec /\ q.rec.pr = q.pr /\ q.rec # NoRecord
    BY <1>1, <1>2, <2>1, ContinuableIs
  <2> QED BY <2>2 DEF Known, RecordsName
<1>3. ASSUME q.kind = "Fresh", NEW s \in Session, Live(s), of[s] = q.pr PROVE FALSE
  <2>1. ASSUME NEW z \in Pass, pc[z] \in Launching \cup Appending PROVE FALSE
    <3>1. z # x /\ ~Idle(z) /\ ~Idle(x)
      BY <2>1 DEF Launching, Appending, Idle
    <3> QED BY <3>1 DEF Alone, OnePass
  <2>2. handled[q.pr] # NeverHandled
    BY <1>0, <1>3, <2>1 DEF NewsAreStaged
  <2>3. ~IsLive(q.pr)
    BY <1>0, <1>1, <1>3, <2>2, KindIs
  <2>4. Shown(s)
    BY <1>0, <1>3, <2>1 DEF AllShown
  <2> QED BY <1>3, <2>3, <2>4, ShownAreLive
<1> QED BY <1>2, <1>3 DEF NoneFor

(* What a pass has read of the records, and what it is yet to do, is still *)
(* so: it writes the record of what it is about, and has no other plan for *)
(* that pull request.                                                      *)
LEMMA StillSoStays ==
    ASSUME HandlesDiffer, Typed, Placed, Known, Single, Alone, NEW x \in Pass, StepOf(x),
           PlanMoves(x), Ages, Stages(x)
    PROVE  StillSo(x)'
<1>0. /\ BornStay /\ LaunchMoves(x) /\ PassMoves(x) /\ StillSo(x) /\ Reads(x) /\ Current(x)
      /\ \A h \in Handle : WritesOf(x, h)
      /\ plans[x] \subseteq Plan
  BY DEF StepOf, Single, Placed, Solo, Alone, Typed, WatchTypeOK
<1>1. ASSUME pc'[x] \in Core PROVE staged'[HandleOf[job'[x].pr]].sess = job'[x].sess
  <2>1. CASE pc[x] \in Core /\ SameJob(x)
    <3> DEFINE h == HandleOf[job[x].pr]
    <3>1. h \in Handle /\ staged[h].sess = Worker(x) /\ WritesOf(x, h)
      BY <1>0, <2>1, HandlesAreOfPRs DEF StillSo, Reads
    <3>2. staged'[h].sess = Worker(x)
      BY <2>1, <3>1 DEF WritesOf, Core
    <3> QED BY <2>1, <3>2 DEF SameJob, Worker
  <2>2. ASSUME NEW q \in plans[x], Continues(x, q)
        PROVE  staged'[HandleOf[job'[x].pr]].sess = job'[x].sess
    <3> DEFINE h == HandleOf[q.pr]
    <3>1. /\ pc[x] \in {"next", "refused"} /\ q.kind = "Continue" /\ q.pr \in PR
          /\ job'[x].pr = q.pr /\ job'[x].sess = q.rec.sess
      BY <2>2 DEF Continues, Plan
    <3>2. h \in Handle /\ staged[h].sess = q.rec.sess /\ WritesOf(x, h)
      BY <1>0, <3>1, HandlesAreOfPRs DEF StillSo, Counting
    <3>3. staged'[h] = staged[h]
      BY <3>1, <3>2 DEF WritesOf
    <3> QED BY <3>1, <3>2, <3>3
  <2> QED BY <1>0, <1>1, <2>1, <2>2 DEF PassMoves
<1>2. ASSUME pc'[x] \in Counting, NEW q \in plans'[x]
      PROVE  /\ q.kind = "Continue" => staged'[HandleOf[q.pr]].sess = q.rec.sess
             /\ q.kind = "Fresh" => \A s \in Session : Live(s)' => of'[s] # q.pr
  <2>1. \/ pc[x] \in Counting /\ q \in plans[x]
        \/ pc[x] = "decide" /\ q \in Decide(x)
    BY <1>2 DEF PlanMoves, Counting
  <2>2. /\ q.pr \in PR
        /\ q.kind = "Continue" => staged[HandleOf[q.pr]].sess = q.rec.sess
        /\ q.kind = "Fresh" => NoneFor(q.pr)
    <3>1. CASE pc[x] \in Counting /\ q \in plans[x]
      BY <1>0, <3>1 DEF StillSo, Plan
    <3>2. CASE pc[x] = "decide" /\ q \in Decide(x)
      <4>1. q.pr \in PR
        BY <3>2, PlansAreTyped DEF Plan
      <4> QED BY <3>2, <4>1, DecidesSingly
    <3> QED BY <2>1, <3>1, <3>2
  <2>3. /\ pc[x] \in Doing => q.pr # job[x].pr /\ job[x].pr \in PR
        /\ pc[x] # "forget"
    <3>1. pc[x] \in Doing => pc[x] # "decide"
      BY DEF Doing, Core, Staging, Launching, Appending, Adopting
    <3>2. pc[x] \in Doing => q.pr # job[x].pr
      BY <1>0, <2>1, <3>1 DEF Current
    <3>3. pc[x] \in Doing => job[x].pr \in PR
      BY HeadsCompare
    <3>4. pc[x] # "forget"
      BY <2>1 DEF Counting, Doing, Core, Staging, Launching, Appending, Adopting
    <3> QED BY <3>2, <3>3, <3>4
  <2>4. staged'[HandleOf[q.pr]].sess = staged[HandleOf[q.pr]].sess
    <3>1. HandleOf[q.pr] \in Handle /\ WritesOf(x, HandleOf[q.pr])
      BY <1>0, <2>2, HandlesAreOfPRs
    <3>2. ASSUME pc[x] \in {"prewake", "postsave", "postrefused", "record"},
                 HandleOf[q.pr] = HandleOf[job[x].pr]
          PROVE  FALSE
      <4>1. pc[x] \in Doing
        BY <3>2 DEF Doing, Core, Staging, Launching
      <4> QED BY <2>2, <2>3, <3>2, <4>1 DEF HandlesDiffer
    <3> QED BY <2>3, <3>1, <3>2 DEF WritesOf
  <2>5. ASSUME q.kind = "Fresh", NEW s \in Session, Live(s)' PROVE of'[s] # q.pr
    <3>1. CASE Live(s) /\ of'[s] = of[s]
      BY <2>2, <2>5, <3>1 DEF NoneFor
    <3>2. CASE pc[x] = "launch" /\ of'[s] = job[x].pr
      BY <2>3, <3>2 DEF Doing, Staging
    <3> QED BY <1>0, <2>5, <3>1, <3>2, LivesMove
  <2> QED BY <2>2, <2>4, <2>5
<1> QED BY <1>1, <1>2 DEF StillSo, NoneFor, Worker

(* ... or begins, and whatever else changes is not what a pass relies on.  *)
LEMMA SoloStays ==
    ASSUME Typed, Placed, NEW y \in Pass, SameFor(y), Solo(y), Ages,
           \A h \in Handle : staged'[h] = staged[h], \A i \in Instance : disk'[i] => disk[i],
           \A s \in Session : Live(s)' => Live(s) /\ of'[s] = of[s]
    PROVE  Solo(y)'
<1>0. /\ pc'[y] = pc[y] /\ job'[y] = job[y] /\ plans'[y] = plans[y] /\ Reads(y)
      /\ plans[y] \subseteq Plan
  BY DEF SameFor, Placed, Typed, WatchTypeOK
<1>1. /\ pc[y] \in Core \cup Pruning \cup Appending => HandleOf[job[y].pr] \in Handle
      /\ pc[y] = "forget" => Place(y) \in Instance
  <2>1. pc[y] \in Core \cup Pruning \cup Appending => job[y].pr \in PR
    BY <1>0, RecordFields DEF Reads, Staging
  <2>2. pc[y] = "forget" => Place(y) \in Instance
    BY <1>0, RecordFields DEF Reads, Pruning, Place
  <2> QED BY <2>1, <2>2, HandlesAreOfPRs
<1>2. Staged(y)'
  <2>1. pc[y] \in {"provision", "launch"} => \A s \in Session : Live(s)' => of'[s] # job[y].pr
    BY DEF Solo, Staged, NoneFor
  <2>2. pc[y] \in Launching => \A s \in Session : Live(s)' /\ of'[s] = job[y].pr => s = Worker(y)
    BY DEF Solo, Staged
  <2>3. pc[y] = "record" => Worker(y) \in Session /\ row'[Worker(y)] \notin {"unborn", "starting"}
    BY DEF Solo, Staged, Ages
  <2>4. pc[y] \in Appending => staged'[HandleOf[job[y].pr]].inst = Place(y)
    BY <1>1 DEF Solo, Staged
  <2> QED BY <1>0, <2>1, <2>2, <2>3, <2>4 DEF Staged, NoneFor, Worker, Place
<1>3. Swept(y)'
  <2>1. pc[y] \in Pruning => staged'[HandleOf[job[y].pr]] = job[y].rec
    BY <1>1 DEF Solo, Swept
  <2>2. pc[y] = "forget" => ~disk'[Place(y)]
    BY <1>1 DEF Solo, Swept
  <2> QED BY <1>0, <2>1, <2>2 DEF Swept, Place
<1>4. StillSo(y)'
  <2>1. pc[y] \in Core => staged'[HandleOf[job[y].pr]].sess = Worker(y)
    BY <1>1 DEF Solo, StillSo
  <2>2. ASSUME pc[y] \in Counting, NEW q \in plans[y]
        PROVE  /\ q.kind = "Continue" => staged'[HandleOf[q.pr]].sess = q.rec.sess
               /\ q.kind = "Fresh" => \A s \in Session : Live(s)' => of'[s] # q.pr
    <3>1. HandleOf[q.pr] \in Handle
      BY <1>0, HandlesAreOfPRs DEF Plan
    <3> QED BY <2>2, <3>1 DEF Solo, StillSo, NoneFor
  <2> QED BY <1>0, <2>1, <2>2 DEF StillSo, NoneFor, Worker
<1> QED BY <1>2, <1>3, <1>4 DEF Solo

LEMMA OthersStaySolo ==
    ASSUME Typed, Placed, Known, Single, Alone, NEW x \in Pass, NEW y \in Pass \ {x},
           StepOf(x), Ages, Stages(x)
    PROVE  Solo(y)'
<1>0. SameFor(y) /\ Solo(y) /\ BornStay /\ LaunchMoves(x) /\ \A h \in Handle : WritesOf(x, h)
  BY DEF StepOf, Single
<1>1. CASE Idle(y)
  <2>1. pc'[y] \in {"start", "done"}
    BY <1>0, <1>1 DEF Idle, SameFor
  <2> QED BY <2>1 DEF Solo, Staged, Swept, StillSo, Counting, Doing, Core, Pruning, Staging,
      Launching, Appending, Adopting
<1>2. CASE Idle(x)
  <2>1. /\ \A h \in Handle : staged'[h] = staged[h]
        /\ \A i \in Instance : disk'[i] => disk[i]
    BY <1>0, <1>2 DEF Idle, WritesOf, Stages
  <2>2. \A s \in Session : Live(s)' => Live(s) /\ of'[s] = of[s]
    BY <1>0, <1>2, LivesMove DEF Idle
  <2> QED BY <1>0, <2>1, <2>2, SoloStays
<1> QED BY <1>1, <1>2 DEF Alone, OnePass

SingleInv == mishaps = {} => Single

LEMMA SingleByPasses ==
    ASSUME HandlesDiffer, Typed, Placed, Known, AloneInv, SingleInv, NEW x \in Pass, Acts(x)
    PROVE  SingleInv'
<1>1. HeadMoves(x) /\ PlanMoves(x) /\ Ages /\ Stages(x) /\ Sweeps(x) /\ StepOf(x)
  BY HeadsMove, PlansMove, AgesByCallers, StagesMove, SweepsMove, CallersStep
<1>2. ASSUME mishaps' = {} PROVE Single'
  <2>1. Single /\ Alone
    BY <1>1, <1>2 DEF HeadMoves, SingleInv, AloneInv
  <2>2. AllShown' /\ NewsAreStaged'
    BY <1>1, <1>2, <2>1, ShownStays, NewsStay
  <2>3. Solo(x)'
    BY <1>1, <1>2, <2>1, StagedStays, SweptStays, StillSoStays DEF Solo
  <2>4. \A y \in Pass \ {x} : Solo(y)'
    BY <1>1, <2>1, OthersStaySolo
  <2>5. \A y \in Pass : Solo(y)'
    BY <2>3, <2>4
  <2> QED BY <2>2, <2>5 DEF Single
<1> QED BY <1>2 DEF SingleInv

LEMMA SingleElsewhere ==
    ASSUME Typed, Placed, Known, SingleInv, BornStay, Ages, UNCHANGED <<handled, mishaps, disk, of>>,
           \A h \in Handle : staged'[h] = staged[h], \A y \in Pass : SameFor(y)
    PROVE  SingleInv'
<1> SUFFICES ASSUME Single PROVE Single'
  BY DEF SingleInv
<1>1. \A s \in Session : Live(s)' => Live(s) /\ of'[s] = of[s]
  BY LivesStay
<1>2. \A y \in Pass : Solo(y)'
  <2>1. \A i \in Instance : disk'[i] => disk[i]
    OBVIOUS
  <2> QED BY <1>1, <2>1, SoloStays DEF Single
<1>3. \A y \in Pass : pc'[y] = pc[y] /\ job'[y] = job[y]
  BY DEF SameFor
<1>4. AllShown'
  <2> SUFFICES ASSUME NEW s \in Session, Live(s)'
               PROVE  \/ staged'[HandleOf[of'[s]]].sess = s /\ row'[s] \notin {"unborn", "starting"}
                      \/ \E y \in Pass : pc'[y] \in Launching /\ job'[y].sess = s
    BY DEF AllShown, Shown, Worker
  <2>1. Live(s) /\ of'[s] = of[s] /\ of[s] \in PR
    BY LivesStay
  <2>2. CASE Shown(s)
    <3>1. staged'[HandleOf[of[s]]] = staged[HandleOf[of[s]]]
      BY <2>1, HandlesAreOfPRs
    <3>2. row'[s] \notin {"unborn", "starting"}
      BY <2>2 DEF Shown, Ages
    <3> QED BY <2>1, <2>2, <3>1, <3>2 DEF Shown
  <2>3. CASE \E y \in Pass : pc[y] \in Launching /\ Worker(y) = s
    BY <1>3, <2>3 DEF Worker
  <2> QED BY <2>1, <2>2, <2>3 DEF Single, AllShown
<1>5. NewsAreStaged'
  BY <1>1, <1>3 DEF Single, NewsAreStaged
<1> QED BY <1>2, <1>4, <1>5 DEF Single

LEMMA AgesElsewhere ==
    ASSUME Typed, Placed, (\E x \in Caller : Crash(x)) \/ UserStarts \/ WorldStep
    PROVE  Ages
<1>0. WorldTypeOK
  BY DEF Typed
<1>1. ASSUME NEW x \in Caller, Crash(x) PROVE Ages
  BY <1>1 DEF Crash, Ages
<1>2. ASSUME UserStarts PROVE Ages
  <2>1. PICK s \in Session, i \in Instance : row[s] = "unborn" /\ Born(s, i, "working") /\ disk' = disk
    BY <1>2, UserStartsKeeps
  <2> QED BY <1>0, <2>1 DEF Born, Ages, WorldTypeOK
<1>3. ASSUME WorldStep PROVE Ages
  <2>1. AgentMoves /\ disk' = disk
    BY <1>3, WorldStepKeeps
  <2> QED BY <1>0, <2>1 DEF AgentMoves, Ages, WorldTypeOK, RowState
<1> QED BY <1>1, <1>2, <1>3

LEMMA NextKeepsSingle ==
    ASSUME HandlesDiffer, Typed, Placed, Locked, Known, AloneInv, SingleInv, Next
    PROVE  SingleInv'
<1>1. ASSUME NEW x \in Pass, Acts(x) PROVE SingleInv'
  BY <1>1, SingleByPasses
<1>2. ASSUME NEW x \in Pass, Crash(x) PROVE SingleInv'
  BY <1>2 DEF Crash, SingleInv
<1>3. ASSUME NEW x \in Cli, Acts(x) \/ Crash(x) PROVE SingleInv'
  <2>1. UNCHANGED <<handled, mishaps, disk, of>> /\ StepOf(x) /\ x \in Caller /\ x \notin Pass
    BY <1>3, RetasksKeepHeads, CallersStep
  <2>2. /\ BornStay /\ \A y \in Pass : SameFor(y)
        /\ \A h \in Handle : staged'[h] = staged[h]
    BY <2>1 DEF StepOf, WritesOf
  <2>3. Ages
    BY <1>3, <2>1, AgesByCallers, AgesElsewhere
  <2> QED BY <2>1, <2>2, <2>3, SingleElsewhere
<1>4. ASSUME UserStarts \/ WorldStep PROVE SingleInv'
  <2>1. UNCHANGED <<watchFiles, coreVars, history, watchVars>> /\ disk' = disk
    BY <1>4, UserStartsKeeps, WorldStepKeeps
  <2>2. BornStay /\ Ages
    BY <1>4, BirthsElsewhere, AgesElsewhere
  <2>3. \A y \in Pass : SameFor(y)
    BY <2>1 DEF SameFor
  <2> QED BY <2>1, <2>2, <2>3, SingleElsewhere
<1> QED BY <1>1, <1>2, <1>3, <1>4, CallersAct

LEMMA InitiallySingle == Init => SingleInv
<1> SUFFICES ASSUME Init PROVE Single
  BY DEF SingleInv
<1>1. pc = [x \in Caller |-> "start"]
  BY DEF Init
<1>2. \A x \in Pass : Solo(x)
  BY <1>1 DEF Solo, Staged, Swept, StillSo, Counting, Doing, Core, Pruning, Staging, Launching,
     Appending, Adopting
<1>3. ASSUME NEW s \in Session, of[s] # 0
      PROVE  Shown(s) /\ handled[of[s]] # NeverHandled
  <2>1. OneStaged
    BY <1>3 DEF Init, NothingStaged, OneDispatched
  <2>2. s = Min(Session) /\ of[s] = Min(PR) /\ row[s] = "working"
    BY <1>3, <2>1 DEF OneStaged, FirstSession
  <2>3. Min(PR) \in PR /\ HandleOf[Min(PR)] \in Handle
    BY LeastNames, HandlesAreOfPRs
  <2>4. staged[HandleOf[Min(PR)]].sess = Min(Session) /\ handled[Min(PR)] = 1
    BY <2>1, <2>3 DEF OneStaged
  <2> QED BY <2>2, <2>4 DEF Shown, NeverHandled
<1> QED BY <1>2, <1>3 DEF Single, AllShown, NewsAreStaged, Live

LEMMA SingleHolds ==
    ASSUME HandlesDiffer
    PROVE  Spec => []SingleInv
<1>1. Typed /\ Placed /\ Locked /\ Known /\ AloneInv /\ SingleInv /\ [Next]_vars => SingleInv'
  <2>1. ASSUME SingleInv, UNCHANGED vars PROVE SingleInv'
    BY <2>1 DEF vars, SingleInv, Single, AllShown, NewsAreStaged, Solo, Staged, Swept, StillSo,
       Live, NoneFor, Shown, Worker, Place
  <2> QED BY <2>1, NextKeepsSingle
<1> QED BY <1>1, InitiallySingle, TypesHold, MarksHold, AloneHolds, PTL DEF Spec

(* When no pass overlaps another or is killed, no removal fails and no     *)
(* session is slow to show up, no pull request is reviewed by two sessions *)
(* at once, if no two pull requests share a handle: with a shared one, the *)
(* second's record takes the first's away.                                 *)
THEOREM OneReviewEach ==
    ASSUME HandlesDiffer
    PROVE  Spec => []OneReviewPerPR
<1>1. Known /\ SingleInv => OneReviewPerPR
  <2> SUFFICES ASSUME Known, Single, NEW p \in PR
               PROVE  Cardinality(LiveReviews(p)) <= 1
    BY DEF SingleInv, OneReviewPerPR
  <2>1. ASSUME NEW s \in LiveReviews(p), NEW t \in LiveReviews(p) PROVE s = t
    <3>1. s \in Session /\ t \in Session /\ of[s] = p /\ of[t] = p /\ Live(s) /\ Live(t)
      BY NamesAreNumbers DEF LiveReviews, Live
    <3>2. ASSUME NEW x \in Pass, pc[x] \in Launching, NEW u \in {s, t}, Worker(x) = u PROVE s = t
      <4>1. job[x].pr = p
        BY <3>1, <3>2, NamesAreNumbers DEF Known, PassesName, Names, Worker
      <4> QED BY <3>1, <3>2, <4>1 DEF Single, Solo, Staged
    <3> QED BY <3>1, <3>2 DEF Single, AllShown, Shown
  <2>2. CASE LiveReviews(p) = {}
    BY <2>2, FS_EmptySet
  <2>3. ASSUME NEW s \in LiveReviews(p) PROVE Cardinality(LiveReviews(p)) <= 1
    <3>1. LiveReviews(p) = {s}
      BY <2>1, <2>3
    <3>2. Cardinality({s}) = 1
      BY FS_Singleton
    <3> QED BY <3>1, <3>2
  <2> QED BY <2>2, <2>3
<1> QED BY <1>1, SingleHolds, MarksHold, PTL

-----------------------------------------------------------------------------
(* How many reviews there are.  What a pass may still stage is within the  *)
(* cap with those, and the one it has just launched is counted among them. *)
Count == Cardinality({s \in Session : Live(s)})

Within(x) ==
    /\ pc[x] \in Counting \ (Launching \cup Appending) => budget[x] = 0 \/ Count + budget[x] <= MaxStaged
    /\ pc[x] \in Launching \cup Appending => Count + budget[x] <= MaxStaged + 1

Capped == Count <= MaxStaged /\ \A x \in Pass : Within(x)

CappedInv == mishaps = {} => Capped

LEMMA CountIs ==
    /\ Count \in Nat /\ Count' \in Nat /\ MaxStaged \in Nat \ {0}
    /\ \A S \in SUBSET Session : IsFiniteSet(S) /\ Cardinality(S) \in Nat
<1>1. \A S \in SUBSET Session : IsFiniteSet(S) /\ Cardinality(S) \in Nat
  BY NumberedNames, FS_Subset, FS_CardinalityType DEF NumberedNames
<1> QED BY <1>1, Limits DEF Count, Limits

(* The reviews get fewer, but for a launch.                                *)
LEMMA CountShrinks ==
    ASSUME \A s \in Session : Live(s)' => Live(s)
    PROVE  Count' <= Count
<1> DEFINE S == {s \in Session : Live(s)}
           T == {s \in Session : Live(s)'}
<1>1. T \in SUBSET S /\ IsFiniteSet(S)
  BY CountIs
<1>2. Cardinality(T) <= Cardinality(S)
  BY <1>1, FS_Subset
<1> QED BY <1>2 DEF Count

LEMMA OneMore ==
    ASSUME NEW S, IsFiniteSet(S), NEW w
    PROVE  IsFiniteSet(S \cup {w}) /\ Cardinality(S \cup {w}) <= Cardinality(S) + 1
<1>1. /\ IsFiniteSet(S \cup {w})
      /\ Cardinality(S \cup {w}) = IF w \in S THEN Cardinality(S) ELSE Cardinality(S) + 1
  BY FS_AddElement
<1>2. Cardinality(S) \in Nat
  BY FS_CardinalityType
<1> QED BY <1>1, <1>2

LEMMA CountMoves ==
    ASSUME Typed, Placed, Known, NEW x \in Pass, StepOf(x), Ages, Stages(x)
    PROVE  \/ Count' <= Count
           \/ pc[x] = "launch" /\ pc'[x] = "capture" /\ Count' <= Count + 1
<1>0. BornStay /\ LaunchMoves(x)
  BY DEF StepOf
<1>1. CASE \A s \in Session : Live(s)' => Live(s)
  BY <1>1, CountShrinks
<1>2. CASE pc[x] = "launch" /\ pc'[x] = "capture"
  <2> DEFINE S == {s \in Session : Live(s)}
             T == {s \in Session : Live(s)'}
             w == job'[x].sess
  <2>1. \A s \in T : s \in S \/ s = w
    BY <1>0, LivesMove
  <2>2. IsFiniteSet(S) /\ Cardinality(S) \in Nat
    BY CountIs
  <2>3. IsFiniteSet(S \cup {w}) /\ Cardinality(S \cup {w}) <= Cardinality(S) + 1
    BY <2>2, OneMore
  <2>4. T \in SUBSET (S \cup {w})
    BY <2>1
  <2>5. Cardinality(T) <= Cardinality(S \cup {w}) /\ Cardinality(S \cup {w}) \in Nat /\ Cardinality(T) \in Nat
    BY <2>3, <2>4, FS_Subset, FS_CardinalityType
  <2>6. Cardinality(T) <= Cardinality(S) + 1
    BY <2>2, <2>3, <2>5
  <2> QED BY <1>2, <2>6 DEF Count
<1> QED BY <1>0, <1>1, <1>2, LivesMove

(* What a pass that decides counts are all the reviews there are.          *)
LEMMA DecidesWithin ==
    ASSUME Typed, Placed, Known, Single, Alone, NEW x \in Pass, pc[x] = "decide"
    PROVE  Count <= Cardinality({p \in PR : IsLive(p)})
<1> DEFINE S == {s \in Session : Live(s)}
           T == {p \in PR : IsLive(p)}
           f == [s \in S |-> of[s]]
<1>1. ASSUME NEW z \in Pass, pc[z] \in Launching PROVE FALSE
  <2>1. z # x /\ ~Idle(z) /\ ~Idle(x)
    BY <1>1 DEF Launching, Idle
  <2> QED BY <2>1 DEF Alone, OnePass
<1>2. \A s \in S : Shown(s)
  BY <1>1 DEF Single, AllShown
<1>3. \A s \in S : of[s] \in T
  BY <1>2, ShownAreLive
<1>4. \A s, t \in S : of[s] = of[t] => s = t
  BY <1>2 DEF Shown
<1>5. f \in [S -> T] /\ \A s, t \in S : f[s] = f[t] => s = t
  BY <1>3, <1>4
<1>6. f \in Injection(S, T)
  BY <1>5 DEF Injection, IsInjective
<1>7. IsFiniteSet(T)
  BY NumberedNames, FS_Subset DEF NumberedNames
<1>8. Cardinality(S) <= Cardinality(T)
  BY <1>6, <1>7, FS_Injection
<1> QED BY <1>8 DEF Count

LEMMA WithinStays ==
    ASSUME Typed, Placed, Known, Single, Alone, Capped, NEW x \in Pass, StepOf(x), Ages,
           Stages(x), Budgets(x)
    PROVE  Count' <= MaxStaged /\ Within(x)'
<1>0. /\ Count \in Nat /\ Count' \in Nat /\ MaxStaged \in Nat \ {0} /\ budget[x] \in Nat
      /\ Count <= MaxStaged /\ Within(x)
      /\ pc[x] = "launch" => budget[x] > 0
  BY CountIs, Limits DEF Limits, Capped, Typed, WatchTypeOK, Placed, Reads, Staging
<1>1. \/ Count' <= Count
      \/ pc[x] = "launch" /\ pc'[x] = "capture" /\ Count' <= Count + 1
  BY CountMoves
<1>2. pc[x] = "launch" => Count + budget[x] <= MaxStaged
  BY <1>0 DEF Within, Counting, Doing, Staging, Launching, Appending
<1>3. Count' <= MaxStaged
  BY <1>0, <1>1, <1>2
<1>4. ASSUME pc'[x] \in Counting
      PROVE  /\ pc'[x] \notin Launching \cup Appending => budget'[x] = 0 \/ Count' + budget'[x] <= MaxStaged
             /\ pc'[x] \in Launching \cup Appending => Count' + budget'[x] <= MaxStaged + 1
  <2>1. CASE pc[x] = "decide" /\ budget'[x] = StageBudget(Cardinality({p \in PR : IsLive(p)}))
    <3> DEFINE n == Cardinality({p \in PR : IsLive(p)})
    <3>1. n \in Nat /\ Count <= n
      BY <2>1, LivePRsAreCounted, DecidesWithin
    <3>2. budget'[x] \in Nat /\ (budget'[x] = 0 \/ budget'[x] + n <= MaxStaged)
      BY <2>1, <3>1, BudgetIs, Limits DEF Limits
    <3> HIDE DEF n
    <3>3. Count' <= Count
      BY <1>1, <2>1
    <3>4. pc'[x] \notin Launching \cup Appending
      BY <2>1 DEF Stages, Launching, Appending
    <3> QED BY <1>0, <3>1, <3>2, <3>3, <3>4
  <2>2. CASE /\ pc[x] \in Launching \cup Appending /\ pc'[x] = "next"
             /\ budget'[x] = budget[x] - 1
    <3>1. Count + budget[x] <= MaxStaged + 1 /\ Count' <= Count
      BY <1>0, <1>1, <2>2 DEF Within
    <3>2. pc'[x] \notin Launching \cup Appending
      BY <2>2 DEF Launching, Appending
    <3> QED BY <1>0, <2>2, <3>1, <3>2
  <2>3. CASE /\ pc[x] \in Counting /\ budget'[x] = budget[x]
             /\ pc[x] \in Launching \cup Appending <=> pc[x] # "launch" /\ pc'[x] \in Launching \cup Appending
    <3>1. CASE pc[x] \in Launching \cup Appending
      <4>1. Count + budget[x] <= MaxStaged + 1 /\ Count' <= Count
        BY <1>0, <1>1, <3>1 DEF Within, Launching, Appending
      <4> QED BY <1>0, <2>3, <3>1, <4>1
    <3>2. CASE pc[x] = "launch" /\ pc'[x] = "capture"
      <4>1. pc'[x] \in Launching \cup Appending
        BY <3>2 DEF Launching
      <4>2. Count' + budget[x] <= MaxStaged + 1
        BY <1>0, <1>1, <1>2, <3>2
      <4> QED BY <2>3, <4>1, <4>2
    <3>3. CASE pc[x] \notin Launching \cup Appending /\ ~(pc[x] = "launch" /\ pc'[x] = "capture")
      <4>1. Count' <= Count /\ (budget[x] = 0 \/ Count + budget[x] <= MaxStaged)
        BY <1>0, <1>1, <2>3, <3>3 DEF Within
      <4>2. pc'[x] \notin Launching \cup Appending
        BY <2>3, <3>3 DEF Stages, Launching, Appending
      <4> QED BY <1>0, <2>3, <4>1, <4>2
    <3> QED BY <3>1, <3>2, <3>3
  <2> QED BY <1>4, <2>1, <2>2, <2>3 DEF Budgets
<1>5. pc'[x] \in Launching \cup Appending => pc'[x] \in Counting
  BY DEF Counting, Doing, Staging
<1> QED BY <1>3, <1>4, <1>5 DEF Within

LEMMA WithinElsewhere ==
    ASSUME Typed, Capped, NEW y \in Pass, SameFor(y), Count' <= Count
    PROVE  Within(y)'
<1>1. /\ Count \in Nat /\ Count' \in Nat /\ MaxStaged \in Nat /\ budget[y] \in Nat
      /\ pc'[y] = pc[y] /\ budget'[y] = budget[y] /\ Within(y)
  BY CountIs, Limits DEF Limits, Capped, SameFor, Typed, WatchTypeOK
<1>2. /\ budget[y] = 0 \/ Count + budget[y] <= MaxStaged => budget[y] = 0 \/ Count' + budget[y] <= MaxStaged
      /\ Count + budget[y] <= MaxStaged + 1 => Count' + budget[y] <= MaxStaged + 1
  BY <1>1
<1> QED BY <1>1, <1>2 DEF Within

LEMMA CappedByPasses ==
    ASSUME Typed, Placed, Known, AloneInv, SingleInv, CappedInv, NEW x \in Pass, Acts(x)
    PROVE  CappedInv'
<1>1. HeadMoves(x) /\ Ages /\ Stages(x) /\ Budgets(x) /\ StepOf(x)
  BY HeadsMove, AgesByCallers, StagesMove, BudgetsMove, CallersStep
<1> SUFFICES ASSUME mishaps' = {} PROVE Capped'
  BY DEF CappedInv
<1>2. Single /\ Alone /\ Capped
  BY <1>1 DEF HeadMoves, SingleInv, AloneInv, CappedInv
<1>3. Count' <= MaxStaged /\ Within(x)'
  BY <1>1, <1>2, WithinStays
<1>4. ASSUME NEW y \in Pass \ {x} PROVE Within(y)'
  <2>1. SameFor(y)
    BY <1>1 DEF StepOf
  <2>2. CASE Idle(y)
    <3>1. pc'[y] \in {"start", "done"}
      BY <2>1, <2>2 DEF Idle, SameFor
    <3> QED BY <3>1 DEF Within, Counting, Doing, Core, Staging, Launching, Appending, Adopting
  <2>3. CASE Idle(x)
    <3>1. Count' <= Count
      BY <1>1, <2>3, CountMoves DEF Idle
    <3> QED BY <1>2, <2>1, <3>1, WithinElsewhere
  <2> QED BY <1>2, <2>2, <2>3 DEF Alone, OnePass
<1>5. \A y \in Pass : Within(y)'
  BY <1>3, <1>4
<1> QED BY <1>3, <1>5 DEF Capped

LEMMA CappedElsewhere ==
    ASSUME Typed, Placed, Known, CappedInv, BornStay, Ages, of' = of, mishaps' = mishaps,
           \A y \in Pass : SameFor(y)
    PROVE  CappedInv'
<1> SUFFICES ASSUME Capped PROVE Capped'
  BY DEF CappedInv
<1>1. Count' <= Count
  BY LivesStay, CountShrinks
<1>2. Count' <= MaxStaged
  BY <1>1, CountIs DEF Capped
<1> QED BY <1>1, <1>2, WithinElsewhere DEF Capped

LEMMA NextKeepsCap ==
    ASSUME Typed, Placed, Locked, Known, AloneInv, SingleInv, CappedInv, Next
    PROVE  CappedInv'
<1>1. ASSUME NEW x \in Pass, Acts(x) PROVE CappedInv'
  BY <1>1, CappedByPasses
<1>2. ASSUME NEW x \in Pass, Crash(x) PROVE CappedInv'
  BY <1>2 DEF Crash, CappedInv
<1>3. ASSUME NEW x \in Cli, Acts(x) \/ Crash(x) PROVE CappedInv'
  <2>1. UNCHANGED <<handled, mishaps, disk, of>> /\ StepOf(x) /\ x \in Caller /\ x \notin Pass
    BY <1>3, RetasksKeepHeads, CallersStep
  <2>2. BornStay /\ Ages /\ \A y \in Pass : SameFor(y)
    BY <1>3, <2>1, AgesByCallers, AgesElsewhere DEF StepOf
  <2> QED BY <2>1, <2>2, CappedElsewhere
<1>4. ASSUME UserStarts \/ WorldStep PROVE CappedInv'
  <2>1. UNCHANGED <<watchFiles, coreVars, history, watchVars>>
    BY <1>4, UserStartsKeeps, WorldStepKeeps
  <2>2. BornStay /\ Ages
    BY <1>4, BirthsElsewhere, AgesElsewhere
  <2>3. \A y \in Pass : SameFor(y)
    BY <2>1 DEF SameFor
  <2> QED BY <2>1, <2>2, <2>3, CappedElsewhere
<1> QED BY <1>1, <1>2, <1>3, <1>4, CallersAct

LEMMA InitiallyCapped == Init => CappedInv
<1> SUFFICES ASSUME Init PROVE Capped
  BY DEF CappedInv
<1>1. pc = [x \in Caller |-> "start"]
  BY DEF Init
<1>2. \A x \in Pass : Within(x)
  BY <1>1 DEF Within, Counting, Doing, Core, Staging, Launching, Appending, Adopting
<1>3. \A s \in Session : Live(s) => s = Min(Session)
  BY DEF Init, NothingStaged, OneStaged, OneDispatched, Live
<1>4. Count <= 1
  <2> DEFINE S == {s \in Session : Live(s)}
             o == Min(Session)
  <2> HIDE DEF o
  <2>1. S \in SUBSET {o}
    BY <1>3 DEF o
  <2>2. IsFiniteSet({o}) /\ Cardinality({o}) = 1
    BY FS_Singleton
  <2>3. Cardinality(S) <= 1
    BY <2>1, <2>2, FS_Subset
  <2> QED BY <2>3 DEF Count
<1>5. Count <= MaxStaged
  BY <1>4, CountIs
<1> QED BY <1>2, <1>5 DEF Capped

LEMMA CapHolds ==
    ASSUME HandlesDiffer
    PROVE  Spec => []CappedInv
<1>1. Typed /\ Placed /\ Locked /\ Known /\ AloneInv /\ SingleInv /\ CappedInv /\ [Next]_vars => CappedInv'
  <2>1. ASSUME CappedInv, UNCHANGED vars PROVE CappedInv'
    BY <2>1 DEF vars, CappedInv, Capped, Count, Within, Live
  <2> QED BY <2>1, NextKeepsCap
<1> QED BY <1>1, InitiallyCapped, TypesHold, MarksHold, AloneHolds, SingleHolds, PTL DEF Spec

(* As long as nothing goes wrong, no more sessions review pull requests    *)
(* than may: each is shown by its pull request's record when a pass counts *)
(* what is live, and until it is recorded it is the pass's own, paid for   *)
(* from what the pass may stage.                                           *)
THEOREM ReviewsAreCapped ==
    ASSUME HandlesDiffer
    PROVE  Spec => []CapIsKept
<1>1. CappedInv => CapIsKept
  <2> SUFFICES ASSUME Capped PROVE Cardinality(UNION {LiveReviews(p) : p \in PR}) <= MaxStaged
    BY DEF CappedInv, CapIsKept
  <2> DEFINE S == {s \in Session : Live(s)}
             U == UNION {LiveReviews(p) : p \in PR}
  <2>1. U \in SUBSET S
    BY NamesAreNumbers DEF LiveReviews, Live
  <2>2. IsFiniteSet(S) /\ Cardinality(S) \in Nat /\ U \in SUBSET Session
    BY <2>1, CountIs
  <2>3. Cardinality(U) <= Cardinality(S) /\ Cardinality(U) \in Nat
    BY <2>1, <2>2, FS_Subset, CountIs
  <2>4. Cardinality(S) <= MaxStaged
    BY DEF Capped, Count
  <2> QED BY <2>2, <2>3, <2>4, CountIs
<1> QED BY <1>1, CapHolds, PTL
=============================================================================
