--------------------------- MODULE TrustLockProofs ---------------------------
(***************************************************************************)
(* The trust lock keeps its promise for any number of processes and calls, *)
(* as long as no holder stalls past the staleness threshold and none dies, *)
(* and for any two processes either of which may die with the lock.        *)
(***************************************************************************)
EXTENDS TrustLock, TLAPS

USE ConstantsAssumption, RequestAssumption DEF ConstantsAssumption, RequestAssumption

(* What a call may leave and report. *)
LEMMA UpdatedIsEntry ==
    ASSUME NEW op \in Operation, NEW e \in Entry
    PROVE  Updated(op, e) \in Entry
<1>1. CASE op \in EnsureOp
    BY <1>1 DEF EnsureOp, Updated, Entry
<1>2. CASE op \in WithdrawOp
    BY <1>2 DEF WithdrawOp, Updated, Withdrawn, Entry
<1>3. CASE op \in ClaudeOp
    BY <1>3 DEF ClaudeOp, Updated, Entry
<1> QED BY <1>1, <1>2, <1>3 DEF Operation

LEMMA ReportedIsOutcome ==
    ASSUME NEW op \in Operation, NEW e \in Entry
    PROVE  Reported(op, e) \in Outcome /\ Reported(op, e) # "pending"
<1>1. CASE op \in EnsureOp
    <2>1. op.prior \in Mode \cup {NoGrant} /\ op.kind = "ensure"
        BY <1>1 DEF EnsureOp
    <2> QED BY <2>1 DEF Reported, Granted, Outcome, Mode, NoGrant
<1>2. CASE op.kind # "ensure"
    BY <1>2 DEF Reported, Outcome
<1>3. op.kind = "ensure" => op \in EnsureOp
    BY DEF Operation, EnsureOp, WithdrawOp, ClaudeOp
<1> QED BY <1>1, <1>2, <1>3

LEMMA NotDoneIsOutcome ==
    "busy" \in Outcome /\ "skipped" \in Outcome /\ "pending" \in Outcome
BY DEF Outcome, NotDone

LEMMA CallSees ==
    ASSUME TypeOK, NEW c \in Call
    PROVE  /\ Request[c] \in Operation
           /\ entries[KeyOf[c]] \in Entry
           /\ doc[c][KeyOf[c]] \in Entry
           /\ polls[c] \in Nat
<1>1. /\ KeyOf[c] \in Key /\ Request[c] \in Operation
      /\ doc[c] \in [Key -> Entry] /\ polls[c] \in 0 .. MaxPolls
    BY DEF TypeOK
<1> QED BY <1>1 DEF TypeOK

(* Every variable of the lock protocol keeps its type, whoever stalls or    *)
(* dies.                                                                    *)
LEMMA StepKeepsTypes ==
    ASSUME TypeOK, NEW c \in Call, Step(c)
    PROVE  TypeOK'
<1> USE NotDoneIsOutcome DEF TypeOK, PC, Directory, Goto, Return, Skipped
<1>1. CASE EnterMutex(c)
    BY <1>1 DEF EnterMutex
<1>2. CASE SkipTimedOut(c)
    BY <1>2 DEF SkipTimedOut
<1>3. CASE MakeLock(c)
    <2>1. PICK i \in Inode : lock' = [maker |-> c, inode |-> i, stale |-> FALSE]
        BY <1>3 DEF MakeLock
    <2>2. lock' \in Directory
        BY <2>1
    <2> QED BY <1>3, <2>2 DEF MakeLock
<1>4. CASE FindLock(c)
    BY <1>4 DEF FindLock
<1>5. CASE MkdirFails(c)
    BY <1>5 DEF MkdirFails
<1>6. CASE LookAtLock(c)
    BY <1>6 DEF LookAtLock, Stale
<1>7. CASE LookAgain(c)
    BY <1>7 DEF LookAgain, Stale
<1>8. CASE TakeOver(c)
    BY <1>8 DEF TakeOver
<1>9. CASE Sleep(c)
    <2>1. polls[c] \in Nat /\ polls[c] < MaxPolls /\ MaxPolls \in Nat
        BY <1>9, CallSees DEF Sleep
    <2>2. polls[c] + 1 \in 0 .. MaxPolls
        <3> HIDE DEF TypeOK, Directory, PC
        <3> QED BY <2>1
    <2> QED BY <1>9, <2>2 DEF Sleep
<1>10. CASE TimeOut(c)
    BY <1>10 DEF TimeOut
<1>11. CASE Identify(c)
    BY <1>11 DEF Identify
<1>12. CASE IdentifyFails(c)
    BY <1>12 DEF IdentifyFails
<1>13. CASE Load(c)
    <2>1. Reported(Request[c], entries[KeyOf[c]]) \in Outcome
        BY CallSees, ReportedIsOutcome
    <2>2. outcome' \in [Call -> Outcome]
        BY <1>13, <2>1 DEF Load
    <2>3. doc' \in [Call -> [Key -> Entry]]
        BY <1>13 DEF Load
    <2>4. pc' \in [Call -> PC]
        <3>1. \E where \in PC : pc' = [pc EXCEPT ![c] = where]
            BY <1>13 DEF Load
        <3> QED BY <3>1
    <2> QED BY <1>13, <2>2, <2>3, <2>4 DEF Load
<1>14. CASE LoadFails(c)
    BY <1>14 DEF LoadFails
<1>15. CASE Write(c)
    <2>1. /\ Updated(Request[c], doc[c][KeyOf[c]]) \in Entry
          /\ Reported(Request[c], doc[c][KeyOf[c]]) \in Outcome
        BY CallSees, ReportedIsOutcome, UpdatedIsEntry
    <2> QED BY <1>15, <2>1 DEF Write
<1>16. CASE WriteFails(c)
    BY <1>16 DEF WriteFails
<1>17. CASE LookAtOwn(c)
    BY <1>17 DEF LookAtOwn
<1>18. CASE RemoveOwn(c)
    BY <1>18 DEF RemoveOwn
<1> QED BY <1>1, <1>2, <1>3, <1>4, <1>5, <1>6, <1>7, <1>8, <1>9,
           <1>10, <1>11, <1>12, <1>13, <1>14, <1>15, <1>16, <1>17, <1>18
        DEF Step, Acquire, Edit, Release

LEMMA NextKeepsTypes == TypeOK /\ [Next]_vars => TypeOK'
<1> SUFFICES ASSUME TypeOK, [Next]_vars PROVE TypeOK'
    OBVIOUS
<1>1. CASE \E c \in Call : Step(c)
    BY <1>1, StepKeepsTypes
<1>2. CASE LockAges
    BY <1>2 DEF LockAges, TypeOK, Directory
<1>3. CASE \E p \in Process : Die(p)
    <2>1. PICK p \in Process : Die(p)
        BY <1>3
    <2>2. pc' \in [Call -> PC]
        BY <2>1 DEF Die, TypeOK, PC
    <2>3. outcome' \in [Call -> Outcome]
        BY <2>1, NotDoneIsOutcome DEF Die, TypeOK
    <2> QED BY <2>1, <2>2, <2>3 DEF Die, TypeOK
<1>4. CASE UNCHANGED vars
    BY <1>4 DEF vars, TypeOK
<1> QED BY <1>1, <1>2, <1>3, <1>4 DEF Next

(* The variables keep their types: each call is at a step the code has, and *)
(* what it reports is one of the outcomes of Ensure and Withdraw.           *)
THEOREM TrustTypesAreKept == Spec => []TypeOK
<1>1. Init => TypeOK
    BY NotDoneIsOutcome DEF Init, TypeOK, PC
<1> QED BY <1>1, NextKeepsTypes, PTL DEF Spec

-----------------------------------------------------------------------------
(* Of a process's calls the one that has its mutex is at work, a wait that *)
(* timed out is remembered, and an Ensure that goes on met none.           *)
AtWork(c) == pc[c] \notin {"start", "done"}

Queued == \A c \in Call : AtWork(c) => mutex[ProcessOf[c]] = c
WaitsAreRemembered ==
    \A c \in Call : outcome[c] = "busy" => pc[c] = "done" /\ timedOut[ProcessOf[c]]
EnsuresMetNoWait ==
    \A c, d \in Call :
        AtWork(c) /\ Request[c].kind = "ensure" /\ ProcessOf[c] = ProcessOf[d]
        => ~(Request[d].kind = "ensure" /\ outcome[d] = "busy")

Waiting == Queued /\ WaitsAreRemembered /\ EnsuresMetNoWait /\ OneEnsureWaits

LEMMA ReportsAreNotWaits ==
    ASSUME NEW op \in Operation, NEW e \in Entry
    PROVE  Reported(op, e) # "busy"
<1>1. CASE op \in EnsureOp
    BY <1>1 DEF EnsureOp, Reported, Granted, Mode, NoGrant
<1>2. CASE op \notin EnsureOp
    BY <1>2 DEF Operation, EnsureOp, WithdrawOp, ClaudeOp, Reported
<1> QED BY <1>1, <1>2

(* A call at work that goes on has not timed out. *)
LEMMA GoingOnKeepsWaiting ==
    ASSUME TypeOK, Waiting, NEW c \in Call, AtWork(c), AtWork(c)', outcome'[c] # "busy",
           \A d \in Call \ {c} : pc'[d] = pc[d] /\ outcome'[d] = outcome[d],
           UNCHANGED <<mutex, timedOut>>
    PROVE  Waiting'
<1> USE DEF Waiting, Queued, WaitsAreRemembered, EnsuresMetNoWait, OneEnsureWaits, AtWork, TypeOK
<1>1. outcome[c] # "busy"
    OBVIOUS
<1>2. \A d \in Call : outcome'[d] = "busy" <=> outcome[d] = "busy"
    BY <1>1
<1>3. \A d \in Call : AtWork(d)' <=> AtWork(d)
    OBVIOUS
<1>4. \A d \in Call : pc'[d] = "done" <=> pc[d] = "done"
    OBVIOUS
<1> QED BY <1>2, <1>3, <1>4

(* A call that times out is at work; a call that is at work otherwise goes *)
(* on, or returns without being busy.                                      *)
LEMMA StepKeepsWaiting ==
    ASSUME TypeOK, Waiting, NEW c \in Call, Step(c)
    PROVE  Waiting'
<1> USE DEF Waiting, Queued, WaitsAreRemembered, EnsuresMetNoWait, OneEnsureWaits, AtWork, TypeOK,
            Goto, Return, Skipped
<1>1. CASE EnterMutex(c)
    BY <1>1 DEF EnterMutex, SkipsWait
<1>2. CASE SkipTimedOut(c)
    BY <1>2 DEF SkipTimedOut
<1>3. CASE MakeLock(c) \/ FindLock(c)
    <2>1. pc[c] = "mkdir" /\ outcome' = outcome /\ UNCHANGED <<mutex, timedOut>>
        BY <1>3 DEF MakeLock, FindLock
    <2>2. \E where \in {"identify", "look"} : pc' = [pc EXCEPT ![c] = where]
        BY <1>3 DEF MakeLock, FindLock
    <2> QED BY <2>1, <2>2, GoingOnKeepsWaiting
<1>4. CASE MkdirFails(c)
    BY <1>4 DEF MkdirFails
<1>5. CASE LookAtLock(c) \/ LookAgain(c) \/ TakeOver(c)
    <2>1. /\ pc[c] \in {"look", "look again", "take over"}
          /\ outcome' = outcome /\ UNCHANGED <<mutex, timedOut>>
        BY <1>5 DEF LookAtLock, LookAgain, TakeOver
    <2>2. \E where \in {"look again", "take over", "mkdir", "deadline"} : pc' = [pc EXCEPT ![c] = where]
        BY <1>5 DEF LookAtLock, LookAgain, TakeOver
    <2> QED BY <2>1, <2>2, GoingOnKeepsWaiting
<1>6. CASE Sleep(c)
    BY <1>6 DEF Sleep
<1>7. CASE TimeOut(c)
    BY <1>7 DEF TimeOut
<1>8. CASE Identify(c)
    BY <1>8 DEF Identify
<1>9. CASE IdentifyFails(c)
    BY <1>9 DEF IdentifyFails
<1>10. CASE Load(c)
    <2>1. Reported(Request[c], entries[KeyOf[c]]) # "busy"
        BY CallSees, ReportsAreNotWaits
    <2>2. pc[c] = "load" /\ UNCHANGED <<mutex, timedOut>>
        BY <1>10 DEF Load
    <2>3. \E where \in {"release", "write"} : pc' = [pc EXCEPT ![c] = where]
        BY <1>10 DEF Load
    <2>4. \/ outcome' = outcome
          \/ outcome' = [outcome EXCEPT ![c] = Reported(Request[c], entries[KeyOf[c]])]
        BY <1>10 DEF Load
    <2> QED BY <2>1, <2>2, <2>3, <2>4, GoingOnKeepsWaiting
<1>11. CASE LoadFails(c) \/ WriteFails(c)
    <2>1. /\ pc[c] \in {"load", "write"} /\ UNCHANGED <<mutex, timedOut>>
          /\ pc' = [pc EXCEPT ![c] = "release"] /\ outcome' = [outcome EXCEPT ![c] = "skipped"]
        BY <1>11 DEF LoadFails, WriteFails
    <2> QED BY <2>1, GoingOnKeepsWaiting
<1>12. CASE Write(c)
    <2>1. Reported(Request[c], doc[c][KeyOf[c]]) # "busy"
        BY CallSees, ReportsAreNotWaits
    <2> QED BY <1>12, <2>1 DEF Write
<1>13. CASE LookAtOwn(c)
    <2>1. CASE lock # NoLock /\ lock.inode = seen[c]
        <3>1. /\ pc[c] = "release" /\ UNCHANGED <<mutex, timedOut>> /\ outcome' = outcome
              /\ pc' = [pc EXCEPT ![c] = "remove own"]
            BY <1>13, <2>1 DEF LookAtOwn
        <3> QED BY <3>1, GoingOnKeepsWaiting
    <2>2. CASE ~(lock # NoLock /\ lock.inode = seen[c])
        <3>1. /\ pc[c] = "release" /\ UNCHANGED timedOut /\ outcome' = outcome
              /\ pc' = [pc EXCEPT ![c] = "done"]
              /\ mutex' = [mutex EXCEPT ![ProcessOf[c]] = Nobody]
            BY <1>13, <2>2 DEF LookAtOwn
        <3> QED BY <3>1
    <2> QED BY <2>1, <2>2
<1>14. CASE RemoveOwn(c)
    <2>1. /\ pc[c] = "remove own" /\ UNCHANGED timedOut /\ outcome' = outcome
          /\ pc' = [pc EXCEPT ![c] = "done"]
          /\ mutex' = [mutex EXCEPT ![ProcessOf[c]] = Nobody]
        BY <1>14 DEF RemoveOwn
    <2>2. Queued' /\ WaitsAreRemembered'
        BY <2>1
    <2>3. \A d \in Call : pc'[d] \notin {"start", "done"} => pc[d] \notin {"start", "done"}
        BY <2>1
    <2>4. EnsuresMetNoWait'
        <3> HIDE DEF TypeOK, Queued, WaitsAreRemembered, OneEnsureWaits
        <3> QED BY <2>1, <2>3
    <2>5. OneEnsureWaits'
        BY <2>1
    <2> QED BY <2>2, <2>4, <2>5
<1> QED BY <1>1, <1>2, <1>3, <1>4, <1>5, <1>6, <1>7, <1>8, <1>9, <1>10, <1>11, <1>12, <1>13, <1>14
        DEF Step, Acquire, Edit, Release

LEMMA NextKeepsWaiting == TypeOK /\ Waiting /\ [Next]_vars => Waiting'
<1> SUFFICES ASSUME TypeOK, Waiting, [Next]_vars PROVE Waiting'
    OBVIOUS
<1> USE DEF Waiting, Queued, WaitsAreRemembered, EnsuresMetNoWait, OneEnsureWaits, AtWork, TypeOK
<1>1. CASE \E c \in Call : Step(c)
    BY <1>1, StepKeepsWaiting
<1>2. CASE LockAges \/ UNCHANGED vars
    BY <1>2 DEF LockAges, vars
<1>3. CASE \E p \in Process : Die(p)
    <2>1. PICK p \in Process : Die(p)
        BY <1>3
    <2> QED BY <2>1 DEF Die
<1> QED BY <1>1, <1>2, <1>3 DEF Next

LEMMA InitiallyWaiting == Init => TypeOK /\ Waiting
BY NotDoneIsOutcome DEF Init, TypeOK, PC, Waiting, Queued, WaitsAreRemembered, EnsuresMetNoWait,
   OneEnsureWaits, AtWork

(* Of one process's Ensures at most one ever times out waiting, whoever    *)
(* stalls or dies: the rest queue behind it on the process's mutex and     *)
(* find the timeout remembered (acquireLock, lockTimeouts).                *)
THEOREM EnsuresWaitOnce == Spec => []OneEnsureWaits
<1>1. Init => TypeOK /\ Waiting
    BY InitiallyWaiting
<1>2. TypeOK /\ Waiting /\ [Next]_vars => TypeOK' /\ Waiting'
    BY NextKeepsTypes, NextKeepsWaiting
<1>3. Waiting => OneEnsureWaits
    BY DEF Waiting
<1> QED BY <1>1, <1>2, <1>3, PTL DEF Spec

-----------------------------------------------------------------------------
(* No holder stalls past the threshold; and none dies, or there are but    *)
(* two processes, so that one that found a dead one's lock is alone.       *)
Orderly == Slow = {} /\ (Mortal = {} \/ \E p, q : Process \subseteq {p, q})

Dead(p) == p \in Mortal /\ \A c \in Call : ProcessOf[c] = p => pc[c] = "done"

(* The directory at the lock path is the holder's, fresh, and known to it  *)
(* by its inode, or a dead process's; only such a one is taken over; what  *)
(* the holder is about to write was loaded from the file as it is.         *)
HolderIsMaker == \A c \in Call : Holds(c) => lock # NoLock /\ lock.maker = c
LockIsHeld ==
    lock # NoLock => (~lock.stale /\ Holds(lock.maker)) \/ Dead(ProcessOf[lock.maker])
HolderKnowsLock ==
    \A c \in Call : pc[c] \in {"load", "write", "release", "remove own"}
                    => seen[c] = lock.inode
OnlyDeadAreTaken ==
    \A c \in Call : pc[c] \in {"look again", "take over"} =>
        lock # NoLock /\ Dead(ProcessOf[lock.maker])
LoadedIsCurrent ==
    \A c \in Call : pc[c] = "write" =>
        doc[c] = entries /\ Parses(Request[c], entries[KeyOf[c]])
PendingUntilWritten ==
    \A c \in Call : outcome[c] = "pending" <=> pc[c] \notin {"release", "remove own", "done"}

Exclusive ==
    /\ HolderIsMaker
    /\ LockIsHeld
    /\ HolderKnowsLock
    /\ OnlyDeadAreTaken
    /\ LoadedIsCurrent
    /\ PendingUntilWritten

LEMMA ExclusiveInitially == Init => Exclusive
BY DEF Init, Exclusive, HolderIsMaker, LockIsHeld, HolderKnowsLock, OnlyDeadAreTaken,
       LoadedIsCurrent, PendingUntilWritten, Holds

(* Only a living process's call takes a step, and it moves no other call.  *)
LEMMA OneCallMoves ==
    ASSUME TypeOK, NEW c \in Call, Step(c)
    PROVE  pc[c] # "done" /\ \A d \in Call \ {c} : pc'[d] = pc[d]
<1> USE DEF TypeOK, Goto, Return
<1>1. CASE Acquire(c)
    BY <1>1 DEF Acquire, EnterMutex, SkipTimedOut, MakeLock, FindLock, MkdirFails, LookAtLock,
       LookAgain, TakeOver, Sleep, TimeOut, Identify, IdentifyFails
<1>2. CASE Edit(c)
    BY <1>2 DEF Edit, Load, LoadFails, Write, WriteFails
<1>3. CASE Release(c)
    BY <1>3 DEF Release, LookAtOwn, RemoveOwn
<1> QED BY <1>1, <1>2, <1>3 DEF Step

LEMMA DeadStayDead ==
    ASSUME TypeOK, NEW c \in Call, Step(c), NEW p
    PROVE  /\ Dead(p) => Dead(p)'
           /\ ~Dead(ProcessOf[c])
BY OneCallMoves DEF Dead

(* Two calls that take a dead process's lock over are one: both processes   *)
(* are the living one, whose calls queue.                                  *)
LEMMA TakerIsAlone ==
    ASSUME Orderly, TypeOK, Queued, OnlyDeadAreTaken,
           NEW c \in Call, NEW d \in Call,
           pc[c] \in {"look again", "take over"}, pc[d] \in {"look again", "take over"}
    PROVE  c = d
<1>1. lock # NoLock /\ Dead(ProcessOf[lock.maker])
    BY DEF OnlyDeadAreTaken
<1>2. lock.maker \in Call
    BY <1>1 DEF TypeOK, Directory
<1> DEFINE r == ProcessOf[lock.maker]
<1>3. r \in Process /\ ProcessOf[c] \in Process /\ ProcessOf[d] \in Process
    BY <1>2
<1>4. r \in Mortal /\ ProcessOf[c] # r /\ ProcessOf[d] # r
    BY <1>1 DEF Dead
<1> HIDE DEF r
<1>5. ProcessOf[c] = ProcessOf[d]
    BY <1>3, <1>4 DEF Orderly
<1> QED BY <1>5 DEF Queued, AtWork

Secured == HolderIsMaker /\ LockIsHeld /\ OnlyDeadAreTaken

(* A step that leaves the lock, and its call a holder or not, as it was.    *)
LEMMA LockedAsBefore ==
    ASSUME TypeOK, Secured, NEW c \in Call, Step(c), lock' = lock, Holds(c)' <=> Holds(c),
           pc'[c] \in {"look again", "take over"} => lock # NoLock /\ Dead(ProcessOf[lock.maker])
    PROVE  Secured'
<1>1. \A d \in Call \ {c} : pc'[d] = pc[d]
    BY OneCallMoves
<1>2. \A d \in Call : Holds(d)' <=> Holds(d)
    BY <1>1 DEF Holds
<1>3. HolderIsMaker'
    BY <1>2 DEF Secured, HolderIsMaker
<1>4. lock # NoLock => lock.maker \in Call
    BY DEF TypeOK, Directory
<1>5. LockIsHeld'
    BY <1>2, <1>4, DeadStayDead DEF Secured, LockIsHeld
<1>6. OnlyDeadAreTaken'
    BY <1>1, DeadStayDead DEF Secured, OnlyDeadAreTaken
<1> QED BY <1>3, <1>5, <1>6 DEF Secured

(* A holder that removes its directory leaves no lock and nobody who holds *)
(* or takes over.                                                          *)
LEMMA LockedByNobody ==
    ASSUME TypeOK, Secured, NEW c \in Call, Step(c), Holds(c), lock' = NoLock, pc'[c] = "done"
    PROVE  Secured'
<1>1. lock # NoLock /\ lock.maker = c /\ ~Dead(ProcessOf[c])
    BY DeadStayDead DEF Secured, HolderIsMaker
<1>2. \A d \in Call \ {c} : ~Holds(d) /\ pc'[d] = pc[d]
    BY <1>1, OneCallMoves DEF Secured, HolderIsMaker
<1>3. \A d \in Call : ~Holds(d)'
    BY <1>2 DEF Holds
<1>4. \A d \in Call : pc'[d] \notin {"look again", "take over"}
    BY <1>1, <1>2 DEF Secured, OnlyDeadAreTaken
<1> QED BY <1>3, <1>4 DEF Secured, HolderIsMaker, LockIsHeld, OnlyDeadAreTaken

LEMMA StepKeepsSecured ==
    ASSUME Orderly, TypeOK, Queued, Secured, HolderKnowsLock, NEW c \in Call, Step(c)
    PROVE  Secured'
<1> USE DEF Goto, Return
<1>1. CASE EnterMutex(c) \/ SkipTimedOut(c) \/ FindLock(c) \/ MkdirFails(c) \/ Sleep(c) \/ TimeOut(c)
    <2>1. /\ lock' = lock /\ pc[c] \in {"start", "mkdir", "deadline"}
          /\ pc'[c] \in {"mkdir", "look", "done"}
        BY <1>1 DEF EnterMutex, SkipTimedOut, FindLock, MkdirFails, Sleep, TimeOut, TypeOK
    <2> QED BY <2>1, LockedAsBefore DEF Holds
<1>2. CASE MakeLock(c)
    <2>1. PICK i \in Inode : lock' = [maker |-> c, inode |-> i, stale |-> FALSE]
        BY <1>2 DEF MakeLock
    <2>2. lock' # NoLock /\ lock'.maker = c /\ ~lock'.stale
        <3>1. lock' \in [maker : Call, inode : Inode, stale : BOOLEAN]
            BY <2>1
        <3> QED BY <2>1, <3>1 DEF ConstantsAssumption
    <2>3. pc'[c] = "identify" /\ \A d \in Call \ {c} : pc'[d] = pc[d]
        BY <1>2, OneCallMoves DEF MakeLock, TypeOK
    <2>4. \A d \in Call : ~Holds(d) /\ pc[d] \notin {"look again", "take over"}
        BY <1>2 DEF MakeLock, Secured, HolderIsMaker, OnlyDeadAreTaken
    <2>5. \A d \in Call : Holds(d)' <=> d = c
        BY <2>3, <2>4 DEF Holds
    <2>6. \A d \in Call : pc'[d] \notin {"look again", "take over"}
        BY <2>3, <2>4
    <2> QED BY <2>2, <2>5, <2>6 DEF Secured, HolderIsMaker, LockIsHeld, OnlyDeadAreTaken
<1>3. CASE LookAtLock(c) \/ LookAgain(c)
    <2>1. /\ lock' = lock /\ pc[c] \in {"look", "look again"}
          /\ pc'[c] \in {"look again", "take over", "deadline"}
          /\ pc'[c] # "deadline" => Stale
        BY <1>3 DEF LookAtLock, LookAgain, TypeOK
    <2>2. Stale => lock # NoLock /\ Dead(ProcessOf[lock.maker])
        BY DEF Stale, Secured, LockIsHeld
    <2> QED BY <2>1, <2>2, LockedAsBefore DEF Holds
<1>4. CASE TakeOver(c)
    <2>1. pc[c] = "take over" /\ lock' = NoLock /\ pc'[c] \in {"deadline", "mkdir"}
        BY <1>4 DEF TakeOver, TypeOK
    <2>2. lock # NoLock /\ Dead(ProcessOf[lock.maker])
        BY <2>1 DEF Secured, OnlyDeadAreTaken
    <2>3. \A d \in Call \ {c} : pc'[d] = pc[d] /\ pc[d] \notin {"look again", "take over"}
        BY <2>1, OneCallMoves, TakerIsAlone DEF Secured
    <2>4. \A d \in Call : ~Holds(d)
        <3>1. ASSUME NEW d \in Call, Holds(d) PROVE FALSE
            <4>1. lock.maker = d
                BY <3>1 DEF Secured, HolderIsMaker
            <4>2. pc[d] = "done"
                BY <2>2, <4>1 DEF Dead
            <4> QED BY <3>1, <4>2 DEF Holds
        <3> QED BY <3>1
    <2>5. \A d \in Call : ~Holds(d)' /\ pc'[d] \notin {"look again", "take over"}
        BY <2>1, <2>3, <2>4 DEF Holds
    <2> QED BY <2>1, <2>5 DEF Secured, HolderIsMaker, LockIsHeld, OnlyDeadAreTaken
<1>5. CASE Identify(c) \/ Edit(c)
    <2>1. /\ lock' = lock /\ pc[c] \in {"identify", "load", "write"}
          /\ pc'[c] \in {"load", "write", "release"}
        BY <1>5 DEF Identify, Edit, Load, LoadFails, Write, WriteFails, TypeOK
    <2> QED BY <2>1, LockedAsBefore DEF Holds
<1>6. CASE IdentifyFails(c) \/ RemoveOwn(c)
    <2>1. lock' = NoLock /\ pc[c] \in {"identify", "remove own"} /\ pc'[c] = "done"
        BY <1>6 DEF IdentifyFails, RemoveOwn, TypeOK
    <2> QED BY <2>1, LockedByNobody DEF Holds
<1>7. CASE LookAtOwn(c)
    <2>1. pc[c] = "release" /\ lock' = lock
        BY <1>7 DEF LookAtOwn
    <2>2. lock # NoLock /\ lock.inode = seen[c]
        BY <2>1 DEF Secured, HolderIsMaker, HolderKnowsLock, Holds
    <2>3. pc'[c] = "remove own"
        BY <1>7, <2>2 DEF LookAtOwn, TypeOK
    <2> QED BY <2>1, <2>3, LockedAsBefore DEF Holds
<1> QED BY <1>1, <1>2, <1>3, <1>4, <1>5, <1>6, <1>7 DEF Step, Acquire, Release

(* What the holder knows and loaded is as it is: no other call holds.       *)
LEMMA StepKeepsKnown ==
    ASSUME TypeOK, Exclusive, NEW c \in Call, Step(c)
    PROVE  HolderKnowsLock' /\ LoadedIsCurrent' /\ PendingUntilWritten'
<1> USE DEF TypeOK, Exclusive, HolderIsMaker, HolderKnowsLock, LoadedIsCurrent, PendingUntilWritten,
            Holds, Goto, Return, Skipped
<1>0. \A d \in Call \ {c} : Holds(c) => ~Holds(d)
    OBVIOUS
<1>1. CASE EnterMutex(c)
    BY <1>1 DEF EnterMutex
<1>2. CASE SkipTimedOut(c)
    BY <1>2 DEF SkipTimedOut
<1>3. CASE MakeLock(c)
    <2>1. \A d \in Call : ~Holds(d)
        BY <1>3 DEF MakeLock
    <2>2. pc' = [pc EXCEPT ![c] = "identify"] /\ pc[c] = "mkdir" /\ UNCHANGED <<entries, outcome, seen, doc>>
        BY <1>3 DEF MakeLock
    <2> QED BY <2>1, <2>2
<1>4. CASE FindLock(c)
    BY <1>4 DEF FindLock
<1>5. CASE MkdirFails(c)
    BY <1>5 DEF MkdirFails
<1>6. CASE LookAtLock(c)
    <2>1. /\ pc[c] = "look" /\ UNCHANGED <<entries, outcome, lock, doc>>
          /\ \A d \in Call \ {c} : seen'[d] = seen[d]
        BY <1>6 DEF LookAtLock
    <2>2. \E where \in {"look again", "deadline"} : pc' = [pc EXCEPT ![c] = where]
        BY <1>6 DEF LookAtLock
    <2> QED BY <2>1, <2>2
<1>7. CASE LookAgain(c)
    <2>1. pc[c] = "look again" /\ UNCHANGED <<entries, outcome, lock, seen, doc>>
        BY <1>7 DEF LookAgain
    <2>2. \E where \in {"take over", "deadline"} : pc' = [pc EXCEPT ![c] = where]
        BY <1>7 DEF LookAgain
    <2> QED BY <2>1, <2>2
<1>8. CASE TakeOver(c)
    <2>1. \A d \in Call : ~Holds(d)
        BY <1>8 DEF TakeOver, OnlyDeadAreTaken, Dead
    <2>2. pc[c] = "take over" /\ UNCHANGED <<entries, outcome, seen, doc>>
        BY <1>8 DEF TakeOver
    <2>3. \E where \in {"mkdir", "deadline"} : pc' = [pc EXCEPT ![c] = where]
        BY <1>8 DEF TakeOver
    <2> QED BY <2>1, <2>2, <2>3
<1>9. CASE Sleep(c)
    BY <1>9 DEF Sleep
<1>10. CASE TimeOut(c)
    BY <1>10 DEF TimeOut
<1>11. CASE Identify(c)
    BY <1>11 DEF Identify
<1>12. CASE IdentifyFails(c)
    <2>1. /\ pc[c] = "identify" /\ pc' = [pc EXCEPT ![c] = "done"]
          /\ outcome' = [outcome EXCEPT ![c] = "skipped"] /\ UNCHANGED <<entries, seen, doc>>
        BY <1>12 DEF IdentifyFails
    <2>2. \A d \in Call : ~Holds(d)'
        BY <1>0, <2>1
    <2> QED BY <2>1, <2>2
<1>13. CASE Load(c)
    <2>1. Reported(Request[c], entries[KeyOf[c]]) # "pending"
        BY CallSees, ReportedIsOutcome
    <2>2. /\ pc[c] = "load" /\ Parses(Request[c], entries[KeyOf[c]])
          /\ UNCHANGED <<entries, lock, seen>> /\ doc' = [doc EXCEPT ![c] = entries]
        BY <1>13 DEF Load
    <2>3. \/ /\ pc' = [pc EXCEPT ![c] = "release"]
             /\ outcome' = [outcome EXCEPT ![c] = Reported(Request[c], entries[KeyOf[c]])]
          \/ pc' = [pc EXCEPT ![c] = "write"] /\ outcome' = outcome
        BY <1>13 DEF Load
    <2>4. HolderKnowsLock'
        BY <2>2, <2>3
    <2>5. LoadedIsCurrent'
        BY <2>2, <2>3
    <2>6. PendingUntilWritten'
        BY <2>1, <2>2, <2>3
    <2> QED BY <2>4, <2>5, <2>6
<1>14. CASE LoadFails(c)
    BY <1>14 DEF LoadFails
<1>15. CASE Write(c)
    <2>1. Reported(Request[c], doc[c][KeyOf[c]]) # "pending"
        BY CallSees, ReportedIsOutcome
    <2>2. pc[c] = "write" /\ pc' = [pc EXCEPT ![c] = "release"] /\ UNCHANGED <<lock, seen>>
        BY <1>15 DEF Write
    <2>3. \A d \in Call : pc'[d] # "write"
        BY <1>0, <2>2
    <2>4. HolderKnowsLock'
        BY <2>2
    <2>5. LoadedIsCurrent'
        BY <2>3
    <2>6. PendingUntilWritten'
        BY <1>15, <2>1 DEF Write
    <2> QED BY <2>4, <2>5, <2>6
<1>16. CASE WriteFails(c)
    BY <1>16 DEF WriteFails
<1>17. CASE LookAtOwn(c)
    <2>1. pc[c] = "release" /\ UNCHANGED <<entries, outcome, lock, seen, doc>>
        BY <1>17 DEF LookAtOwn
    <2>2. \E where \in {"remove own", "done"} : pc' = [pc EXCEPT ![c] = where]
        BY <1>17 DEF LookAtOwn
    <2> QED BY <2>1, <2>2
<1>18. CASE RemoveOwn(c)
    <2>1. /\ pc[c] = "remove own" /\ pc' = [pc EXCEPT ![c] = "done"]
          /\ UNCHANGED <<entries, outcome, seen, doc>>
        BY <1>18 DEF RemoveOwn
    <2>2. \A d \in Call : ~Holds(d)'
        BY <1>0, <2>1
    <2> QED BY <2>1, <2>2
<1> QED BY <1>1, <1>2, <1>3, <1>4, <1>5, <1>6, <1>7, <1>8, <1>9,
           <1>10, <1>11, <1>12, <1>13, <1>14, <1>15, <1>16, <1>17, <1>18
        DEF Step, Acquire, Edit, Release

LEMMA NextKeepsExclusive ==
    ASSUME Orderly PROVE TypeOK /\ Queued /\ Exclusive /\ [Next]_vars => Exclusive'
<1> SUFFICES ASSUME TypeOK, Queued, Exclusive, [Next]_vars PROVE Exclusive'
    OBVIOUS
<1>1. CASE \E c \in Call : Step(c)
    <2>1. PICK c \in Call : Step(c)
        BY <1>1
    <2>2. Secured'
        BY <2>1, StepKeepsSecured, Orderly DEF Exclusive, Secured
    <2> QED BY <2>1, <2>2, StepKeepsKnown DEF Exclusive, Secured
<1>2. CASE LockAges
    <2>1. /\ lock # NoLock /\ pc[lock.maker] = "done"
          /\ lock' = [lock EXCEPT !.stale = TRUE]
          /\ UNCHANGED <<entries, outcome, pc, seen, doc>>
        BY <1>2, Orderly DEF Orderly, LockAges
    <2>2. lock \in Directory
        BY <2>1 DEF TypeOK
    <2>3. lock' \in Directory /\ lock'.maker = lock.maker /\ lock'.inode = lock.inode
        BY <2>1, <2>2 DEF Directory
    <2>4. lock' # NoLock
        BY <2>3 DEF Directory
    <2>5. Dead(ProcessOf[lock.maker])
        BY <2>1 DEF Exclusive, LockIsHeld, Holds
    <2> QED BY <2>1, <2>3, <2>4, <2>5 DEF Exclusive, HolderIsMaker, LockIsHeld, HolderKnowsLock,
               OnlyDeadAreTaken, LoadedIsCurrent, PendingUntilWritten, Holds, Dead
<1>3. CASE \E p \in Process : Die(p)
    <2>1. PICK p \in Process : Die(p)
        BY <1>3
    <2>2. /\ p \in Mortal /\ UNCHANGED <<entries, lock, seen, doc>>
          /\ \A c \in Call : pc'[c] = IF ProcessOf[c] = p THEN "done" ELSE pc[c]
          /\ \A c \in Call : outcome'[c] = IF ProcessOf[c] = p /\ outcome[c] = "pending"
                                           THEN "skipped" ELSE outcome[c]
        BY <2>1 DEF Die
    <2>3. Dead(p)' /\ \A r : Dead(r) => Dead(r)'
        BY <2>2 DEF Dead
    <2>4. \A c \in Call : Holds(c)' => Holds(c)
        BY <2>2 DEF Holds
    <2>5. lock # NoLock => lock.maker \in Call
        BY DEF TypeOK, Directory
    <2>6. HolderIsMaker' /\ HolderKnowsLock' /\ LoadedIsCurrent'
        BY <2>2, <2>4 DEF Exclusive, HolderIsMaker, HolderKnowsLock, LoadedIsCurrent
    <2>7. LockIsHeld'
        BY <2>2, <2>3, <2>5 DEF Exclusive, LockIsHeld, Holds
    <2>8. OnlyDeadAreTaken'
        BY <2>2, <2>3 DEF Exclusive, OnlyDeadAreTaken
    <2>9. PendingUntilWritten'
        BY <2>2 DEF Exclusive, PendingUntilWritten
    <2> QED BY <2>6, <2>7, <2>8, <2>9 DEF Exclusive
<1>4. CASE UNCHANGED vars
    BY <1>4 DEF vars, Exclusive, HolderIsMaker, LockIsHeld, HolderKnowsLock,
                OnlyDeadAreTaken, LoadedIsCurrent, PendingUntilWritten, Holds, Dead
<1> QED BY <1>1, <1>2, <1>3, <1>4 DEF Next

LEMMA ExclusiveHolds == ASSUME Orderly PROVE Spec => [](TypeOK /\ Waiting /\ Exclusive)
<1>1. Init => TypeOK /\ Waiting /\ Exclusive
    BY ExclusiveInitially, InitiallyWaiting
<1>2. TypeOK /\ Waiting /\ Exclusive /\ [Next]_vars => (TypeOK /\ Waiting /\ Exclusive)'
    BY NextKeepsTypes, NextKeepsWaiting, NextKeepsExclusive, Orderly DEF Waiting
<1> QED BY <1>1, <1>2, PTL DEF Spec

(* At most one call is between its mkdir and its release, in any process    *)
(* (acquireLock); and where one process dies with the lock and the only     *)
(* other one takes it over, there too.                                      *)
THEOREM OneWriterAtATime == ASSUME Orderly PROVE Spec => []OneWriter
<1>1. TypeOK /\ Waiting /\ Exclusive => OneWriter
    BY DEF Exclusive, HolderIsMaker, OneWriter
<1> QED BY <1>1, ExclusiveHolds, PTL

-----------------------------------------------------------------------------
(* Each step is an update at one instant, a call given up, or neither. *)
LEMMA StepIsAtomic ==
    ASSUME TypeOK, Exclusive, NEW c \in Call, Step(c)
    PROVE  File!Next \/ UNCHANGED File!fileVars
<1> USE DEF TypeOK, File!fileVars
<1>1. outcome[c] = "pending" <=> pc[c] \notin {"release", "remove own", "done"}
    BY DEF Exclusive, PendingUntilWritten
<1>2. ASSUME outcome[c] = "pending", UNCHANGED entries,
             \E o \in NotDone : outcome' = [outcome EXCEPT ![c] = o]
      PROVE  File!Next
    <2>1. PICK o \in NotDone : outcome' = [outcome EXCEPT ![c] = o]
        BY <1>2
    <2>2. outcome' = [d \in Call |-> IF d \in {c} THEN o ELSE outcome[d]]
        BY <2>1
    <2>3. File!Skip({c})
        BY <1>2, <2>2 DEF File!Skip, File!NotDone, NotDone
    <2> QED BY <2>3 DEF File!Next
<1>3. CASE SkipTimedOut(c) \/ MkdirFails(c) \/ TimeOut(c) \/ IdentifyFails(c)
           \/ LoadFails(c) \/ WriteFails(c)
    BY <1>1, <1>2, <1>3 DEF SkipTimedOut, MkdirFails, TimeOut, IdentifyFails, LoadFails,
                            WriteFails, Skipped, NotDone
<1>4. CASE EnterMutex(c) \/ MakeLock(c) \/ FindLock(c) \/ LookAtLock(c) \/ LookAgain(c)
           \/ TakeOver(c) \/ Sleep(c) \/ Identify(c) \/ LookAtOwn(c) \/ RemoveOwn(c)
    BY <1>4 DEF EnterMutex, MakeLock, FindLock, LookAtLock, LookAgain, TakeOver, Sleep,
                Identify, LookAtOwn, RemoveOwn
<1>5. ASSUME outcome[c] = "pending", Parses(Request[c], entries[KeyOf[c]]),
             entries' = [entries EXCEPT ![KeyOf[c]] = Updated(Request[c], entries[KeyOf[c]])],
             outcome' = [outcome EXCEPT ![c] = Reported(Request[c], entries[KeyOf[c]])]
      PROVE  File!Next
    <2>1. /\ File!Updated(Request[c], entries[KeyOf[c]]) = Updated(Request[c], entries[KeyOf[c]])
          /\ File!Parses(Request[c], entries[KeyOf[c]])
        BY <1>5 DEF File!Updated, File!Parses, File!Withdrawn, Updated, Parses, Withdrawn
    <2>2. File!Reported(Request[c], entries[KeyOf[c]]) = Reported(Request[c], entries[KeyOf[c]])
        BY DEF File!Reported, File!Granted, File!NoGrant, Reported, Granted, NoGrant
    <2>3. File!Update(c)
        BY <1>5, <2>1, <2>2 DEF File!Update
    <2> QED BY <2>3 DEF File!Next
<1>6. CASE Load(c)
    <2>1. CASE Updated(Request[c], entries[KeyOf[c]]) = entries[KeyOf[c]]
        BY <1>1, <1>5, <1>6, <2>1 DEF Load
    <2>2. CASE Updated(Request[c], entries[KeyOf[c]]) # entries[KeyOf[c]]
        BY <1>6, <2>2 DEF Load
    <2> QED BY <2>1, <2>2
<1>7. CASE Write(c)
    <2>1. doc[c] = entries /\ Parses(Request[c], entries[KeyOf[c]])
        BY <1>7 DEF Exclusive, LoadedIsCurrent, Write
    <2> QED BY <1>1, <1>5, <1>7, <2>1 DEF Write
<1> QED BY <1>3, <1>4, <1>6, <1>7 DEF Step, Acquire, Edit, Release

(* The locked read-modify-write is atomic: neither niwa nor Claude Code     *)
(* loses the other's write, and what a call reports, the grant that will    *)
(* say what to withdraw, is true of the entry it changed.                   *)
THEOREM UpdatesAreAtomic == ASSUME Orderly PROVE Spec => AtomicUpdates
<1>1. Init => File!Init
    BY DEF Init, File!Init, File!Entry, Entry
<1>2. TypeOK /\ Exclusive /\ [Next]_vars => [File!Next]_(File!fileVars)
    <2> SUFFICES ASSUME TypeOK, Exclusive, [Next]_vars
                 PROVE  File!Next \/ UNCHANGED File!fileVars
        OBVIOUS
    <2>1. CASE \E c \in Call : Step(c)
        BY <2>1, StepIsAtomic
    <2>2. CASE LockAges \/ UNCHANGED vars
        BY <2>2 DEF LockAges, vars, File!fileVars
    <2>3. CASE \E p \in Process : Die(p)
        <3>1. PICK p \in Process : Die(p)
            BY <2>3
        <3> DEFINE calls == {c \in Call : ProcessOf[c] = p /\ outcome[c] = "pending"}
        <3>2. /\ UNCHANGED entries
              /\ outcome' = [c \in Call |-> IF c \in calls THEN "skipped" ELSE outcome[c]]
            BY <3>1 DEF Die
        <3>3. \A c \in calls : outcome[c] = "pending"
            OBVIOUS
        <3>4. calls \in SUBSET Call
            OBVIOUS
        <3> HIDE DEF calls
        <3>5. File!Skip(calls)
            BY <3>2, <3>3 DEF File!Skip, File!NotDone
        <3> QED BY <3>4, <3>5 DEF File!Next
    <2> QED BY <2>1, <2>2, <2>3 DEF Next
<1> QED BY <1>1, <1>2, ExclusiveHolds, PTL DEF Spec, AtomicUpdates, File!Spec
=============================================================================
