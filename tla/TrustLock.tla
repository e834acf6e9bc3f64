------------------------------ MODULE TrustLock ------------------------------
(***************************************************************************)
(* The locked read-modify-write of Claude Code's user config: acquireLock  *)
(* and the release it returns (claudetrust/lock.go), around ensureEntry    *)
(* and withdrawEntry (claudetrust/claudetrust.go).                         *)
(*                                                                         *)
(* The lock is a directory beside the file, made with mkdir, and stale     *)
(* once it is old.  The calls of one niwa process first queue on a mutex.  *)
(* Claude Code takes the same lock by the same protocol (external).        *)
(* One action is at most one system call on a shared file.                 *)
(***************************************************************************)
EXTENDS TrustEntry, Naturals

CONSTANTS
    Process,    \* the processes that write the file
    ProcessOf,  \* [Call -> Process]
    Inode,      \* the numbers the file system gives to directories
    NoLock,     \* no directory at the lock path
    Nobody,     \* no call
    Slow,       \* processes that may stall longer than the staleness threshold
    Mortal,     \* processes that may die with the lock
    MaxPolls    \* bound: the times a call polls before its deadline passes

ConstantsAssumption ==
    /\ ProcessOf \in [Call -> Process]
    /\ Nobody \notin Call
    /\ NoLock \notin [maker : Call, inode : Inode, stale : BOOLEAN]
    /\ MaxPolls \in Nat
ASSUME ConstantsAssumption

VARIABLES
    entries,   \* [Key -> Entry]: the config file
    outcome,   \* [Call -> Outcome]: what each call reported
    lock,      \* the lock directory or NoLock; maker is who made it
    mutex,     \* [Process -> Call or Nobody]: processLocks at the lock path
    timedOut,  \* [Process -> BOOLEAN]: lockTimeouts at the lock path
    pc,        \* [Call -> PC]
    seen,      \* [Call -> Inode or Nobody]: the directory a call looked at:
               \*   first of a takeover, owned of a held lock
    doc,       \* [Call -> [Key -> Entry]]: the document a call loaded
    polls      \* [Call -> 0 .. MaxPolls]

vars == <<entries, outcome, lock, mutex, timedOut, pc, seen, doc, polls>>

Directory == [maker : Call, inode : Inode, stale : BOOLEAN]

PC == {"start", "mkdir", "look", "look again", "take over", "deadline",
       "identify", "load", "write", "release", "remove own", "done"}

TypeOK ==
    /\ entries \in [Key -> Entry]
    /\ outcome \in [Call -> Outcome]
    /\ lock \in Directory \cup {NoLock}
    /\ mutex \in [Process -> Call \cup {Nobody}]
    /\ timedOut \in [Process -> BOOLEAN]
    /\ pc \in [Call -> PC]
    /\ seen \in [Call -> Inode \cup {Nobody}]
    /\ doc \in [Call -> [Key -> Entry]]
    /\ polls \in [Call -> 0 .. MaxPolls]

(* From its mkdir to its release a call works under the lock. *)
Holds(c) == pc[c] \in {"identify", "load", "write", "release", "remove own"}

Init ==
    /\ entries \in [Key -> Entry]
    /\ outcome = [c \in Call |-> "pending"]
    /\ lock = NoLock
    /\ mutex = [p \in Process |-> Nobody]
    /\ timedOut = [p \in Process |-> FALSE]
    /\ pc = [c \in Call |-> "start"]
    /\ seen = [c \in Call |-> Nobody]
    /\ doc = [c \in Call |-> entries]
    /\ polls = [c \in Call |-> 0]

Goto(c, where) == pc' = [pc EXCEPT ![c] = where]

(* The call returns: its process's mutex is free again. *)
Return(c) ==
    /\ Goto(c, "done")
    /\ mutex' = [mutex EXCEPT ![ProcessOf[c]] = Nobody]

(* The call gives up and reports that nothing was written. *)
Skipped(c) == outcome' = [outcome EXCEPT ![c] = "skipped"]

-----------------------------------------------------------------------------
(* acquireLock *)

(* Mutant: no wait is remembered. *)
NeverSkipsWait(c) == FALSE

(* An Ensure does not wait again once a wait of its process timed out. *)
SkipsWait(c) == Request[c].kind = "ensure" /\ timedOut[ProcessOf[c]]

(* Mutant: the calls of one process do not queue. *)
EnterUnqueued(c) ==
    /\ pc[c] = "start"
    /\ ~SkipsWait(c)
    /\ mutex' = [mutex EXCEPT ![ProcessOf[c]] = c]
    /\ Goto(c, "mkdir")
    /\ UNCHANGED <<entries, outcome, lock, timedOut, seen, doc, polls>>

EnterMutex(c) ==
    /\ pc[c] = "start"
    /\ mutex[ProcessOf[c]] = Nobody
    /\ ~SkipsWait(c)
    /\ mutex' = [mutex EXCEPT ![ProcessOf[c]] = c]
    /\ Goto(c, "mkdir")
    /\ UNCHANGED <<entries, outcome, lock, timedOut, seen, doc, polls>>

SkipTimedOut(c) ==
    /\ pc[c] = "start"
    /\ mutex[ProcessOf[c]] = Nobody
    /\ SkipsWait(c)
    /\ Skipped(c)
    /\ Goto(c, "done")
    /\ UNCHANGED <<entries, lock, mutex, timedOut, seen, doc, polls>>

MakeLock(c) ==
    /\ pc[c] = "mkdir"
    /\ lock = NoLock
    /\ \E i \in Inode : lock' = [maker |-> c, inode |-> i, stale |-> FALSE]
    /\ Goto(c, "identify")
    /\ UNCHANGED <<entries, outcome, mutex, timedOut, seen, doc, polls>>

FindLock(c) ==
    /\ pc[c] = "mkdir"
    /\ lock # NoLock
    /\ Goto(c, "look")
    /\ UNCHANGED <<entries, outcome, lock, mutex, timedOut, seen, doc, polls>>

(* Any other error of the mkdir. *)
MkdirFails(c) ==
    /\ pc[c] = "mkdir"
    /\ Skipped(c)
    /\ Return(c)
    /\ UNCHANGED <<entries, lock, timedOut, seen, doc, polls>>

(* Mutant: a lock is taken over whatever its age. *)
AnyLock == lock # NoLock

Stale == lock # NoLock /\ lock.stale

(* The first and the second Lstat of a takeover. *)
LookAtLock(c) ==
    /\ pc[c] = "look"
    /\ IF Stale
       THEN seen' = [seen EXCEPT ![c] = lock.inode] /\ Goto(c, "look again")
       ELSE UNCHANGED seen /\ Goto(c, "deadline")
    /\ UNCHANGED <<entries, outcome, lock, mutex, timedOut, doc, polls>>

LookAgain(c) ==
    /\ pc[c] = "look again"
    /\ Goto(c, IF Stale /\ lock.inode = seen[c] THEN "take over" ELSE "deadline")
    /\ UNCHANGED <<entries, outcome, lock, mutex, timedOut, seen, doc, polls>>

(* os.Remove removes what is at the path by now, and the mkdir is retried. *)
TakeOver(c) ==
    /\ pc[c] = "take over"
    /\ lock' = NoLock
    /\ Goto(c, IF lock = NoLock THEN "deadline" ELSE "mkdir")
    /\ UNCHANGED <<entries, outcome, mutex, timedOut, seen, doc, polls>>

(* Mutant: one poll more than the deadline allows. *)
SleepPastDeadline(c) ==
    /\ pc[c] = "deadline"
    /\ polls[c] <= MaxPolls
    /\ polls' = [polls EXCEPT ![c] = @ + 1]
    /\ Goto(c, "mkdir")
    /\ UNCHANGED <<entries, outcome, lock, mutex, timedOut, seen, doc>>

Sleep(c) ==
    /\ pc[c] = "deadline"
    /\ polls[c] < MaxPolls
    /\ polls' = [polls EXCEPT ![c] = @ + 1]
    /\ Goto(c, "mkdir")
    /\ UNCHANGED <<entries, outcome, lock, mutex, timedOut, seen, doc>>

(* Mutant: the mutex is not given back on a timeout. *)
TimeOutHolding(c) ==
    /\ pc[c] = "deadline"
    /\ timedOut' = [timedOut EXCEPT ![ProcessOf[c]] = TRUE]
    /\ outcome' = [outcome EXCEPT ![c] = "busy"]
    /\ Goto(c, "done")
    /\ UNCHANGED <<entries, lock, mutex, seen, doc, polls>>

TimeOut(c) ==
    /\ pc[c] = "deadline"
    /\ timedOut' = [timedOut EXCEPT ![ProcessOf[c]] = TRUE]
    /\ outcome' = [outcome EXCEPT ![c] = "busy"]
    /\ Return(c)
    /\ UNCHANGED <<entries, lock, seen, doc, polls>>

(* The identity of the directory at the path, which is the one just made   *)
(* unless it was taken over already.                                       *)
Identify(c) ==
    /\ pc[c] = "identify"
    /\ lock # NoLock
    /\ seen' = [seen EXCEPT ![c] = lock.inode]
    /\ Goto(c, "load")
    /\ UNCHANGED <<entries, outcome, lock, mutex, timedOut, doc, polls>>

(* Without it the lock is given up at once. *)
IdentifyFails(c) ==
    /\ pc[c] = "identify"
    /\ lock' = NoLock
    /\ Skipped(c)
    /\ Return(c)
    /\ UNCHANGED <<entries, timedOut, seen, doc, polls>>

-----------------------------------------------------------------------------
(* ensureEntry, withdrawEntry *)

(* Mutant: the document was loaded before the lock was taken. *)
LoadedUnlocked(c) ==
    LET op == Request[c]
        e  == doc[c][KeyOf[c]] IN
    /\ pc[c] = "load"
    /\ Parses(op, e)
    /\ IF Updated(op, e) = e
       THEN /\ outcome' = [outcome EXCEPT ![c] = Reported(op, e)]
            /\ Goto(c, "release")
       ELSE UNCHANGED outcome /\ Goto(c, "write")
    /\ UNCHANGED <<entries, lock, mutex, timedOut, seen, doc, polls>>

(* The document is loaded.  An entry that is as the call wants it is not    *)
(* written.                                                                 *)
Load(c) ==
    LET op == Request[c]
        e  == entries[KeyOf[c]] IN
    /\ pc[c] = "load"
    /\ Parses(op, e)
    /\ doc' = [doc EXCEPT ![c] = entries]
    /\ IF Updated(op, e) = e
       THEN /\ outcome' = [outcome EXCEPT ![c] = Reported(op, e)]
            /\ Goto(c, "release")
       ELSE UNCHANGED outcome /\ Goto(c, "write")
    /\ UNCHANGED <<entries, lock, mutex, timedOut, seen, polls>>

(* The file or the entry is not what it should be, or cannot be read. *)
LoadFails(c) ==
    /\ pc[c] = "load"
    /\ Skipped(c)
    /\ Goto(c, "release")
    /\ UNCHANGED <<entries, lock, mutex, timedOut, seen, doc, polls>>

(* A temporary file renamed over the config: the whole document, as it was  *)
(* loaded but for one entry.                                                *)
Write(c) ==
    LET op == Request[c]
        e  == doc[c][KeyOf[c]] IN
    /\ pc[c] = "write"
    /\ entries' = [doc[c] EXCEPT ![KeyOf[c]] = Updated(op, e)]
    /\ outcome' = [outcome EXCEPT ![c] = Reported(op, e)]
    /\ Goto(c, "release")
    /\ UNCHANGED <<lock, mutex, timedOut, seen, doc, polls>>

WriteFails(c) ==
    /\ pc[c] = "write"
    /\ Skipped(c)
    /\ Goto(c, "release")
    /\ UNCHANGED <<entries, lock, mutex, timedOut, seen, doc, polls>>

-----------------------------------------------------------------------------
(* The release: os.SameFile compares inodes, then os.Remove goes by path. *)

LookAtOwn(c) ==
    /\ pc[c] = "release"
    /\ IF lock # NoLock /\ lock.inode = seen[c]
       THEN Goto(c, "remove own") /\ UNCHANGED mutex
       ELSE Return(c)
    /\ UNCHANGED <<entries, outcome, lock, timedOut, seen, doc, polls>>

RemoveOwn(c) ==
    /\ pc[c] = "remove own"
    /\ lock' = NoLock
    /\ Return(c)
    /\ UNCHANGED <<entries, outcome, timedOut, seen, doc, polls>>

-----------------------------------------------------------------------------
(* The world. *)

(* A lock gets old when whoever made it is gone or stalls. *)
LockAges ==
    /\ lock # NoLock
    /\ pc[lock.maker] = "done" \/ ProcessOf[lock.maker] \in Slow
    /\ lock' = [lock EXCEPT !.stale = TRUE]
    /\ UNCHANGED <<entries, outcome, mutex, timedOut, pc, seen, doc, polls>>

(* A process dies: its calls end where they are, its lock directory stays. *)
Die(p) ==
    /\ p \in Mortal
    /\ pc' = [c \in Call |-> IF ProcessOf[c] = p THEN "done" ELSE pc[c]]
    /\ outcome' = [c \in Call |->
           IF ProcessOf[c] = p /\ outcome[c] = "pending" THEN "skipped" ELSE outcome[c]]
    /\ mutex' = [mutex EXCEPT ![p] = Nobody]
    /\ UNCHANGED <<entries, lock, timedOut, seen, doc, polls>>

Acquire(c) ==
    \/ EnterMutex(c) \/ SkipTimedOut(c)
    \/ MakeLock(c) \/ FindLock(c) \/ MkdirFails(c)
    \/ LookAtLock(c) \/ LookAgain(c) \/ TakeOver(c)
    \/ Sleep(c) \/ TimeOut(c)
    \/ Identify(c) \/ IdentifyFails(c)

Edit(c) == Load(c) \/ LoadFails(c) \/ Write(c) \/ WriteFails(c)

Release(c) == LookAtOwn(c) \/ RemoveOwn(c)

Step(c) == Acquire(c) \/ Edit(c) \/ Release(c)

Next ==
    \/ \E c \in Call : Step(c)
    \/ LockAges
    \/ \E p \in Process : Die(p)

Spec == Init /\ [][Next]_vars

(* A call that runs takes its next step: nothing it does blocks for good. *)
FairSpec == Spec /\ \A c \in Call : WF_vars(Step(c))

-----------------------------------------------------------------------------
(* What the lock is for. *)

(* The updates of the config file are atomic: `so neither side loses the    *)
(* other's write' (package claudetrust, "Claude Code's lock").  The         *)
(* detailed locking implements TrustFile.                                   *)
File == INSTANCE TrustFile WITH entries <- entries, outcome <- outcome
AtomicUpdates == File!Spec

(* At most one call is between its mkdir and its release: acquireLock.      *)
OneWriter == \A c, d \in Call : Holds(c) /\ Holds(d) => c = d

(* A sweep over many instances does not wait the full timeout once per      *)
(* instance: of the Ensures of one process at most one times out waiting,   *)
(* the goroutines queued behind it skip (lockTimeouts).                     *)
OneEnsureWaits ==
    \A c, d \in Call :
        /\ Request[c].kind = "ensure" /\ outcome[c] = "busy"
        /\ Request[d].kind = "ensure" /\ outcome[d] = "busy"
        /\ ProcessOf[c] = ProcessOf[d]
        => c = d

(* Whoever dies with the lock, every call returns: the wait has a deadline  *)
(* and the process mutex is always given back (acquireLock, the deferred    *)
(* release of ensureEntry and withdrawEntry).                               *)
EveryCallReturns == \A c \in Call : <>(pc[c] = "done")
=============================================================================
