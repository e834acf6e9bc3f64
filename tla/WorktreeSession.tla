--------------------------- MODULE WorktreeSession ---------------------------
(***************************************************************************)
(* One worktree session of an instance: the record in .niwa/sessions, the  *)
(* git worktree and its branch, and the attach lock and sentinel inside it *)
(* - with the command or hook that creates it, the four ways to destroy it *)
(* and the processes that attach to and detach from it.  Sessions share    *)
(* nothing but the directory their ids are reserved in.                    *)
(***************************************************************************)
EXTENDS Integers, FiniteSetsExt, TLC

CONSTANTS
    None,
    Remover,        (* processes that destroy the session, in any way      *)
    Attacher,       (* `niwa session attach` processes                     *)
    Detacher,       (* `niwa session detach --force`                       *)
    MaxWorks,       (* bound: changes in the worktree and of the session   *)
    MaxEvents       (* bound: kills and failures                           *)

(* `niwa worktree destroy`, the same with --force, a SubagentStop or       *)
(* WorktreeRemove hook, `niwa reap`, and the create hook's own teardown.   *)
Way == {"user", "forced", "hook", "sweep", "rollback"}

(* conv: it has a conversation to attach to, which only older versions of  *)
(* niwa recorded; print: the ignored files' baseline.                      *)
Record == [status : {"none", "reserved", "active", "ended"}, hook : BOOLEAN,
           conv : BOOLEAN, base : BOOLEAN, print : {None} \cup 0..MaxWorks]
NoRecord == [status |-> "none", hook |-> FALSE, conv |-> FALSE, base |-> FALSE, print |-> None]

Work == {"edits", "hidden", "ignored", "commits"}

VARIABLES
    rec,       (* sessions/<id>.json                                       *)
    tree,      (* its directory: absent, a worktree, or only a .niwa       *)
    branch,    (* its branch: absent, at the base commit, or ahead of it   *)
    work,      (* uncommitted edits, and those hidden from git status      *)
    ignored,   (* the changes of its git-ignored files                     *)
    works,     (* the changes so far                                       *)
    sentinel,  (* .niwa/attach.state: the process it names                 *)
    flock,     (* who holds the attach.lock that is in the directory now   *)
    job,       (* the agent's session: its job entry, and its transcript   *)
    pc,        (* where each process is                                    *)
    way,       (* what each remover is                                     *)
    copy,      (* the record each has read                                 *)
    target,    (* the holder each detach has read                          *)
    since,     (* history: what happened since each remover's first check  *)
    reopened,  (* history: a baseline was saved over an ended record       *)
    events     (* kills and failures so far                                *)

git == <<tree, branch, work, ignored, works>>
removers == <<way, copy>>
attach == <<sentinel, flock>>
history == <<since, reopened>>
vars == <<rec, git, attach, job, pc, removers, target, history, events>>

Creator == "create"
(* A process a sentinel still names that is not there any more. *)
Gone == "gone"
Actor == Remover \cup Attacher \cup Detacher \cup {Creator}

(* Every process is of one kind, and nobody is none of them.               *)
ASSUME ConstantsAssumption ==
    /\ Remover \cap Attacher = {} /\ Remover \cap Detacher = {} /\ Attacher \cap Detacher = {}
    /\ {None, Creator, Gone} \cap (Remover \cup Attacher \cup Detacher) = {}
    /\ None \notin Nat \cup {Gone}
    /\ MaxWorks \in Nat /\ MaxEvents \in Nat

TypeOK ==
    /\ rec \in Record
    /\ tree \in {"absent", "worktree", "stub"}
    /\ branch \in {"absent", "base", "ahead"}
    /\ work \subseteq {"edits", "hidden"}
    /\ ignored \in 0..MaxWorks /\ works \in 0..MaxWorks
    /\ sentinel \in {None, Gone} \cup Attacher /\ flock \in {None} \cup Attacher
    /\ job \in [atCreate : BOOLEAN, entry : BOOLEAN, idle : BOOLEAN]
    /\ way \in [Remover -> Way \cup {None}]
    /\ copy \in [Remover \cup {Creator} -> Record]
    /\ target \in [Detacher -> {None, Gone} \cup Attacher]
    /\ since \in [Remover -> SUBSET (Work \cup {"attach", "resume"})]
    /\ reopened \in BOOLEAN
    /\ events \in 0..MaxEvents

(* A create that is about to start, or a session an older niwa made.       *)
Init ==
    /\ \/ /\ rec = NoRecord /\ tree = "absent" /\ branch = "absent"
          /\ pc = [x \in Actor |-> IF x = Creator THEN "new" ELSE "idle"]
       \/ /\ rec = [NoRecord EXCEPT !.status = "active", !.conv = TRUE]
          /\ tree = "worktree" /\ branch = "base"
          /\ pc = [x \in Actor |-> "idle"]
    /\ work = {} /\ ignored = 0 /\ works = 0 /\ sentinel = None /\ flock = None
    /\ job \in [atCreate : IF rec.conv THEN {FALSE} ELSE BOOLEAN, entry : {TRUE}, idle : {FALSE}]
    /\ way = [r \in Remover |-> None]
    /\ copy = [x \in Remover \cup {Creator} |-> NoRecord]
    /\ target = [d \in Detacher |-> None]
    /\ since = [r \in Remover |-> {}]
    /\ reopened = FALSE
    /\ events = 0

At(x, label) == pc[x] = label
Goto(x, label) == pc' = [pc EXCEPT ![x] = label]
Occurs == events < MaxEvents /\ events' = events + 1
Happens(what) ==
    /\ since' = [r \in Remover |-> 
                   IF At(r, "idle") THEN {} ELSE since[r] \cup what]
    /\ UNCHANGED reopened

(***************************************************************************)
(* Create.  The id is reserved by an empty file, which stays if nothing    *)
(* follows; the record is written last, so that a failure before it leaves *)
(* no session.                                                             *)
(***************************************************************************)
Reserve ==
    /\ At(Creator, "new")
    /\ rec' = [NoRecord EXCEPT !.status = "reserved"]
    /\ Goto(Creator, "add")
    /\ UNCHANGED <<git, attach, job, removers, target, history, events>>

AddWorktree ==
    /\ At(Creator, "add")
    /\ \/ tree' = "worktree" /\ branch' = "base" /\ Goto(Creator, "record") /\ UNCHANGED events
       \/ Occurs /\ Goto(Creator, "idle") /\ UNCHANGED <<tree, branch>>
    /\ UNCHANGED <<rec, work, ignored, works, attach, job, removers, target, history>>

WriteRecord(hook) ==
    /\ At(Creator, "record")
    /\ \/ /\ \E base \in BOOLEAN :
                rec' = [NoRecord EXCEPT !.status = "active", !.hook = hook, !.base = base]
          /\ Goto(Creator, IF hook THEN "content" ELSE "idle")
          /\ UNCHANGED <<tree, events>>
       \/ Occurs /\ tree' = "absent" /\ Goto(Creator, "idle") /\ UNCHANGED rec
    /\ UNCHANGED <<branch, work, ignored, works, attach, job, removers, target, history>>

(* The content is installed; a setup script of the workspace's may touch   *)
(* tracked files.  A failure is rolled back by an unforced destroy.        *)
InstallContent ==
    /\ At(Creator, "content")
    /\ IF tree = "absent" THEN tree' \in {"absent", "stub"} /\ UNCHANGED <<work, history>>
       ELSE /\ \/ work' = work \cup {"edits"} /\ Happens({"edits"})
               \/ UNCHANGED <<work, history>>
            /\ UNCHANGED tree
    /\ \/ Goto(Creator, "baseline") /\ UNCHANGED <<way, events>>
       \/ /\ Occurs
          /\ \E r \in Remover :
                 /\ At(r, "idle")
                 /\ way' = [way EXCEPT ![r] = "rollback"]
                 /\ pc' = [pc EXCEPT ![Creator] = "idle", ![r] = "read"]
    /\ UNCHANGED <<rec, branch, ignored, works, attach, job, copy, target>>

ReadForBaseline ==
    /\ At(Creator, "baseline")
    /\ \/ copy' = [copy EXCEPT ![Creator] = [rec EXCEPT !.print = ignored]]
          /\ Goto(Creator, "save") /\ UNCHANGED events
       \/ Occurs /\ Goto(Creator, "idle") /\ UNCHANGED copy
    /\ UNCHANGED <<rec, git, attach, job, way, target, history>>

SaveBaseline ==
    /\ At(Creator, "save")
    /\ \/ rec' = copy[Creator] /\ reopened' = (rec.status = "ended") /\ UNCHANGED events
       \/ Occurs /\ UNCHANGED <<rec, reopened>>
    /\ Goto(Creator, "idle")
    /\ copy' = [copy EXCEPT ![Creator] = NoRecord]
    /\ UNCHANGED <<git, attach, job, way, target, since>>

Create ==
    \/ Reserve \/ AddWorktree \/ InstallContent \/ ReadForBaseline \/ SaveBaseline
    \/ \E hook \in BOOLEAN : WriteRecord(hook)

(***************************************************************************)
(* Before a destroy: what the sweep and the agent's hooks look at.         *)
(***************************************************************************)
(* Mutant: a held worker's session goes by its transcript. *)
HookSessionEndedByTranscript == job.idle

HookSessionEnded == IF job.atCreate THEN ~job.entry ELSE job.idle

WorktreeUnchanged ==
    /\ rec.base /\ rec.print # None
    /\ tree = "worktree" /\ work = {}
    /\ ignored = rec.print /\ branch = "base"

Unforced(r) == way[r] # "forced"

(* The mode a destroy is begun in, and what it begins with. *)
Begins(r, as, label) ==
    /\ r \in Remover /\ At(r, "idle")
    /\ way' = [way EXCEPT ![r] = as]
    /\ Goto(r, label)

Stops(r) ==
    /\ Goto(r, "idle")
    /\ way' = [way EXCEPT ![r] = None]
    /\ copy' = [copy EXCEPT ![r] = NoRecord]
    /\ since' = [since EXCEPT ![r] = {}]
    /\ UNCHANGED reopened

(* The removal gate may refuse, which is a sweep that does not happen.     *)
SweepSelects(r) ==
    /\ rec.status = "active" /\ rec.hook /\ HookSessionEnded /\ WorktreeUnchanged
    /\ Begins(r, "sweep", "read")
    /\ UNCHANGED <<rec, git, attach, job, copy, target, history, events>>

(* SubagentStop wants a hook's worktree and wants it unchanged;            *)
(* WorktreeRemove takes whichever session has the path, once its agent has *)
(* it.  Both release the sentinel, taken for the agent's own.              *)
HookSelects(r, stop) ==
    /\ At(Creator, "idle")
    /\ rec.status = "active"
    /\ stop => rec.hook /\ WorktreeUnchanged
    /\ sentinel' = None
    /\ Begins(r, "hook", "read")
    /\ UNCHANGED <<rec, git, flock, job, copy, target, history, events>>

UserSelects(r, force) ==
    /\ rec.status = "active"
    /\ Begins(r, IF force THEN "forced" ELSE "user", "read")
    /\ UNCHANGED <<rec, git, attach, job, copy, target, history, events>>

(***************************************************************************)
(* DestroySession.                                                         *)
(***************************************************************************)
HeldLive == sentinel \in Attacher

(* Mutant: a lock that is held stops nobody. *)
HeldBackNever(r) == FALSE

(* An unforced destroy stands back from whoever it sees to hold it.        *)
HeldBack(r) == Unforced(r) /\ HeldLive

(* Only an active record is torn down.                                     *)
ReadRecord(r) ==
    /\ r \in Remover /\ At(r, "read")
    /\ IF rec.status # "active" \/ HeldBack(r)
       THEN Stops(r)
       ELSE /\ copy' = [copy EXCEPT ![r] = rec]
            /\ Goto(r, "dirty")
            /\ since' = [since EXCEPT ![r] = @ \ {"attach"}]
            /\ UNCHANGED <<way, reopened>>
    /\ UNCHANGED <<rec, git, attach, job, target, events>>

(* Mutant: only the agent's hooks ask for a clean worktree. *)
DirtyOrGoneForHooks(r) == way[r] = "hook" /\ "edits" \in work

(* A worktree that can't be looked at is not taken for a clean one.        *)
DirtyOrGone(r) == Unforced(r) /\ (tree # "worktree" \/ "edits" \in work)

CheckDirty(r) ==
    /\ r \in Remover /\ At(r, "dirty")
    /\ IF DirtyOrGone(r) THEN Stops(r)
       ELSE /\ Goto(r, "end")
            /\ since' = [since EXCEPT ![r] = @ \ {"edits"}]
            /\ UNCHANGED <<removers, reopened>>
    /\ UNCHANGED <<rec, git, attach, job, target, events>>

(* Mutant: the worktree goes first. *)
EndLast(r) == tree' = "absent" /\ UNCHANGED rec

EndFirst(r) == rec' = [copy[r] EXCEPT !.status = "ended"] /\ UNCHANGED tree

EndRecord(r) ==
    /\ r \in Remover /\ At(r, "end")
    /\ \/ EndFirst(r) /\ Goto(r, "remove") /\ UNCHANGED <<removers, history, events>>
       \/ Occurs /\ Stops(r) /\ UNCHANGED <<rec, tree>>
    /\ UNCHANGED <<branch, work, ignored, works, attach, job, target>>

(* `git branch -d` keeps what is not merged.                               *)
BranchKept(r) == Unforced(r) /\ branch = "ahead"

(* `git worktree remove --force`, whose failure is ignored.                *)
RemoveWorktree(r) ==
    /\ r \in Remover /\ At(r, "remove")
    /\ \/ /\ tree' = "absent" /\ work' = {}
          /\ sentinel' = None /\ flock' = None
          /\ branch' = IF BranchKept(r) THEN branch ELSE "absent"
          /\ UNCHANGED events
       \/ Occurs /\ UNCHANGED <<tree, work, branch, attach>>
    /\ Stops(r)
    /\ UNCHANGED <<rec, ignored, works, job, target>>

Destroys ==
    \E r \in Remover :
        \/ SweepSelects(r) 
        \/ \E is \in BOOLEAN : HookSelects(r, is) \/ UserSelects(r, is)
        \/ ReadRecord(r) \/ CheckDirty(r) \/ EndRecord(r) \/ RemoveWorktree(r)

(***************************************************************************)
(* Attach.  The lock is a flock, let go when its holder dies; the sentinel *)
(* names the holder, by pid and start time, for everyone else.             *)
(***************************************************************************)
(* An attach to a record without a conversation, refused at the preflight, *)
(* is left out.                                                            *)
ReadStatus(a) ==
    /\ a \in Attacher /\ At(a, "idle")
    /\ rec.status = "active" /\ rec.conv
    /\ Goto(a, "lock")
    /\ UNCHANGED <<rec, git, attach, job, removers, target, history, events>>

(* Mutant: with no sentinel the lock is taken for free. *)
LockIsFreeOrUnclaimed(a) == flock = None \/ sentinel = None

LockIsFree(a) == flock = None

(* The .niwa directory is made if it is missing, and the lock file with    *)
(* it; a held lock refuses, unless the sentinel is a stale one.            *)
TakeLock(a) ==
    /\ a \in Attacher /\ At(a, "lock")
    /\ tree' = IF tree = "absent" THEN "stub" ELSE tree
    /\ IF LockIsFree(a)
       THEN flock' = a /\ Goto(a, "preflight")
       ELSE /\ Goto(a, IF sentinel = Gone THEN "reap" ELSE "idle")
            /\ UNCHANGED flock
    /\ UNCHANGED <<rec, branch, work, ignored, works, sentinel, job, removers, target, history, events>>

(* It is taken away by its path, whosever it is by now.                    *)
ReapStale(a) ==
    /\ a \in Attacher /\ At(a, "reap")
    /\ sentinel' = None /\ Goto(a, "lock again")
    /\ UNCHANGED <<rec, git, flock, job, removers, target, history, events>>

(* Once; and the directory is not made again.                              *)
TakeLockAgain(a) ==
    /\ a \in Attacher /\ At(a, "lock again")
    /\ IF LockIsFree(a) /\ tree # "absent"
       THEN flock' = a /\ Goto(a, "preflight")
       ELSE Goto(a, "idle") /\ UNCHANGED flock
    /\ UNCHANGED <<rec, git, sentinel, job, removers, target, history, events>>

LetsGo(a) == flock' = IF flock = a THEN None ELSE flock
(* A later attach is a process of its own. *)
Forgets(a) == target' = [d \in Detacher |-> IF target[d] = a THEN Gone ELSE target[d]]

(* The conversation's transcript may be gone; and the sentinel can't be    *)
(* written where there is no directory any more.                           *)
WriteSentinel(a) ==
    /\ a \in Attacher /\ At(a, "preflight")
    /\ \/ /\ tree # "absent"
          /\ sentinel' = a /\ Goto(a, "attached")
          /\ Happens({"attach"})
          /\ UNCHANGED flock
       \/ LetsGo(a) /\ Goto(a, "idle") /\ UNCHANGED <<sentinel, history>>
    /\ UNCHANGED <<rec, git, job, removers, target, events>>

(* The sentinel first, by its path, then the lock.                         *)
DropSentinel(a) ==
    /\ a \in Attacher /\ At(a, "attached")
    /\ sentinel' = None
    /\ Goto(a, "leaving")
    /\ UNCHANGED <<rec, git, flock, job, removers, target, history, events>>

DropLock(a) ==
    /\ a \in Attacher /\ At(a, "leaving")
    /\ LetsGo(a) /\ Forgets(a)
    /\ Goto(a, "idle")
    /\ UNCHANGED <<rec, git, sentinel, job, removers, history, events>>

(* The lock goes with its process, the sentinel stays. *)
Dies(a) ==
    /\ LetsGo(a) /\ Forgets(a)
    /\ sentinel' = IF sentinel = a THEN Gone ELSE sentinel

(* `niwa worktree list` does the same to a dead holder's.                  *)
ReadSentinel(d) ==
    /\ d \in Detacher /\ At(d, "idle")
    /\ sentinel # None
    /\ target' = [target EXCEPT ![d] = sentinel]
    /\ Goto(d, "signal")
    /\ UNCHANGED <<rec, git, attach, job, removers, history, events>>

(* A dead holder needs no signal; a live one leaves on SIGTERM or, after   *)
(* the grace period, is killed.                                            *)
Signal(d) ==
    /\ d \in Detacher /\ At(d, "signal")
    /\ \/ target[d] = Gone /\ Goto(d, "unlink") /\ UNCHANGED <<attach, target>>
       \/ \E a \in Attacher :
             /\ target[d] = a /\ Dies(a)
             /\ pc' = [pc EXCEPT ![d] = "unlink", ![a] = "idle"]
    /\ UNCHANGED <<rec, git, job, removers, history, events>>

UnlinkSentinel(d) ==
    /\ d \in Detacher /\ At(d, "unlink")
    /\ sentinel' = None
    /\ target' = [target EXCEPT ![d] = None]
    /\ Goto(d, "idle")
    /\ UNCHANGED <<rec, git, flock, job, removers, history, events>>

Attaches ==
    \/ \E a \in Attacher : \/ ReadStatus(a) \/ TakeLock(a) \/ ReapStale(a) \/ TakeLockAgain(a)
                           \/ WriteSentinel(a) \/ DropSentinel(a) \/ DropLock(a)
    \/ \E d \in Detacher : ReadSentinel(d) \/ Signal(d) \/ UnlinkSentinel(d)

(***************************************************************************)
(* The agent and the user in the worktree, the agent's session, and kills. *)
(***************************************************************************)
(* Hidden edits and ignored files matter where a hook's session is swept.  *)
Works(what) ==
    /\ tree = "worktree" /\ At(Creator, "idle") /\ rec.status # "reserved"
    /\ work' = work \cup (what \cap {"edits", "hidden"})
    /\ branch' = IF "commits" \in what THEN "ahead" ELSE branch
    /\ ignored' = IF "ignored" \in what THEN ignored + 1 ELSE ignored
    /\ works < MaxWorks /\ works' = works + 1
    /\ Happens(what \ {"commits"})
    /\ UNCHANGED <<rec, tree, attach, job, pc, removers, target, events>>

CleansUp ==
    /\ "edits" \in work
    /\ work' = work \ {"edits"}
    /\ UNCHANGED <<rec, tree, branch, ignored, works, attach, job, pc, removers, target, history, events>>

(* The session is dismissed, goes quiet for the grace period, or goes on.  *)
JobMoves ==
    /\ rec.hook
    /\ \E entry, idle \in BOOLEAN :
           /\ entry => job.entry
           /\ job' = [job EXCEPT !.entry = entry, !.idle = idle]
    /\ job' # job
    /\ works < MaxWorks /\ works' = works + 1
    /\ IF job.idle /\ ~job'.idle THEN Happens({"resume"}) ELSE UNCHANGED history
    /\ UNCHANGED <<rec, tree, branch, work, ignored, attach, pc, removers, target, events>>

Kill(x) ==
    /\ pc[x] \notin {"idle", "new"}
    /\ Occurs /\ Goto(x, "idle")
    /\ IF x \in Attacher THEN Dies(x) /\ UNCHANGED removers
       ELSE /\ UNCHANGED attach
            /\ copy' = IF x \in DOMAIN copy THEN [copy EXCEPT ![x] = NoRecord] ELSE copy
            /\ way' = IF x \in Remover THEN [way EXCEPT ![x] = None] ELSE way
            /\ target' = IF x \in Detacher THEN [target EXCEPT ![x] = None] ELSE target
    /\ since' = IF x \in Remover THEN [since EXCEPT ![x] = {}] ELSE since
    /\ UNCHANGED <<rec, git, job, reopened>>

World ==
    \/ \E k \in (IF rec.hook THEN Work ELSE {"edits", "commits"}) : Works({k})
    \/ CleansUp \/ JobMoves
    \/ \E x \in Actor : Kill(x)

Next == Create \/ Destroys \/ Attaches \/ World

Spec == Init /\ [][Next]_vars

-----------------------------------------------------------------------------
(* What a worktree session promises the work in it, its record, its       *)
(* holder and its agent.                                                   *)

(* What a removal by r takes away for good.                                *)
Discards(r) ==
    (work \cap {"edits"})
        \cup (IF way[r] = "sweep" THEN work \cup (IF ignored # copy[r].print THEN {"ignored"} ELSE {})
              ELSE {})
        \cup (IF branch = "ahead" /\ branch' = "absent" THEN {"commits"} ELSE {})

Removes(r) == At(r, "remove") /\ pc'[r] = "idle" /\ tree = "worktree" /\ tree' = "absent"

(* Without --force a destroy takes no uncommitted edit and no unmerged     *)
(* commit, and the sweep nothing at all, git-ignored and hidden files      *)
(* included, but what was made after it looked: the dirty check, the       *)
(* unchanged check and `branch -d` over the whole of DestroySession.       *)
UnforcedDiscardsNoWork ==
    [][\A r \in Remover :
           Removes(r) /\ Unforced(r) => Discards(r) \subseteq since[r] \ {"commits"}]_vars

(* A session that says active has its worktree, whatever was killed        *)
(* between the steps of a create or a destroy - except that a baseline     *)
(* saved from a record read before a destroy ended it reopens it.          *)
ActiveHasItsWorktree ==
    rec.status = "active" /\ ~reopened => tree = "worktree"

(* The sentinel and the flock: two processes are attached at once only     *)
(* when the worktree of the first was removed from under it.               *)
OneHolderPerWorktree ==
    \A a, b \in Attacher :
        At(a, "attached") /\ At(b, "attached") /\ a # b => rec.status = "ended"

(* Without --force nobody takes the worktree of a process that is attached *)
(* and says so, but one that attached after the sentinel was looked at.    *)
(* (A sentinel may be gone while its process is attached: a hook takes     *)
(* whichever there is for its agent's own, and a stale one is removed by   *)
(* its path, where a new holder may have put his since.)                   *)
AttachedIsKept ==
    [][\A r \in Remover : Removes(r) /\ Unforced(r) =>
           \/ sentinel \notin Attacher \/ ~At(sentinel, "attached")
           \/ "attach" \in since[r]]_vars

(* The sweep leaves the worktree of a background worker that is still      *)
(* listed, however quiet its transcript, and of a session that has gone on.*)
SweepSparesListedWorkers ==
    [][\A r \in Remover : Removes(r) /\ way[r] = "sweep" =>
           ~(job.atCreate /\ job.entry) /\ (job.idle \/ ~job.entry \/ "resume" \in since[r])]_vars

(* One destroy is as good as another, and one attach. *)
Interchangeable == Permutations(Remover) \cup Permutations(Attacher)
=============================================================================
