------------------------------- MODULE Reviews -------------------------------
(***************************************************************************)
(* Watch passes and retasks at work on one workspace, with the agents,     *)
(* their users, the pull requests' authors, and passes that are killed.    *)
(***************************************************************************)
EXTENDS Watch

(***************************************************************************)
(* What can go wrong: a step that could succeed fails, the last one of a   *)
(* staging does, a caller is killed, an instance's removal fails, a        *)
(* session is slow to be listed, a review is asked for no more, or again,  *)
(* and users open, talk to and dismiss sessions.  Bounds: which of these   *)
(* happen, and how many in all.                                            *)
(***************************************************************************)
CONSTANTS Troubles, MaxTrouble

ASSUME Bounds ==
    /\ Troubles \subseteq {"fault", "unstaged", "crash", "removal", "late", "ask", "visit"}
    /\ MaxTrouble \in Nat

VARIABLE trouble

vars == <<worldVars, coreVars, history, watchVars, trouble>>

Suffers(kinds) ==
    /\ kinds \subseteq Troubles
    /\ trouble' = trouble + Cardinality(kinds)
    /\ trouble' <= MaxTrouble

(***************************************************************************)
(* The sessions a workspace may start with: none; the review of the oldest *)
(* pull request, staged at its first head; or a dispatched worker, in a    *)
(* workspace that watches no pull request any more.                        *)
(***************************************************************************)
FirstSession(state, dispatched) ==
    /\ row = [s \in Session |-> IF s = Min(Session) THEN state ELSE "unborn"]
    /\ root = [s \in Session |-> IF s = Min(Session) THEN Min(Instance) ELSE None]
    /\ mapped = [s \in Session |-> dispatched /\ s = Min(Session)]
    /\ disk = [i \in Instance |-> i = Min(Instance)]

NothingStaged ==
    /\ row = [s \in Session |-> "unborn"]
    /\ root = [s \in Session |-> None]
    /\ mapped = [s \in Session |-> FALSE]
    /\ disk = [i \in Instance |-> FALSE]
    /\ ask = [p \in PR |-> "requested"]
    /\ handled \in [PR -> {NeverHandled, UnknownHead}]
    /\ staged = [h \in Handle |-> NoRecord]
    /\ of = [s \in Session |-> 0]
    /\ reviewed = {}

OneStaged ==
    /\ FirstSession("working", FALSE)
    /\ ask = [p \in PR |-> "requested"]
    /\ handled = [p \in PR |-> IF p = Min(PR) THEN 1 ELSE NeverHandled]
    /\ staged = [h \in Handle |-> IF h # HandleOf[Min(PR)] THEN NoRecord
           ELSE [pr |-> Min(PR), inst |-> Min(Instance), base |-> 1,
                 sess |-> Min(Session), halted |-> 0]]
    /\ of = [s \in Session |-> IF s = Min(Session) THEN Min(PR) ELSE 0]
    /\ reviewed = {<<Min(PR), 1>>}

OneDispatched ==
    /\ FirstSession("working", TRUE)
    /\ ask = [p \in PR |-> "closed"]
    /\ handled = [p \in PR |-> NeverHandled]
    /\ staged = [h \in Handle |-> NoRecord]
    /\ of = [s \in Session |-> 0]
    /\ reviewed = {}

Init ==
    /\ NothingStaged \/ OneStaged \/ (Cli # {} /\ OneDispatched)
    /\ wakes = [s \in Session |-> {}]
    /\ head = [p \in PR |-> 1]
    /\ rebased = [p \in PR |-> 1]
    /\ lock = [i \in Instance |-> None]
    /\ pc = [x \in Caller |-> "start"]
    /\ job = [x \in Caller |-> NoJob]
    /\ live = [x \in Caller |-> FALSE]
    /\ copies = [x \in Caller |-> {}]
    /\ buf = [x \in Caller |-> NotRead]
    /\ sent = [s \in Session |-> [h \in Sha |-> 0]]
    /\ unsure = {}
    /\ req = [x \in Pass |-> {}]
    /\ todo = [x \in Pass |-> {}]
    /\ known = [x \in Pass |-> NotRead]
    /\ plans = [x \in Pass |-> {}]
    /\ budget = [x \in Pass |-> 0]
    /\ mishaps = {}
    /\ trouble = 0

(* A killed caller: no deferred call runs, and the kernel frees the lock.  *)
Crash(x) ==
    /\ pc[x] \notin {"start", "done"}
    /\ Suffers({"crash"})
    /\ Release(x)
    /\ live' = [live EXCEPT ![x] = FALSE]
    /\ copies' = [copies EXCEPT ![x] = {}]
    /\ buf' = [buf EXCEPT ![x] = NotRead]
    /\ Goto(x, IF x \in Cli \/ Repeats THEN "start" ELSE "done")
    /\ job' = [job EXCEPT ![x] = NoJob]
    /\ req' = [p \in Pass |-> IF p = x THEN {} ELSE req[p]]
    /\ todo' = [p \in Pass |-> IF p = x THEN {} ELSE todo[p]]
    /\ known' = [p \in Pass |-> IF p = x THEN NotRead ELSE known[p]]
    /\ plans' = [p \in Pass |-> IF p = x THEN {} ELSE plans[p]]
    /\ budget' = [p \in Pass |-> IF p = x THEN 0 ELSE budget[p]]
    /\ mishaps' = mishaps \cup (IF x \in Pass THEN {"crash"} ELSE {})
    /\ UNCHANGED <<worldVars, history>>

(* Could the step go on?  A refusal where it could not is no trouble.      *)
CanGoOn(x) ==
    CASE At(x, "lock") -> lock[Place(x)] = None /\ disk[Place(x)]
      [] At(x, "classify") -> Retaskable(x)
      [] At(x, "prestop") -> x \in Pass => RecordUnchanged(x) /\ row[Worker(x)] \in {"idle", "stopping", "stopped"}
      [] At(x, "stop") -> Listed(Worker(x))
      [] At(x, "settle") -> row[Worker(x)] \in {"stopping", "stopped"}
      [] At(x, "reread") -> row[Worker(x)] = "stopped" /\ Strays(x) = {}
      [] At(x, "verify") -> row[Worker(x)] \in Running \/ wakes[Worker(x)] # {}
      [] At(x, "copies") -> FALSE
      [] At(x, "provision") -> Unused({job[y].inst : y \in Caller}) # {}
      [] At(x, "launch") -> Unborn # {}
      [] OTHER -> TRUE

Fails(x) ==
    \/ pc'[x] \in {"failed", "refused", "postrefused", "posthalted"} /\ pc'[x] # pc[x]
       /\ ~At(x, "posthalted") /\ CanGoOn(x)
    \/ At(x, "decide") /\ pc'[x] # "next"
    \/ At(x, "judge") /\ Discards(x) /\ pc'[x] = "prune"
    \/ At(x, "forget") /\ staged' = staged
    \/ \E c \in copies[x] : LeaveCopy(x, c) /\ c \in LiveIn(Place(x))

Trouble(x) ==
    {k \in {"fault", "unstaged", "removal", "late"} :
        \/ k = "fault" /\ Fails(x) /\ ~At(x, "stagewrite")
        \/ k = "unstaged" /\ Fails(x) /\ At(x, "stagewrite")
        \/ /\ k = "removal" /\ Place(x) # None /\ disk[Place(x)] /\ disk'[Place(x)]
           /\ \/ pc'[x] = "forget"
              \/ pc[x] \in {"launch", "record", "stagewrite"} /\ pc'[x] = "failed"
        \/ k = "late" /\ At(x, "capture") /\ row[Worker(x)] = "starting"}

(* A user opens a session of their own in an instance that is there.       *)
UserStarts ==
    /\ Unborn # {}
    /\ Suffers({"visit"})
    /\ \E i \in Instance : disk[i] /\ Born(Min(Unborn), i, "working")
    /\ UNCHANGED <<disk, githubVars, watchFiles, coreVars, history, watchVars>>

Visit == \E s \in Session : UserPrompts(s) \/ UserDismisses(s)

Passes(x) == PassStep(x) /\ Suffers(Trouble(x))
Retasks(x) == RetaskStep(x) /\ Suffers(Trouble(x)) /\ UNCHANGED watchVars
WorldStep ==
    /\ World
    /\ Suffers({k \in {"ask", "visit", "fault"} :
           \/ k = "ask" /\ ask' # ask
           \/ k = "visit" /\ Visit
           \/ k = "fault" /\ \E s \in Session, h \in Sha : WakeIsLost(s, h)})
    /\ UNCHANGED <<coreVars, history, watchVars>>

Next ==
    \/ \E x \in Pass : Passes(x)
    \/ \E x \in Cli : Retasks(x)
    \/ \E x \in Caller : Crash(x)
    \/ UserStarts
    \/ WorldStep

Spec == Init /\ [][Next]_vars

(* Passes are run again and again, and the agent ends its turns, stops     *)
(* when it is told to, and lists what was launched.                        *)
Fairness ==
    /\ \A x \in Pass : WF_vars(Passes(x))
    /\ \A s \in Session :
           WF_vars(WorldStep /\ \/ SessionShowsUp(s) \/ TurnEnds(s) \/ StopSettles(s)
                                \/ \E h \in Sha : WakeLands(s, h) \/ WakeForks(s, h))

FairSpec == Spec /\ Fairness

-----------------------------------------------------------------------------
(* What watch passes and retasks promise. *)

(* Every variable has its type, and a lock is held by a caller that is at  *)
(* work: no path through the core leaves it behind.                        *)
TypeOK ==
    /\ WorldTypeOK /\ RetaskTypeOK /\ WatchTypeOK
    /\ \A i \in Instance : lock[i] # None => pc[lock[i]] \notin {"start", "next", "failed"}

(* A record that carries the pending marker "is never woken again until    *)
(* the review is dismissed": no session is sent another wake while nobody  *)
(* has seen it take the last, whatever was killed or failed in between.    *)
HaltedIsNotWoken ==
    [][\A x \in Pass : Wake(x) => Worker(x) \notin unsure]_vars

(* The same head's prompt goes to a session once, as long as passes don't  *)
(* overlap: a killed pass and a failed write repeat nothing.               *)
PromptedOncePerHead ==
    "overlap" \notin mishaps =>
        \A s \in Session, h \in Sha : of[s] # 0 => sent[s][h] <= 1

(* A head is recorded as handled only if some session was given it, or it  *)
(* was adopted for an entry older than the heads: a pass "SHALL NOT record *)
(* a PR as handled at a SHA it did not actually stage".                    *)
HandledWasReviewed ==
    \A p \in PR : handled[p] \in Sha => <<p, handled[p]>> \in reviewed

(* The sessions launched to review a pull request that are still there, in *)
(* an instance that is.                                                    *)
LiveReviews(p) ==
    {s \in Session : of[s] = p /\ row[s] # "gone" /\ disk[root[s]]}

(* "never run two review sessions for one PR at once".                     *)
OneReviewPerPR ==
    mishaps = {} => \A p \in PR : Cardinality(LiveReviews(p)) <= 1

(* "enforce a maximum number of concurrently live staged review agents".   *)
CapIsKept ==
    mishaps = {} => Cardinality(UNION {LiveReviews(p) : p \in PR}) <= MaxStaged

(* A failure "SHALL NOT permanently suppress a review": when no more goes  *)
(* wrong, a head whose review is asked for is handled in the end, or as    *)
(* many others as there may be are staged, or the staged review is one     *)
(* that only its user can get out of the way: halted, never captured, or   *)
(* not the only session in its instance (or the model is out of sessions   *)
(* to launch, or of instances).                                            *)
WaitsForUser(r) == r.halted # 0 \/ r.sess = None \/ LiveIn(r.inst) \ {r.sess} # {}

Settled(p) ==
    \/ handled[p] = head[p]
    \/ ~Requested(p)
    \/ \E r \in StagedFor(p) : WaitsForUser(r)
    \/ ~IsLive(p) /\ Cardinality({q \in PR : IsLive(q)}) >= MaxStaged
    \/ Unborn = {} \/ Unused({}) = {}

HeadIsReviewed == \A p \in PR : <>[]Settled(p)
=============================================================================
