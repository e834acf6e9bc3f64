----------------------------- MODULE ReviewWorld -----------------------------
(***************************************************************************)
(* What a review of a pull request is made of: the agent's sessions and    *)
(* the instances they are rooted in, the pull requests, and the two files  *)
(* `niwa watch` keeps - the heads it has handled and its staged records -  *)
(* with everything that changes them while no niwa command does: the       *)
(* agents, their users, and the pull requests' authors.                    *)
(***************************************************************************)
EXTENDS Integers, FiniteSetsExt

CONSTANTS
    None,       (* no session, no instance, nobody                         *)
    Session,    (* the session ids the agent hands out, smallest first     *)
    Instance,   (* the instances' names, smallest first                    *)
    PR,         (* pull requests, oldest first                             *)
    HandleOf,   (* the file a pull request's staged record is kept in      *)
    MaxHead     (* bound: the heads each pull request gets to              *)

ASSUME NumberedNames ==
    /\ Session \subseteq Nat \ {0} /\ IsFiniteSet(Session)
    /\ Instance \subseteq Nat \ {0} /\ IsFiniteSet(Instance)
    /\ PR \subseteq Nat \ {0} /\ IsFiniteSet(PR)
    /\ PR # {} /\ Session # {} /\ Instance # {}
    /\ None \notin Session \cup Instance
    /\ MaxHead \in [PR -> Nat \ {0}]

Handle == {HandleOf[p] : p \in PR}
Sha == UNION {1..MaxHead[p] : p \in PR}
NeverHandled == -1
UnknownHead == 0          (* an entry older than the heads: a bare identity *)

Record == [pr : PR, inst : Instance, base : Sha, sess : Session \cup {None},
           halted : {0} \cup Sha]
NoRecord == [pr |-> 0, inst |-> None, base |-> 0, sess |-> None, halted |-> 0]

RowState == {"unborn", "starting", "working", "idle",
             "stopping", "stopped", "gone"}
Running == {"working", "idle", "stopping"}

VARIABLES
    row,      (* each session's row in the agent's listing, with its job entry *)
    root,     (* the instance it is rooted in                              *)
    wakes,    (* the wakes of it that were sent and have not ended         *)
    mapped,   (* it was dispatched: a launch record and a mapping name it  *)
    disk,     (* the instances that are there                              *)
    ask,      (* what the workspace's reviewer is asked: GitHub's answer   *)
    head,     (* the pull request's head, counted                          *)
    rebased,  (* its first head since its last force-push                  *)
    handled,  (* .niwa/watch-handled: the head each was last handled at    *)
    staged    (* .niwa/watch/<handle>.json                                 *)

sessionVars == <<row, root, wakes, mapped>>
githubVars == <<ask, head, rebased>>
watchFiles == <<handled, staged>>
worldVars == <<sessionVars, disk, githubVars, watchFiles>>

WorldTypeOK ==
    /\ row \in [Session -> RowState]
    /\ root \in [Session -> Instance \cup {None}]
    /\ wakes \in [Session -> SUBSET Sha]
    /\ mapped \in [Session -> BOOLEAN]
    /\ disk \in [Instance -> BOOLEAN]
    /\ ask \in [PR -> {"requested", "dropped", "closed"}]
    /\ head \in [PR -> Sha]
    /\ rebased \in [PR -> Sha]
    /\ handled \in [PR -> {NeverHandled, UnknownHead} \cup Sha]
    /\ staged \in [Handle -> Record \cup {NoRecord}]

Listed(s) == row[s] \notin {"unborn", "starting", "gone"}
LiveIn(i) == {s \in Session : Listed(s) /\ root[s] = i}
HasLiveJob(i) == LiveIn(i) # {}
Requested(p) == ask[p] = "requested"

(* Is the head a review was staged at still below the pull request's head? *)
Ancestor(base, p) == base >= rebased[p]

(* Ids are new and names are random: nothing refers to the next one.       *)
Unborn == {s \in Session : row[s] = "unborn"}
Unused(held) ==
    {i \in Instance : /\ ~disk[i] /\ i \notin held
                      /\ \A s \in Session : root[s] = i => row[s] = "gone"
                      /\ \A h \in Handle : staged[h].inst # i}

Born(s, i, state) ==
    /\ row' = [row EXCEPT ![s] = state]
    /\ root' = [root EXCEPT ![s] = i]
    /\ wakes' = [wakes EXCEPT ![s] = {}]
    /\ mapped' = [mapped EXCEPT ![s] = FALSE]

(***************************************************************************)
(* The agent and its user.                                                 *)
(***************************************************************************)
RowBecomes(s, from, to) ==
    /\ row[s] \in from
    /\ row' = [row EXCEPT ![s] = to]
    /\ UNCHANGED <<root, wakes, mapped>>

SessionShowsUp(s) == RowBecomes(s, {"starting"}, "working")
TurnEnds(s) == RowBecomes(s, {"working"}, "idle")
StopSettles(s) == RowBecomes(s, {"stopping"}, "stopped")
UserPrompts(s) == RowBecomes(s, {"idle", "stopped"}, "working")

UserDismisses(s) ==
    /\ Listed(s)
    /\ row' = [row EXCEPT ![s] = "gone"]
    /\ wakes' = [wakes EXCEPT ![s] = {}]
    /\ UNCHANGED <<root, mapped>>

(* A wake of a stopped session continues it in place; of one with a process *)
(* it starts a copy, a new session in the same directory; or it is lost.    *)
WakeLands(s, h) ==
    /\ h \in wakes[s]
    /\ row[s] = "stopped"
    /\ row' = [row EXCEPT ![s] = "working"]
    /\ wakes' = [wakes EXCEPT ![s] = @ \ {h}]
    /\ UNCHANGED <<root, mapped>>

WakeForks(s, h) ==
    /\ h \in wakes[s]
    /\ row[s] \in Running
    /\ Unborn # {}
    /\ LET c == Min(Unborn) IN
           /\ row' = [row EXCEPT ![c] = "working"]
           /\ root' = [root EXCEPT ![c] = root[s]]
           /\ wakes' = [wakes EXCEPT ![s] = @ \ {h}, ![c] = {}]
           /\ mapped' = [mapped EXCEPT ![c] = FALSE]

WakeIsLost(s, h) ==
    /\ h \in wakes[s]
    /\ wakes' = [wakes EXCEPT ![s] = @ \ {h}]
    /\ UNCHANGED <<row, root, mapped>>

Agents ==
    \E s \in Session :
        \/ SessionShowsUp(s) \/ TurnEnds(s) \/ StopSettles(s)
        \/ UserPrompts(s) \/ UserDismisses(s)
        \/ \E h \in Sha : WakeLands(s, h) \/ WakeForks(s, h) \/ WakeIsLost(s, h)

(***************************************************************************)
(* The pull requests.                                                      *)
(***************************************************************************)
Push(p, force) ==
    /\ ask[p] # "closed"
    /\ head[p] < MaxHead[p]
    /\ head' = [head EXCEPT ![p] = @ + 1]
    /\ rebased' = IF force THEN [rebased EXCEPT ![p] = head[p] + 1] ELSE rebased
    /\ UNCHANGED ask

Asks(p) ==
    /\ ask[p] # "closed"
    /\ ask' = [ask EXCEPT ![p] = IF Requested(p) THEN "dropped" ELSE "requested"]
    /\ UNCHANGED <<head, rebased>>

GitHub == \E p \in PR : Asks(p) \/ \E force \in BOOLEAN : Push(p, force)

World ==
    /\ \/ Agents /\ UNCHANGED githubVars
       \/ GitHub /\ UNCHANGED sessionVars
    /\ UNCHANGED <<disk, watchFiles>>
=============================================================================
