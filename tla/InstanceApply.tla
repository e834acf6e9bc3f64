---------------------------- MODULE InstanceApply ----------------------------
(***************************************************************************)
(* niwa create and niwa apply (workspace.Applier): the config is brought   *)
(* up to date, the private overlay merged into it, the repositories cloned *)
(* by a pool of workers, niwa's files put into the instance, its clones    *)
(* and its live worktrees, what it no longer provides removed, Claude Code *)
(* told to trust the directories, and the state saved.  Meanwhile          *)
(* repositories commit files of their own, worktrees come and go, users    *)
(* answer trust prompts, and the command may fail or be killed anywhere.   *)
(***************************************************************************)
EXTENDS ConfigRefresh

CONSTANTS
    Repo, Worktree,
    RepoOf,         \* [Worktree -> Repo]
    OverlayRepo,    \* the repositories only the private overlay names
    CloneWorkers,
    CloneAttempts   \* of one repository: len(cloneBackoff) + 1

Place == {"root"} \cup Repo \cup Worktree   \* one managed file in each
Target == {"root"} \cup Repo                \* what Claude Code may trust

ApplyAssumption ==
    /\ RepoOf \in [Worktree -> Repo] /\ OverlayRepo \subseteq Repo
    /\ "root" \notin Repo \cup Worktree /\ Repo \cap Worktree = {}
    /\ Cfg # {}
    /\ \A c \in Cfg : c.repos \subseteq Repo /\ c.content \in BOOLEAN /\ c.trust \in BOOLEAN
ASSUME ApplyAssumption

(* What claudetrust does to an entry. *)
Trust == INSTANCE TrustEntry WITH Key <- Target, Call <- {}, KeyOf <- << >>, Request <- << >>
NoGrant == Trust!NoGrant
NoGrants == [t \in Target |-> NoGrant]

VARIABLES
    inst,      \* [dir, saved, files, repos, grants, overlay]: instance.json
    hosted,    \* the overlay's repository is there to clone
    overlay,   \* its local clone is there
    clone,     \* [Repo -> {"absent", "partial", "cloned"}]
    disk,      \* [Place -> {"absent", "niwa", "repo"}]: whose file is there
    session,   \* [Worktree -> [status, dir, attached, registered]]
    entry,     \* [Target -> Trust!Entry]
    ours,      \* the entries niwa has made trusted and not taken back
    loose,     \* [Target -> "no" | "warned" | "killed"]: why one has no record
    pc, run,   \* the command
    job        \* [Repo -> [at, tries]]: the clone pool

applyVars == <<inst, hosted, overlay, clone, disk, session, entry, ours, loose, pc, run, job>>
vars == <<refreshVars, applyVars>>

NoInstance ==
    [dir |-> FALSE, saved |-> FALSE, files |-> {}, repos |-> {}, grants |-> NoGrants, overlay |-> FALSE]
NoSession == [status |-> "none", dir |-> FALSE, attached |-> FALSE, registered |-> FALSE]
NoJob == [at |-> "none", tries |-> 0]
(* A command's locals: its config, what it has written, kept and passed    *)
(* over, the loop's remaining work, the trust it gave and can take back.   *)
NoRun ==
    [kind |-> "none", cfg |-> CHOOSE c \in Cfg : TRUE, overlaid |-> FALSE, recorded |-> FALSE,
     repos |-> {}, written |-> {}, exempt |-> {}, carried |-> {}, unhashed |-> {}, listed |-> TRUE,
     todo |-> {}, failed |-> FALSE, grants |-> NoGrants, undo |-> NoGrants]

Grants == [Target -> Trust!Mode \cup {NoGrant}]
Instance ==
    [dir : BOOLEAN, saved : BOOLEAN, files : SUBSET Place, repos : SUBSET Repo, grants : Grants,
     overlay : BOOLEAN]
Session ==
    [status : {"none", "active", "ended"}, dir : BOOLEAN, attached : BOOLEAN, registered : BOOLEAN]
Job == [at : {"none", "queued", "cloning", "backoff", "done", "error"}, tries : Nat]
(* A create that failed and removed its directory, one that could not      *)
(* remove it, and one that failed to save its state, which removes nothing. *)
FailedCreate == {"failed create", "unremoved create", "unsaved create"}
Command ==
    [kind : {"none", "create", "apply", "done", "failed", "unsaved", "killed"} \cup FailedCreate,
     cfg : Cfg, overlaid : BOOLEAN, recorded : BOOLEAN, repos : SUBSET Repo, written : SUBSET Place,
     exempt : SUBSET Place, carried : SUBSET Place, unhashed : SUBSET Worktree, listed : BOOLEAN,
     todo : SUBSET (Repo \cup Worktree), failed : BOOLEAN, grants : Grants, undo : Grants]

ApplyTypeOK ==
    /\ inst \in Instance /\ run \in Command
    /\ hosted \in BOOLEAN /\ overlay \in BOOLEAN
    /\ clone \in [Repo -> {"absent", "partial", "cloned"}]
    /\ disk \in [Place -> {"absent", "niwa", "repo"}]
    /\ session \in [Worktree -> Session] /\ job \in [Repo -> Job]
    /\ entry \in [Target -> Trust!Entry]
    /\ ours \subseteq Target /\ loose \in [Target -> {"no", "warned", "killed"}]
    /\ pc \in {"idle", "reconcile", "prepare", "refresh", "overlay", "resolve", "clone", "root files",
               "repo files", "worktrees", "hash", "trust root", "trust repos"}

TypeOK == RefreshTypeOK /\ ApplyTypeOK

Init ==
    /\ RefreshInit
    /\ inst = NoInstance /\ hosted = TRUE /\ overlay = FALSE
    /\ clone = [r \in Repo |-> "absent"] /\ disk = [p \in Place |-> "absent"]
    /\ session = [w \in Worktree |-> NoSession]
    /\ entry = [t \in Target |-> "absent"] /\ ours = {}
    /\ loose = [t \in Target |-> "no"]
    /\ pc = "idle" /\ run = NoRun /\ job = [r \in Repo |-> NoJob]

To(s) == pc' = s
(* A create that fails removes its directory, clones and all, and does not *)
(* look whether it could: os.RemoveAll may leave any part of it.           *)
Abort ==
    /\ To("idle")
    /\ IF run.kind = "create"
       THEN \E gone \in BOOLEAN, left \in SUBSET Place :
               /\ gone => left = {}
               /\ run' = [NoRun EXCEPT !.kind = IF gone THEN "failed create" ELSE "unremoved create"]
               /\ inst' = [NoInstance EXCEPT !.dir = ~gone]
               /\ clone' = [r \in Repo |-> IF r \in left THEN clone[r] ELSE "absent"]
               /\ disk' = [p \in Place |-> IF p \in left THEN disk[p] ELSE "absent"]
       ELSE run' = [NoRun EXCEPT !.kind = "failed"] /\ UNCHANGED <<inst, clone, disk>>
-----------------------------------------------------------------------------
(* The command line finds and loads the config (runApply, runCreate), has  *)
(* it reconciled with its source and reloaded, and hands it to the         *)
(* Applier, which refreshes the directory once more.                       *)
Start ==
    /\ pc = "idle" /\ step = "idle" /\ Restore
    /\ Current # NoDir
    /\ \E k \in {"create", "apply"} :
          /\ (k = "create") = ~inst.dir
          /\ run' = [NoRun EXCEPT !.kind = k, !.cfg = Current.cfg]
    /\ IF Current.kind = "snapshot" THEN To("reconcile") /\ step' = "restore"
       ELSE To("prepare") /\ UNCHANGED step
    /\ UNCHANGED <<upstream, staging, mapped, added, events, inst, hosted, overlay, clone, disk,
                   session, entry, ours, loose, job>>

Refreshing == pc \in {"reconcile", "refresh"} /\ Refresh /\ UNCHANGED applyVars

Reload ==
    /\ pc = "reconcile" /\ step \in {"done", "failed"} /\ step' = "idle"
    /\ IF step = "done" /\ conf # NoDir
       THEN run' = [run EXCEPT !.cfg = conf.cfg] /\ To("prepare")
       ELSE run' = NoRun /\ To("idle")
    /\ UNCHANGED <<upstream, conf, prev, staging, mapped, added, events, inst, hosted, overlay,
                   clone, disk, session, entry, ours, loose, job>>

(* Create makes the directory before it refreshes. *)
Prepare ==
    /\ pc = "prepare" /\ To("refresh") /\ step' = "restore"
    /\ inst' = [inst EXCEPT !.dir = TRUE]
    /\ UNCHANGED <<upstream, conf, prev, staging, mapped, added, events, hosted, overlay, clone,
                   disk, session, entry, ours, loose, run, job>>

Prepared ==
    /\ pc = "refresh" /\ step \in {"done", "failed"} /\ step' = "idle"
    /\ IF step = "done" /\ (run.kind = "apply" => inst.saved)
       THEN To("overlay") /\ UNCHANGED <<inst, clone, disk, run>>
       ELSE Abort
    /\ UNCHANGED <<upstream, conf, prev, staging, mapped, added, events, hosted, overlay, session,
                   entry, ours, loose, job>>

(* The directory and its .gitignore, and every stage of runPipeline that   *)
(* may fail, come before the state and before any trust: what cannot be    *)
(* made, read, resolved, discovered or written.                            *)
StageFails ==
    /\ pc \in {"prepare", "overlay", "resolve", "root files", "repo files", "worktrees", "hash"}
    /\ Event /\ Abort
    /\ UNCHANGED <<upstream, conf, prev, staging, step, mapped, added, hosted, overlay, session,
                   entry, ours, loose, job>>

(* Mutant: a recorded overlay is passed over as well. *)
PassedOverRecorded == TRUE
MayPassOver == ~inst.overlay /\ ~overlay

(* An overlay the state records must sync; one found by convention is      *)
(* passed over when it cannot be cloned, but not once a clone is there.    *)
(* Its commit may be unreadable: then a recorded URL is not written again. *)
SyncOverlay ==
    /\ pc = "overlay"
    /\ \/ /\ (hosted \/ overlay) /\ overlay' = TRUE /\ UNCHANGED events
          /\ run' = [run EXCEPT !.overlaid = TRUE, !.recorded = TRUE] /\ To("resolve")
          /\ UNCHANGED <<inst, clone, disk>>
       \/ /\ MayPassOver /\ (hosted => Event) /\ (~hosted => UNCHANGED events)
          /\ To("resolve") /\ UNCHANGED <<run, overlay, inst, clone, disk>>
       \/ /\ inst.overlay /\ overlay /\ Event
          /\ run' = [run EXCEPT !.overlaid = TRUE] /\ To("resolve")
          /\ UNCHANGED <<overlay, inst, clone, disk>>
       \/ inst.overlay /\ ~overlay /\ ~hosted /\ Abort /\ UNCHANGED <<overlay, events>>
    /\ UNCHANGED <<upstream, conf, prev, staging, step, mapped, added, hosted, session, entry,
                   ours, loose, job>>

(* MergeWorkspaceOverlay, discoverAllRepos, Classify, the effective config. *)
Resolve ==
    /\ pc = "resolve"
    /\ LET repos == run.cfg.repos \cup (IF run.overlaid THEN OverlayRepo ELSE {}) IN
          /\ run' = [run EXCEPT !.repos = repos, !.todo = repos]
          /\ job' = [r \in Repo |-> IF r \in repos THEN [NoJob EXCEPT !.at = "queued"] ELSE NoJob]
    /\ To("clone")
    /\ UNCHANGED <<refreshVars, inst, hosted, overlay, clone, disk, session, entry, ours, loose>>
-----------------------------------------------------------------------------
(* The pool.  A clone in progress leaves a directory that already counts   *)
(* as cloned (CloneWith asks for .git); git removes it when it fails by    *)
(* itself and leaves it when it is killed.                                 *)
jobFrame == <<refreshVars, inst, hosted, overlay, disk, session, entry, ours, loose, pc>>
HasGit(r) == clone[r] # "absent"
AtWork == {r \in Repo : job[r].at \in {"cloning", "backoff"}}
Become(r, at) == job' = [job EXCEPT ![r].at = at]

TakeJob(r) ==
    /\ job[r].at = "queued" /\ Cardinality(AtWork) < CloneWorkers
    /\ IF HasGit(r) THEN Become(r, "done") /\ UNCHANGED clone
       ELSE IF run.failed THEN Become(r, "error") /\ UNCHANGED clone
       ELSE Become(r, "cloning") /\ clone' = [clone EXCEPT ![r] = "partial"]
    /\ UNCHANGED <<jobFrame, run>>

CloneEnds(r) ==
    /\ job[r].at = "cloning"
    /\ \/ clone' = [clone EXCEPT ![r] = "cloned"] /\ Become(r, "done") /\ UNCHANGED events
       \/ /\ Event /\ clone' = [clone EXCEPT ![r] = "absent"]
          /\ Become(r, IF run.failed \/ job[r].tries + 1 = CloneAttempts THEN "error" ELSE "backoff")
       \/ Event /\ clone' = [clone EXCEPT ![r] = "absent"] /\ Become(r, "error")
       \/ run.failed /\ Become(r, "error") /\ UNCHANGED <<clone, events>>
    /\ UNCHANGED <<upstream, conf, prev, staging, step, mapped, added, inst, hosted, overlay, disk,
                   session, entry, ours, loose, pc, run>>

CloneAgain(r) ==
    /\ job[r].at = "backoff"
    /\ IF run.failed THEN Become(r, "error") /\ UNCHANGED clone
       ELSE /\ job' = [job EXCEPT ![r] = [at |-> "cloning", tries |-> @.tries + 1]]
            /\ clone' = [clone EXCEPT ![r] = "partial"]
    /\ UNCHANGED <<jobFrame, run>>

Worker(r) == TakeJob(r) \/ CloneEnds(r) \/ CloneAgain(r)

(* The first error cancels the others; every result is waited for.         *)
Collect(r) ==
    /\ pc = "clone" /\ r \in run.todo /\ job[r].at \in {"done", "error"}
    /\ run' = [run EXCEPT !.todo = @ \ {r}, !.failed = @ \/ job[r].at = "error"]
    /\ UNCHANGED <<jobFrame, clone, job>>

(* Mutant: the first error is returned at once. *)
PoolDoneEarly == run.todo = {} \/ run.failed
PoolDone == run.todo = {}

Cloned ==
    /\ pc = "clone" /\ PoolDone
    /\ IF run.failed THEN Abort ELSE To("root files") /\ UNCHANGED <<inst, clone, disk, run>>
    /\ job' = [r \in Repo |-> IF r \in run.todo THEN job[r] ELSE NoJob]
    /\ UNCHANGED <<refreshVars, hosted, overlay, session, entry, ours, loose>>
-----------------------------------------------------------------------------
(* niwa's files: where the config has content, in the root and in every    *)
(* repository but one that has committed a file of its own there.          *)
fileFrame == <<refreshVars, inst, hosted, overlay, clone, session, entry, ours, loose, job>>

Written(r, p) == [r EXCEPT !.written = @ \cup {p}]
PassedOver(r, p) == [r EXCEPT !.exempt = @ \cup {p}]

Provide(p, r) ==
    IF ~run.cfg.content THEN run' = r /\ UNCHANGED disk
    ELSE IF disk[p] = "repo" THEN run' = PassedOver(r, p) /\ UNCHANGED disk
    ELSE run' = Written(r, p) /\ disk' = [disk EXCEPT ![p] = "niwa"]

RootFiles ==
    /\ pc = "root files" /\ To("repo files") /\ Provide("root", [run EXCEPT !.todo = run.repos])
    /\ UNCHANGED fileFrame

RepoFiles(r) ==
    /\ pc = "repo files" /\ r \in run.todo
    /\ Provide(r, [run EXCEPT !.todo = @ \ {r}])
    /\ UNCHANGED <<fileFrame, pc>>

(* refreshWorktreeEnvs: the active sessions of the repositories in scope.  *)
(* A listing that fails is taken for an empty one.                         *)
ListWorktrees ==
    /\ pc = "repo files" /\ run.todo = {} /\ To("worktrees")
    /\ \/ /\ run' = [run EXCEPT !.todo = {w \in Worktree : /\ session[w].status = "active"
                                                             /\ RepoOf[w] \in run.repos}]
          /\ UNCHANGED events
       \/ Event /\ run' = [run EXCEPT !.listed = FALSE]
    /\ UNCHANGED <<upstream, conf, prev, staging, step, mapped, added, inst, hosted, overlay, clone,
                   disk, session, entry, ours, loose, job>>

(* Mutant: what was there before is not carried over. *)
ForwardCarryNone(w) == {}
ForwardCarry(w) == inst.files \cap {w}

(* A worktree in use, or one whose refresh fails, keeps its entries.  A    *)
(* file that was written and cannot be hashed has none.                    *)
RefreshWorktree(w) ==
    /\ pc = "worktrees" /\ w \in run.todo
    /\ LET rest == [run EXCEPT !.todo = @ \ {w}]
           carry == [rest EXCEPT !.carried = @ \cup ForwardCarry(w)] IN
       \/ ~session[w].dir /\ run' = rest /\ UNCHANGED <<disk, events>>
       \/ /\ session[w].dir /\ UNCHANGED events
          /\ IF session[w].attached \/ ~session[w].registered THEN run' = carry /\ UNCHANGED disk
             ELSE Provide(w, rest)
       \/ /\ session[w].dir /\ ~session[w].attached /\ session[w].registered
          /\ Event
          /\ \/ run' = carry /\ UNCHANGED disk
             \/ /\ run.cfg.content /\ disk[w] # "repo" /\ disk' = [disk EXCEPT ![w] = "niwa"]
                /\ run' = [rest EXCEPT !.unhashed = @ \cup {w}]
    /\ UNCHANGED <<upstream, conf, prev, staging, step, mapped, added, inst, hosted, overlay, clone,
                   session, entry, ours, loose, pc, job>>

HashFiles ==
    /\ pc = "worktrees" /\ run.todo = {} /\ To("hash")
    /\ UNCHANGED <<fileFrame, disk, run>>

Managed == run.written \cup run.carried
(* cleanRemovedFiles: what the last apply recorded and this one neither    *)
(* wrote nor passed over.                                                  *)
Stale == inst.files \ (Managed \cup run.exempt)

CleanUp ==
    /\ pc = "hash" /\ To("trust root")
    /\ disk' = IF run.kind = "create" THEN disk
               ELSE [p \in Place |-> IF p \in Stale THEN "absent" ELSE disk[p]]
    /\ UNCHANGED <<fileFrame, run>>
-----------------------------------------------------------------------------
(* Claude Code's trust (deliverClaudeTrust), for the root and the          *)
(* repositories of the config, and the save that must follow it.           *)
trustFrame == <<upstream, conf, prev, staging, step, mapped, added, inst, hosted, overlay, clone,
                disk, session, job>>

(* Ensure: the grant is recorded, and taken back if the save fails, when   *)
(* the entry changed; the lock may be busy.                                *)
Give(t, r) ==
    \/ /\ Event /\ run' = [r EXCEPT !.grants[t] = inst.grants[t]] /\ UNCHANGED <<entry, ours, loose>>
    \/ LET op == [kind |-> "ensure", prior |-> inst.grants[t]] IN
       /\ UNCHANGED events
       /\ entry' = [entry EXCEPT ![t] = Trust!Updated(op, @)]
       /\ IF entry[t] = "true" THEN UNCHANGED <<ours, loose>>
          ELSE ours' = ours \cup {t} /\ loose' = [loose EXCEPT ![t] = "no"]
       /\ run' = [r EXCEPT
              !.grants[t] = Trust!Granted(op, entry[t]),
              !.undo[t] = CASE entry[t] = "true" -> NoGrant
                            [] entry[t] = "absent" -> "created"
                            [] OTHER -> "flag-only"]

(* The entry is not niwa's any more. *)
Disown(t) == ours' = ours \ {t} /\ loose' = [loose EXCEPT ![t] = "no"]

(* settleGrant: the flag is taken back; a lock that is busy keeps the record. *)
Settle(t, r) ==
    \/ /\ Event /\ run' = [r EXCEPT !.grants[t] = inst.grants[t]] /\ UNCHANGED <<entry, ours, loose>>
    \/ /\ UNCHANGED events /\ run' = r /\ Disown(t)
       /\ entry' = [entry EXCEPT ![t] =
              Trust!Withdrawn([kind |-> "withdraw", how |-> "retract", mode |-> inst.grants[t]], @)]

InRecord(t) == inst.saved /\ inst.grants[t] # NoGrant

(* One directory: trusted, settled if it was, or left to the user.  The    *)
(* directory of a repository may be gone: then its record is dropped with  *)
(* a warning that names the entry.                                         *)
TrustDirectory(t, wanted, r) ==
    IF t \in Repo /\ ~HasGit(t)
    THEN /\ run' = r /\ UNCHANGED <<entry, ours, events>>
         /\ loose' = IF InRecord(t) THEN [loose EXCEPT ![t] = "warned"] ELSE loose
    ELSE IF wanted THEN Give(t, r)
    ELSE IF inst.grants[t] # NoGrant THEN Settle(t, r)
    ELSE run' = r /\ UNCHANGED <<entry, ours, loose, events>>

TrustRoot ==
    /\ pc = "trust root" /\ To("trust repos")
    /\ TrustDirectory("root", run.cfg.trust,
                      [run EXCEPT !.todo = run.repos \cup {r \in Repo : inst.grants[r] # NoGrant}])
    /\ UNCHANGED trustFrame

TrustRepo(r) ==
    /\ pc = "trust repos" /\ r \in run.todo
    /\ TrustDirectory(r, run.cfg.trust /\ r \in run.repos, [run EXCEPT !.todo = @ \ {r}])
    /\ UNCHANGED <<trustFrame, pc>>

Save ==
    /\ pc = "trust repos" /\ run.todo = {} /\ To("idle")
    /\ inst' = [dir |-> TRUE, saved |-> TRUE, files |-> Managed, repos |-> run.repos,
                grants |-> run.grants, overlay |-> inst.overlay \/ run.recorded]
    /\ run' = [NoRun EXCEPT !.kind = "done"]
    /\ UNCHANGED <<refreshVars, hosted, overlay, clone, disk, session, entry, ours, loose, job>>

(* Mutant: the trust given stays. *)
UndoneNot(t) == entry[t]
(* undoClaudeTrust *)
Undone(t) ==
    IF run.undo[t] = NoGrant THEN entry[t]
    ELSE Trust!Withdrawn([kind |-> "withdraw", mode |-> run.undo[t],
                          how |-> IF run.undo[t] = "created" THEN "destroy" ELSE "retract"], entry[t])

Given == {t \in Target : run.undo[t] # NoGrant}
(* What cannot be taken back is left to the user, with a warning.  The     *)
(* directory of a create is left too.                                      *)
SaveFails ==
    /\ pc = "trust repos" /\ run.todo = {} /\ To("idle") /\ Event
    /\ \E busy \in {{}, Given} :
          /\ entry' = [t \in Target |-> IF t \in busy THEN entry[t] ELSE Undone(t)]
          /\ ours' = {t \in ours : t \in Given => entry'[t] = "true"}
          /\ loose' = [t \in Target |-> IF t \in busy /\ ~InRecord(t) THEN "warned" ELSE loose[t]]
    /\ run' = [NoRun EXCEPT !.kind = IF run.kind = "create" THEN "unsaved create" ELSE "unsaved"]
    /\ UNCHANGED trustFrame

Apply ==
    \/ Start \/ Refreshing \/ Reload \/ Prepare \/ Prepared \/ StageFails
    \/ SyncOverlay \/ Resolve \/ Cloned \/ RootFiles \/ ListWorktrees \/ HashFiles \/ CleanUp
    \/ TrustRoot \/ Save \/ SaveFails
    \/ \E r \in Repo : Worker(r) \/ Collect(r) \/ RepoFiles(r) \/ TrustRepo(r)
    \/ \E w \in Worktree : RefreshWorktree(w)
-----------------------------------------------------------------------------
(* The command is killed; a git it had started may still finish.           *)
Kill ==
    /\ pc # "idle" /\ Event /\ To("idle") /\ step' = "idle"
    /\ run' = [NoRun EXCEPT !.kind = "killed"] /\ job' = [r \in Repo |-> NoJob]
    /\ \E done \in SUBSET {r \in Repo : job[r].at = "cloning"} :
          clone' = [r \in Repo |-> IF r \in done THEN "cloned" ELSE clone[r]]
    /\ loose' = [t \in Target |-> IF t \in Given /\ ~InRecord(t) THEN "killed" ELSE loose[t]]
    /\ UNCHANGED <<upstream, conf, prev, staging, mapped, added, inst, hosted, overlay, disk, session,
                   entry, ours>>

(* The world beside it. *)
besides == <<upstream, conf, prev, staging, step, mapped, added>>
outside == <<besides, inst, overlay, ours, loose, pc, run, job>>

CommitOwnFile(p) ==
    /\ pc \in {"idle", "clone"} /\ p # "root" /\ disk[p] # "repo" /\ Event
    /\ IF p \in Repo THEN clone[p] = "cloned" ELSE session[p].dir
    /\ disk' = [disk EXCEPT ![p] = "repo"]
    /\ UNCHANGED <<outside, hosted, clone, session, entry>>

RemoveClone(r) ==
    /\ pc = "idle" /\ HasGit(r) /\ Event
    /\ clone' = [clone EXCEPT ![r] = "absent"] /\ disk' = [disk EXCEPT ![r] = "absent"]
    /\ UNCHANGED <<outside, hosted, session, entry>>

HostOverlay == Event /\ hosted' = ~hosted /\ UNCHANGED <<outside, clone, disk, session, entry>>

AnswerPrompt(t) ==
    /\ Event /\ \E e \in {"unset", "true"} \ {entry[t]} : entry' = [entry EXCEPT ![t] = e]
    /\ Disown(t)
    /\ UNCHANGED <<besides, inst, overlay, pc, run, job, hosted, clone, disk, session>>

StartWorktree(w) ==
    /\ inst.saved /\ RepoOf[w] \in inst.repos /\ clone[RepoOf[w]] = "cloned"
    /\ session[w].status = "none" /\ Event
    /\ session' = [session EXCEPT ![w] = 
           [status |-> "active", dir |-> TRUE, attached |-> FALSE, registered |-> TRUE]]
    /\ disk' = [disk EXCEPT ![w] = IF Current # NoDir /\ Current.cfg.content THEN "niwa" ELSE "absent"]
    /\ UNCHANGED <<outside, hosted, clone, entry>>

EndWorktree(w) ==
    /\ session[w].status = "active" /\ ~session[w].attached /\ Event
    /\ session' = [session EXCEPT ![w] = [NoSession EXCEPT !.status = "ended"]]
    /\ disk' = [disk EXCEPT ![w] = "absent"]
    /\ UNCHANGED <<outside, hosted, clone, entry>>

AttachDetach(w) ==
    /\ session[w].dir /\ Event
    /\ \/ session' = [session EXCEPT ![w].attached = ~@]
       \/ session' = [session EXCEPT ![w].registered = ~@]
    /\ UNCHANGED <<outside, hosted, clone, disk, entry>>

Around ==
    \/ World /\ UNCHANGED applyVars
    \/ HostOverlay
    \/ \E t \in Target : AnswerPrompt(t)
    \/ \E p \in Repo \cup Worktree : CommitOwnFile(p)
    \/ \E r \in Repo : RemoveClone(r)
    \/ \E w \in Worktree : StartWorktree(w) \/ EndWorktree(w) \/ AttachDetach(w)

Next == Apply \/ Kill \/ Around

Spec == Init /\ [][Next]_vars

-----------------------------------------------------------------------------
(* What creating and applying promises, whatever fails on the way. *)

(* A refresh of the config directory loses nothing that is not the         *)
(* source's: at every instant, mid-swap and after a kill too, there is a   *)
(* config directory or its predecessor to restore, with every session      *)
(* mapping written and every file users have added to it.  (One written    *)
(* after it was copied and before the swap is lost: WritesInRefresh.)      *)
NothingOfOursIsLost ==
    /\ Current # NoDir
    /\ mapped \subseteq Current.mappings
    /\ \A f \in added : Current.files[f] = "local"

(* What the config wants in a place: the root, a repository it names, a    *)
(* worktree in use of one.                                                 *)
Wanted(p) ==
    /\ run.cfg.content
    /\ \/ p = "root"
       \/ p \in run.repos
       \/ p \in Worktree /\ session[p].status = "active" /\ session[p].dir /\ RepoOf[p] \in run.repos

(* Cleaning up removes what the config no longer provides and nothing it   *)
(* wants: neither the file a repository has committed in niwa's place nor  *)
(* that of a worktree the refresh had to pass over.  The exceptions are    *)
(* the code's own: a listing of the worktrees that failed is taken for an  *)
(* empty one, and a worktree's file that was written and could not be      *)
(* hashed has no entry.                                                    *)
RemovesOnlyStale ==
    [][pc = "hash" /\ pc' = "trust root" /\ run.listed =>
        \A p \in Place \ run.unhashed : Wanted(p) /\ disk[p] # "absent" => disk'[p] # "absent"]_vars

(* Between commands, every entry niwa has made trusted and not taken back  *)
(* is in the state's record, from which destroy takes it back: "a write is *)
(* never left without the record".  Three things leave one without, and    *)
(* nothing else does: a kill between the grant and the save that would     *)
(* have been its first record, and, with a warning that names the entry, a *)
(* failed save whose undo finds the lock busy and a repository that has    *)
(* left the disk.                                                          *)
TrustIsRecorded ==
    pc = "idle" => \A t \in ours : InRecord(t) \/ loose[t] # "no"

(* However a create fails, no clone worker is at work in its directory     *)
(* afterwards, and what it may leave is never taken for an instance; and   *)
(* it leaves nothing at all, unless what failed is that removal itself or  *)
(* the save of the state, after which the code removes nothing.            *)
FailedCreateLeavesNothing ==
    run.kind \in FailedCreate =>
        /\ ~inst.saved /\ \A r \in Repo : job[r].at # "cloning"
        /\ run.kind = "failed create" => ~inst.dir /\ \A r \in Repo : clone[r] = "absent"

(* An instance that has the private overlay keeps it: an apply that cannot *)
(* sync it fails, and never saves a state without its repositories.        *)
OverlayIsKept ==
    [][inst.overlay /\ inst' # inst => inst'.overlay /\ OverlayRepo \subseteq inst'.repos]_vars
=============================================================================
