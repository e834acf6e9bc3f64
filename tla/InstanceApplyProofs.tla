------------------------- MODULE InstanceApplyProofs -------------------------
(***************************************************************************)
(* What refreshing, creating and applying promises, for any repositories,  *)
(* worktrees, files, mappings and configurations, and any number of        *)
(* failures, kills and changes beside niwa.                                *)
(***************************************************************************)
EXTENDS InstanceApply, TLAPS

(* There is a directory to work on, and one that is being built.           *)
Present ==
    /\ Current # NoDir
    /\ step \in {"check", "fetch", "keep", "carry", "restore again", "clear prev", "move away", "drop prev"}
       => conf # NoDir
    /\ step \in {"keep", "carry", "restore again", "clear prev", "move away", "move in"}
       => staging \in Tree /\ staging.manifest

(* What d has of what is niwa's and the users'. *)
Keeps(d) ==
    /\ mapped \subseteq d.mappings
    /\ \A f \in added : d.files[f] = "local" /\ d.manifest /\ f \notin d.supplied

(* The directory has it all, and the one being built what was carried so far. *)
Carrying ==
    /\ Keeps(Current)
    /\ step \in {"keep", "carry"} => \A f \in staging.supplied : staging.files[f] # "absent"
    /\ step = "carry" => mapped \subseteq staging.mappings
    /\ step \in {"restore again", "clear prev", "move away", "move in"} => Keeps(staging)

(* A create is of an instance that was not there. *)
Commanded ==
    /\ pc # "idle" => run.kind \in {"create", "apply"}
    /\ run.kind = "create" => ~inst.saved
    /\ inst.saved => inst.dir
    /\ inst.overlay => inst.saved

(* Clone workers are at work only on what the pool still waits for. *)
Pooled ==
    /\ pc # "clone" => \A r \in Repo : job[r].at = "none"
    /\ \A r \in Repo : job[r].at \in {"queued", "cloning", "backoff"} => r \in run.todo
    /\ run.kind \in FailedCreate => pc = "idle" /\ ~inst.saved
    /\ run.kind = "failed create" => ~inst.dir /\ \A r \in Repo : clone[r] = "absent"

Resolved == {"clone", "root files", "repo files", "worktrees", "hash", "trust root", "trust repos"}

(* An instance with the overlay is given one with the overlay's repositories. *)
Overlaid ==
    /\ pc \in Resolved \cup {"resolve"} => (inst.overlay => run.overlaid)
    /\ pc \in Resolved => (run.overlaid => OverlayRepo \subseteq run.repos)

(* A worktree never comes back, and has niwa's file only if it was there.  *)
Lived ==
    /\ \A w \in Worktree : session[w].status = "active" => session[w].dir
    /\ \A w \in Worktree : w \in inst.files \cup run.written \cup run.carried => session[w].status # "none"
    /\ pc = "worktrees" => \A w \in run.todo \cap Worktree : session[w].status # "none"

Handled == run.written \cup run.carried \cup run.exempt

(* What the config wants was written, carried over or passed over, but for *)
(* what was written and could not be hashed.                               *)
Provided ==
    /\ pc \in {"clone", "repo files"} => run.todo \subseteq Repo
    /\ pc = "hash" => run.todo = {}
    /\ run.cfg.content =>
           /\ pc \in {"repo files", "worktrees", "hash"} => "root" \in Handled
           /\ pc = "repo files" => run.repos \ run.todo \subseteq Handled
           /\ pc \in {"worktrees", "hash"} => run.repos \subseteq Handled
           /\ pc \in {"worktrees", "hash"} /\ run.listed =>
                  \A w \in Worktree \cap inst.files :
                      session[w].status = "active" /\ RepoOf[w] \in run.repos
                      => w \in run.todo \cup Handled \cup run.unhashed

(* The entries niwa answers for are in the state, or are known to be loose, *)
(* or this command gave them and can take them back.                        *)
Recorded ==
    /\ pc # "trust repos" => run.undo = NoGrants
    /\ \A t \in ours : InRecord(t) \/ loose[t] # "no" \/ run.undo[t] # NoGrant
    /\ pc = "trust repos" =>
           /\ run.todo \subseteq Repo
           /\ \A t \in run.todo : run.undo[t] = NoGrant
           /\ \A t \in ours \ run.todo : run.grants[t] # NoGrant \/ loose[t] # "no"

ApplyInv == ApplyTypeOK /\ Commanded /\ Pooled /\ Overlaid /\ Lived /\ Provided /\ Recorded

USE RefreshAssumption, ApplyAssumption DEF RefreshAssumption, ApplyAssumption

-----------------------------------------------------------------------------
(* The config directory.  Beside the refresh and the world, a step of niwa *)
(* restores the directory as it starts, or leaves it alone.                *)

Elsewhere ==
    /\ step' \in {step, "idle", "restore"}
    /\ UNCHANGED <<upstream, conf, prev, staging, mapped, added>>

Starts ==
    /\ step = "idle" /\ Restore /\ step' \in {"idle", "restore"}
    /\ UNCHANGED <<upstream, staging, mapped, added>>

LEMMA ApplyRefreshes ==
    ASSUME Apply
    PROVE  Refresh \/ Starts \/ Elsewhere
<1> USE DEF Elsewhere, refreshVars
<1>1. CASE Start
  BY <1>1 DEF Start, Starts
<1>2. CASE Refreshing
  BY <1>2 DEF Refreshing
<1>3. CASE Reload \/ Prepare \/ Prepared \/ StageFails \/ SyncOverlay \/ Resolve \/ Cloned
  BY <1>3 DEF Reload, Prepare, Prepared, StageFails, SyncOverlay, Resolve, Cloned
<1>4. CASE \/ RootFiles \/ ListWorktrees \/ HashFiles \/ CleanUp \/ TrustRoot \/ Save \/ SaveFails
           \/ \E w \in Worktree : RefreshWorktree(w)
  BY <1>4 DEF RootFiles, ListWorktrees, HashFiles, CleanUp, TrustRoot, Save, SaveFails,
              RefreshWorktree, fileFrame, trustFrame
<1>5. CASE \E r \in Repo : Worker(r) \/ Collect(r) \/ RepoFiles(r) \/ TrustRepo(r)
  BY <1>5 DEF Worker, TakeJob, CloneEnds, CloneAgain, Collect, RepoFiles, TrustRepo,
              jobFrame, fileFrame, trustFrame
<1> QED BY <1>1, <1>2, <1>3, <1>4, <1>5 DEF Apply

LEMMA StepsRefresh ==
    ASSUME [Next]_vars
    PROVE  Refresh \/ World \/ Starts \/ Elsewhere
<1> USE DEF Elsewhere, refreshVars
<1>1. CASE Apply
  BY <1>1, ApplyRefreshes
<1>2. CASE Kill
  BY <1>2 DEF Kill
<1>3. CASE Around
  BY <1>3 DEF Around, HostOverlay, AnswerPrompt, CommitOwnFile, RemoveClone, StartWorktree,
              EndWorktree, AttachDetach, outside, besides
<1>4. CASE UNCHANGED vars
  BY <1>4 DEF vars
<1> QED BY <1>1, <1>2, <1>3, <1>4 DEF Next

LEMMA EventsAreCounted ==
    ASSUME events \in 0..MaxEvents, [Next]_vars
    PROVE  events' \in 0..MaxEvents
<1>1. SUFFICES events' = events \/ Event
  BY DEF Event
<1> USE DEF refreshVars
<1>2. CASE Apply
  <2>1. CASE Start \/ Reload \/ Prepare \/ Prepared \/ StageFails \/ SyncOverlay \/ Resolve \/ Cloned
    BY <2>1 DEF Start, Reload, Prepare, Prepared, StageFails, SyncOverlay, Resolve, Cloned
  <2>2. CASE Refreshing
    BY <2>2 DEF Refreshing, Refresh, RestoreFirst, CheckDrift, FetchSource, KeepOurs, CarryLocal,
                RestoreAgain, ClearPrev, MoveAway, MoveIn, DropPrev
  <2>3. CASE \/ RootFiles \/ ListWorktrees \/ HashFiles \/ CleanUp \/ Save \/ SaveFails
             \/ \E w \in Worktree : RefreshWorktree(w)
    BY <2>3 DEF RootFiles, ListWorktrees, HashFiles, CleanUp, Save, SaveFails, RefreshWorktree,
                fileFrame
  <2>4. CASE \E r \in Repo : Worker(r) \/ Collect(r) \/ RepoFiles(r)
    BY <2>4 DEF Worker, TakeJob, CloneEnds, CloneAgain, Collect, RepoFiles, jobFrame, fileFrame
  <2>5. CASE TrustRoot \/ \E r \in Repo : TrustRepo(r)
    BY <2>5 DEF TrustRoot, TrustRepo, TrustDirectory, Give, Settle
  <2> QED BY <1>2, <2>1, <2>2, <2>3, <2>4, <2>5 DEF Apply
<1>3. CASE Kill
  BY <1>3 DEF Kill
<1>4. CASE Around
  BY <1>4 DEF Around, World, Push, AddFile, WriteMapping, Discover, HostOverlay, AnswerPrompt,
              CommitOwnFile, RemoveClone, StartWorktree, EndWorktree, AttachDetach
<1>5. CASE UNCHANGED vars
  BY <1>5 DEF vars
<1> QED BY <1>2, <1>3, <1>4, <1>5 DEF Next

(* What copying into a directory leaves of it. *)
LEMMA TreeFields ==
    ASSUME NEW d \in Tree
    PROVE  /\ d # NoDir /\ d.kind \in {"snapshot", "clone"} /\ d.manifest \in BOOLEAN
           /\ d.supplied \subseteq File /\ d.mappings \subseteq Mapping /\ d.cfg \in Cfg
           /\ d.files \in [File -> {"absent", "source", "local"}]
<1>1. d.kind # NoDir.kind
  BY DEF Tree, NoDir
<1> QED BY <1>1 DEF Tree

LEMMA CopiedMappings ==
    ASSUME NEW d \in Tree, NEW ms \in SUBSET Mapping,
           NEW e, e = [d EXCEPT !.mappings = ms]
    PROVE  /\ e \in Tree /\ e.mappings = ms
           /\ e.files = d.files /\ e.manifest = d.manifest /\ e.supplied = d.supplied
BY DEF Tree

LEMMA CopiedFiles ==
    ASSUME NEW d \in Tree, NEW fs \in [File -> {"absent", "source", "local"}],
           NEW e, e = [d EXCEPT !.files = fs]
    PROVE  /\ e \in Tree /\ e.files = fs
           /\ e.mappings = d.mappings /\ e.manifest = d.manifest /\ e.supplied = d.supplied
BY DEF Tree

(* Restoring leaves the workspace the directory it has. *)
LEMMA RestoreKeeps ==
    ASSUME RefreshTypeOK, Current # NoDir, Restore
    PROVE  Current' = Current /\ conf' # NoDir /\ {conf', prev'} \subseteq Tree \cup {NoDir}
BY DEF RefreshTypeOK, Current, Restore

Sited == RefreshTypeOK /\ Present

LEMMA RefreshStaysSited ==
    ASSUME Sited, Refresh, events' \in 0..MaxEvents
    PROVE  Sited'
<1>1. /\ upstream \in [github : BOOLEAN, commit : 0..MaxCommit, cfg : Cfg, files : SUBSET File]
      /\ conf \in Tree \cup {NoDir} /\ prev \in Tree \cup {NoDir} /\ staging \in Tree \cup {NoDir}
      /\ mapped \subseteq Mapping /\ added \subseteq File
      /\ Current # NoDir
      /\ (conf # NoDir => Current = conf) /\ (conf = NoDir => Current = prev)
  BY DEF Sited, RefreshTypeOK, Present, Current
<1>2. UNCHANGED <<upstream, mapped, added>>
  BY DEF Refresh, RestoreFirst, CheckDrift, FetchSource, KeepOurs, CarryLocal, RestoreAgain,
         ClearPrev, MoveAway, MoveIn, DropPrev
<1>3. NoDir \notin Tree /\ \A d \in Tree : d.mappings \in SUBSET Mapping
  BY TreeFields
<1>4. SUFFICES /\ conf' \in Tree \cup {NoDir} /\ prev' \in Tree \cup {NoDir}
               /\ staging' \in Tree \cup {NoDir}
               /\ step' \in {"idle", "restore", "check", "fetch", "keep", "carry", "restore again",
                             "clear prev", "move away", "move in", "drop prev", "done", "failed"}
               /\ Present'
  BY <1>1, <1>2 DEF Sited, RefreshTypeOK
<1>5. Present
  BY DEF Sited
<1>6. CASE RestoreFirst \/ RestoreAgain
  <2>1. Current' = Current /\ conf' # NoDir /\ {conf', prev'} \subseteq Tree \cup {NoDir}
    BY <1>6, <1>1, RestoreKeeps DEF RestoreFirst, RestoreAgain, Sited
  <2> QED BY <1>1, <1>5, <1>6, <2>1 DEF RestoreFirst, RestoreAgain, Go, Present
<1>7. CASE CheckDrift
  BY <1>1, <1>5, <1>7 DEF CheckDrift, Go, Present, Current
<1>8. CASE FetchSource
  <2>1. Fetched \in Tree /\ Fetched.manifest
    BY <1>1 DEF Fetched, Tree, SuppliedFiles
  <2>2. Current' = Current /\ UNCHANGED <<conf, prev>> /\ step = "fetch"
    BY <1>8 DEF FetchSource, Current
  <2>3. CASE staging' = Fetched /\ Go("keep")
    BY <1>1, <1>5, <2>1, <2>2, <2>3 DEF Go, Present
  <2>4. CASE GiveUp
    BY <1>1, <1>5, <2>2, <2>4 DEF GiveUp, Go, Present
  <2> QED BY <1>8, <2>3, <2>4 DEF FetchSource
<1>9. CASE KeepOurs
  <2>1. step = "keep" /\ UNCHANGED <<conf, prev>> /\ Current' = Current
    BY <1>9 DEF KeepOurs, Current
  <2>2. staging \in Tree /\ staging.manifest /\ conf \in Tree
    BY <1>1, <1>5, <2>1 DEF Present
  <2>3. CASE staging' = [staging EXCEPT !.mappings = conf.mappings] /\ Go("carry")
    <3>1. staging' \in Tree /\ staging'.manifest = staging.manifest
      BY <1>3, <2>2, <2>3, CopiedMappings
    <3> QED BY <1>1, <1>5, <2>1, <2>2, <2>3, <3>1 DEF Go, Present
  <2>4. CASE GiveUp
    BY <1>1, <1>5, <2>1, <2>4 DEF GiveUp, Go, Present
  <2> QED BY <1>9, <2>3, <2>4 DEF KeepOurs
<1>10. CASE CarryLocal
  <2>1. step = "carry" /\ UNCHANGED <<conf, prev>> /\ Current' = Current
    BY <1>10 DEF CarryLocal, Current
  <2>2. staging \in Tree /\ staging.manifest /\ conf \in Tree
    BY <1>1, <1>5, <2>1 DEF Present
  <2> DEFINE fs == [f \in File |-> Carried(conf, staging, f)]
  <2>3. CASE staging' = [staging EXCEPT !.files = fs] /\ Go("restore again")
    <3>1. fs \in [File -> {"absent", "source", "local"}]
      BY <2>2, TreeFields DEF Carried
    <3> HIDE DEF fs
    <3>2. staging' \in Tree /\ staging'.manifest = staging.manifest
      BY <2>2, <2>3, <3>1, CopiedFiles
    <3> QED BY <1>1, <1>5, <2>1, <2>2, <2>3, <3>2 DEF Go, Present
  <2>4. CASE GiveUp
    BY <1>1, <1>5, <2>1, <2>4 DEF GiveUp, Go, Present
  <2> QED BY <1>10, <2>3, <2>4 DEF CarryLocal
<1>11. CASE ClearPrev \/ MoveAway \/ MoveIn \/ DropPrev
  BY <1>1, <1>3, <1>5, <1>11 DEF ClearPrev, MoveAway, MoveIn, DropPrev, GiveUp, Go, Present, Current
<1> QED BY <1>6, <1>7, <1>8, <1>9, <1>10, <1>11 DEF Refresh

LEMMA WorldStaysSited ==
    ASSUME Sited, World, events' \in 0..MaxEvents
    PROVE  Sited'
<1>1. /\ upstream \in [github : BOOLEAN, commit : 0..MaxCommit, cfg : Cfg, files : SUBSET File]
      /\ conf \in Tree \cup {NoDir} /\ prev \in Tree \cup {NoDir} /\ staging \in Tree \cup {NoDir}
      /\ mapped \subseteq Mapping /\ added \subseteq File
  BY DEF Sited, RefreshTypeOK
<1>2. NoDir \notin Tree /\ \A d \in Tree : d.mappings \in SUBSET Mapping
  BY TreeFields
<1>3. Present
  BY DEF Sited
<1>4. CASE Push
  <2>1. PICK c \in Cfg, fs \in SUBSET File :
            upstream' = [upstream EXCEPT !.commit = @ + 1, !.cfg = c, !.files = fs]
    BY <1>4 DEF Push
  <2>2. upstream.commit < MaxCommit /\ upstream.commit \in 0..MaxCommit
    BY <1>1, <1>4 DEF Push
  <2> DEFINE n == upstream.commit + 1
  <2>3. n \in 0..MaxCommit /\ upstream' = [upstream EXCEPT !.commit = n, !.cfg = c, !.files = fs]
    BY <2>1, <2>2
  <2> HIDE DEF n
  <2>4. upstream' \in [github : BOOLEAN, commit : 0..MaxCommit, cfg : Cfg, files : SUBSET File]
    BY <1>1, <2>3
  <2> QED BY <1>3, <1>4, <2>4 DEF Push, Sited, RefreshTypeOK, Present, Current
<1>5. CASE AddFile
  <2>1. conf \in Tree
    BY <1>1, <1>5 DEF AddFile
  <2>2. PICK f \in File : /\ conf' = [conf EXCEPT !.files[f] = "local"]
                          /\ added' = IF conf.manifest THEN added \cup {f} ELSE added
    BY <1>5 DEF AddFile
  <2> DEFINE fs == [conf.files EXCEPT ![f] = "local"]
  <2>3. fs \in [File -> {"absent", "source", "local"}] /\ conf' = [conf EXCEPT !.files = fs]
    BY <2>1, <2>2, TreeFields
  <2> HIDE DEF fs
  <2>4. conf' \in Tree
    BY <2>1, <2>3, CopiedFiles
  <2>5. UNCHANGED <<upstream, prev, staging, step, mapped>> /\ added' \subseteq File
    BY <1>1, <1>5, <2>2 DEF AddFile
  <2> QED BY <1>2, <1>3, <2>4, <2>5 DEF Sited, RefreshTypeOK, Present, Current
<1>6. CASE WriteMapping
  <2>1. conf \in Tree
    BY <1>1, <1>6 DEF WriteMapping
  <2>2. PICK m \in Mapping : /\ conf' = [conf EXCEPT !.mappings = @ \cup {m}]
                             /\ mapped' = mapped \cup {m}
    BY <1>6 DEF WriteMapping
  <2> DEFINE ms == conf.mappings \cup {m}
  <2>3. ms \in SUBSET Mapping /\ conf' = [conf EXCEPT !.mappings = ms]
    BY <1>2, <2>1, <2>2
  <2> HIDE DEF ms
  <2>4. conf' \in Tree
    BY <2>1, <2>3, CopiedMappings
  <2>5. UNCHANGED <<upstream, prev, staging, step, added>> /\ mapped' \subseteq Mapping
    BY <1>1, <1>6, <2>2 DEF WriteMapping
  <2> QED BY <1>2, <1>3, <2>4, <2>5 DEF Sited, RefreshTypeOK, Present, Current
<1>7. CASE Discover
  <2>1. Current' = Current /\ conf' # NoDir /\ {conf', prev'} \subseteq Tree \cup {NoDir}
    BY <1>3, <1>7, RestoreKeeps DEF Discover, Sited, Present
  <2> QED BY <1>3, <1>7, <2>1 DEF Discover, Sited, RefreshTypeOK, Present
<1> QED BY <1>4, <1>5, <1>6, <1>7 DEF World

LEMMA NextStaysSited ==
    ASSUME Sited, [Next]_vars
    PROVE  Sited'
<1>1. events' \in 0..MaxEvents
  BY EventsAreCounted DEF Sited, RefreshTypeOK
<1>2. CASE Starts
  <2>1. Current' = Current /\ conf' # NoDir /\ {conf', prev'} \subseteq Tree \cup {NoDir}
    BY <1>2, RestoreKeeps DEF Starts, Sited, Present
  <2> QED BY <1>1, <1>2, <2>1 DEF Starts, Sited, RefreshTypeOK, Present
<1>3. CASE Elsewhere
  BY <1>1, <1>3 DEF Elsewhere, Sited, RefreshTypeOK, Present, Current
<1> QED BY <1>1, <1>2, <1>3, StepsRefresh, RefreshStaysSited, WorldStaysSited

(* What is kept is carried through a refresh. *)
LEMMA RefreshCarries ==
    ASSUME Sited, Carrying, Refresh
    PROVE  Carrying'
<1>1. /\ Present /\ mapped \subseteq Mapping /\ added \subseteq File
      /\ conf \in Tree \cup {NoDir} /\ prev \in Tree \cup {NoDir} /\ staging \in Tree \cup {NoDir}
      /\ (conf # NoDir => Current = conf) /\ (conf = NoDir => Current = prev)
  BY DEF Sited, RefreshTypeOK, Current
<1>2. UNCHANGED <<upstream, mapped, added>>
  BY DEF Refresh, RestoreFirst, CheckDrift, FetchSource, KeepOurs, CarryLocal, RestoreAgain,
         ClearPrev, MoveAway, MoveIn, DropPrev
<1>3. NoDir \notin Tree /\ \A d \in Tree : d.mappings \in SUBSET Mapping
  BY TreeFields
<1>4. CASE RestoreFirst \/ RestoreAgain
  <2>1. Current' = Current
    BY <1>4, <1>1, RestoreKeeps DEF RestoreFirst, RestoreAgain, Sited, Present
  <2> QED BY <1>2, <1>4, <2>1 DEF RestoreFirst, RestoreAgain, Go, Carrying, Keeps
<1>5. CASE CheckDrift
  BY <1>2, <1>5 DEF CheckDrift, Go, Carrying, Keeps, Current
<1>6. CASE FetchSource
  <2>1. /\ Fetched.supplied = upstream.files /\ upstream.files \subseteq File
        /\ \A f \in upstream.files : Fetched.files[f] # "absent"
    BY DEF Fetched, SuppliedFiles, Sited, RefreshTypeOK
  <2>2. Current' = Current
    BY <1>6 DEF FetchSource, Current
  <2>3. CASE staging' = Fetched /\ Go("keep")
    BY <1>2, <2>1, <2>2, <2>3 DEF Go, Carrying, Keeps
  <2>4. CASE GiveUp
    BY <1>2, <2>2, <2>4 DEF GiveUp, Go, Carrying, Keeps
  <2> QED BY <1>6, <2>3, <2>4 DEF FetchSource
<1>7. CASE KeepOurs
  <2>1. step = "keep" /\ UNCHANGED <<conf, prev>> /\ Current' = Current
    BY <1>7 DEF KeepOurs, Current
  <2>2. staging \in Tree /\ conf \in Tree /\ Current = conf
    BY <1>1, <2>1 DEF Present
  <2>3. CASE staging' = [staging EXCEPT !.mappings = conf.mappings] /\ Go("carry")
    <3>1. /\ staging'.mappings = conf.mappings /\ staging'.files = staging.files
          /\ staging'.supplied = staging.supplied
      BY <1>3, <2>2, <2>3, CopiedMappings
    <3> QED BY <1>2, <2>1, <2>2, <2>3, <3>1 DEF Go, Carrying, Keeps
  <2>4. CASE GiveUp
    BY <1>2, <2>1, <2>4 DEF GiveUp, Go, Carrying, Keeps
  <2> QED BY <1>7, <2>3, <2>4 DEF KeepOurs
<1>8. CASE CarryLocal
  <2>1. step = "carry" /\ UNCHANGED <<conf, prev>> /\ Current' = Current
    BY <1>8 DEF CarryLocal, Current
  <2>2. staging \in Tree /\ staging.manifest /\ conf \in Tree /\ Current = conf
    BY <1>1, <2>1 DEF Present
  <2> DEFINE fs == [f \in File |-> Carried(conf, staging, f)]
  <2>3. CASE Conflicts(conf, staging) = {} /\ staging' = [staging EXCEPT !.files = fs] /\ Go("restore again")
    <3>1. fs \in [File -> {"absent", "source", "local"}]
      BY <2>2, TreeFields DEF Carried
    <3>2. ASSUME NEW f \in added
          PROVE  fs[f] = "local" /\ f \notin staging.supplied
      <4>1. f \in File /\ conf.files[f] = "local" /\ conf.manifest /\ f \notin conf.supplied
        BY <1>1, <2>2 DEF Carrying, Keeps
      <4>2. staging.files[f] = "absent"
        BY <2>3, <4>1 DEF Conflicts
      <4>3. f \notin staging.supplied
        BY <2>1, <4>2 DEF Carrying
      <4> QED BY <4>1, <4>2, <4>3 DEF Carried
    <3>5. staging' = [staging EXCEPT !.files = fs]
      BY <2>3
    <3> HIDE DEF fs
    <3>6. staging'.files = fs
      BY <2>2, <3>1, <3>5, CopiedFiles
    <3>7. staging'.mappings = staging.mappings
      BY <2>2, <3>1, <3>5, CopiedFiles
    <3>8. staging'.manifest = staging.manifest
      BY <2>2, <3>1, <3>5, CopiedFiles
    <3>3. staging'.supplied = staging.supplied
      BY <2>2, <3>1, <3>5, CopiedFiles
    <3>4. mapped \subseteq staging.mappings
      BY <2>1 DEF Carrying
    <3> QED BY <1>2, <2>1, <2>2, <2>3, <3>2, <3>3, <3>4, <3>6, <3>7, <3>8 DEF Go, Carrying, Keeps
  <2>4. CASE GiveUp
    BY <1>2, <2>1, <2>4 DEF GiveUp, Go, Carrying, Keeps
  <2> QED BY <1>8, <2>3, <2>4 DEF CarryLocal
<1>9. CASE ClearPrev \/ MoveAway \/ DropPrev
  BY <1>1, <1>2, <1>3, <1>9 DEF ClearPrev, MoveAway, DropPrev, GiveUp, Go, Present, Current, Carrying, Keeps
<1>10. CASE MoveIn
  BY <1>1, <1>2, <1>3, <1>10 DEF MoveIn, GiveUp, Go, Present, Current, Carrying, Keeps
<1> QED BY <1>4, <1>5, <1>6, <1>7, <1>8, <1>9, <1>10 DEF Refresh

(* A file added or a mapping written is kept, neither being written between *)
(* its copy and the swap.                                                  *)
LEMMA WorldCarries ==
    ASSUME Sited, Carrying, World, ~WritesInRefresh
    PROVE  Carrying'
<1>1. /\ Present /\ mapped \subseteq Mapping /\ added \subseteq File
      /\ conf \in Tree \cup {NoDir} /\ prev \in Tree \cup {NoDir} /\ staging \in Tree \cup {NoDir}
  BY DEF Sited, RefreshTypeOK
<1>2. NoDir \notin Tree /\ \A d \in Tree : d.mappings \in SUBSET Mapping
  BY TreeFields
<1>3. CASE Push
  BY <1>3 DEF Push, Carrying, Keeps, Current
<1>4. CASE AddFile
  <2>1. conf \in Tree /\ Current = conf
    BY <1>1, <1>4 DEF AddFile, Current
  <2>2. PICK f \in File : /\ conf.files[f] = "absent" /\ f \notin conf.supplied
                          /\ conf' = [conf EXCEPT !.files[f] = "local"]
                          /\ added' = IF conf.manifest THEN added \cup {f} ELSE added
    BY <1>4 DEF AddFile
  <2> DEFINE fs == [conf.files EXCEPT ![f] = "local"]
  <2>3. fs \in [File -> {"absent", "source", "local"}] /\ conf' = [conf EXCEPT !.files = fs]
    BY <2>1, <2>2, TreeFields
  <2>4. fs[f] = "local" /\ \A g \in File \ {f} : fs[g] = conf.files[g]
    BY <2>1, TreeFields
  <2> HIDE DEF fs
  <2>5. /\ conf' \in Tree /\ conf'.files = fs /\ conf'.mappings = conf.mappings
        /\ conf'.manifest = conf.manifest /\ conf'.supplied = conf.supplied
    BY <2>1, <2>3, CopiedFiles
  <2>6. Current' = conf'
    BY <1>2, <2>5 DEF Current
  <2>7. /\ mapped' \subseteq conf'.mappings
        /\ \A g \in added' : conf'.files[g] = "local" /\ conf'.manifest /\ g \notin conf'.supplied
    <3>1. mapped' \subseteq conf'.mappings
      BY <1>4, <2>1, <2>5 DEF AddFile, Carrying, Keeps
    <3>2. ASSUME NEW g \in added'
          PROVE  conf'.files[g] = "local" /\ conf'.manifest /\ g \notin conf'.supplied
      <4>1. CASE g \in added
        <5>1. conf.files[g] = "local" /\ conf.manifest /\ g \notin conf.supplied /\ g \in File
          BY <1>1, <2>1, <4>1 DEF Carrying, Keeps
        <5> QED BY <2>4, <2>5, <5>1
      <4>2. CASE g \notin added
        BY <2>2, <2>4, <2>5, <4>2
      <4> QED BY <4>1, <4>2
    <3> QED BY <3>1, <3>2
  <2>8. /\ UNCHANGED <<staging, step, mapped>>
        /\ step \notin {"restore again", "clear prev", "move away", "move in"}
    BY <1>4 DEF AddFile, Swapping
  <2>9. Keeps(Current)'
    BY <2>6, <2>7 DEF Keeps
  <2> QED BY <2>8, <2>9 DEF Carrying
<1>5. CASE WriteMapping
  <2>1. conf \in Tree /\ Current = conf
    BY <1>1, <1>5 DEF WriteMapping, Current
  <2>2. PICK m \in Mapping : /\ conf' = [conf EXCEPT !.mappings = @ \cup {m}]
                             /\ mapped' = mapped \cup {m}
    BY <1>5 DEF WriteMapping
  <2> DEFINE ms == conf.mappings \cup {m}
  <2>3. ms \in SUBSET Mapping /\ conf' = [conf EXCEPT !.mappings = ms]
    BY <1>2, <2>1, <2>2
  <2>4. mapped' \subseteq ms
    BY <2>1, <2>2 DEF Carrying, Keeps
  <2> HIDE DEF ms
  <2>5. /\ conf' \in Tree /\ conf'.files = conf.files /\ conf'.mappings = ms
        /\ conf'.manifest = conf.manifest /\ conf'.supplied = conf.supplied
    BY <2>1, <2>3, CopiedMappings
  <2>6. Current' = conf'
    BY <1>2, <2>5 DEF Current
  <2>7. /\ UNCHANGED <<staging, step, added>>
        /\ step \notin {"carry", "restore again", "clear prev", "move away", "move in"}
    BY <1>5 DEF WriteMapping, Swapping
  <2>8. Keeps(Current)'
    BY <2>1, <2>4, <2>5, <2>6, <2>7 DEF Keeps, Carrying
  <2> QED BY <2>7, <2>8 DEF Carrying
<1>6. CASE Discover
  <2>1. Current' = Current
    BY <1>1, <1>6, RestoreKeeps DEF Discover, Sited, Present
  <2> QED BY <1>6, <2>1 DEF Discover, Carrying, Keeps
<1> QED BY <1>3, <1>4, <1>5, <1>6 DEF World

LEMMA NextCarries ==
    ASSUME Sited, Carrying, [Next]_vars, ~WritesInRefresh
    PROVE  Carrying'
<1>1. CASE Starts
  <2>1. Current' = Current
    BY <1>1, RestoreKeeps DEF Starts, Sited, Present
  <2> QED BY <1>1, <2>1 DEF Starts, Carrying, Keeps
<1>2. CASE Elsewhere
  BY <1>2 DEF Elsewhere, Carrying, Keeps, Current
<1> QED BY <1>1, <1>2, StepsRefresh, RefreshCarries, WorldCarries

LEMMA InitiallySited == Init => Sited /\ Carrying
<1> SUFFICES ASSUME Init PROVE Sited /\ Carrying
  OBVIOUS
<1>1. PICK k \in {"snapshot", "clone"}, m \in BOOLEAN :
          conf = [kind |-> k, commit |-> 0, cfg |-> upstream.cfg, manifest |-> m,
                  supplied |-> IF m THEN upstream.files ELSE {},
                  files |-> SuppliedFiles(upstream.files), mappings |-> {}]
  BY DEF Init, RefreshInit
<1>2. /\ upstream \in [github : BOOLEAN, commit : {0}, cfg : Cfg, files : SUBSET File]
      /\ prev = NoDir /\ staging = NoDir /\ step = "idle" /\ mapped = {} /\ added = {} /\ events = 0
  BY DEF Init, RefreshInit
<1>3. conf \in Tree
  BY <1>1, <1>2 DEF Tree, SuppliedFiles
<1>4. conf # NoDir
  BY <1>3, TreeFields
<1> QED BY <1>2, <1>3, <1>4 DEF Sited, RefreshTypeOK, Present, Carrying, Keeps, Current

LEMMA AlwaysSited == Spec => []Sited
BY InitiallySited, NextStaysSited, PTL DEF Spec

(* A refresh is a copy into a directory beside and two renames: at every   *)
(* instant the workspace's directory or its predecessor has every session  *)
(* mapping and every file added, killed or failed anywhere, as long as     *)
(* neither a mapping nor a file is written between its copy and the swap   *)
(* (SwapSnapshotAtomic, preserveSessionMappings, carryLocalPaths,          *)
(* RestoreInterruptedSwap).                                                *)
THEOREM RefreshesLoseNothing ==
    ASSUME ~WritesInRefresh
    PROVE  Spec => []NothingOfOursIsLost
<1>1. Sited /\ Carrying => NothingOfOursIsLost
  BY DEF Sited, Present, Carrying, Keeps, NothingOfOursIsLost
<1>2. Sited /\ Carrying /\ [Next]_vars => Sited' /\ Carrying'
  BY NextStaysSited, NextCarries
<1> QED BY <1>1, <1>2, InitiallySited, PTL DEF Spec

-----------------------------------------------------------------------------
(* What the fields of a command's locals are after each kind of change.    *)

SameCore(e, r) ==
    /\ e.kind = r.kind /\ e.cfg = r.cfg /\ e.overlaid = r.overlaid
    /\ e.recorded = r.recorded /\ e.repos = r.repos
SameFiles(e, r) ==
    e.written = r.written /\ e.exempt = r.exempt /\ e.carried = r.carried /\ e.unhashed = r.unhashed
SameTrust(e, r) == e.grants = r.grants /\ e.undo = r.undo

LEMMA CommandFields ==
    ASSUME NEW r \in Command
    PROVE  /\ r.cfg \in Cfg /\ r.repos \subseteq Repo /\ r.todo \subseteq Repo \cup Worktree
           /\ r.written \subseteq Place /\ r.exempt \subseteq Place /\ r.carried \subseteq Place
           /\ r.unhashed \subseteq Worktree
           /\ r.grants \in Grants /\ r.undo \in Grants
           /\ r.overlaid \in BOOLEAN /\ r.recorded \in BOOLEAN /\ r.listed \in BOOLEAN /\ r.failed \in BOOLEAN
BY DEF Command

LEMMA WithTodo ==
    ASSUME NEW r \in Command, NEW x \in SUBSET (Repo \cup Worktree),
           NEW e, e = [r EXCEPT !.todo = x]
    PROVE  /\ e \in Command /\ e.todo = x /\ e.listed = r.listed /\ e.failed = r.failed
           /\ SameCore(e, r) /\ SameFiles(e, r) /\ SameTrust(e, r)
BY DEF Command, SameCore, SameFiles, SameTrust

LEMMA WithWritten ==
    ASSUME NEW r \in Command, NEW x \in SUBSET Place,
           NEW e, e = [r EXCEPT !.written = x]
    PROVE  /\ e \in Command /\ e.written = x /\ e.exempt = r.exempt /\ e.carried = r.carried
           /\ e.unhashed = r.unhashed /\ e.todo = r.todo /\ e.listed = r.listed /\ e.failed = r.failed
           /\ SameCore(e, r) /\ SameTrust(e, r)
BY DEF Command, SameCore, SameTrust

LEMMA WithExempt ==
    ASSUME NEW r \in Command, NEW x \in SUBSET Place,
           NEW e, e = [r EXCEPT !.exempt = x]
    PROVE  /\ e \in Command /\ e.written = r.written /\ e.exempt = x /\ e.carried = r.carried
           /\ e.unhashed = r.unhashed /\ e.todo = r.todo /\ e.listed = r.listed /\ e.failed = r.failed
           /\ SameCore(e, r) /\ SameTrust(e, r)
BY DEF Command, SameCore, SameTrust

LEMMA WithCarried ==
    ASSUME NEW r \in Command, NEW x \in SUBSET Place,
           NEW e, e = [r EXCEPT !.carried = x]
    PROVE  /\ e \in Command /\ e.written = r.written /\ e.exempt = r.exempt /\ e.carried = x
           /\ e.unhashed = r.unhashed /\ e.todo = r.todo /\ e.listed = r.listed /\ e.failed = r.failed
           /\ SameCore(e, r) /\ SameTrust(e, r)
BY DEF Command, SameCore, SameTrust

LEMMA WithOverlay ==
    ASSUME NEW r \in Command, NEW b \in BOOLEAN,
           NEW e, e = [r EXCEPT !.overlaid = TRUE, !.recorded = b]
    PROVE  /\ e \in Command /\ e.overlaid = TRUE /\ e.recorded = b /\ e.kind = r.kind
           /\ e.cfg = r.cfg /\ e.repos = r.repos /\ e.todo = r.todo
           /\ SameFiles(e, r) /\ SameTrust(e, r)
BY DEF Command, SameFiles, SameTrust

LEMMA WithoutListing ==
    ASSUME NEW r \in Command,
           NEW e, e = [r EXCEPT !.listed = FALSE]
    PROVE  /\ e \in Command /\ e.todo = r.todo /\ e.listed = FALSE
           /\ SameCore(e, r) /\ SameFiles(e, r) /\ SameTrust(e, r)
BY DEF Command, SameCore, SameFiles, SameTrust

LEMMA WithTrust ==
    ASSUME NEW r \in Command, NEW g \in Grants, NEW u \in Grants,
           NEW e, e = [r EXCEPT !.grants = g, !.undo = u]
    PROVE  /\ e \in Command /\ e.grants = g /\ e.undo = u /\ e.todo = r.todo
           /\ SameCore(e, r) /\ SameFiles(e, r)
BY DEF Command, SameCore, SameFiles

LEMMA EndedCommands ==
    ASSUME NEW k \in {"none", "create", "apply", "done", "failed", "unsaved", "killed"} \cup FailedCreate,
           NEW e, e = [NoRun EXCEPT !.kind = k]
    PROVE  /\ e \in Command /\ e.kind = k /\ e.todo = {}
           /\ e.written = {} /\ e.carried = {} /\ e.undo = NoGrants
<1>1. NoGrants \in Grants
  BY DEF NoGrants, Grants
<1>2. (CHOOSE d \in Cfg : TRUE) \in Cfg
  OBVIOUS
<1> QED BY <1>1, <1>2 DEF Command, NoRun

LEMMA NoRunIsACommand ==
    /\ NoRun \in Command /\ NoRun.kind = "none" /\ NoRun.todo = {}
    /\ NoRun.written = {} /\ NoRun.carried = {} /\ NoRun.undo = NoGrants
<1>1. NoGrants \in Grants
  BY DEF NoGrants, Grants
<1>2. (CHOOSE d \in Cfg : TRUE) \in Cfg
  OBVIOUS
<1> QED BY <1>1, <1>2 DEF Command, NoRun

LEMMA WithOverlaid ==
    ASSUME NEW r \in Command,
           NEW e, e = [r EXCEPT !.overlaid = TRUE]
    PROVE  /\ e \in Command /\ e.overlaid = TRUE /\ e.kind = r.kind
           /\ e.cfg = r.cfg /\ e.repos = r.repos /\ e.todo = r.todo
           /\ SameFiles(e, r) /\ SameTrust(e, r)
BY DEF Command, SameFiles, SameTrust

LEMMA WithGrants ==
    ASSUME NEW r \in Command, NEW g \in Grants,
           NEW e, e = [r EXCEPT !.grants = g]
    PROVE  /\ e \in Command /\ e.grants = g /\ e.undo = r.undo /\ e.todo = r.todo
           /\ SameCore(e, r) /\ SameFiles(e, r)
BY DEF Command, SameCore, SameFiles

LEMMA NoInstanceIsAnInstance ==
    /\ NoInstance \in Instance /\ ~NoInstance.dir /\ ~NoInstance.saved /\ ~NoInstance.overlay
    /\ NoInstance.files = {}
<1>1. NoGrants \in Grants
  BY DEF NoGrants, Grants
<1> QED BY <1>1 DEF NoInstance, Instance

-----------------------------------------------------------------------------
(* From the start of a command to the clone pool.                          *)

LEMMA StandsStill ==
    ASSUME ApplyInv, UNCHANGED applyVars
    PROVE  ApplyInv'
<1>1. ApplyTypeOK' /\ Commanded'
  BY DEF ApplyInv, applyVars, ApplyTypeOK, Commanded
<1>2. Pooled' /\ Overlaid'
  BY DEF ApplyInv, applyVars, Pooled, Overlaid, Resolved
<1>3. Lived' /\ Provided'
  BY DEF ApplyInv, applyVars, Lived, Provided, Handled
<1>4. Recorded'
  BY DEF ApplyInv, applyVars, Recorded, InRecord
<1> QED BY <1>1, <1>2, <1>3, <1>4 DEF ApplyInv

(* A command that fails before it gives any trust leaves things as it should. *)
LEMMA AbortKeeps ==
    ASSUME ApplyInv, Abort, pc \notin {"idle", "trust repos"},
           job' \in [Repo -> Job], \A r \in Repo : job'[r].at = "none",
           UNCHANGED <<hosted, session, entry, ours, loose>>, overlay' \in BOOLEAN
    PROVE  ApplyInv'
<1>1. PICK k \in {"failed create", "unremoved create", "failed"} :
          /\ pc' = "idle" /\ run' = [NoRun EXCEPT !.kind = k]
          /\ k = "failed" => run.kind # "create" /\ UNCHANGED <<inst, clone, disk>>
          /\ k # "failed" => run.kind = "create"
  BY DEF Abort, To
<1>2. k # "failed" => /\ inst' \in {[NoInstance EXCEPT !.dir = TRUE], [NoInstance EXCEPT !.dir = FALSE]}
                      /\ clone' \in [Repo -> {"absent", "partial", "cloned"}]
                      /\ disk' \in [Place -> {"absent", "niwa", "repo"}]
                      /\ k = "failed create" => /\ inst' = [NoInstance EXCEPT !.dir = FALSE]
                                               /\ clone' = [r \in Repo |-> "absent"]
  <2> SUFFICES ASSUME run.kind = "create"
               PROVE  /\ inst' \in {[NoInstance EXCEPT !.dir = TRUE], [NoInstance EXCEPT !.dir = FALSE]}
                      /\ clone' \in [Repo -> {"absent", "partial", "cloned"}]
                      /\ disk' \in [Place -> {"absent", "niwa", "repo"}]
                      /\ k = "failed create" => /\ inst' = [NoInstance EXCEPT !.dir = FALSE]
                                               /\ clone' = [r \in Repo |-> "absent"]
    BY <1>1
  <2>1. PICK gone \in BOOLEAN, left \in SUBSET Place :
           /\ gone => left = {}
           /\ run' = [NoRun EXCEPT !.kind = IF gone THEN "failed create" ELSE "unremoved create"]
           /\ inst' = [NoInstance EXCEPT !.dir = ~gone]
           /\ clone' = [r \in Repo |-> IF r \in left THEN clone[r] ELSE "absent"]
           /\ disk' = [p \in Place |-> IF p \in left THEN disk[p] ELSE "absent"]
    BY DEF Abort
  <2>2. k = IF gone THEN "failed create" ELSE "unremoved create"
    <3> DEFINE l == IF gone THEN "failed create" ELSE "unremoved create"
    <3>1. l \in FailedCreate /\ run' = [NoRun EXCEPT !.kind = l]
      BY <2>1 DEF FailedCreate
    <3>2. k \in FailedCreate \cup {"failed"} /\ run' = [NoRun EXCEPT !.kind = k]
      BY <1>1 DEF FailedCreate
    <3> HIDE DEF l
    <3>3. run'.kind = l /\ run'.kind = k
      BY <3>1, <3>2, EndedCommands
    <3> QED BY <3>3 DEF l
  <2>3. clone \in [Repo -> {"absent", "partial", "cloned"}] /\ disk \in [Place -> {"absent", "niwa", "repo"}]
    BY DEF ApplyInv, ApplyTypeOK
  <2>4. clone' \in [Repo -> {"absent", "partial", "cloned"}] /\ disk' \in [Place -> {"absent", "niwa", "repo"}]
    BY <2>1, <2>3
  <2>5. k = "failed create" => left = {} /\ gone
    BY <2>1, <2>2
  <2>6. gone => inst' = [NoInstance EXCEPT !.dir = FALSE] /\ clone' = [r \in Repo |-> "absent"]
    BY <2>1
  <2>7. ~gone => inst' = [NoInstance EXCEPT !.dir = TRUE]
    BY <2>1
  <2> QED BY <2>4, <2>5, <2>6, <2>7
<1>3. /\ run' \in Command /\ run'.kind = k /\ run'.todo = {}
      /\ run'.written = {} /\ run'.carried = {} /\ run'.undo = NoGrants
  BY <1>1, EndedCommands DEF FailedCreate
<1>4. ASSUME NEW d \in BOOLEAN, NEW e, e = [NoInstance EXCEPT !.dir = d]
      PROVE  e \in Instance /\ e.dir = d /\ ~e.saved /\ ~e.overlay /\ e.files = {}
  <2>1. NoGrants \in Grants
    BY DEF NoGrants, Grants
  <2> QED BY <1>4, <2>1 DEF NoInstance, Instance
<1>5. k # "failed" => /\ inst' \in Instance /\ ~inst'.saved /\ ~inst'.overlay /\ inst'.files = {}
                      /\ k = "failed create" => ~inst'.dir
  BY <1>2, <1>4
<1>6. ApplyTypeOK'
  <2>1. inst' \in Instance /\ clone' \in [Repo -> {"absent", "partial", "cloned"}]
        /\ disk' \in [Place -> {"absent", "niwa", "repo"}]
    BY <1>1, <1>2, <1>5 DEF ApplyInv, ApplyTypeOK
  <2> QED BY <1>1, <1>3, <2>1 DEF ApplyInv, ApplyTypeOK
<1>7. Commanded'
  BY <1>1, <1>3, <1>5 DEF ApplyInv, Commanded
<1>8. Pooled'
  <2>1. k = "failed create" => \A r \in Repo : clone'[r] = "absent"
    BY <1>2
  <2> QED BY <1>1, <1>3, <1>5, <2>1 DEF Pooled, FailedCreate
<1>9. Overlaid' /\ Provided'
  BY <1>1 DEF Overlaid, Resolved, Provided
<1>10. Lived'
  BY <1>1, <1>3, <1>5 DEF ApplyInv, Lived
<1>11. Recorded'
  <2>1. run.undo = NoGrants
    BY DEF ApplyInv, Recorded
  <2>2. \A t \in ours : InRecord(t) \/ loose[t] # "no"
    BY <2>1 DEF ApplyInv, Recorded, NoGrants, ApplyTypeOK
  <2>3. \A t \in ours' : InRecord(t)' \/ loose'[t] # "no"
    BY <1>1, <2>2 DEF ApplyInv, Commanded, InRecord
  <2> QED BY <1>1, <1>3, <2>3 DEF Recorded
<1> QED BY <1>6, <1>7, <1>8, <1>9, <1>10, <1>11 DEF ApplyInv

LEMMA StartKeeps ==
    ASSUME Sited, ApplyInv, Start
    PROVE  ApplyInv'
<1>1. PICK k \in {"create", "apply"} :
          /\ (k = "create") = ~inst.dir
          /\ run' = [NoRun EXCEPT !.kind = k, !.cfg = Current.cfg]
  BY DEF Start
<1>2. Current.cfg \in Cfg
  BY TreeFields DEF Sited, RefreshTypeOK, Present, Current
<1> DEFINE c == Current.cfg
<1>9. run' = [NoRun EXCEPT !.kind = k, !.cfg = c] /\ c \in Cfg
  BY <1>1, <1>2
<1> HIDE DEF c
<1>3. /\ run' \in Command /\ run'.kind = k /\ run'.todo = {}
      /\ run'.written = {} /\ run'.carried = {} /\ run'.undo = NoGrants
  <2>1. NoRun \in Command /\ NoRun.todo = {} /\ NoRun.written = {} /\ NoRun.carried = {} /\ NoRun.undo = NoGrants
    BY NoRunIsACommand
  <2> QED BY <1>9, <2>1 DEF Command
<1>4. /\ pc = "idle" /\ pc' \in {"reconcile", "prepare"}
      /\ UNCHANGED <<inst, hosted, overlay, clone, disk, session, entry, ours, loose, job>>
  BY DEF Start, To
<1>5. ApplyTypeOK' /\ Commanded'
  BY <1>1, <1>3, <1>4 DEF ApplyInv, ApplyTypeOK, Commanded
<1>6. Pooled'
  BY <1>1, <1>3, <1>4 DEF ApplyInv, Pooled, FailedCreate
<1>7. Overlaid' /\ Provided' /\ Lived'
  BY <1>3, <1>4 DEF ApplyInv, Overlaid, Resolved, Provided, Lived
<1>8. Recorded'
  BY <1>3, <1>4 DEF ApplyInv, Recorded, InRecord
<1> QED BY <1>5, <1>6, <1>7, <1>8 DEF ApplyInv

LEMMA ReloadKeeps ==
    ASSUME Sited, ApplyInv, Reload
    PROVE  ApplyInv'
<1>1. /\ pc = "reconcile" /\ UNCHANGED <<inst, hosted, overlay, clone, disk, session, entry, ours, loose, job>>
  BY DEF Reload
<1>2. CASE step = "done" /\ conf # NoDir
  <2>1. conf.cfg \in Cfg /\ run' = [run EXCEPT !.cfg = conf.cfg] /\ pc' = "prepare"
    BY <1>2, TreeFields DEF Reload, To, Sited, RefreshTypeOK
  <2>2. run \in Command
    BY DEF ApplyInv, ApplyTypeOK
  <2>3. /\ run' \in Command /\ run'.kind = run.kind /\ run'.todo = run.todo
        /\ SameFiles(run', run) /\ SameTrust(run', run)
    BY <2>1, <2>2 DEF Command, SameFiles, SameTrust
  <2>4. ApplyTypeOK' /\ Commanded'
    BY <1>1, <2>1, <2>3 DEF ApplyInv, ApplyTypeOK, Commanded
  <2>5. Pooled' /\ Overlaid' /\ Provided'
    BY <1>1, <2>1, <2>3 DEF ApplyInv, Pooled, Overlaid, Resolved, Provided
  <2>6. Lived' /\ Recorded'
    BY <1>1, <2>1, <2>3 DEF ApplyInv, Lived, Recorded, InRecord, SameFiles, SameTrust
  <2> QED BY <2>4, <2>5, <2>6 DEF ApplyInv
<1>3. CASE ~(step = "done" /\ conf # NoDir)
  <2>1. run' = NoRun /\ pc' = "idle"
    BY <1>3 DEF Reload, To
  <2>2. ApplyTypeOK' /\ Commanded'
    BY <1>1, <2>1, NoRunIsACommand DEF ApplyInv, ApplyTypeOK, Commanded
  <2>3. Pooled' /\ Overlaid' /\ Provided'
    BY <1>1, <2>1, NoRunIsACommand DEF ApplyInv, Pooled, FailedCreate, Overlaid, Resolved, Provided
  <2>4. Lived' /\ Recorded'
    BY <1>1, <2>1, NoRunIsACommand DEF ApplyInv, Lived, Recorded, InRecord
  <2> QED BY <2>2, <2>3, <2>4 DEF ApplyInv
<1> QED BY <1>2, <1>3

LEMMA PrepareKeeps ==
    ASSUME ApplyInv, Prepare
    PROVE  ApplyInv'
<1>1. /\ pc = "prepare" /\ pc' = "refresh" /\ inst' = [inst EXCEPT !.dir = TRUE]
      /\ UNCHANGED <<hosted, overlay, clone, disk, session, entry, ours, loose, run, job>>
  BY DEF Prepare, To
<1>2. /\ inst' \in Instance /\ inst'.dir = TRUE /\ inst'.saved = inst.saved /\ inst'.files = inst.files
      /\ inst'.repos = inst.repos /\ inst'.grants = inst.grants /\ inst'.overlay = inst.overlay
  BY <1>1 DEF ApplyInv, ApplyTypeOK, Instance
<1>3. ApplyTypeOK' /\ Commanded'
  BY <1>1, <1>2 DEF ApplyInv, ApplyTypeOK, Commanded
<1>4. Pooled' /\ Overlaid' /\ Provided'
  BY <1>1, <1>2 DEF ApplyInv, Pooled, FailedCreate, Overlaid, Resolved, Provided
<1>5. Lived' /\ Recorded'
  BY <1>1, <1>2 DEF ApplyInv, Lived, Recorded, InRecord
<1> QED BY <1>3, <1>4, <1>5 DEF ApplyInv

LEMMA PreparedKeeps ==
    ASSUME ApplyInv, Prepared
    PROVE  ApplyInv'
<1>1. /\ pc = "refresh" /\ UNCHANGED <<hosted, overlay, session, entry, ours, loose, job>>
  BY DEF Prepared
<1>2. CASE To("overlay") /\ UNCHANGED <<inst, clone, disk, run>>
  BY <1>1, <1>2 DEF To, ApplyInv, ApplyTypeOK, Commanded, Pooled, Overlaid, Resolved, Provided, Lived, Recorded, InRecord
<1>3. CASE Abort
  BY <1>1, <1>3, AbortKeeps DEF ApplyInv, ApplyTypeOK, Pooled
<1> QED BY <1>2, <1>3 DEF Prepared

LEMMA StageFailsKeeps ==
    ASSUME ApplyInv, StageFails
    PROVE  ApplyInv'
BY AbortKeeps DEF StageFails, ApplyInv, ApplyTypeOK, Pooled

LEMMA SyncOverlayKeeps ==
    ASSUME ApplyInv, SyncOverlay
    PROVE  ApplyInv'
<1>1. /\ pc = "overlay" /\ UNCHANGED <<hosted, session, entry, ours, loose, job>> /\ run \in Command
      /\ overlay' \in BOOLEAN
  BY DEF SyncOverlay, ApplyInv, ApplyTypeOK
<1>2. ASSUME To("resolve"), UNCHANGED <<inst, clone, disk>>,
             run' \in Command, run'.kind = run.kind, run'.todo = run.todo, run'.cfg = run.cfg,
             SameFiles(run', run), SameTrust(run', run), inst.overlay => run'.overlaid
      PROVE  ApplyInv'
  <2>1. ApplyTypeOK' /\ Commanded'
    BY <1>1, <1>2 DEF To, ApplyInv, ApplyTypeOK, Commanded
  <2>2. Pooled' /\ Overlaid' /\ Provided'
    BY <1>1, <1>2 DEF To, ApplyInv, Pooled, Overlaid, Resolved, Provided
  <2>3. Lived' /\ Recorded'
    BY <1>1, <1>2 DEF To, ApplyInv, Lived, Recorded, InRecord, SameFiles, SameTrust
  <2> QED BY <2>1, <2>2, <2>3 DEF ApplyInv
<1>3. CASE /\ run' = [run EXCEPT !.overlaid = TRUE, !.recorded = TRUE] /\ To("resolve")
           /\ UNCHANGED <<inst, clone, disk>>
  <2>1. /\ run' \in Command /\ run'.overlaid = TRUE /\ run'.kind = run.kind
        /\ run'.cfg = run.cfg /\ run'.todo = run.todo /\ SameFiles(run', run) /\ SameTrust(run', run)
    BY <1>1, <1>3, WithOverlay
  <2> QED BY <1>2, <1>3, <2>1
<1>4. CASE MayPassOver /\ To("resolve") /\ UNCHANGED <<run, overlay, inst, clone, disk>>
  BY <1>1, <1>2, <1>4 DEF MayPassOver, SameFiles, SameTrust
<1>5. CASE /\ run' = [run EXCEPT !.overlaid = TRUE] /\ To("resolve")
           /\ UNCHANGED <<overlay, inst, clone, disk>>
  <2>1. /\ run' \in Command /\ run'.overlaid = TRUE /\ run'.kind = run.kind
        /\ run'.cfg = run.cfg /\ run'.todo = run.todo /\ SameFiles(run', run) /\ SameTrust(run', run)
    BY <1>1, <1>5, WithOverlaid
  <2> QED BY <1>2, <1>5, <2>1
<1>6. CASE Abort
  BY <1>1, <1>6, AbortKeeps DEF ApplyInv, ApplyTypeOK, Pooled
<1> QED BY <1>3, <1>4, <1>5, <1>6 DEF SyncOverlay

LEMMA ResolveKeeps ==
    ASSUME ApplyInv, Resolve
    PROVE  ApplyInv'
<1> DEFINE repos == run.cfg.repos \cup (IF run.overlaid THEN OverlayRepo ELSE {})
<1>1. /\ pc = "resolve" /\ pc' = "clone" /\ run' = [run EXCEPT !.repos = repos, !.todo = repos]
      /\ job' = [r \in Repo |-> IF r \in repos THEN [NoJob EXCEPT !.at = "queued"] ELSE NoJob]
      /\ UNCHANGED <<inst, hosted, overlay, clone, disk, session, entry, ours, loose>>
  BY DEF Resolve, To
<1>2. run \in Command
  BY DEF ApplyInv, ApplyTypeOK
<1>3. repos \in SUBSET Repo /\ (run.overlaid => OverlayRepo \subseteq repos)
  BY <1>2, CommandFields
<1> HIDE DEF repos
<1>11. run' = [run EXCEPT !.repos = repos, !.todo = repos] /\ repos \in SUBSET Repo
  BY <1>1, <1>3
<1>4. /\ run' \in Command /\ run'.repos = repos /\ run'.todo = repos /\ run'.kind = run.kind
      /\ run'.cfg = run.cfg /\ run'.overlaid = run.overlaid /\ SameFiles(run', run) /\ SameTrust(run', run)
  BY <1>2, <1>11 DEF Command, SameFiles, SameTrust
<1>5. NoJob \in Job /\ [NoJob EXCEPT !.at = "queued"] \in Job /\ NoJob.at = "none"
  BY DEF NoJob, Job
<1>6. job' \in [Repo -> Job] /\ \A r \in Repo : job'[r].at # "none" => r \in run'.todo
  BY <1>1, <1>4, <1>5
<1>7. ApplyTypeOK' /\ Commanded'
  BY <1>1, <1>4, <1>6 DEF ApplyInv, ApplyTypeOK, Commanded
<1>8. Pooled'
  BY <1>1, <1>4, <1>6 DEF ApplyInv, Pooled, Commanded
<1>9. Overlaid' /\ Provided'
  BY <1>1, <1>3, <1>4 DEF ApplyInv, Overlaid, Resolved, Provided
<1>10. Lived' /\ Recorded'
  BY <1>1, <1>4 DEF ApplyInv, Lived, Recorded, InRecord, SameFiles, SameTrust
<1> QED BY <1>7, <1>8, <1>9, <1>10 DEF ApplyInv

-----------------------------------------------------------------------------
(* The clone pool. *)

LEMMA JobMoves ==
    ASSUME ApplyInv, NEW r \in Repo, job[r].at \in {"queued", "cloning", "backoff"},
           UNCHANGED <<inst, hosted, overlay, disk, session, entry, ours, loose, pc, run>>,
           clone' \in [Repo -> {"absent", "partial", "cloned"}],
           job' \in [Repo -> Job], \A q \in Repo \ {r} : job'[q] = job[q]
    PROVE  ApplyInv'
<1>1. pc = "clone" /\ r \in run.todo
  BY DEF ApplyInv, Pooled
<1>2. ApplyTypeOK' /\ Commanded'
  BY DEF ApplyInv, ApplyTypeOK, Commanded
<1>3. Pooled'
  BY <1>1 DEF ApplyInv, Pooled, FailedCreate
<1>4. Overlaid' /\ Lived' /\ Recorded'
  BY DEF ApplyInv, Overlaid, Resolved, Lived, Recorded, InRecord
<1>5. Provided'
  BY DEF ApplyInv, Provided, Handled
<1> QED BY <1>2, <1>3, <1>4, <1>5 DEF ApplyInv

LEMMA Becomes ==
    ASSUME job \in [Repo -> Job], NEW r \in Repo, NEW at \in {"none", "queued", "cloning", "backoff", "done", "error"},
           Become(r, at)
    PROVE  job' \in [Repo -> Job] /\ \A q \in Repo \ {r} : job'[q] = job[q]
<1>1. job[r] \in Job
  OBVIOUS
<1> DEFINE j == [job[r] EXCEPT !.at = at]
<1>2. j \in Job
  BY <1>1 DEF Job
<1>3. job' = [job EXCEPT ![r] = j]
  BY DEF Become
<1> HIDE DEF j
<1> QED BY <1>2, <1>3

LEMMA WorkerKeeps ==
    ASSUME ApplyInv, NEW r \in Repo, Worker(r)
    PROVE  ApplyInv'
<1>1. /\ job \in [Repo -> Job] /\ clone \in [Repo -> {"absent", "partial", "cloned"}]
      /\ UNCHANGED <<inst, hosted, overlay, disk, session, entry, ours, loose, pc, run>>
  BY DEF ApplyInv, ApplyTypeOK, Worker, TakeJob, CloneEnds, CloneAgain, jobFrame
<1>2. /\ job[r].at \in {"queued", "cloning", "backoff"}
      /\ clone' \in [Repo -> {"absent", "partial", "cloned"}]
  BY <1>1 DEF Worker, TakeJob, CloneEnds, CloneAgain
<1>3. job' \in [Repo -> Job] /\ \A q \in Repo \ {r} : job'[q] = job[q]
  <2>1. CASE \E at \in {"none", "queued", "cloning", "backoff", "done", "error"} : Become(r, at)
    BY <1>1, <2>1, Becomes
  <2>2. CASE job' = [job EXCEPT ![r] = [at |-> "cloning", tries |-> job[r].tries + 1]]
    <3>1. [at |-> "cloning", tries |-> job[r].tries + 1] \in Job
      BY <1>1 DEF Job
    <3> QED BY <1>1, <2>2, <3>1
  <2> QED BY <2>1, <2>2 DEF Worker, TakeJob, CloneEnds, CloneAgain
<1> QED BY <1>1, <1>2, <1>3, JobMoves

LEMMA CollectKeeps ==
    ASSUME ApplyInv, NEW r \in Repo, Collect(r)
    PROVE  ApplyInv'
<1> DEFINE x == run.todo \ {r}
           b == run.failed \/ job[r].at = "error"
<1>1. /\ pc = "clone" /\ job[r].at \in {"done", "error"} /\ run' = [run EXCEPT !.todo = x, !.failed = b]
      /\ UNCHANGED <<inst, hosted, overlay, disk, session, entry, ours, loose, pc, clone, job>>
  BY DEF Collect, jobFrame
<1>2. run \in Command
  BY DEF ApplyInv, ApplyTypeOK
<1>3. x \in SUBSET (Repo \cup Worktree) /\ b \in BOOLEAN
  BY <1>2, CommandFields
<1>4. x = run.todo \ {r}
  OBVIOUS
<1> HIDE DEF x, b
<1>5. /\ run' \in Command /\ run'.todo = x /\ run'.listed = run.listed
      /\ SameCore(run', run) /\ SameFiles(run', run) /\ SameTrust(run', run)
  BY <1>1, <1>2, <1>3 DEF Command, SameCore, SameFiles, SameTrust
<1>6. ApplyTypeOK' /\ Commanded'
  BY <1>1, <1>5 DEF ApplyInv, ApplyTypeOK, Commanded, SameCore
<1>7. Pooled'
  BY <1>1, <1>4, <1>5 DEF ApplyInv, Pooled, SameCore
<1>8. Overlaid' /\ Lived' /\ Recorded'
  BY <1>1, <1>5 DEF ApplyInv, Overlaid, Resolved, Lived, Recorded, InRecord, SameCore, SameFiles, SameTrust
<1>9. Provided'
  BY <1>1, <1>4, <1>5 DEF ApplyInv, Provided
<1> QED BY <1>6, <1>7, <1>8, <1>9 DEF ApplyInv

LEMMA ClonedKeeps ==
    ASSUME ApplyInv, Cloned
    PROVE  ApplyInv'
<1>1. /\ pc = "clone" /\ run.todo = {} /\ job' = [r \in Repo |-> NoJob]
      /\ UNCHANGED <<hosted, overlay, session, entry, ours, loose>>
  BY DEF Cloned, PoolDone
<1>2. job' \in [Repo -> Job] /\ \A r \in Repo : job'[r].at = "none"
  BY <1>1 DEF NoJob, Job
<1>3. CASE Abort
  BY <1>1, <1>2, <1>3, AbortKeeps DEF ApplyInv, ApplyTypeOK
<1>4. CASE To("root files") /\ UNCHANGED <<inst, clone, disk, run>>
  <2>1. ApplyTypeOK' /\ Commanded'
    BY <1>1, <1>2, <1>4 DEF To, ApplyInv, ApplyTypeOK, Commanded
  <2>2. Pooled' /\ Overlaid' /\ Provided'
    BY <1>1, <1>2, <1>4 DEF To, ApplyInv, Commanded, Pooled, Overlaid, Resolved, Provided
  <2>3. Lived' /\ Recorded'
    BY <1>1, <1>4 DEF To, ApplyInv, Lived, Recorded, InRecord
  <2> QED BY <2>1, <2>2, <2>3 DEF ApplyInv
<1> QED BY <1>3, <1>4 DEF Cloned

-----------------------------------------------------------------------------
(* niwa's files. *)

LEMMA ProvideAdds ==
    ASSUME ApplyTypeOK, NEW p \in Place, NEW r \in Command, Provide(p, r)
    PROVE  /\ run' \in Command /\ SameCore(run', r) /\ SameTrust(run', r)
           /\ run'.todo = r.todo /\ run'.listed = r.listed /\ run'.carried = r.carried
           /\ run'.unhashed = r.unhashed
           /\ r.written \subseteq run'.written /\ r.exempt \subseteq run'.exempt
           /\ run'.written \subseteq r.written \cup {p}
           /\ run.cfg.content => p \in run'.written \cup run'.exempt
           /\ disk' \in [Place -> {"absent", "niwa", "repo"}]
<1>1. r.written \subseteq Place /\ r.exempt \subseteq Place /\ disk \in [Place -> {"absent", "niwa", "repo"}]
  BY CommandFields DEF ApplyTypeOK
<1>2. CASE ~run.cfg.content
  BY <1>1, <1>2 DEF Provide, SameCore, SameTrust
<1>3. CASE run.cfg.content /\ disk[p] = "repo"
  <2> DEFINE x == r.exempt \cup {p}
  <2>1. run' = [r EXCEPT !.exempt = x] /\ UNCHANGED disk
    BY <1>3 DEF Provide, PassedOver
  <2>2. x \in SUBSET Place /\ p \in x /\ r.exempt \subseteq x
    BY <1>1
  <2> HIDE DEF x
  <2>3. /\ run' \in Command /\ run'.written = r.written /\ run'.exempt = x /\ run'.carried = r.carried
        /\ run'.unhashed = r.unhashed /\ run'.todo = r.todo /\ run'.listed = r.listed
        /\ SameCore(run', r) /\ SameTrust(run', r)
    BY <2>1, <2>2 DEF Command, SameCore, SameTrust
  <2> QED BY <1>1, <2>1, <2>2, <2>3
<1>4. CASE run.cfg.content /\ disk[p] # "repo"
  <2> DEFINE x == r.written \cup {p}
  <2>1. run' = [r EXCEPT !.written = x] /\ disk' = [disk EXCEPT ![p] = "niwa"]
    BY <1>4 DEF Provide, Written
  <2>2. x \in SUBSET Place /\ p \in x /\ r.written \subseteq x /\ x \subseteq r.written \cup {p}
    BY <1>1
  <2> HIDE DEF x
  <2>3. /\ run' \in Command /\ run'.written = x /\ run'.exempt = r.exempt /\ run'.carried = r.carried
        /\ run'.unhashed = r.unhashed /\ run'.todo = r.todo /\ run'.listed = r.listed
        /\ SameCore(run', r) /\ SameTrust(run', r)
    BY <2>1, <2>2 DEF Command, SameCore, SameTrust
  <2> QED BY <1>1, <2>1, <2>2, <2>3
<1> QED BY <1>2, <1>3, <1>4

LEMMA RootFilesKeeps ==
    ASSUME ApplyInv, RootFiles
    PROVE  ApplyInv'
<1> DEFINE r == [run EXCEPT !.todo = run.repos]
<1>1. run \in Command /\ run.repos \in SUBSET (Repo \cup Worktree) /\ run.repos \subseteq Repo
  BY CommandFields DEF ApplyInv, ApplyTypeOK
<1>2. /\ r \in Command /\ r.todo = run.repos
      /\ SameCore(r, run) /\ SameFiles(r, run) /\ SameTrust(r, run)
  BY <1>1 DEF Command, SameCore, SameFiles, SameTrust
<1>3. Provide("root", r) /\ "root" \in Place
  BY DEF RootFiles, Place
<1> HIDE DEF r
<1>4. /\ pc = "root files" /\ pc' = "repo files"
      /\ UNCHANGED <<inst, hosted, overlay, clone, session, entry, ours, loose, job>>
  BY DEF RootFiles, To, fileFrame
<1>5. /\ run' \in Command /\ SameCore(run', run) /\ SameTrust(run', run) /\ run'.todo = run.repos
      /\ run'.written \subseteq run.written \cup {"root"} /\ run'.carried = run.carried
      /\ run.cfg.content => "root" \in run'.written \cup run'.exempt
      /\ disk' \in [Place -> {"absent", "niwa", "repo"}]
  BY <1>2, <1>3, ProvideAdds DEF ApplyInv, SameCore, SameFiles, SameTrust
<1>6. ApplyTypeOK' /\ Commanded'
  BY <1>4, <1>5 DEF ApplyInv, ApplyTypeOK, Commanded, SameCore
<1>7. Pooled' /\ Overlaid'
  BY <1>4, <1>5 DEF ApplyInv, Commanded, Pooled, Overlaid, Resolved, SameCore
<1>8. Lived' /\ Recorded'
  <2>1. Lived'
    BY <1>4, <1>5 DEF ApplyInv, Lived, SameCore
  <2>2. Recorded'
    BY <1>4, <1>5 DEF ApplyInv, Recorded, InRecord, SameTrust
  <2> QED BY <2>1, <2>2
<1>9. Provided'
  BY <1>1, <1>4, <1>5 DEF Provided, Handled, SameCore
<1> QED BY <1>6, <1>7, <1>8, <1>9 DEF ApplyInv

LEMMA RepoFilesKeeps ==
    ASSUME ApplyInv, NEW q \in Repo, RepoFiles(q)
    PROVE  ApplyInv'
<1> DEFINE x == run.todo \ {q}
           r == [run EXCEPT !.todo = x]
<1>1. run \in Command /\ x \in SUBSET (Repo \cup Worktree)
  BY CommandFields DEF ApplyInv, ApplyTypeOK
<1>2. /\ r \in Command /\ r.todo = x /\ SameCore(r, run) /\ SameFiles(r, run) /\ SameTrust(r, run)
  BY <1>1, WithTodo
<1>3. Provide(q, r) /\ q \in Place
  BY DEF RepoFiles, Place
<1> HIDE DEF r
<1>4. /\ pc = "repo files" /\ pc' = pc
      /\ UNCHANGED <<inst, hosted, overlay, clone, session, entry, ours, loose, job>>
  BY DEF RepoFiles, fileFrame
<1>5. /\ run' \in Command /\ SameCore(run', run) /\ SameTrust(run', run) /\ run'.todo = x
      /\ run'.written \subseteq run.written \cup {q} /\ run'.carried = run.carried
      /\ run.written \subseteq run'.written /\ run.exempt \subseteq run'.exempt
      /\ run.cfg.content => q \in run'.written \cup run'.exempt
      /\ disk' \in [Place -> {"absent", "niwa", "repo"}]
  BY <1>2, <1>3, ProvideAdds DEF ApplyInv, SameCore, SameFiles, SameTrust
<1>6. ApplyTypeOK' /\ Commanded'
  BY <1>4, <1>5 DEF ApplyInv, ApplyTypeOK, Commanded, SameCore
<1>7. Pooled' /\ Overlaid'
  BY <1>4, <1>5 DEF ApplyInv, Commanded, Pooled, Overlaid, Resolved, SameCore
<1>8. Lived' /\ Recorded'
  BY <1>4, <1>5 DEF ApplyInv, Lived, Recorded, InRecord, SameCore, SameTrust
<1>9. Provided'
  BY <1>4, <1>5 DEF ApplyInv, Provided, Handled, SameCore
<1> QED BY <1>6, <1>7, <1>8, <1>9 DEF ApplyInv

LEMMA ListWorktreesKeeps ==
    ASSUME ApplyInv, ListWorktrees
    PROVE  ApplyInv'
<1> DEFINE x == {w \in Worktree : session[w].status = "active" /\ RepoOf[w] \in run.repos}
<1>1. /\ pc = "repo files" /\ pc' = "worktrees" /\ run.todo = {} /\ run \in Command
      /\ UNCHANGED <<inst, hosted, overlay, clone, disk, session, entry, ours, loose, job>>
  BY DEF ListWorktrees, To, ApplyInv, ApplyTypeOK
<1>2. CASE run' = [run EXCEPT !.todo = x]
  <2>1. x \in SUBSET (Repo \cup Worktree) /\ x \subseteq Worktree
    OBVIOUS
  <2>2. \A w \in Worktree : w \in x <=> session[w].status = "active" /\ RepoOf[w] \in run.repos
    OBVIOUS
  <2> HIDE DEF x
  <2>3. /\ run' \in Command /\ run'.todo = x /\ run'.listed = run.listed
        /\ SameCore(run', run) /\ SameFiles(run', run) /\ SameTrust(run', run)
    BY <1>1, <1>2, <2>1 DEF Command, SameCore, SameFiles, SameTrust
  <2>4. ApplyTypeOK' /\ Commanded'
    BY <1>1, <2>3 DEF ApplyInv, ApplyTypeOK, Commanded, SameCore
  <2>5. Pooled' /\ Overlaid'
    BY <1>1, <2>3 DEF ApplyInv, Commanded, Pooled, Overlaid, Resolved, SameCore
  <2>6. Lived' /\ Recorded'
    BY <1>1, <2>2, <2>3 DEF ApplyInv, Lived, Recorded, InRecord, SameCore, SameFiles, SameTrust
  <2>7. Provided'
    BY <1>1, <2>2, <2>3 DEF ApplyInv, Provided, Handled, SameCore, SameFiles
  <2> QED BY <2>4, <2>5, <2>6, <2>7 DEF ApplyInv
<1>3. CASE run' = [run EXCEPT !.listed = FALSE]
  <2>3. /\ run' \in Command /\ run'.todo = run.todo /\ run'.listed = FALSE
        /\ SameCore(run', run) /\ SameFiles(run', run) /\ SameTrust(run', run)
    BY <1>1, <1>3, WithoutListing
  <2>4. ApplyTypeOK' /\ Commanded'
    BY <1>1, <2>3 DEF ApplyInv, ApplyTypeOK, Commanded, SameCore
  <2>5. Pooled' /\ Overlaid'
    BY <1>1, <2>3 DEF ApplyInv, Commanded, Pooled, Overlaid, Resolved, SameCore
  <2>6. Lived' /\ Recorded'
    BY <1>1, <2>3 DEF ApplyInv, Lived, Recorded, InRecord, SameCore, SameFiles, SameTrust
  <2>7. Provided'
    BY <1>1, <2>3 DEF ApplyInv, Provided, Handled, SameCore, SameFiles
  <2> QED BY <2>4, <2>5, <2>6, <2>7 DEF ApplyInv
<1> QED BY <1>2, <1>3 DEF ListWorktrees

LEMMA RefreshWorktreeKeeps ==
    ASSUME ApplyInv, NEW w \in Worktree, RefreshWorktree(w)
    PROVE  ApplyInv'
<1> DEFINE x == run.todo \ {w}
           rest == [run EXCEPT !.todo = x]
           y == rest.carried \cup ForwardCarry(w)
           carry == [rest EXCEPT !.carried = y]
           z == rest.unhashed \cup {w}
           lost == [rest EXCEPT !.unhashed = z]
<1>1. run \in Command /\ x \in SUBSET (Repo \cup Worktree) /\ w \in Place
  BY CommandFields DEF ApplyInv, ApplyTypeOK, Place
<1>2. /\ rest \in Command /\ rest.todo = x /\ rest.listed = run.listed
      /\ SameCore(rest, run) /\ SameFiles(rest, run) /\ SameTrust(rest, run)
  BY <1>1, WithTodo
<1>3. /\ pc = "worktrees" /\ pc' = pc /\ w \in run.todo
      /\ UNCHANGED <<inst, hosted, overlay, clone, session, entry, ours, loose, job>>
  BY DEF RefreshWorktree
<1>4. \/ ~session[w].dir /\ run' = rest /\ UNCHANGED disk
      \/ session[w].dir /\ run' = carry /\ UNCHANGED disk
      \/ session[w].dir /\ Provide(w, rest)
      \/ session[w].dir /\ run' = lost /\ disk' = [disk EXCEPT ![w] = "niwa"]
  BY DEF RefreshWorktree
<1>5. session[w].status # "none" /\ (session[w].status = "active" => session[w].dir)
  BY <1>3 DEF ApplyInv, Lived
<1>6. /\ y \in SUBSET Place /\ y = rest.carried \cup (inst.files \cap {w})
      /\ z \in SUBSET Worktree /\ z = rest.unhashed \cup {w}
  BY <1>1, <1>2, CommandFields DEF ForwardCarry
<1> HIDE DEF rest
<1>7. /\ run.written = rest.written /\ run.exempt = rest.exempt /\ run.carried = rest.carried
      /\ run.unhashed = rest.unhashed
  BY <1>2 DEF SameFiles
<1>8. /\ run' \in Command /\ SameCore(run', run) /\ SameTrust(run', run) /\ run'.todo = x
      /\ run'.listed = run.listed
      /\ run'.written \subseteq run.written \cup {w} /\ run'.carried \subseteq run.carried \cup {w}
      /\ run.written \subseteq run'.written /\ run.exempt \subseteq run'.exempt
      /\ run.carried \subseteq run'.carried /\ run.unhashed \subseteq run'.unhashed
      /\ run.cfg.content /\ session[w].dir /\ w \in inst.files
         => w \in run'.written \cup run'.exempt \cup run'.carried \cup run'.unhashed
      /\ disk' \in [Place -> {"absent", "niwa", "repo"}]
  <2>1. CASE ~session[w].dir /\ run' = rest /\ UNCHANGED disk
    BY <1>2, <1>7, <2>1 DEF ApplyInv, ApplyTypeOK
  <2>2. CASE session[w].dir /\ run' = carry /\ UNCHANGED disk
    <3>1. run' = [rest EXCEPT !.carried = y]
      BY <2>2
    <3> HIDE DEF y
    <3>2. /\ run' \in Command /\ run'.written = rest.written /\ run'.exempt = rest.exempt /\ run'.carried = y
          /\ run'.unhashed = rest.unhashed /\ run'.todo = rest.todo /\ run'.listed = rest.listed
          /\ SameCore(run', rest) /\ SameTrust(run', rest)
      BY <1>2, <1>6, <3>1 DEF Command, SameCore, SameTrust
    <3>3. SameCore(run', run) /\ SameTrust(run', run)
      BY <1>2, <3>2 DEF SameCore, SameTrust
    <3> QED BY <1>2, <1>6, <1>7, <2>2, <3>2, <3>3 DEF ApplyInv, ApplyTypeOK
  <2>3. CASE session[w].dir /\ Provide(w, rest)
    <3>1. SameCore(run', rest) /\ SameTrust(run', rest)
      BY <1>1, <1>2, <2>3, ProvideAdds DEF ApplyInv
    <3>2. SameCore(run', run) /\ SameTrust(run', run)
      BY <1>2, <3>1 DEF SameCore, SameTrust
    <3> QED BY <1>1, <1>2, <1>7, <2>3, <3>2, ProvideAdds DEF ApplyInv
  <2>4. CASE session[w].dir /\ run' = lost /\ disk' = [disk EXCEPT ![w] = "niwa"]
    <3>1. run' = [rest EXCEPT !.unhashed = z]
      BY <2>4
    <3> HIDE DEF z
    <3>2. /\ run' \in Command /\ run'.written = rest.written /\ run'.exempt = rest.exempt
          /\ run'.carried = rest.carried /\ run'.unhashed = z
          /\ run'.todo = rest.todo /\ run'.listed = rest.listed
          /\ SameCore(run', rest) /\ SameTrust(run', rest)
      BY <1>2, <1>6, <3>1 DEF Command, SameCore, SameTrust
    <3>3. SameCore(run', run) /\ SameTrust(run', run)
      BY <1>2, <3>2 DEF SameCore, SameTrust
    <3>4. disk' \in [Place -> {"absent", "niwa", "repo"}]
      BY <1>1, <2>4 DEF ApplyInv, ApplyTypeOK
    <3> QED BY <1>2, <1>6, <1>7, <2>4, <3>2, <3>3, <3>4
  <2> QED BY <1>4, <2>1, <2>2, <2>3, <2>4
<1>9. ApplyTypeOK' /\ Commanded'
  BY <1>3, <1>8 DEF ApplyInv, ApplyTypeOK, Commanded, SameCore
<1>10. Pooled' /\ Overlaid'
  BY <1>3, <1>8 DEF ApplyInv, Commanded, Pooled, Overlaid, Resolved, SameCore
<1>11. Lived' /\ Recorded'
  BY <1>3, <1>5, <1>8 DEF ApplyInv, Lived, Recorded, InRecord, SameCore, SameTrust
<1>12. Provided'
  <2>1. run'.cfg = run.cfg /\ run'.repos = run.repos
    BY <1>8 DEF SameCore
  <2>2. Handled \subseteq Handled'
    BY <1>8 DEF Handled
  <2>3. ASSUME run.cfg.content, run.listed, NEW v \in Worktree \cap inst.files,
               session[v].status = "active", RepoOf[v] \in run.repos
        PROVE  v \in run'.todo \cup Handled' \cup run'.unhashed
    <3>1. CASE v = w
      BY <1>5, <1>8, <2>3, <3>1 DEF Handled
    <3>2. CASE v # w
      BY <1>3, <1>8, <2>2, <2>3, <3>2 DEF ApplyInv, Provided
    <3> QED BY <3>1, <3>2
  <2> QED BY <1>3, <1>8, <2>1, <2>2, <2>3 DEF ApplyInv, Provided
<1> QED BY <1>9, <1>10, <1>11, <1>12 DEF ApplyInv

LEMMA HashFilesKeeps ==
    ASSUME ApplyInv, HashFiles
    PROVE  ApplyInv'
<1>1. /\ pc = "worktrees" /\ pc' = "hash" /\ run.todo = {}
      /\ UNCHANGED <<inst, hosted, overlay, clone, disk, session, entry, ours, loose, job, run>>
  BY DEF HashFiles, To, fileFrame
<1>2. ApplyTypeOK' /\ Commanded'
  BY <1>1 DEF ApplyInv, ApplyTypeOK, Commanded
<1>3. Pooled' /\ Overlaid'
  BY <1>1 DEF ApplyInv, Commanded, Pooled, Overlaid, Resolved
<1>4. Lived' /\ Recorded'
  BY <1>1 DEF ApplyInv, Lived, Recorded, InRecord
<1>5. Provided'
  BY <1>1 DEF ApplyInv, Provided, Handled
<1> QED BY <1>2, <1>3, <1>4, <1>5 DEF ApplyInv

LEMMA CleanUpKeeps ==
    ASSUME ApplyInv, CleanUp
    PROVE  ApplyInv'
<1>1. /\ pc = "hash" /\ pc' = "trust root"
      /\ UNCHANGED <<inst, hosted, overlay, clone, session, entry, ours, loose, job, run>>
  BY DEF CleanUp, To, fileFrame
<1>2. disk' \in [Place -> {"absent", "niwa", "repo"}]
  BY DEF CleanUp, ApplyInv, ApplyTypeOK
<1>3. ApplyTypeOK' /\ Commanded'
  BY <1>1, <1>2 DEF ApplyInv, ApplyTypeOK, Commanded
<1>4. Pooled' /\ Overlaid'
  BY <1>1 DEF ApplyInv, Commanded, Pooled, Overlaid, Resolved
<1>5. Lived' /\ Recorded' /\ Provided'
  BY <1>1 DEF ApplyInv, Lived, Recorded, InRecord, Provided
<1> QED BY <1>3, <1>4, <1>5 DEF ApplyInv

-----------------------------------------------------------------------------
(* Claude Code's trust. *)

LEMMA Grantable ==
    /\ NoGrant \notin Trust!Mode
    /\ \A m \in Trust!Mode \cup {NoGrant}, e \in Trust!Entry :
           LET g == Trust!Granted([kind |-> "ensure", prior |-> m], e) IN
           /\ g \in Trust!Mode \cup {NoGrant}
           /\ e # "true" \/ m # NoGrant => g # NoGrant
BY DEF NoGrant, Trust!NoGrant, Trust!Mode, Trust!Entry, Trust!Granted

(* A directory is dealt with: what is answered for is to be recorded, and  *)
(* what was not before can be taken back.                                  *)
LEMMA TrustSettles ==
    ASSUME ApplyTypeOK, NEW t \in Target, NEW wanted, NEW r \in Command, TrustDirectory(t, wanted, r),
           t \in ours => InRecord(t) \/ loose[t] # "no"
    PROVE  /\ run' \in Command /\ SameCore(run', r) /\ SameFiles(run', r) /\ run'.todo = r.todo
           /\ entry' \in [Target -> Trust!Entry] /\ ours' \subseteq ours \cup {t}
           /\ loose' \in [Target -> {"no", "warned", "killed"}]
           /\ \A s \in Target \ {t} :
                  run'.grants[s] = r.grants[s] /\ run'.undo[s] = r.undo[s] /\ loose'[s] = loose[s]
           /\ t \in ours' => /\ run'.grants[t] # NoGrant \/ loose'[t] # "no"
                             /\ InRecord(t) \/ loose'[t] # "no" \/ run'.undo[t] # NoGrant
<1>1. /\ r.grants \in Grants /\ r.undo \in Grants /\ inst.grants \in Grants
      /\ entry \in [Target -> Trust!Entry] /\ ours \subseteq Target
      /\ loose \in [Target -> {"no", "warned", "killed"}]
  BY CommandFields DEF ApplyTypeOK, Instance
<1>2. ASSUME run' = r, UNCHANGED <<entry, ours>>
      PROVE  /\ run' \in Command /\ SameCore(run', r) /\ SameFiles(run', r) /\ run'.todo = r.todo
             /\ entry' \in [Target -> Trust!Entry] /\ ours' \subseteq ours
             /\ run'.grants = r.grants /\ run'.undo = r.undo
  BY <1>1, <1>2 DEF SameCore, SameFiles
<1>3. ASSUME run' = [r EXCEPT !.grants[t] = inst.grants[t]], UNCHANGED <<entry, ours, loose>>
      PROVE  /\ run' \in Command /\ SameCore(run', r) /\ SameFiles(run', r) /\ run'.todo = r.todo
             /\ entry' \in [Target -> Trust!Entry]
             /\ \A s \in Target \ {t} : run'.grants[s] = r.grants[s] /\ run'.undo[s] = r.undo[s]
             /\ t \in ours' => run'.grants[t] # NoGrant \/ loose'[t] # "no"
             /\ t \in ours' => InRecord(t) \/ loose'[t] # "no"
  <2> DEFINE g == [r.grants EXCEPT ![t] = inst.grants[t]]
  <2>1. run' = [r EXCEPT !.grants = g]
    BY <1>3
  <2>2. g \in Grants /\ g[t] = inst.grants[t] /\ \A s \in Target \ {t} : g[s] = r.grants[s]
    BY <1>1 DEF Grants
  <2> HIDE DEF g
  <2>3. /\ run' \in Command /\ run'.grants = g /\ run'.undo = r.undo /\ run'.todo = r.todo
        /\ SameCore(run', r) /\ SameFiles(run', r)
    BY <2>1, <2>2 DEF Command, SameCore, SameFiles
  <2> QED BY <1>1, <1>3, <2>2, <2>3 DEF InRecord
<1>4. CASE t \in Repo /\ ~HasGit(t)
  <2>1. run' = r /\ UNCHANGED <<entry, ours>>
        /\ loose' = IF InRecord(t) THEN [loose EXCEPT ![t] = "warned"] ELSE loose
    BY <1>4 DEF TrustDirectory
  <2>2. /\ loose' \in [Target -> {"no", "warned", "killed"}]
        /\ \A s \in Target \ {t} : loose'[s] = loose[s]
        /\ t \in ours' => loose'[t] # "no"
    BY <1>1, <2>1
  <2> QED BY <1>2, <2>1, <2>2
<1>5. CASE Give(t, r)
  <2> DEFINE op == [kind |-> "ensure", prior |-> inst.grants[t]]
             h == Trust!Granted(op, entry[t])
             v == CASE entry[t] = "true" -> NoGrant
                    [] entry[t] = "absent" -> "created"
                    [] OTHER -> "flag-only"
             g == [r.grants EXCEPT ![t] = h]
             u == [r.undo EXCEPT ![t] = v]
  <2>1. CASE /\ entry' = [entry EXCEPT ![t] = Trust!Updated(op, @)]
             /\ IF entry[t] = "true" THEN UNCHANGED <<ours, loose>>
                ELSE ours' = ours \cup {t} /\ loose' = [loose EXCEPT ![t] = "no"]
             /\ run' = [r EXCEPT !.grants[t] = h, !.undo[t] = v]
    <3>1. entry' \in [Target -> Trust!Entry]
      <4>1. Trust!Updated(op, entry[t]) \in Trust!Entry
        BY DEF Trust!Updated, Trust!Entry
      <4> QED BY <1>1, <2>1, <4>1
    <3>2. /\ h \in Trust!Mode \cup {NoGrant}
          /\ entry[t] # "true" \/ inst.grants[t] # NoGrant => h # NoGrant
      BY <1>1, Grantable DEF Grants
    <3>3. v \in Trust!Mode \cup {NoGrant} /\ (entry[t] # "true" => v # NoGrant)
      BY Grantable DEF Trust!Mode
    <3>4. run' = [r EXCEPT !.grants = g, !.undo = u]
      BY <2>1
    <3> HIDE DEF h, v
    <3>5. /\ g \in Grants /\ g[t] = h /\ \A s \in Target \ {t} : g[s] = r.grants[s]
          /\ u \in Grants /\ u[t] = v /\ \A s \in Target \ {t} : u[s] = r.undo[s]
      BY <1>1, <3>2, <3>3 DEF Grants
    <3> HIDE DEF g, u
    <3>6. /\ run' \in Command /\ run'.grants = g /\ run'.undo = u /\ run'.todo = r.todo
          /\ SameCore(run', r) /\ SameFiles(run', r)
      BY <3>4, <3>5 DEF Command, SameCore, SameFiles
    <3>7. /\ loose' \in [Target -> {"no", "warned", "killed"}] /\ ours' \subseteq ours \cup {t}
          /\ \A s \in Target \ {t} : loose'[s] = loose[s]
      BY <1>1, <2>1
    <3>8. t \in ours' => /\ h # NoGrant \/ loose'[t] # "no"
                         /\ InRecord(t) \/ loose'[t] # "no" \/ v # NoGrant
      <4>1. CASE entry[t] = "true"
        BY <2>1, <3>2, <4>1 DEF InRecord
      <4>2. CASE entry[t] # "true"
        BY <3>2, <3>3, <4>2
      <4> QED BY <4>1, <4>2
    <3> QED BY <3>1, <3>5, <3>6, <3>7, <3>8
  <2>2. CASE run' = [r EXCEPT !.grants[t] = inst.grants[t]] /\ UNCHANGED <<entry, ours, loose>>
    BY <1>1, <1>3, <2>2
  <2> QED BY <1>5, <2>1, <2>2 DEF Give
<1>6. CASE Settle(t, r)
  <2>1. CASE run' = [r EXCEPT !.grants[t] = inst.grants[t]] /\ UNCHANGED <<entry, ours, loose>>
    BY <1>1, <1>3, <2>1
  <2> DEFINE e == Trust!Withdrawn([kind |-> "withdraw", how |-> "retract", mode |-> inst.grants[t]], entry[t])
  <2>2. CASE run' = r /\ Disown(t) /\ entry' = [entry EXCEPT ![t] = e]
    <3>1. e \in Trust!Entry
      BY DEF Trust!Withdrawn, Trust!Entry
    <3> HIDE DEF e
    <3>2. entry' \in [Target -> Trust!Entry]
      BY <1>1, <2>2, <3>1
    <3> QED BY <1>1, <2>2, <3>2 DEF Disown, SameCore, SameFiles
  <2> QED BY <1>6, <2>1, <2>2 DEF Settle
<1>7. CASE inst.grants[t] = NoGrant /\ run' = r /\ UNCHANGED <<entry, ours, loose, events>>
  BY <1>1, <1>2, <1>7 DEF InRecord
<1> QED BY <1>4, <1>5, <1>6, <1>7 DEF TrustDirectory

(* What niwa answers for before it trusts anything is in the state or loose. *)
LEMMA AnswersAreStored ==
    ASSUME ApplyInv, pc # "trust repos"
    PROVE  \A t \in ours : InRecord(t) \/ loose[t] # "no"
BY DEF ApplyInv, ApplyTypeOK, Recorded, InRecord, NoGrants

LEMMA TrustRootKeeps ==
    ASSUME ApplyInv, TrustRoot
    PROVE  ApplyInv'
<1> DEFINE x == run.repos \cup {q \in Repo : inst.grants[q] # NoGrant}
           r == [run EXCEPT !.todo = x]
<1>1. run \in Command /\ x \in SUBSET (Repo \cup Worktree) /\ x \subseteq Repo
  BY CommandFields DEF ApplyInv, ApplyTypeOK
<1>2. /\ r \in Command /\ r.todo = x /\ SameCore(r, run) /\ SameFiles(r, run) /\ SameTrust(r, run)
  BY <1>1 DEF Command, SameCore, SameFiles, SameTrust
<1>3. TrustDirectory("root", run.cfg.trust, r) /\ "root" \in Target
  BY DEF TrustRoot, Target
<1>4. \A q \in Repo : inst.grants[q] # NoGrant => q \in x
  OBVIOUS
<1> HIDE DEF r, x
<1>5. /\ pc = "trust root" /\ pc' = "trust repos"
      /\ UNCHANGED <<inst, hosted, overlay, clone, disk, session, job>>
  BY DEF TrustRoot, To, trustFrame
<1>6. \A t \in ours : InRecord(t) \/ loose[t] # "no"
  BY <1>5, AnswersAreStored
<1>7. /\ run' \in Command /\ SameCore(run', r) /\ SameFiles(run', r) /\ run'.todo = r.todo
      /\ entry' \in [Target -> Trust!Entry] /\ ours' \subseteq ours \cup {"root"}
      /\ loose' \in [Target -> {"no", "warned", "killed"}]
      /\ \A s \in Target \ {"root"} :
             run'.grants[s] = r.grants[s] /\ run'.undo[s] = r.undo[s] /\ loose'[s] = loose[s]
      /\ "root" \in ours' => /\ run'.grants["root"] # NoGrant \/ loose'["root"] # "no"
                             /\ InRecord("root") \/ loose'["root"] # "no" \/ run'.undo["root"] # NoGrant
  BY <1>2, <1>3, <1>6, TrustSettles DEF ApplyInv
<1>8. SameCore(run', run) /\ SameFiles(run', run)
  BY <1>2, <1>7 DEF SameCore, SameFiles
<1>9. ApplyTypeOK' /\ Commanded'
  <2>1. ours' \subseteq Target
    BY <1>3, <1>7 DEF ApplyInv, ApplyTypeOK
  <2>2. ApplyTypeOK'
    BY <1>5, <1>7, <2>1 DEF ApplyInv, ApplyTypeOK
  <2>3. Commanded'
    BY <1>5, <1>8 DEF ApplyInv, Commanded, SameCore
  <2> QED BY <2>2, <2>3
<1>10. Pooled' /\ Overlaid'
  BY <1>5, <1>8 DEF ApplyInv, Commanded, Pooled, Overlaid, Resolved, SameCore
<1>11. Lived' /\ Provided'
  BY <1>5, <1>8 DEF ApplyInv, Lived, Provided, SameFiles
<1>12. Recorded'
  <2>1. ours' \subseteq Target /\ "root" \notin Repo /\ Target = {"root"} \cup Repo
    BY <1>9 DEF ApplyTypeOK, Target
  <2>2. \A s \in Repo : run'.undo[s] = NoGrant
    <3>1. r.undo = NoGrants
      BY <1>2, <1>5 DEF ApplyInv, Recorded, InRecord, SameTrust
    <3>2. \A s \in Target : NoGrants[s] = NoGrant
      BY DEF NoGrants
    <3> QED BY <1>7, <2>1, <3>1, <3>2
  <2>3. \A t \in ours' : InRecord(t)' \/ loose'[t] # "no" \/ run'.undo[t] # NoGrant
    BY <1>5, <1>6, <1>7, <2>1 DEF InRecord
  <2>4. \A t \in ours' \ run'.todo : run'.grants[t] # NoGrant \/ loose'[t] # "no"
    <3>1. ASSUME NEW t \in ours' \ run'.todo, t # "root"
          PROVE  loose'[t] # "no"
      <4>1. t \in Repo /\ t \in ours /\ ~InRecord(t) /\ loose'[t] = loose[t]
        BY <1>2, <1>4, <1>7, <2>1, <3>1 DEF InRecord
      <4> QED BY <1>6, <4>1
    <3>2. "root" \in ours' => run'.grants["root"] # NoGrant \/ loose'["root"] # "no"
      BY <1>7
    <3> QED BY <3>1, <3>2
  <2>5. run'.todo \subseteq Repo
    BY <1>1, <1>2, <1>7
  <2> QED BY <1>5, <2>2, <2>3, <2>4, <2>5 DEF Recorded, InRecord
<1> QED BY <1>9, <1>10, <1>11, <1>12 DEF ApplyInv

LEMMA TrustRepoKeeps ==
    ASSUME ApplyInv, NEW q \in Repo, TrustRepo(q)
    PROVE  ApplyInv'
<1> DEFINE x == run.todo \ {q}
           r == [run EXCEPT !.todo = x]
<1>1. run \in Command /\ x \in SUBSET (Repo \cup Worktree)
  BY CommandFields DEF ApplyInv, ApplyTypeOK
<1>2. /\ r \in Command /\ r.todo = x /\ SameCore(r, run) /\ SameFiles(r, run) /\ SameTrust(r, run)
  BY <1>1 DEF Command, SameCore, SameFiles, SameTrust
<1>3. TrustDirectory(q, run.cfg.trust /\ q \in run.repos, r) /\ q \in Target
  BY DEF TrustRepo, Target
<1>4. x = run.todo \ {q}
  OBVIOUS
<1> HIDE DEF r, x
<1>5. /\ pc = "trust repos" /\ pc' = pc /\ q \in run.todo
      /\ UNCHANGED <<inst, hosted, overlay, clone, disk, session, job>>
  BY DEF TrustRepo, trustFrame
<1>6. q \in ours => InRecord(q) \/ loose[q] # "no"
  BY <1>5 DEF ApplyInv, Recorded, InRecord
<1>7. /\ run' \in Command /\ SameCore(run', r) /\ SameFiles(run', r) /\ run'.todo = r.todo
      /\ entry' \in [Target -> Trust!Entry] /\ ours' \subseteq ours \cup {q}
      /\ loose' \in [Target -> {"no", "warned", "killed"}]
      /\ \A s \in Target \ {q} :
             run'.grants[s] = r.grants[s] /\ run'.undo[s] = r.undo[s] /\ loose'[s] = loose[s]
      /\ q \in ours' => /\ run'.grants[q] # NoGrant \/ loose'[q] # "no"
                        /\ InRecord(q) \/ loose'[q] # "no" \/ run'.undo[q] # NoGrant
  BY <1>2, <1>3, <1>6, TrustSettles DEF ApplyInv
<1>8. SameCore(run', run) /\ SameFiles(run', run)
  BY <1>2, <1>7 DEF SameCore, SameFiles
<1>9. ApplyTypeOK' /\ Commanded'
  <2>1. ours' \subseteq Target
    BY <1>3, <1>7 DEF ApplyInv, ApplyTypeOK
  <2>2. ApplyTypeOK'
    BY <1>5, <1>7, <2>1 DEF ApplyInv, ApplyTypeOK
  <2>3. Commanded'
    BY <1>5, <1>8 DEF ApplyInv, Commanded, SameCore
  <2> QED BY <2>2, <2>3
<1>10. Pooled' /\ Overlaid'
  BY <1>2, <1>4, <1>5, <1>7, <1>8 DEF ApplyInv, Commanded, Pooled, Overlaid, Resolved, SameCore
<1>11. Lived' /\ Provided'
  BY <1>5, <1>8 DEF ApplyInv, Lived, Provided, SameFiles
<1>12. Recorded'
  <2>1. ours' \subseteq Target /\ run.todo \subseteq Repo /\ Repo \subseteq Target
    BY <1>5, <1>9 DEF ApplyInv, ApplyTypeOK, Target, Recorded, InRecord
  <2>2. run'.todo = run.todo \ {q}
    BY <1>2, <1>4, <1>7
  <2>3. \A s \in Target \ {q} :
            run'.grants[s] = run.grants[s] /\ run'.undo[s] = run.undo[s] /\ loose'[s] = loose[s]
    BY <1>2, <1>7 DEF SameTrust
  <2>4. \A t \in ours' : InRecord(t)' \/ loose'[t] # "no" \/ run'.undo[t] # NoGrant
    BY <1>5, <1>6, <1>7, <2>1, <2>3 DEF ApplyInv, Recorded, InRecord
  <2>5. \A t \in ours' \ run'.todo : run'.grants[t] # NoGrant \/ loose'[t] # "no"
    <3>1. ASSUME NEW t \in ours' \ run'.todo, t # q
          PROVE  run'.grants[t] # NoGrant \/ loose'[t] # "no"
      <4>1. t \in Target /\ t \in ours \ run.todo
        BY <1>7, <2>1, <2>2, <3>1
      <4>2. run.grants[t] # NoGrant \/ loose[t] # "no"
        BY <1>5, <4>1 DEF ApplyInv, Recorded
      <4> QED BY <2>3, <3>1, <4>1, <4>2
    <3>2. q \in ours' => run'.grants[q] # NoGrant \/ loose'[q] # "no"
      BY <1>7
    <3> QED BY <3>1, <3>2
  <2>6. \A t \in run'.todo : run'.undo[t] = NoGrant
    BY <1>5, <2>1, <2>2, <2>3 DEF ApplyInv, Recorded, InRecord
  <2> QED BY <1>5, <2>1, <2>2, <2>4, <2>5, <2>6 DEF Recorded, InRecord
<1> QED BY <1>9, <1>10, <1>11, <1>12 DEF ApplyInv

LEMMA SaveKeeps ==
    ASSUME ApplyInv, Save
    PROVE  ApplyInv'
<1>1. /\ pc = "trust repos" /\ pc' = "idle" /\ run.todo = {} /\ run \in Command /\ inst \in Instance
      /\ inst' = [dir |-> TRUE, saved |-> TRUE, files |-> Managed, repos |-> run.repos,
                  grants |-> run.grants, overlay |-> inst.overlay \/ run.recorded]
      /\ run' = [NoRun EXCEPT !.kind = "done"]
      /\ UNCHANGED <<hosted, overlay, clone, disk, session, entry, ours, loose, job>>
  BY DEF Save, To, ApplyInv, ApplyTypeOK
<1>2. /\ run' \in Command /\ run'.kind = "done" /\ run'.todo = {}
      /\ run'.written = {} /\ run'.carried = {} /\ run'.undo = NoGrants
  BY <1>1, EndedCommands
<1>3. /\ inst' \in Instance /\ inst'.dir /\ inst'.saved /\ inst'.grants = run.grants
      /\ inst'.files = run.written \cup run.carried
  BY <1>1, CommandFields DEF Instance, Managed
<1>4. ApplyTypeOK' /\ Commanded'
  BY <1>1, <1>2, <1>3 DEF ApplyInv, ApplyTypeOK, Commanded
<1>5. Pooled' /\ Overlaid' /\ Provided'
  BY <1>1, <1>2 DEF ApplyInv, Pooled, FailedCreate, Overlaid, Resolved, Provided
<1>6. Lived'
  BY <1>1, <1>2, <1>3 DEF ApplyInv, Lived
<1>7. Recorded'
  BY <1>1, <1>2, <1>3 DEF ApplyInv, Recorded, InRecord
<1> QED BY <1>4, <1>5, <1>6, <1>7 DEF ApplyInv

LEMMA SaveFailsKeeps ==
    ASSUME ApplyInv, SaveFails
    PROVE  ApplyInv'
<1>1. PICK k \in {"unsaved", "unsaved create"} :
          /\ run' = [NoRun EXCEPT !.kind = k] /\ (k = "unsaved create" => run.kind = "create")
  BY DEF SaveFails
<1>2. /\ pc = "trust repos" /\ pc' = "idle" /\ run.todo = {}
      /\ UNCHANGED <<inst, hosted, overlay, clone, disk, session, job>>
  BY DEF SaveFails, To, trustFrame
<1>3. PICK busy \in {{}, Given} :
          /\ entry' = [t \in Target |-> IF t \in busy THEN entry[t] ELSE Undone(t)]
          /\ ours' = {t \in ours : t \in Given => entry'[t] = "true"}
          /\ loose' = [t \in Target |-> IF t \in busy /\ ~InRecord(t) THEN "warned" ELSE loose[t]]
  BY DEF SaveFails
<1>4. /\ run' \in Command /\ run'.kind = k /\ run'.todo = {}
      /\ run'.written = {} /\ run'.carried = {} /\ run'.undo = NoGrants
  BY <1>1, EndedCommands DEF FailedCreate
<1>5. /\ entry \in [Target -> Trust!Entry] /\ ours \subseteq Target
      /\ loose \in [Target -> {"no", "warned", "killed"}]
  BY DEF ApplyInv, ApplyTypeOK
<1>6. \A t \in Target : Undone(t) \in Trust!Entry /\ (t \in Given => Undone(t) # "true")
  BY <1>5 DEF Undone, Given, Trust!Withdrawn, Trust!Entry
<1>7. /\ entry' \in [Target -> Trust!Entry] /\ ours' \subseteq ours
      /\ loose' \in [Target -> {"no", "warned", "killed"}]
  BY <1>3, <1>5, <1>6
<1>8. \A t \in ours' : InRecord(t) \/ loose'[t] # "no"
  <2>1. ASSUME NEW t \in ours', t \in Given
        PROVE  InRecord(t) \/ loose'[t] # "no"
    <3>1. t \in Target /\ entry'[t] = "true"
      BY <1>3, <1>5, <2>1
    <3>2. t \in busy
      BY <1>3, <1>6, <2>1, <3>1
    <3> QED BY <1>3, <3>1, <3>2
  <2>2. ASSUME NEW t \in ours', t \notin Given
        PROVE  InRecord(t) \/ loose'[t] # "no"
    <3>1. t \in Target /\ t \in ours /\ run.undo[t] = NoGrant
      BY <1>5, <1>7, <2>2 DEF Given
    <3>2. InRecord(t) \/ loose[t] # "no"
      BY <3>1 DEF ApplyInv, Recorded
    <3> QED BY <1>3, <3>1, <3>2
  <2> QED BY <2>1, <2>2
<1>9. ApplyTypeOK' /\ Commanded'
  BY <1>1, <1>2, <1>4, <1>7 DEF ApplyInv, ApplyTypeOK, Commanded
<1>10. Pooled'
  BY <1>1, <1>2, <1>4 DEF ApplyInv, Commanded, Pooled, FailedCreate
<1>11. Overlaid' /\ Provided'
  BY <1>2 DEF Overlaid, Resolved, Provided
<1>12. Lived'
  BY <1>2, <1>4 DEF ApplyInv, Lived
<1>13. Recorded'
  BY <1>2, <1>4, <1>8 DEF Recorded, InRecord
<1> QED BY <1>9, <1>10, <1>11, <1>12, <1>13 DEF ApplyInv

-----------------------------------------------------------------------------
(* A kill, and the world. *)

LEMMA KillKeeps ==
    ASSUME ApplyInv, Kill
    PROVE  ApplyInv'
<1>1. /\ pc' = "idle" /\ run' = [NoRun EXCEPT !.kind = "killed"] /\ job' = [r \in Repo |-> NoJob]
      /\ loose' = [t \in Target |-> IF t \in Given /\ ~InRecord(t) THEN "killed" ELSE loose[t]]
      /\ UNCHANGED <<inst, hosted, overlay, disk, session, entry, ours>>
  BY DEF Kill, To
<1>2. clone' \in [Repo -> {"absent", "partial", "cloned"}]
  BY DEF Kill, ApplyInv, ApplyTypeOK
<1>3. /\ run' \in Command /\ run'.kind = "killed" /\ run'.todo = {}
      /\ run'.written = {} /\ run'.carried = {} /\ run'.undo = NoGrants
  BY <1>1, EndedCommands
<1>4. job' \in [Repo -> Job] /\ \A r \in Repo : job'[r].at = "none"
  BY <1>1 DEF NoJob, Job
<1>5. /\ loose' \in [Target -> {"no", "warned", "killed"}]
      /\ \A t \in ours : InRecord(t) \/ loose'[t] # "no"
  BY <1>1 DEF Given, ApplyInv, ApplyTypeOK, Recorded
<1>6. ApplyTypeOK' /\ Commanded'
  BY <1>1, <1>2, <1>3, <1>4, <1>5 DEF ApplyInv, ApplyTypeOK, Commanded
<1>7. Pooled' /\ Overlaid' /\ Provided'
  BY <1>1, <1>3, <1>4 DEF Pooled, FailedCreate, Overlaid, Resolved, Provided
<1>8. Lived'
  BY <1>1, <1>3 DEF ApplyInv, Lived
<1>9. Recorded'
  BY <1>1, <1>3, <1>5 DEF ApplyInv, Recorded, InRecord
<1> QED BY <1>6, <1>7, <1>8, <1>9 DEF ApplyInv

LEMMA WorldKeeps ==
    ASSUME ApplyInv,
           \/ HostOverlay
           \/ \E t \in Target : AnswerPrompt(t)
           \/ \E p \in Repo \cup Worktree : CommitOwnFile(p)
           \/ \E r \in Repo : RemoveClone(r)
    PROVE  ApplyInv'
<1>1. /\ UNCHANGED <<inst, overlay, pc, run, job, session>> /\ ours' \subseteq ours
      /\ loose' \in [Target -> {"no", "warned", "killed"}]
      /\ \A t \in ours' : loose'[t] = loose[t]
      /\ \A r \in Repo : clone'[r] = clone[r] \/ clone'[r] = "absent"
  BY DEF HostOverlay, AnswerPrompt, Disown, CommitOwnFile, RemoveClone, outside, ApplyInv, ApplyTypeOK
<1>2. ApplyTypeOK'
  <2>1. Repo \cup Worktree \subseteq Place
    BY DEF Place
  <2>2. CASE HostOverlay
    BY <1>1, <2>2 DEF HostOverlay, outside, ApplyInv, ApplyTypeOK
  <2>3. CASE \E t \in Target : AnswerPrompt(t)
    <3>1. PICK t \in Target, e \in {"unset", "true"} :
              entry' = [entry EXCEPT ![t] = e] /\ UNCHANGED <<hosted, clone, disk>>
      BY <2>3 DEF AnswerPrompt
    <3>2. entry' \in [Target -> Trust!Entry]
      BY <3>1 DEF ApplyInv, ApplyTypeOK, Trust!Entry
    <3> QED BY <1>1, <3>1, <3>2 DEF ApplyInv, ApplyTypeOK
  <2>4. CASE \E p \in Repo \cup Worktree : CommitOwnFile(p)
    <3>1. PICK p \in Repo \cup Worktree :
              disk' = [disk EXCEPT ![p] = "repo"] /\ UNCHANGED <<hosted, clone, entry>>
      BY <2>4 DEF CommitOwnFile
    <3>2. disk' \in [Place -> {"absent", "niwa", "repo"}]
      BY <2>1, <3>1 DEF ApplyInv, ApplyTypeOK
    <3> QED BY <1>1, <3>1, <3>2 DEF ApplyInv, ApplyTypeOK
  <2>5. CASE \E r \in Repo : RemoveClone(r)
    BY <1>1, <2>1, <2>5 DEF RemoveClone, outside, ApplyInv, ApplyTypeOK
  <2> QED BY <2>2, <2>3, <2>4, <2>5
<1>3. Commanded' /\ Pooled' /\ Overlaid'
  BY <1>1 DEF ApplyInv, Commanded, Pooled, Overlaid, Resolved
<1>4. Lived' /\ Recorded'
  BY <1>1 DEF ApplyInv, Lived, Recorded, InRecord
<1>5. Provided'
  BY <1>1 DEF ApplyInv, Provided, Handled
<1> QED BY <1>2, <1>3, <1>4, <1>5 DEF ApplyInv

(* A worktree is started once and ended once. *)
LEMMA WorktreesKeep ==
    ASSUME ApplyInv, NEW w \in Worktree, StartWorktree(w) \/ EndWorktree(w) \/ AttachDetach(w)
    PROVE  ApplyInv'
<1>1. /\ UNCHANGED <<inst, overlay, ours, loose, pc, run, job, hosted, clone, entry>>
      /\ session \in [Worktree -> Session] /\ disk \in [Place -> {"absent", "niwa", "repo"}] /\ w \in Place
  BY DEF StartWorktree, EndWorktree, AttachDetach, outside, ApplyInv, ApplyTypeOK, Place
<1>2. /\ session' \in [Worktree -> Session] /\ disk' \in [Place -> {"absent", "niwa", "repo"}]
      /\ \A v \in Worktree \ {w} : session'[v] = session[v]
      /\ session'[w].status = "active" => session'[w].dir /\ session[w].status \in {"none", "active"}
      /\ session[w].status # "none" => session'[w].status # "none"
      /\ session[w].status = "none" /\ session'[w].status = "active" => StartWorktree(w)
  <2>1. CASE StartWorktree(w)
    <3> DEFINE new == [status |-> "active", dir |-> TRUE, attached |-> FALSE, registered |-> TRUE]
    <3>1. new \in Session /\ new.dir /\ new.status = "active"
      BY DEF Session
    <3>2. session' = [session EXCEPT ![w] = new] /\ session[w].status = "none"
      BY <2>1 DEF StartWorktree
    <3> HIDE DEF new
    <3>3. disk' \in [Place -> {"absent", "niwa", "repo"}]
      BY <1>1, <2>1 DEF StartWorktree
    <3> QED BY <1>1, <2>1, <3>1, <3>2, <3>3
  <2>2. CASE EndWorktree(w)
    <3> DEFINE new == [NoSession EXCEPT !.status = "ended"]
    <3>1. new \in Session /\ new.status = "ended"
      BY DEF Session, NoSession
    <3>2. session' = [session EXCEPT ![w] = new] /\ disk' = [disk EXCEPT ![w] = "absent"]
      BY <2>2 DEF EndWorktree
    <3> HIDE DEF new
    <3> QED BY <1>1, <3>1, <3>2
  <2>3. CASE AttachDetach(w)
    <3>1. PICK new \in {[session[w] EXCEPT !.attached = ~@], [session[w] EXCEPT !.registered = ~@]} :
              session' = [session EXCEPT ![w] = new] /\ UNCHANGED disk
      BY <2>3 DEF AttachDetach
    <3>2. session[w] \in Session
      BY <1>1
    <3>3. new \in Session /\ new.status = session[w].status /\ new.dir = session[w].dir
      BY <3>2 DEF Session
    <3> QED BY <1>1, <3>1, <3>3, <2>3 DEF ApplyInv, Lived
  <2> QED BY <2>1, <2>2, <2>3
<1>3. ApplyTypeOK' /\ Commanded'
  BY <1>1, <1>2 DEF ApplyInv, ApplyTypeOK, Commanded
<1>4. Pooled' /\ Overlaid' /\ Recorded'
  BY <1>1 DEF ApplyInv, Pooled, Overlaid, Resolved, Recorded, InRecord
<1>5. Lived'
  BY <1>1, <1>2 DEF ApplyInv, Lived
<1>6. Provided'
  <2>1. \A v \in Worktree \cap inst.files : session'[v].status = "active" => session[v].status = "active"
    BY <1>2 DEF ApplyInv, Lived
  <2> QED BY <1>1, <2>1 DEF ApplyInv, Provided, Handled
<1> QED BY <1>3, <1>4, <1>5, <1>6 DEF ApplyInv

-----------------------------------------------------------------------------
LEMMA ApplyKeeps ==
    ASSUME Sited, ApplyInv, Apply
    PROVE  ApplyInv'
<1>1. CASE Start \/ Reload
  BY <1>1, StartKeeps, ReloadKeeps
<1>2. CASE Refreshing
  BY <1>2, StandsStill DEF Refreshing
<1>3. CASE Prepare \/ Prepared \/ StageFails \/ SyncOverlay \/ Resolve
  BY <1>3, PrepareKeeps, PreparedKeeps, StageFailsKeeps, SyncOverlayKeeps, ResolveKeeps
<1>4. CASE Cloned \/ RootFiles \/ ListWorktrees \/ HashFiles \/ CleanUp
  BY <1>4, ClonedKeeps, RootFilesKeeps, ListWorktreesKeeps, HashFilesKeeps, CleanUpKeeps
<1>5. CASE TrustRoot \/ Save \/ SaveFails
  BY <1>5, TrustRootKeeps, SaveKeeps, SaveFailsKeeps
<1>6. CASE \E r \in Repo : Worker(r) \/ Collect(r) \/ RepoFiles(r) \/ TrustRepo(r)
  BY <1>6, WorkerKeeps, CollectKeeps, RepoFilesKeeps, TrustRepoKeeps
<1>7. CASE \E w \in Worktree : RefreshWorktree(w)
  BY <1>7, RefreshWorktreeKeeps
<1> QED BY <1>1, <1>2, <1>3, <1>4, <1>5, <1>6, <1>7 DEF Apply

LEMMA NextKeeps ==
    ASSUME Sited, ApplyInv, [Next]_vars
    PROVE  ApplyInv'
<1>1. CASE Around
  BY <1>1, StandsStill, WorldKeeps, WorktreesKeep DEF Around
<1>2. CASE UNCHANGED vars
  BY <1>2, StandsStill DEF vars
<1> QED BY <1>1, <1>2, ApplyKeeps, KillKeeps DEF Next

LEMMA InitiallyApplies == Init => ApplyInv
<1> SUFFICES ASSUME Init PROVE ApplyInv
  OBVIOUS
<1>1. /\ inst = NoInstance /\ hosted = TRUE /\ overlay = FALSE
      /\ clone = [r \in Repo |-> "absent"] /\ disk = [p \in Place |-> "absent"]
      /\ session = [w \in Worktree |-> NoSession]
      /\ entry = [t \in Target |-> "absent"] /\ ours = {}
      /\ loose = [t \in Target |-> "no"]
      /\ pc = "idle" /\ run = NoRun /\ job = [r \in Repo |-> NoJob]
  BY DEF Init
<1>2. NoSession \in Session /\ NoSession.status = "none" /\ NoJob \in Job /\ NoJob.at = "none"
  BY DEF NoSession, Session, NoJob, Job
<1>3. ApplyTypeOK
  BY <1>1, <1>2, NoRunIsACommand, NoInstanceIsAnInstance DEF ApplyTypeOK, Trust!Entry
<1>4. Commanded /\ Pooled /\ Overlaid /\ Provided
  BY <1>1, <1>2, NoRunIsACommand, NoInstanceIsAnInstance DEF Commanded, Pooled, Overlaid, Resolved, Provided
<1>5. Lived /\ Recorded
  BY <1>1, <1>2, NoRunIsACommand, NoInstanceIsAnInstance DEF Lived, Recorded, InRecord
<1> QED BY <1>3, <1>4, <1>5 DEF ApplyInv

LEMMA AlwaysApplies == Spec => [](Sited /\ ApplyInv)
<1>1. Init => Sited /\ ApplyInv
  BY InitiallySited, InitiallyApplies
<1>2. Sited /\ ApplyInv /\ [Next]_vars => Sited' /\ ApplyInv'
  BY NextStaysSited, NextKeeps
<1> QED BY <1>1, <1>2, PTL DEF Spec

(* The config directory, the instance, the pool, the worktrees, the        *)
(* entries and the command keep their types, whatever fails or is killed.  *)
THEOREM ApplyTypesAreKept == Spec => []TypeOK
<1>1. Sited /\ ApplyInv => TypeOK
  BY DEF Sited, ApplyInv, TypeOK
<1> QED BY <1>1, AlwaysApplies, PTL

(* Every entry niwa has made trusted and not taken back is in the saved    *)
(* state when no command runs: the grant is in what the save writes, and a *)
(* save that fails takes back what the command gave (undoClaudeTrust,      *)
(* deliverClaudeTrust).  Loose are only those a command was killed before  *)
(* it could save, and those a warning has named.                           *)
THEOREM TrustsAreRecorded == Spec => []TrustIsRecorded
<1>1. Sited /\ ApplyInv => TrustIsRecorded
  BY AnswersAreStored DEF TrustIsRecorded
<1> QED BY <1>1, AlwaysApplies, PTL

(* A create that fails waits for its clone workers, so that nothing brings *)
(* back the directory it removes; what it leaves when that removal fails,  *)
(* or the save of the state, has no state that would make it an instance   *)
(* (Create, runPipeline, the clone pool).                                  *)
THEOREM FailedCreatesLeaveNothing == Spec => []FailedCreateLeavesNothing
<1>1. Sited /\ ApplyInv => FailedCreateLeavesNothing
  BY DEF ApplyInv, Pooled, FailedCreate, FailedCreateLeavesNothing
<1> QED BY <1>1, AlwaysApplies, PTL

(* Cleaning up takes no file the config still wants: each was written,     *)
(* passed over for a file of the repository's own, or carried over for a   *)
(* worktree that could not be refreshed; only a worktree's file that was   *)
(* written and could not be hashed may go (cleanRemovedFiles,              *)
(* refreshWorktreeEnvs).                                                   *)
THEOREM OnlyStaleIsRemoved == Spec => RemovesOnlyStale
<1> DEFINE A == pc = "hash" /\ pc' = "trust root" /\ run.listed =>
                    \A p \in Place \ run.unhashed :
                        Wanted(p) /\ disk[p] # "absent" => disk'[p] # "absent"
<1>1. ASSUME ApplyInv, Next, pc = "hash", pc' = "trust root", run.listed,
             NEW p \in Place \ run.unhashed, Wanted(p), disk[p] # "absent"
      PROVE  disk'[p] # "absent"
  <2>1. CleanUp
    BY <1>1 DEF Next, Apply, Start, Refreshing, Reload, Prepare, Prepared, StageFails, Abort, To,
       SyncOverlay, Resolve, Cloned, RootFiles, ListWorktrees, HashFiles, TrustRoot, Save, SaveFails,
       Worker, TakeJob, CloneEnds, CloneAgain, jobFrame, Collect, RepoFiles, TrustRepo, RefreshWorktree,
       Kill, Around, applyVars, HostOverlay, AnswerPrompt, CommitOwnFile, RemoveClone,
       StartWorktree, EndWorktree, AttachDetach, outside
  <2>2. p \in Handled \/ p \notin inst.files
    BY <1>1 DEF ApplyInv, Provided, Handled, Wanted, Place
  <2>3. p \notin Stale
    BY <2>2 DEF Handled, Stale, Managed
  <2> QED BY <1>1, <2>1, <2>3 DEF CleanUp, ApplyInv, ApplyTypeOK
<1>2. Sited /\ ApplyInv /\ [Next]_vars => [A]_vars
  BY <1>1
<1> QED BY <1>2, AlwaysApplies, PTL DEF Spec, RemovesOnlyStale, A

(* No apply drops the private overlay an instance has, or the repositories *)
(* only it names: it syncs a recorded overlay or fails (runPipeline).      *)
THEOREM OverlaysAreKept == Spec => OverlayIsKept
<1> DEFINE A == inst.overlay /\ inst' # inst => inst'.overlay /\ OverlayRepo \subseteq inst'.repos
<1>1. ASSUME ApplyInv, Next, inst.overlay, inst' # inst
      PROVE  inst'.overlay /\ OverlayRepo \subseteq inst'.repos
  <2>1. inst \in Instance /\ inst.saved /\ inst.dir /\ run.kind # "create"
    BY <1>1 DEF ApplyInv, ApplyTypeOK, Commanded
  <2>2. Save
    <3>1. ~Prepare
      <4>1. inst.dir = TRUE
        BY <2>1 DEF Instance
      <4>2. [inst EXCEPT !.dir = TRUE] = inst
        BY <2>1, <4>1 DEF Instance
      <4> QED BY <1>1, <4>2 DEF Prepare
    <3>2. ~Abort
      BY <1>1, <2>1 DEF Abort
    <3> QED BY <1>1, <3>1, <3>2 DEF Next, Apply, Start, Refreshing, Reload, Prepared, StageFails,
       SyncOverlay, Resolve, Cloned, RootFiles, ListWorktrees, HashFiles, CleanUp, TrustRoot, SaveFails,
       Worker, TakeJob, CloneEnds, CloneAgain, jobFrame, fileFrame, trustFrame, Collect, RepoFiles,
       TrustRepo, RefreshWorktree, Kill, Around, applyVars, HostOverlay, AnswerPrompt, CommitOwnFile,
       RemoveClone, StartWorktree, EndWorktree, AttachDetach, outside
  <2>3. run.overlaid /\ OverlayRepo \subseteq run.repos
    BY <1>1, <2>2 DEF Save, ApplyInv, Overlaid, Resolved
  <2> QED BY <1>1, <2>2, <2>3 DEF Save
<1>2. Sited /\ ApplyInv /\ [Next]_vars => [A]_vars
  BY <1>1
<1> QED BY <1>2, AlwaysApplies, PTL DEF Spec, OverlayIsKept, A
=============================================================================
