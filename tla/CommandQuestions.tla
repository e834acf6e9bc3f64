-------------------------- MODULE CommandQuestions ---------------------------
(***************************************************************************)
(* What is asked of UnpushedWork, WorkspaceScope, Workspaces and           *)
(* CodexTrust, and what each of their answers has to be.                   *)
(***************************************************************************)
EXTENDS Asking, Integers, Sequences, FiniteSets, TLC

CONSTANTS Unset, Bad

U == INSTANCE UnpushedWork
W == INSTANCE WorkspaceScope
D == INSTANCE Workspaces
X == INSTANCE CodexTrust

-----------------------------------------------------------------------------
(* A branch, commit 4, that left the default branch, commits 1 to 3, at its    *)
(* first or second commit; the third may be a merge of it.                     *)
LOCAL Paths == {"p", "q"}
LOCAL Branched(fork, merged, t2, t3, t4) ==
    LET own == 1 .. fork \cup {4}
    IN  [anc |-> <<{1}, {1, 2}, {1, 2, 3} \cup IF merged THEN own ELSE {}, own>>,
         line |-> <<{1}, {1, 2}, {1, 2, 3}, own>>,
         first |-> <<Unset, 1, 2, fork>>, has |-> 1 .. 4,
         tree |-> <<[p \in Paths |-> 0], t2, t3, t4>>]

LOCAL Origin(heads, tracking) ==
    [name |-> "origin", reached |-> TRUE, symref |-> "main", localHead |-> Unset,
     heads |-> heads, tracking |-> tracking, fetches |-> TRUE, github |-> TRUE]
LOCAL Branch(name, tip) == [name |-> name, tip |-> tip, upstream |-> Unset]
LOCAL Tree == [primary |-> TRUE, inside |-> TRUE, statusWorks |-> TRUE, dirty |-> FALSE,
               untracked |-> FALSE, detached |-> FALSE, headWorks |-> TRUE, head |-> 3]
LOCAL Repo(history, branches, remotes, forge) ==
    [history |-> history, branches |-> branches, remotes |-> remotes, forge |-> forge, mergeTree |-> TRUE,
     trees |-> {Tree}, worktreesWork |-> TRUE, remotesWork |-> TRUE, branchesWork |-> TRUE, stashes |-> "none"]

AskLanded ==
    /\ Taken("landed")
    /\ \E fork \in 1 .. 2, merged, mergeTree \in BOOLEAN, t2, t3, t4 \in [Paths -> 0 .. 2] :
          LET h == Branched(fork, merged, t2, t3, t4)
              r == Origin("main" :> 3, "main" :> 2)
          IN  Put([Repo(h, {Branch("b", 4)}, <<r>>, <<>>) EXCEPT !.mergeTree = mergeTree])

(* A branch, commit 3, whose changes are on no default branch, and what        *)
(* became of it where it was pushed: commit 4 is on top of it, commit 5 too    *)
(* and not in the clone.                                                       *)
LOCAL Loose ==
    [anc |-> <<{1}, {1, 2}, {1, 3}, {1, 3, 4}, {1, 3, 5}>>, line |-> <<{1}, {1, 2}, {1, 3}, {1, 3, 4}, {1, 3, 5}>>,
     first |-> <<Unset, 1, 1, 3, 3>>, has |-> 1 .. 4, tree |-> [c \in 1 .. 5 |-> [p \in {"p"} |-> c]]]

LOCAL Maybe(name, commits) == {<<>>} \cup {name :> c : c \in commits}
LOCAL Pulls(state) == [origin |-> [n \in {"main", "b", "c"} |-> state]]
LOCAL Second(reached, heads) ==
    [Origin(heads, <<>>) EXCEPT !.name = "fork", !.reached = reached, !.symref = Unset, !.github = FALSE]

AskHomes ==
    /\ Taken("homes")
    /\ \E reached, github, fetches \in BOOLEAN, symref, localHead \in {Unset, "main"}, main \in {2, 3},
          b \in Maybe("b", {1, 3, 4, 5}), c \in Maybe("c", {4}), tracked \in Maybe("main", {1}), pushed \in Maybe("b", {1, 3}),
          upstream \in {Unset, [remote |-> "origin", branch |-> "c"]},
          forge \in {<<>>} \cup {Pulls(s) : s \in {"none", "merged", "closed", "other"}},
          others \in {<<>>, <<Second(FALSE, <<>>)>>, <<Second(TRUE, "b" :> 1)>>} :
          LET r == [Origin(("main" :> main) @@ b @@ c, tracked @@ pushed) EXCEPT
                       !.reached = reached, !.github = github, !.fetches = fetches,
                       !.symref = symref, !.localHead = localHead]
          IN  /\ symref = Unset \/ localHead = Unset
              /\ github \/ forge = <<>>
              /\ ~fetches => tracked # <<>>
              /\ Put(Repo(Loose, {[Branch("b", 3) EXCEPT !.upstream = upstream]}, <<r>> \o others, forge))

(* A repository of which this and that can't be looked at, with one branch     *)
(* that a remote keeps and one it may have beside.                             *)
LOCAL Kept == Origin(("main" :> 2) @@ ("b" :> 3), "main" :> 2)
LOCAL StatusOf ==
    {[works |-> FALSE, dirty |-> FALSE, untracked |-> FALSE]} \cup [works : {TRUE}, dirty : BOOLEAN, untracked : BOOLEAN]
LOCAL HeadOf ==
    {[detached |-> FALSE, works |-> TRUE, at |-> 3]} \cup [detached : {TRUE}, works : {FALSE}, at : {4}]
        \cup [detached : {TRUE}, works : {TRUE}, at : {1, 3, 4}]
LOCAL Linked ==
    {{}} \cup {{[Tree EXCEPT !.primary = FALSE, !.inside = i, !.dirty = d]} : i, d \in BOOLEAN}
         \cup {{[Tree EXCEPT !.primary = FALSE, !.inside = i, !.detached = TRUE, !.head = 4]} : i \in BOOLEAN}

AskScan ==
    /\ Taken("scan")
    /\ \E w, r, b \in BOOLEAN, stashes \in {"none", "some", "unknown"}, s \in StatusOf, h \in HeadOf,
          linked \in Linked, beside \in {{}, {Branch("x", 4)}} :
          LET tree == [Tree EXCEPT !.statusWorks = s.works, !.dirty = s.dirty, !.untracked = s.untracked,
                                   !.detached = h.detached, !.headWorks = h.works, !.head = h.at]
          IN  Put([Repo(Loose, {Branch("b", 3)} \cup beside, <<Kept>>, Pulls("open")) EXCEPT
                      !.trees = {tree} \cup linked, !.worktreesWork = w, !.remotesWork = r,
                      !.branchesWork = b, !.stashes = stashes])

(* Where repositories may be in an instance: in its metadata, in another one,  *)
(* in a directory that can't be read.                                          *)
LOCAL Found == {Unset} \cup {Repo(Loose, bs, <<Kept>>, Pulls("open")) : bs \in {{Branch("b", 3)}, {Branch("x", 4)}}}
AskInstance ==
    /\ Taken("instance")
    /\ \E reads \in BOOLEAN, a, ab, m, mt \in [git : Found, readable : BOOLEAN] :
          Put([stateReads |-> reads,
               dirs |-> (<<>> :> [git |-> Unset, readable |-> TRUE]) @@ (<<"a">> :> a) @@ (<<"a", "b">> :> ab)
                        @@ (<<".niwa">> :> m) @@ (<<".niwa", "t">> :> mt)])

-----------------------------------------------------------------------------
(* Directories in and around a workspace, and what may be there.               *)
LOCAL Root == <<"w">>
LOCAL InA == <<"w", "a">>
LOCAL InB == <<"w", "b">>
LOCAL Repository == <<"w", "a", "x">>
LOCAL InRepository == <<"w", "a", "x", "y">>
LOCAL Worktree == <<"w", "a", ".niwa", "worktrees", "t">>
LOCAL Dirs == {<<"o">>, Root, <<"w", ".niwa">>, InA, InB, <<"w", "c">>, Repository, InRepository, Worktree}

LOCAL States ==
    {s @@ a @@ b @@ x : s \in {<<>>} \cup {Root :> n : n \in {Unset, "w", Bad}},
        a \in {<<>>} \cup {InA :> n : n \in {"a", Bad}}, b \in {<<>>} \cup {InB :> n : n \in {"b", "a"}},
        x \in {<<>>, Repository :> "a"}}
LOCAL Disk(config, state) == [dirs |-> Dirs, config |-> config, state |-> state, valid |-> {"a", "b", "x", "y"}]

AskScope ==
    /\ Taken("scope")
    /\ \E config \in SUBSET {Root, InA, Repository}, state \in States, cwd \in Dirs,
          name \in {Unset, "a"}, fake \in {{Repository}, {Repository, InRepository}} :
          Put([disk |-> Disk(config, state), cwd |-> cwd, name |-> name,
               planted |-> [config |-> {Repository}, state |-> fake]])

LOCAL Arguments ==
    [name : {Unset, Bad, "a"}, force : BOOLEAN, workspace : {FALSE}, confirm : {Unset}]
    \cup [name : {Unset, "a"}, force : {FALSE}, workspace : {TRUE}, confirm : {Unset, "w"}]
    \cup [name : {Unset}, force : {FALSE}, workspace : {FALSE}, confirm : {"w"}]

AskDestroy ==
    /\ Taken("destroy")
    /\ \E config \in SUBSET {Root, InA}, state \in States, cwd \in Dirs, arg \in Arguments :
          Put([disk |-> Disk(config, state), cwd |-> cwd, arg |-> arg])

(* Two sessions that may have one handle or one beginning, and what the        *)
(* instances have of worktrees.                                                *)
LOCAL First(handle, dir) == [id |-> 11, prefix |-> 1, handle |-> handle, dir |-> dir, created |-> 1, uuid |-> TRUE]
LOCAL Later == {[id |-> 12, prefix |-> 1, handle |-> h, dir |-> InA, created |-> t, uuid |-> u] :
                    h \in {Unset, 1}, t \in 1 .. 2, u \in BOOLEAN}
LOCAL Record(id, status, kept) == [id |-> id, status |-> status, kept |-> kept, dir |-> Worktree, repo |-> "x"]
LOCAL Standing ==
    {[cwd |-> d, env |-> Unset] : d \in {<<"o">>, Root, <<"w", "c">>, InA}} \cup {[cwd |-> Root, env |-> InA]}
LOCAL Values ==
    [value : {1, 11}, path : {Unset}, force : BOOLEAN] \cup [value : {Unset}, path : {Worktree}, force : BOOLEAN]
    \cup [value : {Unset, 1}, path : {Unset, Worktree}, force : {FALSE}]
LOCAL Asked(state, at, sessions, records) ==
    [disk |-> Disk({Root}, state), cwd |-> at.cwd, env |-> at.env, mappings |-> (Root :> sessions),
     records |-> (InA :> records) @@ (InB :> {Record(1, "active", "no")})]

AskTeardown ==
    /\ Taken("teardown")
    /\ \E state \in {(Root :> "w"), (Root :> Unset) @@ (InA :> "a") @@ (InB :> "b")}, at \in Standing,
          handle \in {Unset, 1}, dir \in {Unset, Root, InA, InB, <<"w", "d">>}, later \in {{}} \cup {{m} : m \in Later},
          own \in {{}} \cup {{Record(1, s, k)} : s \in {"active", "ended"}, k \in {"no", "unforced"}},
          beside \in {{}} \cup {{[Record(3, "active", k) EXCEPT !.dir = InA]} : k \in {"no", "always"}}, arg \in Values :
          /\ later = {} \/ beside = {}
          /\ Put([q |-> Asked(state, at, {First(handle, dir)} \cup later, own \cup beside), arg |-> arg])

(* Clones of one instance, two of one name.                                    *)
LOCAL CloneX == <<"w", "a", "g", "x">>
LOCAL CloneY == <<"w", "a", "f", "y">>
LOCAL OtherX == <<"w", "a", "h", "x">>
LOCAL InCloneX == <<"w", "a", "g", "x", "s">>
LOCAL HookDirs == {<<"o">>, Root, InA, InB, CloneX, InCloneX, CloneY, OtherX, Worktree}
LOCAL HookDisk(state, clones) ==
    [dirs |-> HookDirs, config |-> {Root}, state |-> state, valid |-> {"a", "b", "f", "g", "h", "x", "y"},
     clones |-> clones, rank |-> [f |-> 1, g |-> 2, h |-> 3, x |-> 4, y |-> 5]]
LOCAL Saying ==
    [optedOut : {FALSE}, default : {Unset, "x", "z"}, lists : {{}, {"m", "x"}}]
    \cup [optedOut : {TRUE}, default : {Unset}, lists : {{}}]

AskHook ==
    /\ Taken("hook")
    /\ \E state \in {(Root :> Unset) @@ (InA :> "a") @@ (InB :> "b"), (Root :> "w") @@ (InA :> Bad), Root :> "w"},
          clones \in {{}, {CloneX}, {CloneX, CloneY}, {CloneX, CloneY, OtherX}},
          anchor \in {Unset, Root, InA, CloneX}, cwd \in {Root, InA, InB, InCloneX, Worktree},
          name \in {<<"t">>, <<"x", "t">>, <<"x", "">>, <<"g", "x", "t">>, <<"z", "x", "t">>, <<"m", "t">>},
          env \in {Unset, "y", "z"}, says \in Saying, repo \in {Unset, "y", "z"} :
          Put([disk |-> HookDisk(state, clones), anchor |-> anchor, cwd |-> cwd, name |-> name, env |-> env,
               says |-> [i \in {Root, InA, InB} |-> says],
               records |-> IF repo = Unset THEN <<>> ELSE (InA :> {[Record(1, "active", "no") EXCEPT !.repo = repo]})])

-----------------------------------------------------------------------------
(* What niwa init is told, and the world it meets: mostly one thing is amiss.   *)
LOCAL Named(name, root) == name :> [root |-> root, source |-> Unset]
LOCAL Registries == {<<>>, Named("w", "elsewhere"), ("w" :> [root |-> "elsewhere", source |-> "source"]), Named("d", "elsewhere")}
LOCAL Told ==
    [name : {Unset, "w", Bad}, from : {Unset, "source"}, bootstrap : BOOLEAN, noBootstrap : BOOLEAN, rebind : BOOLEAN,
     overlay : BOOLEAN, noOverlay : BOOLEAN, flags : BOOLEAN]
LOCAL Fine == {"loads", "github", "parses", "makes", "scaffolds", "creates", "opens", "commits",
               "lands", "saves", "stateSaves", "loadsAfter", "overlayClones"}
LOCAL World(amiss, there, inside, registry, new, materializes, terminal, answer) ==
    [f \in Fine |-> f \notin amiss]
    @@ [there |-> there, inside |-> inside, root |-> "here", registry |-> registry, meanwhile |-> new @@ registry,
        materializes |-> materializes, terminal |-> terminal, answer |-> answer, repo |-> "r", declares |-> "d"]

AskInit ==
    /\ Taken("init")
    /\ \E there \in {"nothing", "other", "niwa", "workspace"}, inside, terminal \in BOOLEAN,
          materializes \in {"all", "unmarked", "fails"}, answer \in {"bootstrap", "declined", "eof"} :
          /\ terminal \/ answer = "declined"
          /\ materializes # "unmarked" => answer = "declined" /\ ~terminal
          /\ inside => there = "nothing"
          /\ \E told \in Told, amiss \in {{}} \cup (IF inside THEN {} ELSE {{f} : f \in Fine}) :
             /\ amiss # {} => ~told.noBootstrap /\ told.name # Bad
             /\ there = "nothing" => told.name # Unset \/ (told.bootstrap /\ told.from # Unset)
             /\ told.noOverlay \/ told.flags => amiss = {} /\ terminal = (answer # "declined")
             /\ \E registry \in Registries, new \in {<<>>, Named("w", "third"), Named("x", "third")} :
                /\ amiss # {} \/ told.noOverlay \/ told.flags => new = <<>>
                /\ Put([told |-> told,
                        world |-> World(amiss, there, inside, registry, new, materializes, terminal, answer)])

-----------------------------------------------------------------------------
(* Instances 1 and 2 and directory 3, and a command that acts on one of them.  *)
LOCAL Others ==
    {o \in [dir : 1 .. 3, locks : D!Time, makes : D!Time, writes : D!Time, done : D!Time] :
        o.makes <= o.writes /\ o.writes <= o.done /\ (o.locks <= o.makes \/ o.locks = D!Never)}

AskWipe ==
    /\ Taken("wipe")
    /\ \E o \in Others, listed \in SUBSET {1, 2}, plain \in SUBSET {3}, bad \in SUBSET {1},
          nested \in BOOLEAN, confirm \in {Unset, "w", "other"}, s \in {"idle", "running", "unlisted", "refused"} :
          /\ o.dir \in listed => o.makes = D!LockAll /\ o.writes = D!LockAll
          /\ o.locks = D!Never => o.dir \notin listed
          /\ bad \subseteq listed
          /\ Put([w |-> [name |-> "w", listed |-> listed, plain |-> plain,
                         nested |-> IF nested THEN bad ELSE {}, stubborn |-> IF nested THEN {} ELSE bad,
                         owned |-> {1}, running |-> IF s = "running" THEN {1} ELSE {},
                         sessionsList |-> s # "unlisted", refused |-> IF s = "refused" THEN {2} ELSE {}],
                  other |-> o,
                  who |-> [confirm |-> confirm, terminal |-> TRUE, typed |-> "other", keepSessions |-> FALSE]])

-----------------------------------------------------------------------------
(* Roots 1 to 3, two of which may be one directory, and what the file has of   *)
(* the keys of two of them beside other content.                               *)
LOCAL About(key) ==
    LET has(shape, trust) == [key |-> key, shape |-> shape, trust |-> trust]
    IN  {<<>>, <<has("header", FALSE)>>, <<has("inline", TRUE)>>, <<has("below", FALSE)>>, <<has("sealed", TRUE)>>}
        \cup {<<has("header", TRUE)>> \o b : b \in {<<>>, <<has("below", FALSE)>>}}
LOCAL Other == [key |-> Unset, shape |-> "header", trust |-> FALSE]

AskCodex ==
    /\ Taken("codex")
    /\ \E roots, conflicted \in SUBSET (1 .. 3), third \in {Unset, 2}, recorded \in SUBSET (1 .. 2),
          a \in About(1), b \in About(2), works \in {"all", "name", "lock", "read", "parse", "write"} :
          /\ works # "all" => third = Unset
          /\ X!Valid(a \o <<Other>> \o b)
          /\ Put([req |-> [roots |-> roots, conflicted |-> conflicted, resolves |-> <<1, 2, third>>, recorded |-> recorded],
                  file |-> [doc |-> a \o <<Other>> \o b, named |-> works # "name",
                            locks |-> works # "lock", reads |-> works # "read",
                            parses |-> works # "parse", writes |-> works # "write"]])

-----------------------------------------------------------------------------
Topics == {"landed", "homes", "scan", "instance", "scope", "destroy", "teardown", "hook", "wipe", "codex", "init"}

Ask ==
    \/ AskLanded \/ AskHomes \/ AskScan \/ AskInstance
    \/ AskScope \/ AskDestroy \/ AskTeardown \/ AskHook
    \/ AskWipe \/ AskCodex \/ AskInit

RepoIsRight(repo) == U!CleanIsKept(repo) /\ U!LossIsWhatItSays(repo)

ScopeIsRight(q) == W!ScopeIsNarrow(q.disk, q.cwd, q.name) /\ W!PlantingShadowsNothing(q.disk, q.cwd, q.planted)

HookIsRight(h) ==
    /\ \A dir \in {InCloneX, Worktree, <<"o">>, InB} : W!HookStaysInItsInstance(h, {dir})
    /\ \A call \in [tool : {"Bash"}, addsWorktree : {TRUE}] \cup [tool : {"EnterWorktree"}, path : {Unset, h.cwd}] :
          W!GuardAgrees(h, call)

WipeIsRight(q) ==
    /\ D!WipeIsWhole(q.w, q.other, q.who)
    /\ D!RootIsKept(q.w, q.other, D!RunDestroyWorkspace(q.w, q.other, q.who))
    /\ q.w.listed = {} => D!RootIsKept(q.w, q.other, D!RunDestroyEmptyWorkspace(q.w, q.other))

CodexIsRight(q) ==
    X!OthersEntriesStay(q.req, q.file) /\ X!RecordIsHonest(q.req, q.file) /\ X!TrustIsSettled(q.req, q.file)

IsRight(q) ==
    /\ IsAsked("landed") => RepoIsRight(q)
    /\ IsAsked("homes") => RepoIsRight(q)
    /\ IsAsked("scan") => RepoIsRight(q)
    /\ IsAsked("instance") => U!CleanInstanceIsKept(q)
    /\ IsAsked("scope") => ScopeIsRight(q)
    /\ IsAsked("destroy") => W!DestroyIsMeant(q.disk, q.cwd, q.arg)
    /\ IsAsked("teardown") => W!TeardownIsMeant(q.q, q.arg)
    /\ IsAsked("hook") => HookIsRight(q)
    /\ IsAsked("wipe") => WipeIsRight(q)
    /\ IsAsked("codex") => CodexIsRight(q)
    /\ IsAsked("init") => D!InitIsWhole(q.told, q.world)
=============================================================================
