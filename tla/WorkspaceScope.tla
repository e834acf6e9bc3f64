--------------------------- MODULE WorkspaceScope ----------------------------
(***************************************************************************)
(* Where a command runs and what it acts on from there.  A disk is its     *)
(* directories (a path is a sequence of names), those that have a          *)
(* workspace configuration (config), and those that have an instance's     *)
(* state, with the instance's name in it: Unset where none was written,     *)
(* Bad where the file can't be read.                                        *)
(***************************************************************************)
EXTENDS Integers, FiniteSets, SequencesExt

CONSTANTS Unset, Bad

StateDir == ".niwa"
Worktrees == "worktrees"

HasState(disk, dir) == dir \in DOMAIN disk.state

Parent(dir) == SubSeq(dir, 1, Len(dir) - 1)
Base(dir) == dir[Len(dir)]
Above(dir) == {SubSeq(dir, 1, n) : n \in 0 .. Len(dir)}

Nearest(dirs) == CHOOSE d \in dirs : \A e \in dirs : Len(e) <= Len(d)
Outermost(dirs) == CHOOSE d \in dirs : \A e \in dirs : Len(d) <= Len(e)

(* config.Discover, DiscoverInstance: the nearest at or above, or Unset.      *)
NearestOr(dirs) == IF dirs = {} THEN Unset ELSE Nearest(dirs)
Discover(disk, cwd) == NearestOr(Above(cwd) \cap disk.config)
DiscoverInstance(disk, cwd) == NearestOr(Above(cwd) \cap DOMAIN disk.state)

WorktreeHost(dir) == SubSeq(dir, 1, Len(dir) - 3)
DiscoverWorktree(disk, cwd) ==
    NearestOr({d \in Above(cwd) : /\ Len(d) > 2
                                  /\ d[Len(d) - 1] = Worktrees /\ d[Len(d) - 2] = StateDir
                                  /\ HasState(disk, WorktreeHost(d))})

IsChildOf(root, dir) == Len(dir) = Len(root) + 1 /\ IsPrefix(root, dir)

EnumerateInstances(disk, root) ==
    {d \in disk.dirs : IsChildOf(root, d) /\ Base(d) \in disk.valid /\ HasState(disk, d)}

IsSingleInstanceLayout(disk, root) ==
    /\ EnumerateInstances(disk, root) = {}
    /\ HasState(disk, root) /\ disk.state[root] \notin {Unset, Bad}

(* The root's own metadata counts as the root, as does all of a root that is  *)
(* the instance itself.                                                       *)
IsBelowRoot(disk, root, cwd) ==
    /\ Len(cwd) > Len(root) /\ cwd[Len(root) + 1] # StateDir
    /\ ~IsSingleInstanceLayout(disk, root)

ClassifyCwd(disk, cwd) ==
    LET worktree == DiscoverWorktree(disk, cwd)
        instance == DiscoverInstance(disk, cwd)
        root == Discover(disk, cwd)
        is(class, i, w) == [class |-> class, root |-> root, instance |-> i, worktree |-> w]
    IN  IF worktree # Unset THEN is("worktree", WorktreeHost(worktree), worktree)
        ELSE IF instance # Unset /\ instance \notin disk.config THEN is("instance", instance, Unset)
        ELSE IF root = Unset THEN is("outside", Unset, Unset)
        ELSE IF IsBelowRoot(disk, root, cwd) THEN is("below", Unset, Unset)
        ELSE is("root", Unset, Unset)

-----------------------------------------------------------------------------
(* FindInstance: whose authority record applies at cwd.                       *)
IsEnumeratedInstance(disk, dir) ==
    /\ Base(dir) \in disk.valid /\ dir \in disk.dirs
    /\ Parent(dir) \in disk.config /\ HasState(disk, dir) /\ dir \notin disk.config

Enumerated(disk, cwd) == {d \in Above(cwd) : Len(d) > 0 /\ IsEnumeratedInstance(disk, d)}

FindInstance(disk, cwd) ==
    IF Enumerated(disk, cwd) = {} THEN Unset ELSE Outermost(Enumerated(disk, cwd))

-----------------------------------------------------------------------------
(* What `niwa apply' acts on: nothing where it refuses.                       *)
Refused == [mode |-> "refused", on |-> {}, root |-> Unset]

(* The instances a name stands for; niwa takes the first it reads.            *)
Named(disk, root, name) ==
    {d \in EnumerateInstances(disk, root) : disk.state[d] # Bad /\ disk.state[d] = name}

ResolveNamed(disk, cwd, name) ==
    LET root == Discover(disk, cwd)
    IN  IF root = Unset THEN Refused
        ELSE IF Named(disk, root, name) = {} THEN Refused
        ELSE [mode |-> "named", on |-> {CHOOSE d \in Named(disk, root, name) : TRUE}, root |-> Unset]

ResolveApplyScope(disk, cwd, name) ==
    LET at == ClassifyCwd(disk, cwd)
    IN  IF at.class = "below" THEN Refused
        ELSE IF name # Unset THEN ResolveNamed(disk, cwd, name)
        ELSE IF at.class = "worktree" THEN [mode |-> "worktree", on |-> {at.worktree}, root |-> Unset]
        ELSE IF at.class = "instance" THEN [mode |-> "single", on |-> {at.instance}, root |-> Unset]
        ELSE IF at.class = "root" THEN [mode |-> "all", on |-> EnumerateInstances(disk, at.root), root |-> at.root]
        ELSE Refused

(* By the registry's name for a workspace, from anywhere.                     *)
ResolveRegistryScope(disk, root) ==
    LET instances == EnumerateInstances(disk, root)
    IN  IF instances = {} /\ HasState(disk, root) THEN [mode |-> "all", on |-> {root}, root |-> Unset]
        ELSE [mode |-> "all", on |-> instances, root |-> root]

(* What `niwa destroy' is about to remove, before it checks anything there: an *)
(* instance, one the user picks, or the whole workspace, after its name is      *)
(* given or because it is empty.                                               *)
Nothing == [does |-> "refuse", on |-> {}, landing |-> Unset]
One(dir, landing) == [does |-> "instance", on |-> {dir}, landing |-> landing]

DestroyAtRoot(disk, root, name, force) ==
    LET instances == EnumerateInstances(disk, root)
    IN  IF name = Unset /\ force THEN Nothing
        ELSE IF name # Unset /\ Named(disk, root, name) = {} THEN Nothing
        ELSE IF name # Unset THEN One(CHOOSE d \in Named(disk, root, name) : TRUE, Unset)
        ELSE IF instances = {} THEN [does |-> "empty", on |-> {}, landing |-> Unset]
        ELSE IF Cardinality(instances) = 1 THEN One(CHOOSE d \in instances : TRUE, Unset)
        ELSE [does |-> "pick", on |-> {d \in instances : disk.state[d] # Bad}, landing |-> Unset]

RunDestroy(disk, cwd, arg) ==
    LET at == ClassifyCwd(disk, cwd)
    IN  IF arg.name = Bad \/ at.class = "below" THEN Nothing
        ELSE IF arg.confirm # Unset /\ ~arg.workspace THEN Nothing
        ELSE IF arg.workspace /\ (at.class # "root" \/ arg.name # Unset) THEN Nothing
        ELSE IF arg.workspace
             THEN [does |-> "workspace", on |-> EnumerateInstances(disk, at.root), landing |-> Unset]
        ELSE IF at.class = "instance" /\ arg.name = Unset THEN One(at.instance, at.root)
        ELSE IF at.class = "root" THEN DestroyAtRoot(disk, at.root, arg.name, arg.force)
        ELSE Nothing

-----------------------------------------------------------------------------
(* Which worktrees `niwa worktree destroy' removes: q has a disk, the          *)
(* override of the instance (env), the session mappings of each workspace root *)
(* and the worktree records of each instance.  A mapping has its session's id, *)
(* the first eight characters of it, the handle that may be shown or Unset,    *)
(* the directory it names and when it was made; uuid is FALSE for a worktree's *)
(* record that is read as one.  Ids, prefixes and handles are numbers.         *)
At(function, x, otherwise) == IF x \in DOMAIN function THEN function[x] ELSE otherwise

ResolveInstanceRoot(q) ==
    LET at == ClassifyCwd(q.disk, q.cwd)
    IN  IF q.env # Unset THEN q.env
        ELSE IF at.class \in {"worktree", "instance"} THEN at.instance
        ELSE IF at.root # Unset /\ IsSingleInstanceLayout(q.disk, at.root) THEN at.root
        ELSE Unset

ResolveDestroyScope(q) ==
    [instance |-> ResolveInstanceRoot(q),
     root |-> ClassifyCwd(q.disk, IF q.env # Unset THEN q.env ELSE q.cwd).root]

LoadMappings(q, root) == {m \in At(q.mappings, root, {}) : m.uuid}

(* By the whole id, by the handle, or by the id's beginning without a handle.  *)
MatchMappings(mappings, value) ==
    {m \in mappings : m.id = value \/ m.handle = value \/ (m.handle = Unset /\ m.prefix = value)}

Records(q, instance) == At(q.records, instance, {})
IsLive(record) == record.status \notin {"ended", "abandoned"}
IsWorktreeIDOf(q, instance, value) == \E r \in Records(q, instance) : r.id = value

ResolveDestroyTarget(q, scope, value) ==
    LET matches == MatchMappings(LoadMappings(q, scope.root), value)
        is(kind, m) == [kind |-> kind, mapping |-> m]
    IN  IF IsWorktreeIDOf(q, scope.instance, value)
        THEN is(IF matches = {} THEN "worktree" ELSE "ambiguous", Unset)
        ELSE IF Cardinality(matches) = 1 THEN is("session", CHOOSE m \in matches : TRUE)
        ELSE is(IF matches = {} THEN "none" ELSE "ambiguous", Unset)

(* NewestMappingPerInstance: the later, of one instant the first by its id.    *)
IsNewest(mappings, m) ==
    \A o \in mappings : o.dir = m.dir /\ o # m =>
        o.created < m.created \/ (o.created = m.created /\ m.id < o.id)

CheckSessionInstance(q, root, m) ==
    IF m.dir = Unset \/ ~IsChildOf(root, m.dir) \/ Base(m.dir) = StateDir THEN "refused"
    ELSE IF m.dir \notin q.disk.dirs THEN "gone"
    ELSE IF m.dir \in EnumerateInstances(q.disk, root) /\ IsNewest(LoadMappings(q, root), m) THEN "backed"
    ELSE "refused"

(* DestroySession, and what of an instance's worktrees it takes.              *)
Takes(record, force) == record.kept = "no" \/ (force /\ record.kept = "unforced")
Removal(instance, records, force) ==
    LET taken == {r \in records : Takes(r, force)}
    IN  [removed |-> {<<instance, r.id>> : r \in taken}, exit |-> IF taken = records THEN 0 ELSE 1]
NoRemoval(exit) == [removed |-> {}, exit |-> exit]

ByPath(q, path, force) ==
    LET instance == ResolveInstanceRoot(q)
        there == {r \in Records(q, instance) : IsLive(r) /\ r.dir = path}
    IN  IF instance = Unset THEN NoRemoval(1)
        ELSE IF there = {} THEN NoRemoval(3)
        ELSE Removal(instance, {CHOOSE r \in there : TRUE}, force)

BySession(q, scope, m, force) ==
    LET what == CheckSessionInstance(q, scope.root, m)
    IN  IF force THEN NoRemoval(2)
        ELSE IF what = "refused" THEN NoRemoval(1)
        ELSE IF what = "gone" THEN NoRemoval(0)
        ELSE Removal(m.dir, {r \in Records(q, m.dir) : IsLive(r)}, FALSE)

RunSessionDestroy(q, arg) ==
    LET scope == ResolveDestroyScope(q)
        target == ResolveDestroyTarget(q, scope, arg.value)
    IN  IF (arg.path = Unset) = (arg.value = Unset) THEN NoRemoval(2)
        ELSE IF arg.path # Unset THEN ByPath(q, arg.path, arg.force)
        ELSE IF target.kind = "worktree"
             THEN Removal(scope.instance, {r \in Records(q, scope.instance) : r.id = arg.value}, arg.force)
        ELSE IF target.kind = "session" THEN BySession(q, scope, target.mapping, arg.force)
        ELSE NoRemoval(IF target.kind = "ambiguous" THEN 4 ELSE 3)

-----------------------------------------------------------------------------
(* Where the worktree goes that an agent's hook asks for: h has a disk with    *)
(* clones, the directory its session was launched in (anchor), the one it says *)
(* it is in (cwd), the name it wants split at its slashes, NIWA_WORKTREE_REPO  *)
(* (env), and of each instance what its state and its records say.             *)
DiscoverHookInstance(disk, dir) ==
    LET i == DiscoverInstance(disk, dir)
    IN  IF i \in disk.config /\ ~IsSingleInstanceLayout(disk, i) THEN Unset ELSE i

ResolveHookInstance(disk, anchor, target) ==
    LET own == DiscoverHookInstance(disk, anchor)
        around == {i \in EnumerateInstances(disk, anchor) : IsPrefix(i, target)}
    IN  IF ~{anchor, target} \subseteq disk.dirs THEN Unset
        ELSE IF own # Unset THEN IF IsPrefix(own, target) THEN own ELSE Unset
        ELSE IF anchor \in disk.config /\ around # {} THEN CHOOSE i \in around : TRUE
        ELSE Unset

Group(clone) == Base(Parent(clone))
RepoCandidates(disk, i) ==
    {d \in disk.clones : IsPrefix(i, d) /\ Len(d) = Len(i) + 2 /\ {Group(d), Base(d)} \subseteq disk.valid}

(* defaultHookRepo: the first by its group, then by its name.                  *)
Before(disk, a, b) ==
    disk.rank[Group(a)] < disk.rank[Group(b)] \/ (Group(a) = Group(b) /\ disk.rank[Base(a)] <= disk.rank[Base(b)])
DefaultHookRepo(disk, clones) == CHOOSE a \in clones : \A b \in clones : Before(disk, a, b)

Within(clones, cwd) == {d \in clones : IsPrefix(d, cwd)}

(* What the state says, which nobody hears where it can't be read.             *)
Says(h, i) ==
    IF h.disk.state[i] = Bad THEN [optedOut |-> FALSE, default |-> Unset, lists |-> {}] ELSE h.says[i]

Target(i, repo, slug, by) == [instance |-> i, repo |-> repo, slug |-> slug, by |-> by]
NoTarget == Target(Unset, Unset, <<>>, "nothing")

(* A prefix of k segments names a repository, and the rest the worktree.       *)
Prefixed(h, i, k) ==
    LET rest == SubSeq(h.name, k + 1, Len(h.name))
    IN  IF rest = <<"">> THEN NoTarget ELSE Target(i, h.name[k], rest, "prefix")

(* A prefix that names no clone where the state lists a repository of the name.*)
NamesMissing(lists, name) == Len(name) > 1 /\ (name[1] \in lists \/ (Len(name) > 2 /\ name[2] \in lists))

Around(h, i, names) ==
    {r \in Records(h, i) : IsLive(r) /\ r.repo \in names /\ IsPrefix(r.dir, h.cwd)}
InnermostRepo(records) == (CHOOSE r \in records : \A o \in records : Len(o.dir) <= Len(r.dir)).repo

ResolveHookTarget(h) ==
    LET i == ResolveHookInstance(h.disk, h.anchor, h.cwd)
        clones == RepoCandidates(h.disk, i)
        names == {Base(d) : d \in clones}
        within == Within(clones, h.cwd)
        segments == Len(h.name)
        take(repo, by) == IF repo \in names THEN Target(i, repo, h.name, by) ELSE NoTarget
    IN  IF i = Unset THEN NoTarget
        ELSE IF Says(h, i).optedOut THEN NoTarget
        ELSE IF segments > 2 /\ \E d \in clones : Group(d) = h.name[1] /\ Base(d) = h.name[2]
             THEN Prefixed(h, i, 2)
        ELSE IF segments > 1 /\ h.name[1] \in names THEN Prefixed(h, i, 1)
        ELSE IF NamesMissing(Says(h, i).lists, h.name) THEN NoTarget
        ELSE IF within # {} THEN take(Base(CHOOSE d \in within : TRUE), "cwd")
        ELSE IF Cardinality(clones) = 1 THEN take(CHOOSE n \in names : TRUE, "only")
        ELSE IF Around(h, i, names) # {} THEN take(InnermostRepo(Around(h, i, names)), "worktree")
        ELSE IF clones = {} \/ segments > 1 THEN NoTarget
        ELSE IF h.env # Unset THEN take(h.env, "env")
        ELSE IF Says(h, i).default # Unset THEN take(Says(h, i).default, "config")
        ELSE take(Base(DefaultHookRepo(h.disk, clones)), "first")

(* What the guard of a session knows about where it is.                        *)
NoScope == [instance |-> Unset, repos |-> {}, instances |-> {}, optedOut |-> FALSE, known |-> FALSE]
HookScope(i, repos, instances, optedOut) ==
    [instance |-> i, repos |-> repos, instances |-> instances, optedOut |-> optedOut, known |-> TRUE]
ResolveHookScope(h) ==
    LET i == ResolveHookInstance(h.disk, h.anchor, h.cwd)
    IN  IF i # Unset /\ Says(h, i).optedOut THEN HookScope(i, {}, {}, TRUE)
        ELSE IF i # Unset THEN HookScope(i, {Base(d) : d \in RepoCandidates(h.disk, i)}, {}, FALSE)
        ELSE IF h.anchor \in h.disk.dirs \cap h.disk.config
             THEN HookScope(Unset, {}, EnumerateInstances(h.disk, h.anchor), FALSE)
        ELSE NoScope

(* worktreeguard.Decide: the guard stops `git worktree add', and entering by its path what   *)
(* is not below the instance's worktrees.                                      *)
IsUnderWorktrees(scope, dir) ==
    scope.instance # Unset /\ IsStrictPrefix(scope.instance \o <<StateDir, Worktrees>>, dir)
Refuses(scope, dirs, call) ==
    /\ ~scope.optedOut
    /\ \/ call.tool = "Bash" /\ call.addsWorktree
       \/ call.tool = "EnterWorktree" /\ call.path # Unset
          /\ ~(call.path \in dirs /\ IsUnderWorktrees(scope, call.path))

GuardStops(h, call) ==
    ResolveHookScope(h).known /\ Refuses(ResolveHookScope(h), h.disk.dirs, call)

-----------------------------------------------------------------------------
(* Every instance of a workspace is acted on from its root only, from the      *)
(* root's own metadata, or where the root is the only instance; anywhere else  *)
(* one at most is, the one the command runs in or the one it names.  A root is  *)
(* never taken for an instance of its own.                                     *)
ScopeIsNarrow(disk, cwd, name) ==
    LET scope == ResolveApplyScope(disk, cwd, name)
        at(root) == cwd = root \/ (IsPrefix(root, cwd) /\ cwd[Len(root) + 1] = StateDir)
    IN  /\ scope.mode = "all" => at(scope.root) \/ scope.on = {}
        /\ scope.mode = "all" <=> scope.root # Unset
        /\ scope.mode \in {"single", "worktree"} => name = Unset /\ \A d \in scope.on : IsPrefix(d, cwd)
        /\ scope.mode = "single" => scope.on \cap disk.config = {}
        /\ scope.mode = "named" => \A d \in scope.on : disk.state[d] = name
        /\ Cardinality(scope.on) > 1 => scope.mode = "all"

(* Whatever is planted in an instance, a workspace and instances of it, the     *)
(* record that applies there stays that of the instance, which is one of its    *)
(* workspace's; and where a command takes itself to be in an instance, that     *)
(* one is the instance or in it.                                                *)
PlantingShadowsNothing(disk, cwd, planted) ==
    LET found == FindInstance(disk, cwd)
        at == ClassifyCwd(disk, cwd)
        later == [disk EXCEPT !.config = @ \cup planted.config,
                              !.state = [d \in DOMAIN @ \cup planted.state |-> IF d \in DOMAIN @ THEN @[d] ELSE Unset]]
    IN  found # Unset =>
            /\ IsPrefix(found, cwd) /\ found \notin disk.config
            /\ found \in EnumerateInstances(disk, Parent(found))
            /\ (\A d \in planted.config \cup planted.state : IsStrictPrefix(found, d)) =>
                  FindInstance(later, cwd) = found
            /\ at.class = "instance" => IsPrefix(found, at.instance)

(* What destroy is about to remove is what it was told to: more than one       *)
(* instance by --workspace at a root only, the one it runs in without a name,  *)
(* the one that has the name, and nothing by --force alone.                    *)
DestroyIsMeant(disk, cwd, arg) ==
    LET what == RunDestroy(disk, cwd, arg)
        root == Discover(disk, cwd)
    IN  /\ what.does = "workspace" =>
              arg.workspace /\ arg.name = Unset /\ what.on = EnumerateInstances(disk, root)
        /\ what.does = "empty" =>
              ~arg.force /\ arg.name = Unset /\ EnumerateInstances(disk, root) = {}
        /\ what.does = "instance" =>
              \E d \in what.on :
                  /\ what.on = {d} /\ ~arg.workspace
                  /\ \/ arg.name = Unset /\ IsPrefix(d, cwd)
                     \/ arg.name # Unset /\ disk.state[d] = arg.name
                     \/ arg.name = Unset /\ ~arg.force /\ EnumerateInstances(disk, root) = {d}
                  /\ what.landing # Unset => IsPrefix(d, cwd)
        /\ what.does # "refuse" /\ what.does # "instance" =>
              cwd = root \/ cwd[Len(root) + 1] = StateDir \/ EnumerateInstances(disk, root) = {}

(* A session's teardown is never forced and stays in the one instance its      *)
(* newest mapping names, of the workspace it was asked in; a value that may    *)
(* mean two things removes nothing; only a worktree of the command's own       *)
(* instance is removed by force; and success leaves nothing of what was meant. *)
TeardownIsMeant(q, arg) ==
    LET done == RunSessionDestroy(q, arg)
        scope == ResolveDestroyScope(q)
        matches == MatchMappings(LoadMappings(q, scope.root), arg.value)
        own(x) == x[1] = scope.instance /\ \E r \in Records(q, x[1]) : r.id = x[2] /\ (r.id = arg.value \/ r.dir = arg.path)
    IN  /\ \A x \in done.removed :
              \/ own(x) /\ (matches = {} \/ arg.value = Unset)
              \/ \E m \in matches :
                    /\ matches = {m} /\ ~IsWorktreeIDOf(q, scope.instance, arg.value) /\ ~arg.force
                    /\ x[1] = m.dir /\ m.dir \in EnumerateInstances(q.disk, scope.root)
                    /\ ~\E o \in LoadMappings(q, scope.root) : o.dir = m.dir /\ o.created > m.created
                    /\ \A r \in Records(q, x[1]) : r.id = x[2] => IsLive(r) /\ r.kept = "no"
        /\ Cardinality(done.removed) > 1 => \A x, y \in done.removed : x[1] = y[1]
        /\ done.exit = 0 /\ matches # {} /\ arg.value # Unset =>
              \A m \in matches : m.dir \in q.disk.dirs =>
                  \A r \in Records(q, m.dir) : IsLive(r) => <<m.dir, r.id>> \in done.removed

(* A hook's worktree is of a repository cloned in the instance its session was *)
(* launched in or directly above, where the session still is, whatever is      *)
(* planted elsewhere, but for a child planted in a root that is the instance   *)
(* itself; what it names is what it gets, and a name with a slash is never     *)
(* given a default; and no default is taken where something is set.            *)
HookStaysInItsInstance(h, planted) ==
    LET target == ResolveHookTarget(h)
        i == target.instance
        later == [h.disk EXCEPT !.config = @ \cup planted,
                                !.state = [d \in DOMAIN @ \cup planted |-> At(@, d, Unset)]]
        elsewhere == \A d \in planted :
                        /\ ~IsPrefix(d, h.anchor) /\ ~IsChildOf(h.anchor, d)
                        /\ i \in h.disk.config => ~IsChildOf(i, d)
    IN  target # NoTarget =>
            /\ IsPrefix(i, h.anchor) \/ IsChildOf(h.anchor, i)
            /\ IsPrefix(i, h.cwd) /\ ~Says(h, i).optedOut
            /\ target.repo \in {Base(d) : d \in RepoCandidates(h.disk, i)}
            /\ elsewhere => ResolveHookInstance(later, h.anchor, h.cwd) = i
            /\ Len(h.name) > 1 => target.by \in {"prefix", "cwd", "only", "worktree"}
            /\ target.by = "prefix" =>
                  /\ target.slug # <<>> /\ target.slug # <<"">>
                  /\ \E k \in 1 .. 2 : h.name = SubSeq(h.name, 1, k - 1) \o <<target.repo>> \o target.slug
            /\ target.by # "prefix" => target.slug = h.name
            /\ target.by = "first" =>
                  /\ h.env = Unset /\ Says(h, i).default = Unset
                  /\ ~\E d \in RepoCandidates(h.disk, i) : IsPrefix(d, h.cwd)

(* The guard sees a session where the hook does: it stops nobody who opted     *)
(* out and nobody who enters a worktree of the instance, and has the           *)
(* repository to name that the hook would take.                                *)
GuardAgrees(h, call) ==
    LET target == ResolveHookTarget(h)
        scope == ResolveHookScope(h)
    IN  /\ target # NoTarget => scope.instance = target.instance /\ target.repo \in scope.repos
        /\ GuardStops(h, call) /\ scope.instance # Unset =>
              ~Says(h, scope.instance).optedOut /\ scope.instances = {}
        /\ call.tool = "EnterWorktree" /\ call.path = h.cwd /\ DiscoverWorktree(h.disk, h.cwd) # Unset
              /\ ResolveHookInstance(h.disk, h.anchor, h.cwd) = WorktreeHost(DiscoverWorktree(h.disk, h.cwd)) =>
              ~GuardStops(h, call)
=============================================================================
