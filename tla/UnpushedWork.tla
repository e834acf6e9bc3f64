---------------------------- MODULE UnpushedWork -----------------------------
(***************************************************************************)
(* What destroy finds in an instance's repositories that would be lost     *)
(* with them.  A history is git's: anc[c] the commits c reaches, line[c]   *)
(* those by first parents only, first[c] the first parent, tree[c] each    *)
(* path's version, and has the commits this clone holds.  A remote is what *)
(* it answers now (heads, symref), what the clone keeps of it (tracking,   *)
(* localHead) and which of the calls to it work (reached, fetches).        *)
(***************************************************************************)
EXTENDS Integers, FiniteSets, Sequences

CONSTANT Unset

-----------------------------------------------------------------------------
(* Has a branch's content landed?                                            *)
IsAncestor(h, a, b) == b \in h.has /\ a \in h.anc[b]

Common(h, a, b) == h.anc[a] \cap h.anc[b]
MergeBase(h, a, b) ==
    CHOOSE c \in Common(h, a, b) : \A d \in Common(h, a, b) \ {c} : c \notin h.anc[d]

ChangedPaths(h, a, b) == {p \in DOMAIN h.tree[a] : h.tree[a][p] # h.tree[b][p]}

(* Merged into c, the tip changes nothing of c. *)
MergesToItself(h, c, tip) ==
    /\ Common(h, c, tip) # {}
    /\ \A p \in ChangedPaths(h, MergeBase(h, c, tip), tip) : h.tree[tip][p] = h.tree[c][p]

Touches(h, c, paths) ==
    \E p \in paths : h.first[c] = Unset \/ h.tree[c][p] # h.tree[h.first[c]][p]

LandedByContent(h, tip, def) ==
    /\ Common(h, def, tip) # {}
    /\ LET base == MergeBase(h, def, tip)
           paths == ChangedPaths(h, base, tip)
           since == {c \in h.line[def] \ h.anc[base] : Touches(h, c, paths)}
       IN  paths = {} \/ \E c \in {def} \cup since : MergesToItself(h, c, tip)

-----------------------------------------------------------------------------
(* What was learned of a remote, and what the clone holds once the default    *)
(* branches that could be were fetched.                                       *)
DefaultBranch(r) == IF r.reached /\ r.symref # Unset THEN r.symref ELSE r.localHead

Refreshed(r) ==
    r.reached /\ DefaultBranch(r) # Unset /\ DefaultBranch(r) \in DOMAIN r.heads /\ r.fetches

Tracking(r) ==
    IF Refreshed(r)
    THEN [n \in DOMAIN r.tracking \cup {DefaultBranch(r)} |->
             IF n = DefaultBranch(r) THEN r.heads[n] ELSE r.tracking[n]]
    ELSE r.tracking

DefaultRef(r) ==
    IF DefaultBranch(r) \in DOMAIN Tracking(r) THEN Tracking(r)[DefaultBranch(r)] ELSE Unset

Fetched(h, remotes) ==
    [h EXCEPT !.has = @ \cup UNION {h.anc[DefaultRef(r)] : r \in {x \in remotes : Refreshed(x)}}]

-----------------------------------------------------------------------------
(* A branch, or a detached HEAD whose name is Unset.                          *)
Candidates(h, b, r) ==
    {b.name} \cup {n \in DOMAIN Tracking(r) : b.tip \in h.anc[Tracking(r)[n]]}
             \cup (IF b.upstream # Unset /\ b.upstream.remote = r.name THEN {b.upstream.branch} ELSE {})

LiveHomes(h, b, r) ==
    {n \in Candidates(h, b, r) \ {DefaultBranch(r)} :
        r.reached /\ n \in DOMAIN r.heads /\ IsAncestor(h, b.tip, r.heads[n])}

(* Mutant: a merged pull request's branch is taken for a home that stays. *)
VouchMerged(r, n, forge) ==
    IF ~r.github \/ r.name \notin DOMAIN forge THEN "unverified"
    ELSE IF forge[r.name][n] \in {"none", "open", "merged"} THEN "durable"
    ELSE IF forge[r.name][n] = "closed" THEN "unlanded"
    ELSE "unverified"

(* forge[remote][branch]: the pull requests that have the branch for a head.  *)
Vouch(r, n, forge) ==
    IF ~r.github \/ r.name \notin DOMAIN forge THEN "unverified"
    ELSE IF forge[r.name][n] \in {"none", "open"} THEN "durable"
    ELSE IF forge[r.name][n] \in {"merged", "closed"} THEN "unlanded"
    ELSE "unverified"

Verdicts(h, b, remotes, forge) ==
    UNION {{Vouch(r, n, forge) : n \in LiveHomes(h, b, r)} : r \in remotes}

(* The names a tip was pushed under, the first of which tells what became of  *)
(* it.                                                                       *)
PushedAs(b, r) ==
    (IF b.upstream # Unset /\ b.upstream.remote = r.name THEN <<b.upstream.branch>> ELSE <<>>) \o
    (IF b.name \in DOMAIN Tracking(r) \cup DOMAIN r.heads THEN <<b.name>> ELSE <<>>)

WhyNoHome(h, b, remotes) ==
    LET asked == {i \in DOMAIN remotes : remotes[i].reached /\ PushedAs(b, remotes[i]) # <<>>}
        r == remotes[CHOOSE i \in asked : \A j \in asked : i <= j]
        n == PushedAs(b, r)[1]
        unknown == /\ n \in DOMAIN r.heads /\ r.heads[n] \notin h.has
    IN  IF asked # {} THEN IF unknown THEN "unverified" ELSE "unpushed"
        ELSE IF \E i \in DOMAIN remotes : ~remotes[i].reached THEN "unverified"
        ELSE "local-only"

Landed(h, b, remotes, mergeTree) ==
    \E r \in remotes :
        /\ DefaultRef(r) # Unset
        /\ \/ IsAncestor(h, b.tip, DefaultRef(r))
           \/ mergeTree /\ LandedByContent(h, b.tip, DefaultRef(r))

(* The loss a branch is reported as, or "durable".                            *)
JudgeTip(h, b, remotes, forge, mergeTree) ==
    LET all == {remotes[i] : i \in DOMAIN remotes}
        verdicts == Verdicts(h, b, all, forge)
    IN  IF Landed(h, b, all, mergeTree) \/ "durable" \in verdicts THEN "durable"
        ELSE IF "unverified" \in verdicts THEN "unverified"
        ELSE IF verdicts # {} THEN "unlanded"
        ELSE WhyNoHome(h, b, remotes)

-----------------------------------------------------------------------------
(* A repository, its working trees and the checks that work there.           *)
RemotesOf(repo) == IF repo.remotesWork THEN repo.remotes ELSE <<>>

Judge(repo, h, b) == JudgeTip(h, b, RemotesOf(repo), repo.forge, repo.mergeTree)

ScanWorkingTree(repo, h, tree) ==
    LET head == [name |-> Unset, tip |-> tree.head, upstream |-> Unset]
        held == \E b \in repo.branches : tree.head \in h.anc[b.tip]
    IN  {l \in {"scan-error"} : ~tree.statusWorks \/ (tree.detached /\ ~tree.headWorks)}
        \cup {l \in {"dirty"} : tree.statusWorks /\ tree.dirty}
        \cup {l \in {"untracked"} : tree.statusWorks /\ tree.untracked}
        \cup {l \in {"detached"} : tree.headWorks /\ tree.detached /\ ~held /\ Judge(repo, h, head) # "durable"}

ScanBranches(repo, h) ==
    IF ~repo.branchesWork THEN {"scan-error"}
    ELSE {Judge(repo, h, b) : b \in repo.branches} \ {"durable"}

ChecksFailed(repo) ==
    IF ~repo.worktreesWork \/ ~repo.remotesWork \/ repo.stashes = "unknown" THEN {"scan-error"} ELSE {}
ExternalTrees(repo) ==
    IF repo.worktreesWork /\ \E t \in repo.trees : ~t.primary /\ ~t.inside THEN {"external-wt"} ELSE {}
ScanWorkingTrees(repo, h) ==
    UNION {ScanWorkingTree(repo, h, t) : t \in {x \in repo.trees : x.primary \/ (repo.worktreesWork /\ x.inside)}}
Stashes(repo) == IF repo.stashes = "some" THEN {"stash"} ELSE {}

ScanRepo(repo) ==
    LET h == Fetched(repo.history, {RemotesOf(repo)[i] : i \in DOMAIN RemotesOf(repo)})
    IN  ChecksFailed(repo) \cup ExternalTrees(repo) \cup ScanWorkingTrees(repo, h)
        \cup ScanBranches(repo, h) \cup Stashes(repo)

(* The repositories that are looked at: those a walk meets outside the        *)
(* instance's own metadata, in directories it can read, and in no other.      *)
IsBelow(path, dir) == Len(path) > Len(dir) /\ SubSeq(path, 1, Len(dir)) = dir

FindPrimaryRepos(dirs) ==
    {path \in DOMAIN dirs :
        /\ dirs[path].git # Unset /\ path # <<".niwa">>
        /\ \A above \in DOMAIN dirs : IsBelow(path, above) =>
              above # <<".niwa">> /\ dirs[above].git = Unset /\ dirs[above].readable}

ScanInstance(instance) ==
    IF ~instance.stateReads THEN {"skipped"}
    ELSE UNION {ScanRepo(instance.dirs[path].git) : path \in FindPrimaryRepos(instance.dirs)}

-----------------------------------------------------------------------------
(* What a remote keeps, as far as it was asked: its default branch, and the   *)
(* branches no pull request is done with.                                     *)
KeptBy(h, r, forge) ==
    (IF DefaultRef(r) = Unset THEN {} ELSE h.anc[DefaultRef(r)]) \cup
    UNION {h.anc[r.heads[n]] : n \in {m \in DOMAIN r.heads :
               r.reached /\ r.github /\ r.name \in DOMAIN forge /\ forge[r.name][m] \in {"none", "open"}}}

(* Each path's version at the tip is in a commit some remote keeps. *)
TipIsKept(repo, h, tip) ==
    \A p \in DOMAIN h.tree[tip] :
        \E i \in DOMAIN RemotesOf(repo) : \E c \in KeptBy(h, RemotesOf(repo)[i], repo.forge) :
            h.tree[c][p] = h.tree[tip][p]

(* A repository with nothing to report was looked at whole, and everything    *)
(* its branches and working trees have is kept elsewhere.                     *)
CleanIsKept(repo) ==
    LET h == Fetched(repo.history, {RemotesOf(repo)[i] : i \in DOMAIN RemotesOf(repo)})
    IN  ScanRepo(repo) = {} =>
            /\ repo.worktreesWork /\ repo.remotesWork /\ repo.branchesWork /\ repo.stashes = "none"
            /\ \A b \in repo.branches : TipIsKept(repo, h, b.tip)
            /\ \A t \in repo.trees :
                  /\ (t.primary \/ t.inside) /\ t.statusWorks /\ ~t.dirty /\ ~t.untracked
                  /\ t.detached => \/ TipIsKept(repo, h, t.head)
                                   \/ \E b \in repo.branches : t.head \in h.anc[b.tip]

(* A loss is what it is called: one that could not be verified has a check    *)
(* that could not be made; a branch said to be on no remote has none of its    *)
(* name at any, and all answered; one whose pull request is done with is at a  *)
(* remote that says so; and one that was not pushed is not where it was, or    *)
(* the clone has what is there.                                                *)
LossIsWhatItSays(repo) ==
    LET all == {RemotesOf(repo)[i] : i \in DOMAIN RemotesOf(repo)}
        h == Fetched(repo.history, all)
        answers(r) == r.github /\ r.name \in DOMAIN repo.forge
    IN  \A b \in repo.branches :
            LET loss == Judge(repo, h, b)
            IN  /\ loss = "unverified" =>
                      \E r \in all : \/ ~r.reached
                                     \/ \E n \in DOMAIN r.heads :
                                           \/ r.heads[n] \notin h.has \/ ~answers(r)
                                           \/ repo.forge[r.name][n] \notin {"none", "open", "merged", "closed"}
                /\ loss = "local-only" => \A r \in all : r.reached /\ b.name \notin DOMAIN r.heads
                /\ loss = "unlanded" =>
                      \E r \in all : r.reached /\ \E n \in DOMAIN r.heads :
                          b.tip \in h.anc[r.heads[n]] /\ repo.forge[r.name][n] \in {"merged", "closed"}
                /\ loss = "unpushed" =>
                      \E r \in all : r.reached /\ PushedAs(b, r) # <<>> /\
                          LET n == PushedAs(b, r)[1] IN n \in DOMAIN r.heads => r.heads[n] \in h.has

(* An instance with nothing to report: so has each repository that is not in   *)
(* its metadata, in another repository or out of sight.                        *)
CleanInstanceIsKept(instance) ==
    ScanInstance(instance) = {} =>
        /\ instance.stateReads
        /\ \A path \in DOMAIN instance.dirs :
              instance.dirs[path].git # Unset =>
                  \/ path = <<".niwa">> \/ IsBelow(path, <<".niwa">>)
                  \/ \E above \in DOMAIN instance.dirs :
                        /\ IsBelow(path, above)
                        /\ instance.dirs[above].git # Unset \/ ~instance.dirs[above].readable
                  \/ ScanRepo(instance.dirs[path].git) = {} /\ CleanIsKept(instance.dirs[path].git)
=============================================================================
