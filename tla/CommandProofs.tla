---------------------------- MODULE CommandProofs ----------------------------
(***************************************************************************)
(* What the commands promise wherever they are asked: of every repository, *)
(* history and instance (UnpushedWork), on every disk and from every        *)
(* directory of it (WorkspaceScope), for every other command a wipe meets   *)
(* and every world niwa init is run in (Workspaces).                        *)
(***************************************************************************)
EXTENDS CommandQuestions, TLAPS, WellFoundedInduction, FiniteSetTheorems

(* Numbers have a least one.                                                 *)
LEMMA LeastOf ==
    ASSUME NEW S, S \subseteq Nat, S # {}
    PROVE  \E i \in S : \A j \in S : i <= j
<1> DEFINE R == OpToRel(<, Nat)
<1>1. IsWellFoundedOn(R, Nat)
    BY NatLessThanWellFounded
<1>2. \A x, y \in Nat : y < x => <<y, x>> \in R
    BY DEF OpToRel
<1> HIDE DEF R
<1>3. PICK x \in S : \A y \in S : <<y, x>> \notin R
    BY <1>1, WFMin
<1>4. ASSUME NEW y \in S PROVE x <= y
    <2>1. x \in Nat /\ y \in Nat
        OBVIOUS
    <2>2. ~(y < x)
        BY <1>2, <1>3, <2>1
    <2> QED BY <2>1, <2>2
<1> QED BY <1>3, <1>4

-----------------------------------------------------------------------------
(* UnpushedWork: niwa worktree destroy and niwa destroy refuse to lose work.  *)

(* A history as git has it: what a commit reaches reaches no more than it does, its first parents *)
(* are among it, and no commits reach one another for ever.                                      *)
Descends(h, Commit) == {p \in Commit \X Commit : p[2] \in h.anc[p[1]] /\ p[1] # p[2]}
IsHistory(h, Commit, Path) ==
    /\ h = [anc |-> h.anc, line |-> h.line, first |-> h.first, has |-> h.has, tree |-> h.tree]
    /\ \A c \in Commit : h.anc[c] \subseteq Commit /\ h.line[c] \subseteq h.anc[c] /\ DOMAIN h.tree[c] = Path
    /\ \A c \in Commit : c \in h.anc[c]
    /\ \A c \in Commit : \A d \in h.anc[c] : h.anc[d] \subseteq h.anc[c]
    /\ IsWellFoundedOn(Descends(h, Commit), Commit)

IsRemote(r, Commit) ==
    /\ \A n \in DOMAIN r.heads : r.heads[n] \in Commit
    /\ \A n \in DOMAIN r.tracking : r.tracking[n] \in Commit

IsRepo(repo, Commit, Path) ==
    /\ IsHistory(repo.history, Commit, Path) /\ Unset \notin Commit
    /\ \A i \in DOMAIN repo.remotes : IsRemote(repo.remotes[i], Commit)
    /\ DOMAIN repo.remotes \subseteq Nat
    /\ \A b \in repo.branches : b.tip \in Commit
    /\ \A t \in repo.trees : t.detached /\ t.headWorks => t.head \in Commit
    /\ repo.stashes \in {"none", "some", "unknown"}

(* The merge base git names of two commits is one that both reach.           *)
LEMMA MergeBaseIs ==
    ASSUME NEW h, NEW Commit, NEW Path, IsHistory(h, Commit, Path), NEW a \in Commit, NEW b \in Commit, U!Common(h, a, b) # {}
    PROVE  U!MergeBase(h, a, b) \in U!Common(h, a, b)
<1>1. U!Common(h, a, b) \subseteq Commit
    BY DEF IsHistory, U!Common
<1>2. PICK c \in U!Common(h, a, b) : \A d \in U!Common(h, a, b) : <<d, c>> \notin Descends(h, Commit)
    <2> DEFINE R == Descends(h, Commit)
               T == U!Common(h, a, b)
    <2>1. IsWellFoundedOn(R, Commit) /\ T \subseteq Commit /\ T # {}
        BY <1>1 DEF IsHistory
    <2> HIDE DEF R, T
    <2>2. \E x \in T : \A y \in T : <<y, x>> \notin R
        BY <2>1, WFMin
    <2> QED BY <2>2 DEF R, T
<1>3. \A d \in U!Common(h, a, b) \ {c} : c \notin h.anc[d]
    BY <1>1, <1>2 DEF Descends
<1> QED BY <1>2, <1>3 DEF U!MergeBase

SameAs(h, c, tip, p) == h.tree[c][p] = h.tree[tip][p]

(* What landed by its content is, path by path, in a commit the default      *)
(* branch reaches (workspace/durable.go).                                    *)
LEMMA LandedIsKept ==
    ASSUME NEW h, NEW Commit, NEW Path, IsHistory(h, Commit, Path), NEW tip \in Commit, NEW def \in Commit,
           U!LandedByContent(h, tip, def), NEW p \in Path
    PROVE  \E c \in h.anc[def] : h.tree[c][p] = h.tree[tip][p]
<1> DEFINE base == U!MergeBase(h, def, tip)
           paths == U!ChangedPaths(h, base, tip)
           since == {c \in h.line[def] \ h.anc[base] : U!Touches(h, c, paths)}
<1>1. U!Common(h, def, tip) # {} /\ (paths = {} \/ \E c \in {def} \cup since : U!MergesToItself(h, c, tip))
    BY DEF U!LandedByContent
<1>2. base \in U!Common(h, def, tip)
    BY <1>1, MergeBaseIs
<1>3. base \in h.anc[def] /\ base \in Commit
    BY <1>2 DEF U!Common, IsHistory
<1>4. \A b \in Commit : p \notin U!ChangedPaths(h, b, tip) => h.tree[b][p] = h.tree[tip][p]
    BY DEF U!ChangedPaths, IsHistory
<1> HIDE DEF base, since
<1>5. CASE paths = {}
    BY <1>3, <1>4, <1>5
<1>6. CASE \E c \in {def} \cup since : U!MergesToItself(h, c, tip)
    <2>1. PICK c \in {def} \cup since : U!MergesToItself(h, c, tip)
        BY <1>6
    <2>2. since \subseteq h.anc[def]
        BY DEF since, IsHistory
    <2>3. c \in Commit /\ (c = def \/ c \in h.anc[def])
        BY <2>1, <2>2 DEF IsHistory
    <2>4. h.anc[c] \subseteq h.anc[def]
        BY <2>3 DEF IsHistory
    <2> DEFINE own == U!MergeBase(h, c, tip)
    <2>5. U!Common(h, c, tip) # {} /\ \A q \in U!ChangedPaths(h, own, tip) : h.tree[tip][q] = h.tree[c][q]
        BY <2>1 DEF U!MergesToItself
    <2>6. own \in U!Common(h, c, tip)
        BY <2>3, <2>5, MergeBaseIs
    <2>7. own \in h.anc[def] /\ own \in Commit
        BY <2>4, <2>6 DEF U!Common, IsHistory
    <2> HIDE DEF own
    <2>8. CASE p \in U!ChangedPaths(h, own, tip)
        BY <2>3, <2>5, <2>8 DEF IsHistory
    <2>9. CASE p \notin U!ChangedPaths(h, own, tip)
        BY <1>4, <2>7, <2>9
    <2> QED BY <2>8, <2>9
<1> QED BY <1>1, <1>5, <1>6

(* The ref taken for a remote's default branch is one of its commits.        *)
LEMMA DefaultRefIs ==
    ASSUME NEW r, NEW Commit, IsRemote(r, Commit) PROVE U!DefaultRef(r) \in Commit \cup {Unset}
<1>1. \A n \in DOMAIN U!Tracking(r) : U!Tracking(r)[n] \in Commit
    <2>1. CASE U!Refreshed(r)
        <3> DEFINE m == U!DefaultBranch(r)
                   names == DOMAIN r.tracking \cup {m}
                   T == [n \in names |-> IF n = m THEN r.heads[n] ELSE r.tracking[n]]
        <3>1. U!Tracking(r) = T /\ m \in DOMAIN r.heads
            BY <2>1 DEF U!Tracking, U!Refreshed
        <3> HIDE DEF m
        <3>2. \A n \in names : T[n] \in Commit
            BY <3>1 DEF IsRemote
        <3>3. DOMAIN T = names
            OBVIOUS
        <3> HIDE DEF T, names
        <3> QED BY <3>1, <3>2, <3>3
    <2>2. CASE ~U!Refreshed(r)
        BY <2>2 DEF U!Tracking, IsRemote
    <2> QED BY <2>1, <2>2
<1> QED BY <1>1 DEF U!DefaultRef

(* A history stays one when the default branches were fetched.               *)
LEMMA FetchedIs ==
    ASSUME NEW h, NEW Commit, NEW Path, IsHistory(h, Commit, Path), NEW remotes
    PROVE  /\ IsHistory(U!Fetched(h, remotes), Commit, Path)
           /\ U!Fetched(h, remotes).anc = h.anc /\ U!Fetched(h, remotes).tree = h.tree
<1> DEFINE more == UNION {h.anc[U!DefaultRef(r)] : r \in {x \in remotes : U!Refreshed(x)}}
           f == U!Fetched(h, remotes)
<1>1. f = [h EXCEPT !.has = @ \cup more]
    BY DEF U!Fetched
<1>2. h = [anc |-> h.anc, line |-> h.line, first |-> h.first, has |-> h.has, tree |-> h.tree]
    BY DEF IsHistory
<1> HIDE DEF more, f
<1>3. f = [anc |-> h.anc, line |-> h.line, first |-> h.first, has |-> h.has \cup more, tree |-> h.tree]
    BY <1>1, <1>2
<1>4. f = [anc |-> f.anc, line |-> f.line, first |-> f.first, has |-> f.has, tree |-> f.tree]
      /\ f.anc = h.anc /\ f.tree = h.tree /\ f.line = h.line
    BY <1>3
<1>5. Descends(f, Commit) = Descends(h, Commit)
    BY <1>4 DEF Descends
<1> QED BY <1>4, <1>5 DEF IsHistory, f

(* A tip that is durable on a remote is reached by one of its branches, or   *)
(* every path of it is.                                                      *)
LEMMA DurableIsKept ==
    ASSUME NEW repo, NEW Commit, NEW Path, NEW h, NEW b, IsRepo(repo, Commit, Path), IsHistory(h, Commit, Path),
           b.tip \in Commit, U!Judge(repo, h, b) = "durable"
    PROVE  U!TipIsKept(repo, h, b.tip)
<1> DEFINE remotes == U!RemotesOf(repo)
           all == {remotes[i] : i \in DOMAIN remotes}
<1>1. \A r \in all : IsRemote(r, Commit)
    BY DEF U!RemotesOf, IsRepo
<1>2. U!Landed(h, b, all, repo.mergeTree) \/ "durable" \in U!Verdicts(h, b, all, repo.forge)
    BY DEF U!Judge, U!JudgeTip, U!WhyNoHome
<1>3. SUFFICES ASSUME NEW p \in Path
               PROVE  \E r \in all : \E c \in U!KeptBy(h, r, repo.forge) : h.tree[c][p] = h.tree[b.tip][p]
    BY DEF U!TipIsKept, IsHistory
<1> HIDE DEF all
<1>4. CASE U!Landed(h, b, all, repo.mergeTree)
    <2>1. PICK r \in all : /\ U!DefaultRef(r) # Unset
                           /\ U!IsAncestor(h, b.tip, U!DefaultRef(r)) \/ U!LandedByContent(h, b.tip, U!DefaultRef(r))
        BY <1>4 DEF U!Landed
    <2>2. U!DefaultRef(r) \in Commit
        BY <1>1, <2>1, DefaultRefIs
    <2>3. h.anc[U!DefaultRef(r)] \subseteq U!KeptBy(h, r, repo.forge)
        BY <2>1 DEF U!KeptBy
    <2>4. \E c \in h.anc[U!DefaultRef(r)] : h.tree[c][p] = h.tree[b.tip][p]
        <3>1. CASE U!IsAncestor(h, b.tip, U!DefaultRef(r))
            BY <3>1 DEF U!IsAncestor
        <3>2. CASE U!LandedByContent(h, b.tip, U!DefaultRef(r))
            BY <2>2, <3>2, LandedIsKept
        <3> QED BY <2>1, <3>1, <3>2
    <2> QED BY <2>3, <2>4
<1>5. CASE "durable" \in U!Verdicts(h, b, all, repo.forge)
    <2>1. PICK r \in all : \E n \in U!LiveHomes(h, b, r) : U!Vouch(r, n, repo.forge) = "durable"
        BY <1>5 DEF U!Verdicts
    <2>5. PICK n \in U!LiveHomes(h, b, r) : U!Vouch(r, n, repo.forge) = "durable"
        BY <2>1
    <2>2. r.reached /\ n \in DOMAIN r.heads /\ b.tip \in h.anc[r.heads[n]]
        BY <2>5 DEF U!LiveHomes, U!IsAncestor
    <2>3. r.github /\ r.name \in DOMAIN repo.forge /\ repo.forge[r.name][n] \in {"none", "open"}
        BY <2>5 DEF U!Vouch
    <2>4. b.tip \in U!KeptBy(h, r, repo.forge)
        BY <2>2, <2>3 DEF U!KeptBy
    <2> QED BY <2>4
<1> QED BY <1>2, <1>4, <1>5

(* Whatever the repository, its history and its remotes: where the scan      *)
(* reports nothing it looked at all of it, no stash and no change is in it,  *)
(* and what each branch and each detached head has is in a commit some       *)
(* remote keeps (scanRepo, workspace/scan.go; judgeTip,                      *)
(* workspace/durable.go).                                                    *)
THEOREM EveryCleanIsKept ==
    ASSUME NEW repo, NEW Commit, NEW Path, IsRepo(repo, Commit, Path)
    PROVE  U!CleanIsKept(repo)
<1> DEFINE all == {U!RemotesOf(repo)[i] : i \in DOMAIN U!RemotesOf(repo)}
           h == U!Fetched(repo.history, all)
<1>0. SUFFICES ASSUME U!ScanRepo(repo) = {}
             PROVE
                /\ repo.worktreesWork /\ repo.remotesWork /\ repo.branchesWork /\ repo.stashes = "none"
                /\ \A b \in repo.branches : U!TipIsKept(repo, h, b.tip)
                /\ \A t \in repo.trees :
                      /\ (t.primary \/ t.inside) /\ t.statusWorks /\ ~t.dirty /\ ~t.untracked
                      /\ t.detached => \/ U!TipIsKept(repo, h, t.head)
                                       \/ \E b \in repo.branches : t.head \in h.anc[b.tip]
    BY DEF U!CleanIsKept
<1>1. IsHistory(h, Commit, Path)
    BY FetchedIs DEF IsRepo
<1>2. /\ U!ChecksFailed(repo) = {} /\ U!ExternalTrees(repo) = {} /\ U!ScanWorkingTrees(repo, h) = {}
      /\ U!ScanBranches(repo, h) = {} /\ U!Stashes(repo) = {}
    <2>1. U!ScanRepo(repo) = U!ChecksFailed(repo) \cup U!ExternalTrees(repo) \cup U!ScanWorkingTrees(repo, h)
                           \cup U!ScanBranches(repo, h) \cup U!Stashes(repo)
        BY DEF U!ScanRepo
    <2> HIDE DEF h
    <2> QED BY <1>0, <2>1
<1> HIDE DEF h, all
<1>3. repo.worktreesWork /\ repo.remotesWork /\ repo.stashes = "none"
    BY <1>2 DEF IsRepo, U!ChecksFailed, U!Stashes
<1>4. \A t \in repo.trees : t.primary \/ t.inside
    BY <1>2, <1>3 DEF U!ExternalTrees
<1>5. \A t \in repo.trees : U!ScanWorkingTree(repo, h, t) = {}
    BY <1>2, <1>3, <1>4 DEF U!ScanWorkingTrees
<1>6. repo.branchesWork /\ \A b \in repo.branches : U!Judge(repo, h, b) = "durable"
    <2>1. U!ScanBranches(repo, h) = {}
        BY <1>2
    <2>2. repo.branchesWork
        BY <2>1 DEF U!ScanBranches
    <2>3. {U!Judge(repo, h, b) : b \in repo.branches} \ {"durable"} = {}
        BY <2>1, <2>2 DEF U!ScanBranches
    <2>4. \A b \in repo.branches : U!Judge(repo, h, b) = "durable"
        BY <2>3
    <2> QED BY <2>2, <2>4
<1>7. \A b \in repo.branches : U!TipIsKept(repo, h, b.tip)
    BY <1>1, <1>6, DurableIsKept DEF IsRepo
<1>8. ASSUME NEW t \in repo.trees
      PROVE  /\ t.statusWorks /\ ~t.dirty /\ ~t.untracked
             /\ t.detached => \/ U!TipIsKept(repo, h, t.head)
                              \/ \E b \in repo.branches : t.head \in h.anc[b.tip]
    <2> DEFINE head == [name |-> Unset, tip |-> t.head, upstream |-> Unset]
               held == \E b \in repo.branches : t.head \in h.anc[b.tip]
    <2>1. /\ t.statusWorks /\ ~t.dirty /\ ~t.untracked
          /\ t.detached => t.headWorks /\ (held \/ U!Judge(repo, h, head) = "durable")
        BY <1>5 DEF U!ScanWorkingTree
    <2>2. head.tip = t.head
        OBVIOUS
    <2> HIDE DEF head, held
    <2>3. ASSUME t.detached, t.headWorks, U!Judge(repo, h, head) = "durable" PROVE U!TipIsKept(repo, h, t.head)
        <3>1. head.tip \in Commit
            BY <2>2, <2>3 DEF IsRepo
        <3> QED BY <1>1, <2>2, <2>3, <3>1, DurableIsKept
    <2> QED BY <2>1, <2>3 DEF held
<1> QED BY <1>3, <1>4, <1>6, <1>7, <1>8

(* The first remote that was asked is one of them.                           *)
LEMMA FirstAsked ==
    ASSUME NEW S, S \subseteq Nat, S # {}
    PROVE  (CHOOSE i \in S : \A j \in S : i <= j) \in S
BY LeastOf

(* Whatever the repository: a branch reported as unverified, on no remote,   *)
(* done with elsewhere or not pushed is that (judgeTip and whyNoHome,        *)
(* workspace/durable.go).                                                    *)
THEOREM EveryLossIsWhatItSays ==
    ASSUME NEW repo, DOMAIN repo.remotes \subseteq Nat
    PROVE  U!LossIsWhatItSays(repo)
<1> DEFINE remotes == U!RemotesOf(repo)
           all == {remotes[i] : i \in DOMAIN remotes}
           h == U!Fetched(repo.history, all)
           answers(r) == r.github /\ r.name \in DOMAIN repo.forge
<1> HIDE DEF h
<1>1. SUFFICES ASSUME NEW b \in repo.branches
      PROVE  LET loss == U!Judge(repo, h, b)
             IN /\ loss = "unverified" =>
                      \E r \in all : \/ ~r.reached
                                     \/ \E n \in DOMAIN r.heads :
                                           \/ r.heads[n] \notin h.has \/ ~answers(r)
                                           \/ repo.forge[r.name][n] \notin {"none", "open", "merged", "closed"}
                /\ loss = "local-only" => \A r \in all : r.reached /\ b.name \notin DOMAIN r.heads
                /\ loss = "unlanded" =>
                      \E r \in all : r.reached /\ \E n \in DOMAIN r.heads :
                          b.tip \in h.anc[r.heads[n]] /\ repo.forge[r.name][n] \in {"merged", "closed"}
                /\ loss = "unpushed" =>
                      \E r \in all : r.reached /\ U!PushedAs(b, r) # <<>> /\
                          LET n == U!PushedAs(b, r)[1] IN n \in DOMAIN r.heads => r.heads[n] \in h.has
    BY DEF U!LossIsWhatItSays, h
<1> DEFINE verdicts == U!Verdicts(h, b, all, repo.forge)
           asked == {i \in DOMAIN remotes : remotes[i].reached /\ U!PushedAs(b, remotes[i]) # <<>>}
           first == remotes[CHOOSE i \in asked : \A j \in asked : i <= j]
           n == U!PushedAs(b, first)[1]
           unknown == n \in DOMAIN first.heads /\ first.heads[n] \notin h.has
           why == U!WhyNoHome(h, b, remotes)
           loss == U!Judge(repo, h, b)
<1>2. \/ loss \in {"durable", why}
      \/ loss = "unverified" /\ "unverified" \in verdicts
      \/ loss = "unlanded" /\ verdicts # {} /\ "durable" \notin verdicts /\ "unverified" \notin verdicts
    BY DEF U!Judge, U!JudgeTip
<1>3. \A v \in verdicts : \E r \in all : \E m \in DOMAIN r.heads :
          r.reached /\ b.tip \in h.anc[r.heads[m]] /\ v = U!Vouch(r, m, repo.forge)
    BY DEF U!Verdicts, U!LiveHomes, U!IsAncestor
<1>4. why = IF asked # {} THEN IF unknown THEN "unverified" ELSE "unpushed"
            ELSE IF \E i \in DOMAIN remotes : ~remotes[i].reached THEN "unverified"
            ELSE "local-only"
    BY DEF U!WhyNoHome
<1>5. asked # {} => first \in all /\ first.reached /\ U!PushedAs(b, first) # <<>>
    <2>1. asked \subseteq Nat
        BY DEF U!RemotesOf
    <2> HIDE DEF asked
    <2>2. asked # {} => (CHOOSE i \in asked : \A j \in asked : i <= j) \in asked
        BY <2>1, FirstAsked
    <2> QED BY <2>2 DEF asked
<1>6. asked = {} => \A r \in all : r.reached => b.name \notin DOMAIN r.heads
    BY DEF U!PushedAs
<1> HIDE DEF asked, first, why, loss, verdicts, all
<1>7. loss = "unverified" =>
                      \E r \in all : \/ ~r.reached
                                     \/ \E m \in DOMAIN r.heads :
                                           \/ r.heads[m] \notin h.has \/ ~answers(r)
                                           \/ repo.forge[r.name][m] \notin {"none", "open", "merged", "closed"}
    BY <1>2, <1>3, <1>4, <1>5 DEF U!Vouch, all
<1>8. loss = "local-only" => \A r \in all : r.reached /\ b.name \notin DOMAIN r.heads
    BY <1>2, <1>4, <1>6 DEF all
<1>9. loss = "unlanded" =>
                      \E r \in all : r.reached /\ \E m \in DOMAIN r.heads :
                          b.tip \in h.anc[r.heads[m]] /\ repo.forge[r.name][m] \in {"merged", "closed"}
    <2>1. SUFFICES ASSUME loss = "unlanded" PROVE \E r \in all : r.reached /\ \E m \in DOMAIN r.heads :
                          b.tip \in h.anc[r.heads[m]] /\ repo.forge[r.name][m] \in {"merged", "closed"}
        OBVIOUS
    <2>2. verdicts # {} /\ "durable" \notin verdicts /\ "unverified" \notin verdicts
        BY <1>2, <1>4, <2>1
    <2>3. PICK v \in verdicts : v # "durable" /\ v # "unverified"
        BY <2>2
    <2>4. PICK r \in all : \E m \in DOMAIN r.heads :
             r.reached /\ b.tip \in h.anc[r.heads[m]] /\ v = U!Vouch(r, m, repo.forge)
        BY <1>3, <2>3
    <2>5. PICK m \in DOMAIN r.heads : r.reached /\ b.tip \in h.anc[r.heads[m]] /\ v = U!Vouch(r, m, repo.forge)
        BY <2>4
    <2>6. repo.forge[r.name][m] \in {"merged", "closed"}
        BY <2>3, <2>5 DEF U!Vouch
    <2> QED BY <2>5, <2>6
<1>10. loss = "unpushed" => /\ first \in all /\ first.reached /\ U!PushedAs(b, first) # <<>>
                            /\ n \in DOMAIN first.heads => first.heads[n] \in h.has
    BY <1>2, <1>4, <1>5
<1> QED BY <1>7, <1>8, <1>9, <1>10 DEF all, loss

(* Whatever is in an instance: where its scan reports nothing, each          *)
(* repository in it was scanned and has nothing to report, but for those in  *)
(* its metadata, inside another repository or out of sight (ScanInstance and *)
(* findPrimaryRepos, workspace/scan.go).                                     *)
THEOREM EveryCleanInstanceIsKept ==
    ASSUME NEW instance, NEW Commit, NEW Path,
           \A path \in DOMAIN instance.dirs : instance.dirs[path].git # Unset => IsRepo(instance.dirs[path].git, Commit, Path)
    PROVE  U!CleanInstanceIsKept(instance)
<1> SUFFICES ASSUME U!ScanInstance(instance) = {}
             PROVE  /\ instance.stateReads
                    /\ \A path \in DOMAIN instance.dirs :
                          instance.dirs[path].git # Unset =>
                              \/ path = <<".niwa">> \/ U!IsBelow(path, <<".niwa">>)
                              \/ \E above \in DOMAIN instance.dirs :
                                    /\ U!IsBelow(path, above)
                                    /\ instance.dirs[above].git # Unset \/ ~instance.dirs[above].readable
                              \/ U!ScanRepo(instance.dirs[path].git) = {} /\ U!CleanIsKept(instance.dirs[path].git)
    BY DEF U!CleanInstanceIsKept
<1>1. /\ instance.stateReads
      /\ \A path \in U!FindPrimaryRepos(instance.dirs) : U!ScanRepo(instance.dirs[path].git) = {}
    BY DEF U!ScanInstance
<1>2. ASSUME NEW path \in DOMAIN instance.dirs, instance.dirs[path].git # Unset,
             path # <<".niwa">>, ~U!IsBelow(path, <<".niwa">>),
             ~\E above \in DOMAIN instance.dirs :
                 /\ U!IsBelow(path, above)
                 /\ instance.dirs[above].git # Unset \/ ~instance.dirs[above].readable
      PROVE  U!ScanRepo(instance.dirs[path].git) = {} /\ U!CleanIsKept(instance.dirs[path].git)
    <2>1. path \in U!FindPrimaryRepos(instance.dirs)
        BY <1>2 DEF U!FindPrimaryRepos
    <2> QED BY <1>1, <1>2, <2>1, EveryCleanIsKept
<1> QED BY <1>1, <1>2

-----------------------------------------------------------------------------
(* WorkspaceScope: what a command acts on from where it is run.               *)

(* A cardinality is what it is.                                              *)
LEMMA SameSize == \A S : W!Cardinality(S) = Cardinality(S)
BY DEF W!Cardinality, Cardinality

(* The directories above one are its prefixes.                               *)
LEMMA AboveAre ==
    ASSUME NEW Name, NEW cwd \in Seq(Name), NEW d \in W!Above(cwd)
    PROVE  /\ d \in Seq(Name) /\ Len(d) \in 0 .. Len(cwd) /\ d = SubSeq(cwd, 1, Len(d))
           /\ W!IsPrefix(d, cwd)
<1>1. PICK n \in 0 .. Len(cwd) : d = SubSeq(cwd, 1, n)
    BY DEF W!Above
<1>2. Len(d) = n /\ d \in Seq(Name)
    BY <1>1
<1>3. SubSeq(d, 1, Len(d)) = d
    BY <1>2
<1> QED BY <1>1, <1>2, <1>3 DEF W!IsPrefix

(* Of directories above one, the nearest is one of them and none is longer.  *)
LEMMA LongestIs ==
    ASSUME NEW Name, NEW cwd \in Seq(Name), NEW dirs, dirs \subseteq W!Above(cwd), dirs # {}
    PROVE  W!Nearest(dirs) \in dirs /\ \A e \in dirs : Len(e) <= Len(W!Nearest(dirs))
<1> DEFINE gaps == {Len(cwd) - Len(d) : d \in dirs}
<1>2. gaps \subseteq Nat /\ gaps # {}
    BY AboveAre
<1>3. PICK g \in gaps : \A e \in gaps : g <= e
    BY <1>2, LeastOf
<1>4. PICK d \in dirs : g = Len(cwd) - Len(d)
    BY <1>3
<1>5. \A e \in dirs : Len(e) <= Len(d)
    <2> TAKE e \in dirs
    <2>1. Len(cwd) - Len(d) <= Len(cwd) - Len(e)
        BY <1>3, <1>4
    <2>2. Len(d) \in Nat /\ Len(e) \in Nat /\ Len(cwd) \in Nat
        BY AboveAre
    <2> QED BY <2>1, <2>2
<1> QED BY <1>4, <1>5 DEF W!Nearest

(* What a discovery finds is one of what it looks among.                     *)
LEMMA NearestIs ==
    ASSUME NEW Name, NEW cwd \in Seq(Name), NEW dirs, dirs \subseteq W!Above(cwd), W!NearestOr(dirs) # Unset
    PROVE  W!NearestOr(dirs) \in dirs
<1>1. dirs # {} /\ W!NearestOr(dirs) = W!Nearest(dirs)
    BY DEF W!NearestOr
<1> QED BY <1>1, LongestIs

(* What a directory is classified as says where it is.                       *)
LEMMA ClassIs ==
    ASSUME NEW disk, NEW Name, NEW cwd \in Seq(Name)
    PROVE  LET at == W!ClassifyCwd(disk, cwd)
           IN  /\ at.class = "worktree" => W!IsPrefix(at.worktree, cwd)
               /\ at.class = "instance" => W!IsPrefix(at.instance, cwd) /\ at.instance \notin disk.config
               /\ at.class = "root" =>
                     /\ at.root # Unset /\ at.root = W!Discover(disk, cwd) /\ at.root \in W!Above(cwd)
                     /\ ~W!IsBelowRoot(disk, at.root, cwd)
<1> DEFINE worktree == W!DiscoverWorktree(disk, cwd)
           instance == W!DiscoverInstance(disk, cwd)
           root == W!Discover(disk, cwd)
           is(class, i, w) == [class |-> class, root |-> root, instance |-> i, worktree |-> w]
           at == W!ClassifyCwd(disk, cwd)
<1>1. at = IF worktree # Unset THEN is("worktree", W!WorktreeHost(worktree), worktree)
        ELSE IF instance # Unset /\ instance \notin disk.config THEN is("instance", instance, Unset)
        ELSE IF root = Unset THEN is("outside", Unset, Unset)
        ELSE IF W!IsBelowRoot(disk, root, cwd) THEN is("below", Unset, Unset)
        ELSE is("root", Unset, Unset)
    BY DEF W!ClassifyCwd
<1>2. /\ worktree # Unset => worktree \in W!Above(cwd)
      /\ instance # Unset => instance \in W!Above(cwd)
      /\ root # Unset => root \in W!Above(cwd)
    BY NearestIs DEF W!DiscoverWorktree, W!DiscoverInstance, W!Discover
<1>3. \A c, i, w : is(c, i, w).class = c /\ is(c, i, w).instance = i /\ is(c, i, w).worktree = w /\ is(c, i, w).root = root
    OBVIOUS
<1>4. \A d \in W!Above(cwd) : W!IsPrefix(d, cwd)
    BY AboveAre
<1> HIDE DEF worktree, instance, is, at, root
<1> QED BY <1>1, <1>2, <1>3, <1>4 DEF at, root

(* A root a command stands at is where it stands, or it has its metadata     *)
(* there, or no instances.                                                   *)
LEMMA RootIsStoodAt ==
    ASSUME NEW disk, NEW Name, NEW cwd \in Seq(Name), NEW root \in W!Above(cwd), ~W!IsBelowRoot(disk, root, cwd)
    PROVE  \/ cwd = root
           \/ W!IsPrefix(root, cwd) /\ cwd[Len(root) + 1] = W!StateDir
           \/ W!EnumerateInstances(disk, root) = {}
<1>1. /\ Len(root) \in 0 .. Len(cwd) /\ root = SubSeq(cwd, 1, Len(root)) /\ W!IsPrefix(root, cwd)
    BY AboveAre
<1>2. CASE Len(cwd) > Len(root)
    BY <1>1, <1>2 DEF W!IsBelowRoot, W!IsSingleInstanceLayout
<1>3. CASE ~(Len(cwd) > Len(root))
    <2>1. Len(cwd) = Len(root)
        BY <1>1, <1>3
    <2>2. SubSeq(cwd, 1, Len(cwd)) = cwd
        OBVIOUS
    <2> QED BY <1>1, <2>1, <2>2
<1> QED BY <1>2, <1>3

Narrow(disk, cwd, name, scope) ==
    LET stands(root) == cwd = root \/ (W!IsPrefix(root, cwd) /\ cwd[Len(root) + 1] = W!StateDir)
    IN  /\ scope.mode = "all" => stands(scope.root) \/ scope.on = {}
        /\ scope.mode = "all" <=> scope.root # Unset
        /\ scope.mode \in {"single", "worktree"} => name = Unset /\ \A d \in scope.on : W!IsPrefix(d, cwd)
        /\ scope.mode = "single" => scope.on \cap disk.config = {}
        /\ scope.mode = "named" => \A d \in scope.on : disk.state[d] = name
        /\ W!Cardinality(scope.on) > 1 => scope.mode = "all"

(* One is not more than one.                                                 *)
LEMMA OneIsOne == \A d : W!Cardinality({d}) = 1 /\ ~(W!Cardinality({d}) > 1)
<1> TAKE d
<1>1. W!Cardinality({d}) = 1
    BY FS_Singleton, SameSize
<1> DEFINE n == W!Cardinality({d})
<1>2. n = 1
    BY <1>1
<1> HIDE DEF n
<1>3. n = 1 /\ ~(n > 1)
    BY <1>2
<1> QED BY <1>3 DEF n

(* Nothing is not more than one.                                             *)
LEMMA NoneIsNone == ~(W!Cardinality({}) > 1)
BY FS_EmptySet, SameSize

Scope(mode, on, root) == [mode |-> mode, on |-> on, root |-> root]
(* The fields of a scope.                                                    *)
LEMMA ScopeHas == \A mode, on, root :
    Scope(mode, on, root).mode = mode /\ Scope(mode, on, root).on = on /\ Scope(mode, on, root).root = root
BY DEF Scope

(* On every disk, from every directory of it and for every name: niwa apply  *)
(* acts on all instances from a workspace's root or its metadata only, and   *)
(* anywhere else on the one it runs in or the one it names                   *)
(* (ResolveApplyScope, workspace/scope.go; resolveRegistryScope,             *)
(* cli/apply.go).                                                            *)
THEOREM EveryScopeIsNarrow ==
    ASSUME NEW disk, NEW Name, NEW cwd \in Seq(Name), NEW name
    PROVE  W!ScopeIsNarrow(disk, cwd, name)
<1> DEFINE at == W!ClassifyCwd(disk, cwd)
           scope == W!ResolveApplyScope(disk, cwd, name)
           refused == Scope("refused", {}, Unset)
           named == Scope("named", {CHOOSE d \in W!Named(disk, W!Discover(disk, cwd), name) : TRUE}, Unset)
<1>1. Narrow(disk, cwd, name, refused)
    <2>1. refused.mode = "refused" /\ refused.on = {} /\ refused.root = Unset
        BY ScopeHas
    <2> HIDE DEF refused
    <2> QED BY <2>1, NoneIsNone DEF Narrow
<1>2. W!ResolveNamed(disk, cwd, name) = refused
      \/ (W!Named(disk, W!Discover(disk, cwd), name) # {} /\ W!ResolveNamed(disk, cwd, name) = named)
    BY DEF W!ResolveNamed, W!Refused, Scope
<1>3. ASSUME W!Named(disk, W!Discover(disk, cwd), name) # {} PROVE Narrow(disk, cwd, name, named)
    <2> DEFINE d == CHOOSE x \in W!Named(disk, W!Discover(disk, cwd), name) : TRUE
    <2>1. d \in W!Named(disk, W!Discover(disk, cwd), name)
        BY <1>3
    <2>2. disk.state[d] = name
        BY <2>1 DEF W!Named
    <2>3. named.mode = "named" /\ named.on = {d} /\ named.root = Unset
        BY ScopeHas
    <2> HIDE DEF named, d
    <2> QED BY <2>2, <2>3, OneIsOne DEF Narrow
<1>4. ASSUME NEW dir, name = Unset, W!IsPrefix(dir, cwd)
      PROVE  /\ Narrow(disk, cwd, name, Scope("worktree", {dir}, Unset))
             /\ dir \notin disk.config => Narrow(disk, cwd, name, Scope("single", {dir}, Unset))
    <2>1. ASSUME NEW mode PROVE /\ Scope(mode, {dir}, Unset).mode = mode /\ Scope(mode, {dir}, Unset).on = {dir}
                                /\ Scope(mode, {dir}, Unset).root = Unset
        BY ScopeHas
    <2>2. ~(W!Cardinality({dir}) > 1)
        BY OneIsOne
    <2> DEFINE w == Scope("worktree", {dir}, Unset)
               s == Scope("single", {dir}, Unset)
    <2>3. /\ w.mode = "worktree" /\ w.on = {dir} /\ w.root = Unset
          /\ s.mode = "single" /\ s.on = {dir} /\ s.root = Unset
        BY <2>1
    <2> HIDE DEF w, s
    <2>4. Narrow(disk, cwd, name, w)
        BY <1>4, <2>2, <2>3 DEF Narrow
    <2>5. dir \notin disk.config => Narrow(disk, cwd, name, s)
        BY <1>4, <2>2, <2>3 DEF Narrow
    <2> QED BY <2>4, <2>5 DEF w, s
<1>5. ASSUME at.class = "root"
      PROVE  Narrow(disk, cwd, name, Scope("all", W!EnumerateInstances(disk, at.root), at.root))
    <2> DEFINE all == Scope("all", W!EnumerateInstances(disk, at.root), at.root)
    <2>1. all.mode = "all" /\ all.on = W!EnumerateInstances(disk, at.root) /\ all.root = at.root
        BY ScopeHas
    <2>2. at.root # Unset /\ at.root \in W!Above(cwd) /\ ~W!IsBelowRoot(disk, at.root, cwd)
        BY <1>5, ClassIs
    <2>3. \/ cwd = at.root
          \/ W!IsPrefix(at.root, cwd) /\ cwd[Len(at.root) + 1] = W!StateDir
          \/ W!EnumerateInstances(disk, at.root) = {}
        BY <2>2, RootIsStoodAt
    <2> HIDE DEF all, at
    <2>4. /\ all.mode = "all" => \/ cwd = all.root \/ (W!IsPrefix(all.root, cwd) /\ cwd[Len(all.root) + 1] = W!StateDir)
                                \/ all.on = {}
          /\ all.root # Unset
        BY <2>1, <2>2, <2>3
    <2>5. all.mode # "single" /\ all.mode # "worktree" /\ all.mode # "named" /\ all.mode = "all"
        BY <2>1
    <2>6. Narrow(disk, cwd, name, all)
        BY <2>4, <2>5 DEF Narrow
    <2> QED BY <2>6 DEF all
<1>6. scope =
        IF at.class = "below" THEN refused
        ELSE IF name # Unset THEN W!ResolveNamed(disk, cwd, name)
        ELSE IF at.class = "worktree" THEN Scope("worktree", {at.worktree}, Unset)
        ELSE IF at.class = "instance" THEN Scope("single", {at.instance}, Unset)
        ELSE IF at.class = "root" THEN Scope("all", W!EnumerateInstances(disk, at.root), at.root)
        ELSE refused
    BY DEF W!ResolveApplyScope, W!Refused, Scope
<1>7. /\ at.class = "worktree" => W!IsPrefix(at.worktree, cwd)
      /\ at.class = "instance" => W!IsPrefix(at.instance, cwd) /\ at.instance \notin disk.config
    BY ClassIs
<1> HIDE DEF at, refused, named, scope
<1>8. Narrow(disk, cwd, name, scope)
    <2>1. CASE at.class = "below" \/ scope = refused
        BY <1>1, <1>6, <2>1
    <2>2. CASE name # Unset /\ at.class # "below"
        BY <1>1, <1>2, <1>3, <1>6, <2>2
    <2>3. CASE name = Unset /\ at.class # "below"
        BY <1>1, <1>4, <1>5, <1>6, <1>7, <2>3
    <2> QED BY <2>1, <2>2, <2>3
<1> QED BY <1>8 DEF W!ScopeIsNarrow, Narrow, scope

Doing(does, on, landing) == [does |-> does, on |-> on, landing |-> landing]

(* What destroy does at a root. *)
AtRoot(disk, root, name, force, q) ==
    \/ q.does = "refuse"
    \/ \E d : /\ q.does = "instance" /\ q.on = {d} /\ q.landing = Unset
             /\ \/ name # Unset /\ disk.state[d] = name
                \/ name = Unset /\ ~force /\ W!EnumerateInstances(disk, root) = {d}
    \/ q.does = "empty" /\ name = Unset /\ ~force /\ W!EnumerateInstances(disk, root) = {}
    \/ q.does = "pick"

(* What destroy does at a root with a name, by force or without either.      *)
LEMMA AtRootIs ==
    ASSUME NEW disk, NEW root, NEW name, NEW force, IsFiniteSet(W!EnumerateInstances(disk, root))
    PROVE  AtRoot(disk, root, name, force, W!DestroyAtRoot(disk, root, name, force))
<1> DEFINE instances == W!EnumerateInstances(disk, root)
           named == W!Named(disk, root, name)
           q == W!DestroyAtRoot(disk, root, name, force)
           one(d) == [does |-> "instance", on |-> {d}, landing |-> Unset]
           first == CHOOSE d \in named : TRUE
           only == CHOOSE d \in instances : TRUE
           picked == {d \in instances : disk.state[d] # Bad}
<1>1. q = IF name = Unset /\ force THEN W!Nothing
        ELSE IF name # Unset /\ named = {} THEN W!Nothing
        ELSE IF name # Unset THEN one(first)
        ELSE IF instances = {} THEN [does |-> "empty", on |-> {}, landing |-> Unset]
        ELSE IF W!Cardinality(instances) = 1 THEN one(only)
        ELSE [does |-> "pick", on |-> picked, landing |-> Unset]
    BY DEF W!DestroyAtRoot, W!One
<1>2. named # {} => first \in named
    OBVIOUS
<1>3. named # {} => disk.state[first] = name
    BY <1>2 DEF W!Named
<1>4. W!Cardinality(instances) = 1 => instances = {only}
    <2>1. W!Cardinality(instances) = 1 => \E x : instances = {x}
        BY FS_Singleton, SameSize
    <2> HIDE DEF instances
    <2> QED BY <2>1
<1>5. W!Nothing.does = "refuse"
    BY DEF W!Nothing
<1>6. \A d : one(d).does = "instance" /\ one(d).on = {d} /\ one(d).landing = Unset
    OBVIOUS
<1> HIDE DEF one, first, only, named, instances, picked, q
<1>7. CASE q = W!Nothing
    BY <1>5, <1>7 DEF AtRoot, q
<1>8. CASE name # Unset /\ named # {} /\ q = one(first)
    BY <1>3, <1>6, <1>8 DEF AtRoot, q
<1>9. CASE name = Unset /\ ~force /\ instances = {} /\ q = [does |-> "empty", on |-> {}, landing |-> Unset]
    BY <1>9 DEF AtRoot, q, instances
<1>10. CASE name = Unset /\ ~force /\ W!Cardinality(instances) = 1 /\ q = one(only)
    BY <1>4, <1>6, <1>10 DEF AtRoot, q, instances
<1>11. CASE q = [does |-> "pick", on |-> picked, landing |-> Unset]
    BY <1>11 DEF AtRoot, q
<1> QED BY <1>1, <1>7, <1>8, <1>9, <1>10, <1>11

(* On every disk and with every arguments: niwa destroy goes for all         *)
(* instances by --workspace and at a root only, and for one only where it    *)
(* runs, by its name, or as the only one there is, and then unforced         *)
(* (runDestroy, cli/destroy.go).                                             *)
THEOREM EveryDestroyIsMeant ==
    ASSUME NEW disk, NEW Name, NEW cwd \in Seq(Name), NEW arg,
           \A root \in W!Above(cwd) : IsFiniteSet(W!EnumerateInstances(disk, root))
    PROVE  W!DestroyIsMeant(disk, cwd, arg)
<1> DEFINE at == W!ClassifyCwd(disk, cwd)
           root == W!Discover(disk, cwd)
           q == W!RunDestroy(disk, cwd, arg)
           whole == [does |-> "workspace", on |-> W!EnumerateInstances(disk, at.root), landing |-> Unset]
           own == [does |-> "instance", on |-> {at.instance}, landing |-> at.root]
           there == W!DestroyAtRoot(disk, at.root, arg.name, arg.force)
<1>1. \/ q = W!Nothing
      \/ arg.workspace /\ at.class = "root" /\ arg.name = Unset /\ q = whole
      \/ ~arg.workspace /\ at.class = "instance" /\ arg.name = Unset /\ q = own
      \/ ~arg.workspace /\ at.class = "root" /\ q = there
    BY DEF W!RunDestroy, W!One
<1>2. /\ W!Nothing.does = "refuse"
      /\ whole.does = "workspace" /\ whole.on = W!EnumerateInstances(disk, at.root) /\ whole.landing = Unset
      /\ own.does = "instance" /\ own.on = {at.instance}
    BY DEF W!Nothing
<1>3. /\ at.class = "instance" => W!IsPrefix(at.instance, cwd)
      /\ at.class = "root" => /\ at.root = root /\ root \in W!Above(cwd)
                              /\ ~W!IsBelowRoot(disk, root, cwd)
    BY ClassIs
<1> DEFINE stood == cwd = root \/ cwd[Len(root) + 1] = W!StateDir \/ W!EnumerateInstances(disk, root) = {}
<1>4. at.class = "root" => stood
    BY <1>3, RootIsStoodAt
<1>5. at.class = "root" => AtRoot(disk, root, arg.name, arg.force, there)
    BY <1>3, AtRootIs
<1> HIDE DEF at, root, q, whole, own, there
<1>6. /\ q.does = "workspace" =>
            arg.workspace /\ arg.name = Unset /\ q.on = W!EnumerateInstances(disk, root)
      /\ q.does = "empty" =>
            ~arg.force /\ arg.name = Unset /\ W!EnumerateInstances(disk, root) = {}
    BY <1>1, <1>2, <1>3, <1>5 DEF AtRoot
<1>7. q.does = "instance" =>
            \E d \in q.on :
                  /\ q.on = {d} /\ ~arg.workspace
                  /\ \/ arg.name = Unset /\ W!IsPrefix(d, cwd)
                     \/ arg.name # Unset /\ disk.state[d] = arg.name
                     \/ arg.name = Unset /\ ~arg.force /\ W!EnumerateInstances(disk, root) = {d}
                  /\ q.landing # Unset => W!IsPrefix(d, cwd)
    <2>1. CASE ~arg.workspace /\ at.class = "instance" /\ arg.name = Unset /\ q = own
        BY <1>2, <1>3, <2>1
    <2>2. CASE ~arg.workspace /\ at.class = "root" /\ q = there
        BY <1>5, <2>2 DEF AtRoot
    <2> QED BY <1>1, <1>2, <2>1, <2>2
<1>8. q.does # "refuse" /\ q.does # "instance" => stood
    BY <1>1, <1>2, <1>4
<1> QED BY <1>6, <1>7, <1>8 DEF W!DestroyIsMeant, q, root

-----------------------------------------------------------------------------
(* Of directories above one, the outermost is one of them and none is        *)
(* shorter.                                                                  *)
LEMMA OutermostIs ==
    ASSUME NEW Name, NEW cwd \in Seq(Name), NEW dirs, dirs \subseteq W!Above(cwd), dirs # {}
    PROVE  W!Outermost(dirs) \in dirs /\ \A e \in dirs : Len(W!Outermost(dirs)) <= Len(e)
<1> DEFINE lengths == {Len(d) : d \in dirs}
<1>1. lengths \subseteq Nat /\ lengths # {}
    <2>1. \A d \in dirs : Len(d) \in Nat
        BY AboveAre
    <2> QED BY <2>1
<1>2. PICK n \in lengths : \A m \in lengths : n <= m
    BY <1>1, LeastOf
<1>3. PICK d \in dirs : n = Len(d)
    BY <1>2
<1>4. \A e \in dirs : Len(d) <= Len(e)
    BY <1>2, <1>3
<1> QED BY <1>3, <1>4 DEF W!Outermost

(* Directories above one are told apart by their lengths, and the shorter is *)
(* above the longer.                                                         *)
LEMMA SameLengthSame ==
    ASSUME NEW Name, NEW cwd \in Seq(Name), NEW d \in W!Above(cwd), NEW e \in W!Above(cwd)
    PROVE  /\ Len(d) = Len(e) => d = e
           /\ Len(d) <= Len(e) => W!IsPrefix(d, e)
<1>1. /\ d \in Seq(Name) /\ Len(d) \in 0 .. Len(cwd) /\ d = SubSeq(cwd, 1, Len(d))
      /\ e \in Seq(Name) /\ Len(e) \in 0 .. Len(cwd) /\ e = SubSeq(cwd, 1, Len(e))
    BY AboveAre
<1>2. Len(d) = Len(e) => d = e
    BY <1>1
<1>3. ASSUME Len(d) <= Len(e) PROVE W!IsPrefix(d, e)
    <2>1. \A i \in 1 .. Len(d) : d[i] = cwd[i] /\ e[i] = cwd[i]
        BY <1>1, <1>3
    <2>2. SubSeq(e, 1, Len(d)) \in Seq(Name) /\ Len(SubSeq(e, 1, Len(d))) = Len(d)
          /\ \A i \in 1 .. Len(d) : SubSeq(e, 1, Len(d))[i] = e[i]
        BY <1>1, <1>3
    <2>3. SubSeq(d, 1, Len(d)) = d
        BY <1>1
    <2>4. SubSeq(e, 1, Len(d)) = d
        BY <1>1, <2>1, <2>2
    <2> QED BY <1>3, <2>3, <2>4 DEF W!IsPrefix
<1> QED BY <1>2, <1>3

(* What is strictly below a directory is longer.                             *)
LEMMA StrictlyLonger ==
    ASSUME NEW Name, NEW d \in Seq(Name), NEW e \in Seq(Name), W!IsStrictPrefix(d, e)
    PROVE  Len(d) < Len(e)
<1>1. Len(d) <= Len(e) /\ SubSeq(d, 1, Len(d)) = SubSeq(e, 1, Len(d)) /\ d # e
    BY DEF W!IsStrictPrefix, W!IsPrefix
<1>2. SubSeq(d, 1, Len(d)) = d /\ SubSeq(e, 1, Len(e)) = e
    OBVIOUS
<1>3. Len(d) # Len(e)
    BY <1>1, <1>2
<1> QED BY <1>1, <1>3

(* A directory is a child of its parent.                                     *)
LEMMA ParentIs ==
    ASSUME NEW Name, NEW d \in Seq(Name), Len(d) > 0
    PROVE  /\ W!Parent(d) \in Seq(Name) /\ Len(W!Parent(d)) = Len(d) - 1
           /\ W!IsChildOf(W!Parent(d), d)
<1>1. W!Parent(d) \in Seq(Name) /\ Len(W!Parent(d)) = Len(d) - 1
    <2> DEFINE n == Len(d) - 1
    <2>1. n \in Nat /\ n <= Len(d)
        OBVIOUS
    <2> HIDE DEF n
    <2>2. SubSeq(d, 1, n) \in Seq(Name) /\ Len(SubSeq(d, 1, n)) = n
        BY <2>1
    <2> QED BY <2>2 DEF W!Parent, n
<1>2. SubSeq(W!Parent(d), 1, Len(d) - 1) = SubSeq(d, 1, Len(d) - 1)
    <2>1. SubSeq(W!Parent(d), 1, Len(W!Parent(d))) = W!Parent(d)
        BY <1>1
    <2> QED BY <1>1, <2>1 DEF W!Parent
<1> QED BY <1>1, <1>2 DEF W!IsChildOf, W!IsPrefix

(* A disk has these parts and no other.                                       *)
IsDisk(disk) == disk = [dirs |-> disk.dirs, config |-> disk.config, state |-> disk.state, valid |-> disk.valid]

(* On every disk: whatever configuration and state is planted strictly below *)
(* the instance a session is in, the instance whose record applies to it     *)
(* stays the same (FindInstance, workspace/cwd_classify.go).                 *)
THEOREM NothingIsShadowed ==
    ASSUME NEW disk, NEW Name, NEW cwd \in Seq(Name), NEW planted, IsDisk(disk),
           planted.config \subseteq Seq(Name), planted.state \subseteq Seq(Name)
    PROVE  W!PlantingShadowsNothing(disk, cwd, planted)
<1> DEFINE found == W!FindInstance(disk, cwd)
           at == W!ClassifyCwd(disk, cwd)
           states == [d \in DOMAIN disk.state \cup planted.state |-> IF d \in DOMAIN disk.state THEN disk.state[d] ELSE Unset]
           later == [disk EXCEPT !.config = @ \cup planted.config,
                              !.state = [d \in DOMAIN @ \cup planted.state |-> IF d \in DOMAIN @ THEN @[d] ELSE Unset]]
<1>1. /\ later.dirs = disk.dirs /\ later.valid = disk.valid
      /\ later.config = disk.config \cup planted.config
      /\ DOMAIN later.state = DOMAIN disk.state \cup planted.state
    <2>1. later = [disk EXCEPT !.config = disk.config \cup planted.config, !.state = states]
        BY DEF IsDisk
    <2>2. DOMAIN states = DOMAIN disk.state \cup planted.state
        OBVIOUS
    <2> HIDE DEF later, states
    <2> QED BY <2>1, <2>2 DEF IsDisk
<1> HIDE DEF later, found
<1> SUFFICES ASSUME found # Unset
             PROVE  /\ W!IsPrefix(found, cwd) /\ found \notin disk.config
                    /\ found \in W!EnumerateInstances(disk, W!Parent(found))
                    /\ (\A d \in planted.config \cup planted.state : W!IsStrictPrefix(found, d)) =>
                          W!FindInstance(later, cwd) = found
                    /\ at.class = "instance" => W!IsPrefix(found, at.instance)
    BY DEF W!PlantingShadowsNothing, found, later
<1> DEFINE E == W!Enumerated(disk, cwd)
<1>2. E \subseteq W!Above(cwd) /\ E # {} /\ found \in E /\ \A e \in E : Len(found) <= Len(e)
    <2>1. E \subseteq W!Above(cwd)
        BY DEF W!Enumerated
    <2>2. E # {} /\ found = W!Outermost(E)
        BY DEF W!FindInstance, found
    <2> QED BY <2>1, <2>2, OutermostIs
<1>3. found \in W!Above(cwd) /\ found \in Seq(Name) /\ Len(found) > 0 /\ W!IsEnumeratedInstance(disk, found)
    BY <1>2, AboveAre DEF W!Enumerated
<1>4. W!IsPrefix(found, cwd) /\ found \notin disk.config
    BY <1>3, AboveAre DEF W!IsEnumeratedInstance
<1>5. found \in W!EnumerateInstances(disk, W!Parent(found))
    BY <1>3, ParentIs DEF W!IsEnumeratedInstance, W!EnumerateInstances
<1>6. ASSUME \A d \in planted.config \cup planted.state : W!IsStrictPrefix(found, d)
      PROVE  W!FindInstance(later, cwd) = found
    <2>1. \A d \in planted.config \cup planted.state : d \in Seq(Name) /\ Len(found) < Len(d)
        BY <1>3, <1>6, StrictlyLonger
    <2>2. W!IsEnumeratedInstance(later, found)
        BY <1>1, <1>3, <2>1 DEF W!IsEnumeratedInstance, W!HasState
    <2>3. ASSUME NEW e \in W!Enumerated(later, cwd) PROVE Len(found) <= Len(e)
        <3>1. e \in W!Above(cwd) /\ e \in Seq(Name) /\ Len(e) > 0 /\ W!IsEnumeratedInstance(later, e)
            BY AboveAre DEF W!Enumerated
        <3>2. SUFFICES ASSUME ~(Len(found) <= Len(e)) PROVE FALSE
            OBVIOUS
        <3>3. Len(found) \in Nat /\ Len(e) \in Nat /\ Len(W!Parent(e)) = Len(e) - 1
            BY <1>3, <3>1, ParentIs
        <3>4. e \notin planted.config \cup planted.state /\ W!Parent(e) \notin planted.config
            BY <2>1, <3>2, <3>3
        <3>5. W!IsEnumeratedInstance(disk, e)
            BY <1>1, <3>1, <3>4 DEF W!IsEnumeratedInstance, W!HasState
        <3>6. e \in E
            BY <3>1, <3>5 DEF W!Enumerated
        <3> QED BY <1>2, <3>2, <3>6
    <2> DEFINE L == W!Enumerated(later, cwd)
    <2>4. found \in L /\ L \subseteq W!Above(cwd)
        BY <1>3, <2>2 DEF W!Enumerated
    <2> HIDE DEF L
    <2>5. W!Outermost(L) \in L /\ \A e \in L : Len(W!Outermost(L)) <= Len(e)
        BY <2>4, OutermostIs
    <2>6. Len(W!Outermost(L)) <= Len(found) /\ Len(found) <= Len(W!Outermost(L))
        BY <2>3, <2>4, <2>5 DEF L
    <2>7. Len(W!Outermost(L)) \in Nat /\ Len(found) \in Nat
        BY <1>3, <2>4, <2>5, AboveAre
    <2>8. Len(W!Outermost(L)) = Len(found)
        BY <2>6, <2>7
    <2>9. W!Outermost(L) = found
        BY <2>4, <2>5, <2>8, SameLengthSame
    <2> QED BY <2>4, <2>9 DEF W!FindInstance, L
<1>7. ASSUME at.class = "instance" PROVE W!IsPrefix(found, at.instance)
    <2>1. at.instance = W!DiscoverInstance(disk, cwd) /\ at.instance # Unset
        BY <1>7 DEF W!ClassifyCwd
    <2> DEFINE S == W!Above(cwd) \cap DOMAIN disk.state
    <2>2. found \in S
        BY <1>3 DEF W!IsEnumeratedInstance, W!HasState
    <2>3. at.instance = W!Nearest(S)
        BY <2>1, <2>2 DEF W!DiscoverInstance, W!NearestOr
    <2>4. W!Nearest(S) \in S /\ \A e \in S : Len(e) <= Len(W!Nearest(S))
        <3>1. S \subseteq W!Above(cwd) /\ S # {}
            BY <2>2
        <3> HIDE DEF S
        <3> QED BY <3>1, LongestIs
    <2>5. Len(found) <= Len(at.instance) /\ at.instance \in W!Above(cwd)
        BY <2>2, <2>3, <2>4
    <2> QED BY <1>3, <2>5, SameLengthSame
<1> QED BY <1>4, <1>5, <1>6, <1>7

-----------------------------------------------------------------------------
(* niwa worktree destroy: which worktrees a value stands for.                 *)

(* Worktrees and sessions as they are stored: an id is one record's, and times are numbers. *)
IsStored(q) ==
    /\ \A root, instance : IsFiniteSet(W!LoadMappings(q, root))
    /\ \A root : \A m \in W!LoadMappings(q, root) : m.created \in Int
    /\ \A instance : \A r, s \in W!Records(q, instance) : r.id = s.id => r = s

(* What a teardown's answer says. *)
Meant(q, arg, done) ==
    LET scope == W!ResolveDestroyScope(q)
        matches == W!MatchMappings(W!LoadMappings(q, scope.root), arg.value)
        own(x) == x[1] = scope.instance /\ \E r \in W!Records(q, x[1]) : r.id = x[2] /\ (r.id = arg.value \/ r.dir = arg.path)
    IN  /\ \A x \in done.removed :
              \/ own(x) /\ (matches = {} \/ arg.value = Unset)
              \/ \E m \in matches :
                    /\ matches = {m} /\ ~W!IsWorktreeIDOf(q, scope.instance, arg.value) /\ ~arg.force
                    /\ x[1] = m.dir /\ m.dir \in W!EnumerateInstances(q.disk, scope.root)
                    /\ ~\E o \in W!LoadMappings(q, scope.root) : o.dir = m.dir /\ o.created > m.created
                    /\ \A r \in W!Records(q, x[1]) : r.id = x[2] => W!IsLive(r) /\ r.kept = "no"
        /\ \A x, y \in done.removed : x[1] = y[1]
        /\ done.exit = 0 /\ matches # {} /\ arg.value # Unset =>
              \A m \in matches : m.dir \in q.disk.dirs =>
                  \A r \in W!Records(q, m.dir) : W!IsLive(r) => <<m.dir, r.id>> \in done.removed

(* What a removal takes it was allowed to, and success leaves nothing.       *)
LEMMA RemovalIs ==
    ASSUME NEW instance, NEW records, NEW force
    PROVE  LET q == W!Removal(instance, records, force)
           IN  /\ \A x \in q.removed : \E r \in records : x = <<instance, r.id>> /\ W!Takes(r, force)
               /\ \A x, y \in q.removed : x[1] = y[1]
               /\ q.exit = 0 => \A r \in records : <<instance, r.id>> \in q.removed
<1> DEFINE taken == {r \in records : W!Takes(r, force)}
           removed == {<<instance, r.id>> : r \in taken}
           q == W!Removal(instance, records, force)
<1>1. q = [removed |-> removed, exit |-> IF taken = records THEN 0 ELSE 1]
    BY DEF W!Removal
<1> HIDE DEF q
<1>2. q.removed = removed /\ (q.exit = 0 => taken = records)
    BY <1>1
<1>3. \A x \in removed : \E r \in records : x = <<instance, r.id>> /\ W!Takes(r, force)
    OBVIOUS
<1>4. \A x \in removed : x[1] = instance
    OBVIOUS
<1>5. taken = records => \A r \in records : <<instance, r.id>> \in removed
    OBVIOUS
<1> HIDE DEF taken, removed
<1> QED BY <1>2, <1>3, <1>4, <1>5 DEF q

(* An answer that removes nothing and is a failure is meant.                 *)
LEMMA NothingIsMeant ==
    ASSUME NEW q, NEW arg, NEW exit, exit # 0 PROVE Meant(q, arg, W!NoRemoval(exit))
<1>1. W!NoRemoval(exit).removed = {} /\ W!NoRemoval(exit).exit = exit
    BY DEF W!NoRemoval
<1> DEFINE done == W!NoRemoval(exit)
<1> HIDE DEF done
<1>2. done.removed = {} /\ done.exit # 0
    BY <1>1 DEF done
<1>3. Meant(q, arg, done)
    BY <1>2 DEF Meant
<1> QED BY <1>3 DEF done

(* What a path stands for is in the instance the command runs in.            *)
LEMMA PathIsMeant ==
    ASSUME NEW q, NEW arg, arg.value = Unset
    PROVE  Meant(q, arg, W!ByPath(q, arg.path, arg.force))
<1> DEFINE instance == W!ResolveInstanceRoot(q)
           there == {r \in W!Records(q, instance) : W!IsLive(r) /\ r.dir = arg.path}
           first == CHOOSE r \in there : TRUE
           done == W!Removal(instance, {first}, arg.force)
<1>1. W!ByPath(q, arg.path, arg.force) \in {W!NoRemoval(1), W!NoRemoval(3)}
      \/ (there # {} /\ W!ByPath(q, arg.path, arg.force) = done)
    BY DEF W!ByPath
<1>2. ASSUME there # {} PROVE Meant(q, arg, done)
    <2>1. first \in there
        BY <1>2
    <2>2. first \in W!Records(q, instance) /\ first.dir = arg.path
        BY <2>1
    <2>3. instance = W!ResolveDestroyScope(q).instance
        BY DEF W!ResolveDestroyScope
    <2> HIDE DEF first, instance, there
    <2>4. /\ \A x \in done.removed : \E r \in {first} : x = <<instance, r.id>> /\ W!Takes(r, arg.force)
          /\ \A x, y \in done.removed : x[1] = y[1]
        BY RemovalIs
    <2>5. \A x \in done.removed : x[1] = instance /\ x[2] = first.id
        BY <2>4
    <2> HIDE DEF done
    <2> QED BY <2>2, <2>3, <2>4, <2>5 DEF Meant
<1> HIDE DEF there, done
<1> QED BY <1>1, <1>2, NothingIsMeant

(* What a worktree's id stands for is in the instance the command runs in.   *)
LEMMA WorktreeIsMeant ==
    ASSUME NEW q, NEW arg,
           W!MatchMappings(W!LoadMappings(q, W!ResolveDestroyScope(q).root), arg.value) = {}
    PROVE  LET scope == W!ResolveDestroyScope(q)
           IN  Meant(q, arg, W!Removal(scope.instance, {r \in W!Records(q, scope.instance) : r.id = arg.value}, arg.force))
<1> DEFINE instance == W!ResolveDestroyScope(q).instance
           records == {r \in W!Records(q, instance) : r.id = arg.value}
           done == W!Removal(instance, records, arg.force)
<1>1. /\ \A x \in done.removed : \E r \in records : x = <<instance, r.id>> /\ W!Takes(r, arg.force)
      /\ \A x, y \in done.removed : x[1] = y[1]
    BY RemovalIs
<1>2. \A x \in done.removed : x[1] = instance /\ \E r \in W!Records(q, instance) : r.id = x[2] /\ r.id = arg.value
    BY <1>1
<1> HIDE DEF done, records
<1>3. Meant(q, arg, done)
    BY <1>1, <1>2 DEF Meant
<1> QED BY <1>3 DEF done, records

(* What a session's handle stands for is in the instance of its newest       *)
(* mapping.                                                                  *)
LEMMA SessionIsMeant ==
    ASSUME NEW q, NEW arg, NEW m, IsStored(q), arg.force \in BOOLEAN,
           W!MatchMappings(W!LoadMappings(q, W!ResolveDestroyScope(q).root), arg.value) = {m},
           ~W!IsWorktreeIDOf(q, W!ResolveDestroyScope(q).instance, arg.value)
    PROVE  Meant(q, arg, W!BySession(q, W!ResolveDestroyScope(q), m, arg.force))
<1> DEFINE scope == W!ResolveDestroyScope(q)
           what == W!CheckSessionInstance(q, scope.root, m)
           live == {r \in W!Records(q, m.dir) : W!IsLive(r)}
           done == W!Removal(m.dir, live, FALSE)
           q0 == W!BySession(q, scope, m, arg.force)
<1>1. \/ q0 \in {W!NoRemoval(1), W!NoRemoval(2)}
      \/ what = "gone" /\ q0 = W!NoRemoval(0)
      \/ ~arg.force /\ what = "backed" /\ q0 = done
    BY DEF W!BySession, W!CheckSessionInstance
<1>2. /\ what = "gone" => m.dir \notin q.disk.dirs
      /\ what = "backed" => m.dir \in W!EnumerateInstances(q.disk, scope.root) /\ W!IsNewest(W!LoadMappings(q, scope.root), m)
    BY DEF W!CheckSessionInstance
<1>3. ASSUME what = "gone" PROVE Meant(q, arg, W!NoRemoval(0))
    <2> DEFINE none == W!NoRemoval(0)
    <2>1. none.removed = {}
        BY DEF W!NoRemoval
    <2> HIDE DEF none
    <2>2. Meant(q, arg, none)
        BY <1>2, <1>3, <2>1 DEF Meant
    <2> QED BY <2>2 DEF none
<1>4. ASSUME ~arg.force, what = "backed" PROVE Meant(q, arg, done)
    <2>1. /\ \A x \in done.removed : \E r \in live : x = <<m.dir, r.id>> /\ W!Takes(r, FALSE)
          /\ \A x, y \in done.removed : x[1] = y[1]
          /\ done.exit = 0 => \A r \in live : <<m.dir, r.id>> \in done.removed
        <3> HIDE DEF live
        <3> QED BY RemovalIs
    <2>2. \A x \in done.removed : x[1] = m.dir /\ \A r \in W!Records(q, m.dir) : r.id = x[2] => W!IsLive(r) /\ r.kept = "no"
        <3> TAKE x \in done.removed
        <3>1. PICK r \in live : x = <<m.dir, r.id>> /\ W!Takes(r, FALSE)
            BY <2>1
        <3>2. W!IsLive(r) /\ r.kept = "no" /\ r \in W!Records(q, m.dir)
            BY <3>1 DEF W!Takes
        <3>3. \A s \in W!Records(q, m.dir) : s.id = r.id => s = r
            BY <3>2 DEF IsStored
        <3> QED BY <3>1, <3>2, <3>3
    <2>3. ~\E o \in W!LoadMappings(q, scope.root) : o.dir = m.dir /\ o.created > m.created
        <3>1. SUFFICES ASSUME NEW o \in W!LoadMappings(q, scope.root), o.dir = m.dir, o.created > m.created PROVE FALSE
            OBVIOUS
        <3>2. m \in W!LoadMappings(q, scope.root)
            BY DEF W!MatchMappings
        <3>3. o.created \in Int /\ m.created \in Int
            BY <3>2 DEF IsStored
        <3>4. o # m => o.created < m.created \/ o.created = m.created
            BY <1>2, <1>4, <3>1 DEF W!IsNewest
        <3> QED BY <3>1, <3>3, <3>4
    <2>4. done.exit = 0 => \A r \in W!Records(q, m.dir) : W!IsLive(r) => <<m.dir, r.id>> \in done.removed
        BY <2>1
    <2>5. m.dir \in W!EnumerateInstances(q.disk, scope.root)
        BY <1>2, <1>4
    <2> HIDE DEF done, live, what
    <2> QED BY <1>4, <2>1, <2>2, <2>3, <2>4, <2>5 DEF Meant
<1> HIDE DEF what, done
<1>5. CASE q0 \in {W!NoRemoval(1), W!NoRemoval(2)}
    BY <1>5, NothingIsMeant
<1> QED BY <1>1, <1>3, <1>4, <1>5

(* Whatever the mappings, the records and the value: a session's worktrees   *)
(* are never removed by force and only in the instance its newest mapping    *)
(* names, and a value that may mean two things removes nothing               *)
(* (resolveDestroyTarget and destroySessionWorktrees,                        *)
(* cli/worktree_destroy_resolve.go).                                         *)
THEOREM EveryTeardownIsMeant ==
    ASSUME NEW q, NEW arg, IsStored(q), arg.force \in BOOLEAN
    PROVE  W!TeardownIsMeant(q, arg)
<1> DEFINE scope == W!ResolveDestroyScope(q)
           matches == W!MatchMappings(W!LoadMappings(q, scope.root), arg.value)
           target == W!ResolveDestroyTarget(q, scope, arg.value)
           done == W!RunSessionDestroy(q, arg)
           worktree == W!Removal(scope.instance, {r \in W!Records(q, scope.instance) : r.id = arg.value}, arg.force)
           is(kind, m) == [kind |-> kind, mapping |-> m]
<1>1. target = IF W!IsWorktreeIDOf(q, scope.instance, arg.value)
        THEN is(IF matches = {} THEN "worktree" ELSE "ambiguous", Unset)
        ELSE IF W!Cardinality(matches) = 1 THEN is("session", CHOOSE m \in matches : TRUE)
        ELSE is(IF matches = {} THEN "none" ELSE "ambiguous", Unset)
    BY DEF W!ResolveDestroyTarget
<1>2. \A kind, m : is(kind, m).kind = kind /\ is(kind, m).mapping = m
    OBVIOUS
<1>3. IsFiniteSet(matches)
    <2>1. matches \subseteq W!LoadMappings(q, scope.root) /\ IsFiniteSet(W!LoadMappings(q, scope.root))
        BY DEF W!MatchMappings, IsStored
    <2> HIDE DEF matches
    <2> QED BY <2>1, FS_Subset
<1>4. W!Cardinality(matches) = 1 => matches = {CHOOSE m \in matches : TRUE}
    <2> HIDE DEF matches
    <2>1. W!Cardinality(matches) = 1 => \E x : matches = {x}
        BY <1>3, FS_Singleton, SameSize
    <2> QED BY <2>1
<1> HIDE DEF target, is
<1>5. /\ target.kind = "worktree" => matches = {}
      /\ target.kind = "session" => matches = {target.mapping} /\ ~W!IsWorktreeIDOf(q, scope.instance, arg.value)
    <2> HIDE DEF matches, scope
    <2> DEFINE own == W!IsWorktreeIDOf(q, scope.instance, arg.value)
               one == W!Cardinality(matches) = 1
               first == CHOOSE m \in matches : TRUE
    <2> HIDE DEF own, one, first
    <2>1. target = IF own THEN is(IF matches = {} THEN "worktree" ELSE "ambiguous", Unset)
                   ELSE IF one THEN is("session", first)
                   ELSE is(IF matches = {} THEN "none" ELSE "ambiguous", Unset)
        BY <1>1 DEF own, one, first
    <2>2. one => matches = {first}
        BY <1>4 DEF one, first
    <2>3. CASE own
        BY <1>2, <2>1, <2>3
    <2>4. CASE ~own /\ one
        BY <1>2, <2>1, <2>2, <2>4 DEF own
    <2>5. CASE ~own /\ ~one
        BY <1>2, <2>1, <2>5
    <2> QED BY <2>3, <2>4, <2>5
<1>6. \/ done \in {W!NoRemoval(1), W!NoRemoval(2), W!NoRemoval(3), W!NoRemoval(4)}
      \/ arg.value = Unset /\ done = W!ByPath(q, arg.path, arg.force)
      \/ target.kind = "worktree" /\ done = worktree
      \/ target.kind = "session" /\ done = W!BySession(q, scope, target.mapping, arg.force)
    BY DEF W!RunSessionDestroy, target
<1> HIDE DEF done
<1>0. SUFFICES Meant(q, arg, done)
    BY DEF Meant, W!TeardownIsMeant, done
<1>7. CASE done \in {W!NoRemoval(1), W!NoRemoval(2), W!NoRemoval(3), W!NoRemoval(4)}
    <2>1. \A exit \in 1 .. 4 : Meant(q, arg, W!NoRemoval(exit))
        BY NothingIsMeant
    <2> QED BY <1>7, <2>1
<1>8. CASE target.kind = "worktree" /\ done = worktree
    <2>1. matches = {}
        BY <1>5, <1>8
    <2>2. Meant(q, arg, worktree)
        BY <2>1, WorktreeIsMeant
    <2> QED BY <1>8, <2>2
<1>9. CASE target.kind = "session" /\ done = W!BySession(q, scope, target.mapping, arg.force)
    <2>1. matches = {target.mapping} /\ ~W!IsWorktreeIDOf(q, scope.instance, arg.value)
        BY <1>5, <1>9
    <2>2. Meant(q, arg, W!BySession(q, scope, target.mapping, arg.force))
        BY <2>1, SessionIsMeant
    <2> QED BY <1>9, <2>2
<1> HIDE DEF worktree
<1>10. arg.value = Unset => Meant(q, arg, W!ByPath(q, arg.path, arg.force))
    BY PathIsMeant
<1> QED BY <1>6, <1>7, <1>8, <1>9, <1>10

-----------------------------------------------------------------------------
(* niwa worktree from-hook and the guard beside it.                           *)

(* A hook's question: directories are paths of names, of which none stands for nothing. *)
IsHook(h, Name) ==
    /\ h.disk.dirs \subseteq Seq(Name) /\ Unset \notin Seq(Name)
    /\ h.disk = [dirs |-> h.disk.dirs, config |-> h.disk.config, state |-> h.disk.state, valid |-> h.disk.valid,
                 clones |-> h.disk.clones, rank |-> h.disk.rank]
    /\ h.cwd \in Seq(Name) /\ h.name \in Seq(Name)

(* The instance a hook finds is the one its session was launched in or       *)
(* directly above.                                                           *)
LEMMA HookInstanceIs ==
    ASSUME NEW disk, NEW Name, disk.dirs \subseteq Seq(Name), NEW anchor, NEW target,
           W!ResolveHookInstance(disk, anchor, target) # Unset
    PROVE  LET i == W!ResolveHookInstance(disk, anchor, target)
           IN  /\ anchor \in disk.dirs /\ target \in disk.dirs /\ W!IsPrefix(i, target)
               /\ \/ i \in W!Above(anchor) /\ i = W!DiscoverHookInstance(disk, anchor) /\ W!IsPrefix(i, anchor)
                  \/ /\ W!DiscoverHookInstance(disk, anchor) = Unset /\ anchor \in disk.config
                     /\ i \in W!EnumerateInstances(disk, anchor)
<1> DEFINE own == W!DiscoverHookInstance(disk, anchor)
           around == {i \in W!EnumerateInstances(disk, anchor) : W!IsPrefix(i, target)}
           i == W!ResolveHookInstance(disk, anchor, target)
           first == CHOOSE x \in around : TRUE
<1>1. i = IF ~{anchor, target} \subseteq disk.dirs THEN Unset
        ELSE IF own # Unset THEN IF W!IsPrefix(own, target) THEN own ELSE Unset
        ELSE IF anchor \in disk.config /\ around # {} THEN first
        ELSE Unset
    BY DEF W!ResolveHookInstance
<1>2. around # {} => first \in around
    OBVIOUS
<1>3. around # {} => first \in W!EnumerateInstances(disk, anchor) /\ W!IsPrefix(first, target)
    BY <1>2
<1>4. own # Unset => own = W!DiscoverInstance(disk, anchor)
    BY DEF W!DiscoverHookInstance
<1>5. anchor \in disk.dirs /\ own # Unset => own \in W!Above(anchor) /\ W!IsPrefix(own, anchor)
    <2>1. SUFFICES ASSUME anchor \in disk.dirs, own # Unset PROVE own \in W!Above(anchor) /\ W!IsPrefix(own, anchor)
        OBVIOUS
    <2>2. anchor \in Seq(Name)
        BY <2>1
    <2>3. own \in W!Above(anchor)
        BY <1>4, <2>1, <2>2, NearestIs DEF W!DiscoverInstance
    <2> QED BY <2>2, <2>3, AboveAre
<1> HIDE DEF own, around, first, i
<1> QED BY <1>1, <1>3, <1>5 DEF own, i

(* A slug of a slash and nothing after it. *)
Nameless == <<"">>

(* The worktree of a hook as the cases of its resolution leave it. *)
Targeted(h, t) ==
    LET i == W!ResolveHookInstance(h.disk, h.anchor, h.cwd)
        within == W!Within(W!RepoCandidates(h.disk, i), h.cwd)
    IN  /\ i # Unset /\ ~W!Says(h, i).optedOut /\ t.instance = i
        /\ t.repo \in {W!Base(d) : d \in W!RepoCandidates(h.disk, i)}
        /\ \/ /\ t.by = "prefix"
              /\ \E k \in 1 .. 2 : /\ Len(h.name) > k /\ t.repo = h.name[k]
                                   /\ t.slug = SubSeq(h.name, k + 1, Len(h.name)) /\ t.slug # Nameless
           \/ t.by \in {"cwd", "only", "worktree"} /\ t.slug = h.name
           \/ t.by \in {"env", "config"} /\ t.slug = h.name /\ ~(Len(h.name) > 1)
           \/ /\ t.by = "first" /\ t.slug = h.name /\ ~(Len(h.name) > 1)
              /\ h.env = Unset /\ W!Says(h, i).default = Unset /\ within = {}

(* The fields of a target.                                                   *)
LEMMA TargetHas == \A i, repo, slug, by :
    /\ W!Target(i, repo, slug, by).instance = i /\ W!Target(i, repo, slug, by).repo = repo
    /\ W!Target(i, repo, slug, by).slug = slug /\ W!Target(i, repo, slug, by).by = by
BY DEF W!Target

(* A prefix leaves a target with the rest of the name, or none.              *)
LEMMA PrefixedIs ==
    ASSUME NEW h, NEW i, NEW k
    PROVE  LET rest == SubSeq(h.name, k + 1, Len(h.name))
           IN  W!Prefixed(h, i, k) = W!NoTarget
               \/ (rest # Nameless /\ W!Prefixed(h, i, k) = W!Target(i, h.name[k], rest, "prefix"))
<1> DEFINE rest == SubSeq(h.name, k + 1, Len(h.name))
           none == W!NoTarget
           some == W!Target(i, h.name[k], rest, "prefix")
           empty == rest = Nameless
<1>1. W!Prefixed(h, i, k) = IF empty THEN none ELSE some
    BY Zenon DEF W!Prefixed, Nameless
<1>2. ~empty => rest # Nameless
    OBVIOUS
<1> HIDE DEF rest, none, some, empty
<1> QED BY <1>1, <1>2 DEF rest, none, some

(* What a hook resolves to is one of the targets told above.                 *)
LEMMA Resolved ==
    ASSUME NEW h, W!ResolveHookTarget(h) # W!NoTarget
    PROVE  Targeted(h, W!ResolveHookTarget(h))
<1> DEFINE i == W!ResolveHookInstance(h.disk, h.anchor, h.cwd)
           clones == W!RepoCandidates(h.disk, i)
           names == {W!Base(d) : d \in clones}
           within == W!Within(clones, h.cwd)
           segments == Len(h.name)
           take(repo, by) == IF repo \in names THEN W!Target(i, repo, h.name, by) ELSE W!NoTarget
           pair == \E d \in clones : W!Group(d) = h.name[1] /\ W!Base(d) = h.name[2]
           inner == W!InnermostRepo(W!Around(h, i, names))
           here == W!Base(CHOOSE d \in within : TRUE)
           only == CHOOSE n \in names : TRUE
           first == W!Base(W!DefaultHookRepo(h.disk, clones))
           t == W!ResolveHookTarget(h)
<1>1. t = IF i = Unset THEN W!NoTarget
        ELSE IF W!Says(h, i).optedOut THEN W!NoTarget
        ELSE IF segments > 2 /\ pair THEN W!Prefixed(h, i, 2)
        ELSE IF segments > 1 /\ h.name[1] \in names THEN W!Prefixed(h, i, 1)
        ELSE IF W!NamesMissing(W!Says(h, i).lists, h.name) THEN W!NoTarget
        ELSE IF within # {} THEN take(here, "cwd")
        ELSE IF W!Cardinality(clones) = 1 THEN take(only, "only")
        ELSE IF W!Around(h, i, names) # {} THEN take(inner, "worktree")
        ELSE IF clones = {} \/ segments > 1 THEN W!NoTarget
        ELSE IF h.env # Unset THEN take(h.env, "env")
        ELSE IF W!Says(h, i).default # Unset THEN take(W!Says(h, i).default, "config")
        ELSE take(first, "first")
    BY DEF W!ResolveHookTarget
<1>2. pair => h.name[2] \in names
    OBVIOUS
<1>3. \A repo, by : take(repo, by) = W!NoTarget \/ (repo \in names /\ take(repo, by) = W!Target(i, repo, h.name, by))
    OBVIOUS
<1> DEFINE Goal == Targeted(h, t)
<1>0. SUFFICES Goal
    OBVIOUS
<1>4. Goal <=> /\ i # Unset /\ ~W!Says(h, i).optedOut /\ t.instance = i
               /\ t.repo \in names
               /\ \/ /\ t.by = "prefix"
                     /\ \E k \in 1 .. 2 : /\ segments > k /\ t.repo = h.name[k]
                                          /\ t.slug = SubSeq(h.name, k + 1, segments) /\ t.slug # Nameless
                  \/ t.by \in {"cwd", "only", "worktree"} /\ t.slug = h.name
                  \/ t.by \in {"env", "config"} /\ t.slug = h.name /\ ~(segments > 1)
                  \/ /\ t.by = "first" /\ t.slug = h.name /\ ~(segments > 1)
                     /\ h.env = Unset /\ W!Says(h, i).default = Unset /\ within = {}
    BY DEF Targeted
<1> HIDE DEF Goal, take, here, only, first, pair, inner, names, within, clones, i
<1>5. t # W!NoTarget
    OBVIOUS
<1> HIDE DEF t, segments
<1>6. i # Unset /\ ~W!Says(h, i).optedOut
    BY <1>1, <1>5
<1>7. ASSUME NEW k \in 1 .. 2, segments > k, h.name[k] \in names, t = W!Prefixed(h, i, k) PROVE Goal
    <2>1. /\ SubSeq(h.name, k + 1, Len(h.name)) # Nameless
          /\ t = W!Target(i, h.name[k], SubSeq(h.name, k + 1, Len(h.name)), "prefix")
        BY <1>5, <1>7, PrefixedIs
    <2>2. \A r, s, b : t = W!Target(i, r, s, b) => t.instance = i /\ t.repo = r /\ t.slug = s /\ t.by = b
        BY TargetHas
    <2>3. t.instance = i /\ t.repo = h.name[k] /\ t.slug = SubSeq(h.name, k + 1, Len(h.name)) /\ t.by = "prefix"
        BY <2>1, <2>2
    <2> QED BY <1>4, <1>6, <1>7, <2>1, <2>3 DEF segments
<1>8. ASSUME NEW repo, NEW by, t = take(repo, by) 
      PROVE t.instance = i /\ t.repo \in names /\ t.slug = h.name /\ t.by = by
    BY <1>3, <1>5, <1>8, TargetHas
<1>9. CASE segments > 2 /\ pair
    BY <1>1, <1>2, <1>6, <1>7, <1>9
<1>10. CASE ~(segments > 2 /\ pair) /\ segments > 1 /\ h.name[1] \in names
    BY <1>1, <1>6, <1>7, <1>10
<1>11. CASE ~(segments > 2 /\ pair) /\ ~(segments > 1 /\ h.name[1] \in names)
    <2>1. \/ t = take(here, "cwd") \/ t = take(only, "only") \/ t = take(inner, "worktree")
          \/ (~(segments > 1) /\ t = take(h.env, "env"))
          \/ (~(segments > 1) /\ t = take(W!Says(h, i).default, "config"))
          \/ (~(segments > 1) /\ h.env = Unset /\ W!Says(h, i).default = Unset /\ within = {} /\ t = take(first, "first"))
        BY <1>1, <1>5, <1>6, <1>11
    <2>2. ASSUME NEW repo, NEW by, by \in {"cwd", "only", "worktree"}, t = take(repo, by) PROVE Goal
        BY <1>4, <1>6, <1>8, <2>2
    <2>3. ASSUME NEW repo, NEW by, by \in {"env", "config"}, ~(segments > 1), t = take(repo, by) PROVE Goal
        BY <1>4, <1>6, <1>8, <2>3
    <2>4. ASSUME ~(segments > 1), h.env = Unset, W!Says(h, i).default = Unset, within = {}, t = take(first, "first") PROVE Goal
        BY <1>4, <1>6, <1>8, <2>4
    <2> QED BY <2>1, <2>2, <2>3, <2>4
<1> QED BY <1>9, <1>10, <1>11

(* A name is what is before a segment of it, the segment and the rest.       *)
LEMMA NameIsSplit ==
    ASSUME NEW Name, NEW name \in Seq(Name), NEW k \in 1 .. 2, Len(name) > k
    PROVE  /\ name = SubSeq(name, 1, k - 1) \o <<name[k]>> \o SubSeq(name, k + 1, Len(name))
           /\ SubSeq(name, k + 1, Len(name)) # <<>>
<1> DEFINE rest == SubSeq(name, k + 1, Len(name))
           start == SubSeq(name, 1, k - 1)
<1>1. rest \in Seq(Name) /\ Len(rest) = Len(name) - k /\ \A j \in 1 .. Len(rest) : rest[j] = name[k + j]
    OBVIOUS
<1>2. start \in Seq(Name) /\ Len(start) = k - 1 /\ \A j \in 1 .. k - 1 : start[j] = name[j]
    OBVIOUS
<1>3. <<name[k]>> \in Seq(Name) /\ Len(<<name[k]>>) = 1 /\ <<name[k]>>[1] = name[k]
    OBVIOUS
<1> DEFINE middle == <<name[k]>>
<1> HIDE DEF rest, start, middle
<1>4. start \o middle \in Seq(Name) /\ Len(start \o middle) = k /\ \A j \in 1 .. k : (start \o middle)[j] = name[j]
    <2>1. start \o middle \in Seq(Name) /\ Len(start \o middle) = k
        BY <1>2, <1>3 DEF middle
    <2>2. \A j \in 1 .. k - 1 : (start \o middle)[j] = start[j]
        BY <1>2, <1>3 DEF middle
    <2>3. (start \o middle)[k] = name[k]
        BY <1>2, <1>3 DEF middle
    <2> QED BY <1>2, <2>1, <2>2, <2>3
<1> DEFINE front == start \o middle
<1> HIDE DEF front
<1>5. front \in Seq(Name) /\ Len(front) = k /\ \A j \in 1 .. k : front[j] = name[j]
    BY <1>4 DEF front
<1>6. front \o rest \in Seq(Name) /\ Len(front \o rest) = Len(name)
    BY <1>1, <1>5
<1> DEFINE whole == front \o rest
<1>7. \A j \in 1 .. Len(name) : whole[j] = name[j]
    <2> SUFFICES ASSUME NEW j \in 1 .. Len(name) PROVE whole[j] = name[j]
        OBVIOUS
    <2>1. j <= k => whole[j] = name[j]
        BY <1>1, <1>5
    <2>2. ASSUME j > k PROVE whole[j] = name[j]
        <3>1. whole[j] = rest[j - k] /\ j - k \in 1 .. Len(rest)
            BY <1>1, <1>5, <2>2
        <3>2. rest[j - k] = name[k + (j - k)]
            BY <1>1, <3>1
        <3>3. k + (j - k) = j
            OBVIOUS
        <3> QED BY <3>1, <3>2, <3>3
    <2>3. j <= k \/ j > k
        OBVIOUS
    <2> HIDE DEF whole
    <2> QED BY <2>1, <2>2, <2>3
<1>10. whole \in Seq(Name) /\ Len(whole) = Len(name)
    BY <1>6
<1> HIDE DEF whole
<1>8. whole = name
    BY <1>10, <1>7
<1>9. rest # <<>>
    BY <1>1
<1> QED BY <1>8, <1>9 DEF whole, front, start, middle, rest

(* What a directory planted elsewhere leaves as it was for the session that looks. *)
Unseen(disk, later, Name, planted, anchor, target) ==
    /\ disk.dirs \subseteq Seq(Name) /\ planted \subseteq Seq(Name) /\ Unset \notin Seq(Name)
    /\ later.dirs = disk.dirs /\ later.valid = disk.valid /\ later.config = disk.config \cup planted
    /\ DOMAIN later.state = DOMAIN disk.state \cup planted
    /\ \A d \in DOMAIN disk.state : later.state[d] = disk.state[d]
    /\ W!ResolveHookInstance(disk, anchor, target) # Unset
    /\ \A d \in planted :
          /\ ~W!IsPrefix(d, anchor) /\ ~W!IsChildOf(anchor, d)
          /\ W!ResolveHookInstance(disk, anchor, target) \in disk.config =>
                ~W!IsChildOf(W!ResolveHookInstance(disk, anchor, target), d)

(* The session finds the instance it found before.                           *)
LEMMA PlantingIsNotSeen ==
    ASSUME NEW disk, NEW later, NEW Name, NEW planted, NEW anchor, NEW target,
           Unseen(disk, later, Name, planted, anchor, target)
    PROVE  W!ResolveHookInstance(later, anchor, target) = W!ResolveHookInstance(disk, anchor, target)
<1> USE DEF Unseen
<1> DEFINE i == W!ResolveHookInstance(disk, anchor, target)
           own == W!DiscoverHookInstance(disk, anchor)
           at == W!DiscoverInstance(disk, anchor)
<1>1. anchor \in disk.dirs /\ target \in disk.dirs /\ anchor \in Seq(Name)
    BY HookInstanceIs
<1>2. \A d \in W!Above(anchor) : d \notin planted
    <2> TAKE d \in W!Above(anchor)
    <2>1. W!IsPrefix(d, anchor)
        BY <1>1, AboveAre
    <2> QED BY <2>1
<1>3. W!DiscoverInstance(later, anchor) = at
    <2>1. W!Above(anchor) \cap DOMAIN later.state = W!Above(anchor) \cap DOMAIN disk.state
        BY <1>2
    <2> QED BY <2>1 DEF W!DiscoverInstance
<1>4. at # Unset => at \in W!Above(anchor) /\ at \in DOMAIN disk.state
    <2>1. W!Above(anchor) \cap DOMAIN disk.state \subseteq W!Above(anchor)
        OBVIOUS
    <2> QED BY <1>1, <2>1, NearestIs DEF W!DiscoverInstance
<1>5. at \in later.config <=> at \in disk.config
    BY <1>2, <1>4
<1>6. \A d : d \notin planted => (W!HasState(later, d) <=> W!HasState(disk, d))
    BY DEF W!HasState
<1>7. ASSUME NEW root, \A d \in planted : ~W!IsChildOf(root, d)
      PROVE  W!EnumerateInstances(later, root) = W!EnumerateInstances(disk, root)
    BY <1>6, <1>7 DEF W!EnumerateInstances
<1>8. W!EnumerateInstances(disk, at) \subseteq W!EnumerateInstances(later, at)
    BY DEF W!EnumerateInstances, W!HasState
<1>9. own # Unset => own = at /\ (at \in disk.config => W!IsSingleInstanceLayout(disk, at)) /\ i = own
    <2>1. own # Unset => own = at /\ (at \in disk.config => W!IsSingleInstanceLayout(disk, at))
        BY DEF W!DiscoverHookInstance
    <2>2. own # Unset => i = own
        BY DEF W!ResolveHookInstance
    <2> QED BY <2>1, <2>2
<1>10. at # Unset => later.state[at] = disk.state[at] /\ W!HasState(later, at) /\ W!HasState(disk, at)
    BY <1>4 DEF W!HasState
<1>11. W!DiscoverHookInstance(later, anchor) = own
    <2>1. CASE own # Unset
        <3>1. at \in disk.config => W!IsSingleInstanceLayout(later, at)
            <4>1. SUFFICES ASSUME at \in disk.config PROVE W!IsSingleInstanceLayout(later, at)
                OBVIOUS
            <4>2. \A d \in planted : ~W!IsChildOf(at, d)
                BY <1>9, <2>1, <4>1
            <4>3. W!EnumerateInstances(later, at) = W!EnumerateInstances(disk, at)
                BY <1>7, <4>2
            <4> QED BY <1>9, <1>10, <2>1, <4>1, <4>3 DEF W!IsSingleInstanceLayout
        <3> QED BY <1>3, <1>5, <1>9, <2>1, <3>1 DEF W!DiscoverHookInstance
    <2>2. CASE own = Unset /\ at # Unset
        <3>1. at \in disk.config /\ ~W!IsSingleInstanceLayout(disk, at)
            BY <2>2 DEF W!DiscoverHookInstance
        <3>2. ~W!IsSingleInstanceLayout(later, at)
            BY <1>8, <1>10, <2>2, <3>1 DEF W!IsSingleInstanceLayout
        <3> QED BY <1>3, <1>5, <2>2, <3>1, <3>2 DEF W!DiscoverHookInstance
    <2>3. CASE own = Unset /\ at = Unset
        BY <1>3, <2>3 DEF W!DiscoverHookInstance
    <2> QED BY <2>1, <2>2, <2>3
<1>12. W!EnumerateInstances(later, anchor) = W!EnumerateInstances(disk, anchor)
    BY <1>7
<1>13. anchor \in later.config <=> anchor \in disk.config
    <2>1. anchor \in W!Above(anchor)
        <3>1. Len(anchor) \in 0 .. Len(anchor) /\ SubSeq(anchor, 1, Len(anchor)) = anchor
            BY <1>1
        <3> QED BY <3>1 DEF W!Above
    <2> QED BY <1>2, <2>1
<1> QED BY <1>11, <1>12, <1>13 DEF W!ResolveHookInstance

(* On every disk and for every name: a hook's worktree is of a repository    *)
(* cloned in the instance its session was launched in or directly above,     *)
(* whatever is planted elsewhere; what is named is what it gets, and a name  *)
(* with a slash is never given a default (ResolveHookTarget,                 *)
(* workspace/hook_target.go).                                                *)
THEOREM EveryHookStaysInItsInstance ==
    ASSUME NEW h, NEW Name, IsHook(h, Name), NEW planted, planted \subseteq Seq(Name)
    PROVE  W!HookStaysInItsInstance(h, planted)
<1> DEFINE target == W!ResolveHookTarget(h)
           i == target.instance
           states == [d \in DOMAIN h.disk.state \cup planted |-> W!At(h.disk.state, d, Unset)]
           later == [h.disk EXCEPT !.config = @ \cup planted,
                                   !.state = [d \in DOMAIN @ \cup planted |-> W!At(@, d, Unset)]]
           elsewhere == \A d \in planted :
                           /\ ~W!IsPrefix(d, h.anchor) /\ ~W!IsChildOf(h.anchor, d)
                           /\ i \in h.disk.config => ~W!IsChildOf(i, d)
<1>1. /\ later.dirs = h.disk.dirs /\ later.valid = h.disk.valid
      /\ later.config = h.disk.config \cup planted
      /\ DOMAIN later.state = DOMAIN h.disk.state \cup planted
      /\ \A d \in DOMAIN h.disk.state : later.state[d] = h.disk.state[d]
    <2>1. later = [h.disk EXCEPT !.config = h.disk.config \cup planted, !.state = states]
        OBVIOUS
    <2>2. DOMAIN states = DOMAIN h.disk.state \cup planted /\ \A d \in DOMAIN h.disk.state : states[d] = h.disk.state[d]
        BY DEF W!At
    <2> HIDE DEF later, states
    <2> QED BY <2>1, <2>2 DEF IsHook
<1> HIDE DEF target, later
<1> SUFFICES ASSUME target # W!NoTarget
             PROVE  /\ W!IsPrefix(i, h.anchor) \/ W!IsChildOf(h.anchor, i)
                    /\ W!IsPrefix(i, h.cwd) /\ ~W!Says(h, i).optedOut
                    /\ target.repo \in {W!Base(d) : d \in W!RepoCandidates(h.disk, i)}
                    /\ elsewhere => W!ResolveHookInstance(later, h.anchor, h.cwd) = i
                    /\ Len(h.name) > 1 => target.by \in {"prefix", "cwd", "only", "worktree"}
                    /\ target.by = "prefix" =>
                          /\ target.slug # <<>> /\ target.slug # Nameless
                          /\ \E k \in 1 .. 2 : h.name = SubSeq(h.name, 1, k - 1) \o <<target.repo>> \o target.slug
                    /\ target.by # "prefix" => target.slug = h.name
                    /\ target.by = "first" =>
                          /\ h.env = Unset /\ W!Says(h, i).default = Unset
                          /\ ~\E d \in W!RepoCandidates(h.disk, i) : W!IsPrefix(d, h.cwd)
    BY Zenon DEF W!HookStaysInItsInstance, Nameless, target, later
<1>2. Targeted(h, target)
    BY Resolved DEF target
<1>3. i = W!ResolveHookInstance(h.disk, h.anchor, h.cwd) /\ i # Unset
    BY <1>2 DEF Targeted
<1>4. h.disk.dirs \subseteq Seq(Name) /\ Unset \notin Seq(Name) /\ h.name \in Seq(Name)
    BY DEF IsHook
<1>5. W!IsPrefix(i, h.cwd) /\ (W!IsPrefix(i, h.anchor) \/ W!IsChildOf(h.anchor, i))
    <2>1. W!EnumerateInstances(h.disk, h.anchor) \subseteq {d \in h.disk.dirs : W!IsChildOf(h.anchor, d)}
        BY DEF W!EnumerateInstances
    <2> QED BY <1>3, <1>4, <2>1, HookInstanceIs
<1>6. ASSUME elsewhere PROVE W!ResolveHookInstance(later, h.anchor, h.cwd) = i
    <2> DEFINE at == W!ResolveHookInstance(h.disk, h.anchor, h.cwd)
    <2>1. \A d \in planted : ~W!IsPrefix(d, h.anchor) /\ ~W!IsChildOf(h.anchor, d) /\ (at \in h.disk.config => ~W!IsChildOf(at, d))
        BY <1>3, <1>6
    <2>2. at # Unset /\ i = at
        BY <1>3
    <2> HIDE DEF i
    <2>3. W!ResolveHookInstance(later, h.anchor, h.cwd) = at
        <3> DEFINE disk == h.disk
                   anchor == h.anchor
                   cwd == h.cwd
        <3>1. /\ disk.dirs \subseteq Seq(Name) /\ Unset \notin Seq(Name)
              /\ later.dirs = disk.dirs /\ later.valid = disk.valid /\ later.config = disk.config \cup planted
              /\ DOMAIN later.state = DOMAIN disk.state \cup planted
              /\ \A d \in DOMAIN disk.state : later.state[d] = disk.state[d]
            BY <1>1, <1>4
        <3>2. /\ W!ResolveHookInstance(disk, anchor, cwd) # Unset
              /\ \A d \in planted :
                   /\ ~W!IsPrefix(d, anchor) /\ ~W!IsChildOf(anchor, d)
                   /\ W!ResolveHookInstance(disk, anchor, cwd) \in disk.config =>
                         ~W!IsChildOf(W!ResolveHookInstance(disk, anchor, cwd), d)
            BY <2>1, <2>2
        <3> HIDE DEF disk, anchor, cwd
        <3>3. W!ResolveHookInstance(later, anchor, cwd) = W!ResolveHookInstance(disk, anchor, cwd)
            <4>1. Unseen(disk, later, Name, planted, anchor, cwd)
                BY <3>1, <3>2 DEF Unseen
            <4> QED BY <4>1, PlantingIsNotSeen
        <3> QED BY <3>3 DEF disk, anchor, cwd
    <2> QED BY <2>2, <2>3
<1>7. ASSUME target.by = "prefix"
      PROVE  /\ target.slug # <<>> /\ target.slug # Nameless
             /\ \E k \in 1 .. 2 : h.name = SubSeq(h.name, 1, k - 1) \o <<target.repo>> \o target.slug
    <2>1. PICK k \in 1 .. 2 : /\ Len(h.name) > k /\ target.repo = h.name[k]
                              /\ target.slug = SubSeq(h.name, k + 1, Len(h.name)) /\ target.slug # Nameless
        BY <1>2, <1>7 DEF Targeted
    <2>2. /\ h.name = SubSeq(h.name, 1, k - 1) \o <<h.name[k]>> \o SubSeq(h.name, k + 1, Len(h.name))
          /\ SubSeq(h.name, k + 1, Len(h.name)) # <<>>
        BY <1>4, <2>1, NameIsSplit
    <2> QED BY <2>1, <2>2
<1>8. target.by = "first" => ~\E d \in W!RepoCandidates(h.disk, i) : W!IsPrefix(d, h.cwd)
    BY <1>2, <1>3 DEF Targeted, W!Within
<1> HIDE DEF elsewhere
<1>9. /\ target.repo \in {W!Base(d) : d \in W!RepoCandidates(h.disk, i)} /\ ~W!Says(h, i).optedOut
      /\ Len(h.name) > 1 => target.by \in {"prefix", "cwd", "only", "worktree"}
      /\ target.by # "prefix" => target.slug = h.name
      /\ target.by = "first" => h.env = Unset /\ W!Says(h, i).default = Unset
    BY <1>2, <1>3 DEF Targeted
<1> QED BY <1>5, <1>6, <1>7, <1>8, <1>9

(* What the guard sees. *)
Seen(s, i, repos, instances, optedOut, known) ==
    s.instance = i /\ s.repos = repos /\ s.instances = instances /\ s.optedOut = optedOut /\ s.known = known

(* What the guard of a session knows.                                        *)
LEMMA SeenIs ==
    ASSUME NEW h
    PROVE  LET i == W!ResolveHookInstance(h.disk, h.anchor, h.cwd)
               s == W!ResolveHookScope(h)
           IN  \/ i # Unset /\ W!Says(h, i).optedOut /\ Seen(s, i, {}, {}, TRUE, TRUE)
               \/ /\ i # Unset /\ ~W!Says(h, i).optedOut
                  /\ Seen(s, i, {W!Base(d) : d \in W!RepoCandidates(h.disk, i)}, {}, FALSE, TRUE)
               \/ i = Unset /\ Seen(s, Unset, {}, W!EnumerateInstances(h.disk, h.anchor), FALSE, TRUE)
               \/ i = Unset /\ Seen(s, Unset, {}, {}, FALSE, FALSE)
<1> DEFINE i == W!ResolveHookInstance(h.disk, h.anchor, h.cwd)
           repos == {W!Base(d) : d \in W!RepoCandidates(h.disk, i)}
           all == W!EnumerateInstances(h.disk, h.anchor)
           s == W!ResolveHookScope(h)
           workspace == h.anchor \in h.disk.dirs \cap h.disk.config
<1>1. s = IF i # Unset /\ W!Says(h, i).optedOut THEN W!HookScope(i, {}, {}, TRUE)
        ELSE IF i # Unset THEN W!HookScope(i, repos, {}, FALSE)
        ELSE IF workspace THEN W!HookScope(Unset, {}, all, FALSE)
        ELSE W!NoScope
    BY DEF W!ResolveHookScope
<1>2. \A a, b, c, d : Seen(W!HookScope(a, b, c, d), a, b, c, d, TRUE)
    BY DEF W!HookScope, Seen
<1>3. Seen(W!NoScope, Unset, {}, {}, FALSE, FALSE)
    BY DEF W!NoScope, Seen
<1> HIDE DEF i, repos, all, s, workspace
<1> QED BY <1>1, <1>2, <1>3 DEF i, repos, all, s

(* Two sequences, one after the other.                                       *)
LEMMA ConcatIs ==
    ASSUME NEW Name, NEW a \in Seq(Name), NEW b \in Seq(Name)
    PROVE  /\ a \o b \in Seq(Name) /\ Len(a \o b) = Len(a) + Len(b)
           /\ \A j \in 1 .. Len(a) : (a \o b)[j] = a[j]
           /\ \A j \in 1 .. Len(b) : (a \o b)[Len(a) + j] = b[j]
OBVIOUS

(* A worktree is strictly below the directory of its instance's worktrees.   *)
LEMMA BelowTheWorktrees ==
    ASSUME NEW disk, NEW Name, NEW cwd \in Seq(Name), Unset \notin Seq(Name), {W!StateDir, W!Worktrees} \subseteq Name,
           W!DiscoverWorktree(disk, cwd) # Unset
    PROVE  LET host == W!WorktreeHost(W!DiscoverWorktree(disk, cwd))
           IN  host \in Seq(Name) /\ W!IsStrictPrefix(host \o <<W!StateDir, W!Worktrees>>, cwd)
<1> DEFINE w == W!DiscoverWorktree(disk, cwd)
           n == Len(w)
           tail == <<W!StateDir, W!Worktrees>>
           host == SubSeq(w, 1, n - 3)
<1>1. w \in W!Above(cwd) /\ n > 2 /\ w[n - 1] = W!Worktrees /\ w[n - 2] = W!StateDir
    BY NearestIs DEF W!DiscoverWorktree
<1>2. w \in Seq(Name) /\ n \in 0 .. Len(cwd) /\ w = SubSeq(cwd, 1, n)
    BY <1>1, AboveAre
<1> HIDE DEF w
<1>3. host \in Seq(Name) /\ Len(host) = n - 3 /\ \A j \in 1 .. n - 3 : host[j] = w[j]
    BY <1>1, <1>2
<1>4. tail \in Seq(Name) /\ Len(tail) = 2 /\ tail[1] = W!StateDir /\ tail[2] = W!Worktrees
    <2> DEFINE a == W!StateDir
               b == W!Worktrees
    <2>1. a \in Name /\ b \in Name
        OBVIOUS
    <2> HIDE DEF a, b
    <2>2. <<a, b>> \in Seq(Name) /\ Len(<<a, b>>) = 2 /\ <<a, b>>[1] = a /\ <<a, b>>[2] = b
        BY <2>1
    <2> QED BY <2>2 DEF a, b
<1> HIDE DEF tail, host
<1> DEFINE front == host \o tail
<1> DEFINE m == n - 3
<1>14. m \in Nat /\ n = m + 3 /\ n - 2 = m + 1 /\ n - 1 = m + 2
    BY <1>1, <1>2
<1>15. Len(host) = m /\ \A j \in 1 .. m : host[j] = w[j]
    BY <1>3
<1> HIDE DEF n, m
<1>16. front \in Seq(Name) /\ Len(front) = Len(host) + Len(tail)
    BY <1>3, <1>4, ConcatIs
<1>17. /\ \A j \in 1 .. Len(host) : front[j] = host[j]
       /\ \A j \in 1 .. Len(tail) : front[Len(host) + j] = tail[j]
    BY <1>3, <1>4, ConcatIs
<1> HIDE DEF front
<1>18. front[m + 1] = tail[1] /\ front[m + 2] = tail[2]
    BY <1>4, <1>14, <1>15, <1>17
<1>5. front \in Seq(Name) /\ Len(front) = n - 1
    BY <1>4, <1>14, <1>15, <1>16
<1>6. ASSUME NEW j \in 1 .. n - 1 PROVE front[j] = w[j]
    <2>1. j \in 1 .. m \/ j = m + 1 \/ j = m + 2
        BY <1>14
    <2> QED BY <1>1, <1>4, <1>14, <1>15, <1>17, <1>18, <2>1
<1> HIDE DEF front, n
<1>7. \A j \in 1 .. n - 1 : front[j] = cwd[j]
    <2>1. \A j \in 1 .. n - 1 : w[j] = cwd[j]
        BY <1>1, <1>2 DEF n
    <2> QED BY <1>6, <2>1
<1>8. n \in 1 .. Len(cwd) /\ Len(cwd) \in Nat
    BY <1>1, <1>2
<1>9. SubSeq(cwd, 1, n - 1) \in Seq(Name) /\ Len(SubSeq(cwd, 1, n - 1)) = n - 1
      /\ \A j \in 1 .. n - 1 : SubSeq(cwd, 1, n - 1)[j] = cwd[j]
    BY <1>8
<1>10. front = SubSeq(cwd, 1, n - 1)
    <2> DEFINE other == SubSeq(cwd, 1, n - 1)
    <2>1. other \in Seq(Name) /\ Len(other) = Len(front) /\ \A j \in 1 .. Len(front) : front[j] = other[j]
        BY <1>5, <1>7, <1>9
    <2> HIDE DEF other
    <2>2. front = other
        BY <1>5, <2>1
    <2> QED BY <2>2 DEF other
<1>11. SubSeq(front, 1, Len(front)) = front
    BY <1>5
<1>12. W!IsPrefix(front, cwd)
    BY <1>5, <1>8, <1>10, <1>11 DEF W!IsPrefix
<1>13. front # cwd
    BY <1>5, <1>8
<1> QED BY <1>3, <1>12, <1>13 DEF W!IsStrictPrefix, W!WorktreeHost, host, front, tail, w, n

(* On every disk and for every call: the guard sees the instance the hook    *)
(* would take and its repositories, stops nobody who opted out, and lets a   *)
(* session enter the worktree of its instance that it is in                  *)
(* (runWorktreeGuard, cli/worktree_guard.go).                                *)
THEOREM EveryGuardAgrees ==
    ASSUME NEW h, NEW Name, IsHook(h, Name), {W!StateDir, W!Worktrees} \subseteq Name, NEW call
    PROVE  W!GuardAgrees(h, call)
<1> DEFINE target == W!ResolveHookTarget(h)
           i == W!ResolveHookInstance(h.disk, h.anchor, h.cwd)
           scope == W!ResolveHookScope(h)
           worktree == W!DiscoverWorktree(h.disk, h.cwd)
<1>1. ASSUME target # W!NoTarget PROVE scope.instance = target.instance /\ target.repo \in scope.repos
    <2>1. i # Unset /\ ~W!Says(h, i).optedOut /\ target.instance = i /\ target.repo \in {W!Base(d) : d \in W!RepoCandidates(h.disk, i)}
        BY <1>1, Resolved DEF Targeted
    <2>2. Seen(scope, i, {W!Base(d) : d \in W!RepoCandidates(h.disk, i)}, {}, FALSE, TRUE)
        BY <2>1, SeenIs
    <2> QED BY <2>1, <2>2 DEF Seen
<1>2. ASSUME W!GuardStops(h, call), scope.instance # Unset
      PROVE  ~W!Says(h, scope.instance).optedOut /\ scope.instances = {}
    <2>1. ~scope.optedOut
        BY <1>2 DEF W!GuardStops, W!Refuses
    <2> QED BY <1>2, <2>1, SeenIs DEF Seen
<1>3. ASSUME call.tool = "EnterWorktree", call.path = h.cwd, worktree # Unset, i = W!WorktreeHost(worktree)
      PROVE  ~W!GuardStops(h, call)
    <2>1. i # Unset /\ h.disk.dirs \subseteq Seq(Name) /\ Unset \notin Seq(Name)
        <3>1. h.cwd \in Seq(Name)
            BY DEF IsHook
        <3> QED BY <1>3, <3>1, BelowTheWorktrees DEF IsHook
    <2>2. h.cwd \in h.disk.dirs
        BY <2>1, HookInstanceIs
    <2>3. W!IsStrictPrefix(i \o <<W!StateDir, W!Worktrees>>, h.cwd)
        BY <1>3, <2>1, <2>2, BelowTheWorktrees
    <2>4. scope.instance = i
        BY <2>1, SeenIs DEF Seen
    <2>5. W!IsUnderWorktrees(scope, h.cwd)
        BY <2>1, <2>3, <2>4 DEF W!IsUnderWorktrees
    <2>6. call.tool # "Bash"
        BY <1>3
    <2> QED BY <1>3, <2>2, <2>5, <2>6 DEF W!GuardStops, W!Refuses
<1> QED BY <1>1, <1>2, <1>3 DEF W!GuardAgrees

-----------------------------------------------------------------------------
(* Workspaces: niwa destroy --workspace beside another command.               *)

(* A command takes its lock before it makes anything, or takes none. *)
IsOther(w, other) ==
    /\ other.locks \in D!Time /\ other.makes \in D!Time /\ other.writes \in D!Time /\ other.done \in D!Time
    /\ other.makes <= other.writes /\ other.writes <= other.done
IsListing(w) == w.listed \subseteq Int /\ w.plain \cap w.listed = {}

Wiped(w, other, q) ==
    /\ D!Unlisted(w, other, D!SecondCheck) = {} /\ D!Stuck(w) = {} /\ D!GuardPasses(w, other, D!SecondGuard)
    /\ q.removed = w.listed

(* What a wipe can have come to.                                             *)
LEMMA WipeEnds ==
    ASSUME NEW w, NEW other, NEW sessions, IsListing(w)
    PROVE  LET q == D!DestroyWorkspace(w, other, sessions)
           IN  /\ q.sessions = sessions
               /\ q.removed \subseteq w.listed /\ q.removed \cap D!Stuck(w) = {}
               /\ \/ q.root = "there" /\ q.removed = {}
                  \/ q.root = "there" /\ D!Stuck(w) # {}
                  \/ q.root = "there" /\ D!Unlisted(w, other, D!SecondCheck) # {}
                  \/ q.root = "there" /\ ~D!GuardPasses(w, other, D!SecondGuard)
                  \/ q.root = "gone" /\ Wiped(w, other, q)
<1> DEFINE removed == {d \in w.listed : \A s \in D!Stuck(w) : d < s}
           outcome(r, root) == [removed |-> r, root |-> root, sessions |-> sessions]
           q == D!DestroyWorkspace(w, other, sessions)
<1>1. removed \subseteq w.listed /\ removed \cap D!Stuck(w) = {} /\ (D!Stuck(w) = {} => removed = w.listed)
    BY DEF IsListing, D!Stuck
<1>2. q = IF D!Unlisted(w, other, D!FirstCheck) # {} THEN outcome({}, "there")
        ELSE IF D!Stuck(w) # {} THEN outcome(removed, "there")
        ELSE IF D!Unlisted(w, other, D!SecondCheck) # {} THEN outcome(removed, "there")
        ELSE IF ~D!GuardPasses(w, other, D!SecondGuard) THEN outcome(removed, "there")
        ELSE outcome(removed, "gone")
    BY DEF D!DestroyWorkspace
<1>3. \A r, root : outcome(r, root).removed = r /\ outcome(r, root).root = root /\ outcome(r, root).sessions = sessions
    OBVIOUS
<1> HIDE DEF removed, q, outcome
<1> QED BY <1>1, <1>2, <1>3 DEF Wiped, q

(* A lock that was there at the first guard and is never let go is there at  *)
(* the second.                                                               *)
LEMMA HeldFromTheStart ==
    ASSUME NEW w, NEW other, IsOther(w, other), other.dir \in w.listed, ~D!Holds(w, other, D!LockAll)
    PROVE  ~\E t \in D!LockAll .. D!RootRemoval : D!Holds(w, other, t)
BY DEF D!Holds, D!KeptOut, IsOther, D!Time, D!LockAll, D!Never, D!RootRemoval, D!Guard

(* Where the guard passes nobody holds a lock in a directory of the          *)
(* workspace.                                                                *)
LEMMA GuardHolds ==
    ASSUME NEW w, NEW other, IsOther(w, other), D!GuardPasses(w, other, D!Guard), ~D!GuardPasses(w, other, D!SecondGuard)
    PROVE  other.dir \notin w.listed /\ other.makes <= D!SecondGuard
<1>1. CASE D!Unlisted(w, other, D!SecondGuard) # {}
    BY <1>1 DEF D!Unlisted, D!Instances, IsOther, D!Time, D!LockAll, D!Never, D!SecondGuard
<1>2. CASE D!Unlisted(w, other, D!SecondGuard) = {}
    <2>1. PICK d \in D!Directories(w, other, D!SecondGuard) \ w.listed : D!Holds(w, other, D!SecondGuard) /\ other.dir = d
        BY <1>2 DEF D!GuardPasses
    <2>2. d \in w.plain => D!Holds(w, other, D!Guard) /\ d \in D!Directories(w, other, D!Guard) \ w.listed
        BY <2>1 DEF D!Holds, D!KeptOut, D!Directories, IsOther, D!Time, D!LockAll, D!Never, D!Guard, D!SecondGuard
    <2>3. d \notin w.plain
        BY <2>1, <2>2 DEF D!GuardPasses
    <2> QED BY <2>1, <2>3 DEF D!Directories
<1> QED BY <1>1, <1>2

(* Whatever command runs beside it: niwa destroy --workspace removes nothing *)
(* without the workspace's name, of what something needs or of what another  *)
(* command has locked; and it goes whole unless an instance can't be removed *)
(* or another directory came (runDestroyWorkspace, cli/destroy.go;           *)
(* DestroyWorkspace, workspace/destroy_workspace.go).                        *)
THEOREM EveryWipeIsWhole ==
    ASSUME NEW w, NEW other, NEW who, IsListing(w), IsOther(w, other)
    PROVE  D!WipeIsWhole(w, other, who)
<1> DEFINE q == D!RunDestroyWorkspace(w, other, who)
           sessions == IF who.keepSessions THEN {} ELSE w.listed
           goes == /\ ~(other.dir \in w.listed /\ D!Holds(w, other, D!LockAll))
                   /\ D!Needed(w) = {} /\ D!Confirmed(w, who) /\ D!GuardPasses(w, other, D!Guard)
<1>1. \/ q = D!Kept(w)
      \/ goes /\ q = D!DestroyWorkspace(w, other, sessions)
    BY DEF D!RunDestroyWorkspace
<1>2. D!Kept(w).removed = {} /\ D!Kept(w).root = "there" /\ D!Kept(w).sessions = {}
    BY DEF D!Kept
<1> HIDE DEF q, sessions
<1>3. CASE q = D!Kept(w)
    BY <1>2, <1>3 DEF D!WipeIsWhole, q
<1>4. CASE goes /\ q = D!DestroyWorkspace(w, other, sessions)
    <2>1. /\ q.removed \subseteq w.listed /\ q.removed \cap D!Stuck(w) = {}
          /\ \/ q.root = "there" /\ q.removed = {}
             \/ q.root = "there" /\ D!Stuck(w) # {}
             \/ q.root = "there" /\ D!Unlisted(w, other, D!SecondCheck) # {}
             \/ q.root = "there" /\ ~D!GuardPasses(w, other, D!SecondGuard)
             \/ q.root = "gone" /\ Wiped(w, other, q)
        BY <1>4, WipeEnds
    <2>2. D!Unlisted(w, other, D!Guard) = {}
        BY <1>4 DEF D!GuardPasses
    <2>3. q.removed \cap w.nested = {}
        BY <2>1 DEF D!Stuck
    <2>4. other.dir \in w.listed => ~\E t \in D!LockAll .. D!RootRemoval : D!Holds(w, other, t)
        BY <1>4, HeldFromTheStart
    <2>5. D!Unlisted(w, other, D!SecondCheck) # {} => other.dir \notin w.listed /\ other.makes <= D!SecondGuard
        BY DEF D!Unlisted, D!Instances, IsOther, D!Time, D!LockAll, D!Never, D!SecondCheck, D!SecondGuard
    <2>0. ~D!GuardPasses(w, other, D!SecondGuard) => other.dir \notin w.listed /\ other.makes <= D!SecondGuard
        BY <1>4, GuardHolds
    <2>6. q.removed # {} /\ q.root = "there" =>
              \/ D!Stuck(w) # {}
              \/ other.dir \notin w.listed /\ other.makes <= D!SecondGuard
        BY <2>0, <2>1, <2>5
    <2>7. q.root = "gone" => q.removed = w.listed
        BY <2>1 DEF Wiped
    <2> DEFINE touched == q.removed \cup (IF q.root = "gone" THEN w.listed ELSE {})
    <2>8. touched \subseteq w.listed
        BY <2>1
    <2> HIDE DEF touched
    <2> QED BY <1>4, <2>1, <2>2, <2>3, <2>4, <2>6, <2>7, <2>8 DEF D!WipeIsWhole, q, touched
<1> QED BY <1>1, <1>3, <1>4

(* Whatever command runs beside it: the root is removed over an instance     *)
(* destroy did not list only where that one's state, and its lock if its     *)
(* directory was there, came after destroy's last look (DestroyWorkspace,    *)
(* workspace/destroy_workspace.go).                                          *)
THEOREM EveryRootIsKept ==
    ASSUME NEW w, NEW other, NEW who, IsListing(w), IsOther(w, other)
    PROVE  /\ D!RootIsKept(w, other, D!RunDestroyWorkspace(w, other, who))
           /\ D!RootIsKept(w, other, D!RunDestroyEmptyWorkspace(w, other))
<1>1. ASSUME NEW sessions PROVE D!RootIsKept(w, other, D!DestroyWorkspace(w, other, sessions))
    <2> DEFINE q == D!DestroyWorkspace(w, other, sessions)
    <2>1. q.root = "gone" => D!GuardPasses(w, other, D!SecondGuard)
        BY WipeEnds DEF Wiped
    <2> HIDE DEF q
    <2>2. ASSUME D!GuardPasses(w, other, D!SecondGuard), other.dir \notin w.listed, D!Acts(w, other)
          PROVE  other.writes > D!SecondGuard /\ (other.makes <= D!SecondGuard => ~D!Holds(w, other, D!SecondGuard))
        BY <2>2 DEF D!GuardPasses, D!Unlisted, D!Instances, D!Directories, IsOther, D!Time, D!LockAll, D!Never, D!SecondGuard
    <2> QED BY <2>1, <2>2 DEF D!RootIsKept, q
<1>2. D!RootIsKept(w, other, D!Kept(w))
    BY DEF D!RootIsKept, D!Kept
<1> QED BY <1>1, <1>2 DEF D!RunDestroyWorkspace, D!RunDestroyEmptyWorkspace

-----------------------------------------------------------------------------
(* Workspaces: niwa init and what it leaves.                                  *)

Tests == {"loads", "github", "parses", "makes", "scaffolds", "creates", "opens", "commits",
          "lands", "saves", "stateSaves", "loadsAfter", "overlayClones", "inside", "terminal"}
IsWorld(i, w) ==
    /\ w.there \in {"nothing", "other", "niwa", "workspace"}
    /\ w.there = "nothing" => D!NameOf(i, w) # Unset
    /\ w.materializes \in {"all", "unmarked", "fails"}
    /\ w.answer \in {"bootstrap", "declined", "eof"}
    /\ w.root # Unset /\ w.repo # Unset /\ Unset \notin {"niwa", "workspace"}

Is(q, exit, dir, registry, instance, session) ==
    /\ q.exit = exit /\ q.dir = dir /\ q.registry = registry
    /\ q.instance = instance /\ q.session = session /\ q.state = "none"

Booted(i, w, q) ==
    LET own == D!Registered(w.meanwhile, D!NameOf(i, w), w, D!SourceOf(i, w))
    IN  \/ Is(q, 1, "workspace", w.meanwhile, FALSE, "none")
        \/ Is(q, 1, "workspace", w.meanwhile, TRUE, "none")
        \/ Is(q, 1, "workspace", w.meanwhile, TRUE, "removed")
        \/ w.commits /\ \E exit \in 0 .. 1, registry \in {w.meanwhile, own} :
               Is(q, exit, "workspace", registry, TRUE, "kept")

(* What niwa init --bootstrap's second half leaves.                          *)
LEMMA Boots == \A i, w : Booted(i, w, D!RunBootstrap(i, w))
<1> SUFFICES ASSUME NEW i, NEW w PROVE Booted(i, w, D!RunBootstrap(i, w))
    OBVIOUS
<1> DEFINE stands == D!Leaves(w, 1, "workspace")
           created == [stands EXCEPT !.instance = TRUE]
           removed == [created EXCEPT !.session = "removed"]
           exit == IF w.lands THEN 0 ELSE 1
           registry == IF w.saves THEN D!Registered(w.meanwhile, D!NameOf(i, w), w, D!SourceOf(i, w)) ELSE w.meanwhile
           kept == [created EXCEPT !.session = "kept", !.exit = exit, !.registry = registry]
<1>1. \/ D!RunBootstrap(i, w) \in {stands, created, removed}
      \/ w.commits /\ D!RunBootstrap(i, w) = kept
    <2> HIDE DEF stands, created, removed, exit, registry, kept
    <2> SUFFICES D!RunBootstrap(i, w) = IF ~w.github \/ ~w.creates THEN stands
        ELSE IF ~w.opens THEN created
        ELSE IF ~w.commits THEN removed ELSE kept
        OBVIOUS
    <2> QED BY DEF D!RunBootstrap, stands, created, removed, exit, registry, kept
<1>2. stands = [exit |-> 1, dir |-> "workspace", registry |-> w.meanwhile, state |-> "none", instance |-> FALSE,
     session |-> "none"]
    BY DEF D!Leaves
<1> HIDE DEF stands
<1>3. /\ Is(stands, 1, "workspace", w.meanwhile, FALSE, "none")
      /\ Is(created, 1, "workspace", w.meanwhile, TRUE, "none")
      /\ Is(removed, 1, "workspace", w.meanwhile, TRUE, "removed")
    BY <1>2 DEF Is
<1> HIDE DEF exit, registry
<1>4. Is(kept, exit, "workspace", registry, TRUE, "kept")
    BY <1>2 DEF Is
<1>5. exit \in 0 .. 1 /\ registry \in {w.meanwhile, D!Registered(w.meanwhile, D!NameOf(i, w), w, D!SourceOf(i, w))}
    BY DEF exit, registry
<1> HIDE DEF created, removed, kept
<1> QED BY <1>1, <1>3, <1>4, <1>5 DEF Booted
BaseOf(i, w, put) == IF D!NameOf(i, w) # Unset THEN "nothing" ELSE IF put = Unset THEN w.there ELSE put
Own(i, w) == D!Registered(w.registry, D!RegistryName(i, w), w, D!SourceOf(i, w))

Finished(i, w, q) ==
    \/ Is(q, 1, BaseOf(i, w, "workspace"), w.meanwhile, FALSE, "none")
    \/ /\ (i.overlay /\ ~w.overlayClones) \/ ~w.lands
       /\ Is(q, 1, BaseOf(i, w, "workspace"), Own(i, w), FALSE, "none")
    \/ /\ q.exit = 0 /\ q.dir = "workspace" /\ q.registry \in {w.meanwhile, Own(i, w)}
       /\ q.instance = FALSE /\ q.session = "none"

(* The fields of what niwa init leaves.                                      *)
LEMMA LeavesAre == \A w, exit, dir : Is(D!Leaves(w, exit, dir), exit, dir, w.meanwhile, FALSE, "none")
BY DEF D!Leaves, Is

(* What the end of niwa init leaves.                                         *)
LEMMA Finishes == \A i, w : Finished(i, w, D!Finish(i, w))
<1> SUFFICES ASSUME NEW i, NEW w PROVE Finished(i, w, D!Finish(i, w))
    OBVIOUS
<1> DEFINE registry == IF D!ModeOf(i, w) # "scaffold" /\ w.saves
                    THEN D!Registered(w.registry, D!RegistryName(i, w), w, D!SourceOf(i, w)) ELSE w.meanwhile
           undone == D!Undone(i, w, 1, "workspace")
           failed == [undone EXCEPT !.registry = registry]
           state == IF D!Keeps(i, w) /\ w.stateSaves THEN "saved" ELSE "none"
           stands == D!Leaves(w, 0, "workspace")
           done == [stands EXCEPT !.registry = registry, !.state = state]
<1>1. D!Finish(i, w) = IF ~w.loadsAfter THEN undone
        ELSE IF i.overlay /\ ~w.overlayClones THEN failed
        ELSE IF D!NameOf(i, w) # Unset /\ ~w.lands THEN failed
        ELSE done
    BY DEF D!Finish
<1>2. registry \in {w.meanwhile, Own(i, w)}
    BY DEF Own
<1>3. undone = [exit |-> 1, dir |-> BaseOf(i, w, "workspace"), registry |-> w.meanwhile, state |-> "none",
                instance |-> FALSE, session |-> "none"]
    BY DEF D!Undone, D!Leaves, BaseOf
<1>4. stands = [exit |-> 0, dir |-> "workspace", registry |-> w.meanwhile, state |-> "none",
                instance |-> FALSE, session |-> "none"]
    BY DEF D!Leaves
<1> HIDE DEF registry, undone, state, stands
<1>5. /\ Is(undone, 1, BaseOf(i, w, "workspace"), w.meanwhile, FALSE, "none")
      /\ Is(failed, 1, BaseOf(i, w, "workspace"), registry, FALSE, "none")
    BY <1>3 DEF Is
<1>6. done.exit = 0 /\ done.dir = "workspace" /\ done.registry = registry /\ done.instance = FALSE /\ done.session = "none"
    BY <1>4
<1> HIDE DEF failed, done
<1> QED BY <1>1, <1>2, <1>5, <1>6 DEF Finished

(* What niwa init leaves when it takes back what it made.                    *)
LEMMA UndoneIs == \A i, w, exit, put :
    Is(D!Undone(i, w, exit, put), exit, BaseOf(i, w, put), w.meanwhile, FALSE, "none")
BY LeavesAre DEF D!Undone, BaseOf

(* What init's answer can be. *)
Inits(i, w, q) ==
    \/ D!Preflight(i, w) # 0 /\ q = D!Left(w, D!Preflight(i, w))
    \/ D!NameOf(i, w) # Unset /\ q = D!Left(w, 1)
    \/ w.scaffolds /\ Finished(i, w, q)
    \/ D!ModeOf(i, w) = "clone" /\ w.materializes = "all" /\ Finished(i, w, q)
    \/ \E exit \in {1, 4}, put \in {Unset, "niwa"} : 
          /\ put = "niwa" => ~w.scaffolds
          /\ Is(q, exit, BaseOf(i, w, put), w.meanwhile, FALSE, "none")
    \/ D!NameOf(i, w) # Unset /\ w.scaffolds /\ Booted(i, w, q)
    \/ /\ w.terminal /\ w.answer = "declined" /\ ~i.bootstrap
       /\ Is(q, 0, IF D!NameOf(i, w) # Unset THEN "empty" ELSE w.there, w.meanwhile, FALSE, "none")

(* What niwa init can have come to after its preflight.                      *)
LEMMA InitEnds ==
    ASSUME NEW i, NEW w, IsWorld(i, w), i.bootstrap \in BOOLEAN
    PROVE  D!Preflight(i, w) # 0 \/ (~D!NameIsTaken(i, w) /\ Inits(i, w, D!RunInit(i, w)))
<1>1. CASE D!Preflight(i, w) # 0
    BY <1>1
<1>2. CASE D!Preflight(i, w) = 0
    <2>0. ~D!NameIsTaken(i, w)
        BY <1>2 DEF D!Preflight
    <2>1. D!RunInit(i, w) = D!Make(i, w)
        BY <1>2 DEF D!RunInit
    <2>2. CASE D!NameOf(i, w) # Unset /\ ~w.makes
        BY <2>0, <2>1, <2>2 DEF D!Make, Inits
    <2>3. CASE ~(D!NameOf(i, w) # Unset /\ ~w.makes) /\ D!ModeOf(i, w) # "clone"
        <3>1. D!Make(i, w) = IF w.scaffolds THEN D!Finish(i, w) ELSE D!Undone(i, w, 1, "niwa")
            BY <2>3 DEF D!Make
        <3>2. CASE w.scaffolds
            BY <3>1, <3>2, <2>0, <2>1, Finishes DEF Inits
        <3>3. CASE ~w.scaffolds
            <4>1. Is(D!RunInit(i, w), 1, BaseOf(i, w, "niwa"), w.meanwhile, FALSE, "none")
                BY <3>1, <3>3, <2>1, UndoneIs
            <4> QED BY <4>1, <3>3, <2>0 DEF Inits
        <3> QED BY <3>2, <3>3
    <2>4. CASE ~(D!NameOf(i, w) # Unset /\ ~w.makes) /\ D!ModeOf(i, w) = "clone"
        <3>1. CASE ~w.parses \/ w.materializes = "fails"
            <4>1. D!RunInit(i, w) = D!Undone(i, w, 1, Unset)
                BY <2>1, <2>4, <3>1 DEF D!Make
            <4>2. Is(D!RunInit(i, w), 1, BaseOf(i, w, Unset), w.meanwhile, FALSE, "none") /\ Unset # "niwa"
                BY <4>1, UndoneIs DEF IsWorld
            <4> QED BY <4>2, <2>0 DEF Inits
        <3>2. CASE ~(~w.parses \/ w.materializes = "fails") /\ w.materializes = "all"
            <4>1. D!RunInit(i, w) = D!Finish(i, w)
                BY <2>1, <2>4, <3>2 DEF D!Make
            <4> QED BY <4>1, <3>2, <2>0, <2>4, Finishes DEF Inits
        <3>3. CASE ~(~w.parses \/ w.materializes = "fails") /\ w.materializes # "all"
            <4> DEFINE marker == D!NoMarker(i, w)
            <4>0. D!RunInit(i, w) = 
                  CASE marker = "bootstrap" -> D!Bootstrap(i, w)
           [] marker = "refused" -> D!Undone(i, w, 4, Unset)
           [] marker = "declined" ->
                D!Leaves(w, 0, IF D!NameOf(i, w) # Unset THEN "empty" ELSE w.there)
           [] marker = "eof" -> D!Undone(i, w, 1, Unset)
                BY <2>1, <2>4, <3>3 DEF D!Make
            <4>1. \/ marker = "bootstrap"
                  \/ marker = "refused"
                  \/ marker = "declined" /\ w.terminal /\ w.answer = "declined" /\ ~i.bootstrap
                  \/ marker = "eof"
                BY DEF D!NoMarker, IsWorld
            <4> HIDE DEF marker
            <4>2. CASE marker = "bootstrap"
                <5>1. D!RunInit(i, w) = D!Bootstrap(i, w)
                    BY <4>0, <4>2
                <5>2. CASE D!NameOf(i, w) = Unset
                    <6>1. D!RunInit(i, w) = D!Undone(i, w, 1, Unset)
                        BY <5>1, <5>2 DEF D!Bootstrap
                    <6>2. Is(D!RunInit(i, w), 1, BaseOf(i, w, Unset), w.meanwhile, FALSE, "none") /\ Unset # "niwa"
                        BY <6>1, UndoneIs DEF IsWorld
                    <6> QED BY <6>2, <2>0 DEF Inits
                <5>3. CASE D!NameOf(i, w) # Unset /\ ~w.scaffolds
                    <6>1. Is(D!RunInit(i, w), 1, BaseOf(i, w, "niwa"), w.meanwhile, FALSE, "none")
                        BY <5>1, <5>3, UndoneIs DEF D!Bootstrap
                    <6> QED BY <6>1, <5>3, <2>0 DEF Inits
                <5>4. CASE D!NameOf(i, w) # Unset /\ w.scaffolds
                    <6>1. D!RunInit(i, w) = D!RunBootstrap(i, w)
                        BY <5>1, <5>4 DEF D!Bootstrap
                    <6> QED BY <6>1, <5>4, <2>0, Boots DEF Inits
                <5> QED BY <5>2, <5>3, <5>4
            <4>3. CASE marker = "refused"
                <5>1. Is(D!RunInit(i, w), 4, BaseOf(i, w, Unset), w.meanwhile, FALSE, "none") /\ Unset # "niwa"
                    BY <4>0, <4>3, UndoneIs DEF IsWorld
                <5> QED BY <5>1, <2>0 DEF Inits
            <4>4. CASE marker = "declined"
                <5>1. Is(D!RunInit(i, w), 0, IF D!NameOf(i, w) # Unset THEN "empty" ELSE w.there, w.meanwhile, FALSE, "none")
                    BY <4>0, <4>4, LeavesAre
                <5> QED BY <5>1, <4>1, <4>4, <2>0 DEF Inits
            <4>5. CASE marker = "eof"
                <5>1. Is(D!RunInit(i, w), 1, BaseOf(i, w, Unset), w.meanwhile, FALSE, "none") /\ Unset # "niwa"
                    BY <4>0, <4>5, UndoneIs DEF IsWorld
                <5> QED BY <5>1, <2>0 DEF Inits
            <4> QED BY <4>1, <4>2, <4>3, <4>4, <4>5
        <3> QED BY <3>1, <3>2, <3>3
    <2> QED BY <2>2, <2>3, <2>4
<1> QED BY <1>1, <1>2

Keeping(i, w) ==
    /\ DOMAIN Own(i, w) = DOMAIN w.registry \cup {D!RegistryName(i, w)}
    /\ \A m : m \in DOMAIN w.registry /\ m # D!RegistryName(i, w) => Own(i, w)[m] = w.registry[m]

(* What a registration keeps: every other name's entry.                      *)
LEMMA OwnIs == \A i, w : Keeping(i, w)
<1> TAKE i, w
<1> DEFINE name == D!RegistryName(i, w)
           entry == [root |-> w.root, source |-> D!SourceOf(i, w)]
           own == [n \in DOMAIN w.registry \cup {name} |-> IF n = name THEN entry ELSE w.registry[n]]
<1>1. Own(i, w) = own
    BY DEF Own, D!Registered
<1> HIDE DEF name, entry
<1>3. DOMAIN own = DOMAIN w.registry \cup {name} /\ own[name] = entry
    OBVIOUS
<1>4. \A m : m \in DOMAIN w.registry /\ m # name => own[m] = w.registry[m]
    OBVIOUS
<1> HIDE DEF own
<1> QED BY <1>1, <1>3, <1>4 DEF name, Keeping

ByName(i, w, q) ==
      \/ q.registry = w.meanwhile
      \/ /\ ~D!NameIsTaken(i, w) /\ D!NameOf(i, w) # Unset /\ q.dir = "workspace"
         /\ q.registry = D!Registered(w.meanwhile, D!NameOf(i, w), w, D!SourceOf(i, w))
      \/ /\ ~D!NameIsTaken(i, w)
         /\ q.dir = "workspace" \/ (i.overlay /\ ~w.overlayClones) \/ ~w.lands
         /\ q.registry = Own(i, w)

Good(i, w, q) ==
    /\ w.there = "nothing" /\ q.exit # 0 /\ q.dir # "nothing" => q.dir = "workspace" /\ w.scaffolds
    /\ q.dir = "nothing" => ~q.instance /\ q.session = "none" /\ q.state = "none"
    /\ q.session # "none" => q.instance
    /\ q.session = "kept" => w.commits
    /\ q.exit = 0 /\ ~(w.terminal /\ w.answer = "declined") => q.dir = "workspace"
    /\ ByName(i, w, q)

(* A refusal leaves all as it was.                                           *)
LEMMA RefusalIsGood ==
    ASSUME NEW i, NEW w, NEW q, NEW exit, exit # 0, Is(q, exit, w.there, w.meanwhile, FALSE, "none")
    PROVE  Good(i, w, q)
BY DEF Is, Good, ByName

(* Each end of niwa init leaves what it should.                              *)
LEMMA EndIsGood ==
    ASSUME NEW i, NEW w, NEW q, IsWorld(i, w), ~D!NameIsTaken(i, w), Inits(i, w, q)
    PROVE  Good(i, w, q)
<1>1. ASSUME NEW exit, exit # 0, q = D!Left(w, exit) PROVE Good(i, w, q)
    BY <1>1, LeavesAre, RefusalIsGood DEF D!Left
<1>2. CASE Finished(i, w, q) /\ (w.scaffolds \/ D!ModeOf(i, w) = "clone")
    <2>1. q.registry = w.meanwhile \/ (q.registry = Own(i, w) /\ (q.dir = "workspace" \/ (i.overlay /\ ~w.overlayClones) \/ ~w.lands))
        BY <1>2 DEF Finished, Is
    <2>2. ByName(i, w, q)
        BY <2>1 DEF ByName
    <2>3. /\ q.instance = FALSE /\ q.session = "none"
          /\ q.exit = 0 => q.dir = "workspace"
          /\ q.exit # 0 => q.dir = BaseOf(i, w, "workspace") /\ q.state = "none"
        BY <1>2 DEF Finished, Is
    <2>4. w.there = "nothing" => BaseOf(i, w, "workspace") = "nothing"
        BY DEF BaseOf, IsWorld
    <2> QED BY <2>2, <2>3, <2>4 DEF Good
<1>3. ASSUME NEW exit \in {1, 4}, NEW put \in {Unset, "niwa"}, Is(q, exit, BaseOf(i, w, put), w.meanwhile, FALSE, "none")
      PROVE  Good(i, w, q)
    <2>1. w.there = "nothing" => BaseOf(i, w, put) = "nothing"
        BY DEF BaseOf, IsWorld
    <2> QED BY <1>3, <2>1 DEF Is, Good, ByName
<1>4. CASE D!NameOf(i, w) # Unset /\ w.scaffolds /\ Booted(i, w, q)
    <2>1. q.dir = "workspace" /\ (q.session # "none" => q.instance) /\ (q.session = "kept" => w.commits)
        BY <1>4 DEF Booted, Is
    <2>2. q.registry \in {w.meanwhile, D!Registered(w.meanwhile, D!NameOf(i, w), w, D!SourceOf(i, w))}
        BY <1>4 DEF Booted, Is
    <2> QED BY <1>4, <2>1, <2>2 DEF Good, ByName
<1>5. CASE /\ w.terminal /\ w.answer = "declined"
           /\ Is(q, 0, IF D!NameOf(i, w) # Unset THEN "empty" ELSE w.there, w.meanwhile, FALSE, "none")
    BY <1>5 DEF Is, Good, ByName
<1>6. /\ D!Preflight(i, w) # 0 /\ q = D!Left(w, D!Preflight(i, w)) => Good(i, w, q)
      /\ q = D!Left(w, 1) => Good(i, w, q)
    BY <1>1
<1> QED BY <1>2, <1>3, <1>4, <1>5, <1>6 DEF Inits

(* In every world: niwa init changes nothing that was there before it, a     *)
(* failed one leaves no directory of its own making but a bootstrap's, and   *)
(* no other root's name is taken but by --rebind, by the cloned              *)
(* configuration's own name or where it was registered meanwhile (runInit,   *)
(* cli/init.go; RunBootstrap, workspace/bootstrap.go).                       *)
THEOREM EveryInitIsWhole ==
    ASSUME NEW i, NEW w, IsWorld(i, w), i.bootstrap \in BOOLEAN
    PROVE  D!InitIsWhole(i, w)
<1> DEFINE done == D!RunInit(i, w)
           changed(n) == n \in DOMAIN done.registry /\ (n \notin DOMAIN w.meanwhile \/ done.registry[n] # w.meanwhile[n])
<1>0. D!Preflight(i, w) # 0 => /\ done = D!Left(w, D!Preflight(i, w))
                             /\ Is(done, D!Preflight(i, w), w.there, w.meanwhile, FALSE, "none")
    BY LeavesAre DEF D!RunInit, D!Left
<1>1. w.there \in {"workspace", "niwa"} => done = D!Left(w, done.exit) /\ done.exit # 0
    BY <1>0 DEF D!Preflight, D!Conflicts, Is
<1>2. i.name # Unset /\ w.there # "nothing" => done = D!Left(w, done.exit) /\ done.exit # 0
    BY <1>0 DEF D!Preflight, D!TargetExists, D!NameOf, Is
<1>3. Good(i, w, done)
    <2>1. CASE D!Preflight(i, w) # 0
        BY <1>0, <2>1, RefusalIsGood
    <2>2. CASE D!Preflight(i, w) = 0
        BY <2>2, InitEnds, EndIsGood
    <2> QED BY <2>1, <2>2
<1>7. ByName(i, w, done)
    BY <1>3 DEF Good
<1>8. D!NameOf(i, w) # Unset => D!RegistryName(i, w) = D!NameOf(i, w)
    BY DEF D!RegistryName
<1>9. i.name # Unset => D!NameOf(i, w) = i.name
    BY DEF D!NameOf
<1>10. ~D!NameIsTaken(i, w) => i.name = Unset \/ i.rebind \/ D!Entry(w.registry, D!NameOf(i, w)).root \in {Unset, w.root}
    BY <1>9 DEF D!NameIsTaken, D!Entry
<1> HIDE DEF done
<1>11. ASSUME NEW n, changed(n), done.registry[n].root = w.root
      PROVE  /\ done.dir = "workspace" \/ (i.overlay /\ ~w.overlayClones) \/ ~w.lands
             /\ D!Entry(w.registry, n).root \in {Unset, w.root} \/ i.rebind \/ i.name = Unset
    <2>1. done.registry # w.meanwhile
        BY <1>11
    <2>2. CASE /\ ~D!NameIsTaken(i, w) /\ D!NameOf(i, w) # Unset /\ done.dir = "workspace"
               /\ done.registry = D!Registered(w.meanwhile, D!NameOf(i, w), w, D!SourceOf(i, w))
        <3> DEFINE own == D!Registered(w.meanwhile, D!NameOf(i, w), w, D!SourceOf(i, w))
        <3>0. /\ DOMAIN own = DOMAIN w.meanwhile \cup {D!NameOf(i, w)}
              /\ \A m : m \in DOMAIN w.meanwhile /\ m # D!NameOf(i, w) => own[m] = w.meanwhile[m]
            <4> DEFINE name == D!NameOf(i, w)
                       entry == [root |-> w.root, source |-> D!SourceOf(i, w)]
            <4>1. own = [k \in DOMAIN w.meanwhile \cup {name} |-> IF k = name THEN entry ELSE w.meanwhile[k]]
                BY DEF D!Registered
            <4> HIDE DEF name, entry, own
            <4>2. /\ DOMAIN own = DOMAIN w.meanwhile \cup {name}
                  /\ \A m : m \in DOMAIN w.meanwhile /\ m # name => own[m] = w.meanwhile[m]
                BY <4>1
            <4> QED BY <4>2 DEF name
        <3> HIDE DEF own
        <3>1. n = D!NameOf(i, w)
            BY <1>11, <2>2, <3>0 DEF own
        <3> QED BY <3>1, <2>2, <1>10
    <2>3. CASE /\ ~D!NameIsTaken(i, w) /\ done.registry = Own(i, w)
        <3>1. n = D!RegistryName(i, w) \/ (n \in DOMAIN w.registry /\ w.registry[n].root = w.root)
            <4>1. /\ DOMAIN Own(i, w) = DOMAIN w.registry \cup {D!RegistryName(i, w)}
                  /\ \A m : m \in DOMAIN w.registry /\ m # D!RegistryName(i, w) => Own(i, w)[m] = w.registry[m]
                BY OwnIs DEF Keeping
            <4> QED BY <1>11, <2>3, <4>1
        <3>2. n = D!RegistryName(i, w) => D!Entry(w.registry, n).root \in {Unset, w.root} \/ i.rebind \/ i.name = Unset
            BY <2>3, <1>8, <1>9, <1>10 DEF D!RegistryName, IsWorld
        <3>3. n \in DOMAIN w.registry => D!Entry(w.registry, n) = w.registry[n]
            BY DEF D!Entry
        <3> QED BY <1>7, <2>1, <3>1, <3>2, <3>3 DEF ByName
    <2> QED BY <1>7, <2>1, <2>2, <2>3 DEF ByName
<1>12. ASSUME w.meanwhile = w.registry, NEW n, changed(n) PROVE n = D!RegistryName(i, w)
    <2>2. done.registry = Own(i, w)
        BY <1>7, <1>8, <1>12 DEF Own, ByName
    <2>3. /\ DOMAIN Own(i, w) = DOMAIN w.registry \cup {D!RegistryName(i, w)}
          /\ \A m : m \in DOMAIN w.registry /\ m # D!RegistryName(i, w) => Own(i, w)[m] = w.registry[m]
        BY OwnIs DEF Keeping
    <2> QED BY <1>12, <2>2, <2>3
<1> QED BY <1>1, <1>2, <1>3, <1>11, <1>12 DEF D!InitIsWhole, done, Good
=============================================================================
