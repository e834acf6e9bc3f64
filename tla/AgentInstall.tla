----------------------------- MODULE AgentInstall -----------------------------
(***************************************************************************)
(* What one apply leaves in a clone or a worktree for the agents: the      *)
(* plugins' skills, from the marketplaces' content; the documents and the   *)
(* configuration of AgentPlan; and the lines of the repository's exclude    *)
(* file (agentplan/skills.go, rootskills.go, workspace/pluginskills.go,     *)
(* niwaplugin.go, apply.go, worktree_content.go, internal/gitexclude).      *)
(***************************************************************************)
EXTENDS AgentPlan

(* Only a plain name can be a directory below the skills directory.           *)
CONSTANT Nameable

SkillsDir == <<".codex", "skills">>
HasSkillsDir(p) == p.agent = "codex"
SkillPath(name) == Append(SkillsDir, name)

(* Trees are a sequence of [name, root]; a second tree of a name is not       *)
(* delivered.                                                                 *)
FirstOfItsName(trees, i) == \A j \in 1 .. (i - 1) : trees[j].name # trees[i].name
SkillEntry(tree, exclude) ==
    [Entry("tree", SkillPath(tree.name), <<>>) EXCEPT !.source = tree.root, !.owner = "context",
        !.pre = "source exists", !.managed = FALSE, !.exclude = exclude]
Deliverable(trees) == {i \in DOMAIN trees : trees[i].name \in Nameable /\ trees[i].root # Unset}

SkillsPlan(p, trees) ==
    LET chosen == {i \in Deliverable(trees) : FirstOfItsName(trees, i)}
        entry(i) == SkillEntry(trees[i], SkillPath(trees[i].name))
    IN  IF ~HasSkillsDir(p) \/ ~Delivers(p, "plugin-skills") THEN EmptyPlan
        ELSE PlanOf([n \in 1 .. Cardinality(chosen) |-> entry(SetToSortSeq(chosen, LAMBDA i, j : i < j)[n])])

(* At the instance's root the name of niwa's own plugin is taken.             *)
NiwaTree == "niwa"
RootSkillsPlan(p, trees) ==
    LET taken == {i \in Deliverable(trees) : Delivers(p, "niwa-plugin") /\ trees[i].name = NiwaTree}
        chosen == {i \in Deliverable(trees) \ taken : FirstOfItsName(trees, i)}
        entry(i) == SkillEntry(trees[i], Unset)
    IN  IF ~HasSkillsDir(p) \/ ~Delivers(p, "root-project-skills") THEN EmptyPlan
        ELSE [PlanOf([n \in 1 .. Cardinality(chosen) |-> entry(SetToSortSeq(chosen, LAMBDA i, j : i < j)[n])])
                EXCEPT !.warnings = {<<"name taken", trees[i].root>> : i \in taken}]

NiwaPluginPlan(p, source) ==
    IF ~HasSkillsDir(p) \/ ~Delivers(p, "niwa-plugin") \/ source = Unset THEN EmptyPlan
    ELSE PlanOf(<<SkillEntry([name |-> NiwaTree, root |-> source], Unset)>>)

(* What is no longer configured goes, if niwa put it there.                   *)
Kept(trees) == {trees[i].name : i \in Deliverable(trees)}
RootKept(p, trees) == (Kept(trees) \ {NiwaTree}) \cup (IF Delivers(p, "niwa-plugin") THEN {NiwaTree} ELSE {})

Reconcile(tree, p, keep) ==
    LET others == {path \in DOMAIN tree : /\ Len(path) = Len(SkillsDir) + 1 /\ IsPrefix(SkillsDir, path)
                                          /\ Last(path) \notin keep}
        goes == {path \in others : tree[path].is = "link" \/ NiwasCopy(tree[path], "context")}
    IN  IF ~HasSkillsDir(p) \/ ~p.open THEN [tree |-> tree, warnings |-> {}, failed |-> FALSE]
        ELSE [tree |-> RestrictDomain(tree, LAMBDA path : path \notin goes),
              warnings |-> {<<"not niwa's", path>> : path \in others \ goes},
              failed |-> Blocked(tree, SkillPath("any"))]

InstallSkills(disk, p, plan, keep) ==
    LET of(swept) == IF swept.failed THEN Install(disk, FailedPlan)
                     ELSE [Install([disk EXCEPT !.tree = swept.tree], plan)
                              EXCEPT !.plan.warnings = @ \cup swept.warnings]
    IN  of(Reconcile(disk.tree, p, keep))

InstallRepoSkills(disk, p, trees) == InstallSkills(disk, p, SkillsPlan(p, trees), Kept(trees))
InstallRootSkills(disk, p, trees) == InstallSkills(disk, p, RootSkillsPlan(p, trees), RootKept(p, trees))
DeliverNiwaPlugin(disk, p, source) == Install(disk, NiwaPluginPlan(p, source))

-----------------------------------------------------------------------------
(* A marketplace's content is fetched into the instance once and stays.  A    *)
(* marketplace: [name, inClone, track, contained, sound]; the world it is     *)
(* looked up in: what is `there', whether there is a `fetcher', the `status'  *)
(* of a fetch, the latest `release', and whether the archive has a manifest.  *)
ContentRef(market, world) ==
    CASE market.track \in {"", "release"} -> IF world.release # Unset THEN world.release ELSE "HEAD"
      [] market.track = "main" -> "HEAD"
      [] OTHER -> market.track

EnsureContent(market, world) ==
    CASE ~market.contained -> "error"
      [] market.name \in world.there -> "there"
      [] ~world.fetcher \/ ~market.sound -> "error"
      [] world.status # 200 \/ ~world.manifest -> "error"
      [] OTHER -> ContentRef(market, world)

(* Where each marketplace's content is; one a clone holds is read there.      *)
MarketplaceRoots(markets, world) ==
    LET found(m) == CASE m.inClone -> "clone" [] EnsureContent(m, world) = "error" -> "error" [] OTHER -> "content"
        named == {m \in markets : m.name # Unset}
        have == {m \in named : found(m) # "error"}
    IN  [roots |-> [n \in {m.name : m \in have} |-> <<found(CHOOSE m \in have : m.name = n), n>>],
         failed |-> {m.name : m \in named \ have}]

(* The directory of a plugin: of the marketplace its entry names, or of the   *)
(* first that has it.  Marketplaces are named by numbers, in their order, 0   *)
(* for none; manifest[root]: plugins with what their source is.               *)
ResolvePluginRoot(plugin, roots, manifest) ==
    LET names == IF plugin.market = 0 THEN DOMAIN roots ELSE {plugin.market} \cap DOMAIN roots
        sourceAt(n) == IF plugin.name \in DOMAIN manifest[roots[n]] THEN manifest[roots[n]][plugin.name] ELSE "undeclared"
        walk == SetToSortSeq({n \in names : sourceAt(n) \in {"there", "outside"}}, LAMBDA m, n : m < n)
    IN  IF walk = <<>> \/ sourceAt(Head(walk)) = "outside" THEN Unset
        ELSE <<roots[Head(walk)], plugin.name>>

ResolvePluginTrees(plugins, roots, manifest) ==
    LET root == [i \in DOMAIN plugins |-> ResolvePluginRoot(plugins[i], roots, manifest)]
        same(i) == {j \in 1 .. (i - 1) : plugins[j].name = plugins[i].name /\ root[j] # Unset}
        first == {i \in DOMAIN plugins : plugins[i].name # "" /\ root[i] # Unset /\ same(i) = {}}
    IN  [trees |-> {[name |-> plugins[i].name, root |-> root[i]] : i \in first},
         missing |-> {i \in DOMAIN plugins : /\ plugins[i].name # ""
                                             /\ root[i] = Unset \/ \E j \in same(i) \cap first : root[j] # root[i]}]

-----------------------------------------------------------------------------
(* The exclude file of a repository, which its worktrees share: niwa's block  *)
(* is replaced whole, or put at the end.  A file is a sequence of lines.      *)
BasePatterns == <<"*.local*", ".niwa/">>
Block(patterns) == <<"begin">> \o BasePatterns \o SetToSeq(patterns \ ToSet(BasePatterns)) \o <<"end">>

RenderBlock(lines, patterns) ==
    LET begin == SelectInSeq(lines, LAMBDA l : l = "begin")
        end == SelectLastInSeq(lines, LAMBDA l : l = "end")
    IN  IF begin # 0 /\ end >= begin
        THEN SubSeq(lines, 1, begin - 1) \o Block(patterns) \o SubSeq(lines, end + 1, Len(lines))
        ELSE lines \o (IF lines # <<>> /\ Last(lines) # "" THEN <<"">> ELSE <<>>) \o Block(patterns)

EnsureRepoExclude(isRepo, lines, patterns) == IF isRepo THEN RenderBlock(lines, patterns) ELSE lines

-----------------------------------------------------------------------------
(* One apply of a tree: for each agent the documents, then the skills, then   *)
(* the configuration; in a worktree its own layer last.  What fails ends it.  *)
Begin(tree) == [tree |-> tree, written |-> {}, excludes |-> {}, managed |-> {}, exempt |-> {}, warnings |-> {},
                chain |-> [a \in Agents |-> 0], failed |-> FALSE]

Took(acc, got) ==
    [acc EXCEPT !.tree = got.tree, !.written = @ \cup got.written, !.excludes = @ \cup got.excludes,
                !.managed = @ \cup got.managed, !.exempt = @ \cup got.plan.exempt,
                !.warnings = @ \cup got.plan.warnings, !.failed = got.failed]

Steps(kind) ==
    LET each(step) == <<<<step, "claude">>, <<step, "codex">>>>
    IN  each("content") \o each("skills") \o each("payload") \o (IF kind = "worktree" THEN each("layer") ELSE <<>>)

WorktreeHeading == "worktree context"

InstallLayer(disk, p, body) ==
    LET of(probe) == IF probe.owned = "error" THEN Install(disk, FailedPlan)
                     ELSE InstallInside(disk, WorktreeContextPlan(p, WorktreeHeading, body, probe))
    IN  of(Probe(disk.tree, p, <<>>))

RunStep(disk, cfg, acc, step, p) ==
    LET now == [disk EXCEPT !.tree = acc.tree]
        request == [cfg.request EXCEPT !.chain = acc.chain[p.agent]]
        withChain(content) == [Took(acc, content) EXCEPT !.chain[p.agent] = content.plan.chain]
    IN  CASE acc.failed -> acc
          [] step = "content" -> withChain(InstallRepoContent(now, p, cfg.content))
          [] step = "skills" -> Took(acc, InstallRepoSkills(now, p, cfg.trees))
          [] step = "payload" -> Took(acc, InstallPayload(now, p, request))
          [] step = "layer" -> Took(acc, InstallLayer(now, p, cfg.layer))

ApplyTree(disk, kind, open, cfg) ==
    FoldLeft(LAMBDA acc, s : RunStep(disk, cfg, acc, s[1], [agent |-> s[2], open |-> open[s[2]]]),
             Begin(disk.tree), Steps(kind))
=============================================================================
