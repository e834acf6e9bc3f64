-------------------------- MODULE InstallQuestions ---------------------------
(***************************************************************************)
(* What is asked of AgentPlan and AgentInstall, and what each of their     *)
(* answers has to be.                                                      *)
(***************************************************************************)
EXTENDS AgentInstall, Asking

LOCAL Both == [claude |-> TRUE, codex |-> TRUE]
LOCAL Producer(a) == [agent |-> a, open |-> TRUE]

(* A repository two places of which are taken before niwa comes.              *)
LOCAL Theirs == Layer("theirs", 1)
LOCAL Tracked(doc) == Node("file", doc, TRUE, Unset)
LOCAL Link(target) == Node("link", <<>>, FALSE, target)
LOCAL Dir(doc) == Node("dir", doc, FALSE, Unset)
LOCAL ByNiwa(owner) == File(<<Marker(owner), Theirs>>)
LOCAL Places ==
    {<<<<"CLAUDE.local.md">>, File(<<Theirs>>)>>, <<<<"AGENTS.md">>, Tracked(<<Layer("committed", 2)>>)>>,
     <<<<"AGENTS.md">>, Link("elsewhere")>>, <<<<".codex">>, File(<<Theirs>>)>>, <<<<".codex">>, Link("elsewhere")>>}
    \cup {<<<<"AGENTS.override.md">>, n>> :
             n \in {File(<<Theirs>>), Tracked(<<Marker("context")>>), ByNiwa("context"), Dir(<<>>)}}
    \cup {<<<<"sub", "AGENTS.override.md">>, n>> : n \in {File(<<Theirs>>), ByNiwa("context")}}
    \cup {<<<<".codex", "config.toml">>, n>> : n \in {File(<<Theirs>>), ByNiwa("config")}}
    \cup {<<SkillPath("s"), n>> : n \in {Link("old"), Dir(<<Theirs>>), Dir(<<Marker("context")>>)}}
    \cup {<<SkillPath("t"), n>> : n \in {Link("old"), File(<<Theirs>>)}}

LOCAL Consistent(places) ==
    /\ \A a, b \in places : a # b => a[1] # b[1]
    /\ \A a, b \in places : ~IsStrictPrefix(a[1], b[1])
LOCAL TreeOf(places) == [path \in {a[1] : a \in places} |-> (CHOOSE a \in places : a[1] = path)[2]]

LOCAL Server(transport, agents) ==
    [name |-> "m", agents |-> agents, command |-> transport = "stdio", url |-> transport # "stdio",
     transport |-> transport, args |-> FALSE, headers |-> FALSE, env |-> {}, literal |-> FALSE]
LOCAL Request(scope, servers, env) ==
    [scope |-> scope, servers |-> servers, env |-> env, posture |-> NoPosture, existing |-> {}, chain |-> 0]
LOCAL Declarations == {Request("repo", {}, {}), Request("repo", {Server("stdio", {})}, {}),
                   Request("repo", {}, {[name |-> "K", usable |-> TRUE, literal |-> FALSE]})}

LOCAL Contents ==
    {[body |-> b, overlay |-> Unset, outer |-> o, subdirs |-> s] :
        b \in {Unset, Layer("body", 1), Layer("body", 3)}, o \in {<<>>, <<Layer("workspace", 2)>>},
        s \in {<<>>, <<"sub">> :> Layer("sub", 2),
               <<"sub">> :> Layer("sub", 2) @@ <<"sub", "deep">> :> Layer("deep", 2)}}

AskTree ==
    /\ Taken("tree")
    /\ \E a, b \in Places, k \in {"clone", "worktree"}, c \in Contents, r \in Declarations,
          s \in {<<>>, <<[name |-> "s", root |-> "new"]>>} :
           /\ Consistent({a, b})
           /\ Put([disk |-> [tree |-> TreeOf({a, b}), sources |-> {"new"}, links |-> TRUE], kind |-> k,
                   cfg |-> [content |-> c, request |-> r, trees |-> s, layer |-> Layer("layer", 1)]])

(* What somebody else has stays as it was.                                    *)
LOCAL OwnedPaths == {<<"AGENTS.override.md">>, <<"sub", "AGENTS.override.md">>, <<".codex", "config.toml">>}
LOCAL OwnerOf(path) == IF Last(path) = "config.toml" THEN "config" ELSE "context"
LOCAL IsTheirs(tree, path) ==
    IF Len(path) > 1 /\ Front(path) = SkillsDir THEN tree[path].is # "link" /\ ~NiwasCopy(tree[path], "context")
    ELSE /\ path \in OwnedPaths
         /\ tree[path].tracked \/ tree[path].is # "file" \/ Head(tree[path].doc) # Marker(OwnerOf(path))

(* git is told of everything niwa wrote.                                      *)
LOCAL Hidden(acc, path) == Last(path) = "CLAUDE.local.md" \/ \E x \in acc.excludes : IsPrefix(x, path)

(* The documents of the deepest chain, and the budget a session has for them. *)
LOCAL BudgetAt(acc) ==
    LET at == <<".codex", "config.toml">>
    IN  IF at \in acc.written THEN Max({DocBudget, acc.tree[at].doc[2].says.budget}) ELSE DocBudget
LOCAL ChainAt(acc) ==
    LET docs == {path \in acc.written : Last(path) = "AGENTS.override.md"}
    IN  FoldSet(LAMBDA path, n : n + Bytes(acc.tree[path].doc), 0, docs)

LOCAL SkillsAt(tree) == {path \in DOMAIN tree : Len(path) > 1 /\ Front(path) = SkillsDir}

(* An apply leaves what is not niwa's alone and never counts it as its own;   *)
(* once it succeeds a second one changes nothing, git is told of every file,  *)
(* no skill of an older one is left, and a session's budget covers its        *)
(* documents or a word says it does not.                                      *)
TreeIsRight(q) ==
    \A once \in {ApplyTree(q.disk, q.kind, Both, q.cfg)} :
        /\ \A path \in DOMAIN q.disk.tree : IsTheirs(q.disk.tree, path) =>
              once.tree[path] = q.disk.tree[path] /\ path \notin once.managed
        /\ ~once.failed =>
              /\ \A again \in {ApplyTree([q.disk EXCEPT !.tree = once.tree], q.kind, Both, q.cfg)} :
                    again.tree = once.tree /\ ~again.failed
              /\ \A path \in once.written : Hidden(once, path)
              /\ \A path \in SkillsAt(once.tree) :
                     IsTheirs(once.tree, path) \/ Last(path) \in Kept(q.cfg.trees)
              /\ ChainAt(once) <= BudgetAt(once) \/ \E w \in once.warnings : w[1] = "budget"

-----------------------------------------------------------------------------
(* The instance's own documents: what an agent reads there of the workspace's *)
(* content, of an overlay's and of this machine's, after an older niwa's.     *)
AskOrientation ==
    /\ Taken("orientation")
    /\ \E a \in Agents, b \in {Unset, Layer("body", 0), Layer("body", 3)}, n \in 0 .. 2 :
           \E imported \in [1 .. n -> {Layer("overlay", 0), Layer("overlay", 2), Layer("machine", 1)}],
              was \in {Unset, <<Theirs>>, <<Layer("import", 1), Theirs>>} :
               Put([agent |-> a, body |-> b, imported |-> imported, was |-> was])

LOCAL At(tree, path) == IF path \in DOMAIN tree THEN tree[path].doc ELSE <<>>

(* The one document Codex reads says all the layers; Claude's own imports     *)
(* them, so it says the body, and no import of the older niwa's is left.      *)
RootSaysAll(q) ==
    LET disk == [sources |-> {}, links |-> TRUE,
                 tree |-> IF q.was = Unset THEN <<>> ELSE <<"CLAUDE.md">> :> File(q.was)]
        import == Layer("import", 1)
        said(layers) == {l \in ToSet(layers) : l.size > 0}
    IN  \A legacy \in {Install(disk, LegacyImportPlan(IF q.was = Unset THEN Unset ELSE q.was, import))} :
        \A plan \in {RootContextPlan(Producer(q.agent), q.body, q.imported)},
           group \in {GroupContextPlan(Producer(q.agent), <<"group">>, q.body)} :
        \A root \in {Install([disk EXCEPT !.tree = legacy.tree], plan)} :
            /\ import \notin ToSet(At(root.tree, <<"CLAUDE.md">>)) /\ legacy.managed = {}
            /\ q.agent = "codex" =>
                  /\ said(At(root.tree, <<"AGENTS.md">>)) =
                        said(q.imported \o IF q.body = Unset THEN <<>> ELSE <<q.body>>)
                  /\ Bytes(At(root.tree, <<"AGENTS.md">>)) > DocBudget => root.plan.warnings # {}
                  /\ group.entries = <<>>
            /\ q.agent = "claude" /\ q.body = Unset => root.tree = legacy.tree
            /\ q.agent = "claude" /\ q.body # Unset => At(root.tree, <<"CLAUDE.md">>) = <<q.body>>

-----------------------------------------------------------------------------
(* Two marketplaces, each in a clone, fetched before, or to be fetched.       *)
LOCAL Markets ==
    [name : {1, 2}, inClone : BOOLEAN, track : {"", "v1"}, contained : {TRUE}, sound : BOOLEAN]
    \cup [name : {Unset, 1}, inClone : {FALSE}, track : {"main"}, contained : {FALSE}, sound : {TRUE}]

AskMarkets ==
    /\ Taken("markets")
    /\ \E m, n \in Markets, there \in {{}, {1}}, f, x \in BOOLEAN, s \in {200, 404}, r \in {Unset, "v2"} :
           Put([markets |-> {m, n},
                world |-> [there |-> there, fetcher |-> f, status |-> s, manifest |-> x, release |-> r]])

(* A marketplace that is named has its content or is reported; content that   *)
(* is not in a clone was there before or was fetched whole.                   *)
MarketsAreAccounted(q) ==
    \A got \in {MarketplaceRoots(q.markets, q.world)} : \A m \in {x \in q.markets : x.name # Unset} :
        /\ m.name \in DOMAIN got.roots \cup got.failed
        /\ m.name \in got.failed => \E x \in q.markets : x.name = m.name /\ ~x.inClone
        /\ m.name \in DOMAIN got.roots /\ got.roots[m.name][1] = "content" =>
              m.name \in q.world.there \/ (q.world.fetcher /\ q.world.status = 200 /\ q.world.manifest)

(* Two enabled plugins, and marketplaces that have some of them.              *)
LOCAL Plugins == [name : {"s", "t", ""}, market : {0, 1, 2}]
LOCAL Manifests == [{"s", "t"} -> {"there", "outside", "undeclared"}]

AskPlugins ==
    /\ Taken("plugins")
    /\ \E p, q \in Plugins, found \in SUBSET {1, 2}, a, b \in Manifests :
           Put([plugins |-> <<p, q>>, roots |-> [n \in found |-> <<"root", n>>],
                manifest |-> [r \in {<<"root", n>> : n \in found} |-> IF r[2] = 1 THEN a ELSE b]])

(* Every enabled plugin is delivered once, from the marketplace it names, or  *)
(* reported as missing.                                                       *)
PluginsAreFound(q) ==
    \A got \in {ResolvePluginTrees(q.plugins, q.roots, q.manifest)} :
        /\ \A s, t \in got.trees : s.name = t.name => s = t
        /\ \A i \in DOMAIN q.plugins :
              LET p == q.plugins[i]
              IN  \/ p.name = "" \/ i \in got.missing
                  \/ \E t \in got.trees : /\ t.name = p.name /\ q.manifest[t.root[1]][p.name] = "there"
                                          /\ p.market # 0 => t.root[1] = <<"root", p.market>>

(* At the instance's root: plugins, one of them with the name of niwa's own.  *)
AskRoot ==
    /\ Taken("root")
    /\ \E m, n \in {NiwaTree, "s", "t"}, at \in {NiwaTree, "s"}, l \in BOOLEAN,
          was \in {Unset, Link("old"), Dir(<<Theirs>>), Dir(<<Marker("context")>>)} :
           Put([trees |-> <<[name |-> m, root |-> "new"], [name |-> n, root |-> "other"]>>,
                disk |-> [tree |-> IF was = Unset THEN <<>> ELSE SkillPath(at) :> was,
                          sources |-> {"new", "other", "own"}, links |-> l]])

(* niwa's own plugin is at its name whatever the workspace enables.           *)
NiwasPluginIsItsOwn(q) ==
    \A root \in {InstallRootSkills(q.disk, Producer("codex"), q.trees)} :
        \A own \in {DeliverNiwaPlugin([q.disk EXCEPT !.tree = root.tree], Producer("codex"), "own")} :
            ~root.failed /\ ~own.failed =>
                /\ own.tree[SkillPath(NiwaTree)].target = "own"
                /\ \A i \in DOMAIN q.trees :
                      \/ own.tree[SkillPath(q.trees[i].name)].target = q.trees[i].root
                      \/ \E j \in 1 .. i - 1 : q.trees[j].name = q.trees[i].name
                      \/ \E w \in root.plan.warnings : w = <<"name taken", q.trees[i].root>>

-----------------------------------------------------------------------------
(* The servers of an instance, of which one may be unfit.                     *)
LOCAL Servers ==
    {[Server(t, g) EXCEPT !.name = n] : t \in {"stdio", "http", "sse"}, g \in SUBSET Agents, n \in {"m", "n"}}
    \cup {[Server("stdio", {}) EXCEPT !.literal = TRUE]}
    \cup {[Server("stdio", {}) EXCEPT !.env = {[name |-> "V", is |-> i]}] : i \in {"value", "reference"}}

AskServers ==
    /\ Taken("servers")
    /\ \E s, t \in Servers, open \in [Agents -> BOOLEAN], own \in {{}, {"m"}}, at \in {"absent", "foreign"} :
           /\ s.name = t.name => s = t
           /\ Put([servers |-> {s, t}, open |-> open, own |-> [is |-> "table", names |-> own],
                   doc |-> IF at = "absent" THEN <<>> ELSE <<Theirs>>])

LOCAL Configured(q) == {ServerFromConfig(s).server : s \in q.servers}
LOCAL RootRequest(q) == Request("root", Configured(q), {})
LOCAL RepoRequest(q) ==
    [Request("repo", Configured(q), {}) EXCEPT !.existing = DeclaredNames(Producer("codex"), q.own)]
LOCAL RepoDisk(q) ==
    [sources |-> {}, links |-> TRUE,
     tree |-> IF q.doc = <<>> THEN <<>> ELSE LayoutOf(Producer("codex")).path :> File(q.doc)]
LOCAL Defines(install, path) ==
    IF path \in install.written THEN Last(install.tree[path].doc).says.servers ELSE {}
LOCAL Says(install, path) == {s.name : s \in Defines(install, path)}

(* An agent reaches exactly the servers that name it or no agent, unless its  *)
(* document is somebody else's; a server has every variable that has a value  *)
(* and a word on each other; and a repository approves no server but those    *)
(* the root's document defines.                                               *)
ServersAreReached(q) ==
    LET producer(a) == [agent |-> a, open |-> q.open[a]]
        wanted(a) == {s.name : s \in {x \in q.servers : q.open[a] /\ (x.agents = {} \/ a \in x.agents)}}
        path(a) == LayoutOf(producer(a)).path
    IN  \A root \in {InstallPayload([tree |-> <<>>, sources |-> {}, links |-> TRUE], producer("claude"), RootRequest(q))},
           repo \in {InstallPayload(RepoDisk(q), producer("codex"), RepoRequest(q))} :
            /\ ~root.failed => Says(root, path("claude")) = wanted("claude")
            /\ ~repo.failed => Says(repo, path("codex")) = wanted("codex") \/ repo.plan.exempt # {}
            /\ ~repo.failed /\ q.open["codex"] => wanted("codex") \cap q.own.names = {}
            /\ \A s \in q.servers, d \in Defines(root, path("claude")) : \A v \in s.env :
                  d.name = s.name => v.name \in d.env \/ <<s.name, v.name>> \in ServerFromConfig(s).warnings
            /\ RecordedApprovals(BacksApprovals(root), FALSE, q.open, q.servers) \subseteq Says(root, path("claude"))

-----------------------------------------------------------------------------
(* A repository's exclude file, and the patterns of an apply after another's. *)
LOCAL Words == {"begin", "end", "user", "", "*.local*"}
LOCAL Balanced(lines) ==
    LET marks == SelectSeq(lines, LAMBDA l : l \in {"begin", "end"}) IN marks \in {<<>>, <<"begin", "end">>}

AskExclude ==
    /\ Taken("exclude")
    /\ \E n \in 0 .. 4 : \E lines \in [1 .. n -> Words], earlier, later \in SUBSET {".codex", "*.local*"} :
           Balanced(lines) /\ Put([lines |-> lines, earlier |-> earlier, later |-> later])

LOCAL Outside(lines) ==
    LET b == SelectInSeq(lines, LAMBDA l : l = "begin")
        e == SelectInSeq(lines, LAMBDA l : l = "end")
        rest == IF b = 0 THEN lines ELSE SubSeq(lines, 1, b - 1) \o SubSeq(lines, e + 1, Len(lines))
    IN  SelectSeq(rest, LAMBDA l : l # "")

(* What the user has in the file stays, in its order; niwa's block is there   *)
(* once, with the patterns of the last apply and no other's.                  *)
BlockIsReplaced(q) ==
    \A once \in {RenderBlock(q.lines, q.earlier)} : \A now \in {RenderBlock(once, q.later)} :
        /\ Outside(now) = Outside(q.lines)
        /\ Cardinality({i \in DOMAIN now : now[i] = "begin"}) = 1
        /\ RenderBlock(now, q.later) = now
        /\ LET b == SelectInSeq(now, LAMBDA l : l = "begin")
               e == SelectInSeq(now, LAMBDA l : l = "end")
           IN  ToSet(SubSeq(now, b + 1, e - 1)) = ToSet(BasePatterns) \cup q.later

-----------------------------------------------------------------------------
Topics == {"tree", "orientation", "markets", "plugins", "root", "servers", "exclude"}

Ask == AskTree \/ AskOrientation \/ AskMarkets \/ AskPlugins \/ AskRoot \/ AskServers \/ AskExclude

IsRight(q) ==
    /\ IsAsked("tree") => TreeIsRight(q)
    /\ IsAsked("orientation") => RootSaysAll(q)
    /\ IsAsked("markets") => MarketsAreAccounted(q)
    /\ IsAsked("plugins") => PluginsAreFound(q)
    /\ IsAsked("root") => NiwasPluginIsItsOwn(q)
    /\ IsAsked("servers") => ServersAreReached(q)
    /\ IsAsked("exclude") => BlockIsReplaced(q)
=============================================================================
