------------------------------ MODULE AgentPlan -------------------------------
(***************************************************************************)
(* What niwa puts into a tree for a coding agent: the plan each producer    *)
(* makes of the configuration and of what it found in the tree, and the     *)
(* delivery of a plan (internal/agentplan, workspace/applyplan.go,          *)
(* contextprobe.go, payload.go).                                            *)
(*                                                                          *)
(* A path is a sequence of names.  A tree is a function from paths to       *)
(* nodes; a directory niwa puts nothing into but files has no node.  A      *)
(* document is a sequence of layers, each with its size.                    *)
(***************************************************************************)
EXTENDS Integers, SequencesExt

CONSTANTS Unset, DocBudget   \* nothing; codexDocBudget, in layers of size 1

-----------------------------------------------------------------------------
(* Every capability is delivered to an agent unless it is declared            *)
(* unavailable; a closed gate delivers none.  A producer: [agent, open].      *)
Agents == {"claude", "codex"}

Unavailable ==
    [claude |-> {"directory-trust"},
     codex |-> {"marketplace-registration", "subagent-types", "hooks", "work-summary-hooks", "pr-body-hook",
                "worktree-hook-delegation", "ephemeral-sessions", "remote-control", "dispatch-keep-alive",
                "dispatch-inbound-acceptance", "dispatch-resource-attributes"}]

Delivers(p, capability) == p.open /\ capability \notin Unavailable[p.agent]

(* Codex reads one document per directory, which niwa owns: it holds the      *)
(* outer layers and the repository's own AGENTS.md.                           *)
Owned(p) == p.agent = "codex"
LocalFile == [claude |-> "CLAUDE.local.md", codex |-> "AGENTS.override.md"]
RootFile == [claude |-> "CLAUDE.md", codex |-> "AGENTS.md"]

Layer(of, size) == [of |-> of, size |-> size]
Marker(owner) == Layer("by niwa: " \o owner, 1)
JoinLayers(layers) == SelectSeq(layers, LAMBDA l : l.size > 0)
ComposeDocument(layers) ==
    IF JoinLayers(layers) = <<>> THEN <<>> ELSE <<Marker("context")>> \o JoinLayers(layers)
Bytes(doc) == FoldLeft(LAMBDA n, l : n + l.size, 0, doc)

(* Twice the chain in whole default budgets, once the default would not do.   *)
BudgetFor(chain) ==
    IF chain <= 0 \/ 2 * chain <= DocBudget THEN 0
    ELSE DocBudget * ((2 * chain + DocBudget - 1) \div DocBudget)

-----------------------------------------------------------------------------
(* A tree as it is found.  Only a regular file git does not track and whose   *)
(* first line is the marker is niwa's own.                                    *)
Node(is, doc, tracked, target) == [is |-> is, doc |-> doc, tracked |-> tracked, target |-> target]
File(doc) == Node("file", doc, FALSE, Unset)
Is(tree, path, what) == path \in DOMAIN tree /\ tree[path].is \in what
Above(path) == {SubSeq(path, 1, n) : n \in 1 .. (Len(path) - 1)}
Blocked(tree, path) == \E a \in Above(path) : Is(tree, a, {"file"})
Escapes(tree, path) == \E a \in Above(path) \cup {path} : Is(tree, a, {"link"})

ProbeOwnership(tree, path, owner) ==
    CASE Blocked(tree, path) -> "error"
      [] path \notin DOMAIN tree -> "absent"
      [] tree[path].tracked \/ tree[path].is # "file" -> "foreign"
      [] tree[path].doc # <<>> /\ Head(tree[path].doc) = Marker(owner) -> "ours"
      [] OTHER -> "foreign"

NoProbe == [path |-> Unset, owned |-> "absent", inlined |-> <<>>, refused |-> FALSE]

Probe(tree, p, dir) ==
    LET committed == dir \o <<"AGENTS.md">>
    IN  IF ~Owned(p) THEN NoProbe
        ELSE [path |-> dir \o <<LocalFile[p.agent]>>,
              owned |-> ProbeOwnership(tree, dir \o <<LocalFile[p.agent]>>, "context"),
              inlined |-> IF Is(tree, committed, {"file"}) THEN tree[committed].doc ELSE <<>>,
              refused |-> Is(tree, committed, {"link", "dir"})]

-----------------------------------------------------------------------------
(* A plan: its entries in order, the warnings, the paths left to whoever      *)
(* wrote them, and the chain of documents a session reads.                    *)
EmptyPlan == [entries |-> <<>>, warnings |-> {}, exempt |-> {}, chain |-> 0, failed |-> FALSE]
FailedPlan == [EmptyPlan EXCEPT !.failed = TRUE]
PlanOf(entries) == [EmptyPlan EXCEPT !.entries = entries]

Entry(op, path, content) ==
    [op |-> op, path |-> path, content |-> content, heading |-> Unset, source |-> Unset,
     owner |-> Unset, pre |-> "always", managed |-> TRUE, exclude |-> Unset]

(* A path niwa owns is written only while nobody else has it.                 *)
OwnedEntry(entry, owner, exclude) ==
    [entry EXCEPT !.owner = owner, !.pre = "not foreign", !.exclude = exclude]

RootContextPlan(p, body, imported) ==
    LET doc == JoinLayers((IF body = Unset THEN <<>> ELSE <<body>>) \o imported)
        entry(content) == PlanOf(<<Entry("write", <<RootFile[p.agent]>>, content)>>)
    IN  CASE ~Delivers(p, "root-session-orientation") -> EmptyPlan
          [] ~Owned(p) -> IF body = Unset THEN EmptyPlan ELSE entry(<<body>>)
          [] doc = <<>> -> EmptyPlan
          [] OTHER -> [entry(doc) EXCEPT !.warnings = IF Bytes(doc) > DocBudget THEN {<<"root budget", Unset>>} ELSE {}]

GroupContextPlan(p, dir, body) ==
    IF ~Delivers(p, "workspace-orientation") \/ body = Unset \/ Owned(p) THEN EmptyPlan
    ELSE PlanOf(<<Entry("write", Append(dir, RootFile[p.agent]), <<body>>)>>)

(* One more document of an owned tree, unless its path is somebody else's.    *)
AppendOwnedEntry(plan, dir, doc, probe) ==
    CASE probe.owned = "foreign" ->
             [plan EXCEPT !.warnings = @ \cup {<<"conflict", probe.path>>}, !.exempt = @ \cup {probe.path}]
      [] doc = <<>> -> plan
      [] OTHER -> [plan EXCEPT !.entries = Append(@, OwnedEntry(Entry("write", probe.path, doc), "context", probe.path))]

SizeAt(dir, doc, probe) == IF probe.owned = "foreign" THEN 0 ELSE Bytes(doc)

(* Mutant: the largest document alone. *)
LargestDocument(sizes) == Max({sizes[d] : d \in DOMAIN sizes})

(* The most a session below the repository reads: its directory's document    *)
(* and those of the directories above it.                                     *)
DeepestChain(sizes) ==
    LET chain(d) == FoldLeft(LAMBDA n, a : n + sizes[a], 0, SetToSeq({a \in DOMAIN sizes : IsPrefix(a, d)}))
    IN  Max({chain(d) : d \in DOMAIN sizes})

RepoBody(in) == (IF in.body = Unset THEN <<>> ELSE <<in.body>>) \o (IF in.overlay = Unset THEN <<>> ELSE <<in.overlay>>)

(* in.subdirs: a function from directories to bodies; probes: one per         *)
(* directory, the repository's own at <<>>.                                   *)
ComposedRepoContextPlan(in, probes) ==
    LET outer == in.outer \o RepoBody(in)
        root == IF ComposeDocument(outer) = <<>> THEN <<>> ELSE ComposeDocument(outer \o probes[<<>>].inlined)
        doc == [d \in {<<>>} \cup DOMAIN in.subdirs |-> IF d = <<>> THEN root ELSE ComposeDocument(<<in.subdirs[d]>>)]
        refusal == IF root # <<>> /\ probes[<<>>].refused THEN {<<"inline refused", Unset>>} ELSE {}
        first == [EmptyPlan EXCEPT !.warnings = refusal,
                                   !.chain = DeepestChain([d \in DOMAIN doc |-> SizeAt(d, doc[d], probes[d])])]
    IN  FoldLeft(LAMBDA plan, d : AppendOwnedEntry(plan, d, doc[d], probes[d]), first,
                 <<<<>>>> \o SetToSeq(DOMAIN in.subdirs))

RepoContextPlan(p, in, probes) ==
    LET own == RepoBody(in)
        local(d, content) == Entry("write", Append(d, LocalFile[p.agent]), content)
        subdirs == SetToSeq(DOMAIN in.subdirs)
    IN  CASE ~Delivers(p, "repo-orientation-doc") -> EmptyPlan
          [] Owned(p) -> ComposedRepoContextPlan(in, probes)
          [] OTHER -> PlanOf((IF own = <<>> THEN <<>> ELSE <<local(<<>>, own)>>)
                             \o [i \in DOMAIN subdirs |-> local(subdirs[i], <<in.subdirs[subdirs[i]]>>)])

(* The layer of a worktree: a section of the document already there.          *)
WorktreeContextPlan(p, heading, body, probe) ==
    LET section == <<Layer(heading, 1), body>>
        path == <<LocalFile[p.agent]>>
        replaced == [Entry("replace", path, section) EXCEPT !.heading = heading]
        written == Entry("write", path, ComposeDocument(section))
    IN  CASE ~Delivers(p, "worktree-orientation-doc") -> EmptyPlan
          [] ~Owned(p) -> PlanOf(<<replaced>>)
          [] probe.owned = "foreign" -> [EmptyPlan EXCEPT !.warnings = {<<"conflict", path>>}, !.exempt = {path}]
          [] OTHER -> PlanOf(<<OwnedEntry(IF probe.owned = "ours" THEN replaced ELSE written, "context", path)>>)

(* The import an older niwa put into the instance's CLAUDE.md goes.           *)
LegacyImportPlan(existing, import) ==
    IF existing = Unset \/ ~Contains(existing, import) THEN EmptyPlan
    ELSE PlanOf(<<[Entry("write", <<"CLAUDE.md">>, RemoveFirst(existing, import)) EXCEPT !.managed = FALSE]>>)

-----------------------------------------------------------------------------
(* A plan's entries are delivered in order; at the first that can't be the    *)
(* run fails and reports none, though those before it are in the tree.  A     *)
(* disk: its tree, the trees a delivery may link to (`sources') and whether   *)
(* links can be made.                                                         *)
Start(disk) == [tree |-> disk.tree, written |-> {}, failed |-> FALSE]

EntryApplies(disk, tree, e) ==
    CASE e.pre = "source exists" -> e.source \in disk.sources
      [] e.pre = "not foreign" -> ProbeOwnership(tree, e.path, e.owner) # "foreign"
      [] OTHER -> TRUE

(* The section begins at its heading and everything after it goes.            *)
ReplaceSection(doc, heading, section) ==
    LET at == SelectInSeq(doc, LAMBDA l : l.of = heading)
    IN  (IF at = 0 THEN doc ELSE SubSeq(doc, 1, at - 1)) \o section

(* A delivered tree is a link to its source, or a copy with a marker in it.   *)
NiwasCopy(node, owner) == node.is = "dir" /\ node.doc = <<Marker(owner)>>
Delivered(tree, path, owner) ==
    path \notin DOMAIN tree \/ tree[path].is = "link" \/ NiwasCopy(tree[path], owner)
TreeNode(disk, e) ==
    IF disk.links THEN Node("link", <<>>, FALSE, e.source) ELSE Node("dir", <<Marker(e.owner)>>, FALSE, e.source)

(* What the path holds once the entry is delivered; Unset if it can't be.     *)
NodeAfter(disk, tree, e) ==
    LET was == IF e.path \in DOMAIN tree THEN tree[e.path] ELSE File(<<>>)
    IN  CASE Blocked(tree, e.path) -> Unset
          [] e.op = "tree" -> IF ~Delivered(tree, e.path, e.owner) THEN Unset
                              ELSE IF Is(tree, e.path, {"link"}) /\ was.target = e.source THEN was
                              ELSE TreeNode(disk, e)
          [] Is(tree, e.path, {"dir"}) -> Unset
          [] e.op = "replace" -> [was EXCEPT !.doc = ReplaceSection(was.doc, e.heading, e.content)]
          [] OTHER -> [was EXCEPT !.doc = e.content]

Deliver(disk, st, e) ==
    LET probed == e.pre = "not foreign" /\ ProbeOwnership(st.tree, e.path, e.owner) = "error"
        with(node) ==
            IF probed \/ node = Unset THEN [st EXCEPT !.failed = TRUE]
            ELSE [st EXCEPT !.tree = (e.path :> node) @@ @, !.written = @ \cup {e.path}]
    IN  IF st.failed \/ ~EntryApplies(disk, st.tree, e) THEN st ELSE with(NodeAfter(disk, st.tree, e))

ApplyPlan(disk, plan) ==
    IF plan.failed THEN [Start(disk) EXCEPT !.failed = TRUE]
    ELSE FoldLeft(LAMBDA st, e : Deliver(disk, st, e), Start(disk), plan.entries)

(* The paths niwa will remove when it no longer writes them, and those git is *)
(* told to ignore.                                                            *)
ManagedEntries(plan, written) == {e.path : e \in {x \in ToSet(plan.entries) : x.managed /\ x.path \in written}}
ExcludesUnder(plan, written) ==
    {e.exclude : e \in {x \in ToSet(plan.entries) : x.exclude # Unset /\ x.path \in written}}

-----------------------------------------------------------------------------
(* The configuration document of an agent: the MCP servers it reaches, and    *)
(* for Codex the session's environment, its posture and the context budget.   *)
Layouts ==
    [claude |-> [scope |-> "root", path |-> <<".mcp.json">>, ownDocument |-> FALSE, unsupported |-> {},
                 collides |-> FALSE, approved |-> TRUE],
     codex |-> [scope |-> "repo", path |-> <<".codex", "config.toml">>, ownDocument |-> TRUE,
                unsupported |-> {"sse"}, collides |-> TRUE, approved |-> FALSE]]
LayoutOf(p) == Layouts[p.agent]

(* A server: [name, agents, command, url, transport, args, headers, env,      *)
(* literal]; the last says a value still has a reference in it.               *)
ServersFor(p, servers) == {s \in servers : s.agents = {} \/ p.agent \in s.agents}

Transport(s) ==
    CASE s.command = s.url -> "invalid"
      [] s.transport = "" -> IF s.command THEN "stdio" ELSE "http"
      [] s.transport = "stdio" -> IF s.command THEN "stdio" ELSE "invalid"
      [] s.transport \in {"http", "sse"} -> IF s.url THEN s.transport ELSE "invalid"
      [] OTHER -> "invalid"

ValidServer(s, layout) ==
    /\ s.name # ""
    /\ Transport(s) \notin {"invalid"} \cup layout.unsupported
    /\ IF Transport(s) = "stdio" THEN ~s.headers ELSE ~s.args /\ s.env = {}
    /\ ~s.literal

(* A value that has none, or is still a reference, is left out with a word.   *)
ServerFromConfig(s) ==
    [server |-> [s EXCEPT !.env = {v.name : v \in {w \in s.env : w.is = "value"}}],
     warnings |-> {<<s.name, v.name>> : v \in {w \in s.env : w.is # "value"}}]

(* The names the developer's own configuration already has.                   *)
DeclaredNames(p, own) ==
    IF LayoutOf(p).collides /\ own.is = "table" THEN own.names ELSE {}

Approvals == {"on-untrusted", "on-failure", "on-request", "never"}
Sandboxes == {"read-only", "workspace-write", "full-access"}
ValidPosture(posture) ==
    posture.approvals \in Approvals \cup {""} /\ posture.sandbox \in Sandboxes \cup {""}
NoPosture == [approvals |-> "", sandbox |-> ""]

(* An environment: a set of [name, usable, literal].                          *)
ValidSessionEnv(env) == \A v \in env : v.usable /\ ~v.literal

PayloadProbe(tree, p, scope) ==
    IF LayoutOf(p).ownDocument /\ LayoutOf(p).scope = scope
    THEN [NoProbe EXCEPT !.path = LayoutOf(p).path, !.owned = ProbeOwnership(tree, LayoutOf(p).path, "config")]
    ELSE NoProbe

(* What the document would say, of a request [scope, servers, env, posture,   *)
(* existing, chain].                                                          *)
Payload(p, req) ==
    LET codex == p.agent = "codex"
    IN  [servers |-> IF Delivers(p, "mcp-servers") THEN ServersFor(p, req.servers) ELSE {},
         env |-> IF Delivers(p, "session-environment") /\ codex THEN req.env ELSE {},
         posture |-> IF Delivers(p, "approval-posture") /\ codex THEN req.posture ELSE NoPosture,
         budget |-> IF Delivers(p, "repo-orientation-doc") /\ codex THEN BudgetFor(req.chain) ELSE 0]

ValidPayload(p, pay, req) ==
    /\ \A s \in pay.servers : ValidServer(s, LayoutOf(p))
    /\ {s.name : s \in pay.servers} \cap req.existing = {}
    /\ ValidSessionEnv(pay.env) /\ ValidPosture(pay.posture)
    /\ pay.budget # 0 => pay.budget >= DocBudget /\ pay.budget >= req.chain

RenderPayload(p, pay) ==
    (IF LayoutOf(p).ownDocument THEN <<Marker("config")>> ELSE <<>>) \o <<[of |-> "payload", size |-> 1, says |-> pay]>>

PayloadPlan(p, req, probe) ==
    LET layout == LayoutOf(p)
        entry(pay) == Entry("write", layout.path, RenderPayload(p, pay))
        kept(pay) == {<<"conflict", probe.path>>} \cup (IF pay.budget > 0 THEN {<<"budget", pay.budget>>} ELSE {})
        plan(pay) ==
            CASE layout.scope # req.scope -> EmptyPlan
              [] pay = [servers |-> {}, env |-> {}, posture |-> NoPosture, budget |-> 0] -> EmptyPlan
              [] ~ValidPayload(p, pay, req) -> FailedPlan
              [] ~layout.ownDocument -> PlanOf(<<entry(pay)>>)
              [] probe.owned = "foreign" -> [EmptyPlan EXCEPT !.warnings = kept(pay), !.exempt = {probe.path}]
              [] OTHER -> PlanOf(<<OwnedEntry(entry(pay), "config", <<Head(layout.path)>>)>>)
    IN  plan(Payload(p, req))

(* The result of an installer: what a failed run wrote is not accounted for.  *)
Install(disk, plan) ==
    LET of(tree, written, failed) ==
            [tree |-> tree, written |-> written, failed |-> failed, plan |-> plan,
             excludes |-> ExcludesUnder(plan, written), managed |-> ManagedEntries(plan, written)]
        after(st) == of(st.tree, IF st.failed THEN {} ELSE st.written, st.failed)
    IN  after(ApplyPlan(disk, plan))

(* A plan that would write through a link out of the tree is refused.         *)
InstallInside(disk, plan) ==
    Install(disk, IF \E i \in DOMAIN plan.entries : Escapes(disk.tree, plan.entries[i].path)
                  THEN FailedPlan ELSE plan)

InstallPayload(disk, p, req) ==
    LET of(probe) == IF probe.owned = "error" THEN Install(disk, FailedPlan)
                     ELSE InstallInside(disk, PayloadPlan(p, req, probe))
    IN  of(PayloadProbe(disk.tree, p, req.scope))

InstallRepoContent(disk, p, in) ==
    LET dirs == {<<>>} \cup DOMAIN in.subdirs
        probes == [d \in dirs |-> Probe(disk.tree, p, d)]
        bad == \/ \E d \in DOMAIN in.subdirs : Escapes(disk.tree, d)
               \/ \E d \in dirs : probes[d].owned = "error"
    IN  Install(disk, IF bad THEN FailedPlan ELSE RepoContextPlan(p, in, probes))

-----------------------------------------------------------------------------
(* A repository's settings approve the servers the instance's root document   *)
(* defines, once that document was really written.                            *)
MCPApprovals(p, scope, servers) ==
    IF LayoutOf(p).approved /\ LayoutOf(p).scope = scope /\ Delivers(p, "mcp-servers")
    THEN {s.name : s \in ServersFor(p, servers)} ELSE {}

InstanceRootApprovals(open, servers) ==
    UNION {MCPApprovals([agent |-> a, open |-> open[a]], "root", servers) : a \in Agents}

RepoApprovals(trustInstances, claudeInRepo, open, servers) ==
    IF trustInstances /\ claudeInRepo THEN InstanceRootApprovals(open, servers) ELSE {}

BacksApprovals(install) == install.written # {} /\ install.plan.exempt = {}

RecordedApprovals(backed, review, open, servers) ==
    IF backed /\ ~review THEN InstanceRootApprovals(open, servers) ELSE {}
=============================================================================
