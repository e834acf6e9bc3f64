------------------------------ MODULE EnvLayers ------------------------------
(***************************************************************************)
(* The layers a repository's environment is built from, in the order the   *)
(* apply puts them together: the workspace's configuration, its overlay,   *)
(* the personal overlay (itself of two blocks), the repository's override, *)
(* env files, .env.example, and the machine's own (workspace/override,     *)
(* materialize, env_example_prepass, host_env, and config's env files).    *)
(*                                                                         *)
(* A layer: the tables of slots vars, secrets, claudeVars, claudeSecrets   *)
(* and settings, each a function from keys; declared, for vars and secrets *)
(* the keys of each requirement level; the sequences promote, envFiles and *)
(* plugins (Unset when the key is not written); hooks, a function from     *)
(* events to sequences; and files, a function from sources to destinations *)
(* ("" to take a source away).                                             *)
(***************************************************************************)
EXTENDS Secrets

SlotTables == {"vars", "secrets", "claudeVars", "claudeSecrets", "settings"}

(* What more has that base has not, after it.  Only base is looked into.     *)
AppendNew(base, more) == base \o SelectSeq(more, LAMBDA x : x \notin Range(base))

OrEmpty(sequence) == IF sequence = Unset THEN <<>> ELSE sequence

(* Every hook of an event runs, those of the later layer last. *)
HooksOf(layer, event) == IF event \in DOMAIN layer.hooks THEN layer.hooks[event] ELSE <<>>
AppendHooks(base, over) ==
    [e \in DOMAIN base.hooks \cup DOMAIN over.hooks |-> HooksOf(base, e) \o HooksOf(over, e)]

OverFiles(base, over) ==
    LET all == Over(over, base)
    IN  [src \in {f \in DOMAIN all : f \notin DOMAIN over \/ over[f] # ""} |-> all[src]]

(* Of a layer's tables, over's entries win. *)
OverTables(base, over) ==
    [base EXCEPT !.vars = Over(over.vars, @), !.secrets = Over(over.secrets, @),
                 !.claudeVars = Over(over.claudeVars, @), !.claudeSecrets = Over(over.claudeSecrets, @),
                 !.settings = Over(over.settings, @)]

(* MergeOverrides, and MergeInstanceOverrides for the instance itself: the   *)
(* override's own entries win.  Nothing of it is declared.                   *)
MergeOverrides(ws, override) ==
    [OverTables(ws, override) EXCEPT
        !.promote = AppendNew(@, override.promote),
        !.envFiles = @ \o override.envFiles,
        !.hooks = AppendHooks(ws, override),
        !.files = OverFiles(@, override.files),
        !.plugins = IF override.plugins = Unset THEN @ ELSE override.plugins]

(* The personal overlay's block for a scope over its block for all. *)
ResolveGlobalOverride(all, scoped) ==
    IF scoped = Unset THEN all
    ELSE [OverTables(all, scoped) EXCEPT
             !.promote = AppendNew(@, scoped.promote),
             !.envFiles = @ \o scoped.envFiles,
             !.hooks = Over(scoped.hooks, @),
             !.files = Over(scoped.files, @),
             !.plugins = IF scoped.plugins = Unset THEN @ ELSE scoped.plugins]

(* The configuration must say which block is meant when it has more sources  *)
(* than one.                                                                 *)
VaultScopeIsAmbiguous(scope, sources, personal) ==
    personal # Unset /\ scope = Unset /\ Len(sources) > 1

(* team_only locks a key in the table that declares it. *)
TeamOnlyLocked(ws, personal, teamOnly) ==
    \/ \E t \in SlotTables : DOMAIN ws[t] \cap DOMAIN personal[t] \cap teamOnly # {}
    \/ DOMAIN ws.files \cap DOMAIN personal.files \cap teamOnly # {}

(* Mutant: an entry of the personal overlay wins though it is locked. *)
MergeGlobalUnlocked(ws, personal, teamOnly) ==
    [OverTables(ws, personal) EXCEPT
        !.promote = AppendNew(@, personal.promote), !.envFiles = @ \o personal.envFiles,
        !.hooks = AppendHooks(ws, personal), !.files = OverFiles(@, personal.files)]

MergeGlobalOverride(ws, personal, teamOnly) ==
    IF TeamOnlyLocked(ws, personal, teamOnly) THEN Unset
    ELSE [OverTables(ws, personal) EXCEPT
             !.promote = AppendNew(@, personal.promote),
             !.envFiles = @ \o personal.envFiles,
             !.hooks = AppendHooks(ws, personal),
             !.files = OverFiles(@, personal.files),
             !.plugins = IF personal.plugins = Unset THEN @
                         ELSE AppendNew(OrEmpty(@), personal.plugins)]

(* What of the workspace's the personal overlay stands before (niwa status). *)
DetectShadows(team, all, scoped) ==
    UNION {{[table |-> t, key |-> k] : k \in DOMAIN team[t] \cap DOMAIN g[t]} :
               t \in SlotTables \cup {"files"}, g \in {all, scoped} \ {Unset}}

(* The workspace overlay only adds: what the base has, it keeps.  A source   *)
(* of an organisation the base has, content the base has too, or an          *)
(* addition to content it has not, fails the merge.  An overlay also has     *)
(* sources, content (a function to "source" or "overlay") and instanceFiles. *)
OverlayConflicts(ws, overlay) ==
    \/ Range(ws.orgs) \cap Range(overlay.orgs) # {} \/ ~IsInjective(overlay.orgs)
    \/ \E repo \in DOMAIN overlay.content :
           (overlay.content[repo] = "source") = (repo \in ws.content)

(* Of the override of a repository both have, the overlay's env alone is     *)
(* taken.                                                                    *)
RepoWithOverlay(base, overlay) ==
    CASE base = Unset -> overlay
      [] overlay = Unset -> base
      [] OTHER -> [base EXCEPT !.vars = Over(@, overlay.vars), !.secrets = Over(@, overlay.secrets)]

MergeWorkspaceOverlay(ws, overlay) ==
    IF OverlayConflicts(ws, overlay) THEN Unset
    ELSE [ws EXCEPT
             !.vars = Over(@, overlay.vars), !.secrets = Over(@, overlay.secrets),
             !.settings = Over(@, overlay.settings),
             !.envFiles = @ \o overlay.envFiles,
             !.hooks = AppendHooks(ws, overlay),
             !.files = Over(@, overlay.files),
             !.orgs = @ \o overlay.orgs,
             !.plugins = IF OrEmpty(overlay.plugins) = <<>> THEN @
                         ELSE AppendNew(OrEmpty(@), overlay.plugins),
             !.content = @ \cup {r \in DOMAIN overlay.content : overlay.content[r] = "source"},
             !.declared = [t \in {"vars", "secrets"} |->
                              [l \in {"required", "recommended", "optional"} |->
                                  @[t][l] \cup overlay.declared[t][l]]]]

(* Overlay servers of a name the base has are dropped. *)
DropShadowedServers(base, overlay) == [keep |-> overlay \ base, dropped |-> overlay \cap base]

(* The instance files of the overlay whose destination the base's don't      *)
(* take, however it is spelled; clean gives the one spelling.                *)
OverlayInstanceFiles(base, overlay, clean) ==
    LET taken == {clean[base[src]] : src \in {f \in DOMAIN base : base[f] # ""}}
    IN  {src \in DOMAIN overlay : overlay[src] # "" /\ clean[overlay[src]] \notin taken}

(* The agent's gate: the repository's, then the workspace's, then open. *)
AgentEnabled(repoGate, workspaceGate) ==
    CASE repoGate # Unset -> repoGate [] workspaceGate # Unset -> workspaceGate [] OTHER -> TRUE

-----------------------------------------------------------------------------
(* .env.example.  Each of its values is of a category, "safe" or a kind of   *)
(* probable secret; a policy maps keys and categories to "warn" or "fail".   *)
ActionFor(repo, ws, global, key, category, inline) ==
    CASE key \in DOMAIN repo.keys -> repo.keys[key]
      [] key \in DOMAIN ws.keys -> ws.keys[key]
      [] inline # Unset -> inline
      [] category \in DOMAIN repo.categories -> repo.categories[category]
      [] category \in DOMAIN ws.categories -> ws.categories[category]
      [] category \in DOMAIN global.categories -> global.categories[category]
      [] OTHER -> "warn"

(* Keys of any table of secrets, with a value or declared. *)
SecretsExclusion(effective, repoSecrets) ==
    DOMAIN effective.secrets \cup DeclaredKeys(effective.declared.secrets)
        \cup DOMAIN effective.claudeSecrets \cup DOMAIN repoSecrets

(* example: key -> category; action: <<key, category>> -> what the policy    *)
(* says of it.  The values let in, or the keys that fail the repository.     *)
EnvExample(example, effective, repoSecrets, action, allowPlaintext) ==
    LET open == DOMAIN example \ SecretsExclusion(effective, repoSecrets)
        suspect == {k \in open \ DOMAIN effective.vars : example[k] # "safe"}
        failing == {k \in suspect : action[<<k, example[k]>>] = "fail" /\ ~allowPlaintext}
    IN  [failing |-> failing, let |-> IF failing = {} THEN open ELSE {}]

-----------------------------------------------------------------------------
(* ResolveEnvVars.  in: example, and files (a sequence), functions from keys *)
(* to values; effective; repoFile, such a function or Unset; and host, its   *)
(* unset keys and its vars.  A mark takes away what a lower layer gave, and  *)
(* is itself forgotten when a higher layer gives a value.                    *)
Marked(table) == {k \in DOMAIN table : table[k].is = "unresolved"}

ValuesOf(table) == [k \in DOMAIN table \ Marked(table) |-> table[k].value]

EnvFiles(named, discovered) ==
    IF named = <<>> /\ discovered # Unset THEN <<discovered>> ELSE named

Lower(in) == FoldLeft(LAMBDA vars, f : f @@ vars, in.example, in.files)

ApplyHost(vars, unset, over) == over @@ [k \in DOMAIN vars \ unset |-> vars[k]]

(* Mutant: a mark leaves the value of a lower layer. *)
ResolveEnvVarsKeepingLower(in) ==
    LET slots == in.effective.secrets @@ in.effective.vars
        vars == ApplyHost(OrEmpty(in.repoFile) @@ ValuesOf(slots) @@ Lower(in), in.host.unset, in.host.vars)
    IN  [vars |-> vars, marks |-> Marked(slots) \ (DOMAIN vars \cup in.host.unset)]

ResolveEnvVars(in) ==
    LET slots == in.effective.secrets @@ in.effective.vars
        lower == [k \in DOMAIN Lower(in) \ DOMAIN slots |-> Lower(in)[k]]
        vars == ApplyHost(OrEmpty(in.repoFile) @@ ValuesOf(slots) @@ lower, in.host.unset, in.host.vars)
        marked == Marked(in.effective.vars) \cup Marked(in.effective.secrets)
    IN  [vars |-> vars, marks |-> marked \ (DOMAIN vars \cup in.host.unset)]

(* The Claude environment: promoted keys of the resolved environment, and    *)
(* its own variables over them.  A promoted key with no value is left out,   *)
(* or fails a strict run.                                                    *)
ClaudeEnv(promote, env, own, host, strict) ==
    LET wanted == Range(promote) \ host.claude.unset
        below == [k \in (wanted \cap DOMAIN env.vars) \ DOMAIN own |-> env.vars[k]]
    IN  IF strict /\ ~(wanted \subseteq DOMAIN env.vars \cup host.unset) THEN Unset
        ELSE ApplyHost(ValuesOf(own) @@ below, host.claude.unset, host.claude.vars)

(* Where the environment is written: the repository's targets, then the      *)
(* workspace's, then the machine's, then .local.env.                         *)
EffectiveEnvOutput(repo, ws, global) ==
    CASE repo # <<>> -> repo [] ws # <<>> -> ws [] global # <<>> -> global [] OTHER -> <<".local.env">>

(* What the host-local layer is said to win over. *)
HostOver(personal, workspace, key) ==
    CASE key \in personal -> "the personal overlay"
      [] key \in workspace -> "the workspace config"
      [] OTHER -> "nothing"

-----------------------------------------------------------------------------
(* What these promise. *)

(* The layers of a repository's environment, merged as the apply does it.    *)
Effective(layers, teamOnly) ==
    LET ws == MergeWorkspaceOverlay(layers.ws, layers.overlay)
        personal == ResolveGlobalOverride(layers.all, layers.scoped)
        merged == MergeGlobalOverride(ws, personal, teamOnly)
        repo == RepoWithOverlay(layers.repo, layers.overlayRepo)
    IN  CASE ws = Unset \/ merged = Unset -> Unset
          [] repo = Unset -> merged
          [] OTHER -> MergeOverrides(merged, repo)

(* Every key of it is as the highest layer that has it says, in the order    *)
(* the guides give: the machine's own layer, the repository's env file, the  *)
(* tables of secrets and then of variables (each the repository's, the       *)
(* overlay's for the repository, the personal overlay's two blocks, the      *)
(* workspace's, the workspace overlay's), env files, the later first, and    *)
(* .env.example.  A layer that has a mark for the key is the highest, so     *)
(* that nothing below it shows through.                                      *)
HighestLayerDecides(layers, teamOnly, in) ==
    LET effective == Effective(layers, teamOnly)
        env == ResolveEnvVars([in EXCEPT !.effective = effective])
        named == <<layers.repo, layers.overlayRepo, layers.scoped, layers.all, layers.ws, layers.overlay>>
        slots(t) == [i \in 1 .. 6 |-> IF named[i] = Unset THEN <<>> ELSE named[i][t]]
        plain(f) == [k \in DOMAIN f |-> Plain(f[k])]
        order == <<plain(in.host.vars), [k \in in.host.unset |-> Nothing], plain(OrEmpty(in.repoFile))>>
                 \o slots("secrets") \o slots("vars") \o [i \in DOMAIN in.files |-> plain(Reverse(in.files)[i])]
                 \o <<plain(in.example)>>
        having(k) == {i \in DOMAIN order : k \in DOMAIN order[i]}
        highest(k) == CHOOSE i \in having(k) : \A j \in having(k) : i <= j
        keys == UNION {DOMAIN order[i] : i \in DOMAIN order}
    IN  effective # Unset =>
        /\ DOMAIN env.vars \cap env.marks = {}
        /\ \A k \in keys :
            LET slot == order[highest(k)][k]
            IN  CASE highest(k) = 2 -> k \notin DOMAIN env.vars \cup env.marks
                  [] slot.is = "unresolved" -> k \in env.marks
                  [] OTHER -> k \in DOMAIN env.vars /\ env.vars[k] = slot.value
        /\ DOMAIN env.vars \cup env.marks \subseteq keys

(* A key the team locks keeps the team's slot in the table that has it,      *)
(* whatever the personal overlay says, or the merge fails; and the overlay   *)
(* of the workspace never takes anything from the base.                      *)
LockedKeysStay(layers, teamOnly) ==
    LET ws == MergeWorkspaceOverlay(layers.ws, layers.overlay)
        merged == MergeGlobalOverride(ws, ResolveGlobalOverride(layers.all, layers.scoped), teamOnly)
        has(base, over) == \A k \in DOMAIN base : k \in DOMAIN over /\ over[k] = base[k]
    IN  ws # Unset =>
        /\ \A t \in SlotTables : has(layers.ws[t], ws[t])
        /\ merged # Unset => \A t \in SlotTables :
               has([k \in DOMAIN ws[t] \cap teamOnly |-> ws[t][k]], merged[t])

(* No key of a table of secrets is supplied by .env.example, declared or     *)
(* not, nor is a probable secret a policy fails.                             *)
ExampleSuppliesNoSecret(example, effective, repoSecrets, action) ==
    LET answer == EnvExample(example, effective, repoSecrets, action, FALSE)
        secret == DOMAIN effective.secrets \cup DeclaredKeys(effective.declared.secrets) \cup DOMAIN repoSecrets
    IN  /\ answer.let \cap secret = {}
        /\ \A k \in answer.let : example[k] = "safe" \/ k \in DOMAIN effective.vars \/ action[<<k, example[k]>>] = "warn"
        /\ answer.failing # {} => answer.let = {}
=============================================================================
