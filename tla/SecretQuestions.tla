--------------------------- MODULE SecretQuestions ---------------------------
(***************************************************************************)
(* What is asked of Secrets, EnvLayers and VaultStore, and what each of    *)
(* their answers has to be.                                                *)
(***************************************************************************)
EXTENDS EnvLayers, Asking

CONSTANT TokenFromEnv

V == INSTANCE VaultStore

LOCAL Partial(D, R) == UNION {[S -> R] : S \in SUBSET D}

-----------------------------------------------------------------------------
(* A slot of a table, its key's declared level and what a provider of each   *)
(* name answers for it.                                                      *)
LOCAL Uris == {[sound |-> b, segments |-> s, required |-> r] :
                   b \in BOOLEAN, s \in {<<>>, <<"k">>, <<"p", "k">>, <<"q", "k">>, <<"p", "x", "k">>, <<"", "k">>},
                   r \in {"", "false", "bad"}}
LOCAL Slots == {Plain("v"), Nothing, Hidden("v")} \cup {Reference(u) : u \in Uris}
LOCAL Replies == {Says(c) : c \in Causes \cup {"error"}} \cup {Hidden("s")}
LOCAL Bundles ==
    {<<>>} \cup {name :> (<<<<>>, "k">> :> r) : name \in {"", "p"}, r \in Replies} \cup {"p" :> <<>>}
    \cup {"" :> (<<<<"p", "x">>, "k">> :> r) : r \in Replies}

AskSlot ==
    /\ Taken("slot")
    /\ \E s \in Slots \cup {Unset}, l \in {"", "required", "optional"}, b \in BOOLEAN, u \in Bundles :
           Put([slot |-> s, level |-> l, secrets |-> b, bundle |-> u])

LOCAL TableOf(q) ==
    [values |-> IF q.slot = Unset THEN <<>> ELSE ("key" :> q.slot), required |-> {}, recommended |-> {}, optional |-> {}]
LOCAL Declaring(q) == IF q.level = "" THEN TableOf(q) ELSE [TableOf(q) EXCEPT ![q.level] = {"key"}]

(* A file and a vault that know of some of three projects, the last of which *)
(* holds the vault's own bodies.                                             *)
LOCAL At(p) == [kind |-> "infisical", project |-> p]
LOCAL Own(p) == [kind |-> "infisical", project |-> p, id |-> "own"]
LOCAL Bodies == {Says("key-not-found"), Says("unreachable"), Says("error")}
                \cup {[is |-> "body", fault |-> "", version |-> v, id |-> "stored"] : v \in {"1", "2"}}

AskPool ==
    /\ Taken("pool")
    /\ \E f \in {<<>>, <<Own("a")>>, <<Own("a"), Own("")>>}, a \in [1 .. 3 -> {At("a"), At("b"), At("")}] :
           \/ Put([file |-> f, vault |-> Unset, ats |-> a])
           \/ \E s \in {At("a"), At("c")}, w \in [1 .. 3 -> Bodies] :
                   Put([file |-> f, vault |-> [self |-> s, answers |-> w], ats |-> a])

(* One key, in up to three of the places a layer may have it.                *)
LOCAL Blocks == {"repo", "overlayRepo", "scoped", "all", "ws", "overlay"}
LOCAL Places == (Blocks \X {"vars", "secrets"}) \cup
                {<<p, "">> : p \in {"host", "unset", "repoFile", "file1", "file2", "example"}}
LOCAL InUpToThree == {{}} \cup {{p, q, r} : p, q, r \in Places}

AskEnv ==
    /\ Taken("env")
    /\ \E S \in InUpToThree, t \in SUBSET {"k"} :
           \E f \in [S -> {"value", "mark"}] : Put([at |-> f, teamOnly |-> t])

LOCAL NoLevels == [t \in {"vars", "secrets"} |-> [l \in {"required", "recommended", "optional"} |-> {}]]
LOCAL Slot(q, p) == IF q.at[p] = "mark" THEN Mark("key-not-found", "") ELSE Plain(p)
LOCAL TableAt(q, block, t) == IF <<block, t>> \in DOMAIN q.at THEN ("k" :> Slot(q, <<block, t>>)) ELSE <<>>
LOCAL LayerAt(q, block) ==
    [vars |-> TableAt(q, block, "vars"), secrets |-> TableAt(q, block, "secrets"), claudeVars |-> <<>>,
     claudeSecrets |-> <<>>, settings |-> <<>>, declared |-> NoLevels, promote |-> <<>>, envFiles |-> <<>>,
     plugins |-> Unset, hooks |-> <<>>, files |-> <<>>, orgs |-> <<>>, content |-> <<>>]
LOCAL HasBlock(q, block) == \E t \in {"vars", "secrets"} : <<block, t>> \in DOMAIN q.at
LOCAL IfHad(q, block) == IF HasBlock(q, block) THEN LayerAt(q, block) ELSE Unset
LOCAL LayersOf(q) ==
    [repo |-> IfHad(q, "repo"), overlayRepo |-> IfHad(q, "overlayRepo"), scoped |-> IfHad(q, "scoped"),
     all |-> LayerAt(q, "all"), ws |-> [LayerAt(q, "ws") EXCEPT !.content = {}], overlay |-> LayerAt(q, "overlay")]
LOCAL ValueAt(q, place) == IF <<place, "">> \in DOMAIN q.at THEN ("k" :> <<place, "">>) ELSE <<>>
LOCAL InOf(q) ==
    [example |-> ValueAt(q, "example"), files |-> <<ValueAt(q, "file1"), ValueAt(q, "file2")>>, effective |-> Unset,
     repoFile |-> IF <<"repoFile", "">> \in DOMAIN q.at THEN ValueAt(q, "repoFile") ELSE Unset,
     host |-> [unset |-> DOMAIN ValueAt(q, "unset"), vars |-> ValueAt(q, "host")]]

(* Two keys of an example, one of a category of its own, and three policies. *)
LOCAL Policy(keys, categories) == [keys |-> keys, categories |-> categories]
LOCAL EnvPolicies ==
    {Policy(k, c) : k \in {<<>>, "a" :> "fail", "a" :> "warn"}, c \in {<<>>, "token" :> "fail", "token" :> "warn"}}

AskExample ==
    /\ Taken("example")
    /\ \E e \in Partial({"a", "b"}, {"safe", "token"}), s \in SUBSET {"a"}, d \in SUBSET {"a", "b"}, r \in SUBSET {"b"},
          v \in SUBSET {"a"}, p \in EnvPolicies, w \in {x \in EnvPolicies : x.keys = <<>>},
          g \in {Policy(<<>>, <<>>), Policy(<<>>, "token" :> "fail")} :
           Put([example |-> e, secrets |-> s, declared |-> d, repoSecrets |-> r, vars |-> v,
                           repo |-> p, ws |-> w, global |-> g])

LOCAL ActionsOf(q) ==
    [x \in (DOMAIN q.example) \X {"safe", "token"} |-> ActionFor(q.repo, q.ws, q.global, x[1], x[2], Unset)]
LOCAL ExampleLayer(q) ==
    [secrets |-> [k \in q.secrets |-> Plain("v")], claudeSecrets |-> <<>>, vars |-> [k \in q.vars |-> Plain("v")],
     declared |-> [secrets |-> [required |-> q.declared, recommended |-> {}, optional |-> {}]]]

-----------------------------------------------------------------------------
(* Two runs of niwa over one folder of a vault. *)
LOCAL LoginsAre(parsed, sessions) == [timedOut |-> FALSE, parsed |-> parsed, sessions |-> sessions, malformed |-> FALSE]
LOCAL LoggedIn == LoginsAre(TRUE, <<[source |-> "login", state |-> "authenticated", verified |-> TRUE]>>)
LOCAL Exported(is, status, values, probe) ==
    [is |-> is, status |-> status, wording |-> FALSE, cancelled |-> FALSE, values |-> values, probe |-> probe]
LOCAL Gives(values) == Exported("values", 0, values, LoginsAre(FALSE, <<>>))
LOCAL Fails(is, status) == Exported(is, status, <<>>, LoginsAre(FALSE, <<>>))
LOCAL Exports ==
    {Gives("a" :> 1), Gives("b" :> 1), Exported("exit", 403, <<>>, LoggedIn), Fails("exit", 404), Fails("exit", 500),
     Exported("exit", 403, <<>>, LoginsAre(TRUE, <<>>)), Fails("timeout", 0), Fails("absent", 0), Fails("garbled", 0)}
LOCAL Wants(minted, key) == [minted |-> minted, folder |-> "f", key |-> key]
LOCAL Events ==
    {[run |-> 1, ask |-> a, export |-> x, fails |-> <<>>] :
        a \in {Wants(FALSE, "a"), Wants(FALSE, "b"), Wants(TRUE, "a")}, x \in Exports}
    \cup {[run |-> 2, ask |-> Wants(FALSE, "a"), export |-> x, fails |-> <<>>] :
        x \in {Gives("a" :> 2), Fails("exit", 404), Fails("timeout", 0)}}
    \cup {[run |-> r, ask |-> Unset, export |-> Gives(<<>>), fails |-> "f" :> x] : r \in {1, 2}, x \in {"", "lock", "write"}}

LOCAL EndsWithItsFlush(h) == \A i, j \in DOMAIN h : i < j /\ h[i].run = h[j].run => h[i].ask # Unset

AskStore ==
    /\ Taken("store")
    /\ \E a, b, c \in Events : EndsWithItsFlush(<<a, b, c>>) /\ Put([events |-> <<a, b, c>>])

LOCAL TwoOld == [state |-> "sound", keys |-> [a |-> 0, b |-> 0]]
LOCAL StoreDir == [state |-> "private", owned |-> TRUE, worktree |-> FALSE, lock |-> "absent", files |-> "f" :> TwoOld]

(* One update of a directory in whatever state it may be found.              *)
LOCAL Files == {[state |-> s, keys |-> k] : s \in {"sound", "garbled", "link"}, k \in {<<>>, [a |-> 0, b |-> 1]}}
               \cup {[state |-> "absent", keys |-> <<>>]}
LOCAL Dirs ==
    {d \in [state : {"private", "open", "absent", "file"}, owned : BOOLEAN, worktree : BOOLEAN,
            lock : {"absent", "sound", "shared"}, files : [{"f"} -> Files]] :
        d.state \in {"absent", "file"} => d.lock = "absent" /\ d.files["f"].state = "absent"}

AskUpdate ==
    /\ Taken("update")
    /\ \E d \in Dirs, p \in {<<>>, "a" :> 1, "a" :> 0}, e \in {{}, {"b"}}, b \in BOOLEAN,
          x \in {"", "create", "lock", "write"} :
           Put([dir |-> d, puts |-> p, evicts |-> e, all |-> b, on |-> x])

-----------------------------------------------------------------------------
Topics == {"slot", "pool", "env", "example", "store", "update"}

Ask == AskSlot \/ AskPool \/ AskEnv \/ AskExample \/ AskStore \/ AskUpdate

IsRight(q) ==
    /\ IsAsked("slot") => NoValueIsMadeUp(Declaring(q), q.secrets, q.bundle)
    /\ IsAsked("pool") => CredentialsAreAskedOnce(NewPool(q.file, q.vault), q.ats)
    /\ IsAsked("env") => HighestLayerDecides(LayersOf(q), q.teamOnly, InOf(q)) /\ LockedKeysStay(LayersOf(q), q.teamOnly)
    /\ IsAsked("example") =>
           ExampleSuppliesNoSecret(q.example, ExampleLayer(q), [k \in q.repoSecrets |-> Plain("v")], ActionsOf(q))
    /\ IsAsked("store") => V!StoreIsTruthful({1, 2}, StoreDir, <<"f">>, q.events)
    /\ IsAsked("update") => V!UpdateIsWhole(q.dir, "f", q.puts, q.evicts, q.all, q.on)
=============================================================================
