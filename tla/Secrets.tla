------------------------------- MODULE Secrets -------------------------------
(***************************************************************************)
(* Secrets from the configuration to a value: references to a vault, the   *)
(* providers that answer them, the credentials niwa presents to them, and  *)
(* what becomes of a key nobody supplied (internal/vault, vault/resolve,   *)
(* workspace/credentialpool, providerauth, required, keyreport).           *)
(*                                                                         *)
(* A slot of a configuration table holds plain text, a secret, a reference *)
(* or a mark that says why it has no value.                                *)
(***************************************************************************)
EXTENDS Naturals, SequencesExt

CONSTANTS Unset   \* nothing where something could be

Plain(v) == [is |-> "plain", value |-> v]
Hidden(v) == [is |-> "secret", value |-> v]
Reference(uri) == [is |-> "reference", uri |-> uri]
Mark(cause, level) == [is |-> "unresolved", cause |-> cause, level |-> level]
Nothing == Plain("")
Failed == [is |-> "failed"]

(* f, and g where f says nothing; f with x at k.                             *)
Over(f, g) == [k \in DOMAIN f \cup DOMAIN g |-> IF k \in DOMAIN f THEN f[k] ELSE g[k]]
With(f, k, x) == [j \in DOMAIN f \cup {k} |-> IF j = k THEN x ELSE f[j]]

HasValue(slot) == slot.is = "secret" \/ (slot.is = "plain" /\ slot.value # "")

(* A reference as written: sound is FALSE for another scheme, userinfo, a    *)
(* fragment or a parameter other than one `required'.                        *)
ParseRef(uri, named) ==
    LET n == Len(uri.segments)
    IN  CASE ~uri.sound \/ n = 0 \/ "" \in Range(uri.segments) \/ uri.required = "bad" -> Unset
          [] named /\ n # 2 -> Unset
          [] OTHER -> [provider |-> IF named THEN uri.segments[1] ELSE "",
                       at |-> <<IF named THEN <<>> ELSE Front(uri.segments), Last(uri.segments)>>,
                       optional |-> uri.required = "false"]

(* What the configuration's own check says of a reference: it may only name  *)
(* a provider the file declares.                                             *)
UnknownProvider(uri, declared) ==
    CASE declared = {} -> TRUE
      [] "" \in declared -> FALSE
      [] OTHER -> Len(uri.segments) # 2 \/ uri.segments[1] \notin declared

-----------------------------------------------------------------------------
(* Registry.Build: the providers are opened one after another, and when one  *)
(* can't be, those opened before it are closed.  A spec: [name, kind, opens].*)
DuplicateNames(specs) == \E i, j \in DOMAIN specs : i < j /\ specs[i].name = specs[j].name

Build(specs, kinds) ==
    LET bad == {i \in DOMAIN specs : specs[i].kind \notin kinds \/ ~specs[i].opens}
        ok == ~DuplicateNames(specs) /\ bad = {}
    IN  [ok |-> ok, open |-> IF ok THEN {specs[i].name : i \in DOMAIN specs} ELSE {}]

(* The anonymous provider first; it belongs to its file, so that only named  *)
(* ones of the two files can collide.                                        *)
SpecsFromRegistry(anonymous, named) ==
    (IF anonymous = Unset THEN <<>> ELSE <<anonymous>>) \o named

ProviderNameCollision(team, personal) == (team \cap personal) \ {""} # {}
ProviderShadows(team, personal) == team \cap personal

-----------------------------------------------------------------------------
(* A bundle is a function from a provider's name to what it answers: a       *)
(* secret, the cause it has none, or "error" for a fault of another kind.    *)
Causes == {"key-not-found", "client-not-installed", "provider-unreachable"}
Says(what) == [is |-> what]
AnswerOf(provider, ref) ==
    IF ref.at \in DOMAIN provider THEN provider[ref.at] ELSE Says("key-not-found")

(* Mutant: a key the provider does not have is an empty value. *)
ResolveOneEmpty(slot, secrets, level, bundle) ==
    LET ref == ParseRef(slot.uri, DOMAIN bundle \ {""} # {})
    IN  CASE slot.is # "reference" -> slot
          [] ref = Unset -> Failed
          [] ref.provider \notin DOMAIN bundle -> Mark("undeclared-provider", level)
          [] AnswerOf(bundle[ref.provider], ref).is = "key-not-found" -> Nothing
          [] OTHER -> AnswerOf(bundle[ref.provider], ref)

ResolveOne(slot, secrets, level, bundle) ==
    LET ref == ParseRef(slot.uri, DOMAIN bundle \ {""} # {})
        answer == AnswerOf(bundle[ref.provider], ref)
    IN  IF slot.is = "plain" /\ HasValue(slot) /\ secrets THEN Hidden(slot.value)
        ELSE IF slot.is # "reference" THEN slot
        ELSE IF ref = Unset THEN Failed
        ELSE IF ref.provider \notin DOMAIN bundle THEN Mark("undeclared-provider", level)
        ELSE IF answer.is = "key-not-found" /\ ref.optional THEN Nothing
        ELSE IF answer.is \in Causes THEN Mark(answer.is, level)
        ELSE IF answer.is = "error" THEN Failed
        ELSE answer

(* A table: values, a function from keys to slots, and the keys declared     *)
(* required, recommended and optional.                                       *)
LevelOf(table, key) ==
    CASE key \in table.required -> "required"
      [] key \in table.recommended -> "recommended"
      [] key \in table.optional -> "optional"
      [] OTHER -> ""

DeclaredKeys(table) == table.required \cup table.recommended \cup table.optional

(* One failure fails the whole resolution. *)
ResolveTable(table, secrets, bundle) ==
    [table EXCEPT !.values =
        [k \in DOMAIN table.values |->
            ResolveOne(table.values[k], secrets, LevelOf(table, k), bundle)]]

ResolveWorkspace(tables, bundle) ==
    LET resolved == [t \in DOMAIN tables |->
                        ResolveTable(tables[t], t \in {"secrets", "claude secrets"}, bundle)]
    IN  IF \E t \in DOMAIN tables : Failed \in Range(resolved[t].values) THEN Unset ELSE resolved

(* checkRequiredKeys refuses only what a provider was asked for and lacks.   *)
MissingRequired(table) ==
    {k \in table.required \cap DOMAIN table.values :
        table.values[k].is = "unresolved" /\ table.values[k].cause = "key-not-found"}

WarnedRecommended(table) ==
    {k \in table.recommended : k \notin DOMAIN table.values \/ ~HasValue(table.values[k])}

(* collectUnresolvedKeys: what the apply reports at its end. *)
UnresolvedKeys(table) ==
    LET marked == {k \in DOMAIN table.values : table.values[k].is = "unresolved"}
    IN  {[key |-> k, cause |-> table.values[k].cause, level |-> table.values[k].level] : k \in marked}
        \cup UNION {{[key |-> k, cause |-> "no-source", level |-> l] :
                        k \in table[l] \ DOMAIN table.values} :
                    l \in {"required", "recommended", "optional"}}

-----------------------------------------------------------------------------
(* The credentials niwa presents: provider-auth.toml of this machine, and    *)
(* bodies a vault of the personal overlay holds.  A file: [state, mode,      *)
(* entries]; an entry: [kind, project, id].                                  *)
LoadProviderAuth(file) ==
    CASE file.state = "absent" -> [ok |-> TRUE, entries |-> <<>>]
      [] file.state # "sound" \/ file.mode # "0600" \/ {e.kind : e \in Range(file.entries)} \cap {Unset, ""} # {}
             -> [ok |-> FALSE, entries |-> <<>>]
      [] OTHER -> [ok |-> TRUE, entries |-> file.entries]

(* The first of the same kind and a project that is not empty. *)
MatchFileEntry(entries, at) ==
    LET same == {i \in DOMAIN entries : entries[i].kind = at.kind /\ entries[i].project = at.project
                                        /\ at.kind = "infisical" /\ at.project # ""}
    IN  IF same = {} THEN Unset ELSE entries[CHOOSE i \in same : \A j \in same : i <= j]

(* A body: [is |-> "body", fault, version, id]; no version is the first.     *)
ParseProviderAuthBody(at, body) ==
    IF body.fault # "" \/ body.version \notin {"", "1"} THEN Says("error")
    ELSE [is |-> "entry", entry |-> [kind |-> at.kind, project |-> at.project, id |-> body.id]]

(* A pool: [file, vault, cache, unreachable, audit].  vault is Unset or      *)
(* [self, answers]: answers[n] is what it says to the n-th question.         *)
VaultAnswer(pool, at) ==
    LET said == pool.vault.answers[Len(pool.asked) + 1]
    IN  IF said.is = "body" THEN ParseProviderAuthBody(at, said) ELSE said

NewPool(file, vault) ==
    [file |-> file, vault |-> vault, asked |-> <<>>, cache |-> <<>>, unreachable |-> {}, audit |-> <<>>]

(* Mutant: only what was found is remembered. *)
LookupVaultAgain(pool, at) ==
    LET answer == VaultAnswer(pool, at)
    IN  IF at = pool.vault.self THEN [pool |-> pool, answer |-> Says("key-not-found")]
        ELSE IF at \in DOMAIN pool.cache THEN [pool |-> pool, answer |-> pool.cache[at]]
        ELSE [answer |-> answer,
              pool |-> [pool EXCEPT !.asked = Append(@, at),
                  !.cache = IF answer.is \in {"key-not-found", "unreachable"} THEN @ ELSE With(@, at, answer),
                  !.unreachable = @ \cup (IF answer.is = "unreachable" THEN {at} ELSE {})]]

(* Never of the provider that holds the bodies; every answer is remembered,  *)
(* a miss or an error too.                                                   *)
LookupVault(pool, at) ==
    LET answer == VaultAnswer(pool, at)
    IN  IF at = pool.vault.self THEN [pool |-> pool, answer |-> Says("key-not-found")]
        ELSE IF at \in DOMAIN pool.cache THEN [pool |-> pool, answer |-> pool.cache[at]]
        ELSE [answer |-> answer,
              pool |-> [pool EXCEPT !.asked = Append(@, at), !.cache = With(@, at, answer),
                  !.unreachable = @ \cup (IF answer.is = "unreachable" THEN {at} ELSE {})]]

(* The file wins over the vault, and stands in for one that can't be         *)
(* reached; with neither, the agent's own login is left to answer.           *)
Lookup(pool, at) ==
    LET own == MatchFileEntry(pool.file, at)
        asked == IF pool.vault = Unset THEN [pool |-> pool, answer |-> Says("key-not-found")] ELSE LookupVault(pool, at)
        held == asked.answer.is = "entry"
        said(entry, source, fallback, err) ==
            [entry |-> entry, source |-> source, err |-> err,
             pool |-> [asked.pool EXCEPT !.audit = Append(@, [at |-> at, source |-> source, fallback |-> fallback])]]
    IN  IF asked.answer.is = "error" THEN [entry |-> Unset, source |-> "none", err |-> "error", pool |-> asked.pool]
        ELSE IF own # Unset THEN said(own, "local-file", held, "")
        ELSE IF asked.answer.is = "unreachable" THEN said(Unset, "cli-session", FALSE, "unreachable")
        ELSE IF held THEN said(asked.answer.entry, "vault", FALSE, "")
        ELSE said(Unset, "cli-session", FALSE, "")

(* What the apply stores: the last word on each. *)
AuditMap(audit) ==
    [at \in {r.at : r \in Range(audit)} |->
        audit[CHOOSE i \in DOMAIN audit : audit[i].at = at /\ \A j \in DOMAIN audit : audit[j].at = at => j <= i]]

(* injectProviderTokens, of the providers of one file in turn: only a vault  *)
(* that can't be reached is passed over.                                     *)
InjectOne(before, at, authenticates) ==
    LET found == Lookup(before.pool, at)
    IN  IF ~before.ok THEN before
        ELSE IF found.err = "error" THEN [before EXCEPT !.ok = FALSE, !.pool = found.pool]
        ELSE IF found.entry = Unset THEN [before EXCEPT !.pool = found.pool]
        ELSE IF found.entry.id \notin authenticates THEN [before EXCEPT !.ok = FALSE, !.pool = found.pool]
        ELSE [before EXCEPT !.pool = found.pool, !.tokens = With(@, at, found.entry.id)]

InjectTokens(pool, ats, authenticates) ==
    LET after[n \in 0 .. Len(ats)] ==
            IF n = 0 THEN [ok |-> TRUE, pool |-> pool, tokens |-> <<>>]
            ELSE InjectOne(after[n - 1], ats[n], authenticates)
    IN  after[Len(ats)]

-----------------------------------------------------------------------------
(* What these promise. *)

(* A value only ever comes from its author or from a provider that answered  *)
(* with one; a key that has none is empty only because its author said it    *)
(* may be, or else it carries why, at its declared level, and a required key *)
(* is then either refused or reported.                                       *)
NoValueIsMadeUp(table, secrets, bundle) ==
    LET after == ResolveTable(table, secrets, bundle)
        ref(k) == ParseRef(table.values[k].uri, DOMAIN bundle \ {""} # {})
    IN  /\ \A k \in DOMAIN after.values :
            LET was == table.values[k]
                is == after.values[k]
            IN  /\ was.is = "reference" /\ HasValue(is) => is = bundle[ref(k).provider][ref(k).at]
                /\ was.is = "reference" /\ is = Nothing => was.uri.required = "false"
                /\ was.is # "reference" => HasValue(is) = HasValue(was)
                /\ secrets => is.is # "plain" \/ is = Nothing
                /\ is.is = "unresolved" => is.level = LevelOf(table, k)
        /\ \A k \in DeclaredKeys(table) :
            \/ k \in DOMAIN table.values
               /\ LET is == after.values[k]
                  IN  HasValue(is) \/ is = Nothing \/ is = Failed \/ k \in MissingRequired(after)
            \/ \E e \in UnresolvedKeys(after) : e.key = k

(* A vault is asked once for each credential whatever it answered, a file of *)
(* this machine always wins, and the agent's login answers only for one      *)
(* nobody else has.                                                          *)
CredentialsAreAskedOnce(pool, ats) ==
    \A after \in {InjectTokens(pool, ats, {e.id : e \in Range(pool.file)} \cup {"stored"})} :
        LET audit == after.pool.audit
            asked == after.pool.asked
        IN  /\ \A i, j \in DOMAIN asked : asked[i] = asked[j] => i = j
            /\ pool.vault # Unset => \A i \in DOMAIN asked : asked[i] # pool.vault.self
            /\ \A i, j \in DOMAIN audit : audit[i].at = audit[j].at => audit[i] = audit[j]
            /\ \A at \in DOMAIN AuditMap(audit) :
                   LET source == AuditMap(audit)[at].source
                   IN  /\ MatchFileEntry(pool.file, at) # Unset <=> source = "local-file"
                       /\ source = "vault" <=> at \in DOMAIN after.tokens /\ after.tokens[at] = "stored"
                       /\ source = "cli-session" <=> at \notin DOMAIN after.tokens
=============================================================================
