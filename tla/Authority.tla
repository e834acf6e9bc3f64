------------------------------ MODULE Authority ------------------------------
(***************************************************************************)
(* The authority decisions: which level and which named authorities a      *)
(* dispatch gets (internal/authority), from what three layers of           *)
(* configuration declare and what the dispatch asks for.  Everything here  *)
(* is a function of its arguments; Delegation runs it over time.           *)
(*                                                                         *)
(* A level is a number, the stricter the larger.  A cap of what a child    *)
(* may be granted is a set: the nil cap of the code is the set of every    *)
(* known authority and a "missing" one is the empty set.                   *)
(***************************************************************************)
EXTENDS Integers, FiniteSetsExt

CONSTANTS
    Known,    \* the authorities this niwa knows
    Unset,    \* a key, a link or a record that is not there
    Blank,    \* a key with only spaces in it
    Bad       \* a key of the wrong type, or with a value nobody knows

Autonomous == 0
Strict == 2
Level == Autonomous .. Strict

Layer == {"machine", "overlay", "workspace"}

(* A tie goes to the machine, then to the overlay. *)
LayerRank == [machine |-> 0, overlay |-> 1, workspace |-> 2]
FirstLayer(layers) == CHOOSE l \in layers : \A k \in layers : LayerRank[l] <= LayerRank[k]

(* Policy: [level : [Layer -> Level or Unset], ceiling : [Layer -> set or   *)
(* Unset], roles : declared role -> set].                                   *)
LevelCeiling(p) ==
    LET set == {l \in Layer : p.level[l] # Unset}
        narrowest == Max({p.level[l] : l \in set})
    IN  IF set = {} THEN [level |-> Autonomous, source |-> "built-in"]
        ELSE [level |-> narrowest,
              source |-> FirstLayer({l \in set : p.level[l] = narrowest})]

BaseCeiling(p) == IF p.ceiling.workspace = Unset THEN {} ELSE p.ceiling.workspace

(* Mutant: a layer that declares a ceiling adds to the base's. *)
GrantCeilingOfAll(p) ==
    [set |-> UNION {p.ceiling[l] : l \in {k \in Layer : p.ceiling[k] # Unset}},
     source |-> "workspace"]

(* Each narrowing layer is compared with the base's list, so that when both *)
(* remove an authority the machine is credited.                             *)
GrantCeiling(p) ==
    LET declaring == {l \in Layer : p.ceiling[l] # Unset}
        narrowing == {l \in declaring : ~(BaseCeiling(p) \subseteq p.ceiling[l])}
    IN  [set |-> {a \in BaseCeiling(p) : \A l \in declaring : a \in p.ceiling[l]},
         source |-> CASE declaring = {} -> "none"
                      [] narrowing # {} -> FirstLayer(narrowing)
                      [] "workspace" \in declaring -> "workspace"
                      [] OTHER -> FirstLayer(declaring)]

-----------------------------------------------------------------------------
(* A request: [level : Level or Unset, grants, roles : sets].  Its sources   *)
(* of one authority are "dispatch" (--grant) and the roles that name it.     *)
SourcesOf(p, r, a) ==
    {"dispatch" : x \in r.grants \cap {a}} \cup {role \in r.roles : a \in p.roles[role]}

Requested(p, r) == {a \in Known : SourcesOf(p, r, a) # {}}

Refused(why) == [refused |-> why]

(* Mutant: what is outside the ceiling is trimmed. *)
ResolveTrimmed(p, r) ==
    LET limit == LevelCeiling(p)
        held == Requested(p, r) \cap GrantCeiling(p).set
    IN  [refused |-> "", level |-> limit.level, levelSource |-> limit.source,
         levelCeiling |-> limit, ceiling |-> GrantCeiling(p), roles |-> r.roles,
         grant |-> [a \in held |-> SourcesOf(p, r, a)]]

(* Everything asked for, or nothing.  The size of the record as stored is    *)
(* left out.                                                                 *)
Resolve(p, r) ==
    LET limit == LevelCeiling(p)
        own == r.level # Unset
    IN  CASE ~(r.grants \subseteq Known) -> Refused("unknown authority")
          [] ~(r.roles \subseteq DOMAIN p.roles) -> Refused("undeclared role")
          [] own /\ r.level < limit.level -> Refused("level wider than the ceiling")
          [] ~(Requested(p, r) \subseteq GrantCeiling(p).set) -> Refused("outside the ceiling")
          [] OTHER -> [refused |-> "",
                       level |-> IF own THEN r.level ELSE limit.level,
                       levelSource |-> IF own THEN "flag" ELSE limit.source,
                       levelCeiling |-> limit, ceiling |-> GrantCeiling(p),
                       roles |-> r.roles,
                       grant |-> [a \in Requested(p, r) |-> SourcesOf(p, r, a)]]

(* The authorities a grant names. *)
HeldAuthorities(grant) == DOMAIN grant

CapByDispatcher(record, cap) == HeldAuthorities(record.grant) \subseteq cap

(* What a record's dispatch holds under the policy of now: a role grants     *)
(* what it declares now, what --grant gave stays, and both only inside the   *)
(* ceiling of now and the cap.                                               *)
CurrentGrant(p, record, cap) ==
    LET given == {a \in DOMAIN record.grant : "dispatch" \in record.grant[a]}
        byRole == UNION {p.roles[role] : role \in record.roles \cap DOMAIN p.roles}
    IN  IF record.newer THEN {}
        ELSE (given \cup byRole) \cap GrantCeiling(p).set \cap cap

(* Who settles a decision point: the level's own answer, or the declared one *)
(* where that is at least as strict.                                         *)
FromLevel(level) == [decider |-> level, exclusion |-> level # Autonomous]

Decide(level, levelSource, noRecord, declared) ==
    LET own == FromLevel(level)
        decider == Max({own.decider, declared.decider})
        exclusion == own.exclusion \/ declared.exclusion
        asDeclared == decider = declared.decider /\ exclusion = declared.exclusion
    IN  IF declared = Unset
        THEN [decider |-> own.decider, exclusion |-> own.exclusion,
              source |-> levelSource, noRecord |-> noRecord]
        ELSE [decider |-> decider, exclusion |-> exclusion, noRecord |-> noRecord,
              source |-> IF asDeclared THEN "declaration" ELSE levelSource]

-----------------------------------------------------------------------------
(* A layer as written: its level is Unset, Blank, Bad or a level, its        *)
(* ceiling Unset, Bad or a set of names, among them names this niwa does   *)
(* not know ("unheard") and ones no niwa could ("ill-formed").               *)
ValidLevel(raw) == IF raw \in {Unset, Blank, Bad} THEN Unset ELSE raw

ValidList(raw) == IF raw \in {Unset, Bad} THEN Unset ELSE raw \cap Known

Problems(layer) ==
    {"level" : x \in {layer.level} \cap {Bad}}
    \cup {"ceiling" : x \in {layer.ceiling} \cap {Bad}}
    \cup {"name" : x \in IF layer.ceiling \in {Unset, Bad} THEN {}
                         ELSE layer.ceiling \cap {"ill-formed"}}
    \cup {"key" : x \in layer.unknownKeys}

(* Every problem of every layer refuses the policy; a name nobody knows only *)
(* grants nothing.  roles is the base's table, with a bad table as Unset.    *)
ValidateConfig(raw, roles) ==
    [problems |-> UNION {Problems(raw[l]) : l \in Layer}
                  \cup (IF roles = Unset THEN {"roles"} ELSE {}),
     policy |-> [level |-> [l \in Layer |-> ValidLevel(raw[l].level)],
                 ceiling |-> [l \in Layer |-> ValidList(raw[l].ceiling)],
                 roles |-> IF roles = Unset THEN <<>> ELSE
                           [r \in DOMAIN roles |-> roles[r] \cap Known]]]

(* Names a narrowing layer lists that the base lacks. *)
CeilingWarnings(p) ==
    [l \in {"overlay", "machine"} |->
        IF p.ceiling[l] = Unset THEN {} ELSE p.ceiling[l] \ BaseCeiling(p)]

-----------------------------------------------------------------------------
(* A stored record, as far as its reading depends on it: broken stands for   *)
(* any required field that is missing, of the wrong type or ill-formed; a    *)
(* grant is a sequence of [authority, sources], with sources of kinds this   *)
(* niwa does not know among them ("strange").                                *)
Malformed == [malformed |-> TRUE]

NewerVersionRecord(raw) ==
    [malformed |-> FALSE, newer |-> TRUE, id |-> raw.id, parent |-> Unset, parentSource |-> "none",
     level |-> Strict, roles |-> {}, grant |-> <<>>, unknownGrant |-> {}]

KnownSources(sources) == sources \ {"strange"}

Rank(order, a) == CHOOSE i \in DOMAIN order : order[i] = a

(* Grant entries of known authorities are stored in the vocabulary's order,  *)
(* each once.                                                                *)
InOrder(order, grant) ==
    \A i, j \in {k \in DOMAIN grant : grant[k].authority \in Known} :
        i < j => Rank(order, grant[i].authority) < Rank(order, grant[j].authority)

(* Mutant: a record of a later version is read as one of this version. *)
ParseRecordAnyVersion(raw, order) ==
    [malformed |-> FALSE, newer |-> FALSE, id |-> raw.id, parent |-> raw.parent,
     parentSource |-> raw.parentSource, level |-> raw.level, roles |-> raw.roles,
     grant |-> [a \in {raw.grant[i].authority : i \in DOMAIN raw.grant} \cap Known |-> {}],
     unknownGrant |-> {}]

ParseRecord(raw, order) ==
    LET readable(e) == e.authority \in Known /\ KnownSources(e.sources) # {}
        kept == {raw.grant[i] : i \in {k \in DOMAIN raw.grant : readable(raw.grant[k])}}
        asked == raw.parentSource \in {"anchor", "cwd", "none"}
    IN  CASE raw.schema = "other" \/ raw.id = Unset -> Malformed
          [] raw.schema = "later" -> NewerVersionRecord(raw)
          [] raw.broken \/ ~raw.record \/ ~InOrder(order, raw.grant) -> Malformed
          [] OTHER ->
              [malformed |-> FALSE, newer |-> FALSE, id |-> raw.id,
               parent |-> IF asked THEN raw.parent ELSE Unset,
               parentSource |-> IF asked THEN raw.parentSource ELSE "none",
               level |-> raw.level, roles |-> raw.roles,
               grant |-> [a \in {e.authority : e \in kept} |->
                             UNION {KnownSources(e.sources) : e \in {x \in kept : x.authority = a}}],
               unknownGrant |-> {raw.grant[i].authority :
                                    i \in {k \in DOMAIN raw.grant : ~readable(raw.grant[k])}}]

-----------------------------------------------------------------------------
(* What the decisions promise. *)

WithoutLayer(p, l) == [p EXCEPT !.level[l] = Unset, !.ceiling[l] = Unset]

(* A dispatch gets what it asked for or nothing, all of it inside every      *)
(* ceiling any layer declares and at a level no wider than any of them; a    *)
(* machine or overlay layer only narrows, so that what is given with it is   *)
(* given without it; and what a record names is what the same policy gives   *)
(* back later, whatever of it a cap leaves.                                  *)
PolicyOnlyNarrows(p, r) ==
    LET answer == Resolve(p, r)
        given == DOMAIN answer.grant
        record == [newer |-> FALSE, roles |-> answer.roles, grant |-> answer.grant]
    IN  answer.refused = "" =>
        /\ given = r.grants \cup UNION {p.roles[role] : role \in r.roles}
        /\ \A l \in Layer : p.ceiling[l] # Unset => given \subseteq p.ceiling[l]
        /\ \A l \in Layer : p.level[l] # Unset => answer.level >= p.level[l]
        /\ given # {} => p.ceiling.workspace # Unset
        /\ \A l \in {"machine", "overlay"} : Resolve(WithoutLayer(p, l), r).grant = answer.grant
        /\ \A cap \in SUBSET Known : CurrentGrant(p, record, cap) = given \cap cap

(* A refusal names a reason there is: taking away what it is about lets the  *)
(* request through.                                                          *)
RefusalIsNeeded(p, r) ==
    Resolve(p, r).refused # "" =>
        \/ ~(r.grants \subseteq Known) \/ ~(r.roles \subseteq DOMAIN p.roles)
        \/ \E l \in Layer : p.level[l] # Unset /\ r.level # Unset /\ r.level < p.level[l]
        \/ \E a \in Requested(p, r) : \E l \in Layer :
               \/ p.ceiling[l] # Unset /\ a \notin p.ceiling[l]
               \/ p.ceiling.workspace = Unset

(* The stricter of the level's answer and the declared one, whoever it is    *)
(* credited to.                                                              *)
DecisionIsStrictest(level, declared) ==
    LET answer == Decide(level, "flag", FALSE, declared)
    IN  /\ answer.decider >= level
        /\ level # Autonomous => answer.exclusion
        /\ declared # Unset => /\ answer.decider >= declared.decider
                               /\ declared.exclusion => answer.exclusion

(* A record this niwa can't read holds nothing, one it half understands no   *)
(* more than what it understands of it.                                      *)
UnreadHoldsNothing(raw, order, p) ==
    LET record == ParseRecord(raw, order)
        named == {raw.grant[i].authority : i \in DOMAIN raw.grant}
    IN  IF record = Malformed THEN TRUE
        ELSE /\ CurrentGrant(p, record, Known) \subseteq
                    named \cup UNION {p.roles[role] : role \in record.roles \cap DOMAIN p.roles}
             /\ raw.schema = "later" => CurrentGrant(p, record, Known) = {}
=============================================================================
