--------------------------- MODULE DecisionsProofs ---------------------------
(***************************************************************************)
(* What the decisions promise for every policy, request, record, lineage   *)
(* and dispatcher, and so for every question that is put; and what those   *)
(* of the secrets promise for every table, layer, credential and store.    *)
(***************************************************************************)
EXTENDS Decisions, DelegationProofs

(* The largest of some levels is one of them. *)
LEMMA MaxOfLevels ==
    ASSUME NEW levels \in SUBSET Level, levels # {}
    PROVE  Max(levels) \in levels /\ \A l \in levels : Max(levels) >= l
<1>1. \E x \in levels : \A y \in levels : x >= y
    <2>1. levels \subseteq {0, 1, 2}
        BY DEF Level, Autonomous, Strict
    <2>2. CASE 2 \in levels
        BY <2>1, <2>2
    <2>3. CASE 2 \notin levels /\ 1 \in levels
        BY <2>1, <2>3
    <2>4. CASE 2 \notin levels /\ 1 \notin levels
        <3>1. levels = {0}
            BY <2>1, <2>4
        <3> QED BY <3>1
    <2> QED BY <2>2, <2>3, <2>4
<1> QED BY <1>1 DEF Max

LEMMA LevelsAreOrdered ==
    /\ \A x, y \in Level : ~(x < y) <=> x >= y
    /\ \A x \in Level : x >= x /\ ~(x < Autonomous)
    /\ \A x, y, z \in Level : x >= y /\ y >= z => x >= z
BY DEF Level, Autonomous, Strict

IsPolicy(p) ==
    /\ p = [level |-> p.level, ceiling |-> p.ceiling, roles |-> p.roles]
    /\ p.level \in [Layer -> Level \cup {Unset}]
    /\ p.ceiling \in [Layer -> {Unset} \cup SUBSET Known]
    /\ p.roles \in [DOMAIN p.roles -> SUBSET Known]

LEMMA RolesGrantKnown ==
    ASSUME NEW p, IsPolicy(p), NEW role \in DOMAIN p.roles
    PROVE  p.roles[role] \subseteq Known
BY DEF IsPolicy

LEMMA CeilingOfLevels ==
    ASSUME NEW p, IsPolicy(p)
    PROVE  /\ LevelCeiling(p).level \in Level
           /\ \A l \in Layer : p.level[l] # Unset => LevelCeiling(p).level >= p.level[l]
           /\ \/ LevelCeiling(p).level = Autonomous
              \/ \E l \in Layer : p.level[l] # Unset /\ p.level[l] = LevelCeiling(p).level
<1> DEFINE set == {l \in Layer : p.level[l] # Unset}
           levels == {p.level[l] : l \in set}
<1>1. \A l \in set : p.level[l] \in Level
    BY DEF IsPolicy
<1>2. CASE set = {}
    BY <1>2 DEF LevelCeiling, Level, Autonomous, Strict
<1>3. CASE set # {}
    <2>1. levels \in SUBSET Level /\ levels # {}
        BY <1>1, <1>3
    <2>2. Max(levels) \in levels /\ \A l \in levels : Max(levels) >= l
        <3> HIDE DEF levels
        <3> QED BY <2>1, MaxOfLevels
    <2>3. LevelCeiling(p).level = Max(levels)
        BY <1>3 DEF LevelCeiling
    <2> QED BY <2>1, <2>2, <2>3
<1> QED BY <1>2, <1>3

(* What a refusal rests on, and what is given otherwise. *)
LEMMA Resolved ==
    ASSUME NEW p, IsPolicy(p), NEW r, r.level \in Level \cup {Unset}, Resolve(p, r).refused = ""
    PROVE  /\ r.grants \subseteq Known /\ r.roles \subseteq DOMAIN p.roles
           /\ r.level # Unset => r.level >= LevelCeiling(p).level
           /\ Requested(p, r) \subseteq GrantCeiling(p).set
           /\ Resolve(p, r).grant = [a \in Requested(p, r) |-> SourcesOf(p, r, a)]
           /\ Resolve(p, r).roles = r.roles
           /\ Resolve(p, r).level = IF r.level # Unset THEN r.level ELSE LevelCeiling(p).level
<1>1. LevelCeiling(p).level \in Level
    BY CeilingOfLevels
<1>2. /\ r.grants \subseteq Known /\ r.roles \subseteq DOMAIN p.roles
      /\ ~(r.level # Unset /\ r.level < LevelCeiling(p).level)
      /\ Requested(p, r) \subseteq GrantCeiling(p).set
    BY DEF Resolve, Refused
<1>3. r.level # Unset => r.level >= LevelCeiling(p).level
    <2> HIDE DEF Level
    <2> QED BY <1>1, <1>2, LevelsAreOrdered
<1> QED BY <1>2, <1>3 DEF Resolve

LEMMA WhatIsRequested ==
    ASSUME NEW p, IsPolicy(p), NEW r, r.grants \subseteq Known, r.roles \subseteq DOMAIN p.roles
    PROVE  Requested(p, r) = r.grants \cup UNION {p.roles[role] : role \in r.roles}
<1>1. \A role \in r.roles : p.roles[role] \subseteq Known
    BY RolesGrantKnown
<1>2. ASSUME NEW a \in Requested(p, r) PROVE a \in r.grants \cup UNION {p.roles[role] : role \in r.roles}
    BY DEF Requested, SourcesOf
<1>3. ASSUME NEW a \in r.grants PROVE a \in Requested(p, r)
    <2>1. "dispatch" \in SourcesOf(p, r, a)
        BY DEF SourcesOf
    <2> QED BY <2>1 DEF Requested
<1>4. ASSUME NEW role \in r.roles, NEW a \in p.roles[role] PROVE a \in Requested(p, r)
    <2>1. role \in SourcesOf(p, r, a)
        BY DEF SourcesOf
    <2> QED BY <1>1, <2>1 DEF Requested
<1> QED BY <1>2, <1>3, <1>4

LEMMA CeilingOfGrants ==
    ASSUME NEW p, IsPolicy(p)
    PROVE  /\ GrantCeiling(p).set =
                  {a \in BaseCeiling(p) : \A l \in Layer : p.ceiling[l] # Unset => a \in p.ceiling[l]}
           /\ BaseCeiling(p) = IF p.ceiling["workspace"] = Unset THEN {} ELSE p.ceiling["workspace"]
<1>1. BaseCeiling(p) = IF p.ceiling["workspace"] = Unset THEN {} ELSE p.ceiling["workspace"]
    BY DEF BaseCeiling
<1>2. GrantCeiling(p).set =
          {a \in BaseCeiling(p) : \A l \in {k \in Layer : p.ceiling[k] # Unset} : a \in p.ceiling[l]}
    BY DEF GrantCeiling
<1> QED BY <1>1, <1>2

(* Without a layer that narrows, every ceiling is at least as wide.          *)
LEMMA WiderWithout ==
    ASSUME NEW p, IsPolicy(p), NEW l \in {"machine", "overlay"}
    PROVE  /\ IsPolicy(WithoutLayer(p, l))
           /\ LevelCeiling(p).level >= LevelCeiling(WithoutLayer(p, l)).level
           /\ GrantCeiling(p).set \subseteq GrantCeiling(WithoutLayer(p, l)).set
           /\ WithoutLayer(p, l).roles = p.roles
<1> DEFINE q == WithoutLayer(p, l)
<1>1. /\ q.level = [p.level EXCEPT ![l] = Unset] /\ q.ceiling = [p.ceiling EXCEPT ![l] = Unset]
      /\ q.roles = p.roles
    BY DEF WithoutLayer, IsPolicy
<1>2. l \in Layer /\ l # "workspace" /\ "workspace" \in Layer
    BY DEF Layer
<1>3. /\ q.level \in [Layer -> Level \cup {Unset}] /\ q.ceiling \in [Layer -> {Unset} \cup SUBSET Known]
      /\ q.roles = p.roles
    <2>1. p.level \in [Layer -> Level \cup {Unset}] /\ p.ceiling \in [Layer -> {Unset} \cup SUBSET Known]
        BY DEF IsPolicy
    <2> HIDE DEF q
    <2> QED BY <1>1, <1>2, <2>1
<1>4. IsPolicy(q)
    <2> DEFINE L == [p.level EXCEPT ![l] = Unset]
               Ceil == [p.ceiling EXCEPT ![l] = Unset]
    <2>1. q = [p EXCEPT !.level = L, !.ceiling = Ceil]
        BY DEF WithoutLayer
    <2>2. L \in [Layer -> Level \cup {Unset}] /\ Ceil \in [Layer -> {Unset} \cup SUBSET Known]
        BY <1>1, <1>3
    <2> HIDE DEF q, L, Ceil
    <2> QED BY <2>1, <2>2 DEF IsPolicy
<1>5. \A k \in Layer : q.level[k] \in {p.level[k], Unset} /\ q.ceiling[k] \in {p.ceiling[k], Unset}
    BY <1>1, <1>2 DEF IsPolicy
<1>6. q.ceiling["workspace"] = p.ceiling["workspace"]
    BY <1>1, <1>2 DEF IsPolicy
<1> HIDE DEF q
<1>7. LevelCeiling(p).level >= LevelCeiling(q).level
    <2>1. LevelCeiling(p).level \in Level /\ LevelCeiling(q).level \in Level
        BY <1>4, CeilingOfLevels
    <2>2. CASE LevelCeiling(q).level = Autonomous
        BY <2>1, <2>2 DEF Level, Autonomous, Strict
    <2>3. CASE \E k \in Layer : q.level[k] # Unset /\ q.level[k] = LevelCeiling(q).level
        <3>1. PICK k \in Layer : q.level[k] # Unset /\ q.level[k] = LevelCeiling(q).level
            BY <2>3
        <3>2. p.level[k] = q.level[k] /\ p.level[k] # Unset
            BY <1>5, <3>1
        <3> QED BY <3>1, <3>2, CeilingOfLevels
    <2> QED BY <1>4, <2>2, <2>3, CeilingOfLevels
<1>8. GrantCeiling(p).set \subseteq GrantCeiling(q).set
    BY <1>4, <1>5, <1>6, CeilingOfGrants
<1> QED BY <1>1, <1>4, <1>7, <1>8 DEF q

(* The policy of a dispatch only narrows what it may get, whatever its       *)
(* layers declare and whatever it asks for (internal/authority Resolve,      *)
(* LevelCeiling, GrantCeiling, CurrentGrant).                                *)
THEOREM EveryPolicyNarrows ==
    ASSUME NEW p, IsPolicy(p), NEW r, r.level \in Level \cup {Unset}
    PROVE  PolicyOnlyNarrows(p, r)
<1> DEFINE answer == Resolve(p, r)
           given == DOMAIN answer.grant
           record == [newer |-> FALSE, roles |-> answer.roles, grant |-> answer.grant]
<1> SUFFICES ASSUME answer.refused = ""
             PROVE  /\ given = r.grants \cup UNION {p.roles[role] : role \in r.roles}
                    /\ \A l \in Layer : p.ceiling[l] # Unset => given \subseteq p.ceiling[l]
                    /\ \A l \in Layer : p.level[l] # Unset => answer.level >= p.level[l]
                    /\ given # {} => p.ceiling.workspace # Unset
                    /\ \A l \in {"machine", "overlay"} : Resolve(WithoutLayer(p, l), r).grant = answer.grant
                    /\ \A cap \in SUBSET Known : CurrentGrant(p, record, cap) = given \cap cap
    BY DEF PolicyOnlyNarrows
<1>1. /\ r.grants \subseteq Known /\ r.roles \subseteq DOMAIN p.roles
      /\ r.level # Unset => r.level >= LevelCeiling(p).level
      /\ Requested(p, r) \subseteq GrantCeiling(p).set
      /\ answer.grant = [a \in Requested(p, r) |-> SourcesOf(p, r, a)]
      /\ answer.roles = r.roles
      /\ answer.level = IF r.level # Unset THEN r.level ELSE LevelCeiling(p).level
    BY Resolved
<1> HIDE DEF answer
<1>2. given = Requested(p, r)
    BY <1>1
<1>3. given = r.grants \cup UNION {p.roles[role] : role \in r.roles}
    BY <1>1, <1>2, WhatIsRequested
<1>4. ASSUME NEW l \in Layer, p.ceiling[l] # Unset PROVE given \subseteq p.ceiling[l]
    BY <1>1, <1>2, <1>4, CeilingOfGrants
<1>5. ASSUME NEW l \in Layer, p.level[l] # Unset PROVE answer.level >= p.level[l]
    <2>1. LevelCeiling(p).level >= p.level[l] /\ LevelCeiling(p).level \in Level
        BY <1>5, CeilingOfLevels
    <2>2. p.level[l] \in Level
        BY <1>5 DEF IsPolicy
    <2> QED BY <1>1, <2>1, <2>2, LevelsAreOrdered
<1>6. given # {} => p.ceiling.workspace # Unset
    BY <1>1, <1>2, CeilingOfGrants
<1>7. ASSUME NEW l \in {"machine", "overlay"} PROVE Resolve(WithoutLayer(p, l), r).grant = answer.grant
    <2> DEFINE q == WithoutLayer(p, l)
    <2>1. /\ IsPolicy(q) /\ q.roles = p.roles
          /\ LevelCeiling(p).level >= LevelCeiling(q).level /\ GrantCeiling(p).set \subseteq GrantCeiling(q).set
        BY WiderWithout
    <2> HIDE DEF q
    <2>2. \A a : SourcesOf(q, r, a) = SourcesOf(p, r, a)
        BY <2>1 DEF SourcesOf
    <2>3. Requested(q, r) = Requested(p, r)
        BY <2>2 DEF Requested
    <2>4. ~(r.level # Unset /\ r.level < LevelCeiling(q).level)
        <3>1. LevelCeiling(p).level \in Level /\ LevelCeiling(q).level \in Level
            BY <2>1, CeilingOfLevels
        <3> QED BY <1>1, <2>1, <3>1, LevelsAreOrdered
    <2>5. Resolve(q, r).grant = [a \in Requested(q, r) |-> SourcesOf(q, r, a)]
        BY <1>1, <2>1, <2>3, <2>4 DEF Resolve
    <2> QED BY <1>1, <2>2, <2>3, <2>5 DEF q
<1>8. ASSUME NEW cap \in SUBSET Known PROVE CurrentGrant(p, record, cap) = given \cap cap
    <2> DEFINE byHand == {a \in DOMAIN answer.grant : "dispatch" \in answer.grant[a]}
               byRole == UNION {p.roles[role] : role \in answer.roles \cap DOMAIN p.roles}
    <2>1. CurrentGrant(p, record, cap) = (byHand \cup byRole) \cap GrantCeiling(p).set \cap cap
        BY DEF CurrentGrant
    <2>2. r.grants \subseteq byHand
        <3>1. ASSUME NEW a \in r.grants PROVE a \in byHand
            <4>1. a \in Requested(p, r)
                BY <1>2, <1>3
            <4>2. "dispatch" \in SourcesOf(p, r, a)
                BY DEF SourcesOf
            <4>3. answer.grant[a] = SourcesOf(p, r, a)
                BY <1>1, <4>1
            <4> QED BY <1>2, <4>1, <4>2, <4>3
        <3> QED BY <3>1
    <2>3. byRole = UNION {p.roles[role] : role \in r.roles}
        BY <1>1
    <2>4. byHand \subseteq given
        OBVIOUS
    <2> HIDE DEF byHand, byRole
    <2> QED BY <1>1, <1>2, <1>3, <2>1, <2>2, <2>3, <2>4
<1> QED BY <1>3, <1>4, <1>5, <1>6, <1>7, <1>8

(* A refusal rests on what is asked for: something unknown, a level wider    *)
(* than a layer allows or an authority a layer leaves out (internal/authority *)
(* Resolve).                                                                 *)
THEOREM EveryRefusalIsNeeded ==
    ASSUME NEW p, IsPolicy(p), NEW r, r.level \in Level \cup {Unset}
    PROVE  RefusalIsNeeded(p, r)
<1> SUFFICES ASSUME Resolve(p, r).refused # "", r.grants \subseteq Known, r.roles \subseteq DOMAIN p.roles
             PROVE  \/ \E l \in Layer : p.level[l] # Unset /\ r.level # Unset /\ r.level < p.level[l]
                    \/ \E a \in Requested(p, r) : \E l \in Layer :
                           \/ p.ceiling[l] # Unset /\ a \notin p.ceiling[l]
                           \/ p.ceiling.workspace = Unset
    BY DEF RefusalIsNeeded
<1>1. \/ r.level # Unset /\ r.level < LevelCeiling(p).level
      \/ ~(Requested(p, r) \subseteq GrantCeiling(p).set)
    BY DEF Resolve
<1>2. CASE r.level # Unset /\ r.level < LevelCeiling(p).level
    <2>1. LevelCeiling(p).level # Autonomous
        BY <1>2, LevelsAreOrdered
    <2> QED BY <1>2, <2>1, CeilingOfLevels
<1>3. CASE ~(Requested(p, r) \subseteq GrantCeiling(p).set)
    <2>1. PICK a \in Requested(p, r) : a \notin GrantCeiling(p).set
        BY <1>3
    <2> QED BY <2>1, CeilingOfGrants DEF Layer
<1> QED BY <1>1, <1>2, <1>3

(* Whoever declares what at a decision point, the answer is at least as      *)
(* strict as the level's own and the declared one (internal/authority        *)
(* Decide).                                                                  *)
THEOREM EveryDecisionIsStrictest ==
    ASSUME NEW level \in Level, NEW declared, declared # Unset => declared.decider \in Level /\ declared.exclusion \in BOOLEAN
    PROVE  DecisionIsStrictest(level, declared)
<1> DEFINE both == {level, declared.decider}
<1>1. CASE declared = Unset
    BY <1>1, LevelsAreOrdered DEF DecisionIsStrictest, Decide, FromLevel
<1>2. CASE declared # Unset
    <2>1. both \in SUBSET Level /\ both # {}
        BY <1>2
    <2>2. Max(both) \in both /\ \A l \in both : Max(both) >= l
        <3> HIDE DEF both
        <3> QED BY <2>1, MaxOfLevels
    <2>3. Max(both) >= level /\ Max(both) >= declared.decider
        BY <2>2
    <2> QED BY <1>2, <2>3 DEF DecisionIsStrictest, Decide, FromLevel
<1> QED BY <1>1, <1>2

(* A record this niwa can't read holds nothing, and one it reads no more     *)
(* than it names, whatever is stored (internal/authority ParseRecord,        *)
(* CurrentGrant).                                                            *)
THEOREM EveryUnreadHoldsNothing ==
    ASSUME NEW raw, NEW order, NEW p
    PROVE  UnreadHoldsNothing(raw, order, p)
<1> DEFINE record == ParseRecord(raw, order)
           named == {raw.grant[i].authority : i \in DOMAIN raw.grant}
           byRole(q) == UNION {p.roles[role] : role \in q.roles \cap DOMAIN p.roles}
<1>1. CASE record = Malformed
    BY <1>1 DEF UnreadHoldsNothing
<1>2. CASE record # Malformed /\ record = NewerVersionRecord(raw)
    <2>1. CurrentGrant(p, record, Known) = {}
        BY <1>2 DEF CurrentGrant, NewerVersionRecord
    <2> HIDE DEF record
    <2> QED BY <2>1 DEF UnreadHoldsNothing, record
<1>3. CASE record # Malformed /\ record # NewerVersionRecord(raw)
    <2>1. raw.schema # "later"
        BY <1>3 DEF ParseRecord
    <2>2. DOMAIN record.grant \subseteq named
        BY <1>3 DEF ParseRecord
    <2>3. CurrentGrant(p, record, Known) \subseteq DOMAIN record.grant \cup byRole(record)
        BY DEF CurrentGrant
    <2> HIDE DEF record
    <2> QED BY <2>1, <2>2, <2>3 DEF UnreadHoldsNothing, record
<1> QED BY <1>1, <1>2, <1>3

-----------------------------------------------------------------------------
(* Trust that is inherited never grows, of a parent that was looked for      *)
(* where the dispatch runs or where it is anchored (internal/lineage         *)
(* ResolveParentDispatch, ResolvePrincipal).                                 *)
THEOREM TrustIsNeverGained ==
    ASSUME NEW in, in.parentSource = "cwd" => in.cwdInInstance /\ ~in.anchored
    PROVE  TrustIsNotGained(in)
<1>1. ResolveParentDispatch(in).source = "observed" => in.parentSource = "cwd"
    BY DEF ResolveParentDispatch, Link
<1> QED BY <1>1 DEF TrustIsNotGained, ResolvePrincipal

-----------------------------------------------------------------------------
(* What holds of a walk over the entries of some dispatches: the ids it      *)
(* has printed are a path, and it stops for the reason it gives.             *)
Reached == {"on", "root", "cycle", "depth"}
NotFollowed == {"unreadable", "later-version", "not-on-record"}
Walks(ids) == [levels : Seq(ids), stop : Reached \cup NotFollowed]

LastOf(walk) == walk.levels[Len(walk.levels)]

IsPath(levels, get) ==
    /\ Len(levels) # 0 /\ Len(levels) <= MaxWalkLevels
    /\ \A i, j \in 1 .. Len(levels) : levels[i] = levels[j] => i = j
    /\ \A i \in 2 .. Len(levels) : get[levels[i - 1]].parent = levels[i] /\ get[levels[i - 1]].lookup = "entry"

StopsRight(walk, get) ==
    /\ walk.stop \in Reached => get[LastOf(walk)].lookup = "entry"
    /\ walk.stop = "root" => get[LastOf(walk)].parent = NoId
    /\ walk.stop = "cycle" => get[LastOf(walk)].parent \in Visited(walk)
    /\ walk.stop = "depth" => Len(walk.levels) = MaxWalkLevels /\ get[LastOf(walk)].parent # NoId
    /\ walk.stop \in NotFollowed => get[LastOf(walk)].lookup # "entry"

WalksRight(walk, get) == IsPath(walk.levels, get) /\ StopsRight(walk, get)

LEMMA VisitedAre ==
    ASSUME NEW ids, NEW walk \in Walks(ids)
    PROVE  Visited(walk) = {walk.levels[i] : i \in 1 .. Len(walk.levels)}
<1>1. walk.levels \in Seq(ids)
    BY DEF Walks
<1>2. DOMAIN walk.levels = 1 .. Len(walk.levels)
    BY <1>1
<1> QED BY <1>2 DEF Visited

LEMMA WalkBegins ==
    ASSUME NEW ids, NEW id \in ids, NEW get, get[id].lookup = "entry"
    PROVE  WalkFrom(id) \in Walks(ids) /\ WalksRight(WalkFrom(id), get) /\ Len(WalkFrom(id).levels) = 1
<1> DEFINE first == <<id>>
<1>1. first \in Seq(ids) /\ first # <<>> /\ Len(first) = 1 /\ first[1] = id
    OBVIOUS
<1>2. WalkFrom(id) = [levels |-> first, stop |-> "on"]
    BY DEF WalkFrom
<1> HIDE DEF first
<1>3. WalkFrom(id) \in Walks(ids)
    BY <1>1, <1>2 DEF Walks, Reached
<1>4. WalkFrom(id).levels = first /\ WalkFrom(id).stop = "on"
    BY <1>2
<1>5. IsPath(first, get)
    BY <1>1, WalkLimit DEF IsPath, WalkLimit
<1>6. StopsRight(WalkFrom(id), get)
    BY <1>1, <1>4 DEF StopsRight, LastOf, Reached, NotFollowed
<1> QED BY <1>1, <1>3, <1>4, <1>5, <1>6 DEF WalksRight

(* A level more keeps the path a path, if it was not on it. *)
LEMMA PathGrows ==
    ASSUME NEW ids, NEW levels \in Seq(ids), NEW parent \in ids, NEW get, IsPath(levels, get),
           get[levels[Len(levels)]].parent = parent, get[levels[Len(levels)]].lookup = "entry",
           Len(levels) < MaxWalkLevels, \A i \in 1 .. Len(levels) : levels[i] # parent
    PROVE  /\ IsPath(Append(levels, parent), get) /\ Append(levels, parent) \in Seq(ids)
           /\ Len(Append(levels, parent)) = Len(levels) + 1
           /\ Append(levels, parent)[Len(levels) + 1] = parent
<1> DEFINE n == Len(levels)
           more == Append(levels, parent)
<1>1. /\ n \in Nat /\ more \in Seq(ids) /\ Len(more) = n + 1 /\ more[n + 1] = parent
      /\ \A i \in 1 .. n : more[i] = levels[i]
    OBVIOUS
<1>2. Len(more) # 0
    BY <1>1
<1>3. n >= 1
    BY DEF IsPath
<1>4. n + 1 <= MaxWalkLevels
    BY <1>1, WalkLimit DEF WalkLimit
<1>5. levels[n] # parent /\ get[levels[n]].parent = parent /\ get[levels[n]].lookup = "entry"
    BY <1>1, <1>3
<1>6. /\ \A i, j \in 1 .. n : levels[i] = levels[j] => i = j
      /\ \A i \in 2 .. n : get[levels[i - 1]].parent = levels[i] /\ get[levels[i - 1]].lookup = "entry"
      /\ \A i \in 1 .. n : levels[i] # parent
    BY DEF IsPath
<1> HIDE DEF n, more
<1>7. \A i, j \in 1 .. n + 1 : more[i] = more[j] => i = j
    BY <1>1, <1>6
<1>8. \A i \in 2 .. n + 1 : get[more[i - 1]].parent = more[i] /\ get[more[i - 1]].lookup = "entry"
    <2>1. ASSUME NEW i \in 2 .. n + 1
          PROVE  get[more[i - 1]].parent = more[i] /\ get[more[i - 1]].lookup = "entry"
        <3>1. CASE i = n + 1
            <4>1. i - 1 = n /\ n \in 1 .. n
                BY <1>1, <1>3, <3>1
            <4>2. more[i - 1] = levels[n] /\ more[i] = parent
                BY <1>1, <3>1, <4>1
            <4> QED BY <1>5, <4>2
        <3>2. CASE i # n + 1
            <4>1. i - 1 \in 1 .. n /\ i \in 1 .. n /\ i \in 2 .. n
                BY <1>1, <1>3, <3>2
            <4>2. more[i - 1] = levels[i - 1] /\ more[i] = levels[i]
                BY <1>1, <4>1
            <4> QED BY <1>6, <4>1, <4>2
        <3> QED BY <3>1, <3>2
    <2> QED BY <2>1
<1>9. IsPath(more, get)
    BY <1>1, <1>2, <1>4, <1>7, <1>8 DEF IsPath
<1> QED BY <1>1, <1>9 DEF n, more

Lookup == {"entry", "unreadable", "later", "absent"}

LEMMA WalkGoesOn ==
    ASSUME NEW ids, NoId \notin ids, NEW walk \in Walks(ids), NEW get, WalksRight(walk, get),
           \A d \in ids : get[d].parent \in ids \cup {NoId}, \A d \in ids : get[d].lookup \in Lookup
    PROVE  /\ WalkOn(walk, get) \in Walks(ids)
           /\ WalksRight(WalkOn(walk, get), get)
           /\ WalkOn(walk, get).stop = "on" => Len(WalkOn(walk, get).levels) = Len(walk.levels) + 1
<1>1. PICK levels \in Seq(ids) : walk.levels = levels
    BY DEF Walks
<1>2. PICK n \in Nat : n = Len(levels)
    BY <1>1
<1>3. PICK last : last = levels[n]
    OBVIOUS
<1>4. IsPath(levels, get) /\ StopsRight(walk, get) /\ n >= 1 /\ n <= MaxWalkLevels
    <2>1. IsPath(levels, get) /\ StopsRight(walk, get)
        BY <1>1 DEF WalksRight
    <2> QED BY <1>1, <1>2, <2>1 DEF IsPath
<1>5. last \in ids /\ LastOf(walk) = last
    BY <1>1, <1>2, <1>3, <1>4 DEF LastOf
<1>6. PICK parent : parent = get[last].parent
    OBVIOUS
<1>7. parent \in ids \cup {NoId}
    BY <1>5, <1>6
<1>8. ASSUME walk.stop = "on" PROVE walk = [levels |-> levels, stop |-> "on"] /\ get[last].lookup = "entry"
    <2>1. walk = [levels |-> walk.levels, stop |-> walk.stop]
        BY DEF Walks
    <2>2. get[last].lookup = "entry"
        BY <1>4, <1>5, <1>8 DEF StopsRight, Reached
    <2> QED BY <1>1, <1>8, <2>1, <2>2
<1> DEFINE on == WalkOn(walk, get)
           Goal == /\ on \in Walks(ids) /\ WalksRight(on, get)
                   /\ on.stop = "on" => Len(on.levels) = Len(walk.levels) + 1
<1> SUFFICES Goal
    OBVIOUS
<1>9. ASSUME NEW why \in {"root", "depth", "cycle"}, walk.stop = "on", on = [levels |-> levels, stop |-> why],
             why = "root" => parent = NoId, why = "depth" => n = MaxWalkLevels /\ parent # NoId,
             why = "cycle" => parent \in Visited(walk)
      PROVE  Goal
    <2> HIDE DEF on
    <2>1. on.levels = levels /\ on.stop = why /\ on \in Walks(ids)
        BY <1>9 DEF Walks, Reached
    <2>2. LastOf(on) = last /\ Visited(on) = Visited(walk)
        BY <1>1, <1>2, <1>3, <2>1 DEF LastOf, Visited
    <2>3. StopsRight(on, get)
        BY <1>2, <1>6, <1>8, <1>9, <2>1, <2>2 DEF StopsRight, Reached, NotFollowed
    <2> QED BY <1>4, <1>9, <2>1, <2>3 DEF WalksRight
<1>10. ASSUME NEW why \in {"on"} \cup NotFollowed, walk.stop = "on",
              on = [levels |-> Append(levels, parent), stop |-> why],
              parent \in ids, n < MaxWalkLevels, parent \notin Visited(walk),
              why = "on" <=> get[parent].lookup = "entry"
      PROVE  Goal
    <2>1. \A i \in 1 .. n : levels[i] # parent
        BY <1>1, <1>2, <1>10, VisitedAre
    <2> DEFINE more == Append(levels, parent)
    <2>2. IsPath(more, get) /\ more \in Seq(ids) /\ Len(more) = n + 1 /\ more[n + 1] = parent
        BY <1>2, <1>3, <1>4, <1>6, <1>8, <1>10, <2>1, PathGrows
    <2>3. on = [levels |-> more, stop |-> why]
        BY <1>10
    <2> HIDE DEF on, more
    <2>4. on.levels = more /\ on.stop = why /\ on \in Walks(ids)
        BY <2>2, <2>3 DEF Walks, Reached, NotFollowed
    <2>5. LastOf(on) = parent
        BY <2>2, <2>4 DEF LastOf
    <2>6. StopsRight(on, get)
        BY <1>10, <2>4, <2>5 DEF StopsRight, Reached, NotFollowed
    <2> QED BY <1>1, <1>2, <2>2, <2>4, <2>6 DEF WalksRight
<1>11. ASSUME walk.stop = "on"
       PROVE  on = IF parent = NoId THEN [levels |-> levels, stop |-> "root"]
                   ELSE IF n >= MaxWalkLevels THEN [levels |-> levels, stop |-> "depth"]
                   ELSE IF parent \in Visited(walk) THEN [levels |-> levels, stop |-> "cycle"]
                   ELSE [levels |-> Append(levels, parent), stop |-> StopAt[get[parent].lookup]]
    BY <1>1, <1>2, <1>3, <1>6, <1>11 DEF WalkOn, Followed
<1>12. CASE walk.stop # "on"
    <2>1. on = walk
        BY <1>12 DEF WalkOn
    <2> QED BY <1>12, <2>1
<1>13. CASE walk.stop = "on"
    <2> HIDE DEF on, Goal
    <2>1. CASE parent = NoId
        <3>1. on = [levels |-> levels, stop |-> "root"]
            BY <1>11, <1>13, <2>1
        <3> QED BY <1>9, <1>13, <2>1, <3>1
    <2>2. CASE parent # NoId /\ n >= MaxWalkLevels
        <3>1. on = [levels |-> levels, stop |-> "depth"]
            BY <1>11, <1>13, <2>2
        <3>2. n = MaxWalkLevels
            BY <1>4, <2>2, WalkLimit DEF WalkLimit
        <3> QED BY <1>9, <1>13, <2>2, <3>1, <3>2
    <2>3. CASE parent # NoId /\ ~(n >= MaxWalkLevels) /\ parent \in Visited(walk)
        <3>1. on = [levels |-> levels, stop |-> "cycle"]
            BY <1>11, <1>13, <2>3
        <3> QED BY <1>9, <1>13, <2>3, <3>1
    <2>4. CASE parent # NoId /\ ~(n >= MaxWalkLevels) /\ parent \notin Visited(walk)
        <3>1. n < MaxWalkLevels
            BY <1>2, <2>4, WalkLimit DEF WalkLimit
        <3>2. parent \in ids /\ get[parent].lookup \in Lookup
            BY <1>7, <2>4
        <3>3. PICK why : why = StopAt[get[parent].lookup]
            OBVIOUS
        <3>4. why \in {"on"} \cup NotFollowed /\ (why = "on" <=> get[parent].lookup = "entry")
            BY <3>2, <3>3 DEF StopAt, Lookup, NotFollowed
        <3>5. on = [levels |-> Append(levels, parent), stop |-> why]
            BY <1>11, <1>13, <2>4, <3>3
        <3> QED BY <1>10, <1>13, <2>4, <3>1, <3>2, <3>4, <3>5
    <2> QED BY <2>1, <2>2, <2>3, <2>4
<1> QED BY <1>12, <1>13


(* Once more than MaxWalkLevels steps were made, the walk stopped. *)
LEMMA WalkEnds ==
    ASSUME NEW ids, NoId \notin ids, NEW id \in ids, NEW get, get[id].lookup = "entry",
           \A d \in ids : get[d].parent \in ids \cup {NoId}, \A d \in ids : get[d].lookup \in Lookup
    PROVE  Walk(id, get) \in Walks(ids) /\ WalksRight(Walk(id, get), get) /\ Walk(id, get).stop # "on"
<1> DEFINE R == {w \in Walks(ids) : WalksRight(w, get)}
           F == [w \in R |-> WalkOn(w, get)]
           spec(f) == f = [n \in Nat |-> IF n = 0 THEN WalkFrom(id) ELSE WalkOn(f[n - 1], get)]
           chosen == CHOOSE f : spec(f)
           P == {n \in Nat : chosen[n] \in R /\ (chosen[n].stop = "on" => Len(chosen[n].levels) = n + 1)}
<1>1. WalkFrom(id) \in R
    BY WalkBegins
<1>2. F \in [R -> R]
    BY WalkGoesOn
<1>3. PICK g \in [Nat -> R] : g[0] = WalkFrom(id) /\ \A n \in Nat : g[n + 1] = F[g[n]]
    <2> HIDE DEF R, F
    <2> QED BY <1>1, <1>2, Iterated
<1>4. spec(g)
    <2>1. ASSUME NEW n \in Nat PROVE g[n] = IF n = 0 THEN WalkFrom(id) ELSE WalkOn(g[n - 1], get)
        <3>1. CASE n = 0
            BY <1>3, <3>1
        <3>2. CASE n # 0
            <4>1. n - 1 \in Nat /\ n = (n - 1) + 1
                BY <3>2
            <4>2. g[n] = F[g[n - 1]]
                BY <1>3, <4>1
            <4>3. g[n - 1] \in R
                BY <1>3, <4>1
            <4>4. F[g[n - 1]] = WalkOn(g[n - 1], get)
                <5> HIDE DEF R
                <5> QED BY <4>3
            <4> QED BY <3>2, <4>2, <4>4
        <3> QED BY <3>1, <3>2
    <2>2. g = [n \in Nat |-> g[n]]
        BY <1>3
    <2> HIDE DEF R, F
    <2> QED BY <2>1, <2>2
<1>5. spec(chosen)
    <2> HIDE DEF spec
    <2> QED BY <1>4
<1>6. Walk(id, get) = chosen[MaxWalkLevels + 1]
    BY DEF Walk
<1> HIDE DEF chosen
<1>7. chosen[0] = WalkFrom(id) /\ \A n \in Nat : chosen[n + 1] = WalkOn(chosen[n], get)
    BY <1>5
<1>8. Nat \subseteq P
    <2>1. 0 \in P
        BY <1>1, <1>7, WalkBegins
    <2>2. ASSUME NEW n \in Nat, n \in P PROVE n + 1 \in P
        <3>1. PICK w \in Walks(ids) : w = chosen[n] /\ WalksRight(w, get) /\ (w.stop = "on" => Len(w.levels) = n + 1)
            BY <2>2
        <3>2. chosen[n + 1] = WalkOn(w, get)
            BY <1>7, <3>1
        <3>3. /\ WalkOn(w, get) \in Walks(ids) /\ WalksRight(WalkOn(w, get), get)
              /\ WalkOn(w, get).stop = "on" => Len(WalkOn(w, get).levels) = Len(w.levels) + 1
            BY <3>1, WalkGoesOn
        <3>4. WalkOn(w, get).stop = "on" => w.stop = "on"
            <4>1. w.stop # "on" => WalkOn(w, get) = w
                BY DEF WalkOn
            <4> QED BY <4>1
        <3> QED BY <3>1, <3>2, <3>3, <3>4
    <2> HIDE DEF P
    <2> QED BY <2>1, <2>2, EveryNumber
<1>9. MaxWalkLevels + 1 \in P
    BY <1>8, WalkLimit DEF WalkLimit
<1>10. PICK w \in Walks(ids) : /\ w = chosen[MaxWalkLevels + 1] /\ WalksRight(w, get)
                               /\ w.stop = "on" => Len(w.levels) = (MaxWalkLevels + 1) + 1
    BY <1>9
<1>11. w.stop # "on"
    <2>1. Len(w.levels) <= MaxWalkLevels
        BY <1>10 DEF WalksRight, IsPath
    <2> QED BY <1>10, <2>1, WalkLimit DEF WalkLimit
<1> QED BY <1>6, <1>10, <1>11

(* Whatever the stored entries say of their parents, a walk from one of them *)
(* is a path that ends where it says, and for the reason it says.            *)
THEOREM EveryWalkIsAPath ==
    ASSUME NEW ids, NoId \notin ids, NEW id \in ids, NEW get, get[id].lookup = "entry",
           \A d \in ids : get[d].parent \in ids \cup {NoId}, \A d \in ids : get[d].lookup \in Lookup
    PROVE  WalkIsAPath(id, get)
<1>1. PICK walk \in Walks(ids) : walk = Walk(id, get) /\ WalksRight(walk, get) /\ walk.stop # "on"
    BY WalkEnds
<1>2. PICK levels \in Seq(ids) : walk.levels = levels
    BY DEF Walks
<1>3. PICK n \in Nat : n = Len(levels)
    OBVIOUS
<1>4. IsPath(levels, get) /\ StopsRight(walk, get) /\ LastOf(walk) = levels[n]
    BY <1>1, <1>2, <1>3 DEF WalksRight, LastOf
<1>5. Cardinality(Visited(walk)) = n
    <2>1. Visited(walk) = {levels[i] : i \in 1 .. n}
        BY <1>2, <1>3, VisitedAre
    <2>2. \A i, j \in 1 .. n : levels[i] = levels[j] => i = j
        BY <1>3, <1>4 DEF IsPath
    <2> DEFINE f == [i \in 1 .. n |-> levels[i]]
    <2>3. f \in Bijection(1 .. n, Visited(walk))
        BY <2>1, <2>2 DEF Bijection, Injection, Surjection, IsInjective
    <2>4. ExistsBijection(1 .. n, Visited(walk))
        <3> HIDE DEF f
        <3> QED BY <2>3 DEF ExistsBijection
    <2>5. IsFiniteSet(1 .. n) /\ Cardinality(1 .. n) = n
        BY FS_Interval
    <2> QED BY <2>4, <2>5, FS_Bijection
<1>6. walk.stop \in Reached \cup NotFollowed
    BY DEF Walks
<1>7. CASE walk.stop \in NotFollowed
    BY <1>1, <1>2, <1>3, <1>4, <1>5, <1>7 DEF WalkIsAPath, IsPath, StopsRight, NotFollowed
<1>8. CASE walk.stop \in Reached
    BY <1>1, <1>2, <1>3, <1>4, <1>5, <1>8 DEF WalkIsAPath, IsPath, StopsRight, Reached
<1> QED BY <1>6, <1>7, <1>8

-----------------------------------------------------------------------------
(* What has to be right of a question of the authorities and of lineage.     *)
Law(topic, q) ==
    /\ topic = "policy" => PolicyOnlyNarrows(q.policy, q.request) /\ RefusalIsNeeded(q.policy, q.request)
    /\ topic = "decide" => DecisionIsStrictest(q.level, q.declared)
    /\ topic = "record" => UnreadHoldsNothing(q.raw, <<"cut", "merge">>, q.policy)
    /\ topic = "walk" => WalkIsAPath(q.id, q.get)
    /\ topic = "trust" => TrustIsNotGained(q.in)

PutLawfully == \E t, q : question' = [topic |-> t, put |-> q] /\ Law(t, q)

LEMMA PolicyIsLawful == AskPolicy => PutLawfully
<1> SUFFICES ASSUME AskPolicy PROVE PutLawfully
    OBVIOUS
<1>1. PICK l \in {[machine |-> Unset, overlay |-> Unset, workspace |-> Strict],
                  [machine |-> 1, overlay |-> Unset, workspace |-> Unset],
                  [machine |-> 1, overlay |-> Strict, workspace |-> 1],
                  [machine |-> Unset, overlay |-> Unset, workspace |-> Unset]},
           m \in {Unset} \cup SUBSET Known, w \in {Unset} \cup SUBSET Known,
           o \in {Unset} \cup SUBSET (Known \cap {"merge"}), R \in SUBSET Known, G \in SUBSET Known,
           lr \in {Unset, Autonomous, 1}, roles \in SUBSET {"lead"} :
               Put([policy |-> [level |-> l, ceiling |-> [machine |-> m, overlay |-> o, workspace |-> w], roles |-> [lead |-> R]],
                    request |-> [level |-> lr, grants |-> G, roles |-> roles]])
    BY DEF AskPolicy
<1> DEFINE c == [machine |-> m, overlay |-> o, workspace |-> w]
           r == [lead |-> R]
           pol == [level |-> l, ceiling |-> c, roles |-> r]
           req == [level |-> lr, grants |-> G, roles |-> roles]
           put == [policy |-> pol, request |-> req]
<1>2. l \in [Layer -> Level \cup {Unset}]
    BY DEF Layer, Level, Autonomous, Strict
<1>3. c \in [Layer -> {Unset} \cup SUBSET Known]
    BY DEF Layer
<1>4. r \in [DOMAIN r -> SUBSET Known]
    OBVIOUS
<1>5. IsPolicy(pol)
    <2> HIDE DEF c, r
    <2> QED BY <1>2, <1>3, <1>4 DEF IsPolicy
<1>6. req.level \in Level \cup {Unset}
    BY DEF Level, Autonomous, Strict
<1>7. question' = [topic |-> "policy", put |-> put]
    BY <1>1 DEF AskPolicy, Taken, Put
<1>8. put.policy = pol /\ put.request = req
    BY DEF put
<1> HIDE DEF pol, req, put
<1>9. PolicyOnlyNarrows(pol, req) /\ RefusalIsNeeded(pol, req)
    BY <1>5, <1>6, EveryPolicyNarrows, EveryRefusalIsNeeded
<1>10. Law("policy", put)
    BY <1>8, <1>9 DEF Law
<1> QED BY <1>7, <1>10 DEF PutLawfully

LEMMA DecideIsLawful == AskDecide => PutLawfully
<1> SUFFICES ASSUME AskDecide PROVE PutLawfully
    OBVIOUS
<1>1. PICK l \in Level, d \in {Unset} \cup [decider : Level, exclusion : BOOLEAN] : Put([level |-> l, declared |-> d])
    BY DEF AskDecide
<1> DEFINE put == [level |-> l, declared |-> d]
<1>2. question' = [topic |-> "decide", put |-> put] /\ put.level = l /\ put.declared = d
    BY <1>1 DEF AskDecide, Taken, Put
<1>3. DecisionIsStrictest(l, d)
    BY EveryDecisionIsStrictest
<1> HIDE DEF put
<1>7. Law("decide", put)
    BY <1>2, <1>3 DEF Law
<1> QED BY <1>2, <1>7 DEF PutLawfully

LEMMA RecordIsLawful == AskRecord => PutLawfully
<1> SUFFICES ASSUME AskRecord PROVE PutLawfully
    OBVIOUS
<1>1. \E raw, p : Put([raw |-> raw, policy |-> p])
    BY DEF AskRecord
<1>2. PICK raw, p : Put([raw |-> raw, policy |-> p])
    BY <1>1
<1> DEFINE put == [raw |-> raw, policy |-> p]
<1>3. question' = [topic |-> "record", put |-> put] /\ put.raw = raw /\ put.policy = p
    BY <1>2 DEF AskRecord, Taken, Put
<1>4. UnreadHoldsNothing(raw, <<"cut", "merge">>, p)
    BY EveryUnreadHoldsNothing
<1> HIDE DEF put
<1>7. Law("record", put)
    BY <1>3, <1>4 DEF Law
<1> QED BY <1>3, <1>7 DEF PutLawfully

LEMMA WalkIsLawful == AskWalk => PutLawfully
<1> SUFFICES ASSUME AskWalk PROVE PutLawfully
    OBVIOUS
<1>1. PICK id \in Id, get \in [Id -> Lookups] : get[id].lookup = "entry" /\ Put([id |-> id, get |-> get])
    BY DEF AskWalk
<1> DEFINE put == [id |-> id, get |-> get]
<1>2. question' = [topic |-> "walk", put |-> put] /\ put.id = id /\ put.get = get
    BY <1>1 DEF AskWalk, Taken, Put
<1>3. \A d \in Id : get[d] \in Lookups
    OBVIOUS
<1>4. \A u \in Lookups : u.parent \in Id \cup {NoId} /\ u.lookup \in Lookup
    BY DEF Lookups, Lookup
<1>5. NoId \notin Id
    BY NamesDiffer DEF NamesDiffer, Session
<1>6. WalkIsAPath(id, get)
    BY <1>1, <1>3, <1>4, <1>5, EveryWalkIsAPath
<1> HIDE DEF put
<1>7. Law("walk", put)
    BY <1>2, <1>6 DEF Law
<1> QED BY <1>2, <1>7 DEF PutLawfully

LEMMA TrustIsLawful == AskTrust => PutLawfully
<1> SUFFICES ASSUME AskTrust PROVE PutLawfully
    OBVIOUS
<1>1. \E in : /\ in.parentSource = IF in.parent = NoId THEN "none" ELSE Found(in.anchored, in.cwdInInstance)
              /\ in.anchored \in BOOLEAN /\ in.cwdInInstance \in BOOLEAN
              /\ Put([in |-> in])
    BY DEF AskTrust
<1>2. PICK in : /\ in.parentSource = IF in.parent = NoId THEN "none" ELSE Found(in.anchored, in.cwdInInstance)
                /\ in.anchored \in BOOLEAN /\ in.cwdInInstance \in BOOLEAN
                /\ Put([in |-> in])
    BY <1>1
<1> DEFINE put == [in |-> in]
<1>3. question' = [topic |-> "trust", put |-> put] /\ put.in = in
    BY <1>2 DEF AskTrust, Taken, Put
<1>4. in.parentSource = "cwd" => in.cwdInInstance /\ ~in.anchored
    BY <1>2 DEF Found
<1>5. TrustIsNotGained(in)
    BY <1>4, TrustIsNeverGained
<1> HIDE DEF put
<1>7. Law("trust", put)
    BY <1>3, <1>5 DEF Law
<1> QED BY <1>3, <1>7 DEF PutLawfully

(* The questions of secrets and of installs are of other topics. *)
LEMMA OthersAreLawful == (S!Ask \/ I!Ask \/ C!Ask) => PutLawfully
<1> DEFINE Elsewhere == {"slot", "pool", "env", "example", "store", "update",
                         "tree", "orientation", "markets", "plugins", "root", "servers", "exclude",
                         "landed", "homes", "scan", "instance", "scope", "destroy", "teardown", "hook",
                         "wipe", "codex", "init"}
<1>1. S!Ask => \E t \in Elsewhere : \E q : question' = [topic |-> t, put |-> q]
    <2>1. S!AskSlot => \E q : question' = [topic |-> "slot", put |-> q]
        <3>1. S!AskSlot => S!Taken("slot") /\ \E q : S!Put(q)
            BY DEF S!AskSlot
        <3> QED BY <3>1 DEF S!Taken, S!Put
    <2>2. S!AskPool => \E q : question' = [topic |-> "pool", put |-> q]
        <3>1. S!AskPool => S!Taken("pool") /\ \E q : S!Put(q)
            BY DEF S!AskPool
        <3> QED BY <3>1 DEF S!Taken, S!Put
    <2>3. S!AskEnv => \E q : question' = [topic |-> "env", put |-> q]
        <3>1. S!AskEnv => S!Taken("env") /\ \E q : S!Put(q)
            BY DEF S!AskEnv
        <3> QED BY <3>1 DEF S!Taken, S!Put
    <2>4. S!AskExample => \E q : question' = [topic |-> "example", put |-> q]
        <3>1. S!AskExample => S!Taken("example") /\ \E q : S!Put(q)
            BY DEF S!AskExample
        <3> QED BY <3>1 DEF S!Taken, S!Put
    <2>5. S!AskStore => \E q : question' = [topic |-> "store", put |-> q]
        <3>1. S!AskStore => S!Taken("store") /\ \E q : S!Put(q)
            BY DEF S!AskStore
        <3> QED BY <3>1 DEF S!Taken, S!Put
    <2>6. S!AskUpdate => \E q : question' = [topic |-> "update", put |-> q]
        <3>1. S!AskUpdate => S!Taken("update") /\ \E q : S!Put(q)
            BY DEF S!AskUpdate
        <3> QED BY <3>1 DEF S!Taken, S!Put
    <2> QED BY <2>1, <2>2, <2>3, <2>4, <2>5, <2>6 DEF S!Ask
<1>2. I!Ask => \E t \in Elsewhere : \E q : question' = [topic |-> t, put |-> q]
    <2>1. I!AskTree => \E q : question' = [topic |-> "tree", put |-> q]
        <3>1. I!AskTree => I!Taken("tree") /\ \E q : I!Put(q)
            BY DEF I!AskTree
        <3> QED BY <3>1 DEF I!Taken, I!Put
    <2>2. I!AskOrientation => \E q : question' = [topic |-> "orientation", put |-> q]
        <3>1. I!AskOrientation => I!Taken("orientation") /\ \E q : I!Put(q)
            BY DEF I!AskOrientation
        <3> QED BY <3>1 DEF I!Taken, I!Put
    <2>3. I!AskMarkets => \E q : question' = [topic |-> "markets", put |-> q]
        <3>1. I!AskMarkets => I!Taken("markets") /\ \E q : I!Put(q)
            BY DEF I!AskMarkets
        <3> QED BY <3>1 DEF I!Taken, I!Put
    <2>4. I!AskPlugins => \E q : question' = [topic |-> "plugins", put |-> q]
        <3>1. I!AskPlugins => I!Taken("plugins") /\ \E q : I!Put(q)
            BY DEF I!AskPlugins
        <3> QED BY <3>1 DEF I!Taken, I!Put
    <2>5. I!AskRoot => \E q : question' = [topic |-> "root", put |-> q]
        <3>1. I!AskRoot => I!Taken("root") /\ \E q : I!Put(q)
            BY DEF I!AskRoot
        <3> QED BY <3>1 DEF I!Taken, I!Put
    <2>6. I!AskServers => \E q : question' = [topic |-> "servers", put |-> q]
        <3>1. I!AskServers => I!Taken("servers") /\ \E q : I!Put(q)
            BY DEF I!AskServers
        <3> QED BY <3>1 DEF I!Taken, I!Put
    <2>7. I!AskExclude => \E q : question' = [topic |-> "exclude", put |-> q]
        <3>1. I!AskExclude => I!Taken("exclude") /\ \E q : I!Put(q)
            BY DEF I!AskExclude
        <3> QED BY <3>1 DEF I!Taken, I!Put
    <2> QED BY <2>1, <2>2, <2>3, <2>4, <2>5, <2>6, <2>7 DEF I!Ask
<1>3. C!Ask => \E t \in Elsewhere : \E q : question' = [topic |-> t, put |-> q]
    <2>1. C!AskLanded => \E q : question' = [topic |-> "landed", put |-> q]
        <3>1. C!AskLanded => C!Taken("landed") /\ \E q : C!Put(q)
            BY DEF C!AskLanded
        <3> QED BY <3>1 DEF C!Taken, C!Put
    <2>2. C!AskHomes => \E q : question' = [topic |-> "homes", put |-> q]
        <3>1. C!AskHomes => C!Taken("homes") /\ \E q : C!Put(q)
            BY DEF C!AskHomes
        <3> QED BY <3>1 DEF C!Taken, C!Put
    <2>3. C!AskScan => \E q : question' = [topic |-> "scan", put |-> q]
        <3>1. C!AskScan => C!Taken("scan") /\ \E q : C!Put(q)
            BY DEF C!AskScan
        <3> QED BY <3>1 DEF C!Taken, C!Put
    <2>4. C!AskInstance => \E q : question' = [topic |-> "instance", put |-> q]
        <3>1. C!AskInstance => C!Taken("instance") /\ \E q : C!Put(q)
            BY DEF C!AskInstance
        <3> QED BY <3>1 DEF C!Taken, C!Put
    <2>5. C!AskScope => \E q : question' = [topic |-> "scope", put |-> q]
        <3>1. C!AskScope => C!Taken("scope") /\ \E q : C!Put(q)
            BY DEF C!AskScope
        <3> QED BY <3>1 DEF C!Taken, C!Put
    <2>6. C!AskDestroy => \E q : question' = [topic |-> "destroy", put |-> q]
        <3>1. C!AskDestroy => C!Taken("destroy") /\ \E q : C!Put(q)
            BY DEF C!AskDestroy
        <3> QED BY <3>1 DEF C!Taken, C!Put
    <2>7. C!AskTeardown => \E q : question' = [topic |-> "teardown", put |-> q]
        <3>1. C!AskTeardown => C!Taken("teardown") /\ \E q : C!Put(q)
            BY DEF C!AskTeardown
        <3> QED BY <3>1 DEF C!Taken, C!Put
    <2>8. C!AskHook => \E q : question' = [topic |-> "hook", put |-> q]
        <3>1. C!AskHook => C!Taken("hook") /\ \E q : C!Put(q)
            BY DEF C!AskHook
        <3> QED BY <3>1 DEF C!Taken, C!Put
    <2>9. C!AskWipe => \E q : question' = [topic |-> "wipe", put |-> q]
        <3>1. C!AskWipe => C!Taken("wipe") /\ \E q : C!Put(q)
            BY DEF C!AskWipe
        <3> QED BY <3>1 DEF C!Taken, C!Put
    <2>10. C!AskCodex => \E q : question' = [topic |-> "codex", put |-> q]
        <3>1. C!AskCodex => C!Taken("codex") /\ \E q : C!Put(q)
            BY DEF C!AskCodex
        <3> QED BY <3>1 DEF C!Taken, C!Put
    <2>11. C!AskInit => \E q : question' = [topic |-> "init", put |-> q]
        <3>1. C!AskInit => C!Taken("init") /\ \E q : C!Put(q)
            BY DEF C!AskInit
        <3> QED BY <3>1 DEF C!Taken, C!Put
    <2> QED BY <2>1, <2>2, <2>3, <2>4, <2>5, <2>6, <2>7, <2>8, <2>9, <2>10, <2>11 DEF C!Ask
<1>4. \A t \in Elsewhere : \A q : Law(t, q)
    BY DEF Law
<1> HIDE DEF Elsewhere
<1> QED BY <1>1, <1>2, <1>3, <1>4 DEF PutLawfully

(* Every question put to the authority decisions and the lineage gets a      *)
(* right answer.                                                             *)
THEOREM DecisionsAreRight == DecisionsSpec => []AuthorityDecisions
<1>1. DecisionsInit => AuthorityDecisions
    BY DEF DecisionsInit, AuthorityDecisions, IsAsked
<1>2. PutLawfully => AuthorityDecisions'
    BY DEF PutLawfully, Law, AuthorityDecisions, IsAsked
<1>3. TakeTopic => AuthorityDecisions'
    BY DEF TakeTopic, TakeOneOf, AuthorityDecisions, IsAsked
<1>4. AuthorityDecisions /\ UNCHANGED question => AuthorityDecisions'
    BY DEF AuthorityDecisions, IsAsked
<1>5. AuthorityDecisions /\ [DecisionsNext]_<<vars, question>> => AuthorityDecisions'
    BY <1>2, <1>3, <1>4, PolicyIsLawful, DecideIsLawful, RecordIsLawful, WalkIsLawful, TrustIsLawful, OthersAreLawful
       DEF DecisionsNext, AskAuthority
<1> QED BY <1>1, <1>5, PTL DEF DecisionsSpec
-----------------------------------------------------------------------------
(* Secrets: where values and credentials come from, which layer decides, and *)
(* how the store is written.                                                *)

(* A slot as a configuration has it before anything is resolved, and what a provider may say. *)
IsSlot(slot) ==
    \/ slot = S!Plain(slot.value) \/ slot = S!Hidden(slot.value)
    \/ slot = S!Reference(slot.uri)
IsReply(reply) == reply = S!Hidden(reply.value) \/ reply.is \in S!Causes \cup {"error"}
IsTable(table) ==
    /\ table = [values |-> table.values, required |-> table.required,
                recommended |-> table.recommended, optional |-> table.optional]
    /\ \A k \in DOMAIN table.values : IsSlot(table.values[k])

(* What a slot may become: a level's key, what its reference says and what the providers answered. *)
MayBecome(slot, is, secrets, level, bundle, ref) ==
    \/ slot.is = "plain" /\ S!HasValue(slot) /\ secrets /\ is = S!Hidden(slot.value)
    \/ slot.is # "reference" /\ is = slot /\ (slot.is = "plain" /\ secrets => ~S!HasValue(slot))
    \/ slot.is = "reference" /\ is = S!Failed
    \/ slot.is = "reference" /\ \E cause : is = S!Mark(cause, level)
    \/ slot.is = "reference" /\ is = S!Nothing /\ ref # Unset /\ ref.optional
    \/ slot.is = "reference" /\ is = bundle[ref.provider][ref.at] /\ is = S!Hidden(is.value)

(* So every slot is resolved.                                               *)
LEMMA ResolvedIs ==
    ASSUME NEW slot, IsSlot(slot), NEW secrets \in BOOLEAN, NEW level, NEW bundle,
           \A p \in DOMAIN bundle : \A at \in DOMAIN bundle[p] : IsReply(bundle[p][at])
    PROVE  MayBecome(slot, S!ResolveOne(slot, secrets, level, bundle), secrets, level, bundle,
                     S!ParseRef(slot.uri, DOMAIN bundle \ {""} # {}))
<1> DEFINE is == S!ResolveOne(slot, secrets, level, bundle)
           ref == S!ParseRef(slot.uri, DOMAIN bundle \ {""} # {})
           answer == S!AnswerOf(bundle[ref.provider], ref)
<1>1. is = IF slot.is = "plain" /\ S!HasValue(slot) /\ secrets THEN S!Hidden(slot.value)
           ELSE IF slot.is # "reference" THEN slot
           ELSE IF ref = Unset THEN S!Failed
           ELSE IF ref.provider \notin DOMAIN bundle THEN S!Mark("undeclared-provider", level)
           ELSE IF answer.is = "key-not-found" /\ ref.optional THEN S!Nothing
           ELSE IF answer.is \in S!Causes THEN S!Mark(answer.is, level)
           ELSE IF answer.is = "error" THEN S!Failed
           ELSE answer
    BY DEF S!ResolveOne
<1>2. ref.provider \in DOMAIN bundle /\ answer.is \notin S!Causes \cup {"error"} =>
          answer = bundle[ref.provider][ref.at] /\ answer = S!Hidden(answer.value)
    <2>1. S!Says("key-not-found").is \in S!Causes
        BY DEF S!Says, S!Causes
    <2> QED BY <2>1 DEF S!AnswerOf, IsReply
<1> HIDE DEF is, ref, answer
<1> USE DEF is, ref
<1>3. CASE slot.is = "plain" /\ S!HasValue(slot) /\ secrets
    <2> HIDE DEF is, ref
    <2>1. is = S!Hidden(slot.value)
        BY <1>1, <1>3
    <2> QED BY <1>3, <2>1 DEF is, ref, MayBecome
<1>4. CASE ~(slot.is = "plain" /\ S!HasValue(slot) /\ secrets) /\ slot.is # "reference"
    <2> HIDE DEF is, ref
    <2>1. is = slot
        BY <1>1, <1>4
    <2> QED BY <1>4, <2>1 DEF is, ref, MayBecome
<1>5. CASE slot.is = "reference"
    <2> HIDE DEF is, ref
    <2>1. \/ is = S!Failed \/ \E cause : is = S!Mark(cause, level)
          \/ is = S!Nothing /\ ref # Unset /\ ref.optional
          \/ is = bundle[ref.provider][ref.at] /\ is = S!Hidden(is.value)
        <3>1. slot.is # "plain"
            BY <1>5
        <3> HIDE DEF S!HasValue
        <3> QED BY <1>1, <1>2, <1>5, <3>1
    <2> QED BY <1>5, <2>1 DEF is, ref, MayBecome
<1> QED BY <1>3, <1>4, <1>5

(* What each kind of slot says, and which of them have a value.              *)
LEMMA ValuesAre ==
    /\ \A v : S!Plain(v).is = "plain" /\ S!Plain(v).value = v /\ S!Hidden(v).is = "secret" /\ S!Hidden(v).value = v
    /\ \A v : S!HasValue(S!Hidden(v))
    /\ \A c, l : ~S!HasValue(S!Mark(c, l)) /\ S!Mark(c, l).is = "unresolved" /\ S!Mark(c, l).level = l
    /\ \A u : S!Reference(u).is = "reference" /\ S!Reference(u).uri = u
    /\ ~S!HasValue(S!Failed) /\ ~S!HasValue(S!Nothing) /\ S!Failed.is = "failed" /\ S!Nothing.is = "plain"
    /\ \A v : ~S!HasValue(S!Plain(v)) => S!Plain(v) = S!Nothing
    /\ \A s : S!HasValue(s) => s.is \in {"secret", "plain"}
BY DEF S!Plain, S!Hidden, S!Mark, S!Reference, S!HasValue, S!Failed, S!Nothing

(* ResolveWorkspace and checkRequiredKeys (internal/vault/resolve,          *)
(* workspace/required.go), of every table not yet resolved and whatever the *)
(* providers answer: a value is its author's or a provider's, a reference   *)
(* that stays empty is optional, and a declared key without a value is      *)
(* refused, failed or reported.                                             *)
THEOREM EveryValueHasASource ==
    ASSUME NEW table, NEW secrets \in BOOLEAN, NEW bundle, IsTable(table),
           \A p \in DOMAIN bundle : \A at \in DOMAIN bundle[p] : IsReply(bundle[p][at])
    PROVE  S!NoValueIsMadeUp(table, secrets, bundle)
<1> DEFINE after == S!ResolveTable(table, secrets, bundle)
           ref(k) == S!ParseRef(table.values[k].uri, DOMAIN bundle \ {""} # {})
           one(k) == S!ResolveOne(table.values[k], secrets, S!LevelOf(table, k), bundle)
           values == [k \in DOMAIN table.values |-> one(k)]
<1>1. /\ after.values = values /\ after.required = table.required
      /\ after.recommended = table.recommended /\ after.optional = table.optional
    <2> HIDE DEF values
    <2>1. after = [table EXCEPT !.values = values]
        BY DEF S!ResolveTable, values
    <2>2. PICK v, r, c, o : table = [values |-> v, required |-> r, recommended |-> c, optional |-> o]
        BY DEF IsTable
    <2> HIDE DEF after
    <2> QED BY <2>1, <2>2
<1>2. ASSUME NEW k \in DOMAIN table.values
      PROVE  LET was == table.values[k]
                 is == one(k)
             IN  /\ was.is = "reference" /\ S!HasValue(is) => is = bundle[ref(k).provider][ref(k).at]
                 /\ was.is = "reference" /\ is = S!Nothing => was.uri.required = "false"
                 /\ was.is # "reference" => S!HasValue(is) = S!HasValue(was)
                 /\ secrets => is.is # "plain" \/ is = S!Nothing
                 /\ is.is = "unresolved" => is.level = S!LevelOf(table, k)
                 /\ S!HasValue(is) \/ is = S!Nothing \/ is = S!Failed \/ is.is = "unresolved"
    <2> DEFINE was == table.values[k]
               is == one(k)
               lv == S!LevelOf(table, k)
    <2>1. IsSlot(was)
        BY DEF IsTable
    <2>2. ref(k) # Unset /\ ref(k).optional => was.uri.required = "false"
        BY DEF S!ParseRef
    <2>3. \/ was.is = "plain" /\ S!HasValue(was) /\ secrets /\ is = S!Hidden(was.value)
          \/ was.is # "reference" /\ is = was /\ (was.is = "plain" /\ secrets => ~S!HasValue(was))
          \/ was.is = "reference" /\ is = S!Failed
          \/ was.is = "reference" /\ \E cause : is = S!Mark(cause, lv)
          \/ was.is = "reference" /\ is = S!Nothing /\ ref(k) # Unset /\ ref(k).optional
          \/ was.is = "reference" /\ is = bundle[ref(k).provider][ref(k).at] /\ is = S!Hidden(is.value)
        <3> HIDE DEF IsReply
        <3>1. MayBecome(was, S!ResolveOne(was, secrets, lv, bundle), secrets, lv, bundle,
                        S!ParseRef(was.uri, DOMAIN bundle \ {""} # {}))
            BY <2>1, ResolvedIs
        <3>2. MayBecome(was, is, secrets, lv, bundle, ref(k))
            BY <3>1
        <3> QED BY <3>2 DEF MayBecome
    <2> HIDE DEF was, is, ref, lv
    <2>4. was = S!Plain(was.value) \/ was = S!Hidden(was.value) \/ was = S!Reference(was.uri)
        BY <2>1 DEF IsSlot
    <2> DEFINE goal ==
               /\ was.is = "reference" /\ S!HasValue(is) => is = bundle[ref(k).provider][ref(k).at]
               /\ was.is = "reference" /\ is = S!Nothing => was.uri.required = "false"
               /\ was.is # "reference" => S!HasValue(is) = S!HasValue(was)
               /\ secrets => is.is # "plain" \/ is = S!Nothing
               /\ is.is = "unresolved" => is.level = lv
               /\ S!HasValue(is) \/ is = S!Nothing \/ is = S!Failed \/ is.is = "unresolved"
    <2> SUFFICES goal
        BY DEF was, is, lv
    <2>5. CASE was.is = "plain" /\ S!HasValue(was) /\ secrets /\ is = S!Hidden(was.value)
        BY <2>5, ValuesAre
    <2>6. CASE was.is # "reference" /\ is = was /\ (was.is = "plain" /\ secrets => ~S!HasValue(was))
        <3>1. CASE was = S!Plain(was.value)
            BY <2>6, <3>1, ValuesAre
        <3>2. CASE was = S!Hidden(was.value)
            BY <2>6, <3>2, ValuesAre
        <3> QED BY <2>4, <2>6, <3>1, <3>2, ValuesAre
    <2>7. CASE was.is = "reference" /\ is = S!Failed
        BY <2>7, ValuesAre
    <2>8. CASE was.is = "reference" /\ \E cause : is = S!Mark(cause, lv)
        BY <2>8, ValuesAre
    <2>9. CASE was.is = "reference" /\ is = S!Nothing /\ ref(k) # Unset /\ ref(k).optional
        BY <2>2, <2>9, ValuesAre
    <2>10. CASE was.is = "reference" /\ is = bundle[ref(k).provider][ref(k).at] /\ is = S!Hidden(is.value)
        BY <2>10, ValuesAre
    <2> QED BY <2>3, <2>5, <2>6, <2>7, <2>8, <2>9, <2>10
<1>3. ASSUME NEW k \in DOMAIN table.values, one(k).is = "unresolved"
      PROVE  \E e \in S!UnresolvedKeys(after) : e.key = k
    <2> HIDE DEF one, after
    <2>1. k \in DOMAIN after.values /\ after.values[k].is = "unresolved"
        BY <1>1, <1>3
    <2> DEFINE e == [key |-> k, cause |-> after.values[k].cause, level |-> after.values[k].level]
    <2>2. e \in S!UnresolvedKeys(after)
        BY <2>1 DEF S!UnresolvedKeys
    <2> QED BY <2>2
<1>4. ASSUME NEW k \in S!DeclaredKeys(table), k \notin DOMAIN table.values
      PROVE  \E e \in S!UnresolvedKeys(after) : e.key = k
    <2> HIDE DEF one, after
    <2>1. DOMAIN after.values = DOMAIN table.values
        BY <1>1
    <2>2. PICK l \in {"required", "recommended", "optional"} : k \in after[l]
        BY <1>1 DEF S!DeclaredKeys
    <2>3. [key |-> k, cause |-> "no-source", level |-> l] \in S!UnresolvedKeys(after)
        BY <1>4, <2>1, <2>2 DEF S!UnresolvedKeys
    <2> QED BY <2>3
<1>5. \A k \in DOMAIN after.values :
          LET was == table.values[k]
              is == after.values[k]
          IN  /\ was.is = "reference" /\ S!HasValue(is) => is = bundle[ref(k).provider][ref(k).at]
              /\ was.is = "reference" /\ is = S!Nothing => was.uri.required = "false"
              /\ was.is # "reference" => S!HasValue(is) = S!HasValue(was)
              /\ secrets => is.is # "plain" \/ is = S!Nothing
              /\ is.is = "unresolved" => is.level = S!LevelOf(table, k)
    <2> HIDE DEF one, after, ref
    <2> QED BY <1>1, <1>2
<1>6. \A k \in S!DeclaredKeys(table) :
          \/ k \in DOMAIN table.values
             /\ LET is == after.values[k]
                IN  S!HasValue(is) \/ is = S!Nothing \/ is = S!Failed \/ k \in S!MissingRequired(after)
          \/ \E e \in S!UnresolvedKeys(after) : e.key = k
    <2> HIDE DEF one, after, ref
    <2>1. \A k \in DOMAIN table.values : after.values[k] = one(k)
        BY <1>1
    <2>2. \A k \in DOMAIN table.values :
              S!HasValue(one(k)) \/ one(k) = S!Nothing \/ one(k) = S!Failed \/ one(k).is = "unresolved"
        BY <1>2
    <2> QED BY <1>3, <1>4, <2>1, <2>2
<1> QED
    <2> HIDE DEF one
    <2> QED BY <1>5, <1>6 DEF S!NoValueIsMadeUp

(* A layer as the configuration gives it. *)
IsLayer(layer) ==
    S!SlotTables \cup {"promote", "envFiles", "hooks", "files", "plugins", "orgs", "content", "declared"}
        \subseteq DOMAIN layer

(* A function over another.                                                  *)
LEMMA OverIs ==
    ASSUME NEW f, NEW g, NEW k
    PROVE  /\ k \in DOMAIN f => k \in DOMAIN S!Over(f, g) /\ S!Over(f, g)[k] = f[k]
           /\ k \in DOMAIN g /\ k \notin DOMAIN f => k \in DOMAIN S!Over(f, g) /\ S!Over(f, g)[k] = g[k]
BY DEF S!Over

(* The workspace overlay is under every table it touches.                    *)
LEMMA OverlayTables ==
    ASSUME NEW ws, NEW overlay, IsLayer(ws), S!MergeWorkspaceOverlay(ws, overlay) # Unset, NEW t \in S!SlotTables
    PROVE  \/ S!MergeWorkspaceOverlay(ws, overlay)[t] = ws[t]
           \/ S!MergeWorkspaceOverlay(ws, overlay)[t] = S!Over(ws[t], overlay[t])
BY DEF S!MergeWorkspaceOverlay, IsLayer, S!SlotTables

(* The merge with the workspace overlay is a layer.                          *)
LEMMA OverlayIsLayer ==
    ASSUME NEW ws, NEW overlay, IsLayer(ws), S!MergeWorkspaceOverlay(ws, overlay) # Unset
    PROVE  IsLayer(S!MergeWorkspaceOverlay(ws, overlay))
BY DEF S!MergeWorkspaceOverlay, IsLayer, S!SlotTables

(* The personal overlay's tables are over the workspace's.                   *)
LEMMA GlobalTables ==
    ASSUME NEW ws, NEW personal, NEW teamOnly, IsLayer(ws), S!MergeGlobalOverride(ws, personal, teamOnly) # Unset,
           NEW t \in S!SlotTables
    PROVE  S!MergeGlobalOverride(ws, personal, teamOnly)[t] = S!Over(personal[t], ws[t])
BY DEF S!MergeGlobalOverride, S!OverTables, IsLayer, S!SlotTables

(* MergeWorkspaceOverlay and MergeGlobalOverride (workspace/override.go), of *)
(* any layers: the overlay of the workspace takes nothing from the base, and *)
(* the personal overlay nothing the team locks, unless the merge fails.     *)
THEOREM EveryLockedKeyStays ==
    ASSUME NEW layers, NEW teamOnly, IsLayer(layers.ws)
    PROVE  S!LockedKeysStay(layers, teamOnly)
<1> DEFINE ws == S!MergeWorkspaceOverlay(layers.ws, layers.overlay)
           personal == S!ResolveGlobalOverride(layers.all, layers.scoped)
           merged == S!MergeGlobalOverride(ws, personal, teamOnly)
           has(base, over) == \A k \in DOMAIN base : k \in DOMAIN over /\ over[k] = base[k]
<1>1. ASSUME ws # Unset, NEW t \in S!SlotTables PROVE has(layers.ws[t], ws[t])
    <2>1. ws[t] = layers.ws[t] \/ ws[t] = S!Over(layers.ws[t], layers.overlay[t])
        BY <1>1, OverlayTables
    <2>2. ASSUME NEW k \in DOMAIN layers.ws[t] PROVE k \in DOMAIN ws[t] /\ ws[t][k] = layers.ws[t][k]
        <3> HIDE DEF ws
        <3>1. k \in DOMAIN S!Over(layers.ws[t], layers.overlay[t]) /\ S!Over(layers.ws[t], layers.overlay[t])[k] = layers.ws[t][k]
            BY <2>2, OverIs
        <3> QED BY <2>1, <2>2, <3>1
    <2> QED BY <2>2
<1>2. ASSUME ws # Unset, merged # Unset, NEW t \in S!SlotTables
      PROVE  has([k \in DOMAIN ws[t] \cap teamOnly |-> ws[t][k]], merged[t])
    <2>1. IsLayer(ws)
        BY <1>2, OverlayIsLayer
    <2> HIDE DEF ws, personal
    <2>2. merged[t] = S!Over(personal[t], ws[t])
        BY <1>2, <2>1, GlobalTables
    <2>3. DOMAIN ws[t] \cap DOMAIN personal[t] \cap teamOnly = {}
        BY <1>2 DEF S!MergeGlobalOverride, S!TeamOnlyLocked
    <2>4. ASSUME NEW k \in DOMAIN ws[t] \cap teamOnly PROVE k \in DOMAIN merged[t] /\ merged[t][k] = ws[t][k]
        <3> HIDE DEF merged
        <3>1. k \in DOMAIN ws[t] /\ k \notin DOMAIN personal[t]
            BY <2>3, <2>4
        <3>2. k \in DOMAIN S!Over(personal[t], ws[t]) /\ S!Over(personal[t], ws[t])[k] = ws[t][k]
            BY <3>1, OverIs
        <3> QED BY <2>2, <3>2
    <2> QED BY <2>4
<1> HIDE DEF ws, merged
<1> QED BY <1>1, <1>2 DEF S!LockedKeysStay, ws, personal, merged

(* What a policy may say of a key of the example, as ActionFor gives it. *)
IsSaid(example, action) == \A k \in DOMAIN example : action[<<k, example[k]>>] \in {"warn", "fail"}

(* The pre-pass of .env.example (workspace/env_example_prepass.go), of every *)
(* example, layer and policy: no key of a table of secrets is let in, nor a *)
(* probable secret a policy fails, and a failing one keeps the rest out too. *)
THEOREM NoSecretIsSupplied ==
    ASSUME NEW example, NEW effective, NEW repoSecrets, NEW action, IsSaid(example, action)
    PROVE  S!ExampleSuppliesNoSecret(example, effective, repoSecrets, action)
<1> DEFINE open == DOMAIN example \ S!SecretsExclusion(effective, repoSecrets)
           suspect == {k \in open \ DOMAIN effective.vars : example[k] # "safe"}
           failing == {k \in suspect : action[<<k, example[k]>>] = "fail"}
           answer == S!EnvExample(example, effective, repoSecrets, action, FALSE)
<1>1. answer.failing = failing /\ answer.let = IF failing = {} THEN open ELSE {}
    BY DEF S!EnvExample
<1>2. DOMAIN effective.secrets \cup S!DeclaredKeys(effective.declared.secrets) \cup DOMAIN repoSecrets
          \subseteq S!SecretsExclusion(effective, repoSecrets)
    BY DEF S!SecretsExclusion
<1>3. ASSUME NEW k \in answer.let
      PROVE  example[k] = "safe" \/ k \in DOMAIN effective.vars \/ action[<<k, example[k]>>] = "warn"
    <2>1. failing = {} /\ k \in open
        BY <1>1, <1>3
    <2>2. k \notin suspect \/ action[<<k, example[k]>>] # "fail"
        BY <2>1
    <2> QED BY <2>1, <2>2 DEF IsSaid
<1> HIDE DEF answer
<1>4. answer.let \cap (DOMAIN effective.secrets \cup S!DeclaredKeys(effective.declared.secrets) \cup DOMAIN repoSecrets) = {}
    BY <1>1, <1>2
<1>5. answer.failing # {} => answer.let = {}
    BY <1>1
<1> QED BY <1>3, <1>4, <1>5 DEF S!ExampleSuppliesNoSecret, answer

(* A directory as readDir finds it: its five fields and a file for the folder, absent or not. *)
DirFields == {"state", "owned", "worktree", "lock", "files"}
(* A directory that is made or made private keeps its files, and one file of them is replaced. *)
LEMMA FieldsStay ==
    ASSUME NEW dir, DOMAIN dir = DirFields, NEW s, NEW x, NEW folder \in DOMAIN dir.files,
           dir.files = [f \in DOMAIN dir.files |-> dir.files[f]]
    PROVE  /\ DOMAIN [dir EXCEPT !.state = s, !.owned = x] = DirFields
           /\ [dir EXCEPT !.state = s, !.owned = x].files = dir.files
           /\ [dir EXCEPT !.state = s, !.owned = x].lock = dir.lock
           /\ DOMAIN [dir EXCEPT !.state = s, !.lock = x] = DirFields
           /\ [dir EXCEPT !.state = s, !.lock = x].files = dir.files
           /\ [dir EXCEPT !.files[folder] = x].files = [dir.files EXCEPT ![folder] = x]
BY DEF DirFields

(* Update (vault/store), of a directory in any state and whatever fails on   *)
(* the way: a folder's file changes only with success and only if its       *)
(* directory could be trusted, it then holds the merge and no less, and the *)
(* other folders' files are left alone.                                     *)
THEOREM EveryUpdateIsWhole ==
    ASSUME NEW dir, DOMAIN dir = DirFields, NEW folder \in DOMAIN dir.files,
           dir.files = [f \in DOMAIN dir.files |-> dir.files[f]],
           NEW puts, NEW evicts, NEW all, NEW on
    PROVE  S!V!UpdateIsWhole(dir, folder, puts, evicts, all, on)
<1> DEFINE up == S!V!Update(dir, folder, puts, evicts, all, on)
           was == S!V!ReadData(dir.files[folder])
           merged == S!V!MergeEntries(was, puts, evicts, all)
           made == IF dir.state = "absent" THEN [dir EXCEPT !.state = "private", !.owned = TRUE] ELSE dir
           tight == [made EXCEPT !.state = "private", !.lock = IF @ = "absent" THEN "sound" ELSE @]
           done == [tight EXCEPT !.files[folder] = [state |-> "sound", keys |-> merged]]
           sees == ~(~S!V!TrustedDir(made) \/ ~S!V!CheckFile(made.lock)) /\ was # Unset
<1>1. \/ up.dir \in {dir, made, tight} /\ up.err # ""
      \/ up.dir = tight /\ merged = was /\ sees
      \/ up.dir = done /\ up.err = "" /\ sees
    <2> HIDE DEF was, merged, made, tight, done
    <2>1. up = IF dir.worktree THEN [dir |-> dir, err |-> "in a work tree"]
               ELSE IF on = "create" THEN [dir |-> dir, err |-> "unwritable"]
               ELSE IF ~S!V!TrustedDir(made) \/ ~S!V!CheckFile(made.lock) THEN [dir |-> made, err |-> "unwritable"]
               ELSE IF on = "lock" THEN [dir |-> tight, err |-> "lock timeout"]
               ELSE IF was = Unset THEN [dir |-> tight, err |-> "unwritable"]
               ELSE IF merged = was THEN [dir |-> tight, err |-> ""]
               ELSE IF on = "write" THEN [dir |-> tight, err |-> "unwritable"]
               ELSE [dir |-> done, err |-> ""]
        BY DEF S!V!Update, was, merged, made, tight, done
    <2> HIDE DEF up
    <2> QED BY <2>1
<1>2. DOMAIN made = DirFields /\ made.files = dir.files
    BY FieldsStay DEF made
<1>3. DOMAIN tight = DirFields /\ tight.files = dir.files
    <2> HIDE DEF made
    <2> QED BY <1>2, FieldsStay DEF tight
<1>4. done.files = [dir.files EXCEPT ![folder] = [state |-> "sound", keys |-> merged]]
    <2> HIDE DEF made, tight, merged
    <2> QED BY <1>3, FieldsStay DEF done
<1>5. S!V!ReadData([state |-> "sound", keys |-> merged]) = merged
    BY DEF S!V!ReadData, S!V!CheckFile
<1>6. sees => dir.state = "absent" \/ S!V!Load(dir, folder) # Unset
    BY DEF S!V!Load
<1> HIDE DEF up, was, merged, made, tight, done, sees
<1>7. up.dir.files # dir.files => up.err = "" /\ (dir.state = "absent" \/ S!V!Load(dir, folder) # Unset)
    BY <1>1, <1>2, <1>3, <1>6
<1>8. up.err = "" => S!V!ReadData(up.dir.files[folder]) = merged
    <2>1. CASE up.dir = tight /\ merged = was /\ sees
        BY <1>3, <2>1 DEF was
    <2>2. CASE up.dir = done
        BY <1>4, <1>5, <2>2
    <2> QED BY <1>1, <2>1, <2>2
<1>9. \A f \in DOMAIN dir.files \ {folder} : up.dir.files[f] = dir.files[f]
    BY <1>1, <1>2, <1>3, <1>4
<1> QED BY <1>7, <1>8, <1>9 DEF S!V!UpdateIsWhole, up, was, merged

(* Numbers have a least one.                                                 *)
LEMMA LeastOf ==
    ASSUME NEW T, T \subseteq Nat, T # {}
    PROVE  \E i \in T : \A j \in T : i <= j
<1> DEFINE R == OpToRel(<, Nat)
<1>1. IsWellFoundedOn(R, Nat)
    BY NatLessThanWellFounded
<1>2. \A x, y \in Nat : y < x => <<y, x>> \in R
    BY DEF OpToRel
<1> HIDE DEF R
<1>3. PICK x \in T : \A y \in T : <<y, x>> \notin R
    BY <1>1, WFMin
<1>4. ASSUME NEW y \in T PROVE x <= y
    <2>1. x \in Nat /\ y \in Nat
        OBVIOUS
    <2>2. ~(y < x)
        BY <1>2, <1>3, <2>1
    <2> QED BY <2>1, <2>2
<1> QED BY <1>3, <1>4

(* What a vault may say of a credential: a body with the identifier it stores, or why it has none. *)
IsBody(body) ==
    \/ body.is \in {"key-not-found", "unreachable", "error"}
    \/ body.is = "body" /\ body.id = "stored"
IsAnswer(answer) ==
    /\ answer.is \in {"key-not-found", "unreachable", "error", "entry"}
    /\ answer.is = "entry" => answer.entry # Unset /\ answer.entry.id = "stored"
NothingIsNoEntry == \A k, p, i : Unset # [kind |-> k, project |-> p, id |-> i]

(* So it answers.                                                            *)
LEMMA VaultSays ==
    ASSUME NothingIsNoEntry, NEW pool, NEW at, IsBody(pool.vault.answers[Len(pool.asked) + 1])
    PROVE  IsAnswer(S!VaultAnswer(pool, at))
<1> DEFINE said == pool.vault.answers[Len(pool.asked) + 1]
           given == [kind |-> at.kind, project |-> at.project, id |-> said.id]
<1>1. S!Says("error").is = "error"
    BY DEF S!Says
<1>2. \/ S!VaultAnswer(pool, at) = said /\ said.is # "body"
      \/ S!VaultAnswer(pool, at) = S!Says("error")
      \/ S!VaultAnswer(pool, at) = [is |-> "entry", entry |-> given] /\ said.is = "body"
    <2> HIDE DEF said
    <2>1. S!VaultAnswer(pool, at) = IF said.is = "body" THEN S!ParseProviderAuthBody(at, said) ELSE said
        BY DEF S!VaultAnswer, said
    <2>2. \/ S!ParseProviderAuthBody(at, said) = S!Says("error")
          \/ S!ParseProviderAuthBody(at, said) = [is |-> "entry", entry |-> given]
        BY DEF S!ParseProviderAuthBody
    <2> QED BY <2>1, <2>2
<1>3. given # Unset /\ given.id = said.id
    BY DEF NothingIsNoEntry
<1> HIDE DEF said, given
<1>4. IsBody(said)
    BY DEF said
<1> QED BY <1>1, <1>2, <1>3, <1>4 DEF IsAnswer, IsBody

(* What is known of a credential, and so what is written of it. *)
AnswerTo(pool, at) ==
    IF pool.vault = Unset \/ at = pool.vault.self THEN S!Says("key-not-found") ELSE pool.cache[at]
Heard(pool, at) == pool.vault = Unset \/ at = pool.vault.self \/ at \in DOMAIN pool.cache
RowOf(pool, at) ==
    [at |-> at,
     source |-> IF S!MatchFileEntry(pool.file, at) # Unset THEN "local-file"
                ELSE IF AnswerTo(pool, at).is = "entry" THEN "vault" ELSE "cli-session",
     fallback |-> S!MatchFileEntry(pool.file, at) # Unset /\ AnswerTo(pool, at).is = "entry"]

PoolFields == {"file", "vault", "asked", "cache", "unreachable", "audit"}
(* A pool after some lookups: what was asked is known, once, and every line of the log is true. *)
AskedRight(pool) ==
    /\ \A i \in DOMAIN pool.asked : pool.asked[i] \in DOMAIN pool.cache
    /\ pool.vault # Unset => \A i \in DOMAIN pool.asked : pool.asked[i] # pool.vault.self
    /\ \A i, j \in DOMAIN pool.asked : pool.asked[i] = pool.asked[j] => i = j
    /\ \A at \in DOMAIN pool.cache : IsAnswer(pool.cache[at])
RowsRight(pool) ==
    \A i \in DOMAIN pool.audit :
        LET at == pool.audit[i].at
        IN  pool.audit[i] = RowOf(pool, at) /\ Heard(pool, at) /\ AnswerTo(pool, at).is # "error"
PoolRight(pool, start, n) ==
    /\ DOMAIN pool = PoolFields /\ pool.file = start.file /\ pool.vault = start.vault
    /\ pool.asked \in Seq({pool.asked[i] : i \in DOMAIN pool.asked}) /\ Len(pool.asked) <= n
    /\ pool.audit \in Seq({pool.audit[i] : i \in DOMAIN pool.audit})
    /\ AskedRight(pool) /\ RowsRight(pool)

(* A sequence with one more at its end.                                      *)
LEMMA Appended ==
    ASSUME NEW s, s \in Seq({s[i] : i \in DOMAIN s}), NEW x
    PROVE  LET t == Append(s, x)
           IN  /\ t \in Seq({t[i] : i \in DOMAIN t}) /\ Len(t) = Len(s) + 1 /\ Len(s) \in Nat
               /\ DOMAIN s = 1 .. Len(s) /\ DOMAIN t = 1 .. Len(s) + 1 /\ t[Len(s) + 1] = x
               /\ \A i \in DOMAIN s : t[i] = s[i]
<1>1. PICK T : s \in Seq(T) /\ T = {s[i] : i \in DOMAIN s}
    OBVIOUS
<1> DEFINE t == Append(s, x)
<1>2. t \in Seq(T \cup {x})
    BY <1>1
<1>3. /\ Len(t) = Len(s) + 1 /\ Len(s) \in Nat
      /\ DOMAIN s = 1 .. Len(s) /\ DOMAIN t = 1 .. Len(s) + 1 /\ t[Len(s) + 1] = x
      /\ \A i \in DOMAIN s : t[i] = s[i]
    BY <1>1
<1>4. t \in Seq({t[i] : i \in DOMAIN t})
    <2> HIDE DEF t
    <2> QED BY <1>2
<1> QED BY <1>3, <1>4

(* A pool that learns or logs stays one.                                     *)
LEMMA FieldsOfPool ==
    ASSUME NEW pool, DOMAIN pool = PoolFields, NEW a, NEW c, NEW u
    PROVE  LET p == [pool EXCEPT !.asked = a, !.cache = c, !.unreachable = u]
               q == [pool EXCEPT !.audit = a]
           IN  /\ DOMAIN p = PoolFields /\ p.file = pool.file /\ p.vault = pool.vault /\ p.asked = a /\ p.cache = c
               /\ p.audit = pool.audit
               /\ DOMAIN q = PoolFields /\ q.file = pool.file /\ q.vault = pool.vault /\ q.asked = pool.asked
               /\ q.cache = pool.cache /\ q.audit = a
BY DEF PoolFields

(* What is known stays known, and what is written of it true. *)
Extends(more, pool) ==
    /\ more.file = pool.file /\ more.vault = pool.vault
    /\ \A at \in DOMAIN pool.cache : at \in DOMAIN more.cache /\ more.cache[at] = pool.cache[at]

(* The answer to what was heard stays, and the line of the log it gives.     *)
LEMMA KnownStays ==
    ASSUME NEW pool, NEW more, Extends(more, pool), NEW at, Heard(pool, at)
    PROVE  Heard(more, at) /\ AnswerTo(more, at) = AnswerTo(pool, at) /\ RowOf(more, at) = RowOf(pool, at)
<1>1. Heard(more, at) /\ AnswerTo(more, at) = AnswerTo(pool, at)
    BY DEF Heard, AnswerTo, Extends
<1>2. RowOf(more, at) = RowOf(pool, at)
    BY <1>1 DEF RowOf, Extends
<1> QED BY <1>1, <1>2

(* The log is still true when more is known.                                 *)
LEMMA RowsStay ==
    ASSUME NEW pool, NEW more, Extends(more, pool), more.audit = pool.audit, RowsRight(pool)
    PROVE  RowsRight(more)
<1> SUFFICES ASSUME NEW i \in DOMAIN pool.audit
             PROVE  LET at == pool.audit[i].at
                    IN  pool.audit[i] = RowOf(more, at) /\ Heard(more, at) /\ AnswerTo(more, at).is # "error"
    BY DEF RowsRight
<1> DEFINE at == pool.audit[i].at
<1>1. pool.audit[i] = RowOf(pool, at) /\ Heard(pool, at) /\ AnswerTo(pool, at).is # "error"
    BY DEF RowsRight
<1> HIDE DEF at
<1> QED BY <1>1, KnownStays DEF at

(* A question to the vault leaves the pool right, with the answer known.     *)
LEMMA VaultLookedUp ==
    ASSUME NothingIsNoEntry, NEW pool, NEW start, NEW n \in Nat, PoolRight(pool, start, n), pool.vault # Unset, NEW at,
           IsBody(pool.vault.answers[Len(pool.asked) + 1])
    PROVE  LET found == S!LookupVault(pool, at)
           IN  /\ PoolRight(found.pool, start, n + 1) /\ found.pool.audit = pool.audit
               /\ Heard(found.pool, at) /\ found.answer = AnswerTo(found.pool, at) /\ IsAnswer(found.answer)
               /\ Extends(found.pool, pool)
<1> DEFINE found == S!LookupVault(pool, at)
           answer == S!VaultAnswer(pool, at)
           away == pool.unreachable \cup (IF answer.is = "unreachable" THEN {at} ELSE {})
           asked == Append(pool.asked, at)
           cache == S!With(pool.cache, at, answer)
           more == [pool EXCEPT !.asked = asked, !.cache = cache, !.unreachable = away]
           Goal == /\ PoolRight(found.pool, start, n + 1) /\ found.pool.audit = pool.audit
                   /\ Heard(found.pool, at) /\ found.answer = AnswerTo(found.pool, at) /\ IsAnswer(found.answer)
                   /\ Extends(found.pool, pool)
               /\ Extends(found.pool, pool)
<1> SUFFICES Goal
    OBVIOUS
<1>1. found = IF at = pool.vault.self THEN [pool |-> pool, answer |-> S!Says("key-not-found")]
              ELSE IF at \in DOMAIN pool.cache THEN [pool |-> pool, answer |-> pool.cache[at]]
              ELSE [answer |-> answer, pool |-> more]
    BY DEF S!LookupVault
<1>2. PoolRight(pool, start, n + 1)
    <2>1. Len(pool.asked) \in Nat
        BY DEF PoolRight
    <2> QED BY <2>1 DEF PoolRight
<1>3. CASE at = pool.vault.self
    <2> HIDE DEF found
    <2>1. found.pool = pool /\ found.answer = S!Says("key-not-found")
        BY <1>1, <1>3
    <2>2. IsAnswer(S!Says("key-not-found"))
        BY DEF IsAnswer, S!Says
    <2> QED BY <1>2, <1>3, <2>1, <2>2 DEF Heard, AnswerTo, Extends
<1>4. CASE at # pool.vault.self /\ at \in DOMAIN pool.cache
    <2> HIDE DEF found
    <2>1. found.pool = pool /\ found.answer = pool.cache[at]
        BY <1>1, <1>4
    <2>2. IsAnswer(pool.cache[at])
        BY <1>4 DEF PoolRight, AskedRight
    <2> QED BY <1>2, <1>4, <2>1, <2>2 DEF Heard, AnswerTo, Extends
<1>5. CASE at # pool.vault.self /\ at \notin DOMAIN pool.cache
    <2>1. IsAnswer(answer)
        BY VaultSays
    <2> HIDE DEF found, answer, away, asked, cache
    <2>2. DOMAIN pool = PoolFields /\ pool.file = start.file /\ pool.vault = start.vault
        BY DEF PoolRight
    <2>3. /\ DOMAIN more = PoolFields /\ more.file = pool.file /\ more.vault = pool.vault /\ more.asked = asked
          /\ more.cache = cache /\ more.audit = pool.audit
        BY <2>2, FieldsOfPool
    <2> HIDE DEF more
    <2>4. found.pool = more /\ found.answer = answer
        BY <1>1, <1>5
    <2>5. /\ DOMAIN cache = DOMAIN pool.cache \cup {at} /\ cache[at] = answer
          /\ \A x \in DOMAIN pool.cache : cache[x] = pool.cache[x]
        <3> DEFINE old == pool.cache
        <3>1. cache = [j \in DOMAIN old \cup {at} |-> IF j = at THEN answer ELSE old[j]]
            BY DEF cache, S!With
        <3> HIDE DEF old
        <3>2. DOMAIN cache = DOMAIN old \cup {at} /\ cache[at] = answer
            BY <3>1
        <3>3. \A j \in DOMAIN old : j # at => cache[j] = old[j]
            BY <3>1
        <3> QED BY <1>5, <3>2, <3>3 DEF old
    <2>6. /\ asked \in Seq({asked[i] : i \in DOMAIN asked}) /\ Len(asked) = Len(pool.asked) + 1 /\ Len(pool.asked) \in Nat
          /\ DOMAIN pool.asked = 1 .. Len(pool.asked) /\ DOMAIN asked = 1 .. Len(pool.asked) + 1
          /\ asked[Len(pool.asked) + 1] = at /\ \A i \in DOMAIN pool.asked : asked[i] = pool.asked[i]
        <3> DEFINE old == pool.asked
        <3>1. old \in Seq({old[i] : i \in DOMAIN old})
            BY DEF PoolRight
        <3> HIDE DEF old
        <3>2. LET t == Append(old, at)
              IN  /\ t \in Seq({t[i] : i \in DOMAIN t}) /\ Len(t) = Len(old) + 1 /\ Len(old) \in Nat
                  /\ DOMAIN old = 1 .. Len(old) /\ DOMAIN t = 1 .. Len(old) + 1 /\ t[Len(old) + 1] = at
                  /\ \A i \in DOMAIN old : t[i] = old[i]
            BY <3>1, Appended
        <3>3. asked = Append(old, at)
            BY DEF asked, old
        <3> HIDE DEF asked
        <3>4. /\ asked \in Seq({asked[i] : i \in DOMAIN asked}) /\ Len(asked) = Len(old) + 1 /\ Len(old) \in Nat
              /\ DOMAIN old = 1 .. Len(old) /\ DOMAIN asked = 1 .. Len(old) + 1 /\ asked[Len(old) + 1] = at
              /\ \A i \in DOMAIN old : asked[i] = old[i]
            BY <3>2, <3>3, Zenon
        <3> QED BY <3>4 DEF old
    <2>7. AskedRight(more)
        <3>1. AskedRight(pool)
            BY DEF PoolRight
        <3>2. \A i \in DOMAIN asked : asked[i] \in DOMAIN cache
            BY <2>5, <2>6, <3>1 DEF AskedRight
        <3>3. \A i \in DOMAIN asked : asked[i] # pool.vault.self
            BY <1>5, <2>6, <3>1 DEF AskedRight
        <3>4. \A i \in DOMAIN pool.asked : asked[i] # at
            BY <1>5, <2>6, <3>1 DEF AskedRight
        <3>5. ASSUME NEW i \in DOMAIN asked, NEW j \in DOMAIN asked, asked[i] = asked[j] PROVE i = j
            <4>1. CASE i \in DOMAIN pool.asked /\ j \in DOMAIN pool.asked
                BY <2>6, <3>1, <3>5, <4>1 DEF AskedRight
            <4>2. CASE i \notin DOMAIN pool.asked \/ j \notin DOMAIN pool.asked
                BY <2>6, <3>4, <3>5, <4>2
            <4> QED BY <4>1, <4>2
        <3>6. \A x \in DOMAIN cache : IsAnswer(cache[x])
            BY <2>1, <2>5, <3>1 DEF AskedRight
        <3> QED BY <2>3, <3>2, <3>3, <3>5, <3>6 DEF AskedRight
    <2>8. RowsRight(more)
        <3>1. RowsRight(pool)
            BY DEF PoolRight
        <3>2. Extends(more, pool)
            BY <2>3, <2>5 DEF Extends
        <3> QED BY <2>3, <3>1, <3>2, RowsStay
    <2>9. PoolRight(more, start, n + 1)
        <3>1. Len(pool.asked) <= n /\ pool.audit \in Seq({pool.audit[i] : i \in DOMAIN pool.audit})
            BY DEF PoolRight
        <3>2. Len(asked) <= n + 1
            BY <2>6, <3>1
        <3> QED BY <2>2, <2>3, <2>6, <2>7, <2>8, <3>1, <3>2 DEF PoolRight
    <2>10. Heard(more, at) /\ AnswerTo(more, at) = answer
        BY <1>5, <2>3, <2>5 DEF Heard, AnswerTo, Extends
    <2> QED BY <2>1, <2>3, <2>4, <2>5, <2>9, <2>10 DEF Extends
<1> QED BY <1>3, <1>4, <1>5

(* The least index of a file is one of its. *)
LEMMA OwnIsInFile ==
    ASSUME NEW file, DOMAIN file \subseteq Nat, NEW at, S!MatchFileEntry(file, at) # Unset
    PROVE  \E i \in DOMAIN file : S!MatchFileEntry(file, at) = file[i]
<1> DEFINE same == {i \in DOMAIN file : file[i].kind = at.kind /\ file[i].project = at.project
                                        /\ at.kind = "infisical" /\ at.project # ""}
           least == CHOOSE i \in same : \A j \in same : i <= j
<1>1. same # {} /\ S!MatchFileEntry(file, at) = file[least]
    BY DEF S!MatchFileEntry
<1>2. \E i \in same : \A j \in same : i <= j
    <2>1. same \subseteq Nat
        OBVIOUS
    <2> HIDE DEF same
    <2> QED BY <1>1, <2>1, LeastOf
<1>3. least \in same
    <2> HIDE DEF same
    <2> QED BY <1>2
<1> HIDE DEF least
<1> QED BY <1>1, <1>3

(* A lookup leaves the pool right, and logs where the entry is from.         *)
LEMMA LookedUp ==
    ASSUME NothingIsNoEntry, NEW pool, NEW start, NEW n \in Nat, PoolRight(pool, start, n), NEW at,
           pool.vault # Unset => IsBody(pool.vault.answers[Len(pool.asked) + 1])
    PROVE  LET found == S!Lookup(pool, at)
               own == S!MatchFileEntry(pool.file, at)
           IN  /\ PoolRight(found.pool, start, n + 1) /\ Extends(found.pool, pool)
               /\ \/ found.err = "error" /\ found.pool.audit = pool.audit
                  \/ /\ found.err # "error" /\ found.pool.audit = Append(pool.audit, RowOf(found.pool, at))
                     /\ Heard(found.pool, at)
                     /\ found.entry = IF own # Unset THEN own
                                      ELSE IF AnswerTo(found.pool, at).is = "entry" THEN AnswerTo(found.pool, at).entry
                                      ELSE Unset
                     /\ IsAnswer(AnswerTo(found.pool, at))
<1> DEFINE found == S!Lookup(pool, at)
           own == S!MatchFileEntry(pool.file, at)
           asked == IF pool.vault = Unset THEN [pool |-> pool, answer |-> S!Says("key-not-found")] ELSE S!LookupVault(pool, at)
           held == asked.answer.is = "entry"
           row(source, fallback) == [at |-> at, source |-> source, fallback |-> fallback]
           said(given, source, fallback, err) ==
               [entry |-> given, source |-> source, err |-> err,
                pool |-> [asked.pool EXCEPT !.audit = Append(@, row(source, fallback))]]
<1>1. found = IF asked.answer.is = "error" THEN [entry |-> Unset, source |-> "none", err |-> "error", pool |-> asked.pool]
              ELSE IF own # Unset THEN said(own, "local-file", held, "")
              ELSE IF asked.answer.is = "unreachable" THEN said(Unset, "cli-session", FALSE, "unreachable")
              ELSE IF held THEN said(asked.answer.entry, "vault", FALSE, "")
              ELSE said(Unset, "cli-session", FALSE, "")
    BY DEF S!Lookup
<1>2. /\ PoolRight(asked.pool, start, n + 1) /\ asked.pool.audit = pool.audit
      /\ Heard(asked.pool, at) /\ asked.answer = AnswerTo(asked.pool, at) /\ IsAnswer(asked.answer)
      /\ Extends(asked.pool, pool)
    <2>1. CASE pool.vault = Unset
        <3>1. asked.pool = pool /\ asked.answer = S!Says("key-not-found")
            BY <2>1
        <3>2. IsAnswer(S!Says("key-not-found"))
            BY DEF IsAnswer, S!Says
        <3>3. Len(pool.asked) \in Nat
            BY DEF PoolRight
        <3> HIDE DEF asked
        <3>4. PoolRight(pool, start, n + 1)
            BY <3>3 DEF PoolRight
        <3> QED BY <2>1, <3>1, <3>2, <3>4 DEF Heard, AnswerTo, Extends
    <2>2. CASE pool.vault # Unset
        <3>1. asked = S!LookupVault(pool, at)
            BY <2>2
        <3> HIDE DEF asked
        <3> QED BY <2>2, <3>1, VaultLookedUp
    <2> QED BY <2>1, <2>2
<1> DEFINE source == IF own # Unset THEN "local-file" ELSE IF held THEN "vault" ELSE "cli-session"
           fallback == own # Unset /\ held
           given == IF own # Unset THEN own ELSE IF held THEN asked.answer.entry ELSE Unset
           audit == Append(pool.audit, row(source, fallback))
           more == [asked.pool EXCEPT !.audit = audit]
           Goal == /\ PoolRight(found.pool, start, n + 1) /\ Extends(found.pool, pool)
                   /\ \/ found.err = "error" /\ found.pool.audit = pool.audit
                      \/ /\ found.err # "error" /\ found.pool.audit = Append(pool.audit, RowOf(found.pool, at))
                         /\ Heard(found.pool, at)
                         /\ found.entry = IF own # Unset THEN own
                                          ELSE IF AnswerTo(found.pool, at).is = "entry" THEN AnswerTo(found.pool, at).entry
                                          ELSE Unset
                         /\ IsAnswer(AnswerTo(found.pool, at))
<1> SUFFICES Goal
    OBVIOUS
<1>3. \/ found.err = "error" /\ found.pool = asked.pool
      \/ /\ found.err # "error" /\ found.pool = more /\ found.entry = given /\ asked.answer.is # "error"
    <2>1. asked.pool.audit = pool.audit
        BY <1>2
    <2> DEFINE log(s, f) == [asked.pool EXCEPT !.audit = Append(@, row(s, f))]
    <2>2. found = IF asked.answer.is = "error" THEN [entry |-> Unset, source |-> "none", err |-> "error", pool |-> asked.pool]
                  ELSE IF own # Unset THEN [entry |-> own, source |-> "local-file", err |-> "", pool |-> log("local-file", held)]
                  ELSE IF asked.answer.is = "unreachable"
                       THEN [entry |-> Unset, source |-> "cli-session", err |-> "unreachable", pool |-> log("cli-session", FALSE)]
                  ELSE IF held THEN [entry |-> asked.answer.entry, source |-> "vault", err |-> "", pool |-> log("vault", FALSE)]
                  ELSE [entry |-> Unset, source |-> "cli-session", err |-> "", pool |-> log("cli-session", FALSE)]
        BY <1>1
    <2>3. more = log(source, fallback)
        BY <2>1
    <2> HIDE DEF found, asked, own, log, more
    <2>4. CASE asked.answer.is = "error"
        BY <2>2, <2>4
    <2>5. CASE asked.answer.is # "error" /\ own # Unset
        BY <2>2, <2>3, <2>5
    <2>6. CASE asked.answer.is # "error" /\ own = Unset /\ held
        BY <2>2, <2>3, <2>6
    <2>7. CASE asked.answer.is # "error" /\ own = Unset /\ ~held
        BY <2>2, <2>3, <2>7
    <2> QED BY <2>4, <2>5, <2>6, <2>7
<1> HIDE DEF found, asked
<1>4. CASE found.err = "error" /\ found.pool = asked.pool
    BY <1>2, <1>4
<1>5. CASE found.err # "error" /\ found.pool = more /\ found.entry = given /\ asked.answer.is # "error"
    <2> DEFINE p == asked.pool
    <2>1. /\ DOMAIN p = PoolFields /\ PoolRight(p, start, n + 1) /\ p.audit = pool.audit /\ Heard(p, at)
          /\ asked.answer = AnswerTo(p, at) /\ Extends(p, pool) /\ IsAnswer(asked.answer)
        BY <1>2 DEF PoolRight
    <2>2. /\ DOMAIN more = PoolFields /\ more.file = p.file /\ more.vault = p.vault /\ more.asked = p.asked
          /\ more.cache = p.cache /\ more.audit = audit
        <3> HIDE DEF p, audit
        <3>1. more = [p EXCEPT !.audit = audit]
            BY DEF p
        <3> HIDE DEF more
        <3> QED BY <2>1, <3>1 DEF PoolFields
    <2> HIDE DEF more, p
    <2>3. p.file = pool.file
        BY <2>1 DEF Extends
    <2>4. AnswerTo(more, at) = AnswerTo(p, at) /\ Heard(more, at)
        BY <2>1, <2>2 DEF AnswerTo, Heard
    <2>5. RowOf(more, at) = row(source, fallback)
        BY <2>1, <2>2, <2>3, <2>4 DEF RowOf
    <2> HIDE DEF row
    <2>6. Extends(more, pool) /\ Extends(more, p)
        BY <2>1, <2>2 DEF Extends
    <2> DEFINE log == pool.audit
    <2>7. /\ audit \in Seq({audit[i] : i \in DOMAIN audit}) /\ DOMAIN log = 1 .. Len(log) /\ Len(log) \in Nat
          /\ DOMAIN audit = 1 .. Len(log) + 1 /\ audit[Len(log) + 1] = RowOf(more, at)
          /\ \A i \in DOMAIN log : audit[i] = log[i]
        <3>1. log \in Seq({log[i] : i \in DOMAIN log})
            BY DEF PoolRight
        <3> DEFINE x == RowOf(more, at)
        <3>2. audit = Append(log, x)
            BY <2>5
        <3> HIDE DEF log, x, audit
        <3>3. LET t == Append(log, x)
              IN  /\ t \in Seq({t[i] : i \in DOMAIN t}) /\ Len(t) = Len(log) + 1 /\ Len(log) \in Nat
                  /\ DOMAIN log = 1 .. Len(log) /\ DOMAIN t = 1 .. Len(log) + 1 /\ t[Len(log) + 1] = x
                  /\ \A i \in DOMAIN log : t[i] = log[i]
            BY <3>1, Appended
        <3>4. /\ audit \in Seq({audit[i] : i \in DOMAIN audit}) /\ Len(audit) = Len(log) + 1 /\ Len(log) \in Nat
              /\ DOMAIN log = 1 .. Len(log) /\ DOMAIN audit = 1 .. Len(log) + 1 /\ audit[Len(log) + 1] = x
              /\ \A i \in DOMAIN log : audit[i] = log[i]
            BY <3>2, <3>3, Zenon
        <3> QED BY <3>4 DEF x
    <2>8. RowsRight(more)
        <3>1. RowsRight(p)
            BY <2>1 DEF PoolRight
        <3>2. ASSUME NEW i \in DOMAIN log
              PROVE  log[i] = RowOf(more, log[i].at) /\ Heard(more, log[i].at) /\ AnswerTo(more, log[i].at).is # "error"
            <4>1. log[i] = RowOf(p, log[i].at) /\ Heard(p, log[i].at) /\ AnswerTo(p, log[i].at).is # "error"
                BY <2>1, <3>1 DEF RowsRight
            <4> DEFINE x == log[i].at
            <4> HIDE DEF x
            <4>2. Heard(p, x) => Heard(more, x) /\ AnswerTo(more, x) = AnswerTo(p, x) /\ RowOf(more, x) = RowOf(p, x)
                BY <2>6, KnownStays
            <4> QED BY <4>1, <4>2 DEF x
        <3>3. RowOf(more, at).at = at
            BY DEF RowOf
        <3>4. AnswerTo(more, at).is # "error"
            BY <1>5, <2>1, <2>4
        <3> HIDE DEF audit
        <3>5. ASSUME NEW i \in DOMAIN audit
              PROVE  audit[i] = RowOf(more, audit[i].at) /\ Heard(more, audit[i].at) /\ AnswerTo(more, audit[i].at).is # "error"
            <4>1. CASE i \in DOMAIN log
                BY <2>7, <3>2, <4>1
            <4>2. CASE i = Len(log) + 1
                BY <2>4, <2>7, <3>3, <3>4, <4>2
            <4> QED BY <2>7, <4>1, <4>2
        <3> QED BY <2>2, <3>5 DEF RowsRight
    <2>9. PoolRight(more, start, n + 1)
        <3>1. AskedRight(more)
            BY <2>1, <2>2 DEF PoolRight, AskedRight
        <3> HIDE DEF audit
        <3> QED BY <2>1, <2>2, <2>7, <2>8, <3>1 DEF PoolRight
    <2>10. found.pool.audit = Append(pool.audit, RowOf(found.pool, at))
        BY <1>5, <2>2, <2>5
    <2> HIDE DEF audit
    <2> QED BY <1>5, <2>1, <2>4, <2>6, <2>9, <2>10
<1> QED BY <1>3, <1>4, <1>5

(* Tokens are given for what has an entry, of the file or else of the vault. *)
TokensRight(tokens, pool) ==
    /\ \A i \in DOMAIN pool.audit : pool.audit[i].source # "cli-session" => pool.audit[i].at \in DOMAIN tokens
    /\ \A at \in DOMAIN tokens :
          /\ Heard(pool, at) /\ RowOf(pool, at).source # "cli-session"
          /\ tokens[at] = IF S!MatchFileEntry(pool.file, at) # Unset THEN S!MatchFileEntry(pool.file, at).id ELSE "stored"
InjectedRight(acc, start, n) ==
    /\ DOMAIN acc = {"ok", "pool", "tokens"}
    /\ PoolRight(acc.pool, start, n) /\ TokensRight(acc.tokens, acc.pool)

(* The tokens are still right when more is known.                            *)
LEMMA TokensStay ==
    ASSUME NEW pool, NEW more, Extends(more, pool), more.audit = pool.audit, NEW tokens, TokensRight(tokens, pool)
    PROVE  TokensRight(tokens, more)
<1>1. \A i \in DOMAIN more.audit : more.audit[i].source # "cli-session" => more.audit[i].at \in DOMAIN tokens
    BY DEF TokensRight
<1>2. ASSUME NEW at \in DOMAIN tokens
      PROVE  /\ Heard(more, at) /\ RowOf(more, at).source # "cli-session"
             /\ tokens[at] = IF S!MatchFileEntry(more.file, at) # Unset THEN S!MatchFileEntry(more.file, at).id ELSE "stored"
    <2>1. /\ Heard(pool, at) /\ RowOf(pool, at).source # "cli-session"
          /\ tokens[at] = IF S!MatchFileEntry(pool.file, at) # Unset THEN S!MatchFileEntry(pool.file, at).id ELSE "stored"
        BY DEF TokensRight
    <2>2. Heard(more, at) /\ RowOf(more, at) = RowOf(pool, at)
        BY <2>1, KnownStays
    <2>3. more.file = pool.file
        BY DEF Extends
    <2> QED BY <2>1, <2>2, <2>3
<1> QED BY <1>1, <1>2 DEF TokensRight

(* One provider leaves pool and tokens right.                                *)
LEMMA InjectedOne ==
    ASSUME NothingIsNoEntry, NEW acc, NEW start, NEW n \in Nat, InjectedRight(acc, start, n), NEW at, NEW authenticates,
           start.vault # Unset => IsBody(start.vault.answers[Len(acc.pool.asked) + 1]),
           "stored" \in authenticates,
           S!MatchFileEntry(start.file, at) # Unset => S!MatchFileEntry(start.file, at).id \in authenticates
    PROVE  InjectedRight(S!InjectOne(acc, at, authenticates), start, n + 1)
<1> DEFINE pool == acc.pool
           found == S!Lookup(pool, at)
           own == S!MatchFileEntry(pool.file, at)
           next == S!InjectOne(acc, at, authenticates)
           p == found.pool
           Fields3 == {"ok", "pool", "tokens"}
<1>1. next = IF ~acc.ok THEN acc
             ELSE IF found.err = "error" THEN [acc EXCEPT !.ok = FALSE, !.pool = p]
             ELSE IF found.entry = Unset THEN [acc EXCEPT !.pool = p]
             ELSE IF found.entry.id \notin authenticates THEN [acc EXCEPT !.ok = FALSE, !.pool = p]
             ELSE [acc EXCEPT !.pool = p, !.tokens = S!With(@, at, found.entry.id)]
    BY DEF S!InjectOne
<1>2. PoolRight(pool, start, n) /\ DOMAIN acc = Fields3 /\ TokensRight(acc.tokens, pool)
    BY DEF InjectedRight
<1>3. pool.file = start.file /\ pool.vault = start.vault /\ Len(pool.asked) \in Nat
    BY <1>2 DEF PoolRight
<1> HIDE DEF next, pool
<1>4. /\ PoolRight(p, start, n + 1) /\ Extends(p, pool)
      /\ \/ found.err = "error" /\ p.audit = pool.audit
         \/ /\ found.err # "error" /\ p.audit = Append(pool.audit, RowOf(p, at))
            /\ Heard(p, at)
            /\ found.entry = IF own # Unset THEN own
                             ELSE IF AnswerTo(p, at).is = "entry" THEN AnswerTo(p, at).entry
                             ELSE Unset
            /\ IsAnswer(AnswerTo(p, at))
    <2>1. pool.vault # Unset => IsBody(pool.vault.answers[Len(pool.asked) + 1])
        BY <1>3 DEF pool
    <2> QED BY <1>2, <2>1, LookedUp
<1> HIDE DEF found
<1>5. CASE ~acc.ok
    <2>1. next = acc
        BY <1>1, <1>5
    <2>2. PoolRight(pool, start, n + 1)
        BY <1>2, <1>3 DEF PoolRight
    <2> QED BY <1>2, <2>1, <2>2 DEF InjectedRight, next, pool
<1>6. CASE acc.ok /\ found.err = "error"
    <2>1. next = [acc EXCEPT !.ok = FALSE, !.pool = p]
        BY <1>1, <1>6
    <2>2. DOMAIN next = Fields3 /\ next.pool = p /\ next.tokens = acc.tokens
        <3> HIDE DEF p
        <3> QED BY <1>2, <2>1
    <2>3. TokensRight(acc.tokens, p)
        <3> HIDE DEF p
        <3> QED BY <1>2, <1>4, <1>6, TokensStay DEF p
    <2> QED BY <1>4, <2>2, <2>3 DEF InjectedRight, next
<1>7. CASE acc.ok /\ found.err # "error"
    <2> DEFINE row == RowOf(p, at)
               log == pool.audit
               tokens == IF found.entry = Unset THEN acc.tokens ELSE S!With(acc.tokens, at, found.entry.id)
    <2>1. /\ Heard(p, at) /\ IsAnswer(AnswerTo(p, at)) /\ p.audit = Append(log, row) /\ p.file = pool.file
          /\ found.entry = IF own # Unset THEN own
                           ELSE IF AnswerTo(p, at).is = "entry" THEN AnswerTo(p, at).entry
                           ELSE Unset
        BY <1>4, <1>7 DEF Extends
    <2>2. row.at = at /\ (row.source = "cli-session" <=> found.entry = Unset)
        BY <2>1 DEF RowOf, IsAnswer
    <2>3. found.entry # Unset => /\ found.entry.id \in authenticates
                                 /\ found.entry.id = IF own # Unset THEN own.id ELSE "stored"
        BY <1>3, <2>1 DEF IsAnswer
    <2>4. DOMAIN next = Fields3 /\ next.pool = p /\ next.tokens = tokens
        <3> DEFINE x == S!With(acc.tokens, at, found.entry.id)
        <3> HIDE DEF p, x
        <3>1. CASE found.entry = Unset
            BY <1>1, <1>2, <1>7, <3>1
        <3>2. CASE found.entry # Unset
            <4>1. next = [acc EXCEPT !.pool = p, !.tokens = x]
                BY <1>1, <1>7, <2>3, <3>2 DEF x
            <4>2. tokens = x
                BY <3>2 DEF x
            <4> HIDE DEF tokens
            <4> QED BY <1>2, <4>1, <4>2
        <3> QED BY <3>1, <3>2
    <2>5. /\ \A x \in DOMAIN acc.tokens : x \in DOMAIN tokens
          /\ found.entry # Unset => at \in DOMAIN tokens
          /\ \A x \in DOMAIN tokens : \/ x \in DOMAIN acc.tokens /\ tokens[x] = acc.tokens[x]
                                      \/ x = at /\ found.entry # Unset /\ tokens[x] = found.entry.id
        BY DEF S!With
    <2> HIDE DEF tokens, row, p
    <2>6. /\ DOMAIN log = 1 .. Len(log) /\ Len(log) \in Nat
          /\ DOMAIN p.audit = 1 .. Len(log) + 1 /\ p.audit[Len(log) + 1] = row
          /\ \A i \in DOMAIN log : p.audit[i] = log[i]
        <3>1. log \in Seq({log[i] : i \in DOMAIN log})
            BY <1>2 DEF PoolRight
        <3> HIDE DEF log
        <3>2. LET t == Append(log, row)
              IN  /\ t \in Seq({t[i] : i \in DOMAIN t}) /\ Len(t) = Len(log) + 1 /\ Len(log) \in Nat
                  /\ DOMAIN log = 1 .. Len(log) /\ DOMAIN t = 1 .. Len(log) + 1 /\ t[Len(log) + 1] = row
                  /\ \A i \in DOMAIN log : t[i] = log[i]
            BY <3>1, Appended
        <3> QED BY <2>1, <3>2, Zenon DEF log
    <2>7. ASSUME NEW i \in DOMAIN p.audit, p.audit[i].source # "cli-session" PROVE p.audit[i].at \in DOMAIN tokens
        <3>1. CASE i \in DOMAIN log
            <4>1. log[i].at \in DOMAIN acc.tokens
                BY <1>2, <2>6, <2>7, <3>1 DEF TokensRight
            <4> QED BY <2>5, <2>6, <3>1, <4>1
        <3>2. CASE i = Len(log) + 1
            BY <2>2, <2>5, <2>6, <2>7, <3>2
        <3> QED BY <2>6, <3>1, <3>2
    <2>8. ASSUME NEW x \in DOMAIN tokens
          PROVE  /\ Heard(p, x) /\ RowOf(p, x).source # "cli-session"
                 /\ tokens[x] = IF S!MatchFileEntry(p.file, x) # Unset THEN S!MatchFileEntry(p.file, x).id ELSE "stored"
        <3>1. CASE x \in DOMAIN acc.tokens /\ tokens[x] = acc.tokens[x]
            <4>1. /\ Heard(pool, x) /\ RowOf(pool, x).source # "cli-session"
                  /\ acc.tokens[x] = IF S!MatchFileEntry(pool.file, x) # Unset THEN S!MatchFileEntry(pool.file, x).id ELSE "stored"
                BY <1>2, <3>1 DEF TokensRight
            <4>2. Heard(p, x) /\ RowOf(p, x) = RowOf(pool, x)
                BY <1>4, <4>1, KnownStays DEF p
            <4> QED BY <2>1, <3>1, <4>1, <4>2
        <3>2. CASE x = at /\ found.entry # Unset /\ tokens[x] = found.entry.id
            BY <2>1, <2>2, <2>3, <3>2 DEF row
        <3> QED BY <2>5, <3>1, <3>2
    <2>9. TokensRight(tokens, p)
        BY <2>7, <2>8 DEF TokensRight
    <2>10. PoolRight(p, start, n + 1)
        BY <1>4 DEF p
    <2> QED BY <2>4, <2>9, <2>10 DEF InjectedRight, next
<1> QED BY <1>5, <1>6, <1>7

(* The providers of a file are taken in turn. *)
LEMMA InjectedInTurn ==
    ASSUME NothingIsNoEntry, NEW pool, NEW ats, Len(ats) \in Nat, NEW authenticates, "stored" \in authenticates,
           InjectedRight([ok |-> TRUE, pool |-> pool, tokens |-> <<>>], pool, 0),
           pool.vault # Unset => \A i \in 1 .. Len(ats) : IsBody(pool.vault.answers[i]),
           \A at : S!MatchFileEntry(pool.file, at) # Unset => S!MatchFileEntry(pool.file, at).id \in authenticates
    PROVE  InjectedRight(S!InjectTokens(pool, ats, authenticates), pool, Len(ats))
<1> DEFINE L == Len(ats)
           base == [ok |-> TRUE, pool |-> pool, tokens |-> <<>>]
           spec(f) == f = [n \in 0 .. L |-> IF n = 0 THEN base ELSE S!InjectOne(f[n - 1], ats[n], authenticates)]
           upto(f, m) == f = [n \in 0 .. m |-> IF n = 0 THEN base ELSE S!InjectOne(f[n - 1], ats[n], authenticates)]
           chosen == CHOOSE f : spec(f)
           E == {m \in Nat : \E f : upto(f, m)}
           P == {m \in Nat : m <= L => InjectedRight(chosen[m], pool, m)}
<1>1. Nat \subseteq E
    <2> HIDE DEF base
    <2>1. 0 \in E
        <3> DEFINE f == [n \in 0 .. 0 |-> base]
        <3>1. upto(f, 0)
            OBVIOUS
        <3> HIDE DEF f
        <3> QED BY <3>1
    <2>2. ASSUME NEW m \in Nat, m \in E PROVE m + 1 \in E
        <3>1. PICK f : upto(f, m)
            BY <2>2
        <3> DEFINE g == [n \in 0 .. m + 1 |-> IF n = m + 1 THEN S!InjectOne(f[m], ats[m + 1], authenticates) ELSE f[n]]
        <3>2. \A n \in 0 .. m : g[n] = f[n]
            OBVIOUS
        <3>3. ASSUME NEW n \in 0 .. m + 1
              PROVE  g[n] = IF n = 0 THEN base ELSE S!InjectOne(g[n - 1], ats[n], authenticates)
            <4>1. CASE n = m + 1
                BY <3>2, <4>1
            <4>2. CASE n # m + 1 /\ n # 0
                <5>1. n \in 0 .. m /\ n - 1 \in 0 .. m
                    BY <4>2
                <5>2. f[n] = S!InjectOne(f[n - 1], ats[n], authenticates)
                    BY <3>1, <4>2, <5>1
                <5> HIDE DEF g
                <5> QED BY <3>2, <4>2, <5>1, <5>2
            <4>3. CASE n = 0
                <5>1. 0 \in 0 .. m /\ f[0] = base
                    BY <3>1
                <5> QED BY <4>3, <5>1
            <4> QED BY <4>1, <4>2, <4>3
        <3>4. g = [n \in 0 .. m + 1 |-> g[n]]
            OBVIOUS
        <3> HIDE DEF g
        <3>5. upto(g, m + 1)
            BY <3>3, <3>4
        <3> HIDE DEF upto
        <3> QED BY <3>5
    <2> HIDE DEF E
    <2> QED BY <2>1, <2>2, EveryNumber
<1>2. spec(chosen)
    <2>1. \E f : spec(f)
        <3>1. L \in E
            BY <1>1
        <3> HIDE DEF base
        <3> QED BY <3>1
    <2> HIDE DEF spec
    <2> QED BY <2>1
<1>3. S!InjectTokens(pool, ats, authenticates) = chosen[L]
    BY DEF S!InjectTokens
<1> HIDE DEF chosen
<1>4. chosen[0] = base /\ \A n \in Nat : n + 1 <= L => chosen[n + 1] = S!InjectOne(chosen[n], ats[n + 1], authenticates)
    <2> HIDE DEF base
    <2>1. chosen[0] = base
        BY <1>2
    <2>2. ASSUME NEW n \in Nat, n + 1 <= L PROVE chosen[n + 1] = S!InjectOne(chosen[n], ats[n + 1], authenticates)
        <3>1. n + 1 \in 0 .. L /\ n + 1 # 0 /\ (n + 1) - 1 = n
            BY <2>2
        <3>2. chosen[n + 1] = S!InjectOne(chosen[(n + 1) - 1], ats[n + 1], authenticates)
            BY <1>2, <3>1
        <3> QED BY <3>1, <3>2
    <2> QED BY <2>1, <2>2
<1>5. Nat \subseteq P
    <2>1. 0 \in P
        <3> HIDE DEF L
        <3> QED BY <1>4
    <2>2. ASSUME NEW n \in Nat, n \in P PROVE n + 1 \in P
        <3> SUFFICES ASSUME n + 1 <= L PROVE InjectedRight(chosen[n + 1], pool, n + 1)
            BY <2>2
        <3> DEFINE acc == chosen[n]
                   k == Len(acc.pool.asked) + 1
        <3>1. InjectedRight(acc, pool, n)
            BY <2>2
        <3>2. chosen[n + 1] = S!InjectOne(acc, ats[n + 1], authenticates)
            BY <1>4
        <3>3. k \in 1 .. L
            <4>1. acc.pool.asked \in Seq({acc.pool.asked[i] : i \in DOMAIN acc.pool.asked}) /\ Len(acc.pool.asked) <= n
                BY <3>1 DEF InjectedRight, PoolRight
            <4>2. Len(acc.pool.asked) \in Nat
                BY <4>1
            <4> QED BY <4>1, <4>2
        <3>4. pool.vault # Unset => IsBody(pool.vault.answers[k])
            BY <3>3
        <3> HIDE DEF acc
        <3> QED BY <3>1, <3>2, <3>4, InjectedOne
    <2> HIDE DEF P
    <2> QED BY <2>1, <2>2, EveryNumber
<1> QED BY <1>3, <1>5

(* injectProviderTokens over a new pool (workspace/providerauth.go,          *)
(* credentialpool.go), of every file of this machine, providers and answers *)
(* of the vault: each credential is asked for once whatever the answer and  *)
(* never of the vault that holds them, the file wins, the log's lines agree, *)
(* and a provider goes without a token only for want of an entry.  The      *)
(* vault's identifiers are told from the file's by the mark "stored".       *)
THEOREM CredentialsAreAskedForOnce ==
    ASSUME NothingIsNoEntry, NEW file, DOMAIN file \subseteq Nat, NEW vault, NEW ats, Len(ats) \in Nat,
           \A e \in S!Range(file) : e.id # "stored",
           vault # Unset => \A i \in 1 .. Len(ats) : IsBody(vault.answers[i])
    PROVE  S!CredentialsAreAskedOnce(S!NewPool(file, vault), ats)
<1> DEFINE pool == S!NewPool(file, vault)
           ids == {e.id : e \in S!Range(pool.file)} \cup {"stored"}
           after == S!InjectTokens(pool, ats, ids)
           audit == after.pool.audit
           asked == after.pool.asked
           tokens == after.tokens
<1>1. /\ pool.file = file /\ pool.vault = vault /\ pool.asked = <<>> /\ pool.cache = <<>> /\ pool.audit = <<>>
      /\ DOMAIN pool = PoolFields
    BY DEF S!NewPool, PoolFields
<1>2. \A at : S!MatchFileEntry(file, at) # Unset =>
          S!MatchFileEntry(file, at).id \in ids /\ S!MatchFileEntry(file, at).id # "stored"
    BY <1>1, OwnIsInFile DEF S!Range
<1>3. InjectedRight([ok |-> TRUE, pool |-> pool, tokens |-> <<>>], pool, 0)
    <2> HIDE DEF pool
    <2>1. PoolRight(pool, pool, 0)
        BY <1>1 DEF PoolRight, AskedRight, RowsRight
    <2>2. TokensRight(<<>>, pool)
        BY <1>1 DEF TokensRight
    <2> QED BY <2>1, <2>2 DEF InjectedRight
<1>4. InjectedRight(after, pool, Len(ats))
    <2>1. "stored" \in ids
        OBVIOUS
    <2> HIDE DEF pool, ids
    <2> QED BY <1>1, <1>2, <1>3, <2>1, InjectedInTurn
<1> HIDE DEF after
<1>5. /\ AskedRight(after.pool) /\ RowsRight(after.pool) /\ TokensRight(tokens, after.pool)
      /\ after.pool.file = file /\ after.pool.vault = vault
    BY <1>1, <1>4 DEF InjectedRight, PoolRight
<1>6. audit \in Seq({audit[i] : i \in DOMAIN audit})
    BY <1>4 DEF InjectedRight, PoolRight
<1>7. \A i \in DOMAIN audit : audit[i] = RowOf(after.pool, audit[i].at)
    BY <1>5 DEF RowsRight
<1>8. ASSUME NEW at \in DOMAIN S!AuditMap(audit)
      PROVE  S!AuditMap(audit)[at] = RowOf(after.pool, at) /\ \E i \in DOMAIN audit : audit[i].at = at
    <2> DEFINE same == {i \in DOMAIN audit : audit[i].at = at}
               last == CHOOSE i \in same : \A j \in same : j <= i
               L == Len(audit)
               down == {L - i : i \in same}
    <2>1. PICK i \in DOMAIN audit : audit[i].at = at
        BY DEF S!AuditMap, S!Range
    <2>2. L \in Nat /\ DOMAIN audit = 1 .. L
        BY <1>6
    <2>3. S!AuditMap(audit)[at] = audit[last]
        BY DEF S!AuditMap
    <2> HIDE DEF audit, L
    <2>4. down \subseteq Nat /\ down # {}
        BY <2>1, <2>2
    <2>5. PICK d \in down : \A e \in down : d <= e
        <3> HIDE DEF down
        <3> QED BY <2>4, LeastOf
    <2>6. \E m \in same : \A j \in same : j <= m
        <3>1. PICK m \in same : d = L - m
            BY <2>5
        <3>2. ASSUME NEW j \in same PROVE j <= m
            <4>1. L - j \in down /\ j \in Nat /\ m \in Nat
                BY <2>2, <3>1
            <4>2. L - m <= L - j
                BY <2>5, <3>1, <4>1
            <4> QED BY <2>2, <4>1, <4>2
        <3> QED BY <3>1, <3>2
    <2>7. last \in same
        <3> HIDE DEF same
        <3> QED BY <2>6
    <2> HIDE DEF last
    <2> QED BY <1>7, <2>1, <2>3, <2>7 DEF audit
<1> DEFINE p == after.pool
<1>9. ASSUME NEW at \in DOMAIN S!AuditMap(audit)
      PROVE  LET source == S!AuditMap(audit)[at].source
             IN  /\ S!MatchFileEntry(pool.file, at) # Unset <=> source = "local-file"
                 /\ source = "vault" <=> at \in DOMAIN tokens /\ tokens[at] = "stored"
                 /\ source = "cli-session" <=> at \notin DOMAIN tokens
    <2> DEFINE own == S!MatchFileEntry(file, at)
               source == S!AuditMap(audit)[at].source
    <2>1. PICK i \in DOMAIN audit : audit[i].at = at
        BY <1>8
    <2>2. source = RowOf(p, at).source /\ audit[i].source = source
        BY <1>7, <1>8, <2>1
    <2>3. /\ source = IF own # Unset THEN "local-file" ELSE IF AnswerTo(p, at).is = "entry" THEN "vault" ELSE "cli-session"
        BY <1>5, <2>2 DEF RowOf
    <2>4. source # "cli-session" => at \in DOMAIN tokens
        BY <1>5, <2>1, <2>2 DEF TokensRight
    <2>5. at \in DOMAIN tokens => source # "cli-session" /\ tokens[at] = IF own # Unset THEN own.id ELSE "stored"
        BY <1>5, <2>2 DEF TokensRight
    <2>6. own # Unset => own.id # "stored"
        BY <1>2
    <2> HIDE DEF own, source, audit, tokens
    <2>7. /\ own # Unset <=> source = "local-file"
          /\ source = "vault" <=> at \in DOMAIN tokens /\ tokens[at] = "stored"
          /\ source = "cli-session" <=> at \notin DOMAIN tokens
        BY <2>3, <2>4, <2>5, <2>6
    <2> QED BY <1>1, <2>7 DEF own, source
<1>10. /\ \A i, j \in DOMAIN asked : asked[i] = asked[j] => i = j
       /\ pool.vault # Unset => \A i \in DOMAIN asked : asked[i] # pool.vault.self
    BY <1>1, <1>5 DEF AskedRight
<1>11. \A i, j \in DOMAIN audit : audit[i].at = audit[j].at => audit[i] = audit[j]
    <2> HIDE DEF audit
    <2> QED BY <1>7
<1> QED
    <2> DEFINE Right(x) ==
                   /\ \A i, j \in DOMAIN x.pool.asked : x.pool.asked[i] = x.pool.asked[j] => i = j
                   /\ pool.vault # Unset => \A i \in DOMAIN x.pool.asked : x.pool.asked[i] # pool.vault.self
                   /\ \A i, j \in DOMAIN x.pool.audit : x.pool.audit[i].at = x.pool.audit[j].at => x.pool.audit[i] = x.pool.audit[j]
                   /\ \A at \in DOMAIN S!AuditMap(x.pool.audit) :
                          LET source == S!AuditMap(x.pool.audit)[at].source
                          IN  /\ S!MatchFileEntry(pool.file, at) # Unset <=> source = "local-file"
                              /\ source = "vault" <=> at \in DOMAIN x.tokens /\ x.tokens[at] = "stored"
                              /\ source = "cli-session" <=> at \notin DOMAIN x.tokens
    <2> HIDE DEF pool
    <2>1. Right(after)
        BY <1>9, <1>10, <1>11
    <2>2. (\A x \in {S!InjectTokens(pool, ats, ids)} : Right(x)) => S!CredentialsAreAskedOnce(pool, ats)
        BY DEF S!CredentialsAreAskedOnce
    <2> HIDE DEF Right, ids
    <2> QED BY <2>1, <2>2 DEF after, pool
=============================================================================
