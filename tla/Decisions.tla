------------------------------ MODULE Decisions ------------------------------
(***************************************************************************)
(* The decisions that are functions of what was read before, beside the    *)
(* dispatches of Delegation: in the world in which none was made yet, one   *)
(* question is put, of a topic, and its answer has to be right.             *)
(***************************************************************************)
EXTENDS Delegation, Asking, TLC

CONSTANTS TokenFromEnv, DocBudget, Nameable

S == INSTANCE SecretQuestions
I == INSTANCE InstallQuestions
C == INSTANCE CommandQuestions

-----------------------------------------------------------------------------
(* A policy with two authorities this niwa knows, and a request.             *)
AskPolicy ==
    /\ Taken("policy")
    /\ \E l \in {[machine |-> Unset, overlay |-> Unset, workspace |-> Strict],
                 [machine |-> 1, overlay |-> Unset, workspace |-> Unset],
                 [machine |-> 1, overlay |-> Strict, workspace |-> 1],
                 [machine |-> Unset, overlay |-> Unset, workspace |-> Unset]},
          m, w \in {Unset} \cup SUBSET Known, o \in {Unset} \cup SUBSET (Known \cap {"merge"}), R, G \in SUBSET Known,
          lr \in {Unset, Autonomous, 1}, roles \in SUBSET {"lead"} :
           Put([policy |-> [level |-> l, ceiling |-> [machine |-> m, overlay |-> o, workspace |-> w], roles |-> [lead |-> R]],
                request |-> [level |-> lr, grants |-> G, roles |-> roles]])

(* A decision point of a level.                                              *)
AskDecide ==
    /\ Taken("decide")
    /\ \E l \in Level, d \in {Unset} \cup [decider : Level, exclusion : BOOLEAN] : Put([level |-> l, declared |-> d])

(* A record as it may be stored, of this niwa or another.                    *)
Entries == [authority : Known \cup {"unheard"}, sources : SUBSET {"dispatch", "role", "strange"}]
AskRecord ==
    /\ Taken("record")
    /\ \E raw \in [schema : {"this", "later", "other"}, id : {Unset, "id"}, broken : BOOLEAN, record : BOOLEAN,
                   parent : {Unset}, parentSource : {"cwd", "strange"}, level : {Autonomous}, roles : {{}, {"lead"}},
                   grant : {<<>>} \cup [1 .. 1 -> Entries] \cup [1 .. 2 -> Entries]],
          p \in Policies :
           /\ raw.schema # "this" \/ raw.broken => DOMAIN raw.grant \in {{}, {1}}
           /\ Put([raw |-> raw, policy |-> p])

(* Lineage files that point at each other, and the entry a walk begins at.   *)
Lookups == [lookup : {"entry"}, parent : Id \cup {NoId}]
           \cup [lookup : {"unreadable", "later", "absent"}, parent : {NoId}]
AskWalk ==
    /\ Taken("walk")
    /\ \E id \in Id, get \in [Id -> Lookups] : get[id].lookup = "entry" /\ Put([id |-> id, get |-> get])

(* What a dispatch finds of its dispatcher: the record of the instance an    *)
(* anchor names, or of the one it runs in, if there is one.                  *)
Found(anchored, inside) == CASE anchored -> "anchor" [] ~anchored /\ inside -> "cwd" [] OTHER -> "none"
AskTrust ==
    /\ Taken("trust")
    /\ LET a == CHOOSE d \in Past : TRUE
           b == CHOOSE d \in Id : d # a
           source(i) == IF i.parent = NoId THEN "none" ELSE Found(i.anchored, i.cwdInInstance)
           sound(i) == i.parentSource = source(i) /\ (i.parent # NoId => source(i) # "none")
       IN  \E i \in [sessionVar : {NoId, a}, anchored : BOOLEAN, cwdInInstance : BOOLEAN, newestMapped : {NoId, a, b},
                     parent : {NoId, a}, parentSource : {"cwd", "anchor", "none"}, rootMapped : {NoId, b}, declared : {NoId},
                     parentEntry : [id : {NoId, a, b}, principal : [name : {a}, trust : {"observed", "handed"}]]] :
               sound(i) /\ Put([in |-> i])

AskAuthority == AskPolicy \/ AskDecide \/ AskRecord \/ AskWalk \/ AskTrust

(* A policy's layers only narrow and a refusal has a reason; a decision is   *)
(* the strictest of those declared; an unreadable record holds nothing; a    *)
(* walk is a path and inherited trust never grows (internal/authority,       *)
(* internal/lineage).                                                        *)
AuthorityDecisions ==
    LET q == question.put
    IN  /\ IsAsked("policy") => PolicyOnlyNarrows(q.policy, q.request) /\ RefusalIsNeeded(q.policy, q.request)
        /\ IsAsked("decide") => DecisionIsStrictest(q.level, q.declared)
        /\ IsAsked("record") => UnreadHoldsNothing(q.raw, <<"cut", "merge">>, q.policy)
        /\ IsAsked("walk") => WalkIsAPath(q.id, q.get)
        /\ IsAsked("trust") => TrustIsNotGained(q.in)

(* No secret is made up, asked for twice or served after the vault took it   *)
(* back, and the highest layer that has a key decides it (internal/vault,    *)
(* workspace/override.go, workspace/materialize.go).                         *)
SecretDecisions == S!IsRight(question.put)

(* What an apply puts into a tree for its agents is theirs and whole, and    *)
(* what somebody else has there stays (internal/agentplan, workspace/        *)
(* applyplan.go, pluginskills.go, payload.go, internal/gitexclude).          *)
InstallDecisions == I!IsRight(question.put)

(* Nothing goes without a home or a name: work that no remote keeps, what a   *)
(* command was not pointed at, a workspace somebody is in, what the developer  *)
(* put into Codex's file, and what an init did not make itself (workspace/     *)
(* durable.go, scan.go, destroy.go, hook_target.go, codex_trust.go,            *)
(* cli/destroy.go, worktree_destroy_resolve.go, init.go).                      *)
CommandDecisions == C!IsRight(question.put)

-----------------------------------------------------------------------------
DecisionsInit == Init /\ question = NoQuestion

(* Questions are put in one state of the dispatches, the simplest. *)
TakeTopic ==
    /\ policy = CHOOSE p \in Policies : TRUE
    /\ events = 0 /\ \A d \in Id \ Past : pc[d] = "idle"
    /\ \A d \in Past : rec[d] = CHOOSE r \in PastRecords : TRUE
    /\ TakeOneOf({"policy", "decide", "record", "walk", "trust"} \cup S!Topics \cup I!Topics \cup C!Topics)
    /\ UNCHANGED vars

DecisionsNext ==
    \/ TakeTopic
    \/ AskAuthority /\ UNCHANGED vars
    \/ S!Ask /\ UNCHANGED vars
    \/ I!Ask /\ UNCHANGED vars
    \/ C!Ask /\ UNCHANGED vars
    \/ question = NoQuestion /\ Next /\ UNCHANGED question

DecisionsSpec == DecisionsInit /\ [][DecisionsNext]_<<vars, question>>
=============================================================================
