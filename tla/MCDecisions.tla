----------------------------- MODULE MCDecisions -----------------------------
(* A dispatch of the past and two that are made now.                        *)
EXTENDS Decisions
CONSTANTS d1, d2, d3

PolicyWith(grants) ==
    [level |-> [l \in Layer |-> Unset],
     ceiling |-> [l \in Layer |-> IF l = "workspace" THEN {"merge"} ELSE Unset],
     roles |-> [lead |-> grants]]
WithMerge == {PolicyWith({"merge"})}
TwoPolicies == {PolicyWith({"merge"}), PolicyWith({})}

RequestOf(roles) == [level |-> Unset, grants |-> {}, roles |-> roles]
LeadRequest == {RequestOf({"lead"})}

PlainNames == {"niwa", "s", "t"}

Interchangeable == Permutations(Id \ Past)
=============================================================================
