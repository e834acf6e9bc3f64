------------------------------ MODULE MCReviews ------------------------------
(* Instances of Reviews small enough for TLC.                              *)
EXTENDS Reviews, TLC

CONSTANTS x1, x2, c1

(* Each pull request's record in a file of its own, or both in one: the    *)
(* file's name is cut at forty letters.                                    *)
OwnHandles == [p \in PR |-> p]
OneHandle == [p \in PR |-> 1]

(* Two heads of the oldest pull request, one of any other.                 *)
TwoHeads == [p \in PR |-> IF p = 1 THEN 2 ELSE 1]
=============================================================================
