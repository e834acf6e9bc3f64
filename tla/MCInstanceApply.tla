--------------------------- MODULE MCInstanceApply ---------------------------
(* Two repositories, one of them the overlay's, and a worktree. *)
EXTENDS InstanceApply
CONSTANTS a, b, w, f, m

WorktreeRepo == [x \in Worktree |-> a]
Configs ==
    {[repos |-> {a}, content |-> TRUE, trust |-> TRUE],
     [repos |-> {}, content |-> FALSE, trust |-> FALSE]}
=============================================================================
