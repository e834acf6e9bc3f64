----------------------------- MODULE MCTrustLock -----------------------------
(* Instances of TrustLock small enough for TLC.                            *)
EXTENDS TrustLock, TLC

CONSTANTS niwa1, niwa2, claude, e1, e2, w1, c1, k1, k2

ensure == [kind |-> "ensure", prior |-> NoGrant]
reensure == [kind |-> "ensure", prior |-> "created"]
destroy == [kind |-> "withdraw", how |-> "destroy", mode |-> "created"]
store == [kind |-> "claude", entry |-> "unset"]

(* Two calls of one niwa process, one of another, and Claude Code: two of   *)
(* them about one instance's entry.                                         *)
FourKeys == e1 :> k1 @@ e2 :> k2 @@ w1 :> k1 @@ c1 :> k2
FourRequests == e1 :> ensure @@ e2 :> reensure @@ w1 :> destroy @@ c1 :> store
FourProcesses == e1 :> niwa1 @@ e2 :> niwa1 @@ w1 :> niwa2 @@ c1 :> claude

(* Two calls of the one niwa process there is, and Claude Code. *)
TakeoverKeys == e1 :> k1 @@ e2 :> k2 @@ c1 :> k2
TakeoverRequests == e1 :> ensure @@ e2 :> reensure @@ c1 :> store
TakeoverProcesses == e1 :> niwa1 @@ e2 :> niwa1 @@ c1 :> claude
=============================================================================
