----------------------------- MODULE TrustEntry ------------------------------
(***************************************************************************)
(* What the package claudetrust does to the entries of Claude Code's user  *)
(* config: projects[key].hasTrustDialogAccepted, one key per directory.    *)
(* Everything else in the file is written back as it was read and is left  *)
(* out, and so is a file that does not parse as a whole.                   *)
(***************************************************************************)

CONSTANTS
    Key,       \* the directories that may be trusted
    Call,      \* the updates of the file: niwa's and Claude Code's own
    KeyOf,     \* [Call -> Key]: the entry a call is about
    Request    \* [Call -> Operation]: what the call does to it

(* An entry is absent, an object without the flag, with it false or true,  *)
(* or not a JSON object at all.                                            *)
Entry == {"absent", "unset", "false", "true", "malformed"}

(* What a recorded grant says niwa added: the entry, or only the flag.     *)
Mode == {"created", "flag-only"}
NoGrant == "no grant"

EnsureOp == [kind : {"ensure"}, prior : Mode \cup {NoGrant}]
WithdrawOp == [kind : {"withdraw"}, how : {"destroy", "retract"}, mode : Mode]
(* Claude Code's own write of an entry: a person answers the trust prompt, *)
(* or Claude Code stores its data for the project.                         *)
ClaudeOp == [kind : {"claude"}, entry : Entry \ {"malformed"}]
Operation == EnsureOp \cup WithdrawOp \cup ClaudeOp

RequestAssumption == KeyOf \in [Call -> Key] /\ Request \in [Call -> Operation]
ASSUME RequestAssumption

(* An entry that is not an object is never replaced by niwa. *)
Parses(op, e) == op.kind = "claude" \/ e # "malformed"

(* The entry a withdrawal leaves. *)
Withdrawn(op, e) ==
    IF e = "absent" THEN "absent"
    ELSE IF op.how = "destroy" /\ op.mode = "created" THEN "absent"
    ELSE "unset"

(* The entry a call leaves, of an entry that parses. *)
Updated(op, e) ==
    CASE op.kind = "ensure"   -> "true"
      [] op.kind = "withdraw" -> Withdrawn(op, e)
      [] op.kind = "claude"   -> op.entry

(* The grant an Ensure returns: none it did not have for an entry somebody *)
(* else trusts, the whole entry when it makes one, otherwise only the flag *)
(* unless the instance's first grant said more.                            *)
Granted(op, e) ==
    CASE e = "true"   -> op.prior
      [] e = "absent" -> "created"
      [] OTHER        -> IF op.prior = NoGrant THEN "flag-only" ELSE op.prior

(* What a call that went through reports. *)
Reported(op, e) == IF op.kind = "ensure" THEN Granted(op, e) ELSE "done"

(* Nothing was written: for want of the lock, waited for or not, of a file *)
(* that parses, or of a process that lives.                                *)
NotDone == {"busy", "skipped"}

Outcome == Mode \cup NotDone \cup {NoGrant, "pending", "done"}
=============================================================================
