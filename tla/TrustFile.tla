------------------------------ MODULE TrustFile ------------------------------
(***************************************************************************)
(* What the trust lock promises: every update of Claude Code's user config *)
(* happens at one instant, on the file as it is at that instant, or not at *)
(* all.  TrustLock implements this.                                        *)
(***************************************************************************)
EXTENDS TrustEntry

VARIABLES
    entries,   \* [Key -> Entry]: the projects of the config file
    outcome    \* [Call -> Outcome]: what each call reported

fileVars == <<entries, outcome>>

Init ==
    /\ entries \in [Key -> Entry]
    /\ outcome = [c \in Call |-> "pending"]

Update(c) ==
    LET k == KeyOf[c] IN
    /\ outcome[c] = "pending"
    /\ Parses(Request[c], entries[k])
    /\ entries' = [entries EXCEPT ![k] = Updated(Request[c], @)]
    /\ outcome' = [outcome EXCEPT ![c] = Reported(Request[c], entries[k])]

(* A lock that is busy, a file that cannot be read or written; or a process *)
(* that dies, and all its calls with it.                                    *)
Skip(calls) ==
    /\ \A c \in calls : outcome[c] = "pending"
    /\ \E o \in NotDone : outcome' = [c \in Call |-> IF c \in calls THEN o ELSE outcome[c]]
    /\ UNCHANGED entries

Next ==
    \/ \E c \in Call : Update(c)
    \/ \E calls \in SUBSET Call : Skip(calls)

Spec == Init /\ [][Next]_fileVars
=============================================================================
