------------------------------- MODULE Destroy ------------------------------
(***************************************************************************)
(* `niwa destroy <instance>': runDestroyInstance in cli/destroy.go, with   *)
(* the preflight of cli/destroy_preflight.go and the removal of the owning *)
(* sessions in cli/destroy_session.go.                                     *)
(*                                                                         *)
(* Claude Code's sessions are listed once, before any prompt, and that one *)
(* listing also decides, after the prompt, which of the instance's mapped  *)
(* sessions are removed, which are settled as already gone and which are   *)
(* kept.  The directory goes last.                                         *)
(***************************************************************************)
EXTENDS InstanceStore

VARIABLES
    opts,     \* [Destroyer -> options]: --force and --keep-session
    listing,  \* [Destroyer -> Listing]: what the one listing reported
    owners,   \* [Destroyer -> SUBSET Mapping]: mappings still to be dealt with
    owner     \* [Destroyer -> Mapping or NoMapping]: the one it is settling

destroyVars == <<opts, listing, owners, owner>>

(* The listing as it was read, once: not asked for yet, failed, or what    *)
(* Claude Code said.  Another agent's sessions are not in it.              *)
Listing == [state: {"not read", "failed", "read"},
            running: SUBSET Session, stopped: SUBSET Session]
NotRead == [state |-> "not read", running |-> {}, stopped |-> {}]

(* listClaudeSessionsOnce: what the lister gives now.                      *)
ListingNow(d) ==
    IF listing[d].state # "not read" THEN {listing[d]}
    ELSE {[state |-> "failed", running |-> {}, stopped |-> {}],
          [state |-> "read",
           running |-> {s \in Session \ ActivitySession : sess[s] = "running"},
           stopped |-> {s \in Session \ ActivitySession : sess[s] = "idle"}]}

DestroyPC == {"start", "resolved", "list", "keep?", "confirm", "owners", "each",
              "run", "settle", "remove", "done"}

DestroyTypeOK ==
    /\ opts \in [Destroyer -> [force: BOOLEAN, keepSession: BOOLEAN]]
    /\ listing \in [Destroyer -> Listing]
    /\ owners \in [Destroyer -> SUBSET Mapping]
    /\ owner \in [Destroyer -> Mapping \cup {NoMapping}]

(* owningClaudeMappings: every Claude mapping that names the instance. *)
OwningMappings(p) == {mapping[s] : s \in MappedTo(p) \ ActivitySession}

-----------------------------------------------------------------------------
(* The instance is chosen (by name, by the picker, or as the one the       *)
(* command runs in) and validated.                                         *)
ChooseInstance(d, p) ==
    /\ pc[d] = "start"
    /\ disk[p] = "instance"
    /\ \E o \in [force: BOOLEAN, keepSession: BOOLEAN] : opts' = [opts EXCEPT ![d] = o]
    /\ at' = [at EXCEPT ![d] = p]
    /\ Goto(d, "resolved")
    /\ UNCHANGED <<worldVars, listing, owners, owner, ran>>

(* Mutant: the lock is taken whoever holds it. *)
TakeHeldDestroyLock(d) ==
    /\ pc[d] = "resolved"
    /\ Lock(d, at[d])
    /\ Goto(d, "list")
    /\ UNCHANGED <<fileVars, crashes, at, destroyVars, ran>>

TakeDestroyLock(d) ==
    /\ pc[d] = "resolved"
    /\ LockFree(at[d])
    /\ Lock(d, at[d])
    /\ Goto(d, "list")
    /\ UNCHANGED <<fileVars, crashes, at, destroyVars, ran>>

DestroyRefusesHeld(d) ==
    /\ pc[d] = "resolved"
    /\ ~LockFree(at[d])
    /\ Goto(d, "done")
    /\ at' = [at EXCEPT ![d] = None]
    /\ UNCHANGED <<worldVars, destroyVars, ran>>

(* destroyPreflight lists only for an instance with a mapped session. *)
ListSessions(d) ==
    /\ pc[d] = "list"
    /\ \E l \in IF OwningMappings(at[d]) = {} THEN {listing[d]} ELSE ListingNow(d) :
           listing' = [listing EXCEPT ![d] = l]
    /\ Goto(d, "keep?")
    /\ UNCHANGED <<worldVars, at, opts, owners, owner, ran>>

(* What keeps the instance: a mapped session listed as running, a listing  *)
(* that failed, or (SomethingKeeps) the pre-removal command.               *)
SessionKeeps(d) ==
    LET owned == {m.sess : m \in OwningMappings(at[d])}
    IN owned # {} /\ (listing[d].state = "failed" \/ owned \cap listing[d].running # {})

(* Mutant: what keeps the instance is reported and not acted on. *)
PassAnyway(d) ==
    /\ pc[d] = "keep?"
    /\ Goto(d, IF opts[d].force THEN "owners" ELSE "confirm")
    /\ UNCHANGED <<worldVars, at, destroyVars, ran>>

PassPreflight(d) ==
    /\ pc[d] = "keep?"
    /\ SessionKeeps(d) => opts[d].force
    /\ Goto(d, IF opts[d].force THEN "owners" ELSE "confirm")
    /\ UNCHANGED <<worldVars, at, destroyVars, ran>>

SomethingKeeps(d) ==
    /\ pc[d] = "keep?"
    /\ ~opts[d].force
    /\ Return(d)
    /\ UNCHANGED <<fileVars, crashes, destroyVars, ran>>

(* The scan finds nothing to lose, or the user types the name back. *)
Confirm(d) ==
    /\ pc[d] = "confirm"
    /\ Goto(d, "owners")
    /\ UNCHANGED <<worldVars, at, destroyVars, ran>>

Abort(d) ==
    /\ pc[d] = "confirm"
    /\ Return(d)
    /\ UNCHANGED <<fileVars, crashes, destroyVars, ran>>

-----------------------------------------------------------------------------
(* removeOwningSessionsListed.  Without a listing every owner is left in   *)
(* place.                                                                  *)
ReadOwners(d) ==
    /\ pc[d] = "owners"
    /\ ~opts[d].keepSession /\ OwningMappings(at[d]) # {}
    /\ \E l \in ListingNow(d) :
           /\ listing' = [listing EXCEPT ![d] = l]
           /\ owners' = [owners EXCEPT ![d] =
                  IF l.state = "failed" THEN {} ELSE OwningMappings(at[d])]
    /\ Goto(d, "each")
    /\ UNCHANGED <<worldVars, at, opts, owner, ran>>

(* --keep-session, or no session owns the instance. *)
NoOwners(d) ==
    /\ pc[d] = "owners"
    /\ opts[d].keepSession \/ OwningMappings(at[d]) = {}
    /\ Goto(d, "remove")
    /\ UNCHANGED <<worldVars, at, destroyVars, ran>>

(* An owner listed as running is kept, with its mapping. *)
KeepRunningOwner(d, m) ==
    /\ pc[d] = "each"
    /\ m \in owners[d]
    /\ m.sess \in listing[d].running
    /\ owners' = [owners EXCEPT ![d] = @ \ {m}]
    /\ UNCHANGED <<worldVars, at, pc, opts, listing, owner, ran>>

(* Mutant: only a stopped session counts as listed. *)
OwnerNotStopped(d, m) ==
    /\ pc[d] = "each"
    /\ m \in owners[d]
    /\ m.sess \notin listing[d].stopped
    /\ owners' = [owners EXCEPT ![d] = @ \ {m}]
    /\ owner' = [owner EXCEPT ![d] = m]
    /\ Goto(d, "run")
    /\ UNCHANGED <<worldVars, at, opts, listing, ran>>

(* An owner that was not listed is settled as already gone. *)
OwnerAlreadyGone(d, m) ==
    /\ pc[d] = "each"
    /\ m \in owners[d]
    /\ m.sess \notin listing[d].running \cup listing[d].stopped
    /\ owners' = [owners EXCEPT ![d] = @ \ {m}]
    /\ owner' = [owner EXCEPT ![d] = m]
    /\ Goto(d, "run")
    /\ UNCHANGED <<worldVars, at, opts, listing, ran>>

(* `claude rm' removes a stopped owner.  One that runs again by now it     *)
(* refuses, as it may any other.                                           *)
RemoveOwner(d, m) ==
    /\ pc[d] = "each"
    /\ m \in owners[d]
    /\ m.sess \in listing[d].stopped
    /\ sess[m.sess] # "running"
    /\ sess' = [sess EXCEPT ![m.sess] = IF @ = "idle" THEN "gone" ELSE @]
    /\ owners' = [owners EXCEPT ![d] = @ \ {m}]
    /\ owner' = [owner EXCEPT ![d] = m]
    /\ Goto(d, "run")
    /\ UNCHANGED <<disk, retain, aged, lock, mapping, launch, home, crashes, at,
                   opts, listing, ran>>

RemoveOwnerFails(d, m) ==
    /\ pc[d] = "each"
    /\ m \in owners[d]
    /\ m.sess \in listing[d].stopped
    /\ owners' = [owners EXCEPT ![d] = @ \ {m}]
    /\ UNCHANGED <<worldVars, at, pc, opts, listing, owner, ran>>

RunOwnerOnReap(d) ==
    /\ pc[d] = "run"
    /\ \E ok \in BOOLEAN : ran' = [ran EXCEPT ![d] = ok]
    /\ Goto(d, "settle")
    /\ UNCHANGED <<worldVars, at, destroyVars>>

SettleOwner(d) ==
    /\ pc[d] = "settle"
    /\ Settled(owner[d], ran[d])
    /\ owner' = [owner EXCEPT ![d] = NoMapping]
    /\ ran' = [ran EXCEPT ![d] = FALSE]
    /\ Goto(d, "each")
    /\ UNCHANGED <<disk, retain, aged, lock, launch, sess, home, crashes, at,
                   opts, listing, owners>>

OwnersDone(d) ==
    /\ pc[d] = "each"
    /\ owners[d] = {}
    /\ Goto(d, "remove")
    /\ UNCHANGED <<worldVars, at, destroyVars, ran>>

RemoveInstance(d) ==
    /\ pc[d] = "remove"
    /\ \E left \in RemovalOutcome(at[d]) : RemovedTo(at[d], left)
    /\ Return(d)
    /\ UNCHANGED <<mapping, launch, sess, home, crashes, destroyVars, ran>>

DestroyStep(d) ==
    \/ \E p \in Path : ChooseInstance(d, p)
    \/ TakeDestroyLock(d) \/ DestroyRefusesHeld(d)
    \/ ListSessions(d) \/ PassPreflight(d) \/ SomethingKeeps(d)
    \/ Confirm(d) \/ Abort(d) \/ ReadOwners(d) \/ NoOwners(d)
    \/ \E m \in owners[d] : \/ KeepRunningOwner(d, m) \/ OwnerAlreadyGone(d, m)
                            \/ RemoveOwner(d, m) \/ RemoveOwnerFails(d, m)
    \/ OwnersDone(d) \/ RunOwnerOnReap(d) \/ SettleOwner(d)
    \/ RemoveInstance(d)
=============================================================================
