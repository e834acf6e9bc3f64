------------------------------- MODULE Lineage -------------------------------
(***************************************************************************)
(* The dispatch lineage record (internal/lineage, workspace/lineage_store, *)
(* cli/lineage): how an entry's links to its dispatcher are resolved, how  *)
(* an entry is read and completed, and how a chain of entries is walked.   *)
(***************************************************************************)
EXTENDS Naturals, Sequences, FiniteSets

CONSTANTS
    NoId,            \* no dispatch, session or principal
    MaxWalkLevels    \* walk.go: 64

ASSUME WalkLimit == MaxWalkLevels \in Nat \ {0}

Link(id, source) == [id |-> id, source |-> source, mapped |-> NoId]

(* in: the inputs gatherLineageInputs collects. *)
ResolveParentSession(in) ==
    IF in.sessionVar = NoId THEN Link(NoId, "none")
    ELSE IF in.anchored \/ ~in.cwdInInstance \/ in.newestMapped = NoId
    THEN Link(in.sessionVar, "handed")
    ELSE IF in.newestMapped = in.sessionVar THEN Link(in.sessionVar, "observed")
    ELSE [id |-> in.sessionVar, source |-> "unverified", mapped |-> in.newestMapped]

ResolveParentDispatch(in) ==
    CASE in.parent # NoId /\ in.parentSource = "cwd" -> Link(in.parent, "observed")
      [] in.parent # NoId /\ in.parentSource = "anchor" -> Link(in.parent, "handed")
      [] in.parent = NoId /\ ~in.cwdInInstance /\ ~in.anchored /\ in.rootMapped # NoId
             -> Link(in.rootMapped, "mapped")
      [] OTHER -> Link(NoId, "none")

(* A principal is inherited through a parent entry, with the trust of the    *)
(* weakest link it came by; otherwise it is the declared one.                *)
ResolvePrincipal(in, parentSession, parentDispatch) ==
    LET parent == parentDispatch.id
        inherited == parent # NoId /\ in.parentEntry.id = parent
        seen == parentDispatch.source = "observed" /\ parentSession.source # "unverified"
    IN  IF inherited
        THEN [name |-> in.parentEntry.principal.name, source |-> "inherited",
              trust |-> IF seen /\ in.parentEntry.principal.trust = "observed"
                        THEN "observed" ELSE "handed"]
        ELSE [name |-> in.declared,
              source |-> IF in.declared = NoId THEN "none" ELSE "declared",
              trust |-> IF parent = NoId THEN "observed" ELSE "handed"]

-----------------------------------------------------------------------------
(* What is stored under a dispatch's id: Lookup is "absent", "unreadable"    *)
(* (a file that can't be read, is too open, malformed or another dispatch's) *)
(* "later" (of a later version) or "entry".                                  *)
ReadEntry(file, id) ==
    CASE file.state = "absent" -> "absent"
      [] file.state \in {"symlink", "irregular", "open to others", "too large", "malformed"} -> "unreadable"
      [] file.id # id -> "unreadable"
      [] file.state = "later" -> "later"
      [] OTHER -> "entry"

(* SetSessionID: once, and never in an entry of a later version.  Members    *)
(* this niwa does not know are kept as they are.                             *)
CanComplete(file, id) == ReadEntry(file, id) = "entry" /\ file.session = NoId
Completed(file, session) == [file EXCEPT !.session = session]

-----------------------------------------------------------------------------
(* A walk from an entry, nearest first, over get : id -> [lookup, parent].   *)
(* A walk is [levels : sequence of ids, stop : why, or "on" while it goes on]. *)
WalkFrom(id) == [levels |-> <<id>>, stop |-> "on"]

Visited(walk) == {walk.levels[i] : i \in DOMAIN walk.levels}

(* A parent that can't be followed is still the last level. *)
StopAt == [entry |-> "on", unreadable |-> "unreadable", later |-> "later-version", absent |-> "not-on-record"]
Followed(walk, parent, get) ==
    [levels |-> Append(walk.levels, parent), stop |-> StopAt[get[parent].lookup]]

(* Mutant: a parent that was printed already is walked again. *)
WalkOnAgain(walk, get) ==
    LET parent == get[walk.levels[Len(walk.levels)]].parent
        stop(why) == [levels |-> walk.levels, stop |-> why]
    IN  IF walk.stop # "on" THEN walk
        ELSE IF parent = NoId THEN stop("root")
        ELSE IF Len(walk.levels) >= MaxWalkLevels THEN stop("depth")
        ELSE Followed(walk, parent, get)

WalkOn(walk, get) ==
    LET parent == get[walk.levels[Len(walk.levels)]].parent
        stop(why) == [levels |-> walk.levels, stop |-> why]
    IN  IF walk.stop # "on" THEN walk
        ELSE IF parent = NoId THEN stop("root")
        ELSE IF Len(walk.levels) >= MaxWalkLevels THEN stop("depth")
        ELSE IF parent \in Visited(walk) THEN stop("cycle")
        ELSE Followed(walk, parent, get)

Walk(id, get) ==
    LET steps[n \in Nat] == IF n = 0 THEN WalkFrom(id) ELSE WalkOn(steps[n - 1], get)
    IN  steps[MaxWalkLevels + 1]

-----------------------------------------------------------------------------
(* `niwa lineage show' without an id: the entries that match, the latest     *)
(* written first, ties going to the lower id.                                *)
LaterFirst(e, f) == e.at > f.at \/ (e.at = f.at /\ e.id <= f.id)

Selected(matches) == CHOOSE e \in matches : \A f \in matches : LaterFirst(e, f)

(* By id, by session or by instance name; or else by the record of the       *)
(* instance the anchor is in, and only with no usable record by its name.    *)
SelectLineage(entries, sel) ==
    LET byId(id) == {e \in entries : e.id = id /\ e.lookup # "absent"}
        found == {e \in entries : e.lookup = "entry"}
        byName(name) == {e \in found : e.instance = name}
    IN  CASE sel.by = "id" -> byId(sel.id)
          [] sel.by = "session" -> {e \in found : e.session = sel.id}
          [] sel.by = "instance" -> byName(sel.id)
          [] sel.anchor = NoId -> {}
          [] sel.record # NoId -> byId(sel.record)
          [] OTHER -> byName(sel.anchor)

-----------------------------------------------------------------------------
(* A walk visits no entry twice, follows each entry's own link, goes no      *)
(* further than the limit, and ends for the reason it gives.                 *)
WalkIsAPath(id, get) ==
    LET walk == Walk(id, get)
        last == walk.levels[Len(walk.levels)]
        lookup(d) == get[d].lookup
    IN  /\ Len(walk.levels) <= MaxWalkLevels
        /\ Cardinality(Visited(walk)) = Len(walk.levels)
        /\ \A i \in 2 .. Len(walk.levels) :
               get[walk.levels[i - 1]].parent = walk.levels[i] /\ lookup(walk.levels[i - 1]) = "entry"
        /\ CASE walk.stop = "root" -> lookup(last) = "entry" /\ get[last].parent = NoId
             [] walk.stop = "cycle" -> get[last].parent \in Visited(walk)
             [] walk.stop = "depth" -> Len(walk.levels) = MaxWalkLevels /\ get[last].parent # NoId
             [] walk.stop \in {"unreadable", "later-version", "not-on-record"} -> lookup(last) # "entry"
             [] OTHER -> FALSE

(* An inherited principal is never trusted more than the entry it came from, *)
(* nor more than the link it came by.                                        *)
TrustIsNotGained(in) ==
    LET dispatch == ResolveParentDispatch(in)
        principal == ResolvePrincipal(in, ResolveParentSession(in), dispatch)
    IN  principal.source = "inherited" /\ principal.trust = "observed"
            => /\ in.parentEntry.principal.trust = "observed"
               /\ dispatch.source = "observed" /\ in.cwdInInstance /\ ~in.anchored
=============================================================================
