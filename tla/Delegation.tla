------------------------------ MODULE Delegation ------------------------------
(***************************************************************************)
(* Dispatches that dispatch: the records, copies and lineage entries a     *)
(* chain of dispatches leaves (cli/dispatch_authority.go, cli/dispatch.go), *)
(* what each session holds now (cli/grant_resolve.go), and which session   *)
(* `niwa authority check' takes for a dispatch's own (cli/authority_check). *)
(*                                                                         *)
(* A dispatch's id names its instance and its worker's session too.  A     *)
(* session somebody starts by hand in an instance may be taken for the     *)
(* worker's.  Steps that nothing can observe, because nothing runs in the  *)
(* instance yet, are one action here; Dispatch has them apart.             *)
(***************************************************************************)
EXTENDS Authority, Lineage

CONSTANTS
    Id,          \* the dispatches
    Past,        \* those that are made when the rest begin
    Policies,    \* the policies the configuration can be edited to
    Requests,    \* what a dispatch may ask for
    PastPolicies,\* the policies Past were made under, and what they asked for
    PastRequests,
    MaxAtOnce,   \* bound: dispatches that have not launched yet
    MaxEvents    \* bound: edits of the configuration, workers that end, killed
                 \* dispatches, lost or broken files, sessions started by hand

VARIABLES
    policy,      \* the policy the configuration gives now
    pc,          \* [Id -> PC]: how far each dispatch is
    ask,         \* [Id -> Ask or Unset]: what it resolved before provisioning
    there,       \* [Id -> BOOLEAN]: its instance directory
    rec,         \* [Id -> record, "malformed" or "absent"]: the instance's record
    copy,        \* the same, of the copy at the workspace root
    entry,       \* [Id -> lineage file]
    pending,     \* [Id -> BOOLEAN]: the instance's capture-pending file
    worker,      \* [Id -> "unborn", "starting", "running" or "ended"]
    captured,    \* [Id -> Session or NoId]: the session dispatch took for its worker's
    mapping,     \* [Id -> Session or NoId]: whose session mapping names the dispatch
    hand,        \* the instance a session started by hand is in, or NoId
    dispatchers, \* [Id -> SUBSET Id]: whose grants capped it when it asked
    events

vars == <<policy, pc, ask, there, rec, copy, entry, pending, worker, captured,
          mapping, hand, dispatchers, events>>

NoEntry == [state |-> "absent", id |-> NoId, session |-> NoId,
            parentSession |-> Link(NoId, "none"), parentDispatch |-> Link(NoId, "none")]

Usable(r) == r.state = "ok"
File(state) == [state |-> state]

RecordOfDispatch(parent, resolved) ==
    [state |-> "ok", newer |-> FALSE, parent |-> parent,
     roles |-> resolved.roles, grant |-> resolved.grant]

EntryOfDispatch(d, session, parentSession, parentDispatch) ==
    [state |-> "ok", id |-> d, session |-> session,
     parentSession |-> parentSession, parentDispatch |-> parentDispatch]

PastRecords ==
    {RecordOfDispatch(NoId, Resolve(then, request)) : then \in PastPolicies, request \in PastRequests}

(* Somebody dispatched those of Past, from outside every instance, under a   *)
(* policy of then.                                                           *)
Init ==
    /\ policy \in Policies
    /\ rec \in [Id -> {File("absent")} \cup PastRecords]
    /\ \A d \in Id : IF d \in Past THEN rec[d].state = "ok" ELSE rec[d].state = "absent"
    /\ copy = rec
    /\ entry = [d \in Id |->
           IF d \in Past THEN EntryOfDispatch(d, d, Link(NoId, "none"), Link(NoId, "none"))
           ELSE NoEntry]
    /\ pc = [d \in Id |-> IF d \in Past THEN "over" ELSE "idle"]
    /\ there = [d \in Id |-> d \in Past]
    /\ captured = [d \in Id |-> IF d \in Past THEN d ELSE NoId]
    /\ mapping = captured
    /\ worker = [d \in Id |-> IF d \in Past THEN "running" ELSE "unborn"]
    /\ ask = [d \in Id |-> Unset]
    /\ pending = [d \in Id |-> FALSE]
    /\ hand = NoId
    /\ dispatchers = [d \in Id |-> {}]
    /\ events = 0

HandSession == "hand"
Session == Id \cup {HandSession}

(* No session somebody starts has a dispatch's id, and NoId names nothing.  *)
ASSUME NamesDiffer == NoId \notin Session /\ HandSession \notin Id

-----------------------------------------------------------------------------
(* grantResolver: what a dispatch holds now, up the lineage.                *)

Readable(d) == ReadEntry(entry[d], d) = "entry"

(* The record a resolution goes by: the instance's or its copy's; "none" if  *)
(* both are gone.                                                            *)
How == {"instance", "copy", "none"}
RecordOf(d, how) == IF how = "instance" THEN rec[d] ELSE copy[d]

(* dispatchersOf: with no record at hand only the entry speaks.  A record    *)
(* and an entry that disagree establish nothing, nor does a call from an     *)
(* instance that had no record.                                              *)
DispatchersOf(d, how) ==
    LET link == entry[d].parentDispatch
        caller == entry[d].parentSession
        parent == RecordOf(d, how).parent
        agrees == \/ how = "none"
                  \/ parent # NoId /\ link.id = parent
                  \/ parent = NoId /\ (link.id = NoId \/ link.source = "mapped")
        traceless == link.id = NoId /\ caller.source \in {"observed", "unverified"}
    IN  [ok |-> agrees /\ ~traceless,
         ids |-> ({link.id} \ {NoId}) \cup
                 {c \in Id : mapping[c] # NoId /\ caller = Link(mapping[c], "handed")}]

NoCap == [ok |-> FALSE, held |-> {}]

(* What d holds by its record, capped by what its dispatchers allow it, or   *)
(* by the record alone when they can't be established.                       *)
HeldBy(d, how, cap) ==
    CurrentGrant(policy, RecordOf(d, how),
        IF cap.ok THEN cap.held ELSE HeldAuthorities(RecordOf(d, how).grant))

(* The most a child of p may hold; above is what each dispatch's dispatchers *)
(* allow it.                                                                 *)
MostOf(p, above) ==
    LET holds(how) == [ok |-> TRUE, held |-> HeldBy(p, how, above[p][how])]
    IN  IF ~Readable(p) THEN NoCap
        ELSE IF there[p] /\ Usable(rec[p]) THEN holds("instance")
        ELSE IF ~there[p] /\ Usable(copy[p]) THEN holds("copy")
        ELSE IF ~there[p] /\ copy[p].state = "absent" THEN above[p]["none"]
        ELSE NoCap

DispatchersCap(d, how, above) ==
    LET found == DispatchersOf(d, how)
        caps == {MostOf(p, above) : p \in found.ids}
    IN  IF ~Readable(d) \/ ~found.ok THEN NoCap
        ELSE [ok |-> \A c \in caps : c.ok, held |-> {a \in Known : \A c \in caps : a \in c.held}]

(* Cap[seen][d][how]: what d's dispatchers allow it, or ok = FALSE when they *)
(* can't be established, or a dispatch on this path is met again.            *)
Cap[seen \in SUBSET Id] == [d \in Id |-> [how \in How |->
    IF d \in seen \/ Cardinality(seen) >= MaxWalkLevels THEN NoCap
    ELSE DispatchersCap(d, how, Cap[seen \cup {d}])]]

(* Mutant: dispatchers that can't be established don't cap. *)
HeldUncapped(d, how) ==
    LET cap == Cap[{}][d][how]
    IN  CurrentGrant(policy, RecordOf(d, how), IF cap.ok THEN cap.held ELSE Known)

Held(d, how) == HeldBy(d, how, Cap[{}][d][how])

-----------------------------------------------------------------------------
(* Who the dispatcher is, for a call with the session variable var, from the *)
(* instance cwd (or outside every one), anchored by --parent-from or not.    *)

Running(s) == IF s \in Id THEN worker[s] = "running" ELSE hand # NoId

(* The dispatch the session's mapping names. *)
DispatchOf(s) == IF \E d \in Id : mapping[d] = s /\ s # NoId
                 THEN CHOOSE d \in Id : mapping[d] = s ELSE NoId

InstanceCap(instance) ==
    CASE instance = NoId -> Known
      [] Usable(rec[instance]) -> Held(instance, "instance")
      [] mapping[instance] # NoId -> {}
      [] OTHER -> Known

SessionCap(var) ==
    LET d == DispatchOf(var)
    IN  CASE d = NoId -> Known
          [] d # NoId /\ there[d] /\ Usable(rec[d]) -> Held(d, "instance")
          [] OTHER -> {}

DispatcherCap(call) ==
    IF call.cwd # NoId THEN InstanceCap(call.cwd)
    ELSE InstanceCap(call.anchor) \cap SessionCap(call.var)

Parent(call) ==
    LET instance == IF call.anchor # NoId THEN call.anchor ELSE call.cwd
    IN  IF instance # NoId /\ Usable(rec[instance]) THEN instance ELSE NoId

LineageInputs(call) ==
    [sessionVar |-> call.var, anchored |-> call.anchor # NoId, cwdInInstance |-> call.cwd # NoId,
     newestMapped |-> IF call.anchor = NoId /\ call.cwd # NoId THEN mapping[call.cwd] ELSE NoId,
     parent |-> Parent(call),
     parentSource |-> IF Parent(call) = NoId THEN "none"
                      ELSE IF call.anchor # NoId THEN "anchor" ELSE "cwd",
     rootMapped |-> IF call.anchor = NoId /\ call.cwd = NoId THEN DispatchOf(call.var) ELSE NoId]

(* The dispatches whose grants DispatcherCap took. *)
Cappers(call) ==
    ({Parent(call)} \ {NoId})
    \cup {d \in Id : call.cwd = NoId /\ d = DispatchOf(call.var)}

Calls ==
    {c \in [var : Session \cup {NoId}, cwd : Id \cup {NoId}, anchor : Id \cup {NoId}] :
        /\ NoId \in {c.cwd, c.anchor} \/ c.cwd = c.anchor
        /\ c.var # NoId => Running(c.var)
        /\ c.cwd # NoId => there[c.cwd]
        /\ c.anchor # NoId => there[c.anchor]}

-----------------------------------------------------------------------------
(* resolveDispatchAuthority, which comes before anything is made: a refusal  *)
(* leaves nothing behind.                                                    *)
Ask(d) ==
    /\ pc[d] = "idle"
    /\ Cardinality({e \in Id : pc[e] \in {"provision", "launch"}}) < MaxAtOnce
    /\ \E call \in Calls, request \in Requests :
        LET cap == DispatcherCap(call)
            instance == IF call.anchor # NoId THEN call.anchor ELSE call.cwd
            resolved == Resolve(policy, request)
            in == LineageInputs(call)
        IN  /\ resolved.refused = ""
            /\ instance # NoId => rec[instance].state # "malformed"
            /\ CapByDispatcher(resolved, cap)
            /\ ask' = [ask EXCEPT ![d] =
                   [request |-> request, resolved |-> resolved, cap |-> cap,
                    parent |-> Parent(call),
                    parentSession |-> ResolveParentSession(in),
                    parentDispatch |-> ResolveParentDispatch(in)]]
            /\ dispatchers' = [dispatchers EXCEPT ![d] = Cappers(call)]
    /\ pc' = [pc EXCEPT ![d] = "provision"]
    /\ there' = [there EXCEPT ![d] = TRUE]
    /\ UNCHANGED <<policy, rec, copy, entry, pending, worker, captured, mapping, hand, events>>

(* recheckDispatchAuthority: the policy as the instance was built from it    *)
(* must still give the level and the grant that were printed.  The cap is    *)
(* the one read before.                                                      *)
Recheck(d) ==
    LET again == Resolve(policy, ask[d].request)
    IN  /\ again.refused = ""
        /\ again.level = ask[d].resolved.level
        /\ again.grant = ask[d].resolved.grant
        /\ CapByDispatcher(again, ask[d].cap)

(* The record, its copy and the lineage entry, and then the pending file.    *)
WriteFiles(d) ==
    /\ pc[d] = "provision"
    /\ Recheck(d)
    /\ LET record == RecordOfDispatch(ask[d].parent, ask[d].resolved)
       IN  /\ rec' = [rec EXCEPT ![d] = record]
           /\ copy' = [copy EXCEPT ![d] = record]
    /\ entry' = [entry EXCEPT ![d] =
           EntryOfDispatch(d, NoId, ask[d].parentSession, ask[d].parentDispatch)]
    /\ pending' = [pending EXCEPT ![d] = TRUE]
    /\ ask' = [ask EXCEPT ![d] = Unset]
    /\ pc' = [pc EXCEPT ![d] = "launch"]
    /\ UNCHANGED <<policy, there, worker, captured, mapping, hand, dispatchers, events>>

(* The deferred rollback: the instance goes, and the records with it.        *)
RolledBack(d) ==
    /\ there' = [there EXCEPT ![d] = FALSE]
    /\ rec' = [rec EXCEPT ![d] = File("absent")]
    /\ copy' = [copy EXCEPT ![d] = File("absent")]
    /\ entry' = [entry EXCEPT ![d] = NoEntry]
    /\ pending' = [pending EXCEPT ![d] = FALSE]
    /\ ask' = [ask EXCEPT ![d] = Unset]
    /\ pc' = [pc EXCEPT ![d] = "over"]

PolicyChanged(d) ==
    /\ pc[d] = "provision"
    /\ ~Recheck(d)
    /\ RolledBack(d)
    /\ UNCHANGED <<policy, worker, captured, mapping, hand, dispatchers, events>>

Launch(d) ==
    /\ pc[d] = "launch"
    /\ worker' = [worker EXCEPT ![d] = "starting"]
    /\ pc' = [pc EXCEPT ![d] = "capture"]
    /\ UNCHANGED <<policy, ask, there, rec, copy, entry, pending, captured, mapping, hand, dispatchers,
                   events>>

(* The launched agent comes up, and has its session record.                  *)
WorkerStarts(d) ==
    /\ worker[d] = "starting"
    /\ worker' = [worker EXCEPT ![d] = "running"]
    /\ UNCHANGED <<policy, pc, ask, there, rec, copy, entry, pending, captured, mapping, hand,
                   dispatchers, events>>

(* The session records of an instance: its worker's, and a session somebody  *)
(* started there by hand.                                                    *)
RecordsAt(d) == {s \in {d} : worker[s] \in {"running", "ended"}}
                \cup {s \in {HandSession} : hand = d}

(* captureSessionID, and the entry completed with the id; a completion that  *)
(* fails only warns.                                                         *)
Capture(d) ==
    /\ pc[d] = "capture"
    /\ \E s \in RecordsAt(d) :
        /\ RecordsAt(d) = {s}
        /\ captured' = [captured EXCEPT ![d] = s]
        /\ \/ UNCHANGED entry
           \/ /\ CanComplete(entry[d], d)
              /\ entry' = [entry EXCEPT ![d] = Completed(@, s)]
    /\ pc' = [pc EXCEPT ![d] = "map"]
    /\ UNCHANGED <<policy, ask, there, rec, copy, pending, worker, mapping, hand, dispatchers, events>>

(* More than one record claims the instance, or none did in time. *)
CaptureFails(d) ==
    /\ pc[d] = "capture"
    /\ Cardinality(RecordsAt(d)) # 1
    /\ RolledBack(d)
    /\ UNCHANGED <<policy, worker, captured, mapping, hand, dispatchers, events>>

(* Mutant: the window is closed before the mapping is there. *)
CloseWindowFirst(d) ==
    /\ pc[d] = "map"
    /\ IF pending[d] THEN pending' = [pending EXCEPT ![d] = FALSE] /\ UNCHANGED <<mapping, pc>>
       ELSE /\ mapping' = [mapping EXCEPT ![d] = captured[d]]
            /\ pc' = [pc EXCEPT ![d] = "close"]
            /\ UNCHANGED pending
    /\ UNCHANGED <<policy, ask, there, rec, copy, entry, worker, captured, hand, dispatchers,
                   events>>

WriteMapping(d) ==
    /\ pc[d] = "map"
    /\ mapping' = [mapping EXCEPT ![d] = captured[d]]
    /\ pc' = [pc EXCEPT ![d] = "close"]
    /\ UNCHANGED <<policy, ask, there, rec, copy, entry, pending, worker, captured, hand,
                   dispatchers, events>>

CloseWindow(d) ==
    /\ pc[d] = "close"
    /\ pending' = [pending EXCEPT ![d] = FALSE]
    /\ pc' = [pc EXCEPT ![d] = "over"]
    /\ UNCHANGED <<policy, ask, there, rec, copy, entry, worker, captured, mapping, hand, dispatchers,
                   events>>

-----------------------------------------------------------------------------
EditPolicy ==
    /\ events < MaxEvents
    /\ policy' \in Policies \ {policy}
    /\ events' = events + 1
    /\ UNCHANGED <<pc, ask, there, rec, copy, entry, pending, worker, captured, mapping, hand,
                   dispatchers>>

(* Somebody opens the instance while a session in it is taken for the        *)
(* worker's; what a later one does is Reap's matter.                         *)
StartByHand(d) ==
    /\ hand = NoId /\ events < MaxEvents
    /\ pc[d] = "capture"
    /\ hand' = d
    /\ events' = events + 1
    /\ UNCHANGED <<policy, pc, ask, there, rec, copy, entry, pending, worker, captured, mapping,
                   dispatchers>>

WorkerEnds(d) ==
    /\ worker[d] = "running" /\ events < MaxEvents
    /\ worker' = [worker EXCEPT ![d] = "ended"]
    /\ events' = events + 1
    /\ UNCHANGED <<policy, pc, ask, there, rec, copy, entry, pending, captured, mapping, hand, dispatchers>>

(* The sweep of Reap: the instance goes and then the mapping is settled.     *)
ReapInstance(d) ==
    /\ mapping[d] = d /\ there[d] /\ worker[d] = "ended" /\ hand # d
    /\ there' = [there EXCEPT ![d] = FALSE]
    /\ rec' = [rec EXCEPT ![d] = File("absent")]
    /\ pending' = [pending EXCEPT ![d] = FALSE]
    /\ UNCHANGED <<policy, pc, ask, copy, entry, worker, captured, mapping, hand, dispatchers, events>>

SettleMapping(d) ==
    /\ mapping[d] # NoId /\ ~there[d]
    /\ mapping' = [mapping EXCEPT ![d] = NoId]
    /\ UNCHANGED <<policy, pc, ask, there, rec, copy, entry, pending, worker, captured, hand,
                   dispatchers, events>>

Killed(d) ==
    /\ events < MaxEvents
    /\ pc[d] \notin {"idle", "over", "dead"}
    /\ pc' = [pc EXCEPT ![d] = "dead"]
    /\ events' = events + 1
    /\ UNCHANGED <<policy, ask, there, rec, copy, entry, pending, worker, captured, mapping, hand,
                   dispatchers>>

(* A file is lost or broken; an entry that is lost, or of a later version,   *)
(* is read like a broken one.                                                *)
FileFault(d) ==
    /\ events < MaxEvents
    /\ \/ /\ rec[d].state = "ok"
          /\ \E s \in {"absent", "malformed"} : rec' = [rec EXCEPT ![d] = File(s)]
          /\ UNCHANGED <<copy, entry>>
       \/ /\ copy[d].state = "ok"
          /\ \E s \in {"absent", "malformed"} : copy' = [copy EXCEPT ![d] = File(s)]
          /\ UNCHANGED <<rec, entry>>
       \/ /\ entry[d].state = "ok"
          /\ entry' = [entry EXCEPT ![d].state = "malformed"]
          /\ UNCHANGED <<rec, copy>>
    /\ events' = events + 1
    /\ UNCHANGED <<policy, pc, ask, there, pending, worker, captured, mapping, hand, dispatchers>>

Next ==
    \/ EditPolicy
    \/ \E d \in Id :
        \/ Ask(d) \/ WriteFiles(d) \/ PolicyChanged(d) \/ Launch(d) \/ WorkerStarts(d)
        \/ Capture(d) \/ CaptureFails(d) \/ WriteMapping(d) \/ CloseWindow(d)
        \/ StartByHand(d) \/ WorkerEnds(d) \/ ReapInstance(d) \/ SettleMapping(d)
        \/ Killed(d) \/ FileFault(d)

Spec == Init /\ [][Next]_vars

-----------------------------------------------------------------------------
(* checkSession, of a session and the instance its -C is in.                 *)

BindToRecord(binding, d) ==
    CASE rec[d].state = "malformed" -> [state |-> "record-unusable", binding |-> "none"]
      [] rec[d].state = "absent" -> [state |-> "record-unusable", binding |-> "none"]
      [] OTHER -> [state |-> "bound", binding |-> binding]

NotDispatched == [state |-> "not-dispatched", binding |-> "none"]

(* The agent's own records bind only while the dispatch that marked the      *)
(* instance is alive and has recorded no id.                                 *)
BoundByRecords(s, d) ==
    /\ ~(Readable(d) /\ entry[d].session # NoId)
    /\ pc[d] # "dead"
    /\ RecordsAt(d) = {s}

CheckSession(s, d) ==
    CASE mapping[d] = s -> BindToRecord("mapping", d)
      [] DispatchOf(s) \notin {NoId, d} -> NotDispatched
      [] Readable(d) /\ entry[d].session = s -> BindToRecord("lineage", d)
      [] pending[d] /\ BoundByRecords(s, d) -> BindToRecord("records", d)
      [] OTHER -> NotDispatched

-----------------------------------------------------------------------------
(* What it promises. *)

Recorded(d) == HeldAuthorities(rec[d].grant)
Today(p) == Held(p, IF there[p] THEN "instance" ELSE "copy")
Established(p) == Readable(p) /\ IF there[p] THEN Usable(rec[p]) ELSE Usable(copy[p])
PassedOver(p) == Readable(p) /\ ~there[p] /\ copy[p].state = "absent"

(* Whose grant caps d today: of those that capped it when it asked, its      *)
(* parent and the ones whose session still has a mapping; and the session    *)
(* that handed it over.                                                      *)
Caps(p, d) ==
    \/ p \in dispatchers[d] /\ (p = rec[d].parent \/ mapping[p] # NoId)
    \/ mapping[p] # NoId /\ entry[d].parentSession = Link(mapping[p], "handed")

(* A child never holds more than its dispatcher holds today, whatever the    *)
(* policy, the records and the instances became in between; and where a      *)
(* dispatcher can't be read, no more than its own record names               *)
(* (cli/grant_resolve.go, docs/guides/authority-grants.md).  It holds of     *)
(* lineages within the walk's limit: past it a dispatch is capped by its own *)
(* record alone, and may hold what its dispatcher has lost since.            *)
WithinDispatcher ==
    \A d \in Id : there[d] /\ Usable(rec[d]) =>
        LET capping == {p \in Id : Caps(p, d)}
            now == Held(d, "instance")
            readable == Readable(d) /\ \A p \in capping : Established(p) \/ PassedOver(p)
            lost == ~Readable(d) \/ \E p \in capping : ~Established(p)
        IN  \/ readable /\ \A p \in capping : Established(p) => now \subseteq Today(p)
            \/ lost /\ now \subseteq Recorded(d)

BoundSessions(d) == {s \in Session : CheckSession(s, d).state = "bound"}

(* `niwa authority check' takes at most one session for a dispatch's own,    *)
(* and from its first command on, before any of its files are written, the   *)
(* worker of a dispatch that goes on is the one, unless somebody started a   *)
(* session in its instance (cli/authority_check.go bindBeforeMapping,        *)
(* cli/dispatch_capture_window.go).                                          *)
OneSessionIsBound ==
    \A d \in Id : there[d] =>
        /\ Cardinality(BoundSessions(d)) <= 1
        /\ Usable(rec[d]) /\ worker[d] = "running" /\ pc[d] # "dead" /\ hand # d
               => BoundSessions(d) = {d}
=============================================================================
