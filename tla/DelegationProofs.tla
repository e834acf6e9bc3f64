-------------------------- MODULE DelegationProofs ---------------------------
(***************************************************************************)
(* Which session is taken for a dispatch's own, and that a child never     *)
(* holds more than its dispatchers do today; for any dispatches, policies,  *)
(* requests and bounds.  In the first part Authority's and Lineage's        *)
(* decisions stay closed: all that is used of a link is its shape.          *)
(***************************************************************************)
EXTENDS Delegation, FiniteSetTheorems, WellFoundedInduction, TLAPS

-----------------------------------------------------------------------------
(* What functions that are defined by recursion are, and what holds of all    *)
(* their values: induction over the numbers, and over the parts of a finite   *)
(* set, told in terms of sets and functions.                                  *)

(* Whatever holds of 0 and, with n, of n + 1, holds of every number.       *)
LEMMA EveryNumber ==
    ASSUME NEW P, 0 \in P, \A n \in Nat : n \in P => n + 1 \in P
    PROVE  Nat \subseteq P
<1> DEFINE Below(n) == 0 .. (n - 1)
           T == {Below(n) : n \in Nat \ P}
<1> SUFFICES ASSUME NEW m \in Nat, m \notin P PROVE FALSE
    OBVIOUS
<1>1. IsWellFoundedOn(StrictSubsetOrdering(Nat), FiniteSubsetsOf(Nat))
    BY FS_StrictSubsetOrderingWellFounded
<1>2. \A n \in Nat : Below(n) \in FiniteSubsetsOf(Nat)
    BY FS_Interval DEF FiniteSubsetsOf
<1>3. T \subseteq FiniteSubsetsOf(Nat) /\ T # {}
    BY <1>2
<1>4. \E x \in T : \A y \in T : ~(<<y, x>> \in StrictSubsetOrdering(Nat))
    <2> HIDE DEF T
    <2> QED BY <1>1, <1>3, WFMin
<1>5. PICK n \in Nat \ P : \A y \in T : ~(<<y, Below(n)>> \in StrictSubsetOrdering(Nat))
    BY <1>4
<1>6. n # 0 /\ n - 1 \in Nat \ P
    BY <1>5
<1>7. Below(n - 1) \in T /\ Below(n - 1) \subseteq Below(n) /\ n - 1 \in Below(n) /\ n - 1 \notin Below(n - 1)
    BY <1>6
<1>8. <<Below(n - 1), Below(n)>> \in StrictSubsetOrdering(Nat)
    BY <1>6, <1>7 DEF StrictSubsetOrdering
<1> QED BY <1>5, <1>7, <1>8

(* A function of the numbers may be defined by what it is at 0 and, from    *)
(* what it is at n, at n + 1.                                              *)
LEMMA Iterated ==
    ASSUME NEW S, NEW base \in S, NEW F \in [S -> S]
    PROVE  \E g \in [Nat -> S] : g[0] = base /\ \A n \in Nat : g[n + 1] = F[g[n]]
<1> DEFINE Upto(n) == {h \in [0 .. n -> S] : h[0] = base /\ \A i \in 0 .. n - 1 : h[i + 1] = F[h[i]]}
           P == {n \in Nat : \E h \in Upto(n) : TRUE}
           Q == {n \in Nat : \A a, b \in Nat : a >= n /\ b >= n => \A h \in Upto(a), k \in Upto(b) : h[n] = k[n]}
<1>1. Nat \subseteq P
    <2>1. 0 \in P
        <3>1. [i \in 0 .. 0 |-> base] \in Upto(0)
            OBVIOUS
        <3> QED BY <3>1
    <2>2. ASSUME NEW n \in Nat, n \in P PROVE n + 1 \in P
        <3>1. PICK h \in Upto(n) : TRUE
            BY <2>2
        <3> DEFINE k == [i \in 0 .. n + 1 |-> IF i = n + 1 THEN F[h[n]] ELSE h[i]]
        <3>2. k \in Upto(n + 1)
            BY <3>1
        <3> HIDE DEF Upto, k
        <3> QED BY <3>2
    <2> HIDE DEF P
    <2> QED BY <2>1, <2>2, EveryNumber
<1>2. Nat \subseteq Q
    <2>1. 0 \in Q
        OBVIOUS
    <2>2. ASSUME NEW n \in Nat, n \in Q PROVE n + 1 \in Q
        <3>1. ASSUME NEW a \in Nat, NEW b \in Nat, a >= n + 1, b >= n + 1, NEW h \in Upto(a), NEW k \in Upto(b)
              PROVE  h[n + 1] = k[n + 1]
            <4>1. h[n] = k[n]
                <5>1. \A u, v \in Nat : u >= n /\ v >= n => \A x \in Upto(u), y \in Upto(v) : x[n] = y[n]
                    BY <2>2
                <5>2. a >= n /\ b >= n
                    BY <3>1
                <5> HIDE DEF Upto, Q
                <5> QED BY <5>1, <5>2
            <4>2. h[n + 1] = F[h[n]] /\ k[n + 1] = F[k[n]]
                BY <3>1
            <4> QED BY <4>1, <4>2
        <3> HIDE DEF Upto
        <3> QED BY <3>1
    <2> HIDE DEF Q
    <2> QED BY <2>1, <2>2, EveryNumber
<1> DEFINE at(n) == CHOOSE h \in Upto(n) : TRUE
           g == [n \in Nat |-> at(n)[n]]
<1>3. \A n \in Nat : at(n) \in Upto(n)
    <2> HIDE DEF Upto
    <2> QED BY <1>1
<1>4. g \in [Nat -> S] /\ g[0] = base
    <2> HIDE DEF at
    <2>1. \A n \in Nat : at(n)[n] \in S
        BY <1>3
    <2>2. at(0)[0] = base
        BY <1>3
    <2> QED BY <2>1, <2>2
<1>5. ASSUME NEW n \in Nat PROVE g[n + 1] = F[g[n]]
    <2> HIDE DEF at
    <2>1. at(n) \in Upto(n) /\ at(n + 1) \in Upto(n + 1)
        BY <1>3
    <2>2. at(n)[n] = at(n + 1)[n]
        <3> HIDE DEF Upto
        <3> QED BY <1>2, <2>1
    <2>3. at(n + 1)[n + 1] = F[at(n + 1)[n]]
        BY <2>1
    <2> QED BY <2>2, <2>3
<1> QED BY <1>4, <1>5

(* A function of a finite set's parts may be defined by taking one element  *)
(* away at a time, whichever is chosen.                                    *)
LEMMA TakenApart ==
    ASSUME NEW D, IsFiniteSet(D), NEW V, NEW base \in V,
           NEW pick \in [SUBSET D -> D \cup {D}], \A s \in SUBSET D : s # {} => pick[s] \in s,
           NEW G \in [D \X V -> V]
    PROVE  \E h \in [SUBSET D -> V] :
               \A s \in SUBSET D : h[s] = IF s = {} THEN base ELSE G[<<pick[s], h[s \ {pick[s]}]>>]
<1> DEFINE Parts == [SUBSET D -> V]
           next == [h \in Parts |-> [s \in SUBSET D |->
                       IF s = {} THEN base ELSE G[<<pick[s], h[s \ {pick[s]}]>>]]]
           first == [s \in SUBSET D |-> base]
<1>1. next \in [Parts -> Parts]
    <2> SUFFICES ASSUME NEW h \in Parts, NEW s \in SUBSET D, s # {}
                 PROVE  G[<<pick[s], h[s \ {pick[s]}]>>] \in V
        OBVIOUS
    <2>1. pick[s] \in D /\ h[s \ {pick[s]}] \in V
        OBVIOUS
    <2> QED BY <2>1
<1>2. first \in Parts
    OBVIOUS
<1>3. PICK g \in [Nat -> Parts] : g[0] = first /\ \A n \in Nat : g[n + 1] = next[g[n]]
    <2> HIDE DEF Parts, next, first
    <2> QED BY <1>1, <1>2, Iterated
<1>4. ASSUME NEW n \in Nat, NEW s \in SUBSET D
      PROVE  g[n + 1][s] = IF s = {} THEN base ELSE G[<<pick[s], g[n][s \ {pick[s]}]>>]
    <2>1. g[n + 1] = next[g[n]] /\ g[n] \in Parts
        BY <1>3
    <2> HIDE DEF first
    <2> QED BY <2>1
<1>5. \A n \in Nat : g[n][{}] = base
    <2>1. ASSUME NEW n \in Nat PROVE g[n][{}] = base
        <3>1. CASE n = 0
            BY <1>3, <3>1
        <3>2. CASE n # 0
            <4>1. n - 1 \in Nat /\ n = (n - 1) + 1
                BY <3>2
            <4> QED BY <1>4, <4>1
        <3> QED BY <3>1, <3>2
    <2> QED BY <2>1
<1> DEFINE Settled == {n \in Nat : \A s \in SUBSET D : Cardinality(s) <= n => g[n + 1][s] = g[n][s]}
<1>6. Nat \subseteq Settled
    <2>1. 0 \in Settled
        <3>1. ASSUME NEW s \in SUBSET D, Cardinality(s) <= 0 PROVE s = {}
            BY <3>1, FS_Subset, FS_EmptySet, FS_CardinalityType
        <3>2. g[0 + 1][{}] = base /\ g[0][{}] = base
            BY <1>5
        <3> HIDE DEF first, next
        <3>3. \A s \in SUBSET D : Cardinality(s) <= 0 => g[0 + 1][s] = g[0][s]
            BY <3>1, <3>2
        <3> QED BY <3>3
    <2>2. ASSUME NEW n \in Nat, n \in Settled PROVE n + 1 \in Settled
        <3>1. ASSUME NEW s \in SUBSET D, Cardinality(s) <= n + 1 PROVE g[(n + 1) + 1][s] = g[n + 1][s]
            <4>1. CASE s = {}
                BY <1>5, <4>1
            <4>2. CASE s # {}
                <5> DEFINE rest == s \ {pick[s]}
                <5>1. pick[s] \in s /\ rest \in SUBSET D /\ IsFiniteSet(s)
                    BY <4>2, FS_Subset
                <5>2. Cardinality(rest) = Cardinality(s) - 1 /\ Cardinality(s) \in Nat
                    <6>1. \A x \in s : Cardinality(s \ {x}) = Cardinality(s) - 1
                        BY <5>1, FS_RemoveElement
                    <6>2. Cardinality(s) \in Nat
                        BY <5>1, FS_CardinalityType
                    <6> QED BY <5>1, <6>1, <6>2
                <5>3. Cardinality(rest) <= n
                    BY <3>1, <5>2
                <5>4. g[n + 1][rest] = g[n][rest]
                    BY <2>2, <5>1, <5>3
                <5>5. g[(n + 1) + 1][s] = G[<<pick[s], g[n + 1][rest]>>]
                    <6>1. n + 1 \in Nat
                        OBVIOUS
                    <6> QED BY <1>4, <4>2, <6>1
                <5>6. g[n + 1][s] = G[<<pick[s], g[n][rest]>>]
                    BY <1>4, <4>2
                <5> HIDE DEF rest
                <5> QED BY <5>4, <5>5, <5>6
            <4> QED BY <4>1, <4>2
        <3> QED BY <3>1
    <2> HIDE DEF Settled
    <2> QED BY <2>1, <2>2, EveryNumber
<1>7. Cardinality(D) \in Nat /\ \A s \in SUBSET D : Cardinality(s) <= Cardinality(D)
    BY FS_CardinalityType, FS_Subset
<1> DEFINE h == g[Cardinality(D)]
<1>8. h \in [SUBSET D -> V]
    BY <1>3, <1>7
<1>9. ASSUME NEW s \in SUBSET D
      PROVE  h[s] = IF s = {} THEN base ELSE G[<<pick[s], h[s \ {pick[s]}]>>]
    <2>1. g[Cardinality(D) + 1][s] = h[s]
        BY <1>6, <1>7
    <2>2. g[Cardinality(D) + 1][s] = IF s = {} THEN base ELSE G[<<pick[s], h[s \ {pick[s]}]>>]
        BY <1>4, <1>7
    <2> QED BY <2>1, <2>2
<1> HIDE DEF h
<1> QED BY <1>8, <1>9

(* What F makes of a function at x depends only on what it is where m is     *)
(* less; and a function that F makes of itself.                              *)
ByLess(X, All, m, F) ==
    \A x \in X : \A h, k \in All : (\A y \in X : m[y] < m[x] => h[y] = k[y]) => F[h][x] = F[k][x]

HasSolution(X, All, F) == \E h \in All : \A x \in X : h[x] = F[h][x]

(* A function may be defined by recursion on a measure that has a bound: if  *)
(* what it is at x depends only on what it is where the measure is less.     *)
LEMMA ByMeasure ==
    ASSUME NEW X, NEW All, NEW first \in All, NEW bound \in Nat, NEW m \in [X -> Nat],
           \A x \in X : m[x] < bound,
           NEW next \in [All -> All], ByLess(X, All, m, next)
    PROVE  HasSolution(X, All, next)
<1> DEFINE Runs(A, b, G) == \E g \in [Nat -> A] : g[0] = b /\ \A n \in Nat : g[n + 1] = G[g[n]]
<1>0. \A A : \A b \in A : \A G \in [A -> A] : Runs(A, b, G)
    BY Iterated
<1>1. PICK g \in [Nat -> All] : g[0] = first /\ \A n \in Nat : g[n + 1] = next[g[n]]
    <2>1. Runs(All, first, next)
        <3> HIDE DEF Runs
        <3> QED BY <1>0
    <2> QED BY <2>1
<1> DEFINE Settled == {n \in Nat : \A x \in X : m[x] < n => g[n + 1][x] = g[n][x]}
<1>2. Nat \subseteq Settled
    <2>1. 0 \in Settled
        <3>1. \A x \in X : ~(m[x] < 0)
            OBVIOUS
        <3> QED BY <3>1
    <2>2. ASSUME NEW n \in Nat, n \in Settled PROVE n + 1 \in Settled
        <3>1. n + 1 \in Nat /\ (n + 1) + 1 \in Nat
            OBVIOUS
        <3>2. g[n] \in All /\ g[n + 1] \in All /\ g[(n + 1) + 1] = next[g[n + 1]] /\ g[n + 1] = next[g[n]]
            BY <1>1, <3>1
        <3>3. ASSUME NEW x \in X, m[x] < n + 1 PROVE g[(n + 1) + 1][x] = g[n + 1][x]
            <4>1. \A y \in X : m[y] < m[x] => m[y] < n
                BY <3>3
            <4>2. \A y \in X : m[y] < m[x] => g[n + 1][y] = g[n][y]
                BY <2>2, <4>1
            <4>3. next[g[n + 1]][x] = next[g[n]][x]
                BY <3>2, <4>2 DEF ByLess
            <4> QED BY <3>2, <4>3
        <3> QED BY <3>1, <3>3
    <2> HIDE DEF Settled
    <2> QED BY <2>1, <2>2, EveryNumber
<1>3. g[bound] \in All /\ g[bound + 1] = next[g[bound]]
    BY <1>1
<1>4. \A x \in X : g[bound + 1][x] = g[bound][x]
    BY <1>2
<1> QED BY <1>3, <1>4 DEF HasSolution

-----------------------------------------------------------------------------

PC == {"idle", "provision", "launch", "capture", "map", "close", "over", "dead"}

Links == [id : Session \cup {NoId},
          source : {"none", "handed", "observed", "unverified", "mapped"},
          mapped : Session \cup {NoId}]

Entry == [state : {"absent", "ok", "malformed"}, id : Id \cup {NoId}, session : Session \cup {NoId},
          parentSession : Links, parentDispatch : Links]

(* The variables who is bound depends on, but for the records; what a        *)
(* dispatch resolved has links for its entry.                                *)
Shaped ==
    /\ pc \in [Id -> PC]
    /\ there \in [Id -> BOOLEAN]
    /\ pending \in [Id -> BOOLEAN]
    /\ worker \in [Id -> {"unborn", "starting", "running", "ended"}]
    /\ captured \in [Id -> Session \cup {NoId}]
    /\ mapping \in [Id -> Session \cup {NoId}]
    /\ hand \in Id \cup {NoId}
    /\ entry \in [Id -> Entry]
    /\ DOMAIN ask = Id
    /\ \A d \in Id : pc[d] = "provision" =>
           ask[d].parentSession \in Links /\ ask[d].parentDispatch \in Links

(* A session that has a record in a dispatch's instance keeps it; the one    *)
(* that was captured has one, and nothing names another session.             *)
Captured(d) ==
    /\ captured[d] # NoId => captured[d] \in RecordsAt(d)
    /\ mapping[d] \in {NoId, captured[d]}
    /\ entry[d].session \in {NoId, captured[d]}

(* How far a dispatch is tells whether its worker is born, its instance      *)
(* marked and its session mapped.                                            *)
Staged(d) ==
    /\ pc[d] \in {"idle", "provision", "launch"} => worker[d] = "unborn"
    /\ pc[d] \in {"idle", "provision", "launch", "capture"} => captured[d] = NoId
    /\ pc[d] \in {"launch", "capture", "map"} => pending[d] /\ mapping[d] = NoId
    /\ pc[d] = "map" => captured[d] # NoId
    /\ pc[d] \in {"close", "over"} /\ there[d] => captured[d] # NoId /\ mapping[d] = captured[d]

BindingInv == Shaped /\ \A d \in Id : Captured(d) /\ Staged(d)

-----------------------------------------------------------------------------
(* The links a dispatch resolves are links, whatever it is called from.      *)
LEMMA DispatchNamedHasId == ASSUME NEW s PROVE DispatchOf(s) \in Id \cup {NoId}
BY DEF DispatchOf

LEMMA LinksAreLinks ==
    ASSUME Shaped, NEW call \in Calls
    PROVE  /\ ResolveParentSession(LineageInputs(call)) \in Links
           /\ ResolveParentDispatch(LineageInputs(call)) \in Links
<1>1. call.var \in Session \cup {NoId} /\ call.cwd \in Id \cup {NoId} /\ call.anchor \in Id \cup {NoId}
    BY DEF Calls
<1>2. Parent(call) \in Id \cup {NoId}
    BY <1>1 DEF Parent
<1>3. DispatchOf(call.var) \in Id \cup {NoId}
    BY DispatchNamedHasId
<1>4. call.cwd # NoId => mapping[call.cwd] \in Session \cup {NoId}
    BY <1>1 DEF Shaped
<1> DEFINE in == LineageInputs(call)
<1>5. /\ in.sessionVar \in Session \cup {NoId} /\ in.newestMapped \in Session \cup {NoId}
      /\ in.parent \in Session \cup {NoId} /\ in.rootMapped \in Session \cup {NoId}
    BY <1>1, <1>2, <1>3, <1>4 DEF LineageInputs, Session
<1> HIDE DEF in
<1>6. ResolveParentSession(in) \in Links
    BY <1>5 DEF ResolveParentSession, Link, Links
<1>7. ResolveParentDispatch(in) \in Links
    BY <1>5 DEF ResolveParentDispatch, Link, Links
<1> QED BY <1>6, <1>7 DEF in

-----------------------------------------------------------------------------
LEMMA InitiallyBound == Init => BindingInv
<1> SUFFICES ASSUME Init PROVE BindingInv
    OBVIOUS
<1>1. Link(NoId, "none") \in Links
    BY DEF Link, Links
<1>2. NoEntry \in Entry
    BY <1>1 DEF NoEntry, Entry
<1>3. \A d \in Id : EntryOfDispatch(d, d, Link(NoId, "none"), Link(NoId, "none")) \in Entry
    BY <1>1 DEF EntryOfDispatch, Entry, Session
<1>4. entry \in [Id -> Entry]
    BY <1>2, <1>3 DEF Init
<1>5. Shaped
    BY <1>4 DEF Init, Shaped, PC, Session
<1>6. ASSUME NEW d \in Id PROVE Captured(d) /\ Staged(d)
    BY <1>6, NamesDiffer DEF Init, Captured, Staged, RecordsAt, EntryOfDispatch, NoEntry, Session
<1> QED BY <1>5, <1>6 DEF BindingInv

(* A step of one dispatch leaves the others' part alone.                     *)
LEMMA OthersStayBound ==
    ASSUME NEW d, NEW e \in Id, Captured(e), Staged(e),
           pc'[e] = pc[e], there'[e] = there[e], pending'[e] = pending[e], worker'[e] = worker[e],
           captured'[e] = captured[e], mapping'[e] = mapping[e],
           entry'[e].session = entry[e].session, hand' = hand
    PROVE  Captured(e)' /\ Staged(e)'
BY DEF Captured, Staged, RecordsAt

LEMMA RollbackKeepsBinding ==
    ASSUME BindingInv, NEW d \in Id, RolledBack(d), pc[d] \in {"provision", "capture"},
           UNCHANGED <<worker, captured, mapping, hand>>
    PROVE  BindingInv'
<1> USE DEF BindingInv
<1>1. Link(NoId, "none") \in Links
    BY DEF Link, Links
<1>2. NoEntry \in Entry
    BY <1>1 DEF NoEntry, Entry
<1>3. Shaped'
    BY <1>2 DEF RolledBack, Shaped, PC
<1>4. Captured(d)' /\ Staged(d)'
    BY DEF RolledBack, Shaped, Captured, Staged, RecordsAt, NoEntry
<1>5. ASSUME NEW e \in Id, e # d PROVE Captured(e)' /\ Staged(e)'
    BY <1>5, OthersStayBound DEF RolledBack, Shaped
<1> QED BY <1>3, <1>4, <1>5

LEMMA DispatchKeepsBinding ==
    ASSUME BindingInv, NEW d \in Id,
           Ask(d) \/ WriteFiles(d) \/ PolicyChanged(d) \/ Launch(d) \/ WorkerStarts(d)
    PROVE  BindingInv'
<1> USE DEF BindingInv
<1>1. CASE Ask(d)
    <2>1. PICK call \in Calls, request \in Requests :
              ask' = [ask EXCEPT ![d] =
                  [request |-> request, resolved |-> Resolve(policy, request),
                   cap |-> DispatcherCap(call), parent |-> Parent(call),
                   parentSession |-> ResolveParentSession(LineageInputs(call)),
                   parentDispatch |-> ResolveParentDispatch(LineageInputs(call))]]
        BY <1>1 DEF Ask
    <2>2. ask'[d].parentSession \in Links /\ ask'[d].parentDispatch \in Links
        BY <2>1, LinksAreLinks DEF Shaped
    <2>3. /\ pc[d] = "idle" /\ pc' = [pc EXCEPT ![d] = "provision"]
          /\ there' = [there EXCEPT ![d] = TRUE]
          /\ UNCHANGED <<entry, pending, worker, captured, mapping, hand>>
        BY <1>1 DEF Ask
    <2>4. Shaped'
        BY <2>1, <2>2, <2>3 DEF Shaped, PC
    <2>5. Captured(d)' /\ Staged(d)'
        BY <2>3 DEF Shaped, Captured, Staged, RecordsAt
    <2>6. ASSUME NEW e \in Id, e # d PROVE Captured(e)' /\ Staged(e)'
        BY <2>3, <2>6, OthersStayBound DEF Shaped
    <2> QED BY <2>4, <2>5, <2>6
<1>2. CASE WriteFiles(d)
    <2> DEFINE new == EntryOfDispatch(d, NoId, ask[d].parentSession, ask[d].parentDispatch)
    <2>1. /\ pc[d] = "provision" /\ pc' = [pc EXCEPT ![d] = "launch"]
          /\ ask' = [ask EXCEPT ![d] = Unset]
          /\ entry' = [entry EXCEPT ![d] = new]
          /\ pending' = [pending EXCEPT ![d] = TRUE]
          /\ UNCHANGED <<there, worker, captured, mapping, hand>>
        BY <1>2 DEF WriteFiles
    <2>2. new \in Entry /\ new.session = NoId
        BY <2>1 DEF Shaped, EntryOfDispatch, Entry
    <2> HIDE DEF new
    <2>3. Shaped'
        BY <2>1, <2>2 DEF Shaped, PC
    <2>4. Captured(d)' /\ Staged(d)'
        BY <2>1, <2>2 DEF Shaped, Captured, Staged, RecordsAt
    <2>5. ASSUME NEW e \in Id, e # d PROVE Captured(e)' /\ Staged(e)'
        BY <2>1, <2>5, OthersStayBound DEF Shaped
    <2> QED BY <2>3, <2>4, <2>5
<1>3. CASE PolicyChanged(d)
    BY <1>3, RollbackKeepsBinding DEF PolicyChanged
<1>4. CASE Launch(d)
    <2>1. Shaped'
        BY <1>4 DEF Launch, Shaped, PC
    <2>2. Captured(d)' /\ Staged(d)'
        BY <1>4 DEF Launch, Shaped, Captured, Staged, RecordsAt
    <2>3. ASSUME NEW e \in Id, e # d PROVE Captured(e)' /\ Staged(e)'
        BY <1>4, <2>3, OthersStayBound DEF Launch, Shaped
    <2> QED BY <2>1, <2>2, <2>3
<1>5. CASE WorkerStarts(d)
    <2>1. Shaped'
        BY <1>5 DEF WorkerStarts, Shaped, PC
    <2>2. Captured(d)' /\ Staged(d)'
        BY <1>5 DEF WorkerStarts, Shaped, Captured, Staged, RecordsAt
    <2>3. ASSUME NEW e \in Id, e # d PROVE Captured(e)' /\ Staged(e)'
        BY <1>5, <2>3, OthersStayBound DEF WorkerStarts, Shaped
    <2> QED BY <2>1, <2>2, <2>3
<1> QED BY <1>1, <1>2, <1>3, <1>4, <1>5

LEMMA RecordsAreSessions ==
    ASSUME NEW d \in Id PROVE RecordsAt(d) \subseteq Session
BY DEF RecordsAt, Session

LEMMA CaptureKeepsBinding ==
    ASSUME BindingInv, NEW d \in Id,
           Capture(d) \/ CaptureFails(d) \/ WriteMapping(d) \/ CloseWindow(d)
    PROVE  BindingInv'
<1> USE DEF BindingInv
<1>1. CASE Capture(d)
    <2>1. PICK s \in RecordsAt(d) :
              /\ captured' = [captured EXCEPT ![d] = s]
              /\ \/ UNCHANGED entry
                 \/ entry' = [entry EXCEPT ![d] = Completed(@, s)]
        BY <1>1 DEF Capture
    <2>2. /\ pc[d] = "capture" /\ pc' = [pc EXCEPT ![d] = "map"]
          /\ UNCHANGED <<ask, there, pending, worker, mapping, hand>>
        BY <1>1 DEF Capture
    <2>3. s \in Session /\ s # NoId
        BY <2>1, RecordsAreSessions, NamesDiffer
    <2>4. entry[d] \in Entry /\ entry[d].session = NoId
        BY <2>2 DEF Shaped, Captured, Staged
    <2>5. Completed(entry[d], s) \in Entry /\ Completed(entry[d], s).session = s
        BY <2>3, <2>4 DEF Completed, Entry
    <2>6. \E new \in Entry : new.session \in {NoId, s} /\ entry' = [entry EXCEPT ![d] = new]
        <3>1. CASE UNCHANGED entry
            <4>1. entry' = [entry EXCEPT ![d] = entry[d]]
                BY <3>1 DEF Shaped
            <4> QED BY <2>4, <4>1
        <3>2. CASE entry' = [entry EXCEPT ![d] = Completed(@, s)]
            BY <2>5, <3>2
        <3> QED BY <2>1, <3>1, <3>2
    <2>7. PICK new \in Entry : new.session \in {NoId, s} /\ entry' = [entry EXCEPT ![d] = new]
        BY <2>6
    <2>8. Shaped'
        BY <2>1, <2>2, <2>3, <2>7 DEF Shaped, PC
    <2>9. Captured(d)' /\ Staged(d)'
        BY <2>1, <2>2, <2>3, <2>7 DEF Shaped, Captured, Staged, RecordsAt
    <2>10. ASSUME NEW e \in Id, e # d PROVE Captured(e)' /\ Staged(e)'
        BY <2>1, <2>2, <2>7, <2>10, OthersStayBound DEF Shaped
    <2> QED BY <2>8, <2>9, <2>10
<1>2. CASE CaptureFails(d)
    BY <1>2, RollbackKeepsBinding DEF CaptureFails
<1>3. CASE WriteMapping(d)
    <2>1. Shaped'
        BY <1>3 DEF WriteMapping, Shaped, PC
    <2>2. Captured(d)' /\ Staged(d)'
        BY <1>3 DEF WriteMapping, Shaped, Captured, Staged, RecordsAt
    <2>3. ASSUME NEW e \in Id, e # d PROVE Captured(e)' /\ Staged(e)'
        BY <1>3, <2>3, OthersStayBound DEF WriteMapping, Shaped
    <2> QED BY <2>1, <2>2, <2>3
<1>4. CASE CloseWindow(d)
    <2>1. Shaped'
        BY <1>4 DEF CloseWindow, Shaped, PC
    <2>2. Captured(d)' /\ Staged(d)'
        BY <1>4 DEF CloseWindow, Shaped, Captured, Staged, RecordsAt
    <2>3. ASSUME NEW e \in Id, e # d PROVE Captured(e)' /\ Staged(e)'
        BY <1>4, <2>3, OthersStayBound DEF CloseWindow, Shaped
    <2> QED BY <2>1, <2>2, <2>3
<1> QED BY <1>1, <1>2, <1>3, <1>4

(* What others do: a worker ends, an instance is reaped and settled, a       *)
(* dispatch is killed, a file breaks, somebody starts a session.             *)
LEMMA WorldKeepsBinding ==
    ASSUME BindingInv, NEW d \in Id,
           \/ StartByHand(d) \/ WorkerEnds(d) \/ ReapInstance(d) \/ SettleMapping(d)
           \/ Killed(d) \/ FileFault(d)
    PROVE  BindingInv'
<1> USE DEF BindingInv
<1>1. CASE StartByHand(d)
    <2>1. Shaped'
        BY <1>1 DEF StartByHand, Shaped, PC
    <2>2. ASSUME NEW e \in Id PROVE Captured(e)' /\ Staged(e)'
        BY <1>1, <2>2, NamesDiffer DEF StartByHand, Shaped, Captured, Staged, RecordsAt, Session
    <2> QED BY <2>1, <2>2
<1>2. CASE WorkerEnds(d)
    <2>1. Shaped'
        BY <1>2 DEF WorkerEnds, Shaped, PC
    <2>2. Captured(d)' /\ Staged(d)'
        BY <1>2 DEF WorkerEnds, Shaped, Captured, Staged, RecordsAt
    <2>3. ASSUME NEW e \in Id, e # d PROVE Captured(e)' /\ Staged(e)'
        BY <1>2, <2>3, OthersStayBound DEF WorkerEnds, Shaped
    <2> QED BY <2>1, <2>2, <2>3
<1>3. CASE ReapInstance(d)
    <2>1. Shaped'
        BY <1>3 DEF ReapInstance, Shaped, PC
    <2>2. mapping[d] # NoId
        BY <1>3, NamesDiffer DEF ReapInstance, Session
    <2>3. Captured(d)' /\ Staged(d)'
        BY <1>3, <2>2 DEF ReapInstance, Shaped, Captured, Staged, RecordsAt
    <2>4. ASSUME NEW e \in Id, e # d PROVE Captured(e)' /\ Staged(e)'
        BY <1>3, <2>4, OthersStayBound DEF ReapInstance, Shaped
    <2> QED BY <2>1, <2>3, <2>4
<1>4. CASE SettleMapping(d)
    <2>1. Shaped'
        BY <1>4 DEF SettleMapping, Shaped, PC
    <2>2. Captured(d)' /\ Staged(d)'
        BY <1>4 DEF SettleMapping, Shaped, Captured, Staged, RecordsAt
    <2>3. ASSUME NEW e \in Id, e # d PROVE Captured(e)' /\ Staged(e)'
        BY <1>4, <2>3, OthersStayBound DEF SettleMapping, Shaped
    <2> QED BY <2>1, <2>2, <2>3
<1>5. CASE Killed(d)
    <2>1. Shaped'
        BY <1>5 DEF Killed, Shaped, PC
    <2>2. Captured(d)' /\ Staged(d)'
        BY <1>5 DEF Killed, Shaped, Captured, Staged, RecordsAt
    <2>3. ASSUME NEW e \in Id, e # d PROVE Captured(e)' /\ Staged(e)'
        BY <1>5, <2>3, OthersStayBound DEF Killed, Shaped
    <2> QED BY <2>1, <2>2, <2>3
<1>6. CASE FileFault(d)
    <2>1. UNCHANGED <<pc, ask, there, pending, worker, captured, mapping, hand>>
        BY <1>6 DEF FileFault
    <2>2. entry' = entry \/ entry' = [entry EXCEPT ![d].state = "malformed"]
        BY <1>6 DEF FileFault
    <2>3. entry' \in [Id -> Entry] /\ \A e \in Id : entry'[e].session = entry[e].session
        BY <2>2 DEF Shaped, Entry
    <2>4. Shaped'
        BY <2>1, <2>3 DEF Shaped
    <2>5. ASSUME NEW e \in Id PROVE Captured(e)' /\ Staged(e)'
        BY <2>1, <2>3, <2>5, OthersStayBound
    <2> QED BY <2>4, <2>5
<1> QED BY <1>1, <1>2, <1>3, <1>4, <1>5, <1>6

LEMMA NextKeepsBinding == BindingInv /\ [Next]_vars => BindingInv'
<1> SUFFICES ASSUME BindingInv, [Next]_vars PROVE BindingInv'
    OBVIOUS
<1>1. CASE EditPolicy \/ UNCHANGED vars
    <2>1. UNCHANGED <<pc, ask, there, pending, worker, captured, mapping, hand, entry>>
        BY <1>1 DEF EditPolicy, vars
    <2> QED BY <2>1 DEF BindingInv, Shaped, Captured, Staged, RecordsAt
<1>2. CASE \E d \in Id : \/ Ask(d) \/ WriteFiles(d) \/ PolicyChanged(d) \/ Launch(d)
                         \/ WorkerStarts(d)
    BY <1>2, DispatchKeepsBinding
<1>3. CASE \E d \in Id : Capture(d) \/ CaptureFails(d) \/ WriteMapping(d) \/ CloseWindow(d)
    BY <1>3, CaptureKeepsBinding
<1>4. CASE \E d \in Id : \/ StartByHand(d) \/ WorkerEnds(d) \/ ReapInstance(d) \/ SettleMapping(d)
                         \/ Killed(d) \/ FileFault(d)
    BY <1>4, WorldKeepsBinding
<1> QED BY <1>1, <1>2, <1>3, <1>4 DEF Next

-----------------------------------------------------------------------------
(* Whoever is bound was captured, or is the only one with a record.          *)
LEMMA BoundIsKnown ==
    ASSUME BindingInv, NEW d \in Id, NEW s \in BoundSessions(d)
    PROVE  s = captured[d] \/ RecordsAt(d) = {s}
<1>1. s \in Session /\ s # NoId /\ CheckSession(s, d).state = "bound"
    BY NamesDiffer DEF BoundSessions
<1>2. \/ mapping[d] = s
      \/ entry[d].session = s
      \/ BoundByRecords(s, d)
    BY <1>1 DEF CheckSession, NotDispatched
<1> QED BY <1>1, <1>2 DEF BindingInv, Captured, BoundByRecords

LEMMA AtMostOneIsBound ==
    ASSUME BindingInv, NEW d \in Id
    PROVE  Cardinality(BoundSessions(d)) <= 1
<1>1. CASE BoundSessions(d) = {}
    BY <1>1, FS_EmptySet
<1>2. CASE BoundSessions(d) # {}
    <2>1. PICK s \in BoundSessions(d) : TRUE
        BY <1>2
    <2>2. ASSUME NEW t \in BoundSessions(d) PROVE t = s
        <3>1. s \in Session /\ t \in Session /\ s # NoId /\ t # NoId
            BY NamesDiffer DEF BoundSessions
        <3>2. captured[d] # NoId => captured[d] \in RecordsAt(d)
            BY DEF BindingInv, Captured
        <3> QED BY <3>1, <3>2, BoundIsKnown
    <2>3. BoundSessions(d) = {s}
        BY <2>1, <2>2
    <2>4. Cardinality({s}) = 1
        BY FS_Singleton
    <2> QED BY <2>3, <2>4
<1> QED BY <1>1, <1>2

(* Another dispatch's mapping never names this one's worker.                 *)
LEMMA MappedToItself ==
    ASSUME BindingInv, NEW d \in Id
    PROVE  DispatchOf(d) \in {NoId, d}
<1>1. ASSUME NEW e \in Id, mapping[e] = d PROVE e = d
    <2>1. d # NoId /\ d # HandSession
        BY NamesDiffer DEF Session
    <2>2. captured[e] = d /\ captured[e] \in RecordsAt(e)
        BY <1>1, <2>1 DEF BindingInv, Captured
    <2> QED BY <2>1, <2>2 DEF RecordsAt
<1> QED BY <1>1 DEF DispatchOf

LEMMA WorkerIsBound ==
    ASSUME BindingInv, NEW d \in Id, there[d], Usable(rec[d]), worker[d] = "running",
           pc[d] # "dead", hand # d
    PROVE  d \in BoundSessions(d)
<1>1. d \in Session /\ d # NoId
    BY NamesDiffer DEF Session
<1>2. RecordsAt(d) = {d}
    BY DEF RecordsAt
<1>3. \A binding : BindToRecord(binding, d).state = "bound"
    BY DEF BindToRecord, Usable
<1>4. CASE mapping[d] = d
    <2>1. CheckSession(d, d).state = "bound"
        BY <1>3, <1>4, MappedToItself DEF CheckSession
    <2> QED BY <1>1, <2>1 DEF BoundSessions
<1>5. CASE mapping[d] # d
    <2>1. captured[d] \in {NoId, d} /\ entry[d].session \in {NoId, captured[d]}
        BY <1>2 DEF BindingInv, Captured
    <2>2. pc[d] \in {"capture", "map"}
        BY <1>5, <2>1 DEF BindingInv, Shaped, PC, Staged
    <2>3. pending[d]
        BY <2>2 DEF BindingInv, Staged
    <2>4. DispatchOf(d) \in {NoId, d}
        BY MappedToItself
    <2>5. (Readable(d) /\ entry[d].session = d) \/ BoundByRecords(d, d)
        BY <1>2, <2>1, <2>2 DEF BoundByRecords
    <2>6. CheckSession(d, d).state = "bound"
        BY <1>3, <1>5, <2>3, <2>4, <2>5 DEF CheckSession
    <2> QED BY <1>1, <2>6 DEF BoundSessions
<1> QED BY <1>4, <1>5

(* No two sessions are taken for one dispatch's own, whoever starts one      *)
(* beside its worker, whatever breaks and whoever is killed; and the worker  *)
(* of a dispatch that goes on is the one from its first command on: by the   *)
(* agent's records until the mapping or the entry names it, and the window   *)
(* is not closed before (cli/authority_check.go bindBeforeMapping,           *)
(* cli/dispatch_capture_window.go).                                          *)
THEOREM OneSessionIsTaken == Spec => []OneSessionIsBound
<1>1. BindingInv => OneSessionIsBound
    <2> SUFFICES ASSUME BindingInv, NEW d \in Id, there[d]
                 PROVE  /\ Cardinality(BoundSessions(d)) <= 1
                        /\ Usable(rec[d]) /\ worker[d] = "running" /\ pc[d] # "dead" /\ hand # d
                               => BoundSessions(d) = {d}
        BY DEF OneSessionIsBound
    <2>1. Cardinality(BoundSessions(d)) <= 1
        BY AtMostOneIsBound
    <2>2. ASSUME Usable(rec[d]), worker[d] = "running", pc[d] # "dead", hand # d
          PROVE  BoundSessions(d) = {d}
        <3>1. d \in BoundSessions(d)
            BY <2>2, WorkerIsBound
        <3>2. RecordsAt(d) = {d}
            BY <2>2 DEF RecordsAt
        <3>3. ASSUME NEW s \in BoundSessions(d) PROVE s = d
            <4>1. s # NoId
                BY NamesDiffer DEF BoundSessions
            <4>2. captured[d] # NoId => captured[d] \in RecordsAt(d)
                BY DEF BindingInv, Captured
            <4> QED BY <3>2, <4>1, <4>2, BoundIsKnown
        <3> QED BY <3>1, <3>3
    <2> QED BY <2>1, <2>2
<1> QED BY <1>1, InitiallyBound, NextKeepsBinding, PTL DEF Spec

-----------------------------------------------------------------------------
Answers == [ok : BOOLEAN, held : SUBSET Known]

LEMMA DispatchersCapIsAnAnswer ==
    ASSUME NEW d, NEW how, NEW above PROVE DispatchersCap(d, how, above) \in Answers
BY DEF DispatchersCap, NoCap, Answers

(* What dispatchers allow is what its definition says it is: the dispatches  *)
(* on a path become more with every one that is gone up to, and there are    *)
(* only so many.                                                             *)
LEMMA CapIsDefined ==
    ASSUME IsFiniteSet(Id)
    PROVE  \A seen \in SUBSET Id : \A d \in Id : \A how \in How :
               Cap[seen][d][how] =
                   IF d \in seen \/ Cardinality(seen) >= MaxWalkLevels THEN NoCap
                   ELSE DispatchersCap(d, how, Cap[seen \cup {d}])
<1> DEFINE Paths == SUBSET Id
           Allowed == [Id -> [How -> Answers]]
           All == [Paths -> Allowed]
           at(h, seen, d, how) ==
               IF d \in seen \/ Cardinality(seen) >= MaxWalkLevels THEN NoCap
               ELSE DispatchersCap(d, how, h[seen \cup {d}])
           step(h) == [seen \in Paths |-> [d \in Id |-> [how \in How |-> at(h, seen, d, how)]]]
           next == [h \in All |-> step(h)]
           m == [seen \in Paths |-> Cardinality(Id \ seen)]
           first == [seen \in Paths |-> [d \in Id |-> [how \in How |-> NoCap]]]
           spec(f) == f = step(f)
           chosen == CHOOSE f : spec(f)
<1>1. NoCap \in Answers
    BY DEF NoCap, Answers
<1>2. first \in All
    BY <1>1
<1>3. \A h, seen, d, how : at(h, seen, d, how) \in Answers
    BY <1>1, DispatchersCapIsAnAnswer
<1>4. \A h : step(h) \in All
    <2> HIDE DEF at
    <2> QED BY <1>3
<1>5. next \in [All -> All]
    <2> HIDE DEF step, All
    <2> QED BY <1>4
<1>6. m \in [Paths -> Nat] /\ \A seen \in Paths : m[seen] < Cardinality(Id) + 1
    <2>1. ASSUME NEW seen \in Paths
          PROVE  Cardinality(Id \ seen) \in Nat /\ Cardinality(Id \ seen) <= Cardinality(Id)
        BY FS_Subset, FS_CardinalityType
    <2>2. Cardinality(Id) \in Nat
        BY FS_CardinalityType
    <2>3. \A seen \in Paths : m[seen] = Cardinality(Id \ seen)
        OBVIOUS
    <2>4. m \in [Paths -> Nat]
        BY <2>1
    <2>5. ASSUME NEW seen \in Paths PROVE m[seen] < Cardinality(Id) + 1
        <3> HIDE DEF m, Paths
        <3>1. m[seen] = Cardinality(Id \ seen)
            BY <2>3
        <3>2. m[seen] \in Nat /\ m[seen] <= Cardinality(Id)
            BY <2>1, <3>1
        <3> QED BY <2>2, <3>2
    <2> HIDE DEF m
    <2> QED BY <2>4, <2>5
<1>7. ASSUME NEW x \in Paths, NEW h \in All, NEW k \in All, \A y \in Paths : m[y] < m[x] => h[y] = k[y]
      PROVE  next[h][x] = next[k][x]
    <2>1. ASSUME NEW d \in Id, d \notin x PROVE h[x \cup {d}] = k[x \cup {d}]
        <3>1. x \cup {d} \in Paths /\ Id \ (x \cup {d}) = (Id \ x) \ {d} /\ d \in Id \ x
            BY <2>1
        <3>2. IsFiniteSet(Id \ x)
            BY FS_Subset
        <3>3. Cardinality((Id \ x) \ {d}) = Cardinality(Id \ x) - 1 /\ Cardinality(Id \ x) \in Nat
            BY <2>1, <3>2, FS_RemoveElement, FS_CardinalityType
        <3>4. m[x \cup {d}] < m[x]
            <4>1. m[x \cup {d}] = Cardinality((Id \ x) \ {d}) /\ m[x] = Cardinality(Id \ x)
                BY <3>1
            <4> HIDE DEF m
            <4> QED BY <3>3, <4>1
        <3> HIDE DEF m, All
        <3> QED BY <1>7, <3>1, <3>4
    <2>2. \A d \in Id : \A how \in How : at(h, x, d, how) = at(k, x, d, how)
        BY <2>1
    <2>3. step(h)[x] = step(k)[x]
        <3> HIDE DEF at, All
        <3> QED BY <2>2
    <2> HIDE DEF step, All
    <2> QED BY <2>3
<1>8. PICK h \in All : \A x \in Paths : h[x] = next[h][x]
    <2>1. ByLess(Paths, All, m, next)
        <3> HIDE DEF Paths, All, next, m
        <3> QED BY <1>7 DEF ByLess
    <2>2. Cardinality(Id) + 1 \in Nat
        BY FS_CardinalityType
    <2>3. HasSolution(Paths, All, next)
        <3> HIDE DEF Paths, All, next, m, first
        <3> QED BY <1>2, <1>5, <1>6, <2>1, <2>2, ByMeasure
    <2> HIDE DEF Paths, All, next
    <2> QED BY <2>3 DEF HasSolution
<1>9. spec(h)
    <2>1. \A x \in Paths : h[x] = step(h)[x]
        <3> HIDE DEF All, step
        <3> QED BY <1>8
    <2>2. step(h) \in All
        <3> HIDE DEF All, step
        <3> QED BY <1>4
    <2> HIDE DEF step, Allowed
    <2> QED BY <2>1, <2>2
<1>10. spec(chosen)
    <2> HIDE DEF spec
    <2> QED BY <1>9
<1>11. Cap = chosen
    BY DEF Cap
<1> HIDE DEF chosen
<1>12. \A seen \in Paths : \A d \in Id : \A how \in How : chosen[seen][d][how] = at(chosen, seen, d, how)
    <2>1. chosen = step(chosen)
        BY <1>10
    <2>2. \A seen \in Paths : \A d \in Id : \A how \in How :
              step(chosen)[seen][d][how] = at(chosen, seen, d, how)
        <3> HIDE DEF at
        <3> QED OBVIOUS
    <2> HIDE DEF step, at
    <2> QED BY <2>1, <2>2
<1> QED BY <1>11, <1>12

-----------------------------------------------------------------------------
(* The dispatches an entry's links lead to, whatever their mappings say.     *)
Linked(p, link, caller) ==
    \/ link.id = p
    \/ /\ caller.source = "handed"
       /\ caller.id = p \/ (caller.id = HandSession /\ hand = p)

(* before[d]: dispatches that were made before d, all that its links lead to *)
(* with what was made before those.                                          *)
ComesAfter(before, d, link, caller) ==
    /\ link.id \in Id \cup {NoId}
    /\ caller.source = "handed" /\ caller.id = HandSession => hand # NoId
    /\ \A p \in Id : Linked(p, link, caller) => p \in before[d] /\ before[p] \subseteq before[d]

Ordered(before) ==
    \A d \in Id :
        /\ d \notin before[d]
        /\ \A e \in before[d] : pc[e] # "idle"
        /\ pc[d] = "provision" => ComesAfter(before, d, ask[d].parentDispatch, ask[d].parentSession)
        /\ ComesAfter(before, d, entry[d].parentDispatch, entry[d].parentSession)

(* What a dispatch's record and entry tell of whose grants capped it.        *)
HandedBy(p, caller) == captured[p] # NoId /\ caller = Link(captured[p], "handed")

Lawful(d, parent, link, caller) ==
    /\ parent # NoId => link.id = parent /\ parent \in dispatchers[d]
    /\ parent = NoId => link.id = NoId \/ link.source = "mapped"
    /\ \A p \in dispatchers[d] : p = parent \/ link.id = p \/ HandedBy(p, caller)
    /\ link.source = "mapped" =>
           /\ parent = NoId /\ link.id \in Id /\ dispatchers[d] = {link.id}
           /\ HandedBy(link.id, caller)

CapInv ==
    /\ DOMAIN rec = Id /\ dispatchers \in [Id -> SUBSET Id]
    /\ hand # NoId => pc[hand] # "idle"
    /\ \A d \in Id :
           /\ pc[d] = "idle" => rec[d].state # "ok"
           /\ pc[d] = "provision" =>
                  Lawful(d, ask[d].parent, ask[d].parentDispatch, ask[d].parentSession)
           /\ rec[d].state = "ok" =>
                  Lawful(d, rec[d].parent, entry[d].parentDispatch, entry[d].parentSession)
    /\ \E before \in [Id -> SUBSET Id] : Ordered(before)

LEMMA FoundAreLinked ==
    ASSUME BindingInv, NEW d \in Id, NEW how, NEW p \in DispatchersOf(d, how).ids,
           entry[d].parentDispatch.id \in Id \cup {NoId}
    PROVE  p \in Id /\ Linked(p, entry[d].parentDispatch, entry[d].parentSession)
<1>1. \/ p = entry[d].parentDispatch.id /\ p # NoId
      \/ p \in Id /\ mapping[p] # NoId /\ entry[d].parentSession = Link(mapping[p], "handed")
    BY DEF DispatchersOf
<1>2. CASE p = entry[d].parentDispatch.id /\ p # NoId
    BY <1>2 DEF Linked
<1>3. CASE p \in Id /\ mapping[p] # NoId /\ entry[d].parentSession = Link(mapping[p], "handed")
    <2>1. mapping[p] \in RecordsAt(p)
        BY <1>3 DEF BindingInv, Captured
    <2>2. mapping[p] = p \/ (mapping[p] = HandSession /\ hand = p)
        BY <2>1 DEF RecordsAt
    <2> QED BY <1>3, <2>2 DEF Linked, Link
<1> QED BY <1>1, <1>2, <1>3

LEMMA MostAgrees ==
    ASSUME NEW p, NEW a, NEW b, \A how \in How : a[p][how] = b[p][how]
    PROVE  MostOf(p, a) = MostOf(p, b)
BY DEF MostOf, HeldBy, How

LEMMA CapAgrees ==
    ASSUME NEW d, NEW how, NEW a, NEW b,
           \A p \in DispatchersOf(d, how).ids : MostOf(p, a) = MostOf(p, b)
    PROVE  DispatchersCap(d, how, a) = DispatchersCap(d, how, b)
<1> DEFINE ids == DispatchersOf(d, how).ids
<1>1. {MostOf(p, a) : p \in ids} = {MostOf(p, b) : p \in ids}
    OBVIOUS
<1> QED BY <1>1 DEF DispatchersCap

(* What a dispatch's dispatchers allow it is the same whichever dispatch is  *)
(* asked about: no path comes back to where it began, and none is as long as *)
(* the walk's limit.                                                         *)
LEMMA PathsAgree ==
    ASSUME IsFiniteSet(Id), Cardinality(Id) <= MaxWalkLevels, BindingInv,
           NEW before \in [Id -> SUBSET Id], Ordered(before)
    PROVE  \A d \in Id : \A how \in How : \A seen \in SUBSET Id :
               seen \cap (before[d] \cup {d}) = {} => Cap[seen][d][how] = Cap[{}][d][how]
<1> DEFINE Agreed(d) == \A how \in How : \A seen \in SUBSET Id :
               seen \cap (before[d] \cup {d}) = {} => Cap[seen][d][how] = Cap[{}][d][how]
           P == {n \in Nat : \A d \in Id : Cardinality(before[d]) < n => Agreed(d)}
<1>1. \A d \in Id : IsFiniteSet(before[d]) /\ Cardinality(before[d]) \in Nat
    BY FS_Subset, FS_CardinalityType
<1>2. Cardinality(Id) \in Nat /\ MaxWalkLevels \in Nat
    BY FS_CardinalityType, WalkLimit DEF WalkLimit
<1>3. ASSUME NEW seen \in SUBSET Id, NEW d \in Id \ seen
      PROVE  ~(Cardinality(seen) >= MaxWalkLevels)
    <2>1. seen \in SUBSET (Id \ {d}) /\ IsFiniteSet(Id \ {d})
        BY FS_Subset
    <2>2. Cardinality(seen) <= Cardinality(Id \ {d}) /\ Cardinality(seen) \in Nat
        BY <2>1, FS_Subset, FS_CardinalityType
    <2>3. Cardinality(Id \ {d}) = Cardinality(Id) - 1
        BY FS_RemoveElement
    <2> QED BY <1>2, <2>2, <2>3
<1>4. Nat \subseteq P
    <2>1. 0 \in P
        <3>1. \A d \in Id : ~(Cardinality(before[d]) < 0)
            BY <1>1
        <3> HIDE DEF Agreed
        <3> QED BY <3>1
    <2>2. ASSUME NEW n \in Nat, n \in P PROVE n + 1 \in P
        <3>1. ASSUME NEW d \in Id, Cardinality(before[d]) < n + 1,
                     NEW how \in How, NEW seen \in SUBSET Id, seen \cap (before[d] \cup {d}) = {}
              PROVE  Cap[seen][d][how] = Cap[{}][d][how]
            <4>1. ASSUME NEW p \in DispatchersOf(d, how).ids
                  PROVE  MostOf(p, Cap[seen \cup {d}]) = MostOf(p, Cap[{} \cup {d}])
                <5>1. p \in before[d] /\ before[p] \subseteq before[d] /\ p \in Id
                    BY FoundAreLinked DEF Ordered, ComesAfter
                <5>2. Cardinality(before[p]) < n
                    <6>1. p \notin before[p]
                        BY <5>1 DEF Ordered
                    <6>2. before[p] \subseteq before[d] \ {p} /\ IsFiniteSet(before[d] \ {p})
                        BY <1>1, <5>1, <6>1, FS_Subset
                    <6>3. Cardinality(before[p]) <= Cardinality(before[d] \ {p})
                        BY <6>2, FS_Subset
                    <6>4. Cardinality(before[d] \ {p}) = Cardinality(before[d]) - 1
                        BY <1>1, <5>1, FS_RemoveElement
                    <6>5. Cardinality(before[p]) \in Nat /\ Cardinality(before[d]) \in Nat
                        BY <1>1, <5>1
                    <6> QED BY <3>1, <6>3, <6>4, <6>5
                <5>3. Agreed(p)
                    BY <2>2, <5>1, <5>2
                <5>4. d \notin before[d] /\ p # d
                    BY <5>1 DEF Ordered
                <5>5. (seen \cup {d}) \cap (before[p] \cup {p}) = {}
                    BY <3>1, <5>1, <5>4
                <5>6. ({} \cup {d}) \cap (before[p] \cup {p}) = {}
                    BY <5>1, <5>4
                <5>7. \A h \in How : Cap[seen \cup {d}][p][h] = Cap[{} \cup {d}][p][h]
                    BY <5>3, <5>5, <5>6
                <5> QED BY <5>7, MostAgrees
            <4>2. DispatchersCap(d, how, Cap[seen \cup {d}]) = DispatchersCap(d, how, Cap[{} \cup {d}])
                BY <4>1, CapAgrees
            <4>3. d \notin seen /\ d \notin {} /\ {} \in SUBSET Id
                BY <3>1
            <4>4. Cap[seen][d][how] = DispatchersCap(d, how, Cap[seen \cup {d}])
                BY <1>3, <4>3, CapIsDefined
            <4>5. Cap[{}][d][how] = DispatchersCap(d, how, Cap[{} \cup {d}])
                BY <1>3, <4>3, CapIsDefined
            <4> QED BY <4>2, <4>4, <4>5
        <3> QED BY <3>1
    <2> HIDE DEF P
    <2> QED BY <2>1, <2>2, EveryNumber
<1>5. ASSUME NEW d \in Id PROVE Agreed(d)
    <2>1. Cardinality(before[d]) + 1 \in P
        BY <1>1, <1>4
    <2>2. Cardinality(before[d]) < Cardinality(before[d]) + 1
        BY <1>1
    <2> HIDE DEF Agreed
    <2> QED BY <2>1, <2>2
<1> QED BY <1>5

(* Whose grants cap a dispatch today are dispatchers that are found; and one *)
(* that is found is among them, unless there are none.                       *)
LEMMA CappingAreFound ==
    ASSUME BindingInv, CapInv, NEW d \in Id, rec[d].state = "ok",
           NEW p \in Id, Caps(p, d)
    PROVE  p \in DispatchersOf(d, "instance").ids /\ DispatchersOf(d, "instance").ok
<1> DEFINE link == entry[d].parentDispatch
           caller == entry[d].parentSession
<1>1. Lawful(d, rec[d].parent, link, caller)
    BY DEF CapInv
<1>2. p # NoId
    BY NamesDiffer DEF Session
<1>3. mapping[p] # NoId => mapping[p] = captured[p]
    BY DEF BindingInv, Captured
<1>4. \/ p = rec[d].parent
      \/ link.id = p
      \/ mapping[p] # NoId /\ caller = Link(mapping[p], "handed")
    BY <1>1, <1>3 DEF Caps, Lawful, HandedBy
<1>5. link.id = p \/ (mapping[p] # NoId /\ caller = Link(mapping[p], "handed"))
    BY <1>1, <1>2, <1>4 DEF Lawful
<1>6. p \in DispatchersOf(d, "instance").ids
    BY <1>2, <1>5 DEF DispatchersOf
<1>7. \/ rec[d].parent # NoId /\ link.id = rec[d].parent
      \/ rec[d].parent = NoId /\ (link.id = NoId \/ link.source = "mapped")
    BY <1>1 DEF Lawful
<1>8. ~(link.id = NoId /\ caller.source \in {"observed", "unverified"})
    BY <1>2, <1>5 DEF Link
<1>9. DispatchersOf(d, "instance").ok
    BY <1>7, <1>8 DEF DispatchersOf, RecordOf
<1> QED BY <1>6, <1>9

LEMMA FoundAreCapping ==
    ASSUME BindingInv, CapInv, NEW d \in Id, rec[d].state = "ok",
           NEW p \in DispatchersOf(d, "instance").ids
    PROVE  p \in Id /\ (Caps(p, d) \/ \A q \in Id : ~Caps(q, d))
<1> DEFINE link == entry[d].parentDispatch
           caller == entry[d].parentSession
<1>1. Lawful(d, rec[d].parent, link, caller)
    BY DEF CapInv
<1>2. link.id \in Id \cup {NoId}
    BY DEF CapInv, Ordered, ComesAfter
<1>3. \/ p = link.id /\ p # NoId
      \/ p \in Id /\ mapping[p] # NoId /\ caller = Link(mapping[p], "handed")
    BY DEF DispatchersOf
<1>4. CASE p \in Id /\ mapping[p] # NoId /\ caller = Link(mapping[p], "handed")
    BY <1>4 DEF Caps
<1>5. CASE p = link.id /\ rec[d].parent # NoId
    BY <1>1, <1>2, <1>3, <1>5 DEF Lawful, Caps
<1>6. CASE p = link.id /\ p # NoId /\ rec[d].parent = NoId
    <2>1. dispatchers[d] = {p} /\ HandedBy(p, caller) /\ p \in Id
        BY <1>1, <1>6 DEF Lawful
    <2>2. CASE mapping[p] # NoId
        BY <2>1, <2>2 DEF Caps
    <2>3. CASE mapping[p] = NoId
        <3>1. ASSUME NEW q \in Id, Caps(q, d) PROVE FALSE
            <4>1. q # NoId
                BY NamesDiffer DEF Session
            <4>2. mapping[q] # NoId /\ caller = Link(mapping[q], "handed")
                BY <1>6, <2>1, <2>3, <3>1, <4>1 DEF Caps
            <4>3. captured[q] = captured[p] /\ captured[q] \in RecordsAt(q) /\ captured[p] \in RecordsAt(p)
                BY <2>1, <4>2 DEF HandedBy, Link, BindingInv, Captured
            <4>4. q = p
                BY <2>1, <4>3, NamesDiffer DEF RecordsAt
            <4> QED BY <2>3, <4>2, <4>4
        <3> QED BY <2>1, <3>1
    <2> QED BY <2>2, <2>3
<1> QED BY <1>3, <1>4, <1>5, <1>6

LEMMA CurrentWithinCap ==
    ASSUME NEW p, NEW record, NEW cap PROVE CurrentGrant(p, record, cap) \subseteq cap
BY DEF CurrentGrant

LEMMA HeldIsWithin ==
    ASSUME IsFiniteSet(Id), Cardinality(Id) <= MaxWalkLevels, BindingInv, CapInv
    PROVE  WithinDispatcher
<1> SUFFICES ASSUME NEW d \in Id, there[d], Usable(rec[d])
             PROVE  \/ /\ Readable(d)
                       /\ \A p \in Id : Caps(p, d) =>
                              /\ Established(p) \/ PassedOver(p)
                              /\ Established(p) => Held(d, "instance") \subseteq Today(p)
                    \/ /\ ~Readable(d) \/ \E p \in Id : Caps(p, d) /\ ~Established(p)
                       /\ Held(d, "instance") \subseteq Recorded(d)
    BY DEF WithinDispatcher
<1> DEFINE cap == Cap[{}][d]["instance"]
           found == DispatchersOf(d, "instance")
           above == Cap[{d}]
<1>1. rec[d].state = "ok" /\ "instance" \in How
    BY DEF Usable, How
<1>2. cap = DispatchersCap(d, "instance", above)
    <2>1. d \notin {} /\ {} \in SUBSET Id /\ {} \cup {d} = {d}
        OBVIOUS
    <2>2. ~(Cardinality({}) >= MaxWalkLevels)
        BY FS_EmptySet, WalkLimit DEF WalkLimit
    <2> QED BY <1>1, <2>1, <2>2, CapIsDefined
<1> HIDE DEF cap, found, above
<1>3. ~cap.ok => Held(d, "instance") \subseteq Recorded(d)
    BY CurrentWithinCap DEF Held, HeldBy, Recorded, RecordOf, cap
<1>4. cap.ok => Held(d, "instance") \subseteq cap.held
    BY CurrentWithinCap DEF Held, HeldBy, cap
<1>5. CASE ~Readable(d)
    <2>1. ~cap.ok
        BY <1>2, <1>5 DEF DispatchersCap, NoCap
    <2> QED BY <1>3, <1>5, <2>1
<1>6. CASE Readable(d) /\ ~found.ok
    BY <1>1, <1>6, CappingAreFound DEF found
<1>7. CASE Readable(d) /\ found.ok
    <2>1. /\ cap.ok = \A p \in found.ids : MostOf(p, above).ok
          /\ cap.held = {a \in Known : \A p \in found.ids : a \in MostOf(p, above).held}
        BY <1>2, <1>7 DEF DispatchersCap, found
    <2>2. CASE cap.ok
        <3>1. ASSUME NEW p \in Id, Caps(p, d)
              PROVE  /\ Established(p) \/ PassedOver(p)
                     /\ Established(p) => Held(d, "instance") \subseteq Today(p)
            <4>1. p \in found.ids
                BY <1>1, <3>1, CappingAreFound DEF found
            <4>2. MostOf(p, above).ok /\ Held(d, "instance") \subseteq MostOf(p, above).held
                BY <1>4, <2>1, <2>2, <4>1
            <4>3. Established(p) \/ PassedOver(p)
                BY <4>2 DEF MostOf, NoCap, Established, PassedOver
            <4>4. ASSUME Established(p) PROVE MostOf(p, above).held = Today(p)
                <5> DEFINE how == IF there[p] THEN "instance" ELSE "copy"
                <5>1. how \in How
                    BY DEF How
                <5>2. MostOf(p, above).held = HeldBy(p, how, above[p][how])
                    BY <4>4 DEF MostOf, Established
                <5>3. above[p][how] = Cap[{}][p][how]
                    <6>1. PICK before \in [Id -> SUBSET Id] : Ordered(before)
                        BY DEF CapInv
                    <6>2. p \in before[d] /\ before[p] \subseteq before[d] /\ d \notin before[d]
                        <7>1. entry[d].parentDispatch.id \in Id \cup {NoId}
                            BY <6>1 DEF Ordered, ComesAfter
                        <7>2. Linked(p, entry[d].parentDispatch, entry[d].parentSession)
                            BY <4>1, <7>1, FoundAreLinked DEF found
                        <7> QED BY <6>1, <7>2 DEF Ordered, ComesAfter
                    <6>3. {d} \in SUBSET Id /\ {d} \cap (before[p] \cup {p}) = {}
                        BY <6>2
                    <6> HIDE DEF how
                    <6> QED BY <5>1, <6>1, <6>3, PathsAgree DEF above
                <5> QED BY <5>2, <5>3 DEF Today, Held
            <4> QED BY <4>2, <4>3, <4>4
        <3> QED BY <1>7, <3>1
    <2>3. CASE ~cap.ok
        <3>1. PICK p \in found.ids : ~MostOf(p, above).ok
            BY <2>1, <2>3
        <3>2. p \in Id /\ (Caps(p, d) \/ \A q \in Id : ~Caps(q, d))
            BY <1>1, FoundAreCapping DEF found
        <3>3. ~Established(p)
            BY <3>1 DEF MostOf, Established
        <3> QED BY <1>3, <1>7, <2>3, <3>2, <3>3
    <2> QED BY <2>2, <2>3
<1> QED BY <1>5, <1>6, <1>7

-----------------------------------------------------------------------------
(* What a dispatch resolves names its caller's dispatches, and those are     *)
(* dispatches that have begun.                                               *)
LEMMA CallersNamed ==
    ASSUME BindingInv, CapInv, NEW call \in Calls,
           NEW link, link = ResolveParentDispatch(LineageInputs(call)),
           NEW caller, caller = ResolveParentSession(LineageInputs(call))
    PROVE  /\ Parent(call) # NoId => /\ Parent(call) \in Id /\ rec[Parent(call)].state = "ok"
                                     /\ link.id = Parent(call) /\ link.source # "mapped"
           /\ Parent(call) = NoId =>
                  \/ link = Link(NoId, "none")
                  \/ /\ link = Link(DispatchOf(call.var), "mapped") /\ DispatchOf(call.var) # NoId
                     /\ call.cwd = NoId /\ call.anchor = NoId
           /\ caller.source = "handed" => caller.id = call.var /\ call.var # NoId
           /\ call.cwd = NoId /\ call.var # NoId => caller = Link(call.var, "handed")
<1> DEFINE in == LineageInputs(call)
<1>1. call.var \in Session \cup {NoId} /\ call.cwd \in Id \cup {NoId} /\ call.anchor \in Id \cup {NoId}
    BY DEF Calls
<1>2. Parent(call) # NoId => Parent(call) \in Id /\ rec[Parent(call)].state = "ok"
    BY <1>1 DEF Parent, Usable
<1>3. /\ in.parent = Parent(call) /\ in.sessionVar = call.var
      /\ in.anchored = (call.anchor # NoId) /\ in.cwdInInstance = (call.cwd # NoId)
      /\ in.parentSource = IF Parent(call) = NoId THEN "none"
                           ELSE IF call.anchor # NoId THEN "anchor" ELSE "cwd"
      /\ call.anchor = NoId /\ call.cwd = NoId => in.rootMapped = DispatchOf(call.var)
    BY DEF LineageInputs
<1> HIDE DEF in
<1>4. Parent(call) # NoId => link.id = Parent(call) /\ link.source # "mapped"
    BY <1>3 DEF ResolveParentDispatch, Link, in
<1>5. Parent(call) = NoId =>
          \/ link = Link(NoId, "none")
          \/ /\ link = Link(DispatchOf(call.var), "mapped") /\ DispatchOf(call.var) # NoId
             /\ call.cwd = NoId /\ call.anchor = NoId
    BY <1>3 DEF ResolveParentDispatch, in
<1>6. caller.source = "handed" => caller.id = call.var /\ call.var # NoId
    BY <1>3 DEF ResolveParentSession, Link, in
<1>7. call.cwd = NoId /\ call.var # NoId => caller = Link(call.var, "handed")
    BY <1>3 DEF ResolveParentSession, in
<1> QED BY <1>2, <1>4, <1>5, <1>6, <1>7

(* A session's mapping names the dispatch it was captured for, which has     *)
(* begun; and so has the one whose worker or visitor runs.                   *)
LEMMA MappedHasBegun ==
    ASSUME BindingInv, NEW s, DispatchOf(s) # NoId
    PROVE  /\ DispatchOf(s) \in Id /\ captured[DispatchOf(s)] = s /\ s # NoId
           /\ pc[DispatchOf(s)] # "idle"
<1>1. DispatchOf(s) \in Id /\ mapping[DispatchOf(s)] = s /\ s # NoId
    BY DEF DispatchOf
<1> QED BY <1>1 DEF BindingInv, Captured, Staged

LEMMA CallerHasBegun ==
    ASSUME BindingInv, CapInv, NEW call \in Calls, call.var # NoId
    PROVE  /\ call.var \in Id => pc[call.var] # "idle"
           /\ call.var = HandSession => hand \in Id /\ pc[hand] # "idle"
<1>1. Running(call.var)
    BY DEF Calls
<1>2. call.var \in Id => worker[call.var] = "running"
    BY <1>1 DEF Running
<1>3. call.var = HandSession => hand \in Id
    BY <1>1, NamesDiffer DEF Running, BindingInv, Shaped
<1> QED BY <1>2, <1>3, NamesDiffer DEF BindingInv, Staged, CapInv, Session

LEMMA AskedLawfully ==
    ASSUME BindingInv, CapInv, NEW call \in Calls,
           NEW link, link = ResolveParentDispatch(LineageInputs(call)),
           NEW caller, caller = ResolveParentSession(LineageInputs(call)),
           NEW parent, parent = Parent(call)
    PROVE  /\ parent # NoId => link.id = parent /\ parent \in Cappers(call)
           /\ parent = NoId => link.id = NoId \/ link.source = "mapped"
           /\ \A p \in Cappers(call) : p = parent \/ link.id = p \/ HandedBy(p, caller)
           /\ link.source = "mapped" =>
                  /\ parent = NoId /\ link.id \in Id /\ Cappers(call) = {link.id}
                  /\ HandedBy(link.id, caller)
<1>1. ASSUME call.cwd = NoId, DispatchOf(call.var) # NoId
      PROVE  DispatchOf(call.var) \in Id /\ HandedBy(DispatchOf(call.var), caller)
    <2>1. DispatchOf(call.var) \in Id /\ captured[DispatchOf(call.var)] = call.var /\ call.var # NoId
        BY <1>1, MappedHasBegun
    <2>2. caller = Link(call.var, "handed")
        BY <1>1, <2>1, CallersNamed
    <2> QED BY <2>1, <2>2 DEF HandedBy
<1>2. CASE parent # NoId
    <2>1. parent \in Id /\ link.id = parent /\ link.source # "mapped"
        BY <1>2, CallersNamed
    <2>2. parent \in Cappers(call)
        BY <1>2 DEF Cappers
    <2>3. ASSUME NEW p \in Cappers(call), p # parent PROVE HandedBy(p, caller)
        <3>1. p \in Id /\ call.cwd = NoId /\ p = DispatchOf(call.var)
            BY <2>3 DEF Cappers
        <3> QED BY <1>1, <3>1, NamesDiffer DEF Session
    <2> QED BY <1>2, <2>1, <2>2, <2>3
<1>3. CASE parent = NoId
    <2>1. ASSUME NEW p \in Cappers(call) PROVE HandedBy(p, caller)
        <3>1. p \in Id /\ call.cwd = NoId /\ p = DispatchOf(call.var)
            BY <1>3, <2>1 DEF Cappers
        <3> QED BY <1>1, <3>1, NamesDiffer DEF Session
    <2>2. CASE link = Link(NoId, "none")
        BY <1>3, <2>1, <2>2 DEF Link
    <2>3. CASE /\ link = Link(DispatchOf(call.var), "mapped") /\ DispatchOf(call.var) # NoId
               /\ call.cwd = NoId /\ call.anchor = NoId
        <3>1. link.id = DispatchOf(call.var) /\ link.source = "mapped"
            BY <2>3 DEF Link
        <3>2. link.id \in Id /\ HandedBy(link.id, caller)
            BY <1>1, <2>3, <3>1
        <3>3. Cappers(call) = {link.id}
            BY <1>3, <2>3, <3>1, <3>2 DEF Cappers
        <3> QED BY <1>3, <2>1, <3>1, <3>2, <3>3
    <2> QED BY <1>3, <2>2, <2>3, CallersNamed
<1> QED BY <1>2, <1>3

LEMMA AskedAfter ==
    ASSUME BindingInv, CapInv, NEW call \in Calls,
           NEW link, link = ResolveParentDispatch(LineageInputs(call)),
           NEW caller, caller = ResolveParentSession(LineageInputs(call))
    PROVE  /\ link.id \in Id \cup {NoId}
           /\ caller.source = "handed" /\ caller.id = HandSession => hand # NoId
           /\ \A p \in Id : Linked(p, link, caller) => pc[p] # "idle"
<1>1. link.id # NoId => link.id \in Id /\ pc[link.id] # "idle"
    <2>1. CASE Parent(call) # NoId
        <3>1. Parent(call) \in Id /\ rec[Parent(call)].state = "ok" /\ link.id = Parent(call)
            BY <2>1, CallersNamed
        <3> QED BY <3>1 DEF CapInv
    <2>2. CASE Parent(call) = NoId /\ link = Link(NoId, "none")
        BY <2>2 DEF Link
    <2>3. CASE link = Link(DispatchOf(call.var), "mapped") /\ DispatchOf(call.var) # NoId
        <3>1. link.id = DispatchOf(call.var)
            BY <2>3 DEF Link
        <3> QED BY <2>3, <3>1, MappedHasBegun
    <2> QED BY <2>1, <2>2, <2>3, CallersNamed
<1>2. caller.source = "handed" => caller.id = call.var /\ call.var # NoId
    BY CallersNamed
<1>3. caller.source = "handed" =>
          /\ caller.id \in Id => pc[caller.id] # "idle"
          /\ caller.id = HandSession => hand \in Id /\ pc[hand] # "idle"
    BY <1>2, CallerHasBegun
<1>4. NoId \notin Id
    BY NamesDiffer DEF Session
<1> QED BY <1>1, <1>3, <1>4 DEF Linked

LEMMA AskKeepsCap ==
    ASSUME BindingInv, CapInv, NEW d \in Id, Ask(d) PROVE CapInv'
<1>1. PICK call \in Calls, request \in Requests :
          /\ ask' = [ask EXCEPT ![d] =
                 [request |-> request, resolved |-> Resolve(policy, request),
                  cap |-> DispatcherCap(call), parent |-> Parent(call),
                  parentSession |-> ResolveParentSession(LineageInputs(call)),
                  parentDispatch |-> ResolveParentDispatch(LineageInputs(call))]]
          /\ dispatchers' = [dispatchers EXCEPT ![d] = Cappers(call)]
    BY DEF Ask
<1> DEFINE link == ResolveParentDispatch(LineageInputs(call))
           caller == ResolveParentSession(LineageInputs(call))
<1>2. /\ pc[d] = "idle" /\ pc' = [pc EXCEPT ![d] = "provision"]
      /\ UNCHANGED <<rec, entry, captured, hand>>
    BY DEF Ask
<1>3. PICK l, c, p : l = link /\ c = caller /\ p = Parent(call)
    OBVIOUS
<1>4. /\ ask'[d].parent = p /\ ask'[d].parentSession = c /\ ask'[d].parentDispatch = l
      /\ \A e \in Id \ {d} : ask'[e] = ask[e]
    BY <1>1, <1>3 DEF BindingInv, Shaped
<1>5. /\ dispatchers'[d] = Cappers(call) /\ dispatchers' \in [Id -> SUBSET Id]
      /\ \A e \in Id \ {d} : dispatchers'[e] = dispatchers[e]
    <2>1. Cappers(call) \subseteq Id
        BY CallersNamed DEF Cappers
    <2> QED BY <1>1, <2>1 DEF CapInv
<1>6. /\ pc'[d] = "provision" /\ \A e \in Id \ {d} : pc'[e] = pc[e]
    BY <1>2 DEF BindingInv, Shaped
<1>7. Lawful(d, p, l, c)'
    <2>1. /\ p # NoId => l.id = p /\ p \in Cappers(call)
          /\ p = NoId => l.id = NoId \/ l.source = "mapped"
          /\ \A q \in Cappers(call) : q = p \/ l.id = q \/ HandedBy(q, c)
          /\ l.source = "mapped" =>
                 /\ p = NoId /\ l.id \in Id /\ Cappers(call) = {l.id} /\ HandedBy(l.id, c)
        BY <1>3, AskedLawfully
    <2>2. \A q : HandedBy(q, c) => HandedBy(q, c)'
        BY <1>2 DEF HandedBy
    <2> QED BY <1>5, <2>1, <2>2 DEF Lawful
<1>8. rec[d].state # "ok"
    BY <1>2 DEF CapInv
<1>9. ASSUME NEW e \in Id PROVE
          /\ pc'[e] = "idle" => rec'[e].state # "ok"
          /\ pc'[e] = "provision" =>
                 Lawful(e, ask[e].parent, ask[e].parentDispatch, ask[e].parentSession)'
          /\ rec'[e].state = "ok" =>
                 Lawful(e, rec[e].parent, entry[e].parentDispatch, entry[e].parentSession)'
    <2>1. CASE e = d
        BY <1>2, <1>4, <1>6, <1>7, <1>8, <2>1
    <2>2. CASE e # d
        BY <1>2, <1>4, <1>5, <1>6, <2>2 DEF CapInv, Lawful, HandedBy
    <2> QED BY <2>1, <2>2
<1>10. \E after \in [Id -> SUBSET Id] : Ordered(after)'
    <2>1. PICK before \in [Id -> SUBSET Id] : Ordered(before)
        BY DEF CapInv
    <2> DEFINE begun == {e \in Id : pc[e] # "idle"}
    <2>2. PICK after \in [Id -> SUBSET Id] :
              /\ after[d] = begun
              /\ \A e \in Id \ {d} : after[e] = before[e]
        <3>1. [before EXCEPT ![d] = begun] \in [Id -> SUBSET Id]
            OBVIOUS
        <3> QED BY <3>1
    <2>3. d \notin begun
        BY <1>2
    <2>4. \A e \in Id : before[e] \subseteq begun
        BY <2>1 DEF Ordered
    <2>5. ASSUME NEW lk, NEW cl, NEW e \in Id \ {d}, ComesAfter(before, e, lk, cl)
          PROVE  ComesAfter(after, e, lk, cl)'
        BY <1>2, <2>2, <2>3, <2>4, <2>5 DEF ComesAfter, Linked
    <2>6. ComesAfter(after, d, l, c)'
        <3>1. /\ l.id \in Id \cup {NoId}
              /\ c.source = "handed" /\ c.id = HandSession => hand # NoId
              /\ \A q \in Id : Linked(q, l, c) => q \in begun
            BY <1>3, AskedAfter
        <3>2. \A q : Linked(q, l, c)' => Linked(q, l, c)
            BY <1>2 DEF Linked
        <3>3. \A q \in begun : after[q] \subseteq begun
            BY <2>2, <2>3, <2>4
        <3> QED BY <1>2, <2>2, <3>1, <3>2, <3>3 DEF ComesAfter
    <2>7. ComesAfter(after, d, entry[d].parentDispatch, entry[d].parentSession)'
        <3>1. ComesAfter(before, d, entry[d].parentDispatch, entry[d].parentSession)
            BY <2>1 DEF Ordered
        <3>2. \A q \in begun : after[q] \subseteq begun
            BY <2>2, <2>3, <2>4
        <3>3. before[d] \subseteq begun
            BY <2>4
        <3> QED BY <1>2, <2>2, <3>1, <3>2, <3>3 DEF ComesAfter, Linked
    <2>8. ASSUME NEW e \in Id PROVE
              /\ e \notin after[e]
              /\ \A x \in after[e] : pc'[x] # "idle"
              /\ pc'[e] = "provision" =>
                     ComesAfter(after, e, ask[e].parentDispatch, ask[e].parentSession)'
              /\ ComesAfter(after, e, entry[e].parentDispatch, entry[e].parentSession)'
        <3>1. CASE e = d
            BY <1>4, <1>6, <2>2, <2>3, <2>6, <2>7, <3>1
        <3>2. CASE e # d
            <4>1. /\ e \notin before[e] /\ \A x \in before[e] : pc[x] # "idle" /\ x # d
                  /\ ComesAfter(before, e, entry[e].parentDispatch, entry[e].parentSession)
                  /\ pc[e] = "provision" =>
                         ComesAfter(before, e, ask[e].parentDispatch, ask[e].parentSession)
                BY <1>2, <2>1 DEF Ordered
            <4>2. e \notin after[e] /\ \A x \in after[e] : pc'[x] # "idle"
                BY <1>6, <2>2, <3>2, <4>1
            <4>3. ComesAfter(after, e, entry[e].parentDispatch, entry[e].parentSession)'
                BY <1>2, <2>5, <3>2, <4>1
            <4>4. pc'[e] = "provision" =>
                      ComesAfter(after, e, ask[e].parentDispatch, ask[e].parentSession)'
                BY <1>4, <1>6, <2>5, <3>2, <4>1
            <4> QED BY <4>2, <4>3, <4>4
        <3> QED BY <3>1, <3>2
    <2> QED BY <2>8 DEF Ordered
<1>11. DOMAIN rec' = Id /\ (hand' # NoId => pc'[hand'] # "idle")
    BY <1>2, <1>6 DEF CapInv, BindingInv, Shaped
<1> QED BY <1>5, <1>9, <1>10, <1>11 DEF CapInv

(* What is resolved is what is written. *)
LEMMA WriteKeepsCap ==
    ASSUME BindingInv, CapInv, NEW d \in Id, WriteFiles(d) PROVE CapInv'
<1>1. /\ pc[d] = "provision" /\ pc' = [pc EXCEPT ![d] = "launch"]
      /\ rec' = [rec EXCEPT ![d] = RecordOfDispatch(ask[d].parent, ask[d].resolved)]
      /\ entry' = [entry EXCEPT ![d] =
             EntryOfDispatch(d, NoId, ask[d].parentSession, ask[d].parentDispatch)]
      /\ ask' = [ask EXCEPT ![d] = Unset]
      /\ UNCHANGED <<captured, hand, dispatchers>>
    BY DEF WriteFiles
<1>2. /\ pc'[d] = "launch" /\ \A e \in Id \ {d} : pc'[e] = pc[e]
      /\ rec'[d].parent = ask[d].parent /\ \A e \in Id \ {d} : rec'[e] = rec[e]
      /\ entry'[d].parentSession = ask[d].parentSession
      /\ entry'[d].parentDispatch = ask[d].parentDispatch
      /\ \A e \in Id \ {d} : entry'[e] = entry[e]
      /\ \A e \in Id \ {d} : ask'[e] = ask[e]
    BY <1>1 DEF BindingInv, Shaped, CapInv, RecordOfDispatch, EntryOfDispatch
<1>3. DOMAIN rec' = Id /\ dispatchers' \in [Id -> SUBSET Id] /\ (hand' # NoId => pc'[hand'] # "idle")
    BY <1>1 DEF CapInv, BindingInv, Shaped
<1>4. ASSUME NEW e \in Id PROVE
          /\ pc'[e] = "idle" => rec'[e].state # "ok"
          /\ pc'[e] = "provision" =>
                 Lawful(e, ask[e].parent, ask[e].parentDispatch, ask[e].parentSession)'
          /\ rec'[e].state = "ok" =>
                 Lawful(e, rec[e].parent, entry[e].parentDispatch, entry[e].parentSession)'
    <2>1. CASE e = d
        <3>1. Lawful(d, ask[d].parent, ask[d].parentDispatch, ask[d].parentSession)
            BY <1>1 DEF CapInv
        <3> QED BY <1>1, <1>2, <2>1, <3>1 DEF Lawful, HandedBy
    <2>2. CASE e # d
        <3>1. /\ pc[e] = "idle" => rec[e].state # "ok"
              /\ pc[e] = "provision" =>
                     Lawful(e, ask[e].parent, ask[e].parentDispatch, ask[e].parentSession)
              /\ rec[e].state = "ok" =>
                     Lawful(e, rec[e].parent, entry[e].parentDispatch, entry[e].parentSession)
            BY DEF CapInv
        <3> QED BY <1>1, <1>2, <2>2, <3>1 DEF Lawful, HandedBy
    <2> QED BY <2>1, <2>2
<1>5. ASSUME NEW before \in [Id -> SUBSET Id], Ordered(before) PROVE Ordered(before)'
    <2>1. ASSUME NEW e \in Id PROVE
              /\ e \notin before[e]
              /\ \A x \in before[e] : pc'[x] # "idle"
              /\ pc'[e] = "provision" =>
                     ComesAfter(before, e, ask[e].parentDispatch, ask[e].parentSession)'
              /\ ComesAfter(before, e, entry[e].parentDispatch, entry[e].parentSession)'
        <3>1. e \notin before[e] /\ \A x \in before[e] : pc'[x] # "idle"
            BY <1>1, <1>2, <1>5 DEF Ordered
        <3>2. CASE e = d
            <4>1. ComesAfter(before, d, ask[d].parentDispatch, ask[d].parentSession)
                BY <1>1, <1>5 DEF Ordered
            <4> QED BY <1>1, <1>2, <3>1, <3>2, <4>1 DEF ComesAfter, Linked
        <3>3. CASE e # d
            <4>1. /\ ComesAfter(before, e, entry[e].parentDispatch, entry[e].parentSession)
                  /\ pc[e] = "provision" =>
                         ComesAfter(before, e, ask[e].parentDispatch, ask[e].parentSession)
                BY <1>5 DEF Ordered
            <4> QED BY <1>1, <1>2, <3>1, <3>3, <4>1 DEF ComesAfter, Linked
        <3> QED BY <3>2, <3>3
    <2> QED BY <2>1 DEF Ordered
<1> QED BY <1>3, <1>4, <1>5 DEF CapInv

(* Nothing else makes a record, changes who a dispatch's links lead to, or   *)
(* takes back a session that was captured.                                   *)
LEMMA OthersKeepCap ==
    ASSUME CapInv, BindingInv, DOMAIN rec' = Id, UNCHANGED dispatchers,
           \A e \in Id : /\ pc[e] # "idle" => pc'[e] # "idle"
                         /\ pc'[e] = "provision" => pc[e] = "provision" /\ ask'[e] = ask[e]
                         /\ captured[e] # NoId => captured'[e] = captured[e]
                         /\ rec'[e].state = "ok" => rec'[e] = rec[e],
           hand # NoId => hand' = hand,
           hand' # NoId => hand' \in Id /\ pc[hand'] # "idle",
           \A e \in Id : \/ /\ entry'[e].parentDispatch = entry[e].parentDispatch
                            /\ entry'[e].parentSession = entry[e].parentSession
                         \/ entry'[e] = NoEntry /\ rec'[e].state # "ok"
    PROVE  CapInv'
<1>1. ASSUME NEW e \in Id, NEW p, NEW l, NEW c, Lawful(e, p, l, c) PROVE Lawful(e, p, l, c)'
    <2>1. \A q \in Id : HandedBy(q, c) => HandedBy(q, c)'
        BY DEF HandedBy
    <2>2. dispatchers[e] \subseteq Id
        BY DEF CapInv
    <2> QED BY <1>1, <2>1, <2>2 DEF Lawful
<1>2. ASSUME NEW e \in Id, NEW b, NEW l, NEW c, ComesAfter(b, e, l, c) PROVE ComesAfter(b, e, l, c)'
    <2>1. c.source = "handed" /\ c.id = HandSession => hand # NoId /\ hand' = hand
        BY <1>2 DEF ComesAfter
    <2>2. \A q \in Id : Linked(q, l, c)' => Linked(q, l, c)
        BY <2>1 DEF Linked
    <2> QED BY <1>2, <2>1, <2>2 DEF ComesAfter
<1>3. ASSUME NEW e \in Id, NEW b PROVE ComesAfter(b, e, NoEntry.parentDispatch, NoEntry.parentSession)'
    BY NamesDiffer DEF NoEntry, Link, ComesAfter, Linked, Session
<1>4. ASSUME NEW e \in Id PROVE
          /\ pc'[e] = "idle" => rec'[e].state # "ok"
          /\ pc'[e] = "provision" =>
                 Lawful(e, ask[e].parent, ask[e].parentDispatch, ask[e].parentSession)'
          /\ rec'[e].state = "ok" =>
                 Lawful(e, rec[e].parent, entry[e].parentDispatch, entry[e].parentSession)'
    <2>1. pc'[e] = "idle" => rec'[e].state # "ok"
        BY DEF CapInv
    <2>2. ASSUME pc'[e] = "provision"
          PROVE  Lawful(e, ask[e].parent, ask[e].parentDispatch, ask[e].parentSession)'
        <3>1. Lawful(e, ask[e].parent, ask[e].parentDispatch, ask[e].parentSession) /\ ask'[e] = ask[e]
            BY <2>2 DEF CapInv
        <3>2. PICK p, l, c : p = ask[e].parent /\ l = ask[e].parentDispatch /\ c = ask[e].parentSession
            OBVIOUS
        <3>3. Lawful(e, p, l, c)'
            BY <1>1, <3>1, <3>2
        <3> QED BY <3>1, <3>2, <3>3 DEF Lawful, HandedBy
    <2>3. ASSUME rec'[e].state = "ok"
          PROVE  Lawful(e, rec[e].parent, entry[e].parentDispatch, entry[e].parentSession)'
        <3>1. /\ Lawful(e, rec[e].parent, entry[e].parentDispatch, entry[e].parentSession)
              /\ rec'[e] = rec[e] /\ entry'[e].parentDispatch = entry[e].parentDispatch
              /\ entry'[e].parentSession = entry[e].parentSession
            BY <2>3 DEF CapInv
        <3>2. PICK p, l, c : p = rec[e].parent /\ l = entry[e].parentDispatch /\ c = entry[e].parentSession
            OBVIOUS
        <3>3. Lawful(e, p, l, c)'
            BY <1>1, <3>1, <3>2
        <3> QED BY <3>1, <3>2, <3>3 DEF Lawful, HandedBy
    <2> QED BY <2>1, <2>2, <2>3
<1>5. ASSUME NEW before \in [Id -> SUBSET Id], Ordered(before) PROVE Ordered(before)'
    <2>1. ASSUME NEW e \in Id PROVE
              /\ e \notin before[e]
              /\ \A x \in before[e] : pc'[x] # "idle"
              /\ pc'[e] = "provision" =>
                     ComesAfter(before, e, ask[e].parentDispatch, ask[e].parentSession)'
              /\ ComesAfter(before, e, entry[e].parentDispatch, entry[e].parentSession)'
        <3>1. e \notin before[e] /\ \A x \in before[e] : pc'[x] # "idle"
            BY <1>5 DEF Ordered
        <3>2. ASSUME pc'[e] = "provision"
              PROVE  ComesAfter(before, e, ask[e].parentDispatch, ask[e].parentSession)'
            <4>1. /\ ComesAfter(before, e, ask[e].parentDispatch, ask[e].parentSession)
                  /\ ask'[e] = ask[e]
                BY <1>5, <3>2 DEF Ordered
            <4>2. PICK l, c : l = ask[e].parentDispatch /\ c = ask[e].parentSession
                OBVIOUS
            <4>3. ComesAfter(before, e, l, c)'
                BY <1>2, <4>1, <4>2
            <4> QED BY <4>1, <4>2, <4>3 DEF ComesAfter, Linked
        <3>3. ComesAfter(before, e, entry[e].parentDispatch, entry[e].parentSession)'
            <4>1. CASE entry'[e] = NoEntry
                BY <1>3, <4>1 DEF ComesAfter, Linked
            <4>2. CASE /\ entry'[e].parentDispatch = entry[e].parentDispatch
                       /\ entry'[e].parentSession = entry[e].parentSession
                <5>1. ComesAfter(before, e, entry[e].parentDispatch, entry[e].parentSession)
                    BY <1>5 DEF Ordered
                <5>2. PICK l, c : l = entry[e].parentDispatch /\ c = entry[e].parentSession
                    OBVIOUS
                <5>3. ComesAfter(before, e, l, c)'
                    BY <1>2, <5>1, <5>2
                <5> QED BY <4>2, <5>2, <5>3 DEF ComesAfter, Linked
            <4> QED BY <4>1, <4>2
        <3> QED BY <3>1, <3>2, <3>3
    <2> QED BY <2>1 DEF Ordered
<1>6. hand' # NoId => pc'[hand'] # "idle"
    OBVIOUS
<1> QED BY <1>4, <1>5, <1>6 DEF CapInv

LEMMA RollbackKeepsCap ==
    ASSUME BindingInv, CapInv, NEW d \in Id, RolledBack(d),
           UNCHANGED <<captured, hand, dispatchers>>
    PROVE  CapInv'
<1>1. /\ rec' = [rec EXCEPT ![d] = File("absent")] /\ entry' = [entry EXCEPT ![d] = NoEntry]
      /\ ask' = [ask EXCEPT ![d] = Unset] /\ pc' = [pc EXCEPT ![d] = "over"]
    BY DEF RolledBack
<1>2. rec'[d].state # "ok" /\ \A e \in Id \ {d} : rec'[e] = rec[e]
    BY <1>1 DEF CapInv, File
<1>3. DOMAIN rec' = Id
    BY <1>1 DEF CapInv
<1>4. hand' # NoId => hand' \in Id /\ pc[hand'] # "idle"
    BY DEF CapInv, BindingInv, Shaped
<1> QED BY <1>1, <1>2, <1>3, <1>4, OthersKeepCap DEF BindingInv, Shaped

LEMMA NextKeepsCap == BindingInv /\ CapInv /\ [Next]_vars => CapInv'
<1> SUFFICES ASSUME BindingInv, CapInv, [Next]_vars PROVE CapInv'
    OBVIOUS
<1>1. CASE EditPolicy \/ UNCHANGED vars
    <2>1. UNCHANGED <<pc, ask, rec, entry, captured, mapping, hand, dispatchers>>
        BY <1>1 DEF EditPolicy, vars
    <2> QED BY <2>1, OthersKeepCap DEF CapInv, BindingInv, Shaped
<1>2. CASE \E d \in Id : Ask(d)
    BY <1>2, AskKeepsCap
<1>3. CASE \E d \in Id : WriteFiles(d)
    BY <1>3, WriteKeepsCap
<1>4. CASE \E d \in Id : PolicyChanged(d) \/ CaptureFails(d)
    BY <1>4, RollbackKeepsCap DEF PolicyChanged, CaptureFails
<1>5. CASE \E d \in Id : \/ Launch(d) \/ WorkerStarts(d) \/ WriteMapping(d) \/ CloseWindow(d)
                         \/ WorkerEnds(d) \/ SettleMapping(d) \/ Killed(d)
    <2>1. PICK d \in Id : \/ Launch(d) \/ WorkerStarts(d) \/ WriteMapping(d) \/ CloseWindow(d)
                          \/ WorkerEnds(d) \/ SettleMapping(d) \/ Killed(d)
        BY <1>5
    <2>2. /\ UNCHANGED <<ask, rec, entry, captured, hand, dispatchers>>
          /\ \/ pc' = pc
             \/ \E to \in {"capture", "close", "over", "dead"} :
                    pc' = [pc EXCEPT ![d] = to]
        BY <2>1 DEF Launch, WorkerStarts, WriteMapping, CloseWindow, WorkerEnds, SettleMapping, Killed
    <2>3. \A e \in Id : /\ pc[e] # "idle" => pc'[e] # "idle"
                        /\ pc'[e] = "provision" => pc[e] = "provision"
        BY <2>2 DEF BindingInv, Shaped
    <2> QED BY <2>2, <2>3, OthersKeepCap DEF CapInv, BindingInv, Shaped
<1>6. CASE \E d \in Id : Capture(d)
    <2>1. PICK d \in Id : Capture(d)
        BY <1>6
    <2>2. PICK s \in RecordsAt(d) :
              /\ captured' = [captured EXCEPT ![d] = s]
              /\ entry' = entry \/ entry' = [entry EXCEPT ![d] = Completed(@, s)]
        BY <2>1 DEF Capture
    <2>3. /\ UNCHANGED <<ask, rec, hand, dispatchers>> /\ pc[d] = "capture"
          /\ pc' = [pc EXCEPT ![d] = "map"]
        BY <2>1 DEF Capture
    <2>4. captured[d] = NoId
        BY <2>3 DEF BindingInv, Staged
    <2>5. \A e \in Id : captured[e] # NoId => captured'[e] = captured[e]
        BY <2>2, <2>4 DEF BindingInv, Shaped
    <2>6. \A e \in Id : /\ entry'[e].parentDispatch = entry[e].parentDispatch
                        /\ entry'[e].parentSession = entry[e].parentSession
        BY <2>2 DEF BindingInv, Shaped, Entry, Completed
    <2>7. \A e \in Id : /\ pc[e] # "idle" => pc'[e] # "idle"
                        /\ pc'[e] = "provision" => pc[e] = "provision"
        BY <2>3 DEF BindingInv, Shaped
    <2> QED BY <2>5, <2>6, <2>7, <2>3, OthersKeepCap DEF CapInv, BindingInv, Shaped
<1>7. CASE \E d \in Id : StartByHand(d)
    <2>1. PICK d \in Id : hand = NoId /\ hand' = d /\ pc[d] = "capture"
        BY <1>7 DEF StartByHand
    <2>2. UNCHANGED <<pc, ask, rec, entry, captured, dispatchers>>
        BY <1>7 DEF StartByHand
    <2> QED BY <2>1, <2>2, OthersKeepCap DEF CapInv
<1>8. CASE \E d \in Id : ReapInstance(d)
    <2>1. PICK d \in Id : rec' = [rec EXCEPT ![d] = File("absent")]
        BY <1>8 DEF ReapInstance
    <2>2. UNCHANGED <<pc, ask, entry, captured, hand, dispatchers>>
        BY <1>8 DEF ReapInstance
    <2>3. DOMAIN rec' = Id /\ \A e \in Id : rec'[e].state = "ok" => rec'[e] = rec[e]
        BY <2>1 DEF CapInv, File
    <2> QED BY <2>2, <2>3, OthersKeepCap DEF CapInv, BindingInv, Shaped
<1>9. CASE \E d \in Id : FileFault(d)
    <2>1. PICK d \in Id : FileFault(d)
        BY <1>9
    <2>2. UNCHANGED <<pc, ask, captured, hand, dispatchers>>
        BY <2>1 DEF FileFault
    <2>3. rec' = rec \/ \E s \in {"absent", "malformed"} : rec' = [rec EXCEPT ![d] = File(s)]
        BY <2>1 DEF FileFault
    <2>4. entry' = entry \/ entry' = [entry EXCEPT ![d].state = "malformed"]
        BY <2>1 DEF FileFault
    <2>5. DOMAIN rec' = Id /\ \A e \in Id : rec'[e].state = "ok" => rec'[e] = rec[e]
        BY <2>3 DEF CapInv, File
    <2>6. \A e \in Id : /\ entry'[e].parentDispatch = entry[e].parentDispatch
                        /\ entry'[e].parentSession = entry[e].parentSession
        BY <2>4 DEF BindingInv, Shaped, Entry
    <2> QED BY <2>2, <2>5, <2>6, OthersKeepCap DEF CapInv, BindingInv, Shaped
<1> QED BY <1>1, <1>2, <1>3, <1>4, <1>5, <1>6, <1>7, <1>8, <1>9 DEF Next

LEMMA InitiallyCapped == Init => CapInv
<1> SUFFICES ASSUME Init PROVE CapInv
    OBVIOUS
<1>1. /\ DOMAIN rec = Id /\ dispatchers = [d \in Id |-> {}] /\ hand = NoId
      /\ pc = [d \in Id |-> IF d \in Past THEN "over" ELSE "idle"]
      /\ \A d \in Id : IF d \in Past THEN rec[d].state = "ok" ELSE rec[d].state = "absent"
      /\ \A d \in Id : /\ entry[d].parentDispatch = Link(NoId, "none")
                        /\ entry[d].parentSession = Link(NoId, "none")
    BY DEF Init, NoEntry, EntryOfDispatch
<1>2. \A d \in Id : rec[d].state = "ok" => rec[d].parent = NoId
    BY DEF Init, PastRecords, RecordOfDispatch, File
<1>3. NoId \notin Id
    BY NamesDiffer DEF Session
<1>4. \A d \in Id : Lawful(d, NoId, Link(NoId, "none"), Link(NoId, "none"))
    BY <1>1 DEF Lawful, Link
<1>5. Ordered([d \in Id |-> {}])
    BY <1>1, <1>3 DEF Ordered, ComesAfter, Linked, Link
<1>6. [d \in Id |-> {}] \in [Id -> SUBSET Id]
    OBVIOUS
<1>7. \A d \in Id : rec[d].state = "ok" =>
          Lawful(d, rec[d].parent, entry[d].parentDispatch, entry[d].parentSession)
    BY <1>1, <1>2, <1>4
<1> QED BY <1>1, <1>5, <1>6, <1>7 DEF CapInv

(* A child never holds more than those that dispatched it hold today,        *)
(* whatever the policy, the records, the instances and the sessions became   *)
(* in between; and where one of them can't be read, no more than its own     *)
(* record names.  It takes lineages within the walk's limit: as many         *)
(* dispatches as levels a walk goes (cli/grant_resolve.go).                  *)
THEOREM ChildrenHoldNoMore ==
    ASSUME IsFiniteSet(Id), Cardinality(Id) <= MaxWalkLevels
    PROVE  Spec => []WithinDispatcher
<1>1. Init => BindingInv /\ CapInv
    BY InitiallyBound, InitiallyCapped
<1>2. BindingInv /\ CapInv /\ [Next]_vars => BindingInv' /\ CapInv'
    BY NextKeepsBinding, NextKeepsCap
<1>3. BindingInv /\ CapInv => WithinDispatcher
    BY HeldIsWithin
<1> QED BY <1>1, <1>2, <1>3, PTL DEF Spec
=============================================================================
