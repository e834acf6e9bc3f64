----------------------- MODULE InstanceLifecycleProofs ----------------------
(***************************************************************************)
(* The type invariant of InstanceLifecycle, the discipline of its instance *)
(* locks, and what a holder may rely on under one, for every workspace and *)
(* every number of commands.                                               *)
(***************************************************************************)
EXTENDS InstanceLifecycle, TLAPS

(* A command that has chosen its instance knows which it is, and a resume  *)
(* knows which session: what the types of the mappings it writes rest on.  *)
Placed ==
    /\ \A r \in Reaper : Holding(r) => at[r] \in Path
    /\ \A x \in Resumer \cup Destroyer \cup Dispatcher :
           pc[x] \notin {"start", "done"} => at[x] \in Path
    /\ \A u \in Resumer : pc[u] \notin {"start", "done"} => rec[u] \in Session

Typed == TypeOK /\ Placed

USE ConstantsAssumption, TokenPathAssumption

-----------------------------------------------------------------------------
(* What each step of the store's own operators keeps.                      *)

(* Every mapping the store lists for an instance is a whole mapping.       *)
LEMMA MappingsAreWhole ==
    ASSUME StoreTypeOK, NEW s \in Mapped
    PROVE  s \in Session /\ mapping[s] \in Mapping
BY DEF StoreTypeOK, Mapped

(* A removal, whatever it leaves, leaves one of the three kinds of path    *)
(* and its markers.                                                        *)
LEMMA RemovalKeepsPaths ==
    ASSUME StoreTypeOK, NEW p \in Path, NEW left \in {"absent", "instance", "husk"},
           RemovedTo(p, left)
    PROVE  /\ disk' \in [Path -> {"absent", "instance", "husk"}]
           /\ retain' \in [Path -> BOOLEAN]
           /\ aged' \in [Path -> BOOLEAN]
<1>1. disk' \in [Path -> {"absent", "instance", "husk"}]
  BY DEF StoreTypeOK, RemovedTo
<1>2. CASE left = "instance"
  BY <1>1, <1>2 DEF StoreTypeOK, RemovedTo
<1>3. CASE left # "instance"
  BY <1>1, <1>3 DEF StoreTypeOK, RemovedTo
<1> QED BY <1>2, <1>3

LEMMA RemovalOutcomesAreKinds ==
    ASSUME StoreTypeOK, NEW p \in Path
    PROVE  RemovalOutcome(p) \subseteq {"absent", "instance", "husk"}
BY DEF StoreTypeOK, RemovalOutcome

(* The world's steps change no command's place and keep the store's types. *)
LEMMA WorldKeepsTypes ==
    ASSUME Typed, WorldStep
    PROVE  Typed'
<1> USE DEF Typed, TypeOK, StoreTypeOK, ReapTypeOK, ResumeTypeOK, DestroyTypeOK,
            DispatchTypeOK, PCOK, Placed, Holding, reapVars, resumeVars, destroyVars,
            dispatchVars
<1>1. ASSUME NEW s \in Session, SessionIdles(s) \/ SessionPrompted(s) \/ SessionGoes(s)
                                \/ TranscriptExpires(s)
      PROVE  Typed'
  <2>3. PICK state \in SessionState : sess' = [sess EXCEPT ![s] = state]
    BY <1>1 DEF SessionIdles, SessionPrompted, SessionGoes, TranscriptExpires, SessionState
  <2>1. /\ sess' \in [Session -> SessionState]
        /\ UNCHANGED <<disk, retain, aged, lock, mapping, launch, home, crashes>>
    BY <1>1, <2>3 DEF SessionIdles, SessionPrompted, SessionGoes, TranscriptExpires
  <2>2. UNCHANGED <<pc, at, ran, reapVars, resumeVars, destroyVars, dispatchVars>>
    BY DEF WorldStep
  <2> QED BY <2>1, <2>2
<1>2. ASSUME NEW p \in Path, InstanceAges(p)
      PROVE  Typed'
  BY <1>2 DEF WorldStep, InstanceAges
<1> QED BY <1>1, <1>2 DEF WorldStep, World

-----------------------------------------------------------------------------
(* Reap. *)

(* What the three selections choose are tasks. *)
LEMMA SelectionsAreTasks ==
    ASSUME StoreTypeOK
    PROVE  /\ StoredTargets \subseteq Task
           /\ BackstopTargets \subseteq Task
           /\ \A pick \in JoinByPath : ReapTargets(pick) \subseteq Task
<1>1. StoredTargets \subseteq Task
  BY MappingsAreWhole DEF StoredTargets, Task, Mapping
<1>2. BackstopTargets \subseteq Task
  BY DEF BackstopTargets, Task
<1>3. ASSUME NEW pick \in JoinByPath
      PROVE  ReapTargets(pick) \subseteq Task
  <2>1. \A p \in DOMAIN pick : p \in Path /\ pick[p] \in Mapped
    BY <1>3 DEF JoinByPath
  <2> QED BY <2>1, MappingsAreWhole DEF ReapTargets, Task
<1> QED BY <1>1, <1>2, <1>3

(* Settling a mapping, with any outcome, leaves mappings in the store. *)
LEMMA SettlingKeepsMappings ==
    ASSUME NEW m \in Mapping \cup {NoMapping}, NEW ok,
           mapping \in [Session -> Mapping \cup {NoMapping}], Settled(m, ok)
    PROVE  mapping' \in [Session -> Mapping \cup {NoMapping}]
<1>1. CASE m = NoMapping
  BY <1>1 DEF Settled, NoMapping
<1>2. CASE m \in Mapping
  <2>1. ~(m.fails + 1 >= OnReapFailureLimit) => [m EXCEPT !.fails = @ + 1] \in Mapping
    BY <1>2 DEF Mapping
  <2> QED BY <1>2, <2>1 DEF Settled
<1> QED BY <1>1, <1>2

LEMMA ReapKeepsTypes ==
    ASSUME Typed, NEW r \in Reaper, Reaps(r)
    PROVE  Typed'
<1> USE DEF Typed, TypeOK, StoreTypeOK, ReapTypeOK, ResumeTypeOK, DestroyTypeOK,
            DispatchTypeOK, PCOK, Placed, Holding, Proc, ReapPC, Goto, Lock, Unlock,
            LeaveTask, worldVars, fileVars, resumeVars, destroyVars, dispatchVars
<1>1. UNCHANGED <<resumeVars, destroyVars, dispatchVars>> /\ ReapStep(r)
  BY DEF Reaps
<1>2. CASE SelectMapped(r)
  BY <1>1, <1>2, SelectionsAreTasks DEF SelectMapped
<1>3. CASE SelectBackstop(r)
  BY <1>1, <1>3, SelectionsAreTasks DEF SelectBackstop, SweepLaunchRecords
<1>4. CASE FinishSweep(r)
  BY <1>1, <1>4 DEF FinishSweep
<1>5. ASSUME NEW t \in queue[r], TakeTask(r, t)
      PROVE  Typed'
  BY <1>1, <1>5 DEF TakeTask, Task
<1>6. ASSUME NEW t \in queue[r], SpareHeld(r, t)
      PROVE  Typed'
  BY <1>1, <1>6 DEF SpareHeld
<1>7. CASE Recheck(r)
  BY <1>1, <1>7 DEF Recheck
<1>8. CASE Spare(r)
  BY <1>1, <1>8 DEF Spare
<1>9. CASE DestroyTarget(r)
  <2>1. /\ disk' \in [Path -> {"absent", "instance", "husk"}]
        /\ retain' \in [Path -> BOOLEAN]
        /\ aged' \in [Path -> BOOLEAN]
    BY <1>9, RemovalKeepsPaths DEF DestroyTarget
  <2>2. UNCHANGED <<mapping, launch, sess, home, crashes, queue, ran>>
    BY <1>9 DEF DestroyTarget
  <2>3. CASE task[r].kind = "target"
    <3>1. Goto(r, "run") /\ UNCHANGED <<lock, at, task>>
      BY <1>9, <2>3 DEF DestroyTarget
    <3>2. pc[r] = "destroy"
      BY <1>9 DEF DestroyTarget
    <3> QED BY <1>1, <2>1, <2>2, <3>1, <3>2
  <2>4. CASE task[r].kind # "target"
    <3>1. LeaveTask(r)
      BY <1>9, <2>4 DEF DestroyTarget
    <3> QED BY <1>1, <2>1, <2>2, <3>1
  <2> QED BY <2>3, <2>4
<1>10. CASE DestroyTargetFails(r)
  <2>3. PICK left \in RemovalOutcome(at[r]) : RemovedTo(at[r], left)
    BY <1>10 DEF DestroyTargetFails
  <2>4. pc[r] = "destroy"
    BY <1>10 DEF DestroyTargetFails
  <2>5. left \in {"absent", "instance", "husk"}
    BY <2>4, RemovalOutcomesAreKinds DEF ReapPC
  <2>1. /\ disk' \in [Path -> {"absent", "instance", "husk"}]
        /\ retain' \in [Path -> BOOLEAN]
        /\ aged' \in [Path -> BOOLEAN]
    BY <2>3, <2>4, <2>5, RemovalKeepsPaths
  <2> QED BY <1>1, <1>10, <2>1 DEF DestroyTargetFails
<1>11. CASE RunOnReap(r)
  BY <1>1, <1>11 DEF RunOnReap
<1>12. CASE SettleMapping(r)
  <2>1. task[r].m \in Mapping \cup {NoMapping}
    BY DEF Task, NoTask
  <2>2. mapping' \in [Session -> Mapping \cup {NoMapping}]
    BY <1>12, <2>1, SettlingKeepsMappings DEF SettleMapping
  <2> QED BY <1>1, <1>12, <2>2 DEF SettleMapping
<1> QED BY <1>1, <1>2, <1>3, <1>4, <1>5, <1>6, <1>7, <1>8, <1>9, <1>10, <1>11, <1>12
        DEF ReapStep

-----------------------------------------------------------------------------
(* The commands that end: resume, destroy and dispatch. *)

(* The step a command goes to is one of its own, and it knows its instance *)
(* (a resume its session too) unless it returns: then every command still  *)
(* is at one of its own steps and knows its instance.                      *)
LEMMA StepsKeepPlaces ==
    ASSUME PCOK, DOMAIN pc = Proc, Placed,
           NEW x \in Resumer \cup Destroyer \cup Dispatcher, NEW step, Goto(x, step),
           x \in Resumer => step \in ResumePC,
           x \in Destroyer => step \in DestroyPC,
           x \in Dispatcher => step \in DispatchPC,
           \A y \in Proc \ {x} : at'[y] = at[y],
           \A u \in Resumer \ {x} : rec'[u] = rec[u],
           step # "done" => at'[x] \in Path,
           step # "done" /\ x \in Resumer => rec'[x] \in Session
    PROVE  PCOK' /\ (DOMAIN pc)' = Proc /\ Placed'
<1>1. /\ pc'[x] = step
      /\ \A y \in Proc \ {x} : pc'[y] = pc[y]
      /\ DOMAIN pc' = Proc
  BY DEF Goto, Proc
<1>2. PCOK'
  BY <1>1 DEF PCOK, Proc
<1>3. \A r \in Reaper : Holding(r)' => at'[r] \in Path
  BY <1>1 DEF Placed, Holding, Proc
<1>4. \A y \in Resumer \cup Destroyer \cup Dispatcher :
          pc'[y] \notin {"start", "done"} => at'[y] \in Path
  BY <1>1 DEF Placed, Proc
<1>5. \A u \in Resumer : pc'[u] \notin {"start", "done"} => rec'[u] \in Session
  BY <1>1 DEF Placed, Proc
<1> QED BY <1>1, <1>2, <1>3, <1>4, <1>5 DEF Placed

(* The mapping a resume writes is one. *)
LEMMA NewMappingsAreMappings ==
    ASSUME NEW u \in Resumer, at[u] \in Path, NEW s \in Session
    PROVE  NewMapping(u, s) \in Mapping
BY DEF NewMapping, Mapping, Proc

LEMMA ResumeKeepsTypes ==
    ASSUME Typed, NEW u \in Resumer, Resumes(u)
    PROVE  Typed'
<1> USE DEF StoreTypeOK, ResumeTypeOK, Goto, Lock, Unlock, Return, worldVars, fileVars,
            resumeVars
<1>1. /\ StoreTypeOK /\ ResumeTypeOK
      /\ at[u] \in Path \cup {None} /\ u \in Proc
      /\ pc[u] \notin {"start", "done"} => at[u] \in Path /\ rec[u] \in Session
  BY DEF Typed, TypeOK, Placed, Proc
<1>2. UNCHANGED <<ran, reapVars, destroyVars, dispatchVars>> /\ ResumeStep(u)
  BY DEF Resumes
<1>3. ASSUME NEW step \in ResumePC, pc' = [pc EXCEPT ![u] = step],
             StoreTypeOK', ResumeTypeOK',
             \A y \in Proc \ {u} : at'[y] = at[y],
             \A v \in Resumer \ {u} : rec'[v] = rec[v],
             step # "done" => at'[u] \in Path /\ rec'[u] \in Session
      PROVE  Typed'
  <2>1. PCOK' /\ (DOMAIN pc)' = Proc /\ Placed'
    BY <1>3, StepsKeepPlaces DEF Typed, TypeOK
  <2>2. ReapTypeOK' /\ DestroyTypeOK' /\ DispatchTypeOK'
    BY <1>2 DEF Typed, TypeOK, ReapTypeOK, DestroyTypeOK, DispatchTypeOK, reapVars,
                destroyVars, dispatchVars
  <2> QED BY <1>3, <2>1, <2>2 DEF Typed, TypeOK
<1>4. ASSUME NEW p \in Path, ResolveRecord(u, p)
      PROVE  Typed'
  BY <1>1, <1>2, <1>3, <1>4 DEF ResolveRecord, ResumePC
<1>5. CASE TakeResumeLock(u)
  BY <1>1, <1>2, <1>3, <1>5 DEF TakeResumeLock, ResumePC
<1>6. CASE RefuseHeld(u)
  BY <1>1, <1>2, <1>3, <1>6 DEF RefuseHeld, ResumePC
<1>7. CASE PassChecks(u)
  BY <1>1, <1>2, <1>3, <1>7 DEF PassChecks, ResumePC
<1>8. CASE Refuse(u)
  BY <1>1, <1>2, <1>3, <1>8 DEF Refuse, ResumePC
<1>9. CASE BeginRestore(u)
  BY <1>1, <1>2, <1>3, <1>9 DEF BeginRestore, ResumePC
<1>10. CASE Restore(u)
  BY <1>1, <1>2, <1>3, <1>10 DEF Restore, ResumePC
<1>11. CASE RestoreFails(u)
  BY <1>1, <1>2, <1>3, <1>11 DEF RestoreFails, ResumePC
<1>12. CASE WriteMapping(u)
  BY <1>1, <1>2, <1>3, <1>12, NewMappingsAreMappings DEF WriteMapping, ResumePC
<1>13. CASE MappingFails(u)
  BY <1>1, <1>2, <1>3, <1>13 DEF MappingFails, ResumePC
<1>14. ASSUME NEW s \in Session, LaunchWorker(u, s)
       PROVE  Typed'
  BY <1>1, <1>2, <1>3, <1>14 DEF LaunchWorker, SessionState, ResumePC
<1>15. CASE LaunchFails(u)
  BY <1>1, <1>2, <1>3, <1>15 DEF LaunchFails, ResumePC
<1>16. CASE Unmap(u)
  BY <1>1, <1>2, <1>3, <1>16 DEF Unmap, ResumePC
<1>17. CASE Rollback(u)
  <2>1. /\ disk' \in [Path -> {"absent", "instance", "husk"}]
        /\ retain' \in [Path -> BOOLEAN]
        /\ aged' \in [Path -> BOOLEAN]
    <3>1. CASE restored[u]
      BY <1>1, <1>17, <3>1, RemovalKeepsPaths, RemovalOutcomesAreKinds DEF Rollback
    <3>2. CASE ~restored[u]
      BY <1>1, <1>17, <3>2 DEF Rollback
    <3> QED BY <3>1, <3>2
  <2>2. Return(u) /\ UNCHANGED <<mapping, launch, sess, home, crashes, resumeVars>>
    BY <1>17 DEF Rollback
  <2> QED BY <1>1, <1>2, <1>3, <2>1, <2>2 DEF ResumePC
<1>18. CASE CaptureFails(u)
  BY <1>1, <1>2, <1>3, <1>18 DEF CaptureFails, ResumePC
<1>19. ASSUME NEW s \in Session, Capture(u, s)
       PROVE  Typed'
  BY <1>1, <1>2, <1>3, <1>19, NewMappingsAreMappings DEF Capture, ResumePC
<1>20. CASE DropOldMapping(u)
  BY <1>1, <1>2, <1>3, <1>20 DEF DropOldMapping, ResumePC
<1>21. CASE Finish(u)
  BY <1>1, <1>2, <1>3, <1>21 DEF Finish, ResumePC
<1> QED BY <1>2, <1>4, <1>5, <1>6, <1>7, <1>8, <1>9, <1>10, <1>11, <1>12, <1>13,
           <1>14, <1>15, <1>16, <1>17, <1>18, <1>19, <1>20, <1>21
        DEF ResumeStep

(* A destroy's one listing lists sessions, and its owners are mappings. *)
LEMMA ListingsAreListings ==
    ASSUME DestroyTypeOK, NEW d \in Destroyer, NEW l \in ListingNow(d)
    PROVE  l \in Listing
<1>1. listing[d] \in Listing
  BY DEF DestroyTypeOK
<1>2. [state |-> "failed", running |-> {}, stopped |-> {}] \in Listing
  BY DEF Listing
<1>3. \A running, stopped \in SUBSET Session :
          [state |-> "read", running |-> running, stopped |-> stopped] \in Listing
  BY DEF Listing
<1>4. [state |-> "read",
       running |-> {s \in Session \ ActivitySession : sess[s] = "running"},
       stopped |-> {s \in Session \ ActivitySession : sess[s] = "idle"}] \in Listing
  <2>1. /\ {s \in Session \ ActivitySession : sess[s] = "running"} \in SUBSET Session
        /\ {s \in Session \ ActivitySession : sess[s] = "idle"} \in SUBSET Session
    OBVIOUS
  <2> QED BY <1>3, <2>1
<1> QED BY <1>1, <1>2, <1>4 DEF ListingNow

LEMMA OwningMappingsAreMappings ==
    ASSUME StoreTypeOK, NEW p
    PROVE  OwningMappings(p) \subseteq Mapping
BY MappingsAreWhole DEF OwningMappings, MappedTo

LEMMA DestroyKeepsTypes ==
    ASSUME Typed, NEW d \in Destroyer, Destroys(d)
    PROVE  Typed'
<1> USE DEF StoreTypeOK, DestroyTypeOK, Goto, Lock, Unlock, Return, worldVars, fileVars,
            destroyVars, DestroyPC
<1>1. /\ StoreTypeOK /\ DestroyTypeOK
      /\ at[d] \in Path \cup {None} /\ d \in Proc
      /\ pc[d] \notin {"start", "done"} => at[d] \in Path
  BY DEF Typed, TypeOK, Placed, Proc
<1>2. UNCHANGED <<reapVars, resumeVars, dispatchVars>> /\ DestroyStep(d)
  BY DEF Destroys
<1>3. ASSUME NEW step \in DestroyPC, pc' = [pc EXCEPT ![d] = step],
             StoreTypeOK', DestroyTypeOK',
             \A y \in Proc \ {d} : at'[y] = at[y],
             step # "done" => at'[d] \in Path
      PROVE  Typed'
  <2>1. rec' = rec /\ d \notin Resumer \cup Dispatcher
    BY <1>2 DEF resumeVars
  <2>2. PCOK' /\ (DOMAIN pc)' = Proc /\ Placed'
    BY <1>3, <2>1, StepsKeepPlaces DEF Typed, TypeOK
  <2>3. ReapTypeOK' /\ ResumeTypeOK' /\ DispatchTypeOK'
    BY <1>2 DEF Typed, TypeOK, ReapTypeOK, ResumeTypeOK, DispatchTypeOK, reapVars,
                resumeVars, dispatchVars
  <2> QED BY <1>3, <2>2, <2>3 DEF Typed, TypeOK
<1>4. ASSUME UNCHANGED <<pc, at>>, StoreTypeOK', DestroyTypeOK'
      PROVE  Typed'
  BY <1>2, <1>4 DEF Typed, TypeOK, PCOK, Placed, Holding, ReapTypeOK, ResumeTypeOK,
                    DispatchTypeOK, reapVars, resumeVars, dispatchVars
<1>5. ASSUME NEW p \in Path, ChooseInstance(d, p)
      PROVE  Typed'
  BY <1>1, <1>3, <1>5 DEF ChooseInstance
<1>6. CASE TakeDestroyLock(d)
  BY <1>1, <1>3, <1>6 DEF TakeDestroyLock
<1>7. CASE DestroyRefusesHeld(d)
  BY <1>1, <1>3, <1>7 DEF DestroyRefusesHeld
<1>8. CASE ListSessions(d)
  BY <1>1, <1>3, <1>8, ListingsAreListings DEF ListSessions
<1>9. CASE PassPreflight(d)
  BY <1>1, <1>3, <1>9 DEF PassPreflight
<1>10. CASE SomethingKeeps(d)
  BY <1>1, <1>3, <1>10 DEF SomethingKeeps
<1>11. CASE Confirm(d)
  BY <1>1, <1>3, <1>11 DEF Confirm
<1>12. CASE Abort(d)
  BY <1>1, <1>3, <1>12 DEF Abort
<1>13. CASE ReadOwners(d)
  BY <1>1, <1>3, <1>13, ListingsAreListings, OwningMappingsAreMappings DEF ReadOwners
<1>14. CASE NoOwners(d)
  BY <1>1, <1>3, <1>14 DEF NoOwners
<1>15. ASSUME NEW m \in owners[d],
              \/ KeepRunningOwner(d, m) \/ OwnerAlreadyGone(d, m)
              \/ RemoveOwner(d, m) \/ RemoveOwnerFails(d, m)
       PROVE  Typed'
  <2>1. CASE KeepRunningOwner(d, m)
    BY <1>1, <1>4, <2>1 DEF KeepRunningOwner
  <2>2. CASE OwnerAlreadyGone(d, m)
    BY <1>1, <1>3, <2>2 DEF OwnerAlreadyGone
  <2>3. CASE RemoveOwner(d, m)
    <3>1. sess' \in [Session -> SessionState]
      BY <1>1, <2>3 DEF RemoveOwner, SessionState
    <3> QED BY <1>1, <1>3, <2>3, <3>1 DEF RemoveOwner
  <2>4. CASE RemoveOwnerFails(d, m)
    BY <1>1, <1>4, <2>4 DEF RemoveOwnerFails
  <2> QED BY <1>15, <2>1, <2>2, <2>3, <2>4
<1>16. CASE OwnersDone(d)
  BY <1>1, <1>3, <1>16 DEF OwnersDone
<1>17. CASE RunOwnerOnReap(d)
  BY <1>1, <1>3, <1>17 DEF RunOwnerOnReap
<1>18. CASE SettleOwner(d)
  <2>1. mapping' \in [Session -> Mapping \cup {NoMapping}]
    BY <1>1, <1>18, SettlingKeepsMappings DEF SettleOwner
  <2> QED BY <1>1, <1>3, <1>18, <2>1 DEF SettleOwner
<1>19. CASE RemoveInstance(d)
  <2>1. /\ disk' \in [Path -> {"absent", "instance", "husk"}]
        /\ retain' \in [Path -> BOOLEAN]
        /\ aged' \in [Path -> BOOLEAN]
    BY <1>1, <1>19, RemovalKeepsPaths, RemovalOutcomesAreKinds DEF RemoveInstance
  <2> QED BY <1>1, <1>3, <1>19, <2>1 DEF RemoveInstance
<1> QED BY <1>2, <1>5, <1>6, <1>7, <1>8, <1>9, <1>10, <1>11, <1>12, <1>13, <1>14,
           <1>15, <1>16, <1>17, <1>18, <1>19
        DEF DestroyStep

LEMMA DispatchKeepsTypes ==
    ASSUME Typed, NEW d \in Dispatcher, Dispatches(d)
    PROVE  Typed'
<1> USE DEF StoreTypeOK, DispatchTypeOK, Goto, Unlock, Return, Exit, worldVars, fileVars,
            dispatchVars, DispatchPC
<1>1. /\ StoreTypeOK /\ DispatchTypeOK
      /\ at[d] \in Path \cup {None} /\ d \in Proc /\ TokenPath[d] \in Path
      /\ pc[d] \notin {"start", "done"} => at[d] \in Path
  BY DEF Typed, TypeOK, Placed, Proc
<1>2. UNCHANGED <<ran, reapVars, resumeVars, destroyVars>> /\ DispatchStep(d)
  BY DEF Dispatches
<1>3. ASSUME NEW step \in DispatchPC, pc' = [pc EXCEPT ![d] = step],
             StoreTypeOK', DispatchTypeOK',
             \A y \in Proc \ {d} : at'[y] = at[y],
             step # "done" => at'[d] \in Path
      PROVE  Typed'
  <2>1. rec' = rec /\ d \notin Resumer \cup Destroyer
    BY <1>2 DEF resumeVars
  <2>2. PCOK' /\ (DOMAIN pc)' = Proc /\ Placed'
    BY <1>3, <2>1, StepsKeepPlaces DEF Typed, TypeOK
  <2>3. ReapTypeOK' /\ ResumeTypeOK' /\ DestroyTypeOK'
    BY <1>2 DEF Typed, TypeOK, ReapTypeOK, ResumeTypeOK, DestroyTypeOK, reapVars,
                resumeVars, destroyVars
  <2> QED BY <1>3, <2>2, <2>3 DEF Typed, TypeOK
<1>4. CASE BeginProvision(d)
  BY <1>1, <1>2, <1>3, <1>4 DEF BeginProvision
<1>5. CASE Provision(d)
  BY <1>1, <1>2, <1>3, <1>5 DEF Provision
<1>6. CASE ProvisionFails(d)
  BY <1>1, <1>2, <1>3, <1>6 DEF ProvisionFails
<1>7. CASE WriteAuthority(d)
  BY <1>1, <1>2, <1>3, <1>7 DEF WriteAuthority
<1>8. CASE CreateLineage(d)
  BY <1>1, <1>2, <1>3, <1>8 DEF CreateLineage
<1>9. CASE EarlyFailure(d)
  BY <1>1, <1>2, <1>3, <1>9 DEF EarlyFailure
<1>10. ASSUME NEW s \in Session, LaunchDispatched(d, s)
       PROVE  Typed'
  <2>1. PICK state \in {"running", "unseen"} : sess' = [sess EXCEPT ![s] = state]
    BY <1>10 DEF LaunchDispatched
  <2>2. sess' \in [Session -> SessionState]
    BY <1>1, <2>1 DEF SessionState
  <2>3. PICK detach \in BOOLEAN :
            /\ foreground' = [foreground EXCEPT ![d] = Foreground(s, detach)]
            /\ pc' = [pc EXCEPT ![d] = IF Foreground(s, detach) THEN "turn" ELSE "capture"]
    BY <1>10 DEF LaunchDispatched
  <2>4. foreground' \in [Dispatcher -> BOOLEAN]
    BY <1>1, <2>3 DEF Foreground
  <2>5. CASE Foreground(s, detach)
    BY <1>1, <1>2, <1>3, <1>10, <2>2, <2>3, <2>4, <2>5 DEF LaunchDispatched
  <2>6. CASE ~Foreground(s, detach)
    BY <1>1, <1>2, <1>3, <1>10, <2>2, <2>3, <2>4, <2>6 DEF LaunchDispatched
  <2> QED BY <2>5, <2>6
<1>11. CASE TurnEnds(d)
  BY <1>1, <1>2, <1>3, <1>11 DEF TurnEnds, SessionState
<1>12. ASSUME NEW s \in Session, CaptureDispatched(d, s)
       PROVE  Typed'
  BY <1>1, <1>2, <1>3, <1>12 DEF CaptureDispatched
<1>13. CASE CannotMap(d)
  BY <1>1, <1>2, <1>3, <1>13 DEF CannotMap
<1>14. CASE WriteDispatchMapping(d)
  <2>1. ASSUME worker[d] \in Session
        PROVE  [sess |-> worker[d], path |-> at[d], fails |-> 0, writer |-> d] \in Mapping
    BY <1>1, <1>14, <2>1 DEF Mapping, WriteDispatchMapping
  <2>2. mapping' \in [Session -> Mapping \cup {NoMapping}]
    BY <1>1, <1>14, <2>1 DEF WriteDispatchMapping
  <2> QED BY <1>1, <1>2, <1>3, <1>14, <2>2 DEF WriteDispatchMapping
<1>15. CASE WriteLaunchRecord(d)
  BY <1>1, <1>2, <1>3, <1>15 DEF Exit, WriteLaunchRecord
<1>16. CASE WriteRetainMarker(d)
  BY <1>1, <1>2, <1>3, <1>16 DEF Exit, WriteRetainMarker
<1>17. CASE RetainMarkerFails(d)
  BY <1>1, <1>2, <1>3, <1>17 DEF Exit, RetainMarkerFails
<1>18. CASE RollbackDispatch(d)
  <2>1. /\ disk' \in [Path -> {"absent", "instance", "husk"}]
        /\ retain' \in [Path -> BOOLEAN]
        /\ aged' \in [Path -> BOOLEAN]
    BY <1>1, <1>18, RemovalKeepsPaths, RemovalOutcomesAreKinds DEF RollbackDispatch
  <2>2. lineage' \in [Path -> BOOLEAN] /\ worker' = worker
    BY <1>1, <1>18 DEF RollbackDispatch
  <2>3. authority' \in [Path -> BOOLEAN]
    <3>1. CASE authority' = authority
      BY <1>1, <3>1
    <3>2. CASE authority' = [authority EXCEPT ![at[d]] = FALSE]
      BY <1>1, <3>2
    <3> QED BY <1>18, <3>1, <3>2 DEF RollbackDispatch
  <2> QED BY <1>1, <1>2, <1>3, <1>18, <2>1, <2>2, <2>3 DEF RollbackDispatch
<1> QED BY <1>2, <1>4, <1>5, <1>6, <1>7, <1>8, <1>9, <1>10, <1>11, <1>12, <1>13,
           <1>14, <1>15, <1>16, <1>17, <1>18
        DEF DispatchStep

-----------------------------------------------------------------------------
(* The commands together. *)

LEMMA CrashKeepsTypes ==
    ASSUME Typed, NEW x \in Proc, Crash(x)
    PROVE  Typed'
<1> USE DEF Crash, fileVars, resumeVars, destroyVars, dispatchVars
<1>1. StoreTypeOK'
  BY DEF Typed, TypeOK, StoreTypeOK, Unlock
<1>2. ReapTypeOK'
  BY DEF Typed, TypeOK, ReapTypeOK
<1>3. ResumeTypeOK' /\ DestroyTypeOK' /\ DispatchTypeOK'
  BY DEF Typed, TypeOK, ResumeTypeOK, DestroyTypeOK, DispatchTypeOK
<1>4. /\ x \in Reaper => pc'[x] = "idle"
      /\ x \notin Reaper => pc'[x] = "done"
      /\ \A y \in Proc \ {x} : pc'[y] = pc[y] /\ at'[y] = at[y]
      /\ DOMAIN pc' = Proc
  BY DEF Typed, TypeOK, StoreTypeOK, Goto
<1>5. PCOK'
  <2>1. PCOK
    BY DEF Typed, TypeOK
  <2>2. "idle" \in ReapPC /\ "done" \in ResumePC \cap DestroyPC \cap DispatchPC
    BY DEF ReapPC, ResumePC, DestroyPC, DispatchPC
  <2> QED BY <1>4, <2>1, <2>2 DEF PCOK, Proc
<1>6. Placed'
  BY <1>4 DEF Typed, Placed, Holding, Proc
<1> QED BY <1>1, <1>2, <1>3, <1>4, <1>5, <1>6 DEF Typed, TypeOK

LEMMA NextKeepsTypes ==
    ASSUME Typed, [Next]_vars
    PROVE  Typed'
<1>1. ASSUME NEW r \in Reaper, Reaps(r)
      PROVE  Typed'
  BY <1>1, ReapKeepsTypes
<1>2. ASSUME NEW u \in Resumer, Resumes(u)
      PROVE  Typed'
  BY <1>2, ResumeKeepsTypes
<1>3. ASSUME NEW d \in Destroyer, Destroys(d)
      PROVE  Typed'
  BY <1>3, DestroyKeepsTypes
<1>4. ASSUME NEW d \in Dispatcher, Dispatches(d)
      PROVE  Typed'
  BY <1>4, DispatchKeepsTypes
<1>5. CASE WorldStep
  BY <1>5, WorldKeepsTypes
<1>6. ASSUME NEW x \in Proc, Crash(x)
      PROVE  Typed'
  BY <1>6, CrashKeepsTypes
<1>7. CASE UNCHANGED vars
  BY <1>7 DEF vars, Typed, TypeOK, StoreTypeOK, ReapTypeOK, ResumeTypeOK, DestroyTypeOK,
              DispatchTypeOK, PCOK, Placed, Holding, worldVars, reapVars, resumeVars,
              destroyVars, dispatchVars
<1> QED BY <1>1, <1>2, <1>3, <1>4, <1>5, <1>6, <1>7 DEF Next

LEMMA InitIsTyped == Init => Typed
<1> SUFFICES ASSUME Init PROVE Typed
  OBVIOUS
<1> USE DEF Init
<1>1. StoreTypeOK
  BY DEF StoreTypeOK, SessionState
<1>2. ReapTypeOK
  BY DEF ReapTypeOK
<1>3. ResumeTypeOK
  BY DEF ResumeTypeOK
<1>4. DestroyTypeOK
  BY DEF DestroyTypeOK, Listing, NotRead
<1>5. DispatchTypeOK
  BY DEF DispatchTypeOK
<1>6. DOMAIN pc = Proc /\ \A x \in Proc : pc[x] = IF x \in Reaper THEN "idle" ELSE "start"
  OBVIOUS
<1>7. PCOK
  BY <1>6 DEF PCOK, ReapPC, ResumePC, DestroyPC, DispatchPC, Proc
<1>8. Placed
  BY <1>6 DEF Placed, Holding, Proc
<1> QED BY <1>1, <1>2, <1>3, <1>4, <1>5, <1>6, <1>7, <1>8 DEF Typed, TypeOK

(* Whatever the workspace and however many commands are at work on it, and *)
(* wherever any of them dies, every file and every command keeps its shape *)
(* (the types the mapping store, the listings and the commands rely on).   *)
THEOREM TypesAreKept == Spec => []TypeOK
<1>1. Init => Typed
  BY InitIsTyped
<1>2. Typed /\ [Next]_vars => Typed'
  BY NextKeepsTypes
<1>3. Typed => TypeOK
  BY DEF Typed
<1> QED BY <1>1, <1>2, <1>3, PTL DEF Spec

-----------------------------------------------------------------------------
(* The instance's lock. *)

(* A step that leaves the lock alone, takes it, or releases it, keeps the  *)
(* lock the mark of who is at work, when the command's own place goes with *)
(* it and every other command stays where it is.                           *)
LEMMA LockedSteps ==
    ASSUME Typed, LockIsHeldByItsActor, NEW x \in Proc,
           \A y \in Proc \ {x} : pc'[y] = pc[y] /\ at'[y] = at[y],
           \/ /\ UNCHANGED lock
              /\ (Holding(x)' <=> Holding(x))
              /\ Holding(x) => at'[x] = at[x]
           \/ /\ ~Holding(x) /\ Holding(x)' /\ at'[x] \in Path
              /\ LockFree(at'[x]) /\ Lock(x, at'[x])
           \/ Unlock(x) /\ ~Holding(x)'
    PROVE  LockIsHeldByItsActor'
<1>1. \A y \in Proc \ {x} : /\ Holding(y)' <=> Holding(y)
                            /\ at'[y] = at[y]
  BY DEF Holding
<1>2. lock \in [Path -> Proc \cup {None}] /\ None \notin Proc
  BY DEF Typed, TypeOK, StoreTypeOK
<1>3. CASE UNCHANGED lock /\ (Holding(x)' <=> Holding(x)) /\ (Holding(x) => at'[x] = at[x])
  BY <1>1, <1>3 DEF LockIsHeldByItsActor
<1>4. CASE /\ ~Holding(x) /\ Holding(x)' /\ at'[x] \in Path
           /\ LockFree(at'[x]) /\ Lock(x, at'[x])
  BY <1>1, <1>2, <1>4 DEF LockIsHeldByItsActor, LockFree, Lock
<1>5. CASE Unlock(x) /\ ~Holding(x)'
  BY <1>1, <1>2, <1>5 DEF LockIsHeldByItsActor, Unlock
<1> QED BY <1>3, <1>4, <1>5

LEMMA ReapKeepsLocks ==
    ASSUME Typed, LockIsHeldByItsActor, NEW r \in Reaper, Reaps(r)
    PROVE  LockIsHeldByItsActor'
<1> USE DEF Goto, worldVars
<1>1. /\ ReapStep(r) /\ r \in Proc /\ r \notin Resumer \cup Destroyer
      /\ DOMAIN pc = Proc /\ at \in [Proc -> Path \cup {None}]
      /\ queue[r] \subseteq Task
  BY DEF Reaps, Proc, Typed, TypeOK, StoreTypeOK, ReapTypeOK
<1>2. ASSUME pc[r] = "idle" \/ pc[r] = "mapped" \/ pc[r] = "backstop",
             UNCHANGED <<lock, at>>,
             \/ Goto(r, "idle") \/ Goto(r, "mapped") \/ Goto(r, "backstop")
             \/ UNCHANGED pc
      PROVE  LockIsHeldByItsActor'
  <2>1. ~Holding(r) /\ ~Holding(r)'
    BY <1>1, <1>2 DEF Holding
  <2>2. \A y \in Proc \ {r} : pc'[y] = pc[y] /\ at'[y] = at[y]
    BY <1>1, <1>2
  <2> QED BY <1>1, <1>2, <2>1, <2>2, LockedSteps
<1>3. ASSUME LeaveTask(r)
      PROVE  LockIsHeldByItsActor'
  <2>1. Unlock(r) /\ ~Holding(r)'
    BY <1>1, <1>3 DEF LeaveTask, Holding
  <2>2. \A y \in Proc \ {r} : pc'[y] = pc[y] /\ at'[y] = at[y]
    BY <1>1, <1>3 DEF LeaveTask
  <2> QED BY <1>1, <2>1, <2>2, LockedSteps
<1>4. ASSUME Holding(r), UNCHANGED <<lock, at>>,
             Goto(r, "run") \/ Goto(r, "destroy") \/ Goto(r, "settle")
      PROVE  LockIsHeldByItsActor'
  <2>1. Holding(r)'
    BY <1>1, <1>4 DEF Holding
  <2>2. \A y \in Proc \ {r} : pc'[y] = pc[y] /\ at'[y] = at[y]
    BY <1>1, <1>4
  <2> QED BY <1>1, <1>4, <2>1, <2>2, LockedSteps
<1>5. CASE SelectMapped(r) \/ SelectBackstop(r) \/ FinishSweep(r)
  BY <1>2, <1>5 DEF SelectMapped, SelectBackstop, FinishSweep
<1>6. ASSUME NEW t \in queue[r], TakeTask(r, t)
      PROVE  LockIsHeldByItsActor'
  <2>1. t.path \in Path /\ at'[r] = t.path
    BY <1>1, <1>6 DEF TakeTask, Task
  <2>2. ~Holding(r) /\ Holding(r)'
    BY <1>1, <1>6 DEF TakeTask, Holding
  <2>3. \A y \in Proc \ {r} : pc'[y] = pc[y] /\ at'[y] = at[y]
    BY <1>1, <1>6 DEF TakeTask
  <2> QED BY <1>1, <1>6, <2>1, <2>2, <2>3, LockedSteps DEF TakeTask
<1>7. ASSUME NEW t \in queue[r], SpareHeld(r, t)
      PROVE  LockIsHeldByItsActor'
  BY <1>2, <1>7 DEF SpareHeld
<1>8. CASE Recheck(r)
  BY <1>1, <1>4, <1>8 DEF Recheck, Holding
<1>9. CASE Spare(r) \/ DestroyTargetFails(r) \/ SettleMapping(r)
  BY <1>3, <1>9 DEF Spare, DestroyTargetFails, SettleMapping
<1>10. CASE DestroyTarget(r)
  <2>1. CASE task[r].kind = "target"
    BY <1>1, <1>4, <1>10, <2>1 DEF DestroyTarget, Holding
  <2>2. CASE task[r].kind # "target"
    BY <1>3, <1>10, <2>2 DEF DestroyTarget
  <2> QED BY <2>1, <2>2
<1>11. CASE RunOnReap(r)
  BY <1>1, <1>4, <1>11 DEF RunOnReap, Holding
<1> QED BY <1>1, <1>5, <1>6, <1>7, <1>8, <1>9, <1>10, <1>11 DEF ReapStep

LEMMA ResumeKeepsLocks ==
    ASSUME Typed, LockIsHeldByItsActor, NEW u \in Resumer, Resumes(u)
    PROVE  LockIsHeldByItsActor'
<1> USE DEF Goto, worldVars
<1>1. /\ ResumeStep(u) /\ u \in Proc /\ u \notin Reaper \cup Destroyer
      /\ DOMAIN pc = Proc /\ at \in [Proc -> Path \cup {None}]
      /\ pc[u] \notin {"start", "done"} => at[u] \in Path
  BY DEF Resumes, Proc, Typed, TypeOK, StoreTypeOK, Placed
<1>2. ASSUME NEW step \in ResumePC \ {"start", "resolved", "done"},
             Holding(u), UNCHANGED <<lock, at>>, Goto(u, step)
      PROVE  LockIsHeldByItsActor'
  <2>1. Holding(u)'
    BY <1>1, <1>2 DEF Holding
  <2>2. \A y \in Proc \ {u} : pc'[y] = pc[y] /\ at'[y] = at[y]
    BY <1>1, <1>2
  <2> QED BY <1>1, <1>2, <2>1, <2>2, LockedSteps
<1>3. ASSUME Return(u)
      PROVE  LockIsHeldByItsActor'
  <2>1. Unlock(u) /\ ~Holding(u)'
    BY <1>1, <1>3 DEF Return, Holding
  <2>2. \A y \in Proc \ {u} : pc'[y] = pc[y] /\ at'[y] = at[y]
    BY <1>1, <1>3 DEF Return
  <2> QED BY <1>1, <2>1, <2>2, LockedSteps
<1>4. ASSUME (\E p \in Path : ResolveRecord(u, p)) \/ RefuseHeld(u)
      PROVE  LockIsHeldByItsActor'
  <2>1. ~Holding(u) /\ ~Holding(u)' /\ UNCHANGED lock
    BY <1>1, <1>4 DEF ResolveRecord, RefuseHeld, Holding
  <2>2. \A y \in Proc \ {u} : pc'[y] = pc[y] /\ at'[y] = at[y]
    BY <1>1, <1>4 DEF ResolveRecord, RefuseHeld
  <2> QED BY <1>1, <2>1, <2>2, LockedSteps
<1>5. CASE TakeResumeLock(u)
  <2>1. ~Holding(u) /\ Holding(u)' /\ at'[u] = at[u] /\ at[u] \in Path
    BY <1>1, <1>5 DEF TakeResumeLock, Holding
  <2>2. \A y \in Proc \ {u} : pc'[y] = pc[y] /\ at'[y] = at[y]
    BY <1>1, <1>5 DEF TakeResumeLock
  <2> QED BY <1>1, <1>5, <2>1, <2>2, LockedSteps DEF TakeResumeLock
<1>6. CASE \/ PassChecks(u) \/ BeginRestore(u) \/ Restore(u)
           \/ WriteMapping(u) \/ MappingFails(u) \/ LaunchFails(u) \/ Unmap(u)
           \/ DropOldMapping(u) \/ (\E s \in Session : LaunchWorker(u, s) \/ Capture(u, s))
  BY <1>1, <1>2, <1>6
     DEF PassChecks, BeginRestore, Restore, WriteMapping, MappingFails, LaunchFails, Unmap,
         DropOldMapping, LaunchWorker, Capture, ResumePC, Holding
<1>7. CASE \/ Refuse(u) \/ RestoreFails(u) \/ Rollback(u) \/ CaptureFails(u) \/ Finish(u)
  BY <1>3, <1>7 DEF Refuse, RestoreFails, Rollback, CaptureFails, Finish
<1> QED BY <1>1, <1>4, <1>5, <1>6, <1>7 DEF ResumeStep

LEMMA DestroyKeepsLocks ==
    ASSUME Typed, LockIsHeldByItsActor, NEW d \in Destroyer, Destroys(d)
    PROVE  LockIsHeldByItsActor'
<1> USE DEF Goto, worldVars
<1>1. /\ DestroyStep(d) /\ d \in Proc /\ d \notin Reaper \cup Resumer
      /\ DOMAIN pc = Proc /\ at \in [Proc -> Path \cup {None}]
      /\ pc[d] \notin {"start", "done"} => at[d] \in Path
  BY DEF Destroys, Proc, Typed, TypeOK, StoreTypeOK, Placed
<1>2. ASSUME NEW step \in DestroyPC \ {"start", "resolved", "done"},
             Holding(d), UNCHANGED <<lock, at>>, Goto(d, step) \/ UNCHANGED pc
      PROVE  LockIsHeldByItsActor'
  <2>1. Holding(d)'
    BY <1>1, <1>2 DEF Holding
  <2>2. \A y \in Proc \ {d} : pc'[y] = pc[y] /\ at'[y] = at[y]
    BY <1>1, <1>2
  <2> QED BY <1>1, <1>2, <2>1, <2>2, LockedSteps
<1>3. ASSUME Return(d)
      PROVE  LockIsHeldByItsActor'
  <2>1. Unlock(d) /\ ~Holding(d)'
    BY <1>1, <1>3 DEF Return, Holding
  <2>2. \A y \in Proc \ {d} : pc'[y] = pc[y] /\ at'[y] = at[y]
    BY <1>1, <1>3 DEF Return
  <2> QED BY <1>1, <2>1, <2>2, LockedSteps
<1>4. ASSUME (\E p \in Path : ChooseInstance(d, p)) \/ DestroyRefusesHeld(d)
      PROVE  LockIsHeldByItsActor'
  <2>1. ~Holding(d) /\ ~Holding(d)' /\ UNCHANGED lock
    BY <1>1, <1>4 DEF ChooseInstance, DestroyRefusesHeld, Holding
  <2>2. \A y \in Proc \ {d} : pc'[y] = pc[y] /\ at'[y] = at[y]
    BY <1>1, <1>4 DEF ChooseInstance, DestroyRefusesHeld
  <2> QED BY <1>1, <2>1, <2>2, LockedSteps
<1>5. CASE TakeDestroyLock(d)
  <2>1. ~Holding(d) /\ Holding(d)' /\ at'[d] = at[d] /\ at[d] \in Path
    BY <1>1, <1>5 DEF TakeDestroyLock, Holding
  <2>2. \A y \in Proc \ {d} : pc'[y] = pc[y] /\ at'[y] = at[y]
    BY <1>1, <1>5 DEF TakeDestroyLock
  <2> QED BY <1>1, <1>5, <2>1, <2>2, LockedSteps DEF TakeDestroyLock
<1>6. CASE \/ ListSessions(d) \/ PassPreflight(d) \/ Confirm(d) \/ ReadOwners(d) \/ NoOwners(d)
           \/ OwnersDone(d) \/ RunOwnerOnReap(d) \/ SettleOwner(d)
  BY <1>1, <1>2, <1>6
     DEF ListSessions, PassPreflight, Confirm, ReadOwners, NoOwners, OwnersDone,
         RunOwnerOnReap, SettleOwner, DestroyPC, Holding
<1>7. CASE \E m \in owners[d] : \/ KeepRunningOwner(d, m) \/ OwnerAlreadyGone(d, m)
                               \/ RemoveOwner(d, m) \/ RemoveOwnerFails(d, m)
  <2>1. Holding(d) /\ UNCHANGED <<lock, at>> /\ (Goto(d, "run") \/ UNCHANGED pc)
    BY <1>1, <1>7 DEF KeepRunningOwner, OwnerAlreadyGone, RemoveOwner, RemoveOwnerFails,
                      Holding
  <2>2. "run" \in DestroyPC \ {"start", "resolved", "done"}
    BY DEF DestroyPC
  <2> QED BY <1>2, <2>1, <2>2
<1>8. CASE SomethingKeeps(d) \/ Abort(d) \/ RemoveInstance(d)
  BY <1>3, <1>8 DEF SomethingKeeps, Abort, RemoveInstance
<1> QED BY <1>1, <1>4, <1>5, <1>6, <1>7, <1>8 DEF DestroyStep

(* A dispatch holds no lock and takes none. *)
LEMMA DispatchKeepsLocks ==
    ASSUME Typed, LockIsHeldByItsActor, NEW d \in Dispatcher, Dispatches(d)
    PROVE  LockIsHeldByItsActor'
<1> USE DEF Goto, worldVars
<1>1. /\ DispatchStep(d) /\ d \in Proc /\ d \notin Reaper \cup Resumer \cup Destroyer
      /\ DOMAIN pc = Proc /\ at \in [Proc -> Path \cup {None}]
  BY DEF Dispatches, Proc, Typed, TypeOK, StoreTypeOK
<1>2. ~Holding(d) /\ ~Holding(d)'
  BY <1>1 DEF Holding
<1>3. CASE \/ BeginProvision(d) \/ Provision(d) \/ WriteAuthority(d) \/ CreateLineage(d)
           \/ EarlyFailure(d) \/ TurnEnds(d) \/ CannotMap(d) \/ WriteDispatchMapping(d)
           \/ (\E s \in Session : LaunchDispatched(d, s) \/ CaptureDispatched(d, s))
  <2>1. UNCHANGED lock /\ \A y \in Proc \ {d} : pc'[y] = pc[y] /\ at'[y] = at[y]
    BY <1>1, <1>3 DEF BeginProvision, Provision, WriteAuthority, CreateLineage,
                      EarlyFailure, TurnEnds, CannotMap, WriteDispatchMapping,
                      LaunchDispatched, CaptureDispatched
  <2> QED BY <1>1, <1>2, <2>1, LockedSteps
<1>4. CASE \/ ProvisionFails(d) \/ WriteLaunchRecord(d) \/ WriteRetainMarker(d)
           \/ RetainMarkerFails(d) \/ RollbackDispatch(d)
  <2>1. Return(d)
    BY <1>4 DEF Exit, ProvisionFails, WriteLaunchRecord, WriteRetainMarker, RetainMarkerFails,
                RollbackDispatch
  <2>2. Unlock(d) /\ \A y \in Proc \ {d} : pc'[y] = pc[y] /\ at'[y] = at[y]
    BY <1>1, <2>1 DEF Return
  <2> QED BY <1>1, <1>2, <2>2, LockedSteps
<1> QED BY <1>1, <1>3, <1>4 DEF DispatchStep

LEMMA NextKeepsLocks ==
    ASSUME Typed, LockIsHeldByItsActor, [Next]_vars
    PROVE  LockIsHeldByItsActor'
<1>1. ASSUME NEW r \in Reaper, Reaps(r)
      PROVE  LockIsHeldByItsActor'
  BY <1>1, ReapKeepsLocks
<1>2. ASSUME NEW u \in Resumer, Resumes(u)
      PROVE  LockIsHeldByItsActor'
  BY <1>2, ResumeKeepsLocks
<1>3. ASSUME NEW d \in Destroyer, Destroys(d)
      PROVE  LockIsHeldByItsActor'
  BY <1>3, DestroyKeepsLocks
<1>4. ASSUME NEW d \in Dispatcher, Dispatches(d)
      PROVE  LockIsHeldByItsActor'
  BY <1>4, DispatchKeepsLocks
<1>5. CASE WorldStep \/ UNCHANGED vars
  <2>1. UNCHANGED <<lock, pc, at>>
    BY <1>5 DEF WorldStep, World, SessionIdles, SessionPrompted, SessionGoes,
                TranscriptExpires, InstanceAges, vars, worldVars
  <2> QED BY <2>1 DEF LockIsHeldByItsActor, Holding
<1>6. ASSUME NEW x \in Proc, Crash(x)
      PROVE  LockIsHeldByItsActor'
  <2>1. DOMAIN pc = Proc /\ at \in [Proc -> Path \cup {None}]
    BY DEF Typed, TypeOK, StoreTypeOK
  <2>2. Unlock(x) /\ ~Holding(x)'
    BY <1>6, <2>1 DEF Crash, Goto, Holding
  <2>3. \A y \in Proc \ {x} : pc'[y] = pc[y] /\ at'[y] = at[y]
    BY <1>6, <2>1 DEF Crash, Goto
  <2> QED BY <2>2, <2>3, LockedSteps
<1> QED BY <1>1, <1>2, <1>3, <1>4, <1>5, <1>6 DEF Next

(* Whatever the workspace, however many commands are at work on it and     *)
(* wherever any of them dies, an instance's lock is held by exactly the    *)
(* command that is between its check and the end of its action there: so   *)
(* no two commands are, and none that has returned or died keeps it.       *)
THEOREM LocksAreHeldByTheirActors == Spec => []LockIsHeldByItsActor
<1>1. Init => Typed /\ LockIsHeldByItsActor
  <2> SUFFICES ASSUME Init PROVE Typed /\ LockIsHeldByItsActor
    OBVIOUS
  <2>1. \A x \in Proc : ~Holding(x)
    BY DEF Init, Holding, Proc
  <2>2. LockIsHeldByItsActor
    BY <2>1 DEF Init, LockIsHeldByItsActor
  <2> QED BY <2>2, InitIsTyped
<1>2. Typed /\ LockIsHeldByItsActor /\ [Next]_vars => Typed' /\ LockIsHeldByItsActor'
  BY NextKeepsTypes, NextKeepsLocks
<1> QED BY <1>1, <1>2, PTL DEF Spec

-----------------------------------------------------------------------------
(***************************************************************************)
(* A session never leaves the instance it was launched into, and whatever  *)
(* names a session with an instance (a mapping, a launch record, a reap's  *)
(* selection, a resume's, a destroy's owners) names that one.  With the    *)
(* discipline of the locks it follows that what a command does to the      *)
(* store it does to the instance whose lock it holds.                      *)
(***************************************************************************)

(* m, when it is a mapping, names p and a session that is rooted there. *)
Keeps(m, p) == m # NoMapping => m.path = p /\ home[m.sess] = p

SessionHomed(s) ==
    /\ home[s] = None <=> sess[s] = "unborn"
    /\ mapping[s] # NoMapping => mapping[s].sess = s /\ mapping[s].path = home[s]

RecordHomed(p) == launch[p] # None => home[launch[p]] = p

ReapHomed(r) ==
    /\ \A t \in queue[r] : Keeps(t.m, t.path)
    /\ Holding(r) => at[r] = task[r].path /\ Keeps(task[r].m, at[r])

ResumeHomed(u) ==
    pc[u] \notin {"start", "done"} =>
        /\ home[rec[u]] = at[u]
        /\ pc[u] \in {"start worker", "undo"} =>
               Keeps(prev[u], at[u]) /\ (prev[u] # NoMapping => prev[u].sess = rec[u])
        /\ pc[u] \in {"rekey", "finish"} => home[started[u]] = at[u] /\ started[u] # None

DestroyHomed(d) ==
    /\ pc[d] \in {"each", "run", "settle"} => \A m \in owners[d] : Keeps(m, at[d])
    /\ pc[d] \in {"run", "settle"} => Keeps(owner[d], at[d])

DispatchHomed(d) ==
    pc[d] \notin {"start", "done"} =>
        /\ at[d] = TokenPath[d]
        /\ pc[d] \in {"map", "record"} => worker[d] # None /\ home[worker[d]] = at[d]

Homed ==
    /\ \A s \in Session : SessionHomed(s)
    /\ \A p \in Path : RecordHomed(p)
    /\ \A r \in Reaper : ReapHomed(r)
    /\ \A u \in Resumer : ResumeHomed(u)
    /\ \A d \in Destroyer : DestroyHomed(d)
    /\ \A d \in Dispatcher : DispatchHomed(d)

(* Everything the theorem rests on. *)
Kept == Typed /\ LockIsHeldByItsActor /\ Homed

USE ConstantsAssumption, TokenPathAssumption

-----------------------------------------------------------------------------
(* What stands when somebody else takes a step. *)

(* No session that has a home moves. *)
HomesStay == \A s \in Session : home[s] # None => home'[s] = home[s]

LEMMA KeepsStays ==
    ASSUME HomesStay, NEW m \in Mapping \cup {NoMapping}, NEW p \in Path, Keeps(m, p)
    PROVE  Keeps(m, p)'
BY DEF HomesStay, Keeps, Mapping

LEMMA RecordStands ==
    ASSUME Typed, HomesStay, NEW p \in Path, RecordHomed(p),
           launch'[p] = launch[p] \/ launch'[p] = None
    PROVE  RecordHomed(p)'
BY DEF Typed, TypeOK, StoreTypeOK, HomesStay, RecordHomed

LEMMA ReapStands ==
    ASSUME Typed, HomesStay, NEW r \in Reaper, ReapHomed(r),
           queue'[r] = queue[r], task'[r] = task[r], pc'[r] = pc[r], at'[r] = at[r]
    PROVE  ReapHomed(r)'
<1>1. /\ queue[r] \subseteq Task
      /\ \A t \in Task : t.path \in Path /\ t.m \in Mapping \cup {NoMapping}
      /\ task[r] \in Task \cup {NoTask}
  BY DEF Typed, TypeOK, ReapTypeOK, Task
<1>2. \A t \in queue[r] : Keeps(t.m, t.path)'
  BY <1>1, KeepsStays DEF ReapHomed
<1>3. ASSUME Holding(r)
      PROVE  at[r] = task[r].path /\ Keeps(task[r].m, at[r])'
  <2>1. at[r] = task[r].path /\ at[r] \in Path /\ Keeps(task[r].m, at[r])
    BY <1>3 DEF Typed, Placed, ReapHomed
  <2>2. task[r] \in Task
    BY <1>1, <2>1 DEF NoTask
  <2> QED BY <1>1, <2>1, <2>2, KeepsStays
<1>4. Holding(r)' => Holding(r)
  BY DEF Holding
<1> QED BY <1>2, <1>3, <1>4 DEF ReapHomed, Keeps

LEMMA ResumeStands ==
    ASSUME Typed, HomesStay, NEW u \in Resumer, ResumeHomed(u),
           pc'[u] = pc[u], at'[u] = at[u], rec'[u] = rec[u], prev'[u] = prev[u],
           started'[u] = started[u]
    PROVE  ResumeHomed(u)'
<1> SUFFICES ASSUME pc[u] \notin {"start", "done"} PROVE ResumeHomed(u)'
  BY DEF ResumeHomed
<1>1. /\ at[u] \in Path /\ rec[u] \in Session /\ prev[u] \in Mapping \cup {NoMapping}
      /\ started[u] \in Session \cup {None}
  BY DEF Typed, Placed, TypeOK, ResumeTypeOK
<1>2. pc[u] \in {"start worker", "undo"} => Keeps(prev[u], at[u])'
  BY <1>1, KeepsStays DEF ResumeHomed, Keeps
<1> QED BY <1>1, <1>2 DEF ResumeHomed, HomesStay

LEMMA DestroyStands ==
    ASSUME Typed, HomesStay, NEW d \in Destroyer, DestroyHomed(d),
           pc'[d] = pc[d], at'[d] = at[d], owners'[d] = owners[d], owner'[d] = owner[d]
    PROVE  DestroyHomed(d)'
<1> SUFFICES ASSUME pc[d] \in {"each", "run", "settle"} PROVE DestroyHomed(d)'
  BY DEF DestroyHomed
<1>1. /\ at[d] \in Path /\ owners[d] \subseteq Mapping /\ owner[d] \in Mapping \cup {NoMapping}
  BY DEF Typed, Placed, TypeOK, DestroyTypeOK
<1>2. /\ \A m \in owners[d] : Keeps(m, at[d])'
      /\ pc[d] \in {"run", "settle"} => Keeps(owner[d], at[d])'
  BY <1>1, KeepsStays DEF DestroyHomed
<1> QED BY <1>2 DEF DestroyHomed, Keeps

LEMMA DispatchStands ==
    ASSUME Typed, HomesStay, NEW d \in Dispatcher, DispatchHomed(d),
           pc'[d] = pc[d], at'[d] = at[d], worker'[d] = worker[d]
    PROVE  DispatchHomed(d)'
BY DEF Typed, TypeOK, DispatchTypeOK, Placed, DispatchHomed, HomesStay

-----------------------------------------------------------------------------
(* Reap. *)

LEMMA SelectionsAreHomed ==
    ASSUME Typed, Homed, NEW t, t \in StoredTargets \cup BackstopTargets
                                 \/ \E pick \in JoinByPath : t \in ReapTargets(pick)
    PROVE  Keeps(t.m, t.path)
<1>1. \A s \in Mapped : mapping[s].sess = s /\ home[s] = mapping[s].path
  BY DEF Homed, SessionHomed, Mapped
<1>2. CASE t \in StoredTargets
  BY <1>1, <1>2 DEF StoredTargets, Keeps
<1>3. CASE t \in BackstopTargets
  BY <1>3 DEF BackstopTargets, Keeps
<1>4. ASSUME NEW pick \in JoinByPath, t \in ReapTargets(pick)
      PROVE  Keeps(t.m, t.path)
  <2>1. \A p \in DOMAIN pick : pick[p] \in Mapped /\ mapping[pick[p]].path = p
    BY DEF JoinByPath, MappedTo
  <2> QED BY <1>1, <1>4, <2>1 DEF ReapTargets, Keeps
<1> QED BY <1>2, <1>3, <1>4

(* Settling the mapping of a task or of an owner leaves every session with *)
(* the home its mapping names.                                             *)
LEMMA SettlingKeepsHomes ==
    ASSUME Typed, Homed, NEW m \in Mapping \cup {NoMapping}, NEW p \in Path, NEW ok,
           Keeps(m, p), Settled(m, ok), UNCHANGED <<sess, home>>
    PROVE  /\ \A s \in Session : SessionHomed(s)'
           /\ \A s \in Session : mapping'[s] # mapping[s] => home[s] = p
<1> USE DEF Typed, TypeOK, StoreTypeOK
<1>1. CASE m = NoMapping
  <2>1. mapping' = mapping
    BY <1>1 DEF Settled, NoMapping
  <2> QED BY <2>1 DEF Homed, SessionHomed
<1>2. CASE m # NoMapping
  <2>1. m \in Mapping /\ m.sess \in Session /\ m.path = p /\ home[m.sess] = p
    BY <1>2 DEF Keeps, Mapping
  <2> DEFINE n == [m EXCEPT !.fails = @ + 1]
  <2>2. n.sess = m.sess /\ n.path = p
    BY <2>1 DEF Mapping
  <2>3. /\ \A s \in Session \ {m.sess} : mapping'[s] = mapping[s]
        /\ mapping'[m.sess] \in {mapping[m.sess], NoMapping, n}
    BY <2>1 DEF Settled
  <2> HIDE DEF n
  <2>4. \A s \in Session : SessionHomed(s)
    BY DEF Homed
  <2>5. \A s \in Session \ {m.sess} : SessionHomed(s)'
    BY <2>3, <2>4 DEF SessionHomed
  <2>6. SessionHomed(m.sess)'
    BY <2>1, <2>2, <2>3, <2>4 DEF SessionHomed
  <2>7. \A s \in Session : mapping'[s] # mapping[s] => home[s] = p
    BY <2>1, <2>3
  <2> QED BY <2>5, <2>6, <2>7
<1> QED BY <1>1, <1>2

LEMMA ReapKeepsHomes ==
    ASSUME Typed, Homed, NEW r \in Reaper, Reaps(r)
    PROVE  Homed' /\ HomesStay
<1> USE DEF Goto, worldVars, fileVars
<1>1. /\ ReapStep(r) /\ UNCHANGED <<resumeVars, destroyVars, dispatchVars>> /\ r \in Proc
      /\ DOMAIN pc = Proc /\ at \in [Proc -> Path \cup {None}]
      /\ queue \in [Reaper -> SUBSET Task] /\ task \in [Reaper -> Task \cup {NoTask}]
      /\ r \notin Resumer \cup Destroyer \cup Dispatcher
  BY DEF Reaps, Proc, Typed, TypeOK, StoreTypeOK, ReapTypeOK
<1>2. /\ \A y \in Proc \ {r} : pc'[y] = pc[y] /\ at'[y] = at[y]
      /\ \A y \in Reaper \ {r} : queue'[y] = queue[y] /\ task'[y] = task[y]
      /\ UNCHANGED <<sess, home>>
  <2>1. CASE SelectMapped(r) \/ SelectBackstop(r) \/ FinishSweep(r)
    BY <1>1, <2>1 DEF SelectMapped, SelectBackstop, FinishSweep
  <2>2. CASE \E t \in queue[r] : TakeTask(r, t) \/ SpareHeld(r, t)
    BY <1>1, <2>2 DEF TakeTask, SpareHeld
  <2>3. CASE Recheck(r) \/ Spare(r) \/ RunOnReap(r) \/ SettleMapping(r) \/ DestroyTargetFails(r)
    BY <1>1, <2>3 DEF Recheck, Spare, RunOnReap, SettleMapping, DestroyTargetFails, LeaveTask
  <2>4. CASE DestroyTarget(r)
    <3>1. CASE task[r].kind = "target"
      BY <1>1, <2>4, <3>1 DEF DestroyTarget
    <3>2. CASE task[r].kind # "target"
      BY <1>1, <2>4, <3>2 DEF DestroyTarget, LeaveTask
    <3> QED BY <3>1, <3>2
  <2> QED BY <1>1, <2>1, <2>2, <2>3, <2>4 DEF ReapStep
<1>3. HomesStay
  BY <1>2 DEF HomesStay
<1>4. \A s \in Session : SessionHomed(s)'
  <2>1. CASE mapping' = mapping
    BY <1>2, <2>1 DEF Homed, SessionHomed
  <2>2. CASE SettleMapping(r)
    <3>1. Holding(r) /\ at[r] \in Path
      BY <1>1, <2>2 DEF SettleMapping, Holding, Typed, Placed
    <3>2. task[r].m \in Mapping \cup {NoMapping} /\ Keeps(task[r].m, at[r])
      BY <1>1, <3>1 DEF Homed, ReapHomed, Task, NoTask
    <3> QED BY <1>2, <2>2, <3>1, <3>2, SettlingKeepsHomes DEF SettleMapping
  <2> QED BY <1>1, <2>1, <2>2
          DEF ReapStep, SelectMapped, SelectBackstop, FinishSweep, TakeTask, SpareHeld,
              Recheck, Spare, RunOnReap, DestroyTarget, DestroyTargetFails
<1>5. \A p \in Path : RecordHomed(p)'
  <2>1. \A p \in Path : launch'[p] = launch[p] \/ launch'[p] = None
    BY <1>1 DEF ReapStep, SelectMapped, SelectBackstop, FinishSweep, TakeTask, SpareHeld,
                Recheck, Spare, RunOnReap, DestroyTarget, DestroyTargetFails, SettleMapping,
                SweepLaunchRecords
  <2> QED BY <1>3, <2>1, RecordStands DEF Homed
<1>6. ReapHomed(r)'
  <2>1. CASE SelectMapped(r) \/ SelectBackstop(r)
    <3>1. \A t \in queue'[r] : Keeps(t.m, t.path)
      BY <1>1, <2>1, SelectionsAreHomed DEF SelectMapped, SelectBackstop
    <3>2. ~Holding(r)'
      BY <1>1, <2>1 DEF SelectMapped, SelectBackstop, Holding
    <3> QED BY <1>2, <3>1, <3>2 DEF ReapHomed, Keeps
  <2>2. CASE FinishSweep(r)
    BY <1>1, <1>2, <2>2 DEF FinishSweep, Homed, ReapHomed, Keeps, Holding
  <2>3. ASSUME NEW t \in queue[r], TakeTask(r, t)
        PROVE  ReapHomed(r)'
    BY <1>1, <1>2, <2>3 DEF TakeTask, Homed, ReapHomed, Keeps, Holding
  <2>4. ASSUME NEW t \in queue[r], SpareHeld(r, t)
        PROVE  ReapHomed(r)'
    BY <1>1, <1>2, <2>4 DEF SpareHeld, Homed, ReapHomed, Keeps, Holding
  <2>5. ASSUME Holding(r), UNCHANGED <<at, queue, task>>
        PROVE  ReapHomed(r)'
    BY <1>1, <1>2, <2>5 DEF Homed, ReapHomed, Keeps
  <2>6. ASSUME LeaveTask(r), queue' = queue
        PROVE  ReapHomed(r)'
    <3>1. ~Holding(r)'
      BY <1>1, <2>6 DEF LeaveTask, Holding
    <3> QED BY <1>2, <2>6, <3>1 DEF Homed, ReapHomed, Keeps
  <2>7. CASE Recheck(r) \/ RunOnReap(r)
    BY <1>1, <2>5, <2>7 DEF Recheck, RunOnReap, Holding
  <2>8. CASE Spare(r) \/ DestroyTargetFails(r) \/ SettleMapping(r)
    BY <2>6, <2>8 DEF Spare, DestroyTargetFails, SettleMapping
  <2>9. CASE DestroyTarget(r)
    <3>1. CASE task[r].kind = "target"
      BY <1>1, <2>5, <2>9, <3>1 DEF DestroyTarget, Holding
    <3>2. CASE task[r].kind # "target"
      BY <2>6, <2>9, <3>2 DEF DestroyTarget
    <3> QED BY <3>1, <3>2
  <2> QED BY <1>1, <2>1, <2>2, <2>3, <2>4, <2>7, <2>8, <2>9 DEF ReapStep
<1>7. \A y \in Reaper : ReapHomed(y)'
  BY <1>2, <1>3, <1>6, ReapStands DEF Homed, Proc
<1>8. \A u \in Resumer : ResumeHomed(u)'
  BY <1>1, <1>2, <1>3, ResumeStands DEF Homed, Proc, resumeVars
<1>9. \A d \in Destroyer : DestroyHomed(d)'
  BY <1>1, <1>2, <1>3, DestroyStands DEF Homed, Proc, destroyVars
<1>10. \A d \in Dispatcher : DispatchHomed(d)'
  BY <1>1, <1>2, <1>3, DispatchStands DEF Homed, Proc, dispatchVars
<1> QED BY <1>3, <1>4, <1>5, <1>7, <1>8, <1>9, <1>10 DEF Homed

-----------------------------------------------------------------------------
(* Resume. *)

LEMMA ResumeKeepsHomes ==
    ASSUME Typed, Homed, NEW u \in Resumer, Resumes(u)
    PROVE  Homed' /\ HomesStay
<1> USE DEF Goto, worldVars, fileVars, resumeVars
<1>1. /\ ResumeStep(u) /\ UNCHANGED <<reapVars, destroyVars, dispatchVars>> /\ u \in Proc
      /\ DOMAIN pc = Proc /\ at \in [Proc -> Path \cup {None}]
      /\ u \notin Reaper \cup Destroyer \cup Dispatcher
  BY DEF Resumes, Proc, Typed, TypeOK, StoreTypeOK
<1>2. /\ mapping \in [Session -> Mapping \cup {NoMapping}]
      /\ launch \in [Path -> Session \cup {None}]
      /\ sess \in [Session -> SessionState] /\ home \in [Session -> Path \cup {None}]
      /\ rec \in [Resumer -> Session \cup {None}]
      /\ prev \in [Resumer -> Mapping \cup {NoMapping}]
      /\ started \in [Resumer -> Session \cup {None}]
  BY DEF Typed, TypeOK, StoreTypeOK, ResumeTypeOK
<1>3. pc[u] \notin {"start", "done"} =>
          at[u] \in Path /\ rec[u] \in Session /\ home[rec[u]] = at[u]
  BY DEF Typed, Placed, Homed, ResumeHomed
<1>4. /\ \A y \in Proc \ {u} : pc'[y] = pc[y] /\ at'[y] = at[y]
      /\ \A y \in Resumer \ {u} : /\ rec'[y] = rec[y] /\ prev'[y] = prev[y]
                                  /\ started'[y] = started[y]
  <2>1. CASE \E p \in Path : ResolveRecord(u, p)
    BY <1>1, <1>2, <2>1 DEF ResolveRecord
  <2>2. CASE \/ TakeResumeLock(u) \/ RefuseHeld(u) \/ PassChecks(u) \/ BeginRestore(u)
             \/ Restore(u) \/ WriteMapping(u) \/ MappingFails(u)
    BY <1>1, <1>2, <2>2 DEF TakeResumeLock, RefuseHeld, PassChecks, BeginRestore, Restore,
                            WriteMapping, MappingFails
  <2>3. CASE \/ \E s \in Session : LaunchWorker(u, s) \/ Capture(u, s)
             \/ LaunchFails(u) \/ Unmap(u) \/ DropOldMapping(u)
    BY <1>1, <1>2, <2>3 DEF LaunchWorker, Capture, LaunchFails, Unmap, DropOldMapping
  <2>4. CASE \/ Refuse(u) \/ RestoreFails(u) \/ Rollback(u) \/ CaptureFails(u) \/ Finish(u)
    BY <1>1, <1>2, <2>4 DEF Refuse, RestoreFails, Rollback, CaptureFails, Finish, Return
  <2> QED BY <1>1, <2>1, <2>2, <2>3, <2>4 DEF ResumeStep
<1>5. \/ UNCHANGED <<sess, home, mapping>>
      \/ \E s \in Session : LaunchWorker(u, s) \/ Capture(u, s)
      \/ WriteMapping(u) \/ Unmap(u) \/ DropOldMapping(u)
  BY <1>1 DEF ResumeStep, ResolveRecord, TakeResumeLock, RefuseHeld, PassChecks, Refuse,
              BeginRestore, Restore, RestoreFails, MappingFails, LaunchFails, Rollback,
              CaptureFails, Finish
<1>6. \A s \in Session : SessionHomed(s)
  BY DEF Homed
<1>7. HomesStay
  <2>1. ASSUME NEW s \in Session, LaunchWorker(u, s)
        PROVE  HomesStay
    <3>1. home[s] = None \/ home[s] = at[u]
      BY <1>3, <1>6, <2>1 DEF LaunchWorker, SessionHomed
    <3> QED BY <1>2, <2>1, <3>1 DEF LaunchWorker, HomesStay
  <2> QED BY <1>5, <2>1 DEF HomesStay, Capture, WriteMapping, Unmap, DropOldMapping
<1>8. \A s \in Session : SessionHomed(s)'
  <2>1. ASSUME NEW s \in Session, LaunchWorker(u, s)
        PROVE  \A t \in Session : SessionHomed(t)'
    <3>1. /\ home[s] = None \/ home[s] = at[u]
          /\ at[u] \in Path
      BY <1>3, <1>6, <2>1 DEF LaunchWorker, SessionHomed
    <3>2. \A t \in Session \ {s} : home'[t] = home[t] /\ sess'[t] = sess[t]
      BY <1>2, <2>1 DEF LaunchWorker
    <3>3. home'[s] = at[u] /\ sess'[s] = "running" /\ mapping' = mapping
      BY <1>2, <2>1 DEF LaunchWorker
    <3>4. mapping[s] # NoMapping => home[s] # None
      BY <1>2, <1>6 DEF SessionHomed, Mapping
    <3>5. SessionHomed(s)'
      BY <1>6, <3>1, <3>3, <3>4 DEF SessionHomed
    <3> QED BY <1>6, <3>2, <3>3, <3>5 DEF SessionHomed
  <2>2. ASSUME NEW s \in Session, Capture(u, s)
        PROVE  \A t \in Session : SessionHomed(t)'
    <3>1. home[s] = at[u]
      BY <2>2 DEF Capture, RecordsAt
    <3> QED BY <1>2, <1>6, <2>2, <3>1 DEF Capture, SessionHomed, NewMapping
  <2>3. CASE WriteMapping(u)
    BY <1>2, <1>3, <1>6, <2>3 DEF WriteMapping, SessionHomed, NewMapping
  <2>4. CASE Unmap(u)
    <3>1. prev[u] # NoMapping => prev[u].path = at[u] /\ prev[u].sess = rec[u]
      BY <2>4 DEF Unmap, Homed, ResumeHomed, Keeps
    <3>2. mapping' = mapping \/ mapping' = [mapping EXCEPT ![rec[u]] = prev[u]]
      BY <2>4 DEF Unmap
    <3> QED BY <1>2, <1>3, <1>6, <2>4, <3>1, <3>2 DEF Unmap, SessionHomed
  <2>5. CASE DropOldMapping(u)
    <3>1. mapping' = mapping \/ mapping' = [mapping EXCEPT ![rec[u]] = NoMapping]
      BY <2>5 DEF DropOldMapping
    <3> QED BY <1>2, <1>3, <1>6, <2>5, <3>1 DEF DropOldMapping, SessionHomed
  <2> QED BY <1>5, <1>6, <2>1, <2>2, <2>3, <2>4, <2>5 DEF SessionHomed
<1>9. \A p \in Path : RecordHomed(p)'
  <2>1. CASE launch' = launch
    BY <1>7, <2>1, RecordStands DEF Homed
  <2>2. CASE Finish(u)
    <3>1. started[u] \in Session /\ home[started[u]] = at[u] /\ home' = home
      BY <1>2, <2>2 DEF Finish, Homed, ResumeHomed
    <3> QED BY <1>2, <2>2, <3>1 DEF Finish, Homed, RecordHomed
  <2> QED BY <1>1, <2>1, <2>2
          DEF ResumeStep, ResolveRecord, TakeResumeLock, RefuseHeld, PassChecks, Refuse,
              BeginRestore, Restore, RestoreFails, MappingFails, LaunchFails, Rollback,
              CaptureFails, LaunchWorker, Capture, WriteMapping, Unmap, DropOldMapping
<1>10. ResumeHomed(u)'
  <2>1. CASE pc'[u] \in {"start", "done"}
    BY <2>1 DEF ResumeHomed
  <2>2. ASSUME NEW p \in Path, ResolveRecord(u, p)
        PROVE  ResumeHomed(u)'
    BY <1>1, <1>2, <2>2 DEF ResolveRecord, Homed, RecordHomed, ResumeHomed
  <2>3. CASE \/ TakeResumeLock(u) \/ PassChecks(u) \/ BeginRestore(u)
             \/ Restore(u) \/ MappingFails(u)
    BY <1>1, <1>3, <2>3 DEF TakeResumeLock, PassChecks, BeginRestore, Restore, MappingFails,
                            ResumeHomed
  <2>4. CASE WriteMapping(u)
    <3>1. mapping[rec[u]] # NoMapping => /\ mapping[rec[u]].sess = rec[u]
                                         /\ mapping[rec[u]].path = at[u]
      BY <1>3, <1>6, <2>4 DEF WriteMapping, SessionHomed
    <3> QED BY <1>1, <1>2, <1>3, <2>4, <3>1 DEF WriteMapping, ResumeHomed, Keeps
  <2>5. ASSUME NEW s \in Session, LaunchWorker(u, s)
        PROVE  ResumeHomed(u)'
    BY <1>1, <1>2, <1>3, <1>7, <2>5 DEF LaunchWorker, ResumeHomed, HomesStay
  <2>6. CASE LaunchFails(u)
    BY <1>1, <1>3, <2>6 DEF LaunchFails, Homed, ResumeHomed, Keeps
  <2>7. CASE Unmap(u)
    BY <1>1, <1>3, <2>7 DEF Unmap, ResumeHomed
  <2>8. ASSUME NEW s \in Session, Capture(u, s)
        PROVE  ResumeHomed(u)'
    <3>1. home[s] = at[u]
      BY <2>8 DEF Capture, RecordsAt
    <3> QED BY <1>1, <1>2, <1>3, <2>8, <3>1 DEF Capture, ResumeHomed
  <2>9. CASE DropOldMapping(u)
    BY <1>1, <1>3, <2>9 DEF DropOldMapping, Homed, ResumeHomed
  <2>10. CASE \/ RefuseHeld(u) \/ Refuse(u) \/ RestoreFails(u) \/ Rollback(u)
              \/ CaptureFails(u) \/ Finish(u)
    BY <1>1, <2>1, <2>10 DEF RefuseHeld, Refuse, RestoreFails, Rollback, CaptureFails,
                             Finish, Return
  <2> QED BY <1>1, <2>2, <2>3, <2>4, <2>5, <2>6, <2>7, <2>8, <2>9, <2>10 DEF ResumeStep
<1>11. \A v \in Resumer : ResumeHomed(v)'
  BY <1>4, <1>7, <1>10, ResumeStands DEF Homed, Proc
<1>12. \A r \in Reaper : ReapHomed(r)'
  BY <1>1, <1>4, <1>7, ReapStands DEF Homed, Proc, reapVars
<1>13. \A d \in Destroyer : DestroyHomed(d)'
  BY <1>1, <1>4, <1>7, DestroyStands DEF Homed, Proc, destroyVars
<1>14. \A d \in Dispatcher : DispatchHomed(d)'
  BY <1>1, <1>4, <1>7, DispatchStands DEF Homed, Proc, dispatchVars
<1> QED BY <1>7, <1>8, <1>9, <1>11, <1>12, <1>13, <1>14 DEF Homed

-----------------------------------------------------------------------------
(* Destroy. *)

LEMMA OwnersAreHomed ==
    ASSUME Typed, Homed, NEW p
    PROVE  \A m \in OwningMappings(p) : Keeps(m, p)
BY DEF OwningMappings, MappedTo, Mapped, Homed, SessionHomed, Keeps

LEMMA DestroyKeepsHomes ==
    ASSUME Typed, Homed, NEW d \in Destroyer, Destroys(d)
    PROVE  Homed' /\ HomesStay
<1> USE DEF Goto, worldVars, fileVars, destroyVars
<1>1. /\ DestroyStep(d) /\ UNCHANGED <<reapVars, resumeVars, dispatchVars>> /\ d \in Proc
      /\ DOMAIN pc = Proc /\ at \in [Proc -> Path \cup {None}]
      /\ d \notin Reaper \cup Resumer \cup Dispatcher
  BY DEF Destroys, Proc, Typed, TypeOK, StoreTypeOK
<1>2. /\ sess \in [Session -> SessionState]
      /\ owners \in [Destroyer -> SUBSET Mapping]
      /\ owner \in [Destroyer -> Mapping \cup {NoMapping}]
      /\ pc[d] \notin {"start", "done"} => at[d] \in Path
  BY DEF Typed, Placed, TypeOK, StoreTypeOK, DestroyTypeOK
<1>3. /\ \A y \in Proc \ {d} : pc'[y] = pc[y] /\ at'[y] = at[y]
      /\ \A y \in Destroyer \ {d} : owners'[y] = owners[y] /\ owner'[y] = owner[y]
      /\ UNCHANGED <<home, launch>>
  <2>1. CASE \E p \in Path : ChooseInstance(d, p)
    BY <1>1, <1>2, <2>1 DEF ChooseInstance
  <2>2. CASE \/ TakeDestroyLock(d) \/ DestroyRefusesHeld(d) \/ ListSessions(d)
             \/ PassPreflight(d) \/ Confirm(d) \/ ReadOwners(d) \/ NoOwners(d)
    BY <1>1, <1>2, <2>2 DEF TakeDestroyLock, DestroyRefusesHeld, ListSessions, PassPreflight,
                            Confirm, ReadOwners, NoOwners
  <2>3. CASE \E m \in owners[d] : \/ KeepRunningOwner(d, m) \/ OwnerAlreadyGone(d, m)
                                 \/ RemoveOwner(d, m) \/ RemoveOwnerFails(d, m)
    BY <1>1, <1>2, <2>3 DEF KeepRunningOwner, OwnerAlreadyGone, RemoveOwner, RemoveOwnerFails
  <2>4. CASE OwnersDone(d) \/ RunOwnerOnReap(d) \/ SettleOwner(d)
    BY <1>1, <1>2, <2>4 DEF OwnersDone, RunOwnerOnReap, SettleOwner
  <2>5. CASE SomethingKeeps(d) \/ Abort(d) \/ RemoveInstance(d)
    BY <1>1, <1>2, <2>5 DEF SomethingKeeps, Abort, RemoveInstance, Return
  <2> QED BY <1>1, <2>1, <2>2, <2>3, <2>4, <2>5 DEF DestroyStep
<1>4. HomesStay
  BY <1>3 DEF HomesStay
<1>5. \A s \in Session : SessionHomed(s)'
  <2>1. CASE UNCHANGED <<sess, mapping>>
    BY <1>3, <2>1 DEF Homed, SessionHomed
  <2>2. ASSUME NEW m \in owners[d], RemoveOwner(d, m)
        PROVE  \A s \in Session : SessionHomed(s)'
    <3>1. /\ mapping' = mapping
          /\ \A s \in Session : sess'[s] = sess[s] \/ (sess[s] = "idle" /\ sess'[s] = "gone")
      BY <1>2, <2>2 DEF RemoveOwner
    <3> QED BY <1>3, <3>1 DEF Homed, SessionHomed
  <2>3. CASE SettleOwner(d)
    <3>1. Keeps(owner[d], at[d]) /\ at[d] \in Path /\ owner[d] \in Mapping \cup {NoMapping}
      BY <1>2, <2>3 DEF SettleOwner, Homed, DestroyHomed
    <3>2. UNCHANGED <<sess, home>> /\ Settled(owner[d], ran[d])
      BY <2>3 DEF SettleOwner
    <3> QED BY <3>1, <3>2, SettlingKeepsHomes
  <2> QED BY <1>1, <2>1, <2>2, <2>3
          DEF DestroyStep, ChooseInstance, TakeDestroyLock, DestroyRefusesHeld, ListSessions,
              PassPreflight, Confirm, ReadOwners, NoOwners, KeepRunningOwner,
              OwnerAlreadyGone, RemoveOwnerFails, OwnersDone, RunOwnerOnReap,
              SomethingKeeps, Abort, RemoveInstance
<1>6. DestroyHomed(d)'
  <2>1. CASE pc'[d] \notin {"each", "run", "settle"}
    BY <2>1 DEF DestroyHomed
  <2>2. CASE \/ (\E p \in Path : ChooseInstance(d, p)) \/ TakeDestroyLock(d)
             \/ DestroyRefusesHeld(d) \/ ListSessions(d) \/ PassPreflight(d) \/ Confirm(d)
             \/ NoOwners(d) \/ OwnersDone(d) \/ SomethingKeeps(d) \/ Abort(d)
             \/ RemoveInstance(d)
    BY <1>1, <2>1, <2>2 DEF ChooseInstance, TakeDestroyLock, DestroyRefusesHeld, ListSessions,
                            PassPreflight, Confirm, NoOwners, OwnersDone, SomethingKeeps,
                            Abort, RemoveInstance, Return
  <2>3. CASE ReadOwners(d)
    <3>1. owners'[d] \subseteq OwningMappings(at[d]) /\ pc'[d] = "each" /\ at' = at
      BY <1>1, <1>2, <2>3 DEF ReadOwners
    <3> QED BY <1>3, <3>1, OwnersAreHomed DEF DestroyHomed, Keeps
  <2>4. ASSUME NEW m \in owners[d],
               \/ KeepRunningOwner(d, m) \/ OwnerAlreadyGone(d, m)
               \/ RemoveOwner(d, m) \/ RemoveOwnerFails(d, m)
        PROVE  DestroyHomed(d)'
    <3>1. \A n \in owners[d] : Keeps(n, at[d])
      BY <2>4 DEF KeepRunningOwner, OwnerAlreadyGone, RemoveOwner, RemoveOwnerFails, Homed,
                  DestroyHomed
    <3>2. owners'[d] \subseteq owners[d] /\ at' = at /\ (owner' = owner \/ owner'[d] = m)
      BY <1>2, <2>4 DEF KeepRunningOwner, OwnerAlreadyGone, RemoveOwner, RemoveOwnerFails
    <3>3. owner' = owner => pc'[d] = "each" \/ owner'[d] = m
      BY <1>2, <2>4 DEF KeepRunningOwner, OwnerAlreadyGone, RemoveOwner, RemoveOwnerFails
    <3> QED BY <1>3, <3>1, <3>2, <3>3 DEF DestroyHomed, Keeps
  <2>5. CASE RunOwnerOnReap(d)
    BY <1>1, <1>3, <2>5 DEF RunOwnerOnReap, Homed, DestroyHomed, Keeps
  <2>6. CASE SettleOwner(d)
    BY <1>1, <1>2, <1>3, <2>6 DEF SettleOwner, Homed, DestroyHomed, Keeps
  <2> QED BY <1>1, <2>2, <2>3, <2>4, <2>5, <2>6 DEF DestroyStep
<1>7. \A p \in Path : RecordHomed(p)'
  BY <1>3, <1>4, RecordStands DEF Homed
<1>8. \A y \in Destroyer : DestroyHomed(y)'
  BY <1>3, <1>4, <1>6, DestroyStands DEF Homed, Proc
<1>9. \A r \in Reaper : ReapHomed(r)'
  BY <1>1, <1>3, <1>4, ReapStands DEF Homed, Proc, reapVars
<1>10. \A u \in Resumer : ResumeHomed(u)'
  BY <1>1, <1>3, <1>4, ResumeStands DEF Homed, Proc, resumeVars
<1>11. \A x \in Dispatcher : DispatchHomed(x)'
  BY <1>1, <1>3, <1>4, DispatchStands DEF Homed, Proc, dispatchVars
<1> QED BY <1>4, <1>5, <1>7, <1>8, <1>9, <1>10, <1>11 DEF Homed

-----------------------------------------------------------------------------
(* Dispatch. *)

LEMMA DispatchKeepsHomes ==
    ASSUME Typed, Homed, NEW d \in Dispatcher, Dispatches(d)
    PROVE  Homed' /\ HomesStay
<1> USE DEF Goto, worldVars, fileVars, dispatchVars
<1>1. /\ DispatchStep(d) /\ UNCHANGED <<reapVars, resumeVars, destroyVars>> /\ d \in Proc
      /\ DOMAIN pc = Proc /\ at \in [Proc -> Path \cup {None}]
      /\ d \notin Reaper \cup Resumer \cup Destroyer
  BY DEF Dispatches, Proc, Typed, TypeOK, StoreTypeOK
<1>2. /\ mapping \in [Session -> Mapping \cup {NoMapping}]
      /\ launch \in [Path -> Session \cup {None}]
      /\ sess \in [Session -> SessionState] /\ home \in [Session -> Path \cup {None}]
      /\ worker \in [Dispatcher -> Session \cup {None}]
      /\ pc[d] \notin {"start", "done"} => at[d] \in Path /\ at[d] = TokenPath[d]
  BY DEF Typed, Placed, TypeOK, StoreTypeOK, DispatchTypeOK, Homed, DispatchHomed
<1>3. /\ \A y \in Proc \ {d} : pc'[y] = pc[y] /\ at'[y] = at[y]
      /\ \A y \in Dispatcher \ {d} : worker'[y] = worker[y]
  <2>1. CASE \/ BeginProvision(d) \/ Provision(d) \/ WriteAuthority(d) \/ CreateLineage(d)
             \/ EarlyFailure(d) \/ TurnEnds(d) \/ CannotMap(d) \/ WriteDispatchMapping(d)
             \/ \E s \in Session : LaunchDispatched(d, s) \/ CaptureDispatched(d, s)
    BY <1>1, <1>2, <2>1 DEF BeginProvision, Provision, WriteAuthority, CreateLineage,
                            EarlyFailure, TurnEnds, CannotMap, WriteDispatchMapping,
                            LaunchDispatched, CaptureDispatched
  <2>2. CASE \/ ProvisionFails(d) \/ WriteLaunchRecord(d) \/ WriteRetainMarker(d)
             \/ RetainMarkerFails(d) \/ RollbackDispatch(d)
    BY <1>1, <1>2, <2>2 DEF Exit, ProvisionFails, WriteLaunchRecord, WriteRetainMarker,
                            RetainMarkerFails, RollbackDispatch, Return
  <2> QED BY <1>1, <2>1, <2>2 DEF DispatchStep
<1>4. \A s \in Session : SessionHomed(s)
  BY DEF Homed
<1>5. \/ UNCHANGED <<sess, home, mapping>>
      \/ \E s \in Session : LaunchDispatched(d, s)
      \/ TurnEnds(d) \/ WriteDispatchMapping(d)
  BY <1>1 DEF Exit, DispatchStep, BeginProvision, Provision, ProvisionFails, WriteAuthority,
              CreateLineage, EarlyFailure, CaptureDispatched, CannotMap, WriteLaunchRecord,
              WriteRetainMarker, RetainMarkerFails, RollbackDispatch
<1>6. HomesStay
  BY <1>2, <1>4, <1>5 DEF HomesStay, LaunchDispatched, TurnEnds, WriteDispatchMapping,
                          SessionHomed
<1>7. \A s \in Session : SessionHomed(s)'
  <2>1. ASSUME NEW s \in Session, LaunchDispatched(d, s)
        PROVE  \A t \in Session : SessionHomed(t)'
    <3>1. mapping[s] = NoMapping
      BY <1>2, <1>4, <2>1 DEF LaunchDispatched, SessionHomed, Mapping
    <3>2. PICK state \in {"running", "unseen"} : sess' = [sess EXCEPT ![s] = state]
      BY <2>1 DEF LaunchDispatched
    <3>3. home' = [home EXCEPT ![s] = at[d]] /\ at[d] \in Path /\ mapping' = mapping
      BY <1>2, <2>1 DEF LaunchDispatched
    <3> QED BY <1>2, <1>4, <3>1, <3>2, <3>3 DEF SessionHomed
  <2>2. CASE TurnEnds(d)
    BY <1>2, <1>4, <2>2 DEF TurnEnds, SessionHomed
  <2>3. CASE WriteDispatchMapping(d)
    <3>1. worker[d] \in Session /\ home[worker[d]] = at[d]
      BY <1>2, <2>3 DEF WriteDispatchMapping, Homed, DispatchHomed
    <3> QED BY <1>2, <1>4, <2>3, <3>1 DEF WriteDispatchMapping, SessionHomed
  <2> QED BY <1>4, <1>5, <2>1, <2>2, <2>3 DEF SessionHomed
<1>8. \A p \in Path : RecordHomed(p)'
  <2>1. CASE launch' = launch
    BY <1>6, <2>1, RecordStands DEF Homed
  <2>2. CASE WriteLaunchRecord(d)
    <3>1. worker[d] \in Session /\ home[worker[d]] = at[d] /\ home' = home
      BY <1>2, <2>2 DEF Exit, WriteLaunchRecord, Homed, DispatchHomed
    <3>2. launch' = launch \/ launch' = [launch EXCEPT ![at[d]] = worker[d]]
      BY <2>2 DEF Exit, WriteLaunchRecord
    <3> QED BY <1>2, <3>1, <3>2 DEF Homed, RecordHomed
  <2> QED BY <1>1, <2>1, <2>2
          DEF Exit, DispatchStep, BeginProvision, Provision, ProvisionFails, WriteAuthority,
              CreateLineage, EarlyFailure, LaunchDispatched, TurnEnds, CaptureDispatched,
              CannotMap, WriteDispatchMapping, WriteRetainMarker, RetainMarkerFails,
              RollbackDispatch
<1>9. DispatchHomed(d)'
  <2>1. CASE pc'[d] \in {"start", "done"}
    BY <2>1 DEF DispatchHomed
  <2>2. CASE BeginProvision(d)
    BY <1>1, <2>2 DEF BeginProvision, DispatchHomed
  <2>3. CASE \/ Provision(d) \/ WriteAuthority(d) \/ CreateLineage(d) \/ EarlyFailure(d)
             \/ TurnEnds(d) \/ CannotMap(d) \/ \E s \in Session : LaunchDispatched(d, s)
    BY <1>1, <1>2, <2>3 DEF Provision, WriteAuthority, CreateLineage, EarlyFailure, TurnEnds,
                            CannotMap, LaunchDispatched, DispatchHomed
  <2>4. ASSUME NEW s \in Session, CaptureDispatched(d, s)
        PROVE  DispatchHomed(d)'
    <3>1. home[s] = at[d]
      BY <2>4 DEF CaptureDispatched, RecordsAt
    <3> QED BY <1>1, <1>2, <2>4, <3>1 DEF CaptureDispatched, DispatchHomed
  <2>5. CASE WriteDispatchMapping(d)
    BY <1>1, <1>2, <2>5 DEF WriteDispatchMapping, Homed, DispatchHomed
  <2>6. CASE \/ ProvisionFails(d) \/ WriteLaunchRecord(d) \/ WriteRetainMarker(d)
             \/ RetainMarkerFails(d) \/ RollbackDispatch(d)
    BY <1>1, <2>1, <2>6 DEF Exit, ProvisionFails, WriteLaunchRecord, WriteRetainMarker,
                            RetainMarkerFails, RollbackDispatch, Return
  <2> QED BY <1>1, <2>2, <2>3, <2>4, <2>5, <2>6 DEF DispatchStep
<1>10. \A x \in Dispatcher : DispatchHomed(x)'
  BY <1>3, <1>6, <1>9, DispatchStands DEF Homed, Proc
<1>11. \A r \in Reaper : ReapHomed(r)'
  BY <1>1, <1>3, <1>6, ReapStands DEF Homed, Proc, reapVars
<1>12. \A u \in Resumer : ResumeHomed(u)'
  BY <1>1, <1>3, <1>6, ResumeStands DEF Homed, Proc, resumeVars
<1>13. \A x \in Destroyer : DestroyHomed(x)'
  BY <1>1, <1>3, <1>6, DestroyStands DEF Homed, Proc, destroyVars
<1> QED BY <1>6, <1>7, <1>8, <1>10, <1>11, <1>12, <1>13 DEF Homed

-----------------------------------------------------------------------------
(* The commands together. *)

LEMMA WorldKeepsHomes ==
    ASSUME Typed, Homed, WorldStep \/ UNCHANGED vars
    PROVE  Homed' /\ HomesStay
<1>1. UNCHANGED <<home, mapping, launch, pc, at, reapVars, resumeVars, destroyVars, dispatchVars>>
  BY DEF WorldStep, World, SessionIdles, SessionPrompted, SessionGoes, TranscriptExpires,
         InstanceAges, vars, worldVars
<1>2. \A s \in Session : sess[s] = "unborn" <=> sess'[s] = "unborn"
  <2> USE DEF Typed, TypeOK, StoreTypeOK
  <2>1. ASSUME NEW s \in Session, SessionIdles(s) \/ SessionPrompted(s) \/ SessionGoes(s)
                                 \/ TranscriptExpires(s)
        PROVE  \A t \in Session : sess[t] = "unborn" <=> sess'[t] = "unborn"
    BY <2>1 DEF SessionIdles, SessionPrompted, SessionGoes, TranscriptExpires
  <2> QED BY <2>1 DEF WorldStep, World, InstanceAges, vars, worldVars
<1>3. HomesStay
  BY <1>1 DEF HomesStay
<1>4. \A s \in Session : SessionHomed(s)'
  BY <1>1, <1>2 DEF Homed, SessionHomed
<1>5. \A p \in Path : RecordHomed(p)'
  BY <1>1, <1>3, RecordStands DEF Homed
<1>6. \A r \in Reaper : ReapHomed(r)'
  BY <1>1, <1>3, ReapStands DEF Homed, reapVars
<1>7. \A u \in Resumer : ResumeHomed(u)'
  BY <1>1, <1>3, ResumeStands DEF Homed, resumeVars
<1>8. \A d \in Destroyer : DestroyHomed(d)'
  BY <1>1, <1>3, DestroyStands DEF Homed, destroyVars
<1>9. \A d \in Dispatcher : DispatchHomed(d)'
  BY <1>1, <1>3, DispatchStands DEF Homed, dispatchVars
<1> QED BY <1>3, <1>4, <1>5, <1>6, <1>7, <1>8, <1>9 DEF Homed

LEMMA CrashKeepsHomes ==
    ASSUME Typed, Homed, NEW x \in Proc, Crash(x)
    PROVE  Homed' /\ HomesStay
<1> USE DEF Crash, Goto, fileVars
<1>1. /\ DOMAIN pc = Proc /\ at \in [Proc -> Path \cup {None}]
      /\ UNCHANGED <<sess, home, mapping, launch, resumeVars, destroyVars, worker>>
  BY DEF Typed, TypeOK, StoreTypeOK
<1>2. /\ \A y \in Proc \ {x} : pc'[y] = pc[y] /\ at'[y] = at[y]
      /\ \A r \in Reaper \ {x} : queue'[r] = queue[r] /\ task'[r] = task[r]
      /\ x \in Reaper => pc'[x] = "idle" /\ queue'[x] = {}
      /\ x \notin Reaper => pc'[x] = "done"
  BY <1>1
<1>3. HomesStay
  BY <1>1 DEF HomesStay
<1>4. \A s \in Session : SessionHomed(s)'
  BY <1>1 DEF Homed, SessionHomed
<1>5. \A p \in Path : RecordHomed(p)'
  BY <1>1, <1>3, RecordStands DEF Homed
<1>6. x \in Reaper => ReapHomed(x)'
  BY <1>2 DEF ReapHomed, Holding, Proc
<1>7. \A r \in Reaper : ReapHomed(r)'
  BY <1>2, <1>3, <1>6, ReapStands DEF Homed, Proc
<1>8. \A u \in Resumer : ResumeHomed(u)'
  <2>1. \A u \in Resumer \ {x} : ResumeHomed(u)'
    BY <1>1, <1>2, <1>3, ResumeStands DEF Homed, Proc, resumeVars
  <2>2. x \in Resumer => ResumeHomed(x)'
    BY <1>2 DEF ResumeHomed
  <2> QED BY <2>1, <2>2
<1>9. \A d \in Destroyer : DestroyHomed(d)'
  <2>1. \A d \in Destroyer \ {x} : DestroyHomed(d)'
    BY <1>1, <1>2, <1>3, DestroyStands DEF Homed, Proc, destroyVars
  <2>2. x \in Destroyer => DestroyHomed(x)'
    BY <1>2 DEF DestroyHomed
  <2> QED BY <2>1, <2>2
<1>10. \A d \in Dispatcher : DispatchHomed(d)'
  <2>1. \A d \in Dispatcher \ {x} : DispatchHomed(d)'
    BY <1>1, <1>2, <1>3, DispatchStands DEF Homed, Proc, dispatchVars
  <2>2. x \in Dispatcher => DispatchHomed(x)'
    BY <1>2 DEF DispatchHomed
  <2> QED BY <2>1, <2>2
<1> QED BY <1>3, <1>4, <1>5, <1>7, <1>8, <1>9, <1>10 DEF Homed

LEMMA NextKeepsHomes ==
    ASSUME Typed, Homed, [Next]_vars
    PROVE  Homed' /\ HomesStay
<1>1. ASSUME NEW r \in Reaper, Reaps(r)
      PROVE  Homed' /\ HomesStay
  BY <1>1, ReapKeepsHomes
<1>2. ASSUME NEW u \in Resumer, Resumes(u)
      PROVE  Homed' /\ HomesStay
  BY <1>2, ResumeKeepsHomes
<1>3. ASSUME NEW d \in Destroyer, Destroys(d)
      PROVE  Homed' /\ HomesStay
  BY <1>3, DestroyKeepsHomes
<1>4. ASSUME NEW d \in Dispatcher, Dispatches(d)
      PROVE  Homed' /\ HomesStay
  BY <1>4, DispatchKeepsHomes
<1>5. CASE WorldStep \/ UNCHANGED vars
  BY <1>5, WorldKeepsHomes
<1>6. ASSUME NEW x \in Proc, Crash(x)
      PROVE  Homed' /\ HomesStay
  BY <1>6, CrashKeepsHomes
<1> QED BY <1>1, <1>2, <1>3, <1>4, <1>5, <1>6 DEF Next

LEMMA InitIsHomed == Init => Homed
<1> SUFFICES ASSUME Init PROVE Homed
  OBVIOUS
<1>1. \A s \in Session : SessionHomed(s)
  BY DEF Init, SessionHomed
<1>2. \A p \in Path : RecordHomed(p)
  BY DEF Init, RecordHomed
<1>3. \A x \in Proc : pc[x] = IF x \in Reaper THEN "idle" ELSE "start"
  BY DEF Init
<1>4. \A r \in Reaper : ReapHomed(r)
  BY <1>3 DEF Init, ReapHomed, Holding, Proc
<1>5. \A u \in Resumer : ResumeHomed(u)
  BY <1>3 DEF ResumeHomed, Proc
<1>6. \A d \in Destroyer : DestroyHomed(d)
  BY <1>3 DEF DestroyHomed, Proc
<1>7. \A d \in Dispatcher : DispatchHomed(d)
  BY <1>3 DEF DispatchHomed, Proc
<1> QED BY <1>1, <1>2, <1>4, <1>5, <1>6, <1>7 DEF Homed

-----------------------------------------------------------------------------
(* What a step changes, it changes at one instance: the one whose lock its *)
(* command holds, or the fresh one a dispatch is making.                   *)

ChangesOnly(q) ==
    /\ \A p \in Path \ {q} : disk'[p] = disk[p]
    /\ \A s \in Session : mapping'[s] # mapping[s] => home[s] = q

LEMMA ReapChangesItsOwn ==
    ASSUME Typed, Homed, NEW r \in Reaper, Reaps(r)
    PROVE  \/ UNCHANGED <<disk, mapping>>
           \/ Holding(r) /\ pc'[r] # pc[r] /\ ChangesOnly(at[r])
<1> USE DEF Goto, worldVars, fileVars
<1>1. /\ ReapStep(r) /\ r \in Proc /\ DOMAIN pc = Proc
      /\ disk \in [Path -> {"absent", "instance", "husk"}]
      /\ task[r] \in Task \cup {NoTask}
  BY DEF Reaps, Proc, Typed, TypeOK, StoreTypeOK, ReapTypeOK
<1>2. CASE DestroyTarget(r)
  <2>1. Holding(r) /\ ChangesOnly(at[r])
    BY <1>1, <1>2 DEF DestroyTarget, Holding, ChangesOnly, RemovedTo
  <2>2. CASE task[r].kind = "target"
    BY <1>1, <1>2, <2>1, <2>2 DEF DestroyTarget
  <2>3. CASE task[r].kind # "target"
    BY <1>1, <1>2, <2>1, <2>3 DEF DestroyTarget, LeaveTask
  <2> QED BY <2>2, <2>3
<1>3. CASE DestroyTargetFails(r)
  BY <1>1, <1>3 DEF DestroyTargetFails, LeaveTask, Holding, ChangesOnly, RemovedTo
<1>4. CASE SettleMapping(r)
  <2>1. Holding(r) /\ pc'[r] # pc[r] /\ at[r] \in Path
    BY <1>1, <1>4 DEF SettleMapping, LeaveTask, Holding, Typed, Placed
  <2>2. task[r].m \in Mapping \cup {NoMapping} /\ Keeps(task[r].m, at[r])
    BY <1>1, <2>1 DEF Homed, ReapHomed, Task, NoTask
  <2>3. UNCHANGED <<disk, sess, home>> /\ Settled(task[r].m, ran[r])
    BY <1>4 DEF SettleMapping
  <2> QED BY <2>1, <2>2, <2>3, SettlingKeepsHomes DEF ChangesOnly
<1> QED BY <1>1, <1>2, <1>3, <1>4
        DEF ReapStep, SelectMapped, SelectBackstop, FinishSweep, TakeTask, SpareHeld,
            Recheck, Spare, RunOnReap

LEMMA ResumeChangesItsOwn ==
    ASSUME Typed, Homed, NEW u \in Resumer, Resumes(u)
    PROVE  \/ UNCHANGED <<disk, mapping>>
           \/ Holding(u) /\ pc'[u] # pc[u] /\ ChangesOnly(at[u])
<1> USE DEF Goto, worldVars, fileVars
<1>1. /\ ResumeStep(u) /\ u \in Proc /\ DOMAIN pc = Proc
      /\ disk \in [Path -> {"absent", "instance", "husk"}]
      /\ mapping \in [Session -> Mapping \cup {NoMapping}]
      /\ pc[u] \notin {"start", "done"} => rec[u] \in Session /\ home[rec[u]] = at[u]
  BY DEF Resumes, Proc, Typed, TypeOK, StoreTypeOK, Placed, Homed, ResumeHomed
<1>2. CASE BeginRestore(u) \/ Restore(u)
  BY <1>1, <1>2 DEF BeginRestore, Restore, Holding, ChangesOnly
<1>3. CASE RestoreFails(u)
  BY <1>1, <1>3 DEF RestoreFails, Return, Holding, ChangesOnly
<1>4. CASE Rollback(u)
  <2>1. Holding(u) /\ pc'[u] # pc[u] /\ mapping' = mapping
    BY <1>1, <1>4 DEF Rollback, Return, Holding
  <2>2. CASE restored[u]
    BY <1>1, <1>4, <2>1, <2>2 DEF Rollback, RemovedTo, ChangesOnly
  <2>3. CASE ~restored[u]
    BY <1>4, <2>1, <2>3 DEF Rollback
  <2> QED BY <2>2, <2>3
<1>5. CASE WriteMapping(u) \/ Unmap(u) \/ DropOldMapping(u)
  <2>1. Holding(u) /\ pc'[u] # pc[u] /\ disk' = disk
    BY <1>1, <1>5 DEF WriteMapping, Unmap, DropOldMapping, Holding
  <2>2. \A s \in Session \ {rec[u]} : mapping'[s] = mapping[s]
    BY <1>1, <1>5 DEF WriteMapping, Unmap, DropOldMapping
  <2>3. home[rec[u]] = at[u]
    BY <1>1, <1>5 DEF WriteMapping, Unmap, DropOldMapping
  <2> QED BY <2>1, <2>2, <2>3 DEF ChangesOnly
<1>6. ASSUME NEW s \in Session, Capture(u, s)
      PROVE  Holding(u) /\ pc'[u] # pc[u] /\ ChangesOnly(at[u])
  <2>1. Holding(u) /\ pc'[u] # pc[u] /\ disk' = disk
    BY <1>1, <1>6 DEF Capture, Holding
  <2>2. home[s] = at[u] /\ \A t \in Session \ {s} : mapping'[t] = mapping[t]
    BY <1>1, <1>6 DEF Capture, RecordsAt
  <2> QED BY <2>1, <2>2 DEF ChangesOnly
<1> QED BY <1>1, <1>2, <1>3, <1>4, <1>5, <1>6
        DEF ResumeStep, ResolveRecord, TakeResumeLock, RefuseHeld, PassChecks, Refuse,
            MappingFails, LaunchWorker, LaunchFails, CaptureFails, Finish

LEMMA DestroyChangesItsOwn ==
    ASSUME Typed, Homed, NEW d \in Destroyer, Destroys(d)
    PROVE  \/ UNCHANGED <<disk, mapping>>
           \/ Holding(d) /\ pc'[d] # pc[d] /\ ChangesOnly(at[d])
<1> USE DEF Goto, worldVars, fileVars
<1>1. /\ DestroyStep(d) /\ d \in Proc /\ DOMAIN pc = Proc
      /\ disk \in [Path -> {"absent", "instance", "husk"}]
      /\ owner[d] \in Mapping \cup {NoMapping}
      /\ pc[d] \notin {"start", "done"} => at[d] \in Path
  BY DEF Destroys, Proc, Typed, TypeOK, StoreTypeOK, DestroyTypeOK, Placed
<1>2. CASE SettleOwner(d)
  <2>1. Holding(d) /\ pc'[d] # pc[d] /\ at[d] \in Path
    BY <1>1, <1>2 DEF SettleOwner, Holding
  <2>2. Keeps(owner[d], at[d])
    BY <1>2 DEF SettleOwner, Homed, DestroyHomed
  <2>3. UNCHANGED <<disk, sess, home>> /\ Settled(owner[d], ran[d])
    BY <1>2 DEF SettleOwner
  <2> QED BY <1>1, <2>1, <2>2, <2>3, SettlingKeepsHomes DEF ChangesOnly
<1>3. CASE RemoveInstance(d)
  BY <1>1, <1>3 DEF RemoveInstance, Return, Holding, RemovedTo, ChangesOnly
<1> QED BY <1>1, <1>2, <1>3
        DEF DestroyStep, ChooseInstance, TakeDestroyLock, DestroyRefusesHeld, ListSessions,
            PassPreflight, SomethingKeeps, Confirm, Abort, ReadOwners, NoOwners,
            KeepRunningOwner, OwnerAlreadyGone, RemoveOwner, RemoveOwnerFails, OwnersDone,
            RunOwnerOnReap

LEMMA DispatchChangesItsOwn ==
    ASSUME Typed, Homed, NEW d \in Dispatcher, Dispatches(d)
    PROVE  UNCHANGED <<disk, mapping>> \/ ChangesOnly(TokenPath[d])
<1> USE DEF Goto, worldVars, fileVars
<1>1. /\ DispatchStep(d)
      /\ disk \in [Path -> {"absent", "instance", "husk"}]
      /\ mapping \in [Session -> Mapping \cup {NoMapping}]
      /\ pc[d] \notin {"start", "done"} => at[d] = TokenPath[d]
  BY DEF Dispatches, Typed, TypeOK, StoreTypeOK, Homed, DispatchHomed
<1>2. CASE BeginProvision(d) \/ Provision(d) \/ ProvisionFails(d) \/ WriteRetainMarker(d)
  BY <1>1, <1>2 DEF Exit, BeginProvision, Provision, ProvisionFails, WriteRetainMarker, ChangesOnly
<1>3. CASE RollbackDispatch(d)
  BY <1>1, <1>3 DEF RollbackDispatch, RemovedTo, ChangesOnly
<1>4. CASE WriteDispatchMapping(d)
  <2>1. home[worker[d]] = TokenPath[d]
    BY <1>1, <1>4 DEF WriteDispatchMapping, Homed, DispatchHomed
  <2> QED BY <1>1, <1>4, <2>1 DEF WriteDispatchMapping, ChangesOnly
<1> QED BY <1>1, <1>2, <1>3, <1>4
        DEF Exit, DispatchStep, WriteAuthority, CreateLineage, EarlyFailure, LaunchDispatched,
            TurnEnds, CaptureDispatched, CannotMap, WriteLaunchRecord, RetainMarkerFails

(* Whatever the workspace and however many commands are at work on it,     *)
(* while one holds an instance and stands still no other command changes   *)
(* what is at its path or any mapping that names it, in one step or in     *)
(* many: what it read under the lock is what it acts on.  Only the fresh   *)
(* path of a dispatch, which takes no lock, is out of the lock's reach.    *)
THEOREM HeldInstancesAreUntouched == Spec => HeldInstanceIsUntouched
<1> DEFINE Untouched == \A p \in Path \ Fresh : lock[p] # None /\ pc'[lock[p]] = pc[lock[p]] =>
               /\ disk'[p] = disk[p]
               /\ \A s \in Session : p \in {mapping[s].path, mapping'[s].path}
                                     => mapping'[s] = mapping[s]
<1>1. Init => Kept
  <2>1. Init => LockIsHeldByItsActor
    BY DEF Init, LockIsHeldByItsActor, Holding, Proc
  <2> QED BY <2>1, InitIsTyped, InitIsHomed DEF Kept
<1>2. Kept /\ [Next]_vars => Kept'
  BY NextKeepsTypes, NextKeepsLocks, NextKeepsHomes DEF Kept
<1>3. Kept /\ Kept' /\ [Next]_vars => Untouched
  <2> SUFFICES ASSUME Kept, Kept', [Next]_vars PROVE Untouched
    OBVIOUS
  <2>1. ASSUME NEW x \in Proc, NEW q \in Path, ChangesOnly(q), HomesStay,
               (Holding(x) /\ pc'[x] # pc[x] /\ q = at[x]) \/ q \in Fresh
        PROVE  Untouched
    <3> SUFFICES ASSUME NEW p \in Path \ Fresh, lock[p] # None, pc'[lock[p]] = pc[lock[p]]
                 PROVE  /\ disk'[p] = disk[p]
                        /\ \A s \in Session : p \in {mapping[s].path, mapping'[s].path}
                                              => mapping'[s] = mapping[s]
      OBVIOUS
    <3>1. p # q
      BY <2>1 DEF Kept, LockIsHeldByItsActor
    <3>2. disk'[p] = disk[p]
      BY <2>1, <3>1 DEF ChangesOnly
    <3>3. ASSUME NEW s \in Session, mapping'[s] # mapping[s]
          PROVE  p \notin {mapping[s].path, mapping'[s].path}
      <4>1. home[s] = q /\ home'[s] = q
        BY <2>1, <3>3 DEF ChangesOnly, HomesStay
      <4>2. mapping[s].path \in {None, q} /\ mapping'[s].path \in {None, q}
        BY <4>1 DEF Kept, Homed, SessionHomed, NoMapping
      <4> QED BY <3>1, <4>2
    <3> QED BY <3>2, <3>3
  <2>2. HomesStay
    BY NextKeepsHomes DEF Kept
  <2>3. CASE UNCHANGED <<disk, mapping>>
    BY <2>3
  <2>4. ASSUME NEW x \in Reaper \cup Resumer \cup Destroyer,
               Holding(x) /\ pc'[x] # pc[x] /\ ChangesOnly(at[x])
        PROVE  Untouched
    <3>1. x \in Proc /\ at[x] \in Path
      BY <2>4 DEF Kept, Typed, Placed, Holding, Proc
    <3> QED BY <2>1, <2>2, <2>4, <3>1
  <2>5. ASSUME NEW r \in Reaper, Reaps(r)
        PROVE  Untouched
    BY <2>3, <2>4, <2>5, ReapChangesItsOwn DEF Kept
  <2>6. ASSUME NEW u \in Resumer, Resumes(u)
        PROVE  Untouched
    BY <2>3, <2>4, <2>6, ResumeChangesItsOwn DEF Kept
  <2>7. ASSUME NEW d \in Destroyer, Destroys(d)
        PROVE  Untouched
    BY <2>3, <2>4, <2>7, DestroyChangesItsOwn DEF Kept
  <2>8. ASSUME NEW d \in Dispatcher, Dispatches(d)
        PROVE  Untouched
    <3>1. TokenPath[d] \in Path /\ TokenPath[d] \in Fresh /\ d \in Proc
      BY DEF Fresh, Proc
    <3> QED BY <2>1, <2>2, <2>3, <2>8, <3>1, DispatchChangesItsOwn DEF Kept
  <2>9. CASE WorldStep \/ UNCHANGED vars \/ \E x \in Proc : Crash(x)
    <3>1. UNCHANGED <<disk, mapping>>
      BY <2>9 DEF WorldStep, World, SessionIdles, SessionPrompted, SessionGoes,
                  TranscriptExpires, InstanceAges, Crash, vars, worldVars, fileVars
    <3> QED BY <2>3, <3>1
  <2> HIDE DEF Untouched
  <2> QED BY <2>5, <2>6, <2>7, <2>8, <2>9 DEF Next
<1> QED BY <1>1, <1>2, <1>3, PTL DEF Spec, HeldInstanceIsUntouched

-----------------------------------------------------------------------------
(***************************************************************************)
(* What the commands promise together, on any workspace and for any number *)
(* of them: no reap takes a live worker's instance, no resume loses the    *)
(* one it is about to launch into, no on-reap command is run for a session *)
(* that is still there, and no dispatch that rolls back orphans a session. *)
(*                                                                         *)
(* Two things make it so.  A dispatch's fresh path, which no lock guards,  *)
(* is named by nothing until the dispatch has mapped its session, which is *)
(* the last thing it needs the path for.  Every other instance is guarded  *)
(* by its lock, under which only the holder launches a worker.             *)
(*                                                                         *)
(* The last two parts are of workspaces where some command is not used: a  *)
(* running worker stays mapped where nothing is destroyed by hand, and no  *)
(* sweep forgets another's failed on-reap runs where, besides, nothing is  *)
(* resumed.                                                                *)
(***************************************************************************)

(* The dispatch's session is mapped, and its records are complete.         *)
Opened(d) ==
    /\ pc[d] \in {"record", "done"}
    /\ authority[TokenPath[d]] /\ lineage[TokenPath[d]]

(* It has launched its worker, or never will. *)
Launched(d) == pc[d] \notin {"start", "provision", "files", "lineage", "launch"}

(* Whatever names a dispatch's instance names it after it was opened.      *)
Unnamed(d) ==
    LET p == TokenPath[d] IN
    /\ \A s \in Session : mapping[s].path = p => Opened(d)
    /\ launch[p] # None => Opened(d) /\ pc[d] = "done"
    /\ \A r \in Reaper : \A t \in queue[r] \cup {task[r]} :
           (t.path = p => Launched(d)) /\ (t.m.path = p => Opened(d))
    /\ \A u \in Resumer : /\ at[u] = p => Opened(d) /\ pc[d] = "done"
                          /\ prev[u].path = p => Opened(d)
    /\ \A e \in Destroyer : /\ at[e] = p => pc[d] \notin {"start", "provision"}
                            /\ \A m \in owners[e] \cup {owner[e]} : m.path = p => Opened(d)

(* The dispatch's own files, as far as it has come. *)
Fresher(d) ==
    LET p == TokenPath[d] IN
    /\ pc[d] \in {"lineage", "launch", "turn", "capture", "map", "record", "retain"} => authority[p]
    /\ pc[d] \in {"launch", "turn", "capture", "map", "record", "retain"} => lineage[p]
    /\ pc[d] = "start" => disk[p] = "absent"
    /\ pc[d] = "provision" => disk[p] = "husk"
    /\ ~Launched(d) => ~aged[p]

Traced == \A d \in Dispatcher : Unnamed(d) /\ Fresher(d)

(* A session of niwa's own agents that no agent lists any more.            *)
Over(s) == s \in ActivitySession \/ sess[s] \notin Listed

(* What a reap has read again still holds under its lock.                  *)
ReapReread(r) ==
    /\ pc[r] \in {"run", "settle"} => task[r].kind \in {"target", "stored"}
    /\ \A t \in queue[r] \cup {task[r]} : t.kind \in {"target", "stored"} => t.m # NoMapping
    /\ pc[r] = "destroy" => RecordsAt(at[r]) \subseteq ActivitySession
    /\ pc[r] \in {"destroy", "run"} /\ task[r].kind # "backstop" => Over(task[r].m.sess)
    /\ pc[r] \in {"run", "settle"} /\ task[r].kind = "stored" => mapping[task[r].m.sess] = task[r].m

(* What a listing tells of the instance p: a session of p it does not list *)
(* is over, and stays so, the dispatch that made p having launched already.*)
Sound(l, p) ==
    /\ l.state = "read" =>
           \A s \in Session \ ActivitySession :
               home[s] = p /\ s \notin l.running \cup l.stopped => Over(s)
    /\ l.state # "not read" => \A d \in Dispatcher : TokenPath[d] = p => Launched(d)
    /\ l.running \cap ActivitySession = {}
    /\ l.state # "read" => l.running = {}

(* What a destroy has heard of the sessions. *)
DestroyHeard(d) ==
    /\ pc[d] \in {"start", "resolved", "list"} => listing[d] = NotRead
    /\ Holding(d) =>
           /\ Sound(listing[d], at[d])
           /\ pc[d] = "each" => owners[d] = {} \/ listing[d].state = "read"
           /\ pc[d] \in {"run", "settle"} => listing[d].state = "read"
           /\ pc[d] = "run" => owner[d] # NoMapping /\ Over(owner[d].sess)

(* An unforced destroy that goes on found no session running. *)
Owned(d) == MappedTo(at[d]) \ ActivitySession
FoundNobody(d) ==
    /\ Owned(d) = {} \/ listing[d].state = "read"
    /\ \A s \in MappedTo(at[d]) : s \notin listing[d].running
    /\ pc[d] \in {"each", "run", "settle"} => \A m \in owners[d] : m.sess \notin listing[d].running
    /\ pc[d] \in {"run", "settle"} => owner[d].sess \notin listing[d].running
DestroyFound(d) ==
    Holding(d) /\ at[d] \notin Fresh =>
        /\ pc[d] = "keep?" => Owned(d) = {} \/ listing[d].state # "not read"
        /\ pc[d] \notin {"list", "keep?"} /\ ~opts[d].force => FoundNobody(d)

Guarded ==
    /\ \A r \in Reaper : ReapReread(r)
    /\ ResumeKeepsItsInstance
    /\ \A d \in Destroyer : DestroyHeard(d) /\ DestroyFound(d)

USE ConstantsAssumption, TokenPathAssumption

-----------------------------------------------------------------------------
(* A command's step moves nobody else, and leaves the other commands' own  *)
(* variables alone.                                                        *)

Alone(x) == \A y \in Proc \ {x} : pc'[y] = pc[y] /\ at'[y] = at[y]

LEMMA ReapMovesItself ==
    ASSUME Typed, NEW r \in Reaper, Reaps(r)
    PROVE  Alone(r) /\ \A q \in Reaper \ {r} : queue'[q] = queue[q] /\ task'[q] = task[q]
<1>1. DOMAIN pc = Proc /\ at \in [Proc -> Path \cup {None}] /\ ReapStep(r)
  BY DEF Typed, TypeOK, StoreTypeOK, Reaps
<1>2. queue \in [Reaper -> SUBSET Task] /\ task \in [Reaper -> Task \cup {NoTask}]
  BY DEF Typed, TypeOK, ReapTypeOK
<1> USE DEF Goto, LeaveTask, Alone
<1>3. CASE SelectMapped(r) \/ SelectBackstop(r) \/ FinishSweep(r) \/ Recheck(r) \/ RunOnReap(r)
  BY <1>1, <1>2, <1>3 DEF SelectMapped, SelectBackstop, FinishSweep, Recheck, RunOnReap
<1>4. CASE \E t \in queue[r] : TakeTask(r, t) \/ SpareHeld(r, t)
  BY <1>1, <1>2, <1>4 DEF TakeTask, SpareHeld
<1>5. CASE Spare(r) \/ DestroyTargetFails(r) \/ SettleMapping(r)
  BY <1>1, <1>2, <1>5 DEF Spare, DestroyTargetFails, SettleMapping
<1>6. CASE DestroyTarget(r)
  BY <1>1, <1>2, <1>6 DEF DestroyTarget
<1> QED BY <1>1, <1>3, <1>4, <1>5, <1>6 DEF ReapStep

LEMMA ResumeMovesItself ==
    ASSUME Typed, NEW u \in Resumer, Resumes(u)
    PROVE  /\ Alone(u)
           /\ \A v \in Resumer \ {u} : /\ rec'[v] = rec[v] /\ prev'[v] = prev[v]
                                       /\ started'[v] = started[v]
                                       /\ restored'[v] = restored[v]
<1>1. DOMAIN pc = Proc /\ at \in [Proc -> Path \cup {None}] /\ ResumeStep(u)
  BY DEF Typed, TypeOK, StoreTypeOK, Resumes
<1>2. ResumeTypeOK
  BY DEF Typed, TypeOK
<1> USE DEF Goto, Return, Alone, ResumeTypeOK, resumeVars
<1>3. CASE \/ \E p \in Path : ResolveRecord(u, p)
           \/ TakeResumeLock(u) \/ RefuseHeld(u) \/ PassChecks(u) \/ Refuse(u)
  BY <1>1, <1>2, <1>3 DEF ResolveRecord, TakeResumeLock, RefuseHeld, PassChecks, Refuse
<1>4. CASE \/ BeginRestore(u) \/ Restore(u) \/ RestoreFails(u) \/ WriteMapping(u)
           \/ MappingFails(u) \/ LaunchFails(u) \/ \E s \in Session : LaunchWorker(u, s)
  BY <1>1, <1>2, <1>4 DEF BeginRestore, Restore, RestoreFails, WriteMapping, MappingFails,
                          LaunchFails, LaunchWorker
<1>5. CASE \/ Unmap(u) \/ Rollback(u) \/ CaptureFails(u) \/ DropOldMapping(u) \/ Finish(u)
           \/ \E s \in Session : Capture(u, s)
  BY <1>1, <1>2, <1>5 DEF Unmap, Rollback, CaptureFails, DropOldMapping, Finish, Capture
<1> QED BY <1>1, <1>3, <1>4, <1>5 DEF ResumeStep

LEMMA DestroyMovesItself ==
    ASSUME Typed, NEW d \in Destroyer, Destroys(d)
    PROVE  /\ Alone(d)
           /\ \A e \in Destroyer \ {d} : /\ opts'[e] = opts[e] /\ listing'[e] = listing[e]
                                         /\ owners'[e] = owners[e] /\ owner'[e] = owner[e]
<1>1. DOMAIN pc = Proc /\ at \in [Proc -> Path \cup {None}] /\ DestroyStep(d)
  BY DEF Typed, TypeOK, StoreTypeOK, Destroys
<1>2. DestroyTypeOK
  BY DEF Typed, TypeOK
<1> USE DEF Goto, Return, Alone, DestroyTypeOK, destroyVars
<1>3. CASE \/ \E p \in Path : ChooseInstance(d, p)
           \/ TakeDestroyLock(d) \/ DestroyRefusesHeld(d)
           \/ ListSessions(d) \/ PassPreflight(d) \/ SomethingKeeps(d)
  BY <1>1, <1>2, <1>3 DEF ChooseInstance, TakeDestroyLock, DestroyRefusesHeld, ListSessions,
                          PassPreflight, SomethingKeeps
<1>4. CASE \/ Confirm(d) \/ Abort(d) \/ ReadOwners(d) \/ NoOwners(d)
           \/ OwnersDone(d) \/ RunOwnerOnReap(d) \/ SettleOwner(d) \/ RemoveInstance(d)
  BY <1>1, <1>2, <1>4 DEF Confirm, Abort, ReadOwners, NoOwners, OwnersDone, RunOwnerOnReap,
                          SettleOwner, RemoveInstance
<1>5. CASE \E m \in owners[d] : \/ KeepRunningOwner(d, m) \/ OwnerAlreadyGone(d, m)
                               \/ RemoveOwner(d, m) \/ RemoveOwnerFails(d, m)
  BY <1>1, <1>2, <1>5 DEF KeepRunningOwner, OwnerAlreadyGone, RemoveOwner, RemoveOwnerFails
<1> QED BY <1>1, <1>3, <1>4, <1>5 DEF DestroyStep

LEMMA DispatchMovesItself ==
    ASSUME Typed, NEW d \in Dispatcher, Dispatches(d)
    PROVE  /\ Alone(d)
           /\ \A e \in Dispatcher \ {d} : worker'[e] = worker[e]
           /\ \A p \in Path \ {at[d]} : lineage'[p] = lineage[p] /\ authority'[p] = authority[p]
<1>1. DOMAIN pc = Proc /\ at \in [Proc -> Path \cup {None}] /\ DispatchStep(d)
  BY DEF Typed, TypeOK, StoreTypeOK, Dispatches
<1>2. DispatchTypeOK
  BY DEF Typed, TypeOK
<1> USE DEF Goto, Return, Alone, DispatchTypeOK, dispatchVars
<1>3. CASE \/ BeginProvision(d) \/ Provision(d) \/ ProvisionFails(d)
           \/ WriteAuthority(d) \/ CreateLineage(d) \/ EarlyFailure(d)
  BY <1>1, <1>2, <1>3 DEF BeginProvision, Provision, ProvisionFails, WriteAuthority,
                          CreateLineage, EarlyFailure
<1>4. CASE \/ (\E s \in Session : LaunchDispatched(d, s) \/ CaptureDispatched(d, s))
           \/ TurnEnds(d) \/ CannotMap(d)
  BY <1>1, <1>2, <1>4 DEF LaunchDispatched, CaptureDispatched, TurnEnds, CannotMap
<1>5. CASE \/ WriteDispatchMapping(d) \/ WriteLaunchRecord(d) \/ WriteRetainMarker(d)
           \/ RetainMarkerFails(d) \/ RollbackDispatch(d)
  BY <1>1, <1>2, <1>5 DEF Exit, WriteDispatchMapping, WriteLaunchRecord, WriteRetainMarker,
                          RetainMarkerFails, RollbackDispatch
<1> QED BY <1>1, <1>3, <1>4, <1>5 DEF DispatchStep

-----------------------------------------------------------------------------
(* Nothing names a dispatch's instance before the dispatch has opened it.  *)

(* A step that is not the dispatch's own leaves what it has done as it is. *)
LEMMA OpenedStands ==
    ASSUME NEW d \in Dispatcher, pc'[d] = pc[d],
           lineage'[TokenPath[d]] = lineage[TokenPath[d]],
           authority'[TokenPath[d]] = authority[TokenPath[d]]
    PROVE  (Opened(d)' <=> Opened(d)) /\ (Launched(d)' <=> Launched(d))
BY DEF Opened, Launched

(* Where the mapping of a session leads after a settlement. *)
LEMMA SettledPaths ==
    ASSUME mapping \in [Session -> Mapping \cup {NoMapping}],
           NEW m \in Mapping \cup {NoMapping}, NEW ok, Settled(m, ok), NEW s \in Session
    PROVE  mapping'[s].path \in {mapping[s].path, None, m.path}
<1> DEFINE n == [m EXCEPT !.fails = @ + 1]
<1>1. n.path = m.path
  BY DEF Mapping, NoMapping
<1>2. \/ mapping' = mapping
      \/ mapping' = [mapping EXCEPT ![m.sess] = NoMapping]
      \/ mapping' = [mapping EXCEPT ![m.sess] = n]
  BY DEF Settled
<1> HIDE DEF n
<1>3. mapping'[s] \in {mapping[s], NoMapping, n}
  BY <1>2
<1> QED BY <1>1, <1>3 DEF NoMapping

LEMMA SelectionsAreTraced ==
    ASSUME Kept, NEW d \in Dispatcher, Unnamed(d), Fresher(d),
           NEW t, t \in StoredTargets \cup BackstopTargets
                  \/ \E pick \in JoinByPath : t \in ReapTargets(pick)
    PROVE  /\ t.path = TokenPath[d] => Launched(d)
           /\ t.m.path = TokenPath[d] => Opened(d)
<1>1. TokenPath[d] \in Path /\ TokenPath[d] # None
  OBVIOUS
<1>2. Opened(d) => Launched(d)
  BY DEF Opened, Launched
<1>3. CASE t \in StoredTargets
  BY <1>2, <1>3 DEF StoredTargets, Mapped, Unnamed
<1>4. CASE t \in BackstopTargets
  BY <1>1, <1>4 DEF BackstopTargets, Fresher, NoMapping
<1>5. ASSUME NEW pick \in JoinByPath, t \in ReapTargets(pick)
      PROVE  t.path = t.m.path /\ \E s \in Session : t.m = mapping[s]
  BY <1>5 DEF ReapTargets, JoinByPath, MappedTo, Mapped
<1>6. CASE \E pick \in JoinByPath : t \in ReapTargets(pick)
  BY <1>2, <1>5, <1>6 DEF Unnamed
<1> QED BY <1>3, <1>4, <1>6

LEMMA ReapKeepsTraces ==
    ASSUME Kept, Traced, NEW r \in Reaper, Reaps(r), NEW d \in Dispatcher
    PROVE  Unnamed(d)' /\ Fresher(d)'
<1> DEFINE p == TokenPath[d]
<1>1. /\ Unnamed(d) /\ Fresher(d) /\ Typed /\ Homed /\ ReapStep(r)
      /\ p \in Path /\ p # None
      /\ UNCHANGED <<resumeVars, destroyVars, dispatchVars>>
      /\ \A y \in Resumer \cup Destroyer \cup Dispatcher : pc'[y] = pc[y] /\ at'[y] = at[y]
      /\ \A q \in Reaper \ {r} : queue'[q] = queue[q] /\ task'[q] = task[q]
  BY ReapMovesItself DEF Kept, Traced, Reaps, Alone, Proc
<1>2. (Opened(d)' <=> Opened(d)) /\ (Launched(d)' <=> Launched(d)) /\ (Opened(d) => Launched(d))
  <2>1. pc'[d] = pc[d] /\ lineage' = lineage /\ authority' = authority
    BY <1>1 DEF dispatchVars
  <2> QED BY <2>1, OpenedStands DEF Opened, Launched
<1> HIDE DEF p
<1>3. \A t \in queue[r] \cup {task[r]} :
          (t.path = p => Launched(d)) /\ (t.m.path = p => Opened(d))
  BY <1>1 DEF Unnamed, p
<1>4. Holding(r) => at[r] = task[r].path
  BY <1>1 DEF Homed, ReapHomed
<1>5. \A s \in Session : mapping'[s].path = p => Opened(d)
  <2>1. \A s \in Session : mapping[s].path = p => Opened(d)
    BY <1>1 DEF Unnamed, p
  <2>2. CASE SettleMapping(r)
    <3>1. /\ mapping \in [Session -> Mapping \cup {NoMapping}]
          /\ task[r].m \in Mapping \cup {NoMapping}
      BY <1>1 DEF Typed, TypeOK, StoreTypeOK, ReapTypeOK, Task, NoTask
    <3>2. \A s \in Session : mapping'[s].path \in {mapping[s].path, None, task[r].m.path}
      BY <2>2, <3>1, SettledPaths DEF SettleMapping
    <3> QED BY <1>1, <1>3, <2>1, <3>2
  <2>3. CASE ~SettleMapping(r)
    <3>1. mapping' = mapping
      BY <1>1, <2>3
         DEF ReapStep, SelectMapped, SelectBackstop, FinishSweep, TakeTask, SpareHeld, Recheck,
             Spare, DestroyTarget, DestroyTargetFails, RunOnReap, worldVars, fileVars
    <3> QED BY <2>1, <3>1
  <2> QED BY <2>2, <2>3
<1>6. launch'[p] \in {launch[p], None}
  BY <1>1
     DEF ReapStep, SelectMapped, SelectBackstop, SweepLaunchRecords, FinishSweep, TakeTask,
         SpareHeld, Recheck, Spare, DestroyTarget, DestroyTargetFails, RunOnReap,
         SettleMapping, worldVars, fileVars
<1>7. \A t \in queue'[r] \cup {task'[r]} :
          (t.path = p => Launched(d)) /\ (t.m.path = p => Opened(d))
  <2>1. queue \in [Reaper -> SUBSET Task] /\ task \in [Reaper -> Task \cup {NoTask}]
    BY <1>1 DEF Typed, TypeOK, ReapTypeOK
  <2>2. CASE SelectMapped(r)
    <3>1. /\ \E pick \in JoinByPath : queue'[r] = ReapTargets(pick) \cup StoredTargets
          /\ task'[r] = task[r]
      BY <2>1, <2>2 DEF SelectMapped
    <3> QED BY <1>1, <1>3, <3>1, SelectionsAreTraced DEF p
  <2>3. CASE SelectBackstop(r)
    <3>1. queue'[r] = BackstopTargets /\ task'[r] = task[r]
      BY <2>1, <2>3 DEF SelectBackstop
    <3> QED BY <1>1, <1>3, <3>1, SelectionsAreTraced DEF p
  <2>4. CASE ~SelectMapped(r) /\ ~SelectBackstop(r)
    <3>1. queue'[r] \subseteq queue[r] /\ task'[r] \in queue[r] \cup {task[r], NoTask}
      BY <1>1, <2>1, <2>4
         DEF ReapStep, FinishSweep, TakeTask, SpareHeld, Recheck, Spare, DestroyTarget,
             DestroyTargetFails, RunOnReap, SettleMapping, LeaveTask
    <3>2. NoTask.path # p /\ NoTask.m.path # p
      BY <1>1 DEF NoTask, NoMapping
    <3> QED BY <1>3, <3>1, <3>2
  <2> QED BY <2>2, <2>3, <2>4
<1>8. (disk'[p] = disk[p] \/ Launched(d)) /\ aged'[p] \in {aged[p], FALSE}
  <2>1. CASE DestroyTarget(r) \/ DestroyTargetFails(r)
    <3>1. at[r] = task[r].path
      BY <1>4, <2>1 DEF DestroyTarget, DestroyTargetFails, Holding
    <3>2. \E left : RemovedTo(at[r], left)
      BY <2>1 DEF DestroyTarget, DestroyTargetFails
    <3>3. disk'[p] = disk[p] \/ p = at[r]
      BY <1>1, <3>2 DEF RemovedTo, Typed, TypeOK, StoreTypeOK
    <3>4. aged'[p] \in {aged[p], FALSE}
      <4>1. aged \in [Path -> BOOLEAN]
        BY <1>1 DEF Typed, TypeOK, StoreTypeOK
      <4>2. aged' = aged \/ aged' = [aged EXCEPT ![at[r]] = FALSE]
        BY <3>2, <4>1 DEF RemovedTo
      <4> QED BY <1>1, <4>1, <4>2
    <3> QED BY <1>3, <3>1, <3>3, <3>4
  <2>2. CASE ~DestroyTarget(r) /\ ~DestroyTargetFails(r)
    BY <1>1, <2>2
       DEF ReapStep, SelectMapped, SelectBackstop, FinishSweep, TakeTask, SpareHeld, Recheck,
           Spare, RunOnReap, SettleMapping, worldVars, fileVars
  <2> QED BY <2>1, <2>2
<1>9. Unnamed(d)'
  <2>1. \A q \in Reaper : \A t \in queue'[q] \cup {task'[q]} :
            (t.path = p => Launched(d)') /\ (t.m.path = p => Opened(d)')
    BY <1>1, <1>2, <1>7 DEF Unnamed, p
  <2>2. (\A s \in Session : mapping'[s].path = p => Opened(d)')
        /\ (launch'[p] # None => Opened(d)' /\ pc'[d] = "done")
    BY <1>1, <1>2, <1>5, <1>6 DEF Unnamed, p
  <2>3. \A u \in Resumer : /\ at'[u] = p => Opened(d)' /\ pc'[d] = "done"
                           /\ prev'[u].path = p => Opened(d)'
    BY <1>1, <1>2 DEF Unnamed, p, resumeVars
  <2>4. \A e \in Destroyer :
            /\ at'[e] = p => pc'[d] \notin {"start", "provision"}
            /\ \A m \in owners'[e] \cup {owner'[e]} : m.path = p => Opened(d)'
    BY <1>1, <1>2 DEF Unnamed, p, destroyVars
  <2> QED BY <2>1, <2>2, <2>3, <2>4 DEF Unnamed, p
<1>10. Fresher(d)'
  BY <1>1, <1>2, <1>8 DEF Fresher, Launched, p, dispatchVars
<1> QED BY <1>9, <1>10

LEMMA ResumeKeepsTraces ==
    ASSUME Kept, Traced, NEW u \in Resumer, Resumes(u), NEW d \in Dispatcher
    PROVE  Unnamed(d)' /\ Fresher(d)'
<1> DEFINE p == TokenPath[d]
<1>1. /\ Unnamed(d) /\ Fresher(d) /\ Typed /\ ResumeStep(u)
      /\ p \in Path /\ p # None
      /\ UNCHANGED <<reapVars, destroyVars, dispatchVars>>
      /\ \A y \in Destroyer \cup Dispatcher : pc'[y] = pc[y] /\ at'[y] = at[y]
      /\ \A v \in Resumer \ {u} : at'[v] = at[v] /\ prev'[v] = prev[v]
  BY ResumeMovesItself DEF Kept, Traced, Resumes, Alone, Proc
<1>2. (Opened(d)' <=> Opened(d)) /\ (Launched(d)' <=> Launched(d)) /\ (Opened(d) => Launched(d))
  <2>1. pc'[d] = pc[d] /\ lineage' = lineage /\ authority' = authority
    BY <1>1 DEF dispatchVars
  <2> QED BY <2>1, OpenedStands DEF Opened, Launched
<1> HIDE DEF p
<1>3. /\ at[u] = p => Opened(d) /\ pc[d] = "done"
      /\ prev[u].path = p => Opened(d)
      /\ launch[p] # None => Opened(d) /\ pc[d] = "done"
      /\ \A s \in Session : mapping[s].path = p => Opened(d)
  BY <1>1 DEF Unnamed, p
<1>4. /\ mapping \in [Session -> Mapping \cup {NoMapping}]
      /\ prev \in [Resumer -> Mapping \cup {NoMapping}]
      /\ launch \in [Path -> Session \cup {None}]
      /\ disk \in [Path -> {"absent", "instance", "husk"}]
      /\ aged \in [Path -> BOOLEAN]
      /\ at \in [Proc -> Path \cup {None}] /\ u \in Proc
      /\ None \notin Session
      /\ pc[u] \notin {"start", "done"} => rec[u] \in Session
  BY <1>1 DEF Typed, TypeOK, StoreTypeOK, ResumeTypeOK, Placed, Proc
<1> USE DEF Goto, Return, worldVars, fileVars, resumeVars
<1>5. \A s \in Session : mapping'[s] \in {mapping[s], prev[u], NoMapping, NewMapping(u, s)}
  <2>1. CASE WriteMapping(u) \/ Unmap(u) \/ DropOldMapping(u)
    BY <1>4, <2>1 DEF WriteMapping, Unmap, DropOldMapping
  <2>2. CASE \E s \in Session : Capture(u, s)
    BY <1>4, <2>2 DEF Capture
  <2> QED BY <1>1, <2>1, <2>2
          DEF ResumeStep, ResolveRecord, TakeResumeLock, RefuseHeld, PassChecks, Refuse,
              BeginRestore, Restore, RestoreFails, MappingFails, LaunchWorker, LaunchFails,
              Rollback, CaptureFails, Finish
<1>6. launch'[p] = launch[p] \/ at[u] = p
  <2>1. CASE Finish(u)
    BY <1>1, <1>4, <2>1 DEF Finish
  <2> QED BY <1>1, <2>1
          DEF ResumeStep, ResolveRecord, TakeResumeLock, RefuseHeld, PassChecks, Refuse,
              BeginRestore, Restore, RestoreFails, WriteMapping, MappingFails, LaunchWorker,
              LaunchFails, Unmap, Rollback, CaptureFails, Capture, DropOldMapping
<1>7. at'[u] \in {at[u], None} \/ launch[at'[u]] # None
  <2>1. CASE \E q \in Path : ResolveRecord(u, q)
    BY <1>1, <1>4, <2>1 DEF ResolveRecord
  <2> QED BY <1>1, <1>4, <2>1
          DEF ResumeStep, TakeResumeLock, RefuseHeld, PassChecks, Refuse, BeginRestore,
              Restore, RestoreFails, WriteMapping, MappingFails, LaunchWorker, LaunchFails,
              Unmap, Rollback, CaptureFails, Capture, DropOldMapping, Finish
<1>8. prev'[u] = prev[u] \/ \E s \in Session : prev'[u] = mapping[s]
  <2>1. CASE WriteMapping(u)
    BY <1>1, <1>4, <2>1 DEF WriteMapping
  <2> QED BY <1>1, <2>1
          DEF ResumeStep, ResolveRecord, TakeResumeLock, RefuseHeld, PassChecks, Refuse,
              BeginRestore, Restore, RestoreFails, MappingFails, LaunchWorker, LaunchFails,
              Unmap, Rollback, CaptureFails, Capture, DropOldMapping, Finish
<1>9. (disk'[p] = disk[p] \/ at[u] = p) /\ (aged'[p] \in {aged[p], FALSE})
  <2>1. CASE BeginRestore(u) \/ Restore(u) \/ RestoreFails(u)
    BY <1>1, <1>4, <2>1 DEF BeginRestore, Restore, RestoreFails
  <2>2. CASE Rollback(u)
    <3>1. CASE restored[u]
      <4>1. PICK left \in RemovalOutcome(at[u]) : RemovedTo(at[u], left)
        BY <2>2, <3>1 DEF Rollback
      <4>2. disk'[p] = disk[p] \/ at[u] = p
        BY <1>1, <1>4, <4>1 DEF RemovedTo
      <4>3. aged' = aged \/ aged' = [aged EXCEPT ![at[u]] = FALSE]
        BY <1>4, <4>1 DEF RemovedTo
      <4> QED BY <1>1, <1>4, <4>2, <4>3
    <3> QED BY <2>2, <3>1 DEF Rollback
  <2> QED BY <1>1, <2>1, <2>2
          DEF ResumeStep, ResolveRecord, TakeResumeLock, RefuseHeld, PassChecks, Refuse,
              WriteMapping, MappingFails, LaunchWorker, LaunchFails, Unmap, CaptureFails,
              Capture, DropOldMapping, Finish
<1>10. Unnamed(d)'
  <2>1. \A s \in Session : mapping'[s].path = p => Opened(d)'
    BY <1>1, <1>2, <1>3, <1>5 DEF NewMapping, NoMapping
  <2>2. launch'[p] # None => Opened(d)' /\ pc'[d] = "done"
    BY <1>1, <1>2, <1>3, <1>6
  <2>3. \A v \in Resumer : /\ at'[v] = p => Opened(d)' /\ pc'[d] = "done"
                           /\ prev'[v].path = p => Opened(d)'
    <3>1. \A v \in Resumer \ {u} : /\ at'[v] = p => Opened(d)' /\ pc'[d] = "done"
                                   /\ prev'[v].path = p => Opened(d)'
      BY <1>1, <1>2 DEF Unnamed, p
    <3>2. at'[u] = p => Opened(d)' /\ pc'[d] = "done"
      BY <1>1, <1>2, <1>3, <1>7
    <3>3. prev'[u].path = p => Opened(d)'
      BY <1>2, <1>3, <1>8
    <3> QED BY <3>1, <3>2, <3>3
  <2>4. \A r \in Reaper : \A t \in queue'[r] \cup {task'[r]} :
            (t.path = p => Launched(d)') /\ (t.m.path = p => Opened(d)')
    BY <1>1, <1>2 DEF Unnamed, p, reapVars
  <2>5. \A e \in Destroyer :
            /\ at'[e] = p => pc'[d] \notin {"start", "provision"}
            /\ \A m \in owners'[e] \cup {owner'[e]} : m.path = p => Opened(d)'
    BY <1>1, <1>2 DEF Unnamed, p, destroyVars
  <2> QED BY <2>1, <2>2, <2>3, <2>4, <2>5 DEF Unnamed, p
<1>11. Fresher(d)'
  BY <1>1, <1>2, <1>3, <1>9 DEF Fresher, Launched, p, dispatchVars
<1> QED BY <1>10, <1>11

LEMMA DestroyKeepsTraces ==
    ASSUME Kept, Traced, NEW x \in Destroyer, Destroys(x), NEW d \in Dispatcher
    PROVE  Unnamed(d)' /\ Fresher(d)'
<1> DEFINE p == TokenPath[d]
<1>1. /\ Unnamed(d) /\ Fresher(d) /\ Typed /\ DestroyStep(x)
      /\ p \in Path /\ p # None
      /\ UNCHANGED <<reapVars, resumeVars, dispatchVars>>
      /\ \A y \in Resumer \cup Dispatcher : pc'[y] = pc[y] /\ at'[y] = at[y]
      /\ \A e \in Destroyer \ {x} : at'[e] = at[e] /\ owners'[e] = owners[e] /\ owner'[e] = owner[e]
  BY DestroyMovesItself DEF Kept, Traced, Destroys, Alone, Proc
<1>2. (Opened(d)' <=> Opened(d)) /\ (Launched(d)' <=> Launched(d)) /\ (Opened(d) => Launched(d))
  <2>1. pc'[d] = pc[d] /\ lineage' = lineage /\ authority' = authority
    BY <1>1 DEF dispatchVars
  <2> QED BY <2>1, OpenedStands DEF Opened, Launched
<1> HIDE DEF p
<1>3. /\ at[x] = p => pc[d] \notin {"start", "provision"}
      /\ \A m \in owners[x] \cup {owner[x]} : m.path = p => Opened(d)
      /\ \A s \in Session : mapping[s].path = p => Opened(d)
      /\ disk[p] = "instance" => pc[d] \notin {"start", "provision"}
  BY <1>1 DEF Unnamed, Fresher, p
<1>4. /\ mapping \in [Session -> Mapping \cup {NoMapping}]
      /\ owners \in [Destroyer -> SUBSET Mapping]
      /\ owner \in [Destroyer -> Mapping \cup {NoMapping}]
      /\ disk \in [Path -> {"absent", "instance", "husk"}]
      /\ aged \in [Path -> BOOLEAN]
      /\ at \in [Proc -> Path \cup {None}] /\ x \in Proc
  BY <1>1 DEF Typed, TypeOK, StoreTypeOK, DestroyTypeOK, Proc
<1> USE DEF Goto, Return, worldVars, fileVars, destroyVars
<1>5. \A s \in Session : mapping'[s].path = p => Opened(d)
  <2>1. CASE SettleOwner(x)
    <3>1. \A s \in Session : mapping'[s].path \in {mapping[s].path, None, owner[x].path}
      BY <1>4, <2>1, SettledPaths DEF SettleOwner
    <3> QED BY <1>1, <1>3, <3>1
  <2>2. CASE ~SettleOwner(x)
    <3>1. mapping' = mapping
      BY <1>1, <2>2
         DEF DestroyStep, ChooseInstance, TakeDestroyLock, DestroyRefusesHeld, ListSessions,
             PassPreflight, SomethingKeeps, Confirm, Abort, ReadOwners, NoOwners,
             KeepRunningOwner, OwnerAlreadyGone, RemoveOwner, RemoveOwnerFails, OwnersDone,
             RunOwnerOnReap, RemoveInstance
    <3> QED BY <1>3, <3>1
  <2> QED BY <2>1, <2>2
<1>6. at'[x] \in {at[x], None} \/ disk[at'[x]] = "instance"
  <2>1. CASE \E q \in Path : ChooseInstance(x, q)
    BY <1>4, <2>1 DEF ChooseInstance
  <2> QED BY <1>1, <1>4, <2>1
          DEF DestroyStep, TakeDestroyLock, DestroyRefusesHeld, ListSessions, PassPreflight,
              SomethingKeeps, Confirm, Abort, ReadOwners, NoOwners, KeepRunningOwner,
              OwnerAlreadyGone, RemoveOwner, RemoveOwnerFails, OwnersDone, RunOwnerOnReap,
              SettleOwner, RemoveInstance
<1>7. \A m \in owners'[x] \cup {owner'[x]} :
          \/ m \in owners[x] \cup {owner[x], NoMapping} \/ \E s \in Session : m = mapping[s]
  <2>1. CASE ReadOwners(x)
    BY <1>4, <2>1 DEF ReadOwners, OwningMappings, MappedTo, Mapped
  <2>2. CASE \E m \in owners[x] : \/ KeepRunningOwner(x, m) \/ OwnerAlreadyGone(x, m)
                                  \/ RemoveOwner(x, m) \/ RemoveOwnerFails(x, m)
    BY <1>4, <2>2 DEF KeepRunningOwner, OwnerAlreadyGone, RemoveOwner, RemoveOwnerFails
  <2>3. CASE SettleOwner(x)
    BY <1>4, <2>3 DEF SettleOwner
  <2> QED BY <1>1, <2>1, <2>2, <2>3
          DEF DestroyStep, ChooseInstance, TakeDestroyLock, DestroyRefusesHeld, ListSessions,
              PassPreflight, SomethingKeeps, Confirm, Abort, NoOwners, OwnersDone,
              RunOwnerOnReap, RemoveInstance
<1>8. (disk'[p] = disk[p] \/ at[x] = p) /\ (aged'[p] \in {aged[p], FALSE}) /\ launch' = launch
  <2>1. CASE RemoveInstance(x)
    <3>1. PICK left \in RemovalOutcome(at[x]) : RemovedTo(at[x], left)
      BY <2>1 DEF RemoveInstance
    <3>2. disk'[p] = disk[p] \/ at[x] = p
      BY <1>1, <1>4, <3>1 DEF RemovedTo
    <3>3. aged' = aged \/ aged' = [aged EXCEPT ![at[x]] = FALSE]
      BY <1>4, <3>1 DEF RemovedTo
    <3> QED BY <1>1, <1>4, <2>1, <3>2, <3>3 DEF RemoveInstance
  <2> QED BY <1>1, <2>1
          DEF DestroyStep, ChooseInstance, TakeDestroyLock, DestroyRefusesHeld, ListSessions,
              PassPreflight, SomethingKeeps, Confirm, Abort, ReadOwners, NoOwners,
              KeepRunningOwner, OwnerAlreadyGone, RemoveOwner, RemoveOwnerFails, OwnersDone,
              RunOwnerOnReap, SettleOwner
<1>9. Unnamed(d)'
  <2>1. /\ \A s \in Session : mapping'[s].path = p => Opened(d)'
        /\ launch'[p] # None => Opened(d)' /\ pc'[d] = "done"
    BY <1>1, <1>2, <1>5, <1>8 DEF Unnamed, p
  <2>2. \A v \in Resumer : /\ at'[v] = p => Opened(d)' /\ pc'[d] = "done"
                           /\ prev'[v].path = p => Opened(d)'
    BY <1>1, <1>2 DEF Unnamed, p, resumeVars
  <2>3. \A r \in Reaper : \A t \in queue'[r] \cup {task'[r]} :
            (t.path = p => Launched(d)') /\ (t.m.path = p => Opened(d)')
    BY <1>1, <1>2 DEF Unnamed, p, reapVars
  <2>4. \A e \in Destroyer \ {x} :
            /\ at'[e] = p => pc'[d] \notin {"start", "provision"}
            /\ \A m \in owners'[e] \cup {owner'[e]} : m.path = p => Opened(d)'
    BY <1>1, <1>2 DEF Unnamed, p
  <2>5. at'[x] = p => pc'[d] \notin {"start", "provision"}
    BY <1>1, <1>3, <1>6
  <2>6. \A m \in owners'[x] \cup {owner'[x]} : m.path = p => Opened(d)'
    BY <1>1, <1>2, <1>3, <1>7 DEF NoMapping
  <2> QED BY <2>1, <2>2, <2>3, <2>4, <2>5, <2>6 DEF Unnamed, p
<1>10. Fresher(d)'
  BY <1>1, <1>2, <1>3, <1>8 DEF Fresher, Launched, p, dispatchVars
<1> QED BY <1>9, <1>10

LEMMA OtherDispatchKeepsTraces ==
    ASSUME Kept, Traced, NEW x \in Dispatcher, Dispatches(x), NEW d \in Dispatcher \ {x}
    PROVE  Unnamed(d)' /\ Fresher(d)'
<1> DEFINE p == TokenPath[d]
<1>1. /\ Unnamed(d) /\ Fresher(d) /\ Typed /\ Homed /\ DispatchStep(x)
      /\ p \in Path /\ p # None /\ p # TokenPath[x] /\ TokenPath[x] \in Path
      /\ UNCHANGED <<reapVars, resumeVars, destroyVars>>
      /\ \A y \in Resumer \cup Destroyer : pc'[y] = pc[y] /\ at'[y] = at[y]
      /\ pc'[d] = pc[d]
  BY DispatchMovesItself DEF Kept, Traced, Dispatches, Alone, Proc
<1> HIDE DEF p
<1>2. /\ mapping \in [Session -> Mapping \cup {NoMapping}]
      /\ lineage \in [Path -> BOOLEAN]
      /\ authority \in [Path -> BOOLEAN]
      /\ launch \in [Path -> Session \cup {None}]
      /\ disk \in [Path -> {"absent", "instance", "husk"}]
      /\ aged \in [Path -> BOOLEAN]
      /\ pc[x] \notin {"start", "done"} => at[x] = TokenPath[x]
  BY <1>1 DEF Typed, TypeOK, StoreTypeOK, DispatchTypeOK, Homed, DispatchHomed
<1> USE DEF Return, worldVars, fileVars, dispatchVars
<1>3. lineage'[p] = lineage[p] /\ authority'[p] = authority[p] /\ launch'[p] = launch[p]
  BY <1>1, <1>2
     DEF Exit, DispatchStep, BeginProvision, Provision, ProvisionFails, WriteAuthority,
         CreateLineage, EarlyFailure, LaunchDispatched, TurnEnds, CaptureDispatched,
         CannotMap, WriteDispatchMapping, WriteLaunchRecord, WriteRetainMarker,
         RetainMarkerFails, RollbackDispatch
<1>4. \A s \in Session : mapping'[s] = mapping[s] \/ mapping'[s].path # p
  <2>1. CASE WriteDispatchMapping(x)
    BY <1>1, <1>2, <2>1 DEF WriteDispatchMapping
  <2> QED BY <1>1, <2>1
          DEF Exit, DispatchStep, BeginProvision, Provision, ProvisionFails, WriteAuthority,
              CreateLineage, EarlyFailure, LaunchDispatched, TurnEnds, CaptureDispatched,
              CannotMap, WriteLaunchRecord, WriteRetainMarker, RetainMarkerFails,
              RollbackDispatch
<1>5. disk'[p] = disk[p] /\ aged'[p] = aged[p]
  <2>1. CASE RollbackDispatch(x)
    BY <1>1, <1>2, <2>1 DEF RollbackDispatch, RemovedTo
  <2>2. CASE BeginProvision(x) \/ Provision(x) \/ ProvisionFails(x) \/ WriteRetainMarker(x)
    BY <1>1, <1>2, <2>2 DEF Exit, BeginProvision, Provision, ProvisionFails, WriteRetainMarker
  <2> QED BY <1>1, <2>1, <2>2
          DEF Exit, DispatchStep, WriteAuthority, CreateLineage, EarlyFailure, LaunchDispatched,
              TurnEnds, CaptureDispatched, CannotMap, WriteDispatchMapping,
              WriteLaunchRecord, RetainMarkerFails
<1>6. (Opened(d)' <=> Opened(d)) /\ (Launched(d)' <=> Launched(d))
  BY <1>1, <1>3, OpenedStands DEF p
<1>7. Unnamed(d)'
  <2>1. /\ \A s \in Session : mapping'[s].path = p => Opened(d)'
        /\ launch'[p] # None => Opened(d)' /\ pc'[d] = "done"
    BY <1>1, <1>3, <1>4, <1>6 DEF Unnamed, p
  <2>2. \A v \in Resumer : /\ at'[v] = p => Opened(d)' /\ pc'[d] = "done"
                           /\ prev'[v].path = p => Opened(d)'
    BY <1>1, <1>6 DEF Unnamed, p, resumeVars
  <2>3. \A r \in Reaper : \A t \in queue'[r] \cup {task'[r]} :
            (t.path = p => Launched(d)') /\ (t.m.path = p => Opened(d)')
    BY <1>1, <1>6 DEF Unnamed, p, reapVars
  <2>4. \A e \in Destroyer :
            /\ at'[e] = p => pc'[d] \notin {"start", "provision"}
            /\ \A m \in owners'[e] \cup {owner'[e]} : m.path = p => Opened(d)'
    BY <1>1, <1>6 DEF Unnamed, p, destroyVars
  <2> QED BY <2>1, <2>2, <2>3, <2>4 DEF Unnamed, p
<1>8. Fresher(d)'
  BY <1>1, <1>3, <1>5, <1>6 DEF Fresher, p
<1> QED BY <1>7, <1>8

(* What a dispatch has done stays done. *)
LEMMA DispatchGoesOn ==
    ASSUME Typed, NEW d \in Dispatcher, Dispatches(d)
    PROVE  /\ Opened(d) => Opened(d)'
           /\ Launched(d) => Launched(d)'
           /\ pc[d] \notin {"start", "provision"} => pc'[d] \notin {"start", "provision"}
<1>1. DispatchStep(d) /\ d \in Proc /\ DOMAIN pc = Proc
  BY DEF Dispatches, Typed, TypeOK, Proc
<1> USE DEF Goto, Return, dispatchVars
<1>2. CASE WriteLaunchRecord(d)
  BY <1>1, <1>2 DEF Exit, WriteLaunchRecord, Opened, Launched
<1>3. CASE ~WriteLaunchRecord(d)
  <2>1. ~Opened(d)
    BY <1>1, <1>3
       DEF Exit, DispatchStep, BeginProvision, Provision, ProvisionFails, WriteAuthority,
           CreateLineage, EarlyFailure, LaunchDispatched, TurnEnds, CaptureDispatched,
           CannotMap, WriteDispatchMapping, WriteRetainMarker, RetainMarkerFails,
           RollbackDispatch, Opened
  <2>2. \/ pc[d] = "start" /\ pc'[d] = "provision"
        \/ pc[d] = "provision" /\ pc'[d] \in {"files", "done"}
        \/ pc[d] = "files" /\ pc'[d] \in {"lineage", "rollback"}
        \/ pc[d] = "lineage" /\ pc'[d] \in {"launch", "rollback"}
        \/ pc'[d] \in {"turn", "capture", "map", "record", "retain", "rollback", "done"}
    BY <1>1, <1>3
       DEF Exit, DispatchStep, BeginProvision, Provision, ProvisionFails, WriteAuthority,
           CreateLineage, EarlyFailure, LaunchDispatched, TurnEnds, CaptureDispatched,
           CannotMap, WriteDispatchMapping, WriteRetainMarker, RetainMarkerFails,
           RollbackDispatch
  <2> QED BY <2>1, <2>2 DEF Launched
<1> QED BY <1>2, <1>3

LEMMA DispatchKeepsItsTraces ==
    ASSUME Kept, Traced, NEW d \in Dispatcher, Dispatches(d)
    PROVE  Unnamed(d)' /\ Fresher(d)'
<1> DEFINE p == TokenPath[d]
<1>1. /\ Unnamed(d) /\ Fresher(d) /\ Typed /\ Homed /\ DispatchStep(d)
      /\ p \in Path /\ p # None
      /\ UNCHANGED <<reapVars, resumeVars, destroyVars>>
      /\ \A y \in Resumer \cup Destroyer : pc'[y] = pc[y] /\ at'[y] = at[y]
  BY DispatchMovesItself DEF Kept, Traced, Dispatches, Alone, Proc
<1> HIDE DEF p
<1>2. /\ mapping \in [Session -> Mapping \cup {NoMapping}]
      /\ lineage \in [Path -> BOOLEAN]
      /\ authority \in [Path -> BOOLEAN]
      /\ launch \in [Path -> Session \cup {None}]
      /\ disk \in [Path -> {"absent", "instance", "husk"}]
      /\ aged \in [Path -> BOOLEAN]
      /\ pc[d] \notin {"start", "done"} => at[d] = p
      /\ d \in Proc /\ DOMAIN pc = Proc
  BY <1>1 DEF Typed, TypeOK, StoreTypeOK, DispatchTypeOK, Homed, DispatchHomed, Proc, p
<1> USE DEF Goto, Return, worldVars, fileVars, dispatchVars
<1>3. pc[d] \notin {"done"}
  BY <1>1 DEF Exit, DispatchStep, BeginProvision, Provision, ProvisionFails, WriteAuthority,
         CreateLineage, EarlyFailure, LaunchDispatched, TurnEnds, CaptureDispatched,
         CannotMap, WriteDispatchMapping, WriteLaunchRecord, WriteRetainMarker,
         RetainMarkerFails, RollbackDispatch
<1>4. /\ Opened(d) => Opened(d)'
      /\ Launched(d) => Launched(d)'
      /\ pc[d] \notin {"start", "provision"} => pc'[d] \notin {"start", "provision"}
  BY <1>1, DispatchGoesOn
<1>5. \A s \in Session : mapping'[s].path = p => Opened(d)'
  <2>1. CASE WriteDispatchMapping(d)
    <3>1. pc[d] = "map" /\ pc'[d] = "record" /\ UNCHANGED <<lineage, authority>>
      BY <1>2, <2>1 DEF WriteDispatchMapping
    <3> QED BY <1>1, <3>1 DEF Fresher, Opened, p
  <2>2. CASE ~WriteDispatchMapping(d)
    <3>1. mapping' = mapping
      BY <1>1, <2>2
         DEF Exit, DispatchStep, BeginProvision, Provision, ProvisionFails, WriteAuthority,
             CreateLineage, EarlyFailure, LaunchDispatched, TurnEnds, CaptureDispatched,
             CannotMap, WriteLaunchRecord, WriteRetainMarker, RetainMarkerFails,
             RollbackDispatch
    <3> QED BY <1>1, <1>4, <3>1 DEF Unnamed, p
  <2> QED BY <2>1, <2>2
<1>6. launch'[p] # None => Opened(d)' /\ pc'[d] = "done"
  <2>1. CASE WriteLaunchRecord(d)
    <3>1. pc[d] = "record" /\ pc'[d] = "done" /\ UNCHANGED <<lineage, authority>>
      BY <1>2, <2>1 DEF Exit, WriteLaunchRecord
    <3> QED BY <1>1, <3>1 DEF Fresher, Opened, p
  <2>2. CASE ~WriteLaunchRecord(d)
    <3>1. launch' = launch
      BY <1>1, <2>2
         DEF Exit, DispatchStep, BeginProvision, Provision, ProvisionFails, WriteAuthority,
             CreateLineage, EarlyFailure, LaunchDispatched, TurnEnds, CaptureDispatched,
             CannotMap, WriteDispatchMapping, WriteRetainMarker, RetainMarkerFails,
             RollbackDispatch
    <3> QED BY <1>1, <1>3, <3>1 DEF Unnamed, p
  <2> QED BY <2>1, <2>2
<1>7. Unnamed(d)'
  <2>1. \A v \in Resumer : /\ at'[v] = p => Opened(d)' /\ pc'[d] = "done"
                           /\ prev'[v].path = p => Opened(d)'
    BY <1>1, <1>3, <1>4 DEF Unnamed, p, resumeVars
  <2>2. \A r \in Reaper : \A t \in queue'[r] \cup {task'[r]} :
            (t.path = p => Launched(d)') /\ (t.m.path = p => Opened(d)')
    BY <1>1, <1>4 DEF Unnamed, p, reapVars
  <2>3. \A e \in Destroyer :
            /\ at'[e] = p => pc'[d] \notin {"start", "provision"}
            /\ \A m \in owners'[e] \cup {owner'[e]} : m.path = p => Opened(d)'
    BY <1>1, <1>4 DEF Unnamed, p, destroyVars
  <2> QED BY <1>5, <1>6, <2>1, <2>2, <2>3 DEF Unnamed, p
<1>8. Fresher(d)'
  <2> USE DEF Fresher, Launched
  <2>1. CASE BeginProvision(d)
    BY <1>1, <1>2, <2>1 DEF BeginProvision, p
  <2>2. CASE Provision(d)
    BY <1>1, <1>2, <2>2 DEF Provision, p
  <2>3. CASE WriteAuthority(d)
    BY <1>1, <1>2, <2>3 DEF WriteAuthority, p
  <2>4. CASE CreateLineage(d)
    BY <1>1, <1>2, <2>4 DEF CreateLineage, p
  <2>5. CASE \/ ProvisionFails(d) \/ WriteLaunchRecord(d) \/ WriteRetainMarker(d)
             \/ RetainMarkerFails(d) \/ RollbackDispatch(d)
    <3>1. pc'[d] = "done"
      BY <1>2, <2>5 DEF Exit, ProvisionFails, WriteLaunchRecord, WriteRetainMarker,
                        RetainMarkerFails, RollbackDispatch
    <3> QED BY <3>1
  <2>6. CASE \/ EarlyFailure(d) \/ TurnEnds(d) \/ CannotMap(d) \/ WriteDispatchMapping(d)
             \/ \E s \in Session : LaunchDispatched(d, s)
    BY <1>1, <1>2, <2>6 DEF EarlyFailure, TurnEnds, CannotMap, WriteDispatchMapping,
                            LaunchDispatched, p
  <2>7. CASE \E s \in Session : CaptureDispatched(d, s)
    BY <1>1, <1>2, <2>7 DEF CaptureDispatched, p
  <2> QED BY <1>1, <2>1, <2>2, <2>3, <2>4, <2>5, <2>6, <2>7 DEF DispatchStep
<1> QED BY <1>7, <1>8

LEMMA WorldKeepsTraces ==
    ASSUME Kept, Traced, WorldStep \/ UNCHANGED vars, NEW d \in Dispatcher
    PROVE  Unnamed(d)' /\ Fresher(d)'
<1>1. /\ Unnamed(d) /\ Fresher(d) /\ TokenPath[d] \in Path
      /\ aged \in [Path -> BOOLEAN]
      /\ pc[d] \notin {"start", "done"} => at[d] = TokenPath[d]
  BY DEF Kept, Traced, Typed, TypeOK, StoreTypeOK, Homed, DispatchHomed
<1>2. UNCHANGED <<disk, mapping, launch, pc, at, queue, task, prev, owners, owner, lineage, authority>>
  BY DEF WorldStep, World, SessionIdles, SessionPrompted, SessionGoes, TranscriptExpires,
         InstanceAges, vars, worldVars, reapVars, resumeVars, destroyVars, dispatchVars
<1>3. Unnamed(d)'
  <2>1. (Opened(d)' <=> Opened(d)) /\ (Launched(d)' <=> Launched(d))
    BY <1>2 DEF Opened, Launched
  <2> QED BY <1>1, <1>2, <2>1 DEF Unnamed
<1>4. ~Launched(d) => aged'[TokenPath[d]] = aged[TokenPath[d]]
  <2>1. ASSUME NEW p \in Path, InstanceAges(p), ~Launched(d)
        PROVE  p # TokenPath[d]
    BY <1>1, <2>1 DEF InstanceAges, Launched, Fresher
  <2> QED BY <1>1, <2>1
          DEF WorldStep, World, SessionIdles, SessionPrompted, SessionGoes, TranscriptExpires,
              InstanceAges, vars, worldVars
<1>5. Fresher(d)'
  BY <1>1, <1>2, <1>4 DEF Fresher, Launched
<1> QED BY <1>3, <1>5

LEMMA CrashKeepsTraces ==
    ASSUME Kept, Traced, NEW x \in Proc, Crash(x), NEW d \in Dispatcher
    PROVE  Unnamed(d)' /\ Fresher(d)'
<1> DEFINE p == TokenPath[d]
<1>1. /\ Unnamed(d) /\ Fresher(d) /\ p \in Path /\ p # None /\ d \in Proc
      /\ DOMAIN pc = Proc /\ at \in [Proc -> Path \cup {None}]
  BY DEF Kept, Traced, Typed, TypeOK, StoreTypeOK, Proc
<1>2. /\ \A y \in Proc \ {x} : pc'[y] = pc[y] /\ at'[y] = at[y]
      /\ at'[x] = None
      /\ x \in Dispatcher => pc'[x] = "done"
      /\ pc[x] \notin {"start", "done"}
      /\ UNCHANGED <<disk, aged, mapping, launch, resumeVars, destroyVars>>
      /\ UNCHANGED <<lineage, authority, worker>>
      /\ \A r \in Reaper : queue'[r] \subseteq queue[r] /\ task'[r] \in {task[r], NoTask}
  BY <1>1 DEF Crash, Goto, fileVars, Proc
<1>3. (Opened(d) => Opened(d)') /\ (Launched(d) => Launched(d)') /\ (pc[d] = "done" => pc'[d] = "done")
  BY <1>1, <1>2 DEF Opened, Launched, dispatchVars
<1>4. pc'[d] \in {pc[d], "done"}
  BY <1>1, <1>2
<1> HIDE DEF p
<1>5. Unnamed(d)'
  <2>1. /\ \A s \in Session : mapping'[s].path = p => Opened(d)'
        /\ launch'[p] # None => Opened(d)' /\ pc'[d] = "done"
    BY <1>1, <1>2, <1>3 DEF Unnamed, p
  <2>2. \A v \in Resumer : /\ at'[v] = p => Opened(d)' /\ pc'[d] = "done"
                           /\ prev'[v].path = p => Opened(d)'
    BY <1>1, <1>2, <1>3 DEF Unnamed, p, resumeVars, Proc
  <2>3. \A r \in Reaper : \A t \in queue'[r] \cup {task'[r]} :
            (t.path = p => Launched(d)') /\ (t.m.path = p => Opened(d)')
    <3>1. NoTask.path # p /\ NoTask.m.path # p
      BY <1>1 DEF NoTask, NoMapping
    <3> QED BY <1>1, <1>2, <1>3, <3>1 DEF Unnamed, p
  <2>4. \A e \in Destroyer :
            /\ at'[e] = p => pc'[d] \notin {"start", "provision"}
            /\ \A m \in owners'[e] \cup {owner'[e]} : m.path = p => Opened(d)'
    BY <1>1, <1>2, <1>3, <1>4 DEF Unnamed, p, destroyVars, Proc
  <2> QED BY <2>1, <2>2, <2>3, <2>4 DEF Unnamed, p
<1>6. Fresher(d)'
  BY <1>1, <1>2, <1>4 DEF Fresher, Launched, p, dispatchVars
<1> QED BY <1>5, <1>6

LEMMA NextKeepsTraces ==
    ASSUME Kept, Traced, [Next]_vars
    PROVE  Traced'
<1> SUFFICES ASSUME NEW d \in Dispatcher PROVE Unnamed(d)' /\ Fresher(d)'
  BY DEF Traced
<1>1. CASE \E r \in Reaper : Reaps(r)
  BY <1>1, ReapKeepsTraces
<1>2. CASE \E u \in Resumer : Resumes(u)
  BY <1>2, ResumeKeepsTraces
<1>3. CASE \E e \in Destroyer : Destroys(e)
  BY <1>3, DestroyKeepsTraces
<1>4. CASE \E e \in Dispatcher : Dispatches(e)
  BY <1>4, OtherDispatchKeepsTraces, DispatchKeepsItsTraces
<1>5. CASE WorldStep \/ UNCHANGED vars
  BY <1>5, WorldKeepsTraces
<1>6. CASE \E x \in Proc : Crash(x)
  BY <1>6, CrashKeepsTraces
<1> QED BY <1>1, <1>2, <1>3, <1>4, <1>5, <1>6 DEF Next

LEMMA InitIsTraced == Init => Traced
<1> SUFFICES ASSUME Init, NEW d \in Dispatcher PROVE Unnamed(d) /\ Fresher(d)
  BY DEF Traced
<1> DEFINE p == TokenPath[d]
<1>1. p \in Path /\ p \in Fresh /\ p # None /\ d \in Proc /\ d \notin Reaper
  BY DEF Fresh, Proc
<1>2. pc[d] = "start" /\ disk[p] = "absent" /\ ~aged[p] /\ \A s \in Session : home[s] # p
  BY <1>1 DEF Init
<1>3. \A s \in Session : mapping[s].path # p
  BY <1>1, <1>2 DEF Init, NoMapping
<1>4. launch[p] = None
  BY <1>1, <1>2 DEF Init
<1>5. /\ \A x \in Proc : at[x] = None
      /\ \A r \in Reaper : queue[r] = {} /\ task[r] = NoTask
      /\ \A u \in Resumer : prev[u] = NoMapping
      /\ \A e \in Destroyer : owners[e] = {} /\ owner[e] = NoMapping
  BY DEF Init
<1>6. NoMapping.path # p /\ NoTask.path # p /\ NoTask.m.path # p
  BY <1>1 DEF NoMapping, NoTask
<1>7. Unnamed(d)
  BY <1>1, <1>3, <1>4, <1>5, <1>6 DEF Unnamed, Proc
<1> QED BY <1>2, <1>7 DEF Fresher

-----------------------------------------------------------------------------
(* What the lock of an instance keeps as it is. *)

LEMMA LaunchedStays ==
    ASSUME Typed, [Next]_vars, NEW d \in Dispatcher, Launched(d)
    PROVE  Launched(d)'
<1>1. d \in Proc /\ d \notin Reaper \cup Resumer \cup Destroyer /\ DOMAIN pc = Proc
  BY DEF Proc, Typed, TypeOK
<1>2. CASE Dispatches(d)
  BY <1>2, DispatchGoesOn
<1>3. CASE \E x \in Proc : Crash(x)
  BY <1>1, <1>3 DEF Crash, Goto, Launched
<1>4. CASE WorldStep \/ UNCHANGED vars
  BY <1>4 DEF WorldStep, vars, Launched
<1>5. ASSUME NEW x \in Proc \ {d}, Alone(x)
      PROVE  Launched(d)'
  BY <1>1, <1>5 DEF Alone, Launched
<1> QED BY <1>1, <1>2, <1>3, <1>4, <1>5, ReapMovesItself, ResumeMovesItself,
           DestroyMovesItself, DispatchMovesItself DEF Next, Proc

(* A session gets a home, or comes back after it was over, only by being   *)
(* launched, by a resume or by a dispatch.                                 *)
LEMMA OnlyLaunchesPopulate ==
    ASSUME Typed, [Next]_vars, NEW s \in Session,
           home'[s] # home[s] \/ (Over(s) /\ ~Over(s)')
    PROVE  \/ \E u \in Resumer : LaunchWorker(u, s)
           \/ \E d \in Dispatcher : LaunchDispatched(d, s)
<1> USE DEF worldVars, fileVars, Over, Listed
<1>1. sess \in [Session -> SessionState] /\ home \in [Session -> Path \cup {None}]
  BY DEF Typed, TypeOK, StoreTypeOK
<1>2. ASSUME NEW r \in Reaper, Reaps(r)
      PROVE  FALSE
  BY <1>2 DEF Reaps, ReapStep, SelectMapped, SelectBackstop, FinishSweep, TakeTask, SpareHeld,
              Recheck, Spare, DestroyTarget, DestroyTargetFails, RunOnReap, SettleMapping
<1>3. ASSUME NEW u \in Resumer, Resumes(u)
      PROVE  LaunchWorker(u, s)
  <2>1. CASE \E t \in Session : LaunchWorker(u, t)
    BY <1>1, <2>1 DEF LaunchWorker
  <2> QED BY <1>3, <2>1
          DEF Resumes, ResumeStep, ResolveRecord, TakeResumeLock, RefuseHeld, PassChecks,
              Refuse, BeginRestore, Restore, RestoreFails, WriteMapping, MappingFails,
              LaunchFails, Unmap, Rollback, CaptureFails, Capture, DropOldMapping, Finish
<1>4. ASSUME NEW d \in Destroyer, Destroys(d)
      PROVE  FALSE
  <2>1. CASE \E m \in owners[d] : RemoveOwner(d, m)
    BY <1>1, <2>1 DEF RemoveOwner
  <2> QED BY <1>4, <2>1
          DEF Destroys, DestroyStep, ChooseInstance, TakeDestroyLock, DestroyRefusesHeld,
              ListSessions, PassPreflight, SomethingKeeps, Confirm, Abort, ReadOwners,
              NoOwners, KeepRunningOwner, OwnerAlreadyGone, RemoveOwnerFails, OwnersDone,
              RunOwnerOnReap, SettleOwner, RemoveInstance
<1>5. ASSUME NEW d \in Dispatcher, Dispatches(d)
      PROVE  LaunchDispatched(d, s)
  <2>1. ASSUME NEW t \in Session, LaunchDispatched(d, t)
        PROVE  LaunchDispatched(d, s)
    <3>1. \A q \in Session \ {t} : sess'[q] = sess[q] /\ home'[q] = home[q]
      BY <1>1, <2>1 DEF LaunchDispatched
    <3>2. s = t
      BY <3>1
    <3> QED BY <2>1, <3>2
  <2>2. CASE TurnEnds(d)
    BY <1>1, <2>2 DEF TurnEnds
  <2> QED BY <1>5, <2>1, <2>2
          DEF Exit, Dispatches, DispatchStep, BeginProvision, Provision, ProvisionFails,
              WriteAuthority, CreateLineage, EarlyFailure, CaptureDispatched, CannotMap,
              WriteDispatchMapping, WriteLaunchRecord, WriteRetainMarker, RetainMarkerFails,
              RollbackDispatch
<1>6. CASE WorldStep \/ UNCHANGED vars
  <2>1. ASSUME NEW t \in Session, \/ SessionIdles(t) \/ SessionPrompted(t)
                                  \/ SessionGoes(t) \/ TranscriptExpires(t)
        PROVE  FALSE
    BY <1>1, <2>1 DEF SessionIdles, SessionPrompted, SessionGoes, TranscriptExpires
  <2> QED BY <1>6, <2>1 DEF WorldStep, World, InstanceAges, vars
<1>7. CASE \E x \in Proc : Crash(x)
  BY <1>7 DEF Crash
<1> QED BY <1>2, <1>3, <1>4, <1>5, <1>6, <1>7 DEF Next

(* While a reap or a destroy holds an instance whose dispatch, if it has   *)
(* one, has launched its worker, no session moves in and none that is over *)
(* comes back.                                                             *)
LEMMA NobodyAppears ==
    ASSUME Kept, [Next]_vars, NEW x \in Reaper \cup Destroyer, Holding(x),
           NEW p \in Path, at[x] = p,
           \A d \in Dispatcher : TokenPath[d] = p => Launched(d)
    PROVE  /\ \A s \in Session : home'[s] = p => home[s] = p
           /\ \A s \in Session : home[s] = p /\ Over(s) => Over(s)'
           /\ RecordsAt(p)' \subseteq RecordsAt(p) \cup ActivitySession
<1>1. Typed /\ Homed /\ x \in Proc
  BY DEF Kept, Proc
<1>2. ASSUME NEW u \in Resumer, NEW s \in Session, LaunchWorker(u, s)
      PROVE  home[s] # p /\ home'[s] # p
  <2>1. u \in Proc /\ Holding(u) /\ u # x /\ at[u] # p
    <3>1. u \in Proc /\ Holding(u) /\ u # x
      BY <1>2 DEF LaunchWorker, Holding, Proc
    <3> QED BY <1>1, <3>1 DEF Kept, LockIsHeldByItsActor
  <2>2. home[rec[u]] = at[u] /\ (s = rec[u] \/ sess[s] = "unborn") /\ home'[s] = at[u]
    BY <1>1, <1>2 DEF LaunchWorker, Homed, ResumeHomed, Typed, TypeOK, StoreTypeOK
  <2> QED BY <1>1, <2>1, <2>2 DEF Homed, SessionHomed
<1>3. ASSUME NEW d \in Dispatcher, NEW s \in Session, LaunchDispatched(d, s)
      PROVE  home[s] # p /\ home'[s] # p
  <2>1. at[d] = TokenPath[d] /\ ~Launched(d)
    BY <1>1, <1>3 DEF LaunchDispatched, Homed, DispatchHomed, Launched
  <2>2. home[s] = None /\ home'[s] = at[d]
    BY <1>1, <1>3 DEF LaunchDispatched, Homed, SessionHomed, Typed, TypeOK, StoreTypeOK
  <2> QED BY <2>1, <2>2
<1>4. \A s \in Session : home'[s] = p => home[s] = p
  BY <1>1, <1>2, <1>3, OnlyLaunchesPopulate
<1>5. \A s \in Session : home[s] = p /\ Over(s) => Over(s)'
  BY <1>1, <1>2, <1>3, OnlyLaunchesPopulate
<1>6. RecordsAt(p)' \subseteq RecordsAt(p) \cup ActivitySession
  BY <1>4, <1>5 DEF RecordsAt, Over
<1> QED BY <1>4, <1>5, <1>6

(* While a command holds an instance and stands still, and its dispatch,   *)
(* if it has one, has nothing more to map or to remove, what is at its     *)
(* path and the mappings that name it stay.                                *)
LEMMA HeldStays ==
    ASSUME Kept, [Next]_vars, NEW x \in Reaper \cup Resumer \cup Destroyer, Holding(x),
           pc'[x] = pc[x], NEW p \in Path, at[x] = p,
           \A d \in Dispatcher : TokenPath[d] = p => pc[d] \in {"record", "done"}
    PROVE  /\ disk'[p] = disk[p]
           /\ \A s \in Session : home[s] = p => mapping'[s] = mapping[s]
           /\ MappedTo(p)' = MappedTo(p)
<1> DEFINE Stays == /\ disk'[p] = disk[p]
                    /\ \A s \in Session : mapping'[s] # mapping[s] => home[s] \in Path \ {p}
<1>1. Typed /\ Homed /\ Homed' /\ HomesStay /\ x \in Proc
  BY NextKeepsHomes DEF Kept, Proc
<1>2. ASSUME NEW q \in Path \ {p}, ChangesOnly(q)
      PROVE  Stays
  BY <1>2 DEF ChangesOnly
<1>3. ASSUME NEW y \in Reaper \cup Resumer \cup Destroyer,
             \/ UNCHANGED <<disk, mapping>>
             \/ Holding(y) /\ pc'[y] # pc[y] /\ ChangesOnly(at[y])
      PROVE  Stays
  <2>1. CASE Holding(y) /\ pc'[y] # pc[y] /\ ChangesOnly(at[y])
    <3>1. y \in Proc /\ at[y] \in Path /\ y # x
      BY <1>1, <2>1 DEF Typed, Placed, Holding, Proc
    <3>2. at[y] # p
      BY <1>1, <2>1, <3>1 DEF Kept, LockIsHeldByItsActor
    <3> QED BY <1>2, <2>1, <3>1, <3>2
  <2> QED BY <1>3, <2>1
<1>4. ASSUME NEW d \in Dispatcher, Dispatches(d)
      PROVE  Stays
  <2>1. CASE TokenPath[d] # p
    <3>1. TokenPath[d] \in Path
      OBVIOUS
    <3> QED BY <1>1, <1>2, <1>4, <2>1, <3>1, DispatchChangesItsOwn
  <2>2. CASE TokenPath[d] = p
    <3>1. pc[d] \in {"record", "done"} /\ DispatchStep(d)
      BY <1>4, <2>2 DEF Dispatches
    <3>2. UNCHANGED <<disk, mapping>>
      BY <3>1
         DEF Exit, DispatchStep, BeginProvision, Provision, ProvisionFails, WriteAuthority,
             CreateLineage, EarlyFailure, LaunchDispatched, TurnEnds, CaptureDispatched,
             CannotMap, WriteDispatchMapping, WriteLaunchRecord, WriteRetainMarker,
             RetainMarkerFails, RollbackDispatch
    <3> QED BY <3>2
  <2> QED BY <2>1, <2>2
<1>5. Stays
  <2>1. CASE WorldStep \/ UNCHANGED vars \/ \E y \in Proc : Crash(y)
    BY <2>1 DEF WorldStep, World, SessionIdles, SessionPrompted, SessionGoes,
                TranscriptExpires, InstanceAges, Crash, vars, worldVars, fileVars
  <2>2. CASE \E r \in Reaper : Reaps(r)
    BY <1>1, <1>3, <2>2, ReapChangesItsOwn
  <2>3. CASE \E u \in Resumer : Resumes(u)
    BY <1>1, <1>3, <2>3, ResumeChangesItsOwn
  <2>4. CASE \E d \in Destroyer : Destroys(d)
    BY <1>1, <1>3, <2>4, DestroyChangesItsOwn
  <2> QED BY <1>4, <2>1, <2>2, <2>3, <2>4 DEF Next
<1>6. ASSUME NEW s \in Session
      PROVE  s \in MappedTo(p)' <=> s \in MappedTo(p)
  <2>1. CASE mapping'[s] = mapping[s]
    BY <2>1 DEF MappedTo, Mapped
  <2>2. CASE mapping'[s] # mapping[s]
    <3>1. home[s] # p /\ home'[s] # p
      BY <1>1, <1>5, <2>2 DEF HomesStay
    <3> QED BY <1>1, <3>1 DEF MappedTo, Mapped, Homed, SessionHomed
  <2> QED BY <2>1, <2>2
<1> QED BY <1>5, <1>6 DEF MappedTo, Mapped

-----------------------------------------------------------------------------
(* What a reap has read again holds until it has acted on it.              *)

LEMMA ReapRereadStands ==
    ASSUME Kept, Traced, [Next]_vars, NEW r \in Reaper, ReapReread(r),
           pc'[r] = pc[r], at'[r] = at[r], task'[r] = task[r], queue'[r] = queue[r]
    PROVE  ReapReread(r)'
<1>1. r \in Proc /\ Typed /\ Homed /\ task[r] \in Task \cup {NoTask}
  BY DEF Kept, Proc, Typed, TypeOK, ReapTypeOK
<1>2. CASE ~Holding(r)
  <2>1. pc[r] \notin {"destroy", "run", "settle"}
    BY <1>2 DEF Holding
  <2> QED BY <2>1 DEF ReapReread
<1>3. CASE Holding(r)
  <2> DEFINE p == at[r]
  <2>1. /\ p \in Path /\ p = task[r].path
        /\ Keeps(task[r].m, p) /\ task[r] \in Task
    BY <1>1, <1>3 DEF Typed, Placed, Homed, ReapHomed, NoTask
  <2>2. \A d \in Dispatcher : TokenPath[d] = p => Launched(d)
    BY <2>1 DEF Traced, Unnamed
  <2> HIDE DEF p
  <2>3. /\ \A s \in Session : home[s] = p /\ Over(s) => Over(s)'
        /\ RecordsAt(p)' \subseteq RecordsAt(p) \cup ActivitySession
    BY <1>3, <2>1, <2>2, NobodyAppears DEF p
  <2>4. pc[r] = "destroy" => RecordsAt(at[r])' \subseteq ActivitySession
    BY <2>3 DEF ReapReread, p
  <2>5. ASSUME pc[r] \in {"destroy", "run", "settle"}, task[r].kind # "backstop"
        PROVE  task[r].m \in Mapping /\ task[r].m.sess \in Session
               /\ task[r].m.path = p /\ home[task[r].m.sess] = p
    BY <2>1, <2>5 DEF ReapReread, Keeps, Task, Mapping
  <2>6. pc[r] \in {"destroy", "run"} /\ task[r].kind # "backstop" => Over(task[r].m.sess)'
    BY <2>3, <2>5 DEF ReapReread
  <2>7. ASSUME pc[r] \in {"run", "settle"}, task[r].kind = "stored"
        PROVE  mapping'[task[r].m.sess] = task[r].m
    <3>1. mapping[task[r].m.sess] = task[r].m
      BY <2>7 DEF ReapReread
    <3>2. \A d \in Dispatcher : TokenPath[d] = p => pc[d] \in {"record", "done"}
      BY <2>5, <2>7, <3>1 DEF Traced, Unnamed, Opened
    <3> QED BY <1>3, <2>1, <2>5, <2>7, <3>1, <3>2, HeldStays DEF p
  <2> QED BY <2>4, <2>6, <2>7 DEF ReapReread, Over
<1> QED BY <1>2, <1>3

LEMMA ReapRereads ==
    ASSUME Kept, NEW r \in Reaper, Reaps(r), ReapReread(r)
    PROVE  ReapReread(r)'
<1>1. /\ ReapStep(r) /\ r \in Proc /\ DOMAIN pc = Proc
      /\ queue \in [Reaper -> SUBSET Task] /\ task \in [Reaper -> Task \cup {NoTask}]
  BY DEF Reaps, Kept, Typed, TypeOK, ReapTypeOK, Proc
<1> DEFINE Whole(t) == t.kind \in {"target", "stored"} => t.m # NoMapping
<1>2. \A t \in queue[r] \cup {task[r]} : Whole(t)
  BY DEF ReapReread
<1>3. Whole(NoTask)
  BY DEF NoTask
<1>4. \A t \in queue'[r] \cup {task'[r]} : Whole(t)
  <2>1. CASE SelectMapped(r)
    <3>1. \A t \in StoredTargets : Whole(t)
      BY DEF StoredTargets, Mapped
    <3>2. \A pick \in JoinByPath : \A t \in ReapTargets(pick) : Whole(t)
      BY DEF ReapTargets, JoinByPath, MappedTo, Mapped
    <3>3. /\ \E pick \in JoinByPath : queue'[r] = ReapTargets(pick) \cup StoredTargets
          /\ task'[r] = task[r]
      BY <1>1, <2>1 DEF SelectMapped
    <3> HIDE DEF Whole
    <3> QED BY <1>2, <3>1, <3>2, <3>3
  <2>2. CASE SelectBackstop(r)
    <3>1. \A t \in BackstopTargets : Whole(t)
      BY DEF BackstopTargets
    <3>2. queue'[r] = BackstopTargets /\ task'[r] = task[r]
      BY <1>1, <2>2 DEF SelectBackstop
    <3> HIDE DEF Whole
    <3> QED BY <1>2, <3>1, <3>2
  <2>3. CASE ~SelectMapped(r) /\ ~SelectBackstop(r)
    <3>1. queue'[r] \subseteq queue[r] /\ task'[r] \in queue[r] \cup {task[r], NoTask}
      BY <1>1, <2>3
         DEF ReapStep, FinishSweep, TakeTask, SpareHeld, Recheck, Spare, DestroyTarget,
             DestroyTargetFails, RunOnReap, SettleMapping, LeaveTask
    <3> HIDE DEF Whole
    <3> QED BY <1>2, <1>3, <3>1
  <2> QED BY <2>1, <2>2, <2>3
<1> DEFINE Acted == /\ pc[r] \in {"run", "settle"} => task[r].kind \in {"target", "stored"}
                    /\ pc[r] = "destroy" => RecordsAt(at[r]) \subseteq ActivitySession
                    /\ pc[r] \in {"destroy", "run"} /\ task[r].kind # "backstop"
                           => Over(task[r].m.sess)
                    /\ pc[r] \in {"run", "settle"} /\ task[r].kind = "stored"
                           => mapping[task[r].m.sess] = task[r].m
<1>5. Acted
  BY DEF ReapReread
<1>6. Acted'
  <2> USE DEF Goto, worldVars, fileVars
  <2>1. CASE pc'[r] \notin {"destroy", "run", "settle"}
    BY <2>1
  <2>2. CASE Recheck(r)
    <3>1. /\ UNCHANGED <<worldVars, at, task>> /\ StillJustified(task[r])
          /\ pc'[r] = IF task[r].kind = "stored" THEN "run" ELSE "destroy"
      BY <1>1, <2>2 DEF Recheck
    <3>2. at[r] \in Path /\ at[r] = task[r].path
      BY <2>2 DEF Recheck, Holding, Kept, Typed, Placed, Homed, ReapHomed
    <3>3. task[r].kind \in {"target", "stored", "backstop"}
      BY <1>1, <3>2 DEF Task, NoTask
    <3>4. CASE task[r].kind = "target"
      <4>1. Verdict(task[r].m.sess, task[r].path) = "gone" /\ RecordsAt(at[r]) = {}
        BY <3>1, <3>2, <3>4 DEF StillJustified, Rooted
      <4>2. Over(task[r].m.sess)'
        BY <3>1, <4>1 DEF Verdict, Over
      <4>3. RecordsAt(at[r])' = {}
        BY <3>1, <4>1 DEF RecordsAt
      <4> QED BY <3>1, <3>4, <4>2, <4>3
    <3>5. CASE task[r].kind = "stored"
      BY <3>1, <3>5 DEF StillJustified, Verdict, Over
    <3>6. CASE task[r].kind = "backstop"
      <4>1. RecordsAt(at[r]) = {}
        BY <3>1, <3>2, <3>6 DEF StillJustified, Rooted
      <4>2. RecordsAt(at[r])' = {}
        BY <3>1, <4>1 DEF RecordsAt
      <4> QED BY <3>1, <3>6, <4>2
    <3> QED BY <3>3, <3>4, <3>5, <3>6
  <2>3. CASE DestroyTarget(r) /\ pc'[r] = "run"
    <3>1. task[r].kind = "target" /\ UNCHANGED <<sess, at, task>> /\ pc[r] = "destroy"
      BY <1>1, <2>3 DEF DestroyTarget, LeaveTask
    <3> QED BY <1>5, <2>3, <3>1 DEF Over
  <2>4. CASE RunOnReap(r)
    BY <1>1, <1>5, <2>4 DEF RunOnReap, Over
  <2>5. \/ pc'[r] \notin {"destroy", "run", "settle"}
        \/ Recheck(r) \/ (DestroyTarget(r) /\ pc'[r] = "run") \/ RunOnReap(r)
    <3>1. CASE DestroyTarget(r)
      BY <1>1, <3>1 DEF DestroyTarget, LeaveTask
    <3>2. CASE \E t \in queue[r] : TakeTask(r, t) \/ SpareHeld(r, t)
      BY <1>1, <3>2 DEF TakeTask, SpareHeld
    <3> QED BY <1>1, <3>1, <3>2
            DEF ReapStep, SelectMapped, SelectBackstop, FinishSweep, Spare,
                DestroyTargetFails, SettleMapping, LeaveTask
  <2> QED BY <2>1, <2>2, <2>3, <2>4, <2>5
<1> QED BY <1>4, <1>6 DEF ReapReread

-----------------------------------------------------------------------------
(* A resume's instance stays. *)

KeepsItsInstance(u) == pc[u] \in {"map", "start worker"} => disk[at[u]] = "instance"

LEMMA KeptInstanceStands ==
    ASSUME Kept, Traced, [Next]_vars, NEW u \in Resumer, KeepsItsInstance(u),
           pc'[u] = pc[u], at'[u] = at[u]
    PROVE  KeepsItsInstance(u)'
<1> SUFFICES ASSUME pc[u] \in {"map", "start worker"} PROVE disk'[at[u]] = "instance"
  BY DEF KeepsItsInstance
<1>1. Holding(u) /\ at[u] \in Path
  BY DEF Holding, Kept, Typed, Placed
<1>2. \A d \in Dispatcher : TokenPath[d] = at[u] => pc[d] \in {"record", "done"}
  BY DEF Traced, Unnamed
<1> QED BY <1>1, <1>2, HeldStays DEF KeepsItsInstance

LEMMA ResumeKeepsIt ==
    ASSUME Typed, NEW u \in Resumer, Resumes(u), KeepsItsInstance(u)
    PROVE  KeepsItsInstance(u)'
<1> USE DEF Goto, Return, worldVars, fileVars, resumeVars
<1>1. /\ ResumeStep(u) /\ u \in Proc /\ DOMAIN pc = Proc
      /\ disk \in [Path -> {"absent", "instance", "husk"}]
      /\ pc[u] \notin {"start", "done"} => at[u] \in Path
  BY DEF Resumes, Typed, TypeOK, StoreTypeOK, Placed, Proc
<1>2. CASE PassChecks(u) \/ Restore(u) \/ WriteMapping(u)
  BY <1>1, <1>2 DEF PassChecks, Restore, WriteMapping, KeepsItsInstance
<1>3. pc'[u] \notin {"map", "start worker"} \/ PassChecks(u) \/ Restore(u) \/ WriteMapping(u)
  BY <1>1
     DEF ResumeStep, ResolveRecord, TakeResumeLock, RefuseHeld, Refuse, BeginRestore,
         RestoreFails, MappingFails, LaunchWorker, LaunchFails, Unmap, Rollback, CaptureFails,
         Capture, DropOldMapping, Finish
<1> QED BY <1>2, <1>3 DEF KeepsItsInstance

-----------------------------------------------------------------------------
(* What a destroy has heard stays true until it has acted on it.           *)

LEMMA SoundStays ==
    ASSUME Kept, [Next]_vars, NEW d \in Destroyer, Holding(d), NEW p \in Path, at[d] = p,
           Sound(listing[d], p)
    PROVE  Sound(listing[d], p)'
           \/ listing'[d] # listing[d]
<1> SUFFICES ASSUME listing'[d] = listing[d] PROVE Sound(listing[d], p)'
  OBVIOUS
<1>1. CASE listing[d].state = "not read"
  BY <1>1 DEF Sound
<1>2. CASE listing[d].state # "not read"
  <2>1. \A e \in Dispatcher : TokenPath[e] = p => Launched(e)
    BY <1>2 DEF Sound
  <2>2. \A e \in Dispatcher : TokenPath[e] = p => Launched(e)'
    BY <2>1, LaunchedStays DEF Kept
  <2>3. /\ \A s \in Session : home'[s] = p => home[s] = p
        /\ \A s \in Session : home[s] = p /\ Over(s) => Over(s)'
    BY <2>1, NobodyAppears
  <2> QED BY <1>2, <2>2, <2>3 DEF Sound
<1> QED BY <1>1, <1>2

LEMMA DestroyHeardStands ==
    ASSUME Kept, Traced, [Next]_vars, NEW d \in Destroyer, DestroyHeard(d),
           pc'[d] = pc[d], at'[d] = at[d], listing'[d] = listing[d],
           owners'[d] = owners[d], owner'[d] = owner[d]
    PROVE  DestroyHeard(d)'
<1>1. CASE ~Holding(d)
  BY <1>1 DEF DestroyHeard, Holding
<1>2. CASE Holding(d)
  <2> DEFINE p == at[d]
  <2>1. p \in Path /\ Sound(listing[d], p)
    BY <1>2 DEF DestroyHeard, Kept, Typed, Placed, Holding, Proc
  <2>2. Sound(listing[d], at[d])'
    <3> HIDE DEF p
    <3>1. Sound(listing[d], p)'
      BY <1>2, <2>1, SoundStays DEF p
    <3> QED BY <3>1 DEF Sound, p
  <2>3. pc[d] = "run" => Over(owner[d].sess)'
    <3> SUFFICES ASSUME pc[d] = "run" PROVE Over(owner[d].sess)'
      OBVIOUS
    <3>1. /\ owner[d] # NoMapping /\ Over(owner[d].sess) /\ listing[d].state = "read"
          /\ owner[d] \in Mapping \cup {NoMapping} /\ Keeps(owner[d], p)
      BY <1>2 DEF DestroyHeard, Kept, Typed, TypeOK, DestroyTypeOK, Homed, DestroyHomed
    <3>2. owner[d].sess \in Session /\ home[owner[d].sess] = p
      BY <3>1 DEF Keeps, Mapping
    <3>3. \A e \in Dispatcher : TokenPath[e] = p => Launched(e)
      BY <2>1, <3>1 DEF Sound
    <3>4. \A s \in Session : home[s] = p /\ Over(s) => Over(s)'
      BY <1>2, <2>1, <3>3, NobodyAppears
    <3>5. Over(owner[d].sess)' <=> (owner[d].sess \in ActivitySession
                                    \/ sess'[owner[d].sess] \notin Listed)
      BY DEF Over
    <3> QED BY <3>1, <3>2, <3>4, <3>5 DEF Over
  <2> QED BY <1>2, <2>2, <2>3 DEF DestroyHeard, Holding
<1> QED BY <1>1, <1>2

(* What the one listing says now is sound, for an instance that is mapped. *)
LEMMA ListingsAreSound ==
    ASSUME Traced, NEW d \in Destroyer, NEW p \in Path, OwningMappings(p) # {},
           Sound(listing[d], p), listing[d] \in Listing, NEW l \in ListingNow(d)
    PROVE  Sound(l, p) /\ l.state \in {"failed", "read"}
<1>1. \A e \in Dispatcher : TokenPath[e] = p => Launched(e)
  BY DEF OwningMappings, MappedTo, Mapped, Traced, Unnamed, Opened, Launched
<1>2. CASE listing[d].state # "not read"
  BY <1>2 DEF ListingNow, Listing
<1>3. CASE listing[d].state = "not read"
  <2>1. CASE l = [state |-> "failed", running |-> {}, stopped |-> {}]
    BY <1>1, <2>1 DEF Sound
  <2>2. CASE l = [state |-> "read",
                  running |-> {s \in Session \ ActivitySession : sess[s] = "running"},
                  stopped |-> {s \in Session \ ActivitySession : sess[s] = "idle"}]
    <3>1. /\ l.state = "read"
          /\ l.running = {s \in Session \ ActivitySession : sess[s] = "running"}
          /\ l.stopped = {s \in Session \ ActivitySession : sess[s] = "idle"}
      BY <2>2
    <3> QED BY <1>1, <3>1 DEF Sound, Over, Listed
  <2> QED BY <1>3, <2>1, <2>2 DEF ListingNow
<1> QED BY <1>2, <1>3

LEMMA DestroyHears ==
    ASSUME Kept, Traced, NEW d \in Destroyer, Destroys(d), DestroyHeard(d)
    PROVE  DestroyHeard(d)'
<1> USE DEF Goto, Return, worldVars, fileVars, destroyVars
<1>1. /\ DestroyStep(d) /\ d \in Proc /\ DOMAIN pc = Proc
      /\ listing \in [Destroyer -> Listing]
      /\ owners \in [Destroyer -> SUBSET Mapping]
      /\ owner \in [Destroyer -> Mapping \cup {NoMapping}]
      /\ sess \in [Session -> SessionState]
      /\ pc[d] \notin {"start", "done"} => at[d] \in Path
      /\ Holding(d) <=> pc[d] \notin {"start", "resolved", "done"}
      /\ Holding(d)' <=> pc'[d] \notin {"start", "resolved", "done"}
  BY DEF Destroys, Kept, Typed, TypeOK, StoreTypeOK, DestroyTypeOK, Placed, Holding, Proc
<1>2. \A e \in Dispatcher : Launched(e)' <=> Launched(e)
  BY DestroyMovesItself DEF Kept, Alone, Launched, Proc
<1>3. [Next]_vars
  BY DEF Next
<1>4. ASSUME NEW l, NEW p, Sound(l, p), UNCHANGED <<home, sess>>
      PROVE  /\ l.state = "read" =>
                   \A s \in Session \ ActivitySession :
                       home'[s] = p /\ s \notin l.running \cup l.stopped => Over(s)'
             /\ l.state # "not read" => \A e \in Dispatcher : TokenPath[e] = p => Launched(e)'
             /\ l.running \cap ActivitySession = {}
             /\ l.state # "read" => l.running = {}
  BY <1>2, <1>4 DEF Sound, Over
<1>5. CASE \E p \in Path : ChooseInstance(d, p)
  BY <1>1, <1>5 DEF ChooseInstance, DestroyHeard
<1>6. CASE TakeDestroyLock(d)
  <2>1. listing'[d] = NotRead /\ pc'[d] = "list"
    BY <1>1, <1>6 DEF TakeDestroyLock, DestroyHeard
  <2>2. NotRead.state = "not read" /\ NotRead.running = {}
    BY DEF NotRead
  <2>3. Sound(listing[d], at[d])'
    BY <2>1, <2>2 DEF Sound
  <2> QED BY <2>1, <2>3 DEF DestroyHeard
<1>7. CASE DestroyRefusesHeld(d) \/ SomethingKeeps(d) \/ Abort(d) \/ RemoveInstance(d)
  <2>1. pc'[d] = "done"
    BY <1>1, <1>7 DEF DestroyRefusesHeld, SomethingKeeps, Abort, RemoveInstance
  <2> QED BY <1>1, <2>1 DEF DestroyHeard
<1>8. CASE ListSessions(d) \/ ReadOwners(d)
  <2>1. /\ UNCHANGED <<home, sess, at>> /\ Holding(d) /\ at[d] \in Path
        /\ pc'[d] \in {"keep?", "each"}
    BY <1>1, <1>8 DEF ListSessions, ReadOwners
  <2>2. Sound(listing[d], at[d])
    BY <2>1 DEF DestroyHeard
  <2>3. Sound(listing'[d], at[d]) /\ (pc'[d] = "each" => owners'[d] = {} \/ listing'[d].state = "read")
    <3>1. CASE ListSessions(d) /\ OwningMappings(at[d]) = {}
      BY <1>1, <2>2, <3>1 DEF ListSessions
    <3>2. CASE ListSessions(d) /\ OwningMappings(at[d]) # {}
      <4>1. listing'[d] \in ListingNow(d) /\ pc'[d] = "keep?"
        BY <1>1, <3>2 DEF ListSessions
      <4> QED BY <1>1, <2>1, <2>2, <3>2, <4>1, ListingsAreSound
    <3>3. CASE ReadOwners(d)
      <4>1. PICK l \in ListingNow(d) :
                /\ listing' = [listing EXCEPT ![d] = l]
                /\ owners' = [owners EXCEPT ![d] =
                       IF l.state = "failed" THEN {} ELSE OwningMappings(at[d])]
        BY <3>3 DEF ReadOwners
      <4>2. Sound(l, at[d]) /\ l.state \in {"failed", "read"}
        BY <1>1, <2>1, <2>2, <3>3, ListingsAreSound DEF ReadOwners
      <4> QED BY <1>1, <4>1, <4>2
    <3> QED BY <1>8, <3>1, <3>2, <3>3
  <2>4. Sound(listing[d], at[d])'
    BY <1>4, <2>1, <2>3 DEF Sound
  <2> QED BY <2>1, <2>3, <2>4 DEF DestroyHeard
<1>9. ASSUME Holding(d), at'[d] = at[d], listing'[d] = listing[d]
      PROVE  Sound(listing[d], at[d])'
  <2> DEFINE p == at[d]
  <2>1. p \in Path /\ Sound(listing[d], p)
    BY <1>1, <1>9 DEF DestroyHeard
  <2> HIDE DEF p
  <2>2. Sound(listing[d], p)'
    BY <1>3, <1>9, <2>1, SoundStays DEF p
  <2> QED BY <1>9, <2>2 DEF Sound, p
<1>10. CASE PassPreflight(d) \/ Confirm(d) \/ NoOwners(d) \/ OwnersDone(d)
  <2>1. /\ Holding(d) /\ at'[d] = at[d] /\ listing'[d] = listing[d]
        /\ pc'[d] \in {"owners", "confirm", "remove"}
    BY <1>1, <1>10 DEF PassPreflight, Confirm, NoOwners, OwnersDone
  <2> QED BY <1>9, <2>1 DEF DestroyHeard
<1>11. CASE RunOwnerOnReap(d) \/ SettleOwner(d)
  <2>1. /\ Holding(d) /\ at'[d] = at[d] /\ listing'[d] = listing[d]
        /\ pc'[d] \in {"settle", "each"} /\ pc[d] \in {"run", "settle"}
    BY <1>1, <1>11 DEF RunOwnerOnReap, SettleOwner
  <2> QED BY <1>9, <2>1 DEF DestroyHeard
<1>12. ASSUME NEW m \in owners[d], KeepRunningOwner(d, m) \/ RemoveOwnerFails(d, m)
       PROVE  DestroyHeard(d)'
  <2>1. /\ Holding(d) /\ at'[d] = at[d] /\ listing'[d] = listing[d]
        /\ pc'[d] = "each" /\ pc[d] = "each"
    BY <1>1, <1>12 DEF KeepRunningOwner, RemoveOwnerFails
  <2>2. listing[d].state = "read"
    BY <1>12, <2>1 DEF DestroyHeard
  <2> QED BY <1>9, <2>1, <2>2 DEF DestroyHeard
<1>13. ASSUME NEW m \in owners[d], OwnerAlreadyGone(d, m) \/ RemoveOwner(d, m)
       PROVE  DestroyHeard(d)'
  <2>1. /\ Holding(d) /\ at'[d] = at[d] /\ listing'[d] = listing[d]
        /\ pc'[d] = "run" /\ pc[d] = "each" /\ owner'[d] = m
    BY <1>1, <1>13 DEF OwnerAlreadyGone, RemoveOwner
  <2>2. listing[d].state = "read" /\ Sound(listing[d], at[d])
    BY <1>13, <2>1 DEF DestroyHeard
  <2>3. m \in Mapping /\ m # NoMapping /\ m.sess \in Session /\ home[m.sess] = at[d]
    <3>1. m \in Mapping /\ Keeps(m, at[d])
      BY <1>1, <2>1 DEF Kept, Homed, DestroyHomed
    <3>2. m.sess \in Session /\ m.sess # None
      BY <3>1 DEF Mapping
    <3> QED BY <3>1, <3>2 DEF Keeps, NoMapping
  <2>4. m.sess \in ActivitySession \/ sess'[m.sess] \notin Listed
    <3>1. CASE OwnerAlreadyGone(d, m)
      <4>1. Over(m.sess) \/ m.sess \in ActivitySession
        BY <2>2, <2>3, <3>1 DEF Sound, OwnerAlreadyGone
      <4> QED BY <3>1, <4>1 DEF Over, OwnerAlreadyGone
    <3>2. CASE RemoveOwner(d, m)
      <4>1. /\ sess[m.sess] # "running"
            /\ sess'[m.sess] = IF sess[m.sess] = "idle" THEN "gone" ELSE sess[m.sess]
        BY <1>1, <2>3, <3>2 DEF RemoveOwner
      <4> QED BY <4>1 DEF Listed
    <3> QED BY <1>13, <3>1, <3>2
  <2>5. Over(owner[d].sess)'
    BY <2>1, <2>4 DEF Over
  <2> QED BY <1>9, <2>1, <2>2, <2>3, <2>5 DEF DestroyHeard
<1> QED BY <1>1, <1>5, <1>6, <1>7, <1>8, <1>10, <1>11, <1>12, <1>13 DEF DestroyStep

-----------------------------------------------------------------------------
(* An unforced destroy that goes on found nobody at work.                  *)

LEMMA DestroyFoundStands ==
    ASSUME Kept, [Next]_vars, NEW d \in Destroyer, DestroyFound(d),
           pc'[d] = pc[d], at'[d] = at[d], opts'[d] = opts[d], listing'[d] = listing[d],
           owners'[d] = owners[d], owner'[d] = owner[d]
    PROVE  DestroyFound(d)'
<1> SUFFICES ASSUME Holding(d), at[d] \notin Fresh PROVE DestroyFound(d)'
  BY DEF DestroyFound, Holding
<1> DEFINE p == at[d]
<1>1. p \in Path
  BY DEF Kept, Typed, Placed, Holding
<1>2. \A e \in Dispatcher : TokenPath[e] # p
  BY DEF Fresh
<1> HIDE DEF p
<1>3. MappedTo(p)' = MappedTo(p)
  BY <1>1, <1>2, HeldStays DEF p
<1>4. MappedTo(at[d])' = MappedTo(at[d]) /\ Owned(d)' = Owned(d)
  BY <1>3 DEF p, MappedTo, Owned
<1>5. FoundNobody(d) => FoundNobody(d)'
  BY <1>4 DEF FoundNobody
<1> QED BY <1>4, <1>5 DEF DestroyFound

LEMMA DestroyFinds ==
    ASSUME Kept, NEW d \in Destroyer, Destroys(d), DestroyHeard(d), DestroyFound(d)
    PROVE  DestroyFound(d)'
<1> USE DEF Goto, Return, worldVars, fileVars, destroyVars
<1>1. /\ DestroyStep(d) /\ d \in Proc /\ DOMAIN pc = Proc
      /\ opts \in [Destroyer -> [force: BOOLEAN, keepSession: BOOLEAN]]
      /\ listing \in [Destroyer -> Listing]
      /\ owners \in [Destroyer -> SUBSET Mapping]
      /\ owner \in [Destroyer -> Mapping \cup {NoMapping}]
      /\ mapping \in [Session -> Mapping \cup {NoMapping}]
      /\ Holding(d) <=> pc[d] \notin {"start", "resolved", "done"}
      /\ Holding(d)' <=> pc'[d] \notin {"start", "resolved", "done"}
  BY DEF Destroys, Kept, Typed, TypeOK, StoreTypeOK, DestroyTypeOK, Holding, Proc
<1>2. OwningMappings(at[d]) = {} <=> Owned(d) = {}
  BY DEF OwningMappings, Owned
<1>3. \A m \in OwningMappings(at[d]) : m.sess \in Owned(d)
  BY DEF OwningMappings, Owned, MappedTo, Mapped, Kept, Homed, SessionHomed
<1>4. \A s \in Owned(d) : \E m \in OwningMappings(at[d]) : m.sess = s
  BY DEF OwningMappings, Owned, MappedTo, Mapped, Kept, Homed, SessionHomed
<1>5. ASSUME UNCHANGED mapping, at'[d] = at[d]
      PROVE  MappedTo(at[d])' = MappedTo(at[d]) /\ Owned(d)' = Owned(d)
  BY <1>5 DEF MappedTo, Mapped, Owned
<1> SUFFICES ASSUME Holding(d)', at'[d] \notin Fresh PROVE DestroyFound(d)'
  BY DEF DestroyFound
<1>6. CASE (\E p \in Path : ChooseInstance(d, p)) \/ DestroyRefusesHeld(d)
           \/ SomethingKeeps(d) \/ Abort(d) \/ RemoveInstance(d)
  BY <1>1, <1>6 DEF ChooseInstance, DestroyRefusesHeld, SomethingKeeps, Abort, RemoveInstance
<1>7. CASE TakeDestroyLock(d)
  BY <1>1, <1>7 DEF TakeDestroyLock, DestroyFound
<1>8. CASE ListSessions(d)
  <2>1. pc'[d] = "keep?" /\ UNCHANGED <<mapping, at>>
    BY <1>1, <1>8 DEF ListSessions
  <2>2. Owned(d) = {} \/ listing'[d].state # "not read"
    <3>1. CASE OwningMappings(at[d]) = {}
      BY <1>2, <3>1
    <3>2. CASE OwningMappings(at[d]) # {}
      <4>1. listing'[d] \in ListingNow(d)
        BY <1>1, <1>8, <3>2 DEF ListSessions
      <4>2. CASE listing[d].state # "not read"
        BY <4>1, <4>2 DEF ListingNow
      <4>3. CASE listing[d].state = "not read"
        <5>1. \/ listing'[d] = [state |-> "failed", running |-> {}, stopped |-> {}]
              \/ listing'[d] =
                     [state |-> "read",
                      running |-> {s \in Session \ ActivitySession : sess[s] = "running"},
                      stopped |-> {s \in Session \ ActivitySession : sess[s] = "idle"}]
          BY <4>1, <4>3 DEF ListingNow
        <5>2. listing'[d].state \in {"failed", "read"}
          BY <5>1
        <5> QED BY <5>2
      <4> QED BY <4>2, <4>3
    <3> QED BY <3>1, <3>2
  <2> QED BY <1>5, <2>1, <2>2 DEF DestroyFound
<1>9. CASE PassPreflight(d)
  <2>1. /\ pc[d] = "keep?" /\ pc'[d] \in {"owners", "confirm"}
        /\ UNCHANGED <<mapping, at, opts, listing>>
        /\ SessionKeeps(d) => opts[d].force
    BY <1>1, <1>9 DEF PassPreflight
  <2>2. ASSUME ~SessionKeeps(d)
        PROVE  FoundNobody(d)'
    <3>1. Owned(d) = {} \/ (listing[d].state # "failed" /\ Owned(d) \cap listing[d].running = {})
      <4> DEFINE owned == {m.sess : m \in OwningMappings(at[d])}
      <4>1. owned = {} \/ (listing[d].state # "failed" /\ owned \cap listing[d].running = {})
        BY <2>2 DEF SessionKeeps
      <4>2. owned = Owned(d)
        BY <1>3, <1>4
      <4> HIDE DEF owned
      <4> QED BY <4>1, <4>2
    <3>2. Owned(d) = {} \/ listing[d].state # "not read"
      BY <1>1, <2>1 DEF DestroyFound
    <3>3. listing[d].state \in {"not read", "failed", "read"}
      BY <1>1 DEF Listing
    <3>4. Owned(d) = {} \/ listing[d].state = "read"
      BY <3>1, <3>2, <3>3
    <3>5. listing[d].running \cap ActivitySession = {}
      BY <1>1, <2>1 DEF DestroyHeard, Sound
    <3>6. \A s \in MappedTo(at[d]) : s \notin listing[d].running
      BY <3>1, <3>5 DEF Owned
    <3> QED BY <1>5, <2>1, <3>4, <3>6 DEF FoundNobody
  <2> QED BY <2>1, <2>2 DEF DestroyFound
<1>10. CASE \/ Confirm(d) \/ NoOwners(d) \/ OwnersDone(d)
  <2>1. /\ pc[d] \notin {"list", "keep?"} /\ pc'[d] \in {"owners", "remove"}
        /\ UNCHANGED <<mapping, at, opts, listing>> /\ Holding(d)
    BY <1>1, <1>10 DEF Confirm, NoOwners, OwnersDone
  <2> QED BY <1>5, <2>1 DEF DestroyFound, FoundNobody
<1>11. CASE ReadOwners(d)
  <2>1. /\ pc[d] = "owners" /\ pc'[d] = "each" /\ Holding(d)
        /\ UNCHANGED <<mapping, at, opts>> /\ OwningMappings(at[d]) # {}
    BY <1>1, <1>11 DEF ReadOwners
  <2>2. ASSUME FoundNobody(d)
        PROVE  FoundNobody(d)'
    <3>1. listing[d].state = "read"
      BY <1>2, <2>1, <2>2 DEF FoundNobody
    <3>2. listing'[d] = listing[d] /\ owners'[d] = OwningMappings(at[d])
      BY <1>1, <1>11, <3>1 DEF ReadOwners, ListingNow
    <3>3. \A m \in owners'[d] : m.sess \notin listing'[d].running
      BY <1>3, <2>2, <3>2 DEF FoundNobody, Owned
    <3> QED BY <1>5, <2>1, <2>2, <3>2, <3>3 DEF FoundNobody
  <2> QED BY <2>1, <2>2 DEF DestroyFound
<1>12. CASE RunOwnerOnReap(d)
  <2>1. /\ pc[d] = "run" /\ pc'[d] = "settle" /\ Holding(d)
        /\ UNCHANGED <<mapping, at, opts, listing, owners, owner>>
    BY <1>1, <1>12 DEF RunOwnerOnReap
  <2> QED BY <1>5, <2>1 DEF DestroyFound, FoundNobody
<1>13. ASSUME NEW m \in owners[d], \/ KeepRunningOwner(d, m) \/ OwnerAlreadyGone(d, m)
                                   \/ RemoveOwner(d, m) \/ RemoveOwnerFails(d, m)
       PROVE  DestroyFound(d)'
  <2>1. /\ pc[d] = "each" /\ pc'[d] \in {"each", "run"} /\ Holding(d)
        /\ UNCHANGED <<mapping, at, opts, listing>>
        /\ owners'[d] \subseteq owners[d]
        /\ pc'[d] = "run" => owner'[d] = m
    BY <1>1, <1>13 DEF KeepRunningOwner, OwnerAlreadyGone, RemoveOwner, RemoveOwnerFails
  <2> QED BY <1>5, <2>1 DEF DestroyFound, FoundNobody
<1>14. CASE SettleOwner(d)
  <2>1. /\ pc[d] = "settle" /\ pc'[d] = "each" /\ Holding(d)
        /\ UNCHANGED <<at, opts, listing, owners>> /\ Settled(owner[d], ran[d])
    BY <1>1, <1>14 DEF SettleOwner
  <2>2. listing[d].state = "read"
    BY <2>1 DEF DestroyHeard
  <2>3. MappedTo(at[d])' \subseteq MappedTo(at[d]) \cup {owner[d].sess}
    <3>1. \A s \in Session : s # owner[d].sess => mapping'[s] = mapping[s]
      BY <1>1, <2>1 DEF Settled
    <3> QED BY <2>1, <3>1 DEF MappedTo, Mapped
  <2>4. FoundNobody(d) => FoundNobody(d)'
    BY <2>1, <2>2, <2>3 DEF FoundNobody
  <2> QED BY <2>1, <2>4 DEF DestroyFound
<1> QED BY <1>1, <1>6, <1>7, <1>8, <1>9, <1>10, <1>11, <1>12, <1>13, <1>14 DEF DestroyStep

-----------------------------------------------------------------------------
(* The commands together. *)

LEMMA NextKeepsGuards ==
    ASSUME Kept, Traced, Guarded, [Next]_vars
    PROVE  Guarded'
<1>1. /\ Typed /\ DOMAIN pc = Proc
      /\ \A r \in Reaper : ReapReread(r)
      /\ \A u \in Resumer : KeepsItsInstance(u)
      /\ \A d \in Destroyer : DestroyHeard(d) /\ DestroyFound(d)
  BY DEF Kept, Typed, TypeOK, Guarded, ResumeKeepsItsInstance, KeepsItsInstance
<1> DEFINE Stands(x) == /\ pc'[x] = pc[x] /\ at'[x] = at[x]
                        /\ x \in Reaper => queue'[x] = queue[x] /\ task'[x] = task[x]
                        /\ x \in Destroyer => /\ opts'[x] = opts[x] /\ listing'[x] = listing[x]
                                              /\ owners'[x] = owners[x] /\ owner'[x] = owner[x]
<1>2. \A r \in Reaper : Stands(r) => ReapReread(r)'
  BY <1>1, ReapRereadStands
<1>3. \A u \in Resumer : Stands(u) => KeepsItsInstance(u)'
  BY <1>1, KeptInstanceStands
<1>4. \A d \in Destroyer : Stands(d) => DestroyHeard(d)' /\ DestroyFound(d)'
  BY <1>1, DestroyHeardStands, DestroyFoundStands
<1>5. ASSUME NEW x \in Proc, \A y \in Proc \ {x} : Stands(y),
             x \in Reaper => ReapReread(x)',
             x \in Resumer => KeepsItsInstance(x)',
             x \in Destroyer => DestroyHeard(x)' /\ DestroyFound(x)'
      PROVE  Guarded'
  <2> HIDE DEF Stands
  <2>1. \A r \in Reaper : ReapReread(r)'
    BY <1>2, <1>5 DEF Proc
  <2>2. \A u \in Resumer : KeepsItsInstance(u)'
    BY <1>3, <1>5 DEF Proc
  <2>3. \A d \in Destroyer : DestroyHeard(d)' /\ DestroyFound(d)'
    BY <1>4, <1>5 DEF Proc
  <2> QED BY <2>1, <2>2, <2>3 DEF Guarded, ResumeKeepsItsInstance, KeepsItsInstance
<1>6. ASSUME NEW r \in Reaper, Reaps(r)
      PROVE  Guarded'
  <2>1. r \in Proc /\ r \notin Resumer \cup Destroyer /\ ReapReread(r)'
    BY <1>1, <1>6, ReapRereads DEF Proc
  <2>2. \A y \in Proc \ {r} : Stands(y)
    <3>1. Alone(r) /\ \A q \in Reaper \ {r} : queue'[q] = queue[q] /\ task'[q] = task[q]
      BY <1>1, <1>6, ReapMovesItself
    <3>2. UNCHANGED destroyVars
      BY <1>6 DEF Reaps
    <3> QED BY <3>1, <3>2 DEF Alone, destroyVars
  <2> HIDE DEF Stands
  <2> QED BY <1>5, <2>1, <2>2
<1>7. ASSUME NEW u \in Resumer, Resumes(u)
      PROVE  Guarded'
  <2>1. u \in Proc /\ u \notin Reaper \cup Destroyer /\ KeepsItsInstance(u)'
    BY <1>1, <1>7, ResumeKeepsIt DEF Proc
  <2>2. \A y \in Proc \ {u} : Stands(y)
    <3>1. Alone(u) /\ UNCHANGED <<reapVars, destroyVars>>
      BY <1>1, <1>7, ResumeMovesItself DEF Resumes
    <3> QED BY <3>1 DEF Alone, reapVars, destroyVars
  <2> HIDE DEF Stands
  <2> QED BY <1>5, <2>1, <2>2
<1>8. ASSUME NEW d \in Destroyer, Destroys(d)
      PROVE  Guarded'
  <2>1. /\ d \in Proc /\ d \notin Reaper \cup Resumer
        /\ DestroyHeard(d)' /\ DestroyFound(d)'
    BY <1>1, <1>8, DestroyHears, DestroyFinds DEF Proc
  <2>2. \A y \in Proc \ {d} : Stands(y)
    <3>1. /\ Alone(d) /\ UNCHANGED reapVars
          /\ \A e \in Destroyer \ {d} : /\ opts'[e] = opts[e] /\ listing'[e] = listing[e]
                                        /\ owners'[e] = owners[e] /\ owner'[e] = owner[e]
      BY <1>1, <1>8, DestroyMovesItself DEF Destroys
    <3> QED BY <3>1 DEF Alone, reapVars
  <2> HIDE DEF Stands
  <2> QED BY <1>5, <2>1, <2>2
<1>9. ASSUME NEW d \in Dispatcher, Dispatches(d)
      PROVE  Guarded'
  <2>1. d \in Proc /\ d \notin Reaper \cup Resumer \cup Destroyer
    BY DEF Proc
  <2>2. \A y \in Proc \ {d} : Stands(y)
    <3>1. Alone(d) /\ UNCHANGED <<reapVars, destroyVars>>
      BY <1>1, <1>9, DispatchMovesItself DEF Dispatches
    <3> QED BY <3>1 DEF Alone, reapVars, destroyVars
  <2> HIDE DEF Stands
  <2> QED BY <1>5, <2>1, <2>2
<1>10. CASE WorldStep \/ UNCHANGED vars
  <2>1. \A y \in Proc : Stands(y)
    BY <1>10 DEF WorldStep, vars, reapVars, destroyVars
  <2> HIDE DEF Stands
  <2>2. \A r \in Reaper : ReapReread(r)'
    BY <1>2, <2>1 DEF Proc
  <2>3. \A u \in Resumer : KeepsItsInstance(u)'
    BY <1>3, <2>1 DEF Proc
  <2>4. \A d \in Destroyer : DestroyHeard(d)' /\ DestroyFound(d)'
    BY <1>4, <2>1 DEF Proc
  <2> QED BY <2>2, <2>3, <2>4 DEF Guarded, ResumeKeepsItsInstance, KeepsItsInstance
<1>11. ASSUME NEW x \in Proc, Crash(x)
       PROVE  Guarded'
  <2>1. \A y \in Proc \ {x} : Stands(y)
    <3>1. at \in [Proc -> Path \cup {None}] /\ UNCHANGED destroyVars
      BY <1>1, <1>11 DEF Typed, TypeOK, StoreTypeOK, Crash
    <3> QED BY <1>1, <1>11, <3>1 DEF Crash, Goto, destroyVars
  <2>2. pc'[x] = IF x \in Reaper THEN "idle" ELSE "done"
    BY <1>1, <1>11 DEF Crash, Goto
  <2>3. x \in Reaper => ReapReread(x)'
    <3>1. x \in Reaper => queue'[x] = {} /\ task'[x] = NoTask
      BY <1>11 DEF Crash
    <3> QED BY <2>2, <3>1 DEF ReapReread, NoTask
  <2>4. x \in Resumer => KeepsItsInstance(x)'
    BY <2>2 DEF KeepsItsInstance
  <2>5. x \in Destroyer => DestroyHeard(x)' /\ DestroyFound(x)'
    BY <2>2 DEF DestroyHeard, DestroyFound, Holding
  <2> HIDE DEF Stands
  <2> QED BY <1>5, <2>1, <2>3, <2>4, <2>5
<1> QED BY <1>6, <1>7, <1>8, <1>9, <1>10, <1>11 DEF Next

LEMMA InitIsGuarded == Init => Guarded
<1> SUFFICES ASSUME Init PROVE Guarded
  OBVIOUS
<1>1. \A x \in Proc : pc[x] = IF x \in Reaper THEN "idle" ELSE "start"
  BY DEF Init
<1>2. \A r \in Reaper : ReapReread(r)
  <2>1. \A r \in Reaper : pc[r] = "idle" /\ queue[r] = {} /\ task[r] = NoTask
    BY <1>1 DEF Init, Proc
  <2> QED BY <2>1 DEF ReapReread, NoTask
<1>3. ResumeKeepsItsInstance
  BY <1>1 DEF ResumeKeepsItsInstance, Proc
<1>4. \A d \in Destroyer : DestroyHeard(d) /\ DestroyFound(d)
  <2>1. \A d \in Destroyer : pc[d] = "start" /\ listing[d] = NotRead /\ ~Holding(d)
    BY <1>1 DEF Init, Proc, Holding
  <2> QED BY <2>1 DEF DestroyHeard, DestroyFound
<1> QED BY <1>2, <1>3, <1>4 DEF Guarded

(* The inductive invariant of the commands. *)
LifecycleInv == Kept /\ Traced /\ Guarded

LEMMA InvariantIsKept ==
    /\ Init => LifecycleInv
    /\ LifecycleInv /\ [Next]_vars => LifecycleInv'
<1>1. Init => LockIsHeldByItsActor
  BY DEF Init, LockIsHeldByItsActor, Holding, Proc
<1>2. Init => LifecycleInv
  BY <1>1, InitIsTyped, InitIsHomed, InitIsTraced, InitIsGuarded DEF LifecycleInv, Kept
<1>3. LifecycleInv /\ [Next]_vars => LifecycleInv'
  BY NextKeepsTypes, NextKeepsLocks, NextKeepsHomes, NextKeepsTraces, NextKeepsGuards
     DEF LifecycleInv, Kept
<1> QED BY <1>2, <1>3

-----------------------------------------------------------------------------
(* What it gives. *)

(* However many commands are at work on however large a workspace, and     *)
(* wherever any of them dies: from the check that found or restored it to  *)
(* the launch into it, a resume's instance stays; no reap, no destroy and  *)
(* no dispatch's rollback takes it away.                                   *)
THEOREM ResumesKeepTheirInstance == Spec => []ResumeKeepsItsInstance
<1>1. LifecycleInv => ResumeKeepsItsInstance
  BY DEF LifecycleInv, Guarded
<1> QED BY <1>1, InvariantIsKept, PTL DEF Spec

(* On any workspace, as long as a mapping names the instance a dispatch    *)
(* made, the authority its worker runs under and its lineage entry are on  *)
(* disk: whatever a reap, a resume or a destroy does with the mapping, it  *)
(* never finds the worker's records half made or rolled back.              *)
THEOREM MappedDispatchesAreRecorded == Spec => []MappedDispatchIsRecorded
<1>1. LifecycleInv => MappedDispatchIsRecorded
  BY DEF LifecycleInv, Traced, Unnamed, Opened, MappedDispatchIsRecorded, MappedTo, Mapped
<1> QED BY <1>1, InvariantIsKept, PTL DEF Spec

(* On any workspace, a dispatch that rolls back, without a lock, takes its *)
(* instance from nobody: no mapping and no launch record names it by then. *)
THEOREM RollbacksOrphanNobody == Spec => RollbackOrphansNobody
<1> DEFINE A == \A d \in Dispatcher : pc[d] = "rollback" /\ pc'[d] = "done" =>
                    MappedTo(at[d]) = {} /\ launch[at[d]] = None
<1>1. LifecycleInv => A
  <2> SUFFICES ASSUME LifecycleInv, NEW d \in Dispatcher, pc[d] = "rollback"
               PROVE  MappedTo(at[d]) = {} /\ launch[at[d]] = None
    OBVIOUS
  <2>1. at[d] = TokenPath[d] /\ ~Opened(d)
    BY DEF LifecycleInv, Kept, Homed, DispatchHomed, Opened
  <2> QED BY <2>1 DEF LifecycleInv, Traced, Unnamed, MappedTo, Mapped
<1> QED BY <1>1, InvariantIsKept, PTL DEF Spec, RollbackOrphansNobody, A

(* On any workspace, a reap never removes an instance some agent's records *)
(* show a session rooted in, mapped or not, whatever happened between its  *)
(* selection, its re-read under the lock and the removal; an activity      *)
(* answered session, which its user may come back to, is the exception.    *)
THEOREM ReapsSpareLiveWorkers == Spec => ReapSparesLiveWorkers
<1> DEFINE A == \A r \in Reaper : pc[r] = "destroy" /\ pc'[r] # "destroy" /\ disk' # disk
                                      => RecordsAt(at[r]) \subseteq ActivitySession
<1>1. LifecycleInv => A
  BY DEF LifecycleInv, Guarded, ReapReread
<1> QED BY <1>1, InvariantIsKept, PTL DEF Spec, ReapSparesLiveWorkers, A

(* On any workspace, neither a reap nor a destroy runs the on-reap command *)
(* for a session that is still listed: what was concluded from the one     *)
(* listing, or read again under the lock, still holds when the command is  *)
(* run.                                                                    *)
THEOREM OnReapsSpareLiveSessions == Spec => OnReapSparesLiveSessions
<1> DEFINE A == \A x \in Reaper \cup Destroyer : pc[x] = "run" /\ pc'[x] = "settle"
                    => SettledSession(x) \in ActivitySession
                       \/ sess[SettledSession(x)] \notin Listed
<1>1. LifecycleInv => A
  <2> SUFFICES ASSUME LifecycleInv, NEW x \in Reaper \cup Destroyer, pc[x] = "run"
               PROVE  Over(SettledSession(x))
    BY DEF Over
  <2>1. CASE x \in Reaper
    BY <2>1 DEF LifecycleInv, Guarded, ReapReread, SettledSession
  <2>2. CASE x \in Destroyer
    <3>1. Holding(x) /\ x \notin Reaper
      BY <2>2 DEF Holding
    <3> QED BY <2>2, <3>1 DEF LifecycleInv, Guarded, DestroyHeard, SettledSession
  <2> QED BY <2>1, <2>2
<1> QED BY <1>1, InvariantIsKept, PTL DEF Spec, OnReapSparesLiveSessions, A

(* On any workspace, when a reap settles a stored mapping the store still  *)
(* holds the one its selection read: no resume's newer mapping is closed   *)
(* or overwritten.                                                         *)
THEOREM StoredSettlesAreCurrent == Spec => StoredSettleIsCurrent
<1> DEFINE A == \A r \in Reaper : pc[r] = "settle" /\ task[r].kind = "stored" /\ mapping' # mapping
                    => mapping[task[r].m.sess] = task[r].m
<1>1. LifecycleInv => A
  BY DEF LifecycleInv, Guarded, ReapReread
<1> QED BY <1>1, InvariantIsKept, PTL DEF Spec, StoredSettleIsCurrent, A

(* On any workspace, a destroy without --force removes an instance, other  *)
(* than one a dispatch is making meanwhile, only if no session mapped to   *)
(* it at the removal was running at the listing.                           *)
THEOREM UnforcedDestroysFoundNobody == Spec => UnforcedDestroyFoundNobody
<1> DEFINE A == \A d \in Destroyer :
                    pc[d] = "remove" /\ disk' # disk /\ ~opts[d].force /\ at[d] \notin Fresh
                        => \A s \in MappedTo(at[d]) : s \notin listing[d].running
<1>1. LifecycleInv => A
  BY DEF LifecycleInv, Guarded, DestroyFound, FoundNobody, Holding
<1> QED BY <1>1, InvariantIsKept, PTL DEF Spec, UnforcedDestroyFoundNobody, A

-----------------------------------------------------------------------------
(* As long as nothing is destroyed by hand, a worker is mapped while it    *)
(* runs.  The workers of an instance are of the agents that list theirs.   *)
Workers(p) == RecordsAt(p) \ ActivitySession

EachIsMapped(p) == \A s \in Workers(p) : mapping[s] # NoMapping

(* niwa can find its way back to the instance: by its launch record, or    *)
(* because a resume has resolved it, or a dispatch is about to record it.  *)
Followed(p) ==
    \/ launch[p] # None
    \/ \E u \in Resumer : pc[u] \notin {"start", "done"} /\ at[u] = p
    \/ \E d \in Dispatcher : pc[d] = "record" /\ at[d] = p

(* One of its mappings is enough while the instance is there, since no     *)
(* reap takes it from its workers.  Once it is not, the mappings of those  *)
(* that are over are settled one by one, and each worker needs its own.    *)
WorkersShow(p) ==
    /\ Workers(p) # {} => MappedTo(p) # {}
    /\ disk[p] # "instance" => EachIsMapped(p)

(* A resume that may yet remove what it restored, or put back the mapping  *)
(* it found, leaves the workers of before as mapped as they were.          *)
ResumeMaps(u) ==
    LET p == at[u] IN
    /\ pc[u] \in {"start", "resolved", "check", "restore", "provision"} => ~restored[u]
    /\ pc[u] \in {"restore", "provision"} => disk[p] # "instance"
    /\ pc[u] \in {"undo", "capture", "rekey"} => disk[p] = "instance"
    /\ pc[u] \in {"map", "start worker", "undo", "rollback"} /\ restored[u] => EachIsMapped(p)
    /\ pc[u] \in {"start worker", "undo"} =>
           /\ Workers(p) # {} => prev[u] # NoMapping \/ MappedTo(p) \ {rec[u]} # {}
           /\ restored[u] /\ rec[u] \in Workers(p) => prev[u] # NoMapping
    /\ pc[u] \in {"start worker", "capture"} => mapping[rec[u]] # NoMapping
    /\ pc[u] \in {"rekey", "finish"} => mapping[started[u]] # NoMapping
    /\ pc[u] = "rekey" => started[u] # rec[u]

(* What a reap settles is no worker's.                                     *)
ReapSettles(r) ==
    pc[r] \in {"run", "settle"} =>
        /\ task[r].kind = "target" => Workers(at[r]) = {}
        /\ task[r].kind = "stored" => disk[at[r]] # "instance" /\ task[r].m.sess \notin Workers(at[r])

(* What a dispatch maps is the only worker there is.                       *)
DispatchMaps(d) == pc[d] = "map" => Workers(at[d]) \subseteq {worker[d]}

WorkersInv ==
    /\ \A p \in Path : Followed(p) => WorkersShow(p)
    /\ \A r \in Reaper : ReapSettles(r)
    /\ \A u \in Resumer : ResumeMaps(u)
    /\ \A d \in Dispatcher : DispatchMaps(d)

(* A worker comes to an instance only by a launch into it.                 *)
LEMMA WorkersAreLaunched ==
    ASSUME Kept, [Next]_vars, NEW p \in Path, NEW s \in Workers(p)', s \notin Workers(p)
    PROVE  \/ \E u \in Resumer : LaunchWorker(u, s) /\ at[u] = p
           \/ \E d \in Dispatcher : LaunchDispatched(d, s) /\ TokenPath[d] = p
<1>1. s \in Session /\ home'[s] = p /\ s \notin ActivitySession /\ ~Over(s)'
  BY DEF Workers, RecordsAt, Over
<1>2. home[s] # p \/ Over(s)
  BY <1>1 DEF Workers, RecordsAt, Over
<1>3. \/ \E u \in Resumer : LaunchWorker(u, s)
      \/ \E d \in Dispatcher : LaunchDispatched(d, s)
  BY <1>1, <1>2, OnlyLaunchesPopulate DEF Kept
<1>4. home \in [Session -> Path \cup {None}]
  BY DEF Kept, Typed, TypeOK, StoreTypeOK
<1>5. ASSUME NEW u \in Resumer, LaunchWorker(u, s)
      PROVE  at[u] = p
  BY <1>1, <1>4, <1>5 DEF LaunchWorker
<1>6. ASSUME NEW d \in Dispatcher, LaunchDispatched(d, s)
      PROVE  TokenPath[d] = p
  <2>1. at[d] = p
    BY <1>1, <1>4, <1>6 DEF LaunchDispatched
  <2> QED BY <1>6, <2>1 DEF LaunchDispatched, Kept, Homed, DispatchHomed
<1> QED BY <1>3, <1>5, <1>6

(* Under a lock, and before a dispatch has mapped it, an instance gets no  *)
(* worker from anybody else.                                               *)
LEMMA WorkersLeave ==
    ASSUME Kept, Traced, [Next]_vars, NEW p \in Path,
           \A u \in Resumer : ~(at[u] = p /\ \E s \in Session : LaunchWorker(u, s)),
           \A d \in Dispatcher : TokenPath[d] = p => Launched(d)
    PROVE  Workers(p)' \subseteq Workers(p)
<1> SUFFICES ASSUME NEW s \in Workers(p)', s \notin Workers(p) PROVE FALSE
  OBVIOUS
<1>1. s \in Session
  BY DEF Workers, RecordsAt
<1>2. \A d \in Dispatcher : LaunchDispatched(d, s) => ~Launched(d)
  BY DEF LaunchDispatched, Launched
<1> QED BY <1>1, <1>2, WorkersAreLaunched

LEMMA HeldGetsNoWorker ==
    ASSUME Kept, Traced, [Next]_vars, NEW x \in Reaper \cup Resumer \cup Destroyer, Holding(x),
           pc'[x] = pc[x], NEW p \in Path, at[x] = p,
           \A d \in Dispatcher : TokenPath[d] = p => Launched(d)
    PROVE  Workers(p)' \subseteq Workers(p)
<1>1. ASSUME NEW u \in Resumer, at[u] = p, NEW s \in Session, LaunchWorker(u, s)
      PROVE  FALSE
  <2>1. u \in Proc /\ x \in Proc /\ Holding(u)
    BY <1>1 DEF LaunchWorker, Holding, Proc
  <2>2. u = x
    BY <1>1, <2>1 DEF Kept, LockIsHeldByItsActor
  <2>3. pc[u] = "start worker" /\ pc'[u] = "capture"
    BY <1>1, <2>1 DEF LaunchWorker, Goto, Kept, Typed, TypeOK
  <2> QED BY <2>2, <2>3
<1> QED BY <1>1, WorkersLeave

(* A step after which an instance has no worker, no lost mapping and no    *)
(* removal it had not before.                                              *)
LEMMA WorkersShowStill ==
    ASSUME Kept, [Next]_vars, NEW p \in Path, WorkersShow(p), Workers(p)' \subseteq Workers(p),
           \A s \in Session : home[s] = p /\ mapping[s] # NoMapping => mapping'[s] # NoMapping,
           disk'[p] # "instance" => disk[p] # "instance"
    PROVE  WorkersShow(p)'
<1>1. Homed /\ Homed' /\ HomesStay
  BY NextKeepsHomes DEF Kept
<1>2. MappedTo(p) \subseteq MappedTo(p)'
  <2> SUFFICES ASSUME NEW s \in MappedTo(p) PROVE s \in MappedTo(p)'
    OBVIOUS
  <2>1. s \in Session /\ mapping[s] # NoMapping /\ home[s] = p
    BY <1>1 DEF MappedTo, Mapped, Homed, SessionHomed
  <2>2. mapping'[s] # NoMapping /\ home'[s] = p
    BY <1>1, <2>1 DEF HomesStay
  <2> QED BY <1>1, <2>1, <2>2 DEF MappedTo, Mapped, Homed, SessionHomed
<1>3. EachIsMapped(p) => EachIsMapped(p)'
  BY DEF EachIsMapped, Workers, RecordsAt
<1> QED BY <1>2, <1>3 DEF WorkersShow

(* A mapping of a session rooted in the instance is one of the instance's, *)
(* so where each worker has a mapping, the instance has one.               *)
LEMMA MappedThere ==
    ASSUME Homed', NEW p \in Path, NEW s \in Session, home'[s] = p, mapping'[s] # NoMapping
    PROVE  s \in MappedTo(p)'
BY DEF MappedTo, Mapped, Homed, SessionHomed

LEMMA EachMappedShows ==
    ASSUME NEW p \in Path
    PROVE  /\ Homed /\ EachIsMapped(p) => WorkersShow(p)
           /\ Homed' /\ EachIsMapped(p)' => WorkersShow(p)'
<1>1. Homed /\ EachIsMapped(p) => WorkersShow(p)
  <2>1. Homed /\ EachIsMapped(p) => \A s \in Workers(p) : s \in MappedTo(p)
    BY DEF EachIsMapped, Workers, RecordsAt, MappedTo, Mapped, Homed, SessionHomed
  <2> QED BY <2>1 DEF WorkersShow
<1>2. Homed' /\ EachIsMapped(p)' => WorkersShow(p)'
  <2>1. Homed' /\ EachIsMapped(p)' => \A s \in Workers(p)' : s \in MappedTo(p)'
    BY DEF EachIsMapped, Workers, RecordsAt, MappedTo, Mapped, Homed, SessionHomed
  <2> QED BY <2>1 DEF WorkersShow
<1> QED BY <1>1, <1>2

-----------------------------------------------------------------------------
LEMMA InitiallyMapped == Init => WorkersInv
<1> SUFFICES ASSUME Init PROVE WorkersInv
  OBVIOUS
<1>1. /\ \A r \in Reaper : pc[r] = "idle"
      /\ \A x \in Resumer \cup Dispatcher : pc[x] = "start"
  BY DEF Init, Proc
<1>2. ASSUME NEW p \in Path, Followed(p)
      PROVE  WorkersShow(p)
  <2>1. launch[p] \in Session /\ home[launch[p]] = p
        /\ (mapping[launch[p]] # NoMapping \/ sess[launch[p]] = "gone")
    <3>1. launch[p] # None
      BY <1>1, <1>2 DEF Followed
    <3> QED BY <3>1 DEF Init
  <2>2. \A s \in Session : home[s] = p => s = launch[p]
    BY <2>1 DEF Init
  <2>3. EachIsMapped(p)
    BY <2>1, <2>2 DEF EachIsMapped, Workers, RecordsAt, Listed
  <2>4. Homed
    BY InitIsHomed
  <2> QED BY <2>3, <2>4, EachMappedShows
<1>3. \A r \in Reaper : ReapSettles(r)
  BY <1>1 DEF ReapSettles
<1>4. \A u \in Resumer : ResumeMaps(u)
  BY <1>1 DEF ResumeMaps, Init
<1>5. \A d \in Dispatcher : DispatchMaps(d)
  BY <1>1 DEF DispatchMaps
<1> QED BY <1>2, <1>3, <1>4, <1>5 DEF WorkersInv

-----------------------------------------------------------------------------
(* Nothing follows an instance that a dispatch has not mapped.             *)
LEMMA FollowedIsOpened ==
    ASSUME Kept, Traced, NEW p \in Path, Followed(p), NEW d \in Dispatcher, TokenPath[d] = p
    PROVE  pc[d] \in {"record", "done"}
<1>1. Unnamed(d)
  BY DEF Traced
<1>2. CASE launch[p] # None
  BY <1>1, <1>2 DEF Unnamed
<1>3. CASE \E u \in Resumer : pc[u] \notin {"start", "done"} /\ at[u] = p
  BY <1>1, <1>3 DEF Unnamed
<1>4. ASSUME NEW e \in Dispatcher, pc[e] = "record", at[e] = p
      PROVE  pc[d] = "record"
  <2>1. TokenPath[e] = p
    BY <1>4 DEF Kept, Homed, DispatchHomed
  <2> QED BY <1>4, <2>1
<1> QED BY <1>2, <1>3, <1>4 DEF Followed

(* It is followed from the dispatch's mapping on.                          *)
LEMMA FollowedFromMapping ==
    ASSUME Kept, [Next]_vars, NEW p \in Path, Followed(p)', ~Followed(p)
    PROVE  \E d \in Dispatcher : WriteDispatchMapping(d) /\ Dispatches(d) /\ at[d] = p
<1> USE DEF worldVars, fileVars, Goto, Return
<1>1. /\ launch[p] = None
      /\ \A u \in Resumer : at[u] = p => pc[u] \in {"start", "done"}
      /\ \A d \in Dispatcher : at[d] = p => pc[d] # "record"
      /\ Typed /\ DOMAIN pc = Proc /\ launch \in [Path -> Session \cup {None}]
      /\ at \in [Proc -> Path \cup {None}]
  BY DEF Followed, Kept, Typed, TypeOK, StoreTypeOK
<1>2. ASSUME NEW r \in Reaper, Reaps(r)
      PROVE  FALSE
  <2>1. \A y \in Resumer \cup Dispatcher : pc'[y] = pc[y] /\ at'[y] = at[y]
    BY <1>1, <1>2, ReapMovesItself DEF Alone, Proc
  <2>2. launch'[p] = None
    BY <1>1, <1>2
       DEF Reaps, ReapStep, SelectMapped, SelectBackstop, SweepLaunchRecords, FinishSweep, TakeTask,
           SpareHeld, Recheck, Spare, DestroyTarget, DestroyTargetFails, RunOnReap, SettleMapping
  <2> QED BY <1>1, <2>1, <2>2 DEF Followed
<1>3. ASSUME NEW u \in Resumer, Resumes(u)
      PROVE  FALSE
  <2>1. /\ \A y \in (Resumer \cup Dispatcher) \ {u} : pc'[y] = pc[y] /\ at'[y] = at[y]
        /\ u \notin Dispatcher
    BY <1>1, <1>3, ResumeMovesItself DEF Alone, Proc
  <2>2. /\ launch'[p] = None
        /\ at'[u] = p => pc'[u] \in {"start", "done"}
    <3>1. ResumeStep(u) /\ u \in Proc
      BY <1>3 DEF Resumes, Proc
    <3>2. CASE \E q \in Path : ResolveRecord(u, q)
      BY <1>1, <3>1, <3>2 DEF ResolveRecord
    <3>3. CASE \/ TakeResumeLock(u) \/ PassChecks(u) \/ BeginRestore(u) \/ Restore(u)
               \/ WriteMapping(u) \/ MappingFails(u) \/ LaunchFails(u) \/ Unmap(u)
               \/ DropOldMapping(u) \/ \E s \in Session : LaunchWorker(u, s) \/ Capture(u, s)
      BY <1>1, <3>1, <3>3
         DEF TakeResumeLock, PassChecks, BeginRestore, Restore, WriteMapping, MappingFails,
             LaunchFails, Unmap, DropOldMapping, LaunchWorker, Capture
    <3>4. CASE RefuseHeld(u) \/ Refuse(u) \/ RestoreFails(u) \/ Rollback(u) \/ CaptureFails(u)
      BY <1>1, <3>1, <3>4 DEF RefuseHeld, Refuse, RestoreFails, Rollback, CaptureFails
    <3>5. CASE Finish(u)
      BY <1>1, <3>1, <3>5 DEF Finish
    <3> QED BY <3>1, <3>2, <3>3, <3>4, <3>5 DEF ResumeStep
  <2> QED BY <1>1, <2>1, <2>2 DEF Followed
<1>4. ASSUME NEW e \in Destroyer, Destroys(e)
      PROVE  FALSE
  <2>1. \A y \in Resumer \cup Dispatcher : pc'[y] = pc[y] /\ at'[y] = at[y]
    BY <1>1, <1>4, DestroyMovesItself DEF Alone, Proc
  <2>2. launch'[p] = None
    BY <1>1, <1>4
       DEF Destroys, DestroyStep, ChooseInstance, TakeDestroyLock, DestroyRefusesHeld,
           ListSessions, PassPreflight, SomethingKeeps, Confirm, Abort, ReadOwners,
           NoOwners, KeepRunningOwner, OwnerAlreadyGone, RemoveOwner, RemoveOwnerFails,
           OwnersDone, RunOwnerOnReap, SettleOwner, RemoveInstance
  <2> QED BY <1>1, <2>1, <2>2 DEF Followed
<1>5. ASSUME NEW d \in Dispatcher, Dispatches(d)
      PROVE  WriteDispatchMapping(d) /\ at[d] = p
  <2>1. /\ \A y \in (Resumer \cup Dispatcher) \ {d} : pc'[y] = pc[y] /\ at'[y] = at[y]
        /\ d \notin Resumer /\ d \in Proc /\ DispatchStep(d)
    BY <1>1, <1>5, DispatchMovesItself DEF Alone, Proc, Dispatches
  <2>2. CASE WriteDispatchMapping(d)
    <3>1. launch' = launch /\ at' = at
      BY <2>2 DEF WriteDispatchMapping
    <3> QED BY <1>1, <2>1, <2>2, <3>1 DEF Followed
  <2>3. CASE ~WriteDispatchMapping(d)
    <3>1. launch'[p] = None
      BY <1>1, <2>1, <2>3
         DEF Exit, DispatchStep, BeginProvision, Provision, ProvisionFails, WriteAuthority,
             CreateLineage, EarlyFailure, LaunchDispatched, TurnEnds, CaptureDispatched,
             CannotMap, WriteLaunchRecord, WriteRetainMarker, RetainMarkerFails, RollbackDispatch
    <3>2. pc'[d] # "record"
      BY <1>1, <2>1, <2>3
         DEF Exit, DispatchStep, BeginProvision, Provision, ProvisionFails, WriteAuthority,
             CreateLineage, EarlyFailure, LaunchDispatched, TurnEnds, CaptureDispatched,
             CannotMap, WriteLaunchRecord, WriteRetainMarker, RetainMarkerFails, RollbackDispatch
    <3> QED BY <1>1, <2>1, <3>1, <3>2 DEF Followed
  <2> QED BY <2>2, <2>3
<1>6. CASE WorldStep \/ UNCHANGED vars
  <2>1. launch' = launch /\ pc' = pc /\ at' = at
    BY <1>6 DEF WorldStep, World, SessionIdles, SessionPrompted, SessionGoes, TranscriptExpires,
                InstanceAges, vars
  <2> QED BY <1>1, <2>1 DEF Followed
<1>7. ASSUME NEW x \in Proc, Crash(x)
      PROVE  FALSE
  <2>1. /\ launch' = launch /\ at'[x] = None
        /\ \A y \in Proc \ {x} : pc'[y] = pc[y] /\ at'[y] = at[y]
    BY <1>1, <1>7 DEF Crash
  <2> QED BY <1>1, <2>1 DEF Followed, Proc
<1> QED BY <1>2, <1>3, <1>4, <1>5, <1>6, <1>7 DEF Next

(* A command's step keeps a followed instance's workers shown.             *)
LEMMA ReapShowsWorkers ==
    ASSUME Kept, NEW r \in Reaper, Reaps(r), ReapReread(r), ReapSettles(r),
           NEW p \in Path, WorkersShow(p)
    PROVE  WorkersShow(p)'
<1>1. /\ ReapStep(r) /\ r \in Proc /\ Typed /\ Homed /\ [Next]_vars
      /\ Holding(r) => at[r] = task[r].path
  BY DEF Reaps, Kept, Homed, ReapHomed, Proc, Next
<1>2. UNCHANGED <<sess, home>>
  BY <1>1
     DEF ReapStep, SelectMapped, SelectBackstop, FinishSweep, TakeTask, SpareHeld, Recheck, Spare,
         DestroyTarget, DestroyTargetFails, RunOnReap, SettleMapping, worldVars, fileVars
<1>3. Workers(p)' = Workers(p)
  BY <1>2 DEF Workers, RecordsAt
<1>4. CASE \A s \in Session : home[s] = p => mapping'[s] = mapping[s]
  <2>1. CASE disk'[p] = disk[p]
    BY <1>1, <1>3, <1>4, <2>1, WorkersShowStill
  <2>2. CASE disk'[p] # disk[p]
    <3>1. Holding(r) /\ at[r] = p
      BY <1>1, <2>2, ReapChangesItsOwn DEF ChangesOnly
    <3>2. pc[r] = "destroy"
      BY <1>1, <2>2
         DEF ReapStep, SelectMapped, SelectBackstop, FinishSweep, TakeTask, SpareHeld, Recheck,
             Spare, DestroyTarget, DestroyTargetFails, RunOnReap, SettleMapping, worldVars, fileVars
    <3>3. Workers(p) = {}
      BY <3>1, <3>2 DEF ReapReread, Workers
    <3> QED BY <1>3, <3>3 DEF WorkersShow, EachIsMapped
  <2> QED BY <2>1, <2>2
<1>5. ASSUME NEW t \in Session, home[t] = p, mapping'[t] # mapping[t]
      PROVE  WorkersShow(p)'
  <2>1. Holding(r) /\ at[r] = p
    BY <1>1, <1>5, ReapChangesItsOwn DEF ChangesOnly
  <2>2. SettleMapping(r)
    BY <1>1, <1>5
       DEF ReapStep, SelectMapped, SelectBackstop, FinishSweep, TakeTask, SpareHeld, Recheck,
           Spare, DestroyTarget, DestroyTargetFails, RunOnReap, worldVars, fileVars
  <2>3. /\ pc[r] = "settle" /\ disk' = disk /\ task[r].kind \in {"target", "stored"}
        /\ Settled(task[r].m, ran[r])
    BY <2>2 DEF SettleMapping, ReapReread
  <2>4. CASE task[r].kind = "target"
    <3>1. Workers(p) = {}
      BY <2>1, <2>3, <2>4 DEF ReapSettles
    <3> QED BY <1>3, <3>1 DEF WorkersShow, EachIsMapped
  <2>5. CASE task[r].kind = "stored"
    <3>1. disk[p] # "instance" /\ task[r].m.sess \notin Workers(p)
      BY <2>1, <2>3, <2>5 DEF ReapSettles
    <3>2. \A s \in Session : s # task[r].m.sess => mapping'[s] = mapping[s]
      BY <1>1, <2>3 DEF Settled, Typed, TypeOK, StoreTypeOK
    <3>3. EachIsMapped(p)'
      BY <1>3, <3>1, <3>2 DEF WorkersShow, EachIsMapped, Workers, RecordsAt
    <3>4. Homed'
      BY <1>1, NextKeepsHomes
    <3> QED BY <3>3, <3>4, EachMappedShows
  <2> QED BY <2>3, <2>4, <2>5
<1> QED BY <1>4, <1>5

LEMMA ResumeShowsWorkers ==
    ASSUME Kept, NEW u \in Resumer, Resumes(u), KeepsItsInstance(u), ResumeMaps(u),
           NEW p \in Path, WorkersShow(p)
    PROVE  WorkersShow(p)'
<1> USE DEF worldVars, fileVars, Goto, Return
<1>1. /\ ResumeStep(u) /\ u \in Proc /\ Typed /\ Homed /\ ResumeHomed(u) /\ [Next]_vars
      /\ disk \in [Path -> {"absent", "instance", "husk"}]
      /\ mapping \in [Session -> Mapping \cup {NoMapping}]
      /\ home \in [Session -> Path \cup {None}] /\ sess \in [Session -> SessionState]
      /\ at \in [Proc -> Path \cup {None}]
      /\ pc[u] \notin {"start", "done"} => at[u] \in Path /\ rec[u] \in Session
  BY DEF Resumes, Kept, Homed, Proc, Next, Typed, Placed, TypeOK, StoreTypeOK
<1>2. Homed' /\ HomesStay
  BY <1>1, NextKeepsHomes
<1>3. ASSUME UNCHANGED <<sess, home>>
      PROVE  Workers(p)' = Workers(p)
  BY <1>3 DEF Workers, RecordsAt
<1>4. CASE UNCHANGED <<disk, mapping, sess, home>>
  BY <1>1, <1>3, <1>4, WorkersShowStill
<1>5. CASE BeginRestore(u) \/ Restore(u) \/ RestoreFails(u)
  <2>1. /\ UNCHANGED <<mapping, sess, home>> /\ disk[at[u]] # "instance"
        /\ at[u] \in Path /\ \A q \in Path \ {at[u]} : disk'[q] = disk[q]
    BY <1>1, <1>5 DEF BeginRestore, Restore, RestoreFails, ResumeMaps
  <2>2. CASE at[u] # p
    BY <1>1, <1>3, <2>1, <2>2, WorkersShowStill
  <2>3. CASE at[u] = p
    <3>1. EachIsMapped(p)'
      BY <1>3, <2>1, <2>3 DEF WorkersShow, EachIsMapped
    <3> QED BY <1>2, <3>1, EachMappedShows
  <2> QED BY <2>2, <2>3
<1>6. CASE Rollback(u)
  <2>1. /\ UNCHANGED <<mapping, sess, home>> /\ at[u] \in Path
        /\ \A q \in Path \ {at[u]} : disk'[q] = disk[q]
        /\ ~restored[u] => disk' = disk
        /\ pc[u] = "rollback"
    BY <1>1, <1>6 DEF Rollback, RemovedTo
  <2>2. CASE at[u] # p \/ ~restored[u]
    BY <1>1, <1>3, <2>1, <2>2, WorkersShowStill
  <2>3. CASE at[u] = p /\ restored[u]
    <3>1. EachIsMapped(p)'
      BY <1>3, <2>1, <2>3 DEF ResumeMaps, EachIsMapped
    <3> QED BY <1>2, <3>1, EachMappedShows
  <2> QED BY <2>2, <2>3
<1>7. CASE WriteMapping(u) \/ \E s \in Session : Capture(u, s)
  <2>1. UNCHANGED <<disk, sess, home>>
    BY <1>7 DEF WriteMapping, Capture
  <2>2. PICK s \in Session : mapping' = [mapping EXCEPT ![s] = NewMapping(u, s)]
    BY <1>1, <1>7 DEF WriteMapping, Capture
  <2>3. \A t \in Session : mapping[t] # NoMapping => mapping'[t] # NoMapping
    BY <1>1, <2>2 DEF NewMapping, NoMapping
  <2> QED BY <1>1, <1>3, <2>1, <2>3, WorkersShowStill
<1>8. ASSUME NEW s \in Session, LaunchWorker(u, s)
      PROVE  WorkersShow(p)'
  <2>1. /\ UNCHANGED <<disk, mapping>> /\ pc[u] = "start worker"
        /\ home' = [home EXCEPT ![s] = at[u]] /\ sess' = [sess EXCEPT ![s] = "running"]
    BY <1>8 DEF LaunchWorker
  <2>2. CASE at[u] # p
    <3>1. Workers(p)' \subseteq Workers(p)
      BY <1>1, <2>1, <2>2 DEF Workers, RecordsAt
    <3> QED BY <1>1, <2>1, <3>1, WorkersShowStill
  <2>3. CASE at[u] = p
    <3>1. disk'[p] = "instance" /\ rec[u] \in Session /\ home[rec[u]] = p
          /\ mapping'[rec[u]] # NoMapping
      BY <1>1, <2>1, <2>3 DEF KeepsItsInstance, ResumeMaps, ResumeHomed
    <3>2. home'[rec[u]] = p
      BY <1>1, <1>2, <3>1 DEF HomesStay
    <3>3. rec[u] \in MappedTo(p)'
      BY <1>2, <3>1, <3>2, MappedThere
    <3> QED BY <3>1, <3>3 DEF WorkersShow
  <2> QED BY <2>2, <2>3
<1>9. CASE Unmap(u) \/ DropOldMapping(u)
  <2>1. /\ UNCHANGED <<disk, sess, home>> /\ pc[u] \in {"undo", "rekey"}
        /\ at[u] \in Path /\ rec[u] \in Session /\ home[rec[u]] = at[u]
        /\ \A t \in Session : t # rec[u] => mapping'[t] = mapping[t]
    BY <1>1, <1>9 DEF Unmap, DropOldMapping, ResumeHomed
  <2>2. CASE at[u] # p \/ mapping' = mapping
    BY <1>1, <1>3, <2>1, <2>2, WorkersShowStill
  <2>3. CASE at[u] = p /\ mapping' # mapping
    <3>1. disk'[p] = "instance"
      BY <2>1, <2>3 DEF ResumeMaps
    <3>2. CASE Workers(p) = {}
      BY <1>3, <2>1, <3>1, <3>2 DEF WorkersShow
    <3>3. CASE Workers(p) # {} /\ Unmap(u)
      <4>1. mapping'[rec[u]] = prev[u] /\ pc[u] = "undo"
        BY <1>1, <2>1, <2>3, <3>3 DEF Unmap
      <4>2. prev[u] # NoMapping \/ MappedTo(p) \ {rec[u]} # {}
        BY <2>3, <3>3, <4>1 DEF ResumeMaps
      <4>3. CASE prev[u] # NoMapping
        <5>1. rec[u] \in MappedTo(p)'
          BY <1>2, <2>1, <2>3, <4>1, <4>3, MappedThere
        <5> QED BY <3>1, <5>1 DEF WorkersShow
      <4>4. CASE MappedTo(p) \ {rec[u]} # {}
        <5>1. PICK t \in MappedTo(p) : t # rec[u]
          BY <4>4
        <5>2. t \in MappedTo(p)'
          BY <2>1, <5>1 DEF MappedTo, Mapped
        <5> QED BY <3>1, <5>2 DEF WorkersShow
      <4> QED BY <4>2, <4>3, <4>4
    <3>4. CASE DropOldMapping(u)
      <4>1. /\ pc[u] = "rekey" /\ started[u] # None /\ started[u] # rec[u]
            /\ mapping[started[u]] # NoMapping /\ home[started[u]] = p
            /\ started[u] \in Session
        BY <1>1, <2>3, <3>4 DEF DropOldMapping, ResumeMaps, ResumeHomed, TypeOK, Typed, ResumeTypeOK
      <4>2. started[u] \in MappedTo(p)'
        BY <1>2, <2>1, <4>1, MappedThere
      <4> QED BY <3>1, <4>2 DEF WorkersShow
    <3> QED BY <1>9, <3>2, <3>3, <3>4
  <2> QED BY <2>2, <2>3
<1>10. CASE \/ TakeResumeLock(u) \/ RefuseHeld(u) \/ PassChecks(u) \/ Refuse(u)
            \/ MappingFails(u) \/ LaunchFails(u) \/ CaptureFails(u) \/ Finish(u)
            \/ \E q \in Path : ResolveRecord(u, q)
  <2>1. UNCHANGED <<disk, mapping, sess, home>>
    BY <1>10 DEF TakeResumeLock, RefuseHeld, PassChecks, Refuse, MappingFails, LaunchFails,
                 CaptureFails, Finish, ResolveRecord
  <2> QED BY <1>4, <2>1
<1> QED BY <1>1, <1>5, <1>6, <1>7, <1>8, <1>9, <1>10 DEF ResumeStep

LEMMA DispatchShowsWorkers ==
    ASSUME Kept, Traced, NEW d \in Dispatcher, Dispatches(d),
           NEW p \in Path, Followed(p), WorkersShow(p)
    PROVE  WorkersShow(p)'
<1> USE DEF worldVars, fileVars, Goto, Return
<1>1. /\ DispatchStep(d) /\ d \in Proc /\ Typed /\ Homed /\ [Next]_vars
      /\ home \in [Session -> Path \cup {None}] /\ sess \in [Session -> SessionState]
      /\ pc[d] \notin {"start", "done"} => at[d] = TokenPath[d]
  BY DEF Dispatches, Kept, Homed, DispatchHomed, Proc, Next, Typed, TypeOK, StoreTypeOK
<1>2. CASE TokenPath[d] = p
  <2>1. pc[d] \in {"record", "done"}
    BY <1>2, FollowedIsOpened
  <2>2. UNCHANGED <<disk, mapping, sess, home>>
    BY <1>1, <2>1
       DEF Exit, DispatchStep, BeginProvision, Provision, ProvisionFails, WriteAuthority,
           CreateLineage, EarlyFailure, LaunchDispatched, TurnEnds, CaptureDispatched, CannotMap,
           WriteDispatchMapping, WriteLaunchRecord, WriteRetainMarker, RetainMarkerFails,
           RollbackDispatch
  <2>3. Workers(p)' = Workers(p)
    BY <2>2 DEF Workers, RecordsAt
  <2> QED BY <1>1, <2>2, <2>3, WorkersShowStill
<1>3. CASE TokenPath[d] # p
  <2>1. disk'[p] = disk[p] /\ \A s \in Session : home[s] = p => mapping'[s] = mapping[s]
    BY <1>1, <1>3, DispatchChangesItsOwn DEF ChangesOnly
  <2>2. Workers(p)' \subseteq Workers(p)
    <3>1. CASE \E s \in Session : LaunchDispatched(d, s)
      <4>1. PICK s \in Session : LaunchDispatched(d, s)
        BY <3>1
      <4>2. at[d] # p
        BY <1>1, <1>3, <4>1 DEF LaunchDispatched
      <4>3. home'[s] # p /\ \A t \in Session \ {s} : home'[t] = home[t] /\ sess'[t] = sess[t]
        BY <1>1, <4>1, <4>2 DEF LaunchDispatched
      <4> QED BY <4>3 DEF Workers, RecordsAt
    <3>2. CASE TurnEnds(d)
      BY <1>1, <3>2 DEF TurnEnds, Workers, RecordsAt, Listed
    <3>3. CASE ~TurnEnds(d) /\ ~\E s \in Session : LaunchDispatched(d, s)
      <4>1. UNCHANGED <<sess, home>>
        BY <1>1, <3>3
           DEF Exit, DispatchStep, BeginProvision, Provision, ProvisionFails, WriteAuthority,
               CreateLineage, EarlyFailure, CaptureDispatched, CannotMap, WriteDispatchMapping,
               WriteLaunchRecord, WriteRetainMarker, RetainMarkerFails, RollbackDispatch
      <4> QED BY <4>1 DEF Workers, RecordsAt
    <3> QED BY <3>1, <3>2, <3>3
  <2> QED BY <1>1, <2>1, <2>2, WorkersShowStill
<1> QED BY <1>2, <1>3

(* The agents, their users, the clock and a process that dies bring no     *)
(* worker into an instance.                                                *)
LEMMA NobodyIsLaunched ==
    ASSUME Typed, WorldStep \/ UNCHANGED vars \/ \E x \in Proc : Crash(x)
    PROVE  /\ UNCHANGED <<disk, mapping, launch, home>>
           /\ \A p \in Path : Workers(p)' \subseteq Workers(p)
<1>1. UNCHANGED <<disk, mapping, launch, home>>
  BY DEF WorldStep, World, SessionIdles, SessionPrompted, SessionGoes, TranscriptExpires,
         InstanceAges, Crash, vars, worldVars, fileVars
<1>2. sess \in [Session -> SessionState]
  BY DEF Typed, TypeOK, StoreTypeOK
<1>3. \A s \in Session \ ActivitySession : sess'[s] \in Listed => sess[s] \in Listed
  BY <1>2 DEF WorldStep, World, SessionIdles, SessionPrompted, SessionGoes, TranscriptExpires,
              InstanceAges, Crash, vars, worldVars, fileVars, Listed
<1> QED BY <1>1, <1>3 DEF Workers, RecordsAt

(* As long as nothing is destroyed by hand. *)
LEMMA NextShowsWorkers ==
    ASSUME Destroyer = {}, Kept, Traced, Guarded, WorkersInv, [Next]_vars,
           NEW p \in Path, Followed(p)'
    PROVE  WorkersShow(p)'
<1>1. Homed'
  BY NextKeepsHomes DEF Kept
<1>2. CASE Followed(p)
  <2>1. WorkersShow(p)
    BY <1>2 DEF WorkersInv
  <2>2. ASSUME NEW r \in Reaper, Reaps(r)
        PROVE  WorkersShow(p)'
    BY <2>1, <2>2, ReapShowsWorkers DEF Guarded, WorkersInv
  <2>3. ASSUME NEW u \in Resumer, Resumes(u)
        PROVE  WorkersShow(p)'
    <3>1. KeepsItsInstance(u) /\ ResumeMaps(u)
      BY DEF Guarded, ResumeKeepsItsInstance, KeepsItsInstance, WorkersInv
    <3> QED BY <2>1, <2>3, <3>1, ResumeShowsWorkers
  <2>4. ASSUME NEW d \in Dispatcher, Dispatches(d)
        PROVE  WorkersShow(p)'
    BY <1>2, <2>1, <2>4, DispatchShowsWorkers
  <2>5. CASE WorldStep \/ UNCHANGED vars \/ \E x \in Proc : Crash(x)
    <3>1. UNCHANGED <<disk, mapping>> /\ Workers(p)' \subseteq Workers(p)
      BY <2>5, NobodyIsLaunched DEF Kept
    <3> QED BY <2>1, <3>1, WorkersShowStill
  <2> QED BY <2>2, <2>3, <2>4, <2>5 DEF Next
<1>3. CASE ~Followed(p)
  <2>1. PICK d \in Dispatcher : WriteDispatchMapping(d) /\ Dispatches(d) /\ at[d] = p
    BY <1>3, FollowedFromMapping
  <2>2. /\ pc[d] = "map" /\ UNCHANGED <<sess, home>> /\ worker[d] \in Session
        /\ mapping'[worker[d]] # NoMapping
    <3>1. worker[d] \in Session \cup {None} /\ worker[d] # None
      BY <2>1 DEF WriteDispatchMapping, Kept, Homed, DispatchHomed, Typed, TypeOK, DispatchTypeOK
    <3> QED BY <2>1, <3>1
            DEF WriteDispatchMapping, NoMapping, Kept, Typed, TypeOK, StoreTypeOK
  <2>3. Workers(p)' \subseteq {worker[d]}
    BY <2>1, <2>2 DEF WorkersInv, DispatchMaps, Workers, RecordsAt
  <2>4. EachIsMapped(p)'
    BY <2>2, <2>3 DEF EachIsMapped
  <2> QED BY <1>1, <2>4, EachMappedShows
<1> QED BY <1>2, <1>3

-----------------------------------------------------------------------------
(* What each command has found about the workers stands while others move. *)

LEMMA ReapSettlesStands ==
    ASSUME Kept, Traced, [Next]_vars, NEW r \in Reaper, ReapReread(r), ReapSettles(r),
           pc'[r] = pc[r], at'[r] = at[r], task'[r] = task[r]
    PROVE  ReapSettles(r)'
<1> SUFFICES ASSUME pc[r] \in {"run", "settle"} PROVE ReapSettles(r)'
  BY DEF ReapSettles
<1>1. /\ Holding(r) /\ at[r] \in Path /\ at[r] = task[r].path /\ Keeps(task[r].m, at[r])
  BY DEF Holding, Kept, Typed, Placed, Homed, ReapHomed
<1>2. \A d \in Dispatcher : TokenPath[d] = at[r] => Launched(d)
  BY <1>1 DEF Traced, Unnamed
<1>3. Workers(at[r])' \subseteq Workers(at[r])
  BY <1>1, <1>2, HeldGetsNoWorker
<1>4. CASE task[r].kind = "stored"
  <2>1. task[r].m # NoMapping
    BY <1>4 DEF ReapReread
  <2>2. \A d \in Dispatcher : TokenPath[d] = at[r] => pc[d] \in {"record", "done"}
    BY <1>1, <2>1 DEF Keeps, Traced, Unnamed, Opened
  <2>3. disk'[at[r]] = disk[at[r]]
    BY <1>1, <2>2, HeldStays
  <2> QED BY <1>3, <1>4, <2>3 DEF ReapSettles
<1>5. CASE task[r].kind # "stored"
  BY <1>3, <1>5 DEF ReapSettles
<1> QED BY <1>4, <1>5

LEMMA ReapSettlesNoWorker ==
    ASSUME Kept, NEW r \in Reaper, Reaps(r), ReapReread(r), ReapSettles(r)
    PROVE  ReapSettles(r)'
<1> USE DEF Goto, LeaveTask, worldVars, fileVars
<1>1. ReapStep(r) /\ r \in Proc /\ DOMAIN pc = Proc
  BY DEF Reaps, Kept, Typed, TypeOK, Proc
<1>2. CASE pc'[r] \notin {"run", "settle"}
  BY <1>2 DEF ReapSettles
<1>3. CASE Recheck(r) /\ pc'[r] = "run"
  <2>1. /\ UNCHANGED <<disk, sess, home, at, task>> /\ StillJustified(task[r])
        /\ task[r].kind = "stored" /\ at[r] = task[r].path
    BY <1>1, <1>3 DEF Recheck, Holding, Kept, Homed, ReapHomed
  <2>2. disk[at[r]] # "instance" /\ Verdict(task[r].m.sess, at[r]) = "gone"
    BY <2>1 DEF StillJustified
  <2>3. task[r].m.sess \notin Workers(at[r])
    BY <2>2 DEF Verdict, Workers, RecordsAt
  <2> QED BY <2>1, <2>2, <2>3 DEF ReapSettles, Workers, RecordsAt
<1>4. CASE DestroyTarget(r) /\ pc'[r] = "run"
  <2>1. UNCHANGED <<sess, home, at, task>> /\ task[r].kind = "target" /\ pc[r] = "destroy"
    BY <1>1, <1>4 DEF DestroyTarget
  <2>2. Workers(at[r]) = {}
    BY <2>1 DEF ReapReread, Workers
  <2> QED BY <2>1, <2>2 DEF ReapSettles, Workers, RecordsAt
<1>5. CASE RunOnReap(r)
  <2>1. UNCHANGED <<disk, sess, home, at, task>> /\ pc[r] = "run"
    BY <1>5 DEF RunOnReap
  <2> QED BY <2>1 DEF ReapSettles, Workers, RecordsAt
<1>6. CASE pc'[r] \in {"run", "settle"} /\ ~Recheck(r) /\ ~DestroyTarget(r) /\ ~RunOnReap(r)
  <2>1. pc'[r] = pc[r] /\ UNCHANGED <<disk, sess, home, at, task>>
    BY <1>1, <1>6
       DEF ReapStep, SelectMapped, SelectBackstop, FinishSweep, TakeTask, SpareHeld, Spare,
           DestroyTargetFails, SettleMapping
  <2> QED BY <2>1 DEF ReapSettles, Workers, RecordsAt
<1>7. Recheck(r) => pc'[r] \in {"run", "destroy"}
  BY <1>1 DEF Recheck
<1>8. DestroyTarget(r) => pc'[r] \in {"run", "mapped", "backstop"}
  BY <1>1 DEF DestroyTarget
<1> QED BY <1>2, <1>3, <1>4, <1>5, <1>6, <1>7, <1>8

LEMMA ResumeMapsStands ==
    ASSUME Kept, Traced, [Next]_vars, NEW u \in Resumer, ResumeMaps(u),
           pc'[u] = pc[u], at'[u] = at[u], rec'[u] = rec[u], prev'[u] = prev[u],
           restored'[u] = restored[u], started'[u] = started[u]
    PROVE  ResumeMaps(u)'
<1>1. CASE pc[u] \in {"start", "resolved", "done"}
  BY <1>1 DEF ResumeMaps
<1>2. CASE pc[u] \notin {"start", "resolved", "done"}
  <2>0. PICK p \in Path : p = at[u]
    BY <1>2 DEF Kept, Typed, Placed
  <2>1. /\ Holding(u) /\ p \in Path /\ rec[u] \in Session /\ home[rec[u]] = p
        /\ pc[u] \in {"rekey", "finish"} => started[u] \in Session /\ home[started[u]] = p
    BY <1>2, <2>0 DEF Holding, Kept, Typed, Placed, TypeOK, ResumeTypeOK, Homed, ResumeHomed
  <2>2. \A d \in Dispatcher : TokenPath[d] = p => pc[d] = "done"
    BY <2>0 DEF Traced, Unnamed
  <2>3. /\ disk'[p] = disk[p] /\ MappedTo(p)' = MappedTo(p)
        /\ \A s \in Session : home[s] = p => mapping'[s] = mapping[s]
    BY <2>0, <2>1, <2>2, HeldStays
  <2>4. Workers(p)' \subseteq Workers(p)
    BY <2>0, <2>1, <2>2, HeldGetsNoWorker DEF Launched
  <2>5. EachIsMapped(p) => EachIsMapped(p)'
    BY <2>3, <2>4 DEF EachIsMapped, Workers, RecordsAt
  <2>6. /\ mapping'[rec[u]] = mapping[rec[u]]
        /\ pc[u] \in {"rekey", "finish"} => mapping'[started[u]] = mapping[started[u]]
    BY <2>1, <2>3
  <2>7. Workers(p)' # {} => Workers(p) # {}
    BY <2>4
  <2>8. at[u] = p /\ at'[u] = p
    BY <2>0
  <2> QED BY <2>3, <2>4, <2>5, <2>6, <2>7, <2>8 DEF ResumeMaps
<1> QED BY <1>1, <1>2

LEMMA DispatchMapsStands ==
    ASSUME Kept, Traced, [Next]_vars, NEW d \in Dispatcher, DispatchMaps(d),
           pc'[d] = pc[d], at'[d] = at[d], worker'[d] = worker[d]
    PROVE  DispatchMaps(d)'
<1> SUFFICES ASSUME pc[d] = "map" PROVE DispatchMaps(d)'
  BY DEF DispatchMaps
<1>1. at[d] = TokenPath[d] /\ at[d] \in Path
  BY DEF Kept, Homed, DispatchHomed
<1>2. \A u \in Resumer : at[u] # at[d]
  BY <1>1 DEF Traced, Unnamed
<1>3. \A e \in Dispatcher : TokenPath[e] = at[d] => Launched(e)
  <2>1. \A e \in Dispatcher : TokenPath[e] = at[d] => e = d
    BY <1>1
  <2> QED BY <2>1 DEF Launched
<1>4. Workers(at[d])' \subseteq Workers(at[d])
  BY <1>1, <1>2, <1>3, WorkersLeave
<1> QED BY <1>4 DEF DispatchMaps

LEMMA DispatchMapsItsWorker ==
    ASSUME Typed, NEW d \in Dispatcher, Dispatches(d)
    PROVE  DispatchMaps(d)'
<1> SUFFICES ASSUME pc'[d] = "map" PROVE DispatchMaps(d)'
  BY DEF DispatchMaps
<1>1. DispatchStep(d) /\ d \in Proc /\ DOMAIN pc = Proc /\ worker \in [Dispatcher -> Session \cup {None}]
  BY DEF Dispatches, Proc, Typed, TypeOK, DispatchTypeOK
<1>2. \E s \in Session : CaptureDispatched(d, s)
  BY <1>1
     DEF Exit, DispatchStep, BeginProvision, Provision, ProvisionFails, WriteAuthority, CreateLineage,
         EarlyFailure, LaunchDispatched, TurnEnds, CannotMap, WriteDispatchMapping,
         WriteLaunchRecord, WriteRetainMarker, RetainMarkerFails, RollbackDispatch, Goto, Return
<1>3. PICK s \in Session : CaptureDispatched(d, s)
  BY <1>2
<1>4. RecordsAt(at[d]) = {s} /\ worker'[d] = s /\ UNCHANGED <<sess, home, at>>
  BY <1>1, <1>3 DEF CaptureDispatched, worldVars
<1> QED BY <1>4 DEF DispatchMaps, Workers, RecordsAt

LEMMA ResumeMapsItsWorkers ==
    ASSUME Kept, NEW u \in Resumer, Resumes(u), KeepsItsInstance(u), ResumeMaps(u),
           \A p \in Path : Followed(p) => WorkersShow(p)
    PROVE  ResumeMaps(u)'
<1> USE DEF worldVars, fileVars, Goto, Return
<1> DEFINE p == at[u]
<1>1. /\ ResumeStep(u) /\ u \in Proc /\ DOMAIN pc = Proc /\ Typed /\ ResumeHomed(u)
      /\ mapping \in [Session -> Mapping \cup {NoMapping}]
      /\ restored \in [Resumer -> BOOLEAN] /\ prev \in [Resumer -> Mapping \cup {NoMapping}]
      /\ started \in [Resumer -> Session \cup {None}] /\ rec \in [Resumer -> Session \cup {None}]
      /\ disk \in [Path -> {"absent", "instance", "husk"}]
      /\ pc[u] \notin {"start", "done"} => p \in Path /\ rec[u] \in Session /\ home[rec[u]] = p
  BY DEF Resumes, Kept, Homed, ResumeHomed, Proc, Typed, Placed, TypeOK, StoreTypeOK, ResumeTypeOK
<1>2. pc[u] \notin {"start", "done"} => WorkersShow(p)
  BY <1>1 DEF Followed
<1>3. UNCHANGED <<sess, home, at>> => Workers(p)' = Workers(p)
  BY DEF Workers, RecordsAt
<1>4. CASE pc'[u] = "done"
  BY <1>4 DEF ResumeMaps
<1>5. CASE TakeResumeLock(u) \/ \E q \in Path : ResolveRecord(u, q)
  BY <1>1, <1>5 DEF TakeResumeLock, ResolveRecord, ResumeMaps, resumeVars
<1>6. CASE PassChecks(u)
  BY <1>1, <1>6 DEF PassChecks, ResumeMaps, resumeVars
<1>7. CASE BeginRestore(u)
  BY <1>1, <1>7 DEF BeginRestore, ResumeMaps, resumeVars
<1>8. CASE Restore(u)
  <2>1. /\ pc[u] = "provision" /\ pc'[u] = "map" /\ UNCHANGED <<mapping, sess, home, at>>
    BY <1>1, <1>8 DEF Restore
  <2>2. disk[p] # "instance"
    BY <2>1 DEF ResumeMaps
  <2>3. EachIsMapped(p)'
    BY <1>2, <1>3, <2>1, <2>2 DEF WorkersShow, EachIsMapped
  <2> QED BY <2>1, <2>3 DEF ResumeMaps
<1>9. CASE WriteMapping(u)
  <2>1. /\ pc[u] = "map" /\ pc'[u] = "start worker" /\ UNCHANGED <<disk, sess, home, at, rec, restored>>
        /\ prev'[u] = mapping[rec[u]]
        /\ mapping' = [mapping EXCEPT ![rec[u]] = NewMapping(u, rec[u])]
    BY <1>1, <1>9 DEF WriteMapping
  <2>2. /\ mapping'[rec[u]] # NoMapping
        /\ \A t \in Session : t # rec[u] => mapping'[t] = mapping[t]
    BY <1>1, <2>1 DEF NewMapping, NoMapping
  <2>3. restored[u] => EachIsMapped(p)
    BY <2>1 DEF ResumeMaps
  <2>4. restored[u] => EachIsMapped(p)'
    BY <1>3, <2>1, <2>2, <2>3 DEF EachIsMapped, Workers, RecordsAt
  <2>5. restored[u] /\ rec[u] \in Workers(p) => prev'[u] # NoMapping
    BY <2>1, <2>3 DEF EachIsMapped
  <2>6. Workers(p) # {} => prev'[u] # NoMapping \/ MappedTo(p)' \ {rec[u]} # {}
    <3> SUFFICES ASSUME Workers(p) # {}, prev'[u] = NoMapping
                 PROVE  MappedTo(p)' \ {rec[u]} # {}
      OBVIOUS
    <3>1. PICK t \in MappedTo(p) : TRUE
      BY <1>2, <2>1 DEF WorkersShow
    <3>2. t # rec[u] /\ t \in Session
      BY <2>1, <3>1 DEF MappedTo, Mapped
    <3>3. t \in MappedTo(p)'
      BY <2>1, <2>2, <3>1, <3>2 DEF MappedTo, Mapped
    <3> QED BY <3>2, <3>3
  <2>7. PICK q : q = at[u]
    OBVIOUS
  <2>8. /\ at'[u] = q /\ Workers(q)' = Workers(q) /\ (restored[u] => EachIsMapped(q)')
        /\ restored[u] /\ rec[u] \in Workers(q) => prev'[u] # NoMapping
        /\ Workers(q) # {} => prev'[u] # NoMapping \/ MappedTo(q)' \ {rec[u]} # {}
    BY <1>3, <2>1, <2>4, <2>5, <2>6, <2>7
  <2> QED BY <2>1, <2>2, <2>8 DEF ResumeMaps
<1>10. CASE MappingFails(u)
  <2>1. pc[u] = "map" /\ pc'[u] = "rollback" /\ UNCHANGED <<mapping, sess, home, at, restored>>
    BY <1>1, <1>10 DEF MappingFails, resumeVars
  <2> QED BY <2>1, <1>3 DEF ResumeMaps, EachIsMapped
<1>11. CASE \E s \in Session : LaunchWorker(u, s)
  <2>1. /\ pc[u] = "start worker" /\ pc'[u] = "capture" /\ UNCHANGED <<disk, mapping, at, rec>>
    BY <1>1, <1>11 DEF LaunchWorker
  <2> QED BY <2>1 DEF ResumeMaps, KeepsItsInstance
<1>12. CASE LaunchFails(u)
  <2>1. /\ pc[u] = "start worker" /\ pc'[u] = "undo"
        /\ UNCHANGED <<disk, mapping, sess, home, at, rec, prev, restored>>
    BY <1>1, <1>12 DEF LaunchFails, resumeVars
  <2>2. MappedTo(p)' = MappedTo(p) /\ Workers(p)' = Workers(p)
        /\ (EachIsMapped(p) => EachIsMapped(p)')
    BY <1>3, <2>1 DEF MappedTo, Mapped, EachIsMapped
  <2>3. PICK q : q = at[u]
    OBVIOUS
  <2>4. /\ at'[u] = q /\ disk[q] = "instance" /\ Workers(q)' = Workers(q)
        /\ MappedTo(q)' = MappedTo(q) /\ (EachIsMapped(q) => EachIsMapped(q)')
    BY <2>1, <2>2, <2>3 DEF KeepsItsInstance
  <2> QED BY <2>1, <2>3, <2>4 DEF ResumeMaps
<1>13. CASE Unmap(u)
  <2>1. /\ pc[u] = "undo" /\ pc'[u] = "rollback" /\ UNCHANGED <<sess, home, at, restored>>
        /\ \A t \in Session : t # rec[u] => mapping'[t] = mapping[t]
        /\ mapping'[rec[u]] \in {mapping[rec[u]], prev[u]}
    BY <1>1, <1>13 DEF Unmap, resumeVars
  <2>2. restored[u] => EachIsMapped(p)'
    BY <1>3, <2>1 DEF ResumeMaps, EachIsMapped, Workers, RecordsAt
  <2> QED BY <2>1, <2>2 DEF ResumeMaps
<1>14. CASE \E s \in Session : Capture(u, s)
  <2>1. PICK s \in Session : Capture(u, s)
    BY <1>14
  <2>2. /\ pc[u] = "capture" /\ pc'[u] = (IF s = rec[u] THEN "finish" ELSE "rekey")
        /\ UNCHANGED <<disk, at, rec>> /\ started'[u] = s
        /\ mapping' = [mapping EXCEPT ![s] = NewMapping(u, s)]
    BY <1>1, <2>1 DEF Capture
  <2>3. mapping'[s] # NoMapping
    BY <1>1, <2>2 DEF NewMapping, NoMapping
  <2> QED BY <2>2, <2>3 DEF ResumeMaps
<1>15. CASE DropOldMapping(u)
  <2>1. /\ pc[u] = "rekey" /\ pc'[u] = "finish" /\ UNCHANGED <<at, rec, started>>
        /\ \A t \in Session : t # rec[u] => mapping'[t] = mapping[t]
        /\ started[u] \in Session
    BY <1>1, <1>15 DEF DropOldMapping, resumeVars, ResumeHomed
  <2> QED BY <2>1 DEF ResumeMaps
<1>16. CASE RefuseHeld(u) \/ Refuse(u) \/ RestoreFails(u) \/ Rollback(u) \/ CaptureFails(u) \/ Finish(u)
  <2>1. pc'[u] = "done"
    BY <1>1, <1>16 DEF RefuseHeld, Refuse, RestoreFails, Rollback, CaptureFails, Finish
  <2> QED BY <1>4, <2>1
<1> HIDE DEF p
<1> QED BY <1>1, <1>5, <1>6, <1>7, <1>8, <1>9, <1>10, <1>11, <1>12, <1>13, <1>14, <1>15, <1>16
        DEF ResumeStep

(* The commands together: each keeps what it found, and what the others    *)
(* found stands.                                                           *)
LEMMA NextKeepsWorkersMapped ==
    ASSUME Destroyer = {}, LifecycleInv, WorkersInv, [Next]_vars
    PROVE  WorkersInv'
<1>1. /\ Kept /\ Traced /\ Guarded /\ Typed /\ DOMAIN pc = Proc
      /\ \A r \in Reaper : ReapReread(r) /\ ReapSettles(r)
      /\ \A u \in Resumer : KeepsItsInstance(u) /\ ResumeMaps(u)
      /\ \A d \in Dispatcher : DispatchMaps(d)
      /\ \A p \in Path : Followed(p) => WorkersShow(p)
  BY DEF LifecycleInv, Kept, Typed, TypeOK, Guarded, ResumeKeepsItsInstance, KeepsItsInstance, WorkersInv
<1>2. \A p \in Path : (Followed(p) => WorkersShow(p))'
  BY <1>1, NextShowsWorkers
<1> DEFINE Stands(x) == /\ pc'[x] = pc[x] /\ at'[x] = at[x]
                        /\ x \in Reaper => task'[x] = task[x]
                        /\ x \in Resumer => /\ rec'[x] = rec[x] /\ prev'[x] = prev[x]
                                            /\ restored'[x] = restored[x] /\ started'[x] = started[x]
                        /\ x \in Dispatcher => worker'[x] = worker[x]
<1>3. \A r \in Reaper : Stands(r) => ReapSettles(r)'
  BY <1>1, ReapSettlesStands
<1>4. \A u \in Resumer : Stands(u) => ResumeMaps(u)'
  BY <1>1, ResumeMapsStands
<1>5. \A d \in Dispatcher : Stands(d) => DispatchMaps(d)'
  BY <1>1, DispatchMapsStands
<1>6. ASSUME NEW x \in Proc, \A y \in Proc \ {x} : Stands(y),
             x \in Reaper => ReapSettles(x)',
             x \in Resumer => ResumeMaps(x)',
             x \in Dispatcher => DispatchMaps(x)'
      PROVE  WorkersInv'
  <2> HIDE DEF Stands
  <2>1. \A r \in Reaper : ReapSettles(r)'
    BY <1>3, <1>6 DEF Proc
  <2>2. \A u \in Resumer : ResumeMaps(u)'
    BY <1>4, <1>6 DEF Proc
  <2>3. \A d \in Dispatcher : DispatchMaps(d)'
    BY <1>5, <1>6 DEF Proc
  <2> QED BY <1>2, <2>1, <2>2, <2>3 DEF WorkersInv
<1>7. ASSUME NEW r \in Reaper, Reaps(r)
      PROVE  WorkersInv'
  <2>1. r \in Proc /\ r \notin Resumer \cup Dispatcher /\ ReapSettles(r)'
    BY <1>1, <1>7, ReapSettlesNoWorker DEF Proc
  <2>2. \A y \in Proc \ {r} : Stands(y)
    <3>1. Alone(r) /\ \A q \in Reaper \ {r} : task'[q] = task[q]
      BY <1>1, <1>7, ReapMovesItself
    <3>2. UNCHANGED <<resumeVars, dispatchVars>>
      BY <1>7 DEF Reaps
    <3> QED BY <3>1, <3>2 DEF Alone, resumeVars, dispatchVars
  <2> HIDE DEF Stands
  <2> QED BY <1>6, <2>1, <2>2
<1>8. ASSUME NEW u \in Resumer, Resumes(u)
      PROVE  WorkersInv'
  <2>1. u \in Proc /\ u \notin Reaper \cup Dispatcher /\ ResumeMaps(u)'
    BY <1>1, <1>8, ResumeMapsItsWorkers DEF Proc
  <2>2. \A y \in Proc \ {u} : Stands(y)
    <3>1. /\ Alone(u) /\ UNCHANGED <<reapVars, dispatchVars>>
          /\ \A v \in Resumer \ {u} : /\ rec'[v] = rec[v] /\ prev'[v] = prev[v]
                                      /\ started'[v] = started[v] /\ restored'[v] = restored[v]
      BY <1>1, <1>8, ResumeMovesItself DEF Resumes
    <3> QED BY <3>1 DEF Alone, reapVars, dispatchVars
  <2> HIDE DEF Stands
  <2> QED BY <1>6, <2>1, <2>2
<1>9. ASSUME NEW d \in Dispatcher, Dispatches(d)
      PROVE  WorkersInv'
  <2>1. d \in Proc /\ d \notin Reaper \cup Resumer /\ DispatchMaps(d)'
    BY <1>1, <1>9, DispatchMapsItsWorker DEF Proc
  <2>2. \A y \in Proc \ {d} : Stands(y)
    <3>1. /\ Alone(d) /\ UNCHANGED <<reapVars, resumeVars>>
          /\ \A e \in Dispatcher \ {d} : worker'[e] = worker[e]
      BY <1>1, <1>9, DispatchMovesItself DEF Dispatches
    <3> QED BY <3>1 DEF Alone, reapVars, resumeVars
  <2> HIDE DEF Stands
  <2> QED BY <1>6, <2>1, <2>2
<1>10. CASE WorldStep \/ UNCHANGED vars
  <2>1. \A y \in Proc : Stands(y)
    BY <1>10 DEF WorldStep, vars, reapVars, resumeVars, dispatchVars
  <2> HIDE DEF Stands
  <2>2. \A r \in Reaper : ReapSettles(r)'
    BY <1>3, <2>1 DEF Proc
  <2>3. \A u \in Resumer : ResumeMaps(u)'
    BY <1>4, <2>1 DEF Proc
  <2>4. \A d \in Dispatcher : DispatchMaps(d)'
    BY <1>5, <2>1 DEF Proc
  <2> QED BY <1>2, <2>2, <2>3, <2>4 DEF WorkersInv
<1>11. ASSUME NEW x \in Proc, Crash(x)
       PROVE  WorkersInv'
  <2>1. \A y \in Proc \ {x} : Stands(y)
    <3>1. at \in [Proc -> Path \cup {None}] /\ UNCHANGED <<resumeVars, worker>>
      BY <1>1, <1>11 DEF Typed, TypeOK, StoreTypeOK, Crash
    <3> QED BY <1>1, <1>11, <3>1 DEF Crash, Goto, resumeVars
  <2>2. pc'[x] = IF x \in Reaper THEN "idle" ELSE "done"
    BY <1>1, <1>11 DEF Crash, Goto
  <2>3. x \in Reaper => ReapSettles(x)'
    BY <2>2 DEF ReapSettles
  <2>4. x \in Resumer => ResumeMaps(x)'
    BY <2>2 DEF ResumeMaps
  <2>5. x \in Dispatcher => DispatchMaps(x)'
    BY <2>2 DEF DispatchMaps
  <2> HIDE DEF Stands
  <2> QED BY <1>6, <2>1, <2>3, <2>4, <2>5
<1>12. \A e \in Destroyer : FALSE
  OBVIOUS
<1> QED BY <1>7, <1>8, <1>9, <1>10, <1>11, <1>12 DEF Next

(* On any workspace where nothing is destroyed by hand, for any number of  *)
(* reaps, resumes and dispatches and wherever any of them dies: a worker   *)
(* niwa has a launch record for never runs in an instance that no mapping  *)
(* names, where the backstop would take it for an orphan's.  (A destroy    *)
(* that lists a resumed session gone, which it is under its old id, drops  *)
(* the one mapping a resume leaves when it cannot tell the new id.)        *)
THEOREM RunningWorkersStayMapped ==
    ASSUME Destroyer = {}
    PROVE  Spec => []RunningWorkersAreMapped
<1>1. Init => LifecycleInv /\ WorkersInv
  BY InvariantIsKept, InitiallyMapped
<1>2. LifecycleInv /\ WorkersInv /\ [Next]_vars => LifecycleInv' /\ WorkersInv'
  BY InvariantIsKept, NextKeepsWorkersMapped
<1>3. WorkersInv => RunningWorkersAreMapped
  <2> SUFFICES ASSUME WorkersInv, NEW p \in Path, launch[p] # None,
                      NEW s \in RecordsAt(p) \ ActivitySession
               PROVE  MappedTo(p) # {}
    BY DEF RunningWorkersAreMapped
  <2> QED BY DEF WorkersInv, Followed, WorkersShow, Workers
<1> QED BY <1>1, <1>2, <1>3, PTL DEF Spec

-----------------------------------------------------------------------------
(* While reaps and dispatches are alone at work, a mapping is settled by   *)
(* nobody before its instance is gone, and by one reap after that.         *)

(* What a reap writes back is still what the store holds. *)
Current(p, m) == disk[p] = "instance" => mapping[m.sess] = m

ReapCounts(r) ==
    /\ \A t \in queue[r] : t.kind = "target" => Current(t.path, t.m)
    /\ pc[r] \in {"recheck", "destroy"} /\ task[r].kind = "target" => Current(at[r], task[r].m)
    /\ pc[r] \in {"run", "settle"} =>
           disk[at[r]] # "instance" /\ mapping[task[r].m.sess] = task[r].m

CountedInv == \A r \in Reaper : ReapCounts(r)

(* A settlement changes the mapping of one session. *)
LEMMA SettlesItsOwn ==
    ASSUME StoreTypeOK, NEW r \in Reaper, SettleMapping(r), NEW s \in Session,
           mapping'[s] # mapping[s]
    PROVE  s = task[r].m.sess
BY DEF SettleMapping, Settled, StoreTypeOK

(* An instance whose session is selected is there as long as its mapping   *)
(* stands, and is not made anew.                                           *)
LEMMA SelectedStaysCurrent ==
    ASSUME Resumer = {}, Destroyer = {}, Kept, Traced, CountedInv, [Next]_vars,
           NEW t \in Task, Keeps(t.m, t.path), t.m # NoMapping, Current(t.path, t.m),
           \A d \in Dispatcher : TokenPath[d] = t.path => Opened(d)
    PROVE  Current(t.path, t.m)'
<1> USE DEF worldVars, fileVars, Goto, Return
<1> DEFINE p == t.path
           m == t.m
<1>1. /\ p \in Path /\ m.sess \in Session /\ home[m.sess] = p /\ m \in Mapping
      /\ Typed /\ StoreTypeOK /\ disk \in [Path -> {"absent", "instance", "husk"}]
  BY DEF Task, Mapping, Keeps, Kept, Typed, TypeOK, StoreTypeOK
<1>2. CASE disk'[p] = disk[p] /\ mapping'[m.sess] = mapping[m.sess]
  BY <1>2 DEF Current
<1>3. ASSUME NEW r \in Reaper, Reaps(r)
      PROVE  \/ disk'[p] = disk[p] /\ mapping'[m.sess] = mapping[m.sess]
             \/ disk'[p] # "instance"
  <2>1. ReapStep(r)
    BY <1>3 DEF Reaps
  <2>2. CASE disk'[p] # disk[p]
    <3>1. CASE disk[p] # "instance"
      BY <1>1, <2>1, <2>2, <3>1
         DEF ReapStep, SelectMapped, SelectBackstop, FinishSweep, TakeTask, SpareHeld, Recheck,
             Spare, DestroyTarget, DestroyTargetFails, RunOnReap, SettleMapping, RemovedTo,
             RemovalOutcome
    <3>2. CASE disk[p] = "instance"
      BY <2>2, <3>2
    <3> QED BY <3>1, <3>2
  <2>3. CASE mapping'[m.sess] # mapping[m.sess]
    <3>1. Holding(r) /\ at[r] = p
      BY <1>1, <1>3, <2>3, ReapChangesItsOwn DEF Kept, ChangesOnly
    <3>2. pc[r] = "settle" /\ disk' = disk
      BY <2>1, <2>3
         DEF ReapStep, SelectMapped, SelectBackstop, FinishSweep, TakeTask, SpareHeld, Recheck,
             Spare, DestroyTarget, DestroyTargetFails, RunOnReap, SettleMapping
    <3> QED BY <3>1, <3>2 DEF CountedInv, ReapCounts
  <2> QED BY <2>2, <2>3
<1>4. ASSUME NEW d \in Dispatcher, Dispatches(d)
      PROVE  disk'[p] = disk[p] /\ mapping'[m.sess] = mapping[m.sess]
  <2>1. CASE TokenPath[d] # p
    BY <1>1, <1>4, <2>1, DispatchChangesItsOwn DEF Kept, ChangesOnly
  <2>2. CASE TokenPath[d] = p
    <3>1. pc[d] \in {"record", "done"} /\ DispatchStep(d)
      BY <1>4, <2>2 DEF Opened, Dispatches
    <3>2. UNCHANGED <<disk, mapping>>
      BY <3>1
         DEF Exit, DispatchStep, BeginProvision, Provision, ProvisionFails, WriteAuthority,
             CreateLineage, EarlyFailure, LaunchDispatched, TurnEnds, CaptureDispatched, CannotMap,
             WriteDispatchMapping, WriteLaunchRecord, WriteRetainMarker, RetainMarkerFails,
             RollbackDispatch
    <3> QED BY <3>2
  <2> QED BY <2>1, <2>2
<1>5. CASE WorldStep \/ UNCHANGED vars \/ \E x \in Proc : Crash(x)
  <2>1. UNCHANGED <<disk, mapping>>
    BY <1>1, <1>5, NobodyIsLaunched
  <2> QED BY <1>2, <2>1
<1>6. disk'[p] # "instance" => Current(p, m)'
  BY DEF Current
<1> QED BY <1>2, <1>3, <1>4, <1>5, <1>6 DEF Next

LEMMA ReapCountsStands ==
    ASSUME Resumer = {}, Destroyer = {}, Kept, Traced, Guarded, CountedInv, [Next]_vars,
           NEW r \in Reaper, pc'[r] = pc[r], at'[r] = at[r], task'[r] = task[r],
           queue'[r] = queue[r]
    PROVE  ReapCounts(r)'
<1>1. /\ ReapCounts(r) /\ ReapReread(r) /\ ReapHomed(r) /\ queue[r] \subseteq Task
      /\ task[r] \in Task \cup {NoTask}
  BY DEF CountedInv, Guarded, Kept, Homed, Typed, TypeOK, ReapTypeOK
<1>2. \A d \in Dispatcher : Unnamed(d)
  BY DEF Traced
<1>3. \A t \in queue[r] \cup {task[r]} : t.kind \in {"target", "stored"} => t.m # NoMapping
  BY <1>1 DEF ReapReread
<1>4. ASSUME NEW t \in queue[r], t.kind = "target"
      PROVE  Current(t.path, t.m)'
  <2>1. /\ t \in Task /\ Keeps(t.m, t.path) /\ t.m # NoMapping /\ Current(t.path, t.m)
    BY <1>1, <1>3, <1>4 DEF ReapHomed, ReapCounts
  <2>2. \A d \in Dispatcher : TokenPath[d] = t.path => Opened(d)
    BY <1>2, <2>1 DEF Unnamed, Keeps
  <2> QED BY <2>1, <2>2, SelectedStaysCurrent
<1>5. ASSUME Holding(r), task[r].kind \in {"target", "stored"}
      PROVE  /\ disk'[at[r]] = disk[at[r]]
             /\ mapping'[task[r].m.sess] = mapping[task[r].m.sess]
  <2>1. /\ at[r] \in Path /\ Keeps(task[r].m, at[r]) /\ task[r].m # NoMapping
        /\ task[r].m.sess \in Session
    <3>1. at[r] \in Path /\ at[r] = task[r].path /\ Keeps(task[r].m, at[r])
      BY <1>1, <1>5 DEF Kept, Typed, Placed, ReapHomed
    <3>2. task[r].m # NoMapping /\ task[r] \in Task
      BY <1>1, <1>3, <1>5 DEF NoTask
    <3> QED BY <3>1, <3>2 DEF Task, Mapping
  <2>2. \A d \in Dispatcher : TokenPath[d] = at[r] => pc[d] \in {"record", "done"}
    BY <1>2, <2>1 DEF Unnamed, Keeps, Opened
  <2>3. home[task[r].m.sess] = at[r]
    BY <2>1 DEF Keeps
  <2> QED BY <1>5, <2>1, <2>2, <2>3, HeldStays
<1>6. pc[r] \in {"run", "settle"} => task[r].kind \in {"target", "stored"}
  BY <1>1 DEF ReapReread
<1>7. pc[r] \in {"recheck", "destroy"} /\ task[r].kind = "target" => Current(at[r], task[r].m)'
  BY <1>1, <1>5 DEF ReapCounts, Current, Holding
<1>8. pc[r] \in {"run", "settle"} =>
          disk'[at[r]] # "instance" /\ mapping'[task[r].m.sess] = task[r].m
  BY <1>1, <1>5, <1>6 DEF ReapCounts, Holding
<1> QED BY <1>4, <1>7, <1>8 DEF ReapCounts

LEMMA ReapCountsItsOwn ==
    ASSUME Resumer = {}, Destroyer = {}, Kept, Traced, Guarded, CountedInv,
           NEW r \in Reaper, Reaps(r)
    PROVE  ReapCounts(r)'
<1> USE DEF Goto, LeaveTask, worldVars, fileVars
<1>1. /\ ReapStep(r) /\ r \in Proc /\ DOMAIN pc = Proc /\ ReapCounts(r) /\ ReapReread(r)
      /\ ReapHomed(r) /\ [Next]_vars /\ at \in [Proc -> Path \cup {None}]
      /\ queue \in [Reaper -> SUBSET Task] /\ task \in [Reaper -> Task \cup {NoTask}]
  BY DEF Reaps, Proc, Next, CountedInv, Guarded, Kept, Homed, Typed, TypeOK, StoreTypeOK, ReapTypeOK
<1>2. \A t \in queue'[r] : t.kind = "target" => Current(t.path, t.m)'
  <2>1. CASE SelectMapped(r)
    <3>1. PICK pick \in JoinByPath : queue'[r] = ReapTargets(pick) \cup StoredTargets
      BY <1>1, <2>1 DEF SelectMapped
    <3>2. UNCHANGED mapping
      BY <2>1 DEF SelectMapped
    <3>3. \A t \in ReapTargets(pick) : mapping[t.m.sess] = t.m
      BY DEF ReapTargets, JoinByPath, MappedTo, Mapped, Kept, Homed, SessionHomed
    <3>4. \A t \in StoredTargets : t.kind # "target"
      BY DEF StoredTargets
    <3> QED BY <3>1, <3>2, <3>3, <3>4 DEF Current
  <2>2. CASE SelectBackstop(r)
    <3>1. queue'[r] = BackstopTargets
      BY <1>1, <2>2 DEF SelectBackstop
    <3>2. \A t \in BackstopTargets : t.kind # "target"
      BY DEF BackstopTargets
    <3> QED BY <3>1, <3>2
  <2>3. CASE ~SelectMapped(r) /\ ~SelectBackstop(r)
    <3>1. queue'[r] \subseteq queue[r]
      BY <1>1, <2>3
         DEF ReapStep, FinishSweep, TakeTask, SpareHeld, Recheck, Spare, DestroyTarget,
             DestroyTargetFails, RunOnReap, SettleMapping
    <3>2. ASSUME NEW t \in queue[r], t.kind = "target"
          PROVE  Current(t.path, t.m)'
      <4>1. t \in Task /\ Keeps(t.m, t.path) /\ t.m # NoMapping /\ Current(t.path, t.m)
        BY <1>1, <3>2 DEF ReapHomed, ReapCounts, ReapReread
      <4>2. \A d \in Dispatcher : TokenPath[d] = t.path => Opened(d)
        BY <4>1 DEF Traced, Unnamed, Keeps
      <4> QED BY <1>1, <4>1, <4>2, SelectedStaysCurrent
    <3> QED BY <3>1, <3>2
  <2> QED BY <2>1, <2>2, <2>3
<1> DEFINE Acted == /\ pc[r] \in {"recheck", "destroy"} /\ task[r].kind = "target"
                           => Current(at[r], task[r].m)
                    /\ pc[r] \in {"run", "settle"} =>
                           disk[at[r]] # "instance" /\ mapping[task[r].m.sess] = task[r].m
<1>3. Acted
  BY <1>1 DEF ReapCounts
<1>4. Acted'
  <2>1. CASE pc'[r] \notin {"recheck", "destroy", "run", "settle"}
    BY <2>1
  <2>2. CASE \E t \in queue[r] : TakeTask(r, t)
    <3>1. PICK t \in queue[r] : TakeTask(r, t)
      BY <2>2
    <3>2. pc'[r] = "recheck" /\ task'[r] = t /\ at'[r] = t.path /\ UNCHANGED <<disk, mapping>>
      BY <1>1, <3>1 DEF TakeTask
    <3>3. t.kind = "target" => Current(t.path, t.m)
      BY <1>1 DEF ReapCounts
    <3> QED BY <3>2, <3>3 DEF Current
  <2>3. CASE Recheck(r)
    <3>1. /\ pc[r] = "recheck" /\ UNCHANGED <<disk, mapping, at, task>> /\ StillJustified(task[r])
          /\ pc'[r] = IF task[r].kind = "stored" THEN "run" ELSE "destroy"
          /\ at[r] = task[r].path
      BY <1>1, <2>3 DEF Recheck, ReapHomed, Holding
    <3>2. CASE task[r].kind = "stored"
      BY <3>1, <3>2 DEF StillJustified
    <3>3. CASE task[r].kind # "stored"
      BY <1>3, <3>1, <3>3 DEF Current
    <3> QED BY <3>2, <3>3
  <2>4. CASE DestroyTarget(r)
    <3>1. /\ pc[r] = "destroy" /\ disk[at[r]] = "instance" /\ UNCHANGED mapping
          /\ task[r].kind = "target" => pc'[r] = "run" /\ UNCHANGED <<at, task>>
          /\ task[r].kind # "target" => pc'[r] \in {"mapped", "backstop"}
          /\ RemovedTo(at[r], "absent")
      BY <1>1, <2>4 DEF DestroyTarget
    <3>2. at[r] \in Path
      BY <3>1 DEF Kept, Typed, Placed, Holding
    <3>3. disk'[at[r]] = "absent"
      BY <3>1, <3>2 DEF RemovedTo, Kept, Typed, TypeOK, StoreTypeOK
    <3> QED BY <1>3, <3>1, <3>3 DEF Current
  <2>5. CASE RunOnReap(r)
    <3>1. pc[r] = "run" /\ pc'[r] = "settle" /\ UNCHANGED <<disk, mapping, at, task>>
      BY <1>1, <2>5 DEF RunOnReap
    <3> QED BY <1>3, <3>1
  <2>6. CASE \E t \in queue[r] : SpareHeld(r, t)
    <3>1. pc' = pc /\ pc[r] \in {"mapped", "backstop"}
      BY <2>6 DEF SpareHeld
    <3> QED BY <2>1, <3>1
  <2>7. CASE \/ SelectMapped(r) \/ SelectBackstop(r) \/ FinishSweep(r) \/ Spare(r)
             \/ DestroyTargetFails(r) \/ SettleMapping(r)
    <3>1. pc'[r] \in {"idle", "mapped", "backstop"}
      BY <1>1, <2>7 DEF SelectMapped, SelectBackstop, FinishSweep, Spare, DestroyTargetFails,
                        SettleMapping
    <3> QED BY <2>1, <3>1
  <2> QED BY <1>1, <2>2, <2>3, <2>4, <2>5, <2>6, <2>7 DEF ReapStep
<1> QED BY <1>2, <1>4 DEF ReapCounts

LEMMA NextKeepsCounts ==
    ASSUME Resumer = {}, Destroyer = {}, LifecycleInv, CountedInv, [Next]_vars
    PROVE  CountedInv'
<1> SUFFICES ASSUME NEW q \in Reaper PROVE ReapCounts(q)'
  BY DEF CountedInv
<1>1. Kept /\ Traced /\ Guarded /\ Typed /\ DOMAIN pc = Proc /\ q \in Proc
  BY DEF LifecycleInv, Kept, Typed, TypeOK, Proc
<1>2. CASE pc'[q] = pc[q] /\ at'[q] = at[q] /\ task'[q] = task[q] /\ queue'[q] = queue[q]
  BY <1>1, <1>2, ReapCountsStands
<1>3. ASSUME NEW r \in Reaper, Reaps(r)
      PROVE  ReapCounts(q)'
  <2>1. CASE r = q
    BY <1>1, <1>3, <2>1, ReapCountsItsOwn
  <2>2. CASE r # q
    BY <1>1, <1>2, <1>3, <2>2, ReapMovesItself DEF Alone
  <2> QED BY <2>1, <2>2
<1>4. ASSUME NEW d \in Dispatcher, Dispatches(d)
      PROVE  ReapCounts(q)'
  <2>1. d # q /\ Alone(d) /\ UNCHANGED reapVars
    BY <1>1, <1>4, DispatchMovesItself DEF Dispatches
  <2> QED BY <1>1, <1>2, <2>1 DEF Alone, reapVars
<1>5. CASE WorldStep \/ UNCHANGED vars
  BY <1>2, <1>5 DEF WorldStep, vars, reapVars
<1>6. ASSUME NEW x \in Proc, Crash(x)
      PROVE  ReapCounts(q)'
  <2>1. CASE x = q
    <3>1. pc'[q] = "idle" /\ queue'[q] = {}
      BY <1>1, <1>6, <2>1 DEF Crash, Goto
    <3> QED BY <3>1 DEF ReapCounts
  <2>2. CASE x # q
    BY <1>1, <1>2, <1>6, <2>2 DEF Crash, Goto, Typed, TypeOK, StoreTypeOK
  <2> QED BY <2>1, <2>2
<1> QED BY <1>3, <1>4, <1>5, <1>6 DEF Next

(* A step that leaves a mapping of the same writer has not lowered its     *)
(* count.                                                                  *)
LEMMA NextCountsRuns ==
    ASSUME Resumer = {}, Destroyer = {}, LifecycleInv, CountedInv, [Next]_vars,
           NEW s \in Session, mapping'[s] # NoMapping, mapping'[s].writer = mapping[s].writer
    PROVE  mapping'[s].fails >= mapping[s].fails
<1>1. /\ Kept /\ Traced /\ Typed /\ StoreTypeOK /\ mapping[s] \in Mapping \cup {NoMapping}
      /\ mapping[s].fails \in Nat
  BY DEF LifecycleInv, Kept, Typed, TypeOK, StoreTypeOK, Mapping, NoMapping
<1>2. CASE mapping'[s] = mapping[s]
  BY <1>1, <1>2
<1>3. ASSUME NEW r \in Reaper, Reaps(r)
      PROVE  mapping'[s].fails >= mapping[s].fails
  <2>1. CASE SettleMapping(r) /\ mapping'[s] # mapping[s]
    <3>1. s = task[r].m.sess
      BY <1>1, <2>1, SettlesItsOwn
    <3>2. mapping[s] = task[r].m /\ Settled(task[r].m, ran[r])
      BY <2>1, <3>1 DEF SettleMapping, CountedInv, ReapCounts
    <3>3. mapping'[s] = [mapping[s] EXCEPT !.fails = @ + 1]
      BY <1>1, <2>1, <3>1, <3>2 DEF Settled, StoreTypeOK
    <3>4. mapping'[s].fails = mapping[s].fails + 1
      BY <1>1, <3>3 DEF Mapping, NoMapping
    <3> QED BY <1>1, <3>4
  <2>2. CASE ~SettleMapping(r)
    BY <1>2, <1>3, <2>2
       DEF Reaps, ReapStep, SelectMapped, SelectBackstop, FinishSweep, TakeTask, SpareHeld, Recheck,
           Spare, DestroyTarget, DestroyTargetFails, RunOnReap, worldVars, fileVars
  <2> QED BY <1>2, <2>1, <2>2
<1>4. ASSUME NEW d \in Dispatcher, Dispatches(d)
      PROVE  mapping'[s].fails >= mapping[s].fails
  <2>1. CASE WriteDispatchMapping(d) /\ mapping'[s] # mapping[s]
    <3>1. s = worker[d] /\ pc[d] = "map" /\ mapping'[s].writer = d
      BY <1>1, <2>1 DEF WriteDispatchMapping, StoreTypeOK
    <3>2. home[s] = TokenPath[d] /\ ~Opened(d)
      BY <1>1, <3>1 DEF Kept, Homed, DispatchHomed, Opened
    <3>3. mapping[s] = NoMapping
      BY <1>1, <3>2 DEF Kept, Homed, SessionHomed, Traced, Unnamed
    <3>4. d # None
      BY DEF Proc
    <3> QED BY <3>1, <3>3, <3>4 DEF NoMapping
  <2>2. CASE ~WriteDispatchMapping(d)
    BY <1>2, <1>4, <2>2
       DEF Exit, Dispatches, DispatchStep, BeginProvision, Provision, ProvisionFails, WriteAuthority,
           CreateLineage, EarlyFailure, LaunchDispatched, TurnEnds, CaptureDispatched, CannotMap,
           WriteLaunchRecord, WriteRetainMarker, RetainMarkerFails, RollbackDispatch, worldVars
  <2> QED BY <1>2, <2>1, <2>2
<1>5. CASE WorldStep \/ UNCHANGED vars \/ \E x \in Proc : Crash(x)
  BY <1>1, <1>2, <1>5, NobodyIsLaunched
<1> QED BY <1>3, <1>4, <1>5 DEF Next

(* On any workspace, for any number of overlapping sweeps and dispatches   *)
(* and wherever any of them dies, no sweep forgets a failed on-reap run    *)
(* another one counted.  (A resume whose restore fails halfway makes an    *)
(* instance again whose mapping a sweep has settled, and destroys that     *)
(* fail leave one whose mapping they have settled: a sweep that selected   *)
(* it before then writes back a lower count.)                              *)
THEOREM FailedRunsStayCounted ==
    ASSUME Resumer = {}, Destroyer = {}
    PROVE  Spec => FailedRunsAreCounted
<1> DEFINE A == \A s \in Session :
                    mapping'[s] # NoMapping /\ mapping'[s].writer = mapping[s].writer
                        => mapping'[s].fails >= mapping[s].fails
<1>1. Init => LifecycleInv /\ CountedInv
  <2>1. Init => CountedInv
    <3>1. Init => \A r \in Reaper : pc[r] = "idle" /\ queue[r] = {}
      BY DEF Init, Proc
    <3> QED BY <3>1 DEF CountedInv, ReapCounts
  <2> QED BY <2>1, InvariantIsKept
<1>2. LifecycleInv /\ CountedInv /\ [Next]_vars => LifecycleInv' /\ CountedInv'
  BY InvariantIsKept, NextKeepsCounts
<1>3. LifecycleInv /\ CountedInv /\ [Next]_vars => A
  BY NextCountsRuns
<1> QED BY <1>1, <1>2, <1>3, PTL DEF Spec, FailedRunsAreCounted, A
=============================================================================
