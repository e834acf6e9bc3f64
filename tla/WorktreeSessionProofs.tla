------------------------ MODULE WorktreeSessionProofs ------------------------
(***************************************************************************)
(* What a worktree session promises, for any number of destroys, attaches  *)
(* and detaches, any of them killed or failing anywhere, any number of     *)
(* times.                                                                  *)
(***************************************************************************)
EXTENDS WorktreeSession, TLAPS

USE ConstantsAssumption DEF ConstantsAssumption

CreatorPC == {"new", "add", "record", "content", "baseline", "save", "idle"}
RemoverPC == {"idle", "read", "dirty", "end", "remove"}
AttacherPC == {"idle", "lock", "reap", "lock again", "preflight", "attached", "leaving"}
DetacherPC == {"idle", "signal", "unlink"}

(* Each process is at a step of its own; a detach that signals knows whom. *)
PCOK ==
    /\ DOMAIN pc = Actor
    /\ pc[Creator] \in CreatorPC
    /\ \A r \in Remover : pc[r] \in RemoverPC
    /\ \A a \in Attacher : pc[a] \in AttacherPC
    /\ \A d \in Detacher : pc[d] \in DetacherPC /\ (pc[d] = "signal" => target[d] \in Attacher \cup {Gone})

Typed == TypeOK /\ PCOK

(* Only changes of the worktree change its ignored files. *)
Counted == ignored <= works

Unrecorded == rec.status \in {"none", "reserved"}

(* The creator's part: until it has written the record nobody else is at   *)
(* work, and until it is done there is no baseline and no conversation.    *)
Created ==
    /\ Unrecorded => ~rec.conv /\ \A r \in Remover : At(r, "idle")
    /\ pc[Creator] \in {"new", "add", "record"} => Unrecorded
    /\ pc[Creator] \in {"content", "baseline", "save"} => ~Unrecorded
    /\ At(Creator, "record") => tree = "worktree"
    /\ ~At(Creator, "idle") => ~rec.conv /\ ~reopened /\ rec.print = None
    /\ At(Creator, "save") => /\ ~copy[Creator].conv
                              /\ copy[Creator].status \in {"active", "ended"}

(* A destroy's copy of the record is of this session: whether it can be    *)
(* attached to never changes, and a baseline comes last.                   *)
Copied ==
    \A r \in Remover : pc[r] \in {"dirty", "end"} =>
        /\ copy[r].conv = rec.conv
        /\ ~At(Creator, "idle") => copy[r].print = None

(* A worktree is removed only once its record says ended, and from then on *)
(* that is what the record says, but for a baseline saved late.            *)
EndedFirst ==
    /\ \A r \in Remover : At(r, "remove") =>
           /\ rec.status = "ended" \/ reopened
           /\ rec.conv => rec.status = "ended"
    /\ ActiveHasItsWorktree

Holds(a) == pc[a] \in {"preflight", "attached", "leaving"}

(* Who is past taking the lock has it, unless the directory it is in was   *)
(* removed; only a session with a conversation is attached to.             *)
Locked ==
    \A a \in Attacher : /\ ~At(a, "idle") => rec.conv
                        /\ Holds(a) => flock = a \/ rec.status = "ended"

IInv == Typed /\ Counted /\ Created /\ Copied /\ EndedFirst /\ Locked

(* What an unforced destroy has looked at is as it saw it, but for what    *)
(* has happened since.                                                     *)
Looked ==
    \A r \in Remover : Unforced(r) =>
        /\ /\ pc[r] \in {"dirty", "end", "remove"}
           /\ sentinel \in Attacher /\ At(sentinel, "attached")
           => "attach" \in since[r]
        /\ pc[r] \in {"end", "remove"} /\ "edits" \in work => "edits" \in since[r]

(* So is what a sweep has looked at, its session's job included.           *)
Swept ==
    \A r \in Remover : way[r] = "sweep" /\ ~At(r, "idle") =>
        /\ At(Creator, "idle")
        /\ "hidden" \in work => "hidden" \in since[r]
        /\ At(r, "read") /\ rec.status = "active" =>
               rec.print # None /\ (ignored # rec.print => "ignored" \in since[r])
        /\ pc[r] \in {"dirty", "end", "remove"} =>
               (ignored # copy[r].print => "ignored" \in since[r])
        /\ ~(job.atCreate /\ job.entry)
        /\ job.idle \/ ~job.entry \/ "resume" \in since[r]

-----------------------------------------------------------------------------
(* The records a create writes are records. *)
LEMMA RecordsAreRecords ==
    /\ NoRecord \in Record
    /\ [NoRecord EXCEPT !.status = "reserved"] \in Record
    /\ [NoRecord EXCEPT !.status = "active", !.conv = TRUE] \in Record
    /\ \A hook, base \in BOOLEAN :
           [NoRecord EXCEPT !.status = "active", !.hook = hook, !.base = base] \in Record
BY DEF Record, NoRecord

(* The initial states satisfy the invariant.                               *)
LEMMA InitiallyInv == Init => IInv
<1> SUFFICES ASSUME Init PROVE IInv
  OBVIOUS
<1>1. rec \in Record /\ NoRecord \in Record
  BY RecordsAreRecords DEF Init
<1>2. \/ /\ rec = NoRecord /\ tree = "absent" /\ branch = "absent"
         /\ pc = [x \in Actor |-> IF x = Creator THEN "new" ELSE "idle"]
      \/ /\ rec = [NoRecord EXCEPT !.status = "active", !.conv = TRUE]
         /\ tree = "worktree" /\ branch = "base" /\ pc = [x \in Actor |-> "idle"]
  BY DEF Init
<1>3. DOMAIN pc = Actor /\ \A x \in Actor \ {Creator} : pc[x] = "idle"
  BY <1>2 DEF Actor
<1>4. \/ rec.status = "none" /\ ~rec.conv /\ rec.print = None /\ pc[Creator] = "new"
      \/ rec.status = "active" /\ pc[Creator] = "idle" /\ tree = "worktree"
  <2>1. CASE rec = NoRecord /\ pc = [x \in Actor |-> IF x = Creator THEN "new" ELSE "idle"]
    BY <2>1 DEF Actor, NoRecord
  <2>2. CASE /\ rec = [NoRecord EXCEPT !.status = "active", !.conv = TRUE]
             /\ tree = "worktree" /\ pc = [x \in Actor |-> "idle"]
    BY <2>2 DEF Actor, NoRecord
  <2> QED BY <1>2, <2>1, <2>2
<1>5. PCOK
  BY <1>3, <1>4 DEF PCOK, Actor, CreatorPC, RemoverPC, AttacherPC, DetacherPC, Creator
<1>6. job \in [atCreate : BOOLEAN, entry : BOOLEAN, idle : BOOLEAN]
  <2>1. job \in [atCreate : {FALSE}, entry : {TRUE}, idle : {FALSE}]
        \/ job \in [atCreate : BOOLEAN, entry : {TRUE}, idle : {FALSE}]
    BY DEF Init
  <2> QED BY <2>1
<1>7. TypeOK
  <2>1. /\ tree \in {"absent", "worktree", "stub"} /\ branch \in {"absent", "base", "ahead"}
        /\ copy \in [Remover \cup {Creator} -> Record]
    BY <1>1, <1>2 DEF Init
  <2>2. /\ work = {} /\ ignored = 0 /\ works = 0 /\ sentinel = None /\ flock = None
        /\ way = [r \in Remover |-> None] /\ target = [d \in Detacher |-> None]
        /\ since = [r \in Remover |-> {}] /\ reopened = FALSE /\ events = 0
    BY DEF Init
  <2>3. ignored \in 0..MaxWorks /\ works \in 0..MaxWorks /\ events \in 0..MaxEvents
    BY <2>2
  <2>4. /\ way \in [Remover -> Way \cup {None}]
        /\ target \in [Detacher -> {None, Gone} \cup Attacher]
        /\ since \in [Remover -> SUBSET (Work \cup {"attach", "resume"})]
    BY <2>2
  <2>5. /\ work \subseteq {"edits", "hidden"} /\ reopened \in BOOLEAN
        /\ sentinel \in {None, Gone} \cup Attacher /\ flock \in {None} \cup Attacher
    BY <2>2
  <2> QED BY <1>1, <1>6, <2>1, <2>3, <2>4, <2>5 DEF TypeOK
<1>8. Created
  BY <1>3, <1>4 DEF Created, Unrecorded, At, Init, Actor, Creator
<1>9. Copied /\ EndedFirst /\ Locked
  BY <1>3, <1>4 DEF Copied, EndedFirst, Locked, ActiveHasItsWorktree, At, Holds, Actor, Creator
<1> QED BY <1>5, <1>7, <1>8, <1>9 DEF IInv, Typed, Counted, Init

-----------------------------------------------------------------------------
(* Types. *)

(* A process that moves to a step of its own leaves every process at one.  *)
LEMMA StepsKeepPlaces ==
    ASSUME PCOK, NEW x \in Actor, NEW label, Goto(x, label),
           x = Creator => label \in CreatorPC, x \in Remover => label \in RemoverPC,
           x \in Attacher => label \in AttacherPC, x \in Detacher => label \in DetacherPC,
           \A d \in Detacher : pc'[d] = "signal" => target'[d] \in Attacher \cup {Gone}
    PROVE  PCOK'
BY DEF PCOK, Goto, Actor

(* What is remembered to have happened since a destroy looked.             *)
LEMMA HappeningIsKept ==
    ASSUME since \in [Remover -> SUBSET (Work \cup {"attach", "resume"})],
           NEW what \in SUBSET (Work \cup {"attach", "resume"}), Happens(what)
    PROVE  since' \in [Remover -> SUBSET (Work \cup {"attach", "resume"})]
BY DEF Happens

LEMMA CreateKeepsTypes ==
    ASSUME Typed, Create PROVE Typed'
<1> USE DEF Typed, At, git, attach, removers, history
<1>1. CASE Reserve
  <2>1. TypeOK'
    BY <1>1, RecordsAreRecords DEF TypeOK, Reserve
  <2>2. PCOK'
    BY <1>1, StepsKeepPlaces DEF Reserve, Actor, CreatorPC, PCOK, Goto
  <2> QED BY <2>1, <2>2
<1>2. CASE AddWorktree
  <2>1. TypeOK'
    BY <1>2 DEF TypeOK, AddWorktree, Occurs
  <2>2. PCOK'
    BY <1>2, StepsKeepPlaces DEF AddWorktree, Actor, CreatorPC, PCOK, Goto
  <2> QED BY <2>1, <2>2
<1>3. ASSUME NEW hook \in BOOLEAN, WriteRecord(hook) PROVE Typed'
  <2>1. TypeOK'
    <3>1. rec' \in Record
      BY <1>3, RecordsAreRecords DEF TypeOK, WriteRecord
    <3>2. (tree' = tree \/ tree' = "absent") /\ (events' = events \/ Occurs)
      BY <1>3 DEF WriteRecord
    <3>3. tree' \in {"absent", "worktree", "stub"} /\ events' \in 0..MaxEvents
      BY <3>2 DEF TypeOK, Occurs
    <3> QED BY <1>3, <3>1, <3>3 DEF TypeOK, WriteRecord
  <2>2. PCOK'
    BY <1>3, StepsKeepPlaces DEF WriteRecord, Actor, CreatorPC, PCOK, Goto
  <2> QED BY <2>1, <2>2
<1>4. CASE InstallContent
  <2>1. TypeOK'
    <3>1. /\ tree' = tree \/ tree' \in {"absent", "stub"}
          /\ work' = work \/ work' = work \cup {"edits"}
          /\ UNCHANGED history \/ Happens({"edits"})
      BY <1>4 DEF InstallContent
    <3>2. since' \in [Remover -> SUBSET (Work \cup {"attach", "resume"})]
      BY <3>1, HappeningIsKept DEF TypeOK, Work
    <3>3. /\ tree' \in {"absent", "worktree", "stub"} /\ work' \subseteq {"edits", "hidden"}
          /\ reopened' = reopened
      BY <3>1 DEF TypeOK, Happens
    <3>4. way' \in [Remover -> Way \cup {None}] /\ events' \in 0..MaxEvents
      BY <1>4 DEF TypeOK, InstallContent, Occurs, Way
    <3> QED BY <1>4, <3>2, <3>3, <3>4 DEF TypeOK, InstallContent
  <2>2. PCOK'
    BY <1>4 DEF InstallContent, Actor, CreatorPC, RemoverPC, PCOK, Goto
  <2> QED BY <2>1, <2>2
<1>5. CASE ReadForBaseline
  <2>1. [rec EXCEPT !.print = ignored] \in Record
    BY DEF TypeOK, Record
  <2>2. TypeOK'
    BY <1>5, <2>1 DEF TypeOK, ReadForBaseline, Occurs
  <2>3. PCOK'
    BY <1>5, StepsKeepPlaces DEF ReadForBaseline, Actor, CreatorPC, PCOK, Goto
  <2> QED BY <2>2, <2>3
<1>6. CASE SaveBaseline
  <2>1. TypeOK'
    <3>1. rec' \in Record /\ copy' \in [Remover \cup {Creator} -> Record]
      <4>1. (rec' = copy[Creator] \/ rec' = rec) /\ copy' = [copy EXCEPT ![Creator] = NoRecord]
        BY <1>6 DEF SaveBaseline
      <4>2. rec \in Record /\ copy \in [Remover \cup {Creator} -> Record]
        BY DEF TypeOK
      <4>3. NoRecord \in Record
        BY RecordsAreRecords
      <4> QED BY <4>1, <4>2, <4>3
    <3>3. reopened' \in BOOLEAN
      BY <1>6 DEF TypeOK, SaveBaseline
    <3>2. events' \in 0..MaxEvents
      BY <1>6 DEF TypeOK, SaveBaseline, Occurs
    <3> QED BY <1>6, <3>1, <3>2, <3>3 DEF TypeOK, SaveBaseline
  <2>2. PCOK'
    BY <1>6, StepsKeepPlaces DEF SaveBaseline, Actor, CreatorPC, PCOK, Goto
  <2> QED BY <2>1, <2>2
<1> QED BY <1>1, <1>2, <1>3, <1>4, <1>5, <1>6 DEF Create

(* Stopping and removing keep the types. *)
LEMMA StoppingKeepsTypes ==
    ASSUME Typed, NEW r \in Remover, Stops(r), UNCHANGED target
    PROVE  /\ PCOK'
           /\ way' \in [Remover -> Way \cup {None}]
           /\ copy' \in [Remover \cup {Creator} -> Record]
           /\ since' \in [Remover -> SUBSET (Work \cup {"attach", "resume"})]
           /\ reopened' \in BOOLEAN
<1>1. PCOK'
  BY StepsKeepPlaces DEF Typed, PCOK, Stops, Goto, Actor, RemoverPC
<1>2. way' \in [Remover -> Way \cup {None}] /\ reopened' \in BOOLEAN
  BY DEF Typed, TypeOK, Stops
<1>3. NoRecord \in Record
  BY RecordsAreRecords
<1>4. copy' \in [Remover \cup {Creator} -> Record]
  BY <1>3 DEF Typed, TypeOK, Stops
<1>5. since' \in [Remover -> SUBSET (Work \cup {"attach", "resume"})]
  BY DEF Typed, TypeOK, Stops
<1> QED BY <1>1, <1>2, <1>4, <1>5

LEMMA BeginningKeepsTypes ==
    ASSUME Typed, NEW r \in Remover, NEW as \in Way, Begins(r, as, "read"), UNCHANGED target
    PROVE  PCOK' /\ way' \in [Remover -> Way \cup {None}]
<1>1. PCOK'
  BY StepsKeepPlaces DEF Typed, PCOK, Begins, Goto, Actor, RemoverPC
<1> QED BY <1>1 DEF Typed, TypeOK, Begins

LEMMA DestroysKeepTypes ==
    ASSUME Typed, NEW r \in Remover,
           \/ SweepSelects(r)
           \/ \E is \in BOOLEAN : HookSelects(r, is) \/ UserSelects(r, is)
           \/ ReadRecord(r) \/ CheckDirty(r) \/ EndRecord(r) \/ RemoveWorktree(r)
    PROVE  Typed'
<1> USE DEF Typed, At, git, attach, removers, history
<1>1. CASE SweepSelects(r)
  BY <1>1, BeginningKeepsTypes DEF SweepSelects, TypeOK, Way
<1>2. ASSUME NEW is \in BOOLEAN, HookSelects(r, is) PROVE Typed'
  BY <1>2, BeginningKeepsTypes DEF HookSelects, TypeOK, Way
<1>3. ASSUME NEW is \in BOOLEAN, UserSelects(r, is) PROVE Typed'
  <2>1. (IF is THEN "forced" ELSE "user") \in Way
    BY DEF Way
  <2> QED BY <1>3, <2>1, BeginningKeepsTypes DEF UserSelects, TypeOK
<1>4. CASE ReadRecord(r)
  <2>1. CASE Stops(r)
    BY <1>4, <2>1, StoppingKeepsTypes DEF ReadRecord, TypeOK
  <2>2. CASE /\ copy' = [copy EXCEPT ![r] = rec] /\ Goto(r, "dirty")
             /\ since' = [since EXCEPT ![r] = @ \ {"attach"}]
             /\ UNCHANGED <<way, reopened>>
    <3>1. TypeOK'
      BY <1>4, <2>2 DEF ReadRecord, TypeOK
    <3>2. PCOK'
      BY <1>4, <2>2, StepsKeepPlaces DEF ReadRecord, PCOK, Goto, Actor, RemoverPC
    <3> QED BY <3>1, <3>2
  <2> QED BY <1>4, <2>1, <2>2 DEF ReadRecord
<1>5. CASE CheckDirty(r)
  <2>1. CASE Stops(r)
    BY <1>5, <2>1, StoppingKeepsTypes DEF CheckDirty, TypeOK
  <2>2. CASE /\ Goto(r, "end") /\ since' = [since EXCEPT ![r] = @ \ {"edits"}]
             /\ UNCHANGED <<removers, reopened>>
    <3>1. TypeOK'
      BY <1>5, <2>2 DEF CheckDirty, TypeOK
    <3>2. PCOK'
      BY <1>5, <2>2, StepsKeepPlaces DEF CheckDirty, PCOK, Goto, Actor, RemoverPC
    <3> QED BY <3>1, <3>2
  <2> QED BY <1>5, <2>1, <2>2 DEF CheckDirty
<1>6. CASE EndRecord(r)
  <2>1. CASE Occurs /\ Stops(r) /\ UNCHANGED <<rec, tree>>
    BY <1>6, <2>1, StoppingKeepsTypes DEF EndRecord, TypeOK, Occurs
  <2>2. CASE EndFirst(r) /\ Goto(r, "remove") /\ UNCHANGED <<removers, history, events>>
    <3>1. [copy[r] EXCEPT !.status = "ended"] \in Record
      BY DEF TypeOK, Record
    <3>2. TypeOK'
      BY <1>6, <2>2, <3>1 DEF EndRecord, EndFirst, TypeOK
    <3>3. PCOK'
      BY <1>6, <2>2, StepsKeepPlaces DEF EndRecord, PCOK, Goto, Actor, RemoverPC
    <3> QED BY <3>2, <3>3
  <2> QED BY <1>6, <2>1, <2>2 DEF EndRecord
<1>7. CASE RemoveWorktree(r)
  <2>1. Stops(r) /\ UNCHANGED <<rec, ignored, works, job, target>>
    BY <1>7 DEF RemoveWorktree
  <2>2. /\ tree' = tree \/ tree' = "absent"
        /\ work' = work \/ work' = {}
        /\ sentinel' = sentinel \/ sentinel' = None
        /\ flock' = flock \/ flock' = None
        /\ branch' = branch \/ branch' = "absent"
        /\ events' = events \/ Occurs
    BY <1>7 DEF RemoveWorktree
  <2>3. events' \in 0..MaxEvents
    BY <2>2 DEF TypeOK, Occurs
  <2>4. /\ tree' \in {"absent", "worktree", "stub"} /\ branch' \in {"absent", "base", "ahead"}
        /\ work' \subseteq {"edits", "hidden"}
        /\ sentinel' \in {None, Gone} \cup Attacher /\ flock' \in {None} \cup Attacher
    BY <2>2 DEF TypeOK
  <2>5. /\ PCOK' /\ reopened' \in BOOLEAN
        /\ way' \in [Remover -> Way \cup {None}]
        /\ copy' \in [Remover \cup {Creator} -> Record]
        /\ since' \in [Remover -> SUBSET (Work \cup {"attach", "resume"})]
    BY <2>1, StoppingKeepsTypes
  <2>6. TypeOK'
    BY <2>1, <2>3, <2>4, <2>5 DEF TypeOK
  <2> QED BY <2>5, <2>6
<1> QED BY <1>1, <1>2, <1>3, <1>4, <1>5, <1>6, <1>7

(* A holder that goes is gone for whoever has read its name.               *)
LEMMA ForgettingKeepsTypes ==
    ASSUME target \in [Detacher -> {None, Gone} \cup Attacher], NEW a \in Attacher, Forgets(a)
    PROVE  /\ target' \in [Detacher -> {None, Gone} \cup Attacher]
           /\ \A d \in Detacher : target[d] \in Attacher \cup {Gone}
                                     => target'[d] \in Attacher \cup {Gone}
BY DEF Forgets

DyingTypes(a) ==
    /\ sentinel' \in {None, Gone} \cup Attacher /\ flock' \in {None} \cup Attacher
    /\ target' \in [Detacher -> {None, Gone} \cup Attacher]
    /\ \A d \in Detacher : target[d] \in Attacher \cup {Gone}
                              => target'[d] \in Attacher \cup {Gone}

LEMMA DyingKeepsTypes ==
    ASSUME TypeOK, NEW a \in Attacher, Dies(a) PROVE DyingTypes(a)
<1>1. Forgets(a) /\ target \in [Detacher -> {None, Gone} \cup Attacher]
  BY DEF Dies, TypeOK
<1> QED BY <1>1, ForgettingKeepsTypes DEF Dies, LetsGo, TypeOK, DyingTypes

LEMMA AttachesKeepTypes ==
    ASSUME Typed, Attaches PROVE Typed'
<1> USE DEF Typed, At, git, attach, removers, history
<1>1. ASSUME NEW a \in Attacher, ReadStatus(a) PROVE Typed'
  BY <1>1, StepsKeepPlaces DEF ReadStatus, TypeOK, PCOK, Goto, Actor, AttacherPC
<1>2. ASSUME NEW a \in Attacher, TakeLock(a) PROVE Typed'
  <2>1. TypeOK'
    BY <1>2 DEF TakeLock, TypeOK
  <2>2. \E label \in AttacherPC : Goto(a, label)
    BY <1>2 DEF TakeLock, AttacherPC
  <2>3. PCOK'
    BY <1>2, <2>2, StepsKeepPlaces DEF TakeLock, PCOK, Goto, Actor
  <2> QED BY <2>1, <2>3
<1>3. ASSUME NEW a \in Attacher, WriteSentinel(a) PROVE Typed'
  <2>1. /\ sentinel' = sentinel \/ sentinel' = a
        /\ flock' = flock \/ flock' = None
        /\ UNCHANGED history \/ Happens({"attach"})
        /\ UNCHANGED <<rec, git, job, removers, target, events>>
    BY <1>3 DEF WriteSentinel, LetsGo
  <2>2. since' \in [Remover -> SUBSET (Work \cup {"attach", "resume"})] /\ reopened' = reopened
    BY <2>1, HappeningIsKept DEF TypeOK, Happens
  <2>3. TypeOK'
    BY <2>1, <2>2 DEF TypeOK
  <2>4. PCOK'
    BY <1>3, <2>1, StepsKeepPlaces DEF WriteSentinel, PCOK, Goto, Actor, AttacherPC
  <2> QED BY <2>3, <2>4
<1>4. ASSUME NEW a \in Attacher, DropSentinel(a) PROVE Typed'
  BY <1>4, StepsKeepPlaces DEF DropSentinel, TypeOK, PCOK, Goto, Actor, AttacherPC
<1>5. ASSUME NEW a \in Attacher, DropLock(a) PROVE Typed'
  <2>1. flock' \in {None} \cup Attacher /\ Forgets(a)
    BY <1>5 DEF DropLock, LetsGo, TypeOK
  <2>2. TypeOK'
    BY <1>5, <2>1, ForgettingKeepsTypes DEF DropLock, TypeOK
  <2>3. Goto(a, "idle") /\ \A d \in Detacher : d # a
    BY <1>5 DEF DropLock
  <2>4. \A d \in Detacher : pc'[d] = "signal" => target'[d] \in Attacher \cup {Gone}
    <3>1. /\ \A d \in Detacher : pc'[d] = pc[d]
          /\ \A d \in Detacher : pc[d] = "signal" => target[d] \in Attacher \cup {Gone}
      BY <2>3 DEF PCOK, Goto, Actor
    <3> QED BY <2>1, <3>1, ForgettingKeepsTypes DEF TypeOK
  <2>5. PCOK'
    BY <2>3, <2>4, StepsKeepPlaces DEF Actor, AttacherPC
  <2> QED BY <2>2, <2>5
<1>6. ASSUME NEW a \in Attacher, ReapStale(a) \/ TakeLockAgain(a) PROVE Typed'
  <2>1. TypeOK'
    BY <1>6 DEF ReapStale, TakeLockAgain, TypeOK
  <2>2. UNCHANGED target /\ \E label \in AttacherPC : Goto(a, label)
    BY <1>6 DEF ReapStale, TakeLockAgain, AttacherPC
  <2>3. PCOK'
    BY <2>2, StepsKeepPlaces DEF PCOK, Goto, Actor
  <2> QED BY <2>1, <2>3
<1>7. ASSUME NEW d \in Detacher, ReadSentinel(d) PROVE Typed'
  BY <1>7, StepsKeepPlaces DEF ReadSentinel, TypeOK, PCOK, Goto, Actor, DetacherPC
<1>8. ASSUME NEW d \in Detacher, Signal(d) PROVE Typed'
  <2>1. CASE target[d] = Gone /\ Goto(d, "unlink") /\ UNCHANGED <<attach, target>>
    BY <1>8, <2>1, StepsKeepPlaces DEF Signal, TypeOK, PCOK, Goto, Actor, DetacherPC
  <2>2. ASSUME NEW a \in Attacher, Dies(a), pc' = [pc EXCEPT ![d] = "unlink", ![a] = "idle"]
        PROVE  Typed'
    <3>1. DyingTypes(a)
      BY <2>2, DyingKeepsTypes
    <3>2. TypeOK'
      BY <1>8, <3>1 DEF Signal, TypeOK, DyingTypes
    <3>3. \A e \in Detacher : e # d => pc'[e] = pc[e]
      BY <2>2 DEF PCOK, Actor
    <3>4. pc'[d] = "unlink"
      BY <2>2 DEF PCOK, Actor
    <3>5. \A x \in Actor \ {d, a} : pc'[x] = pc[x]
      BY <2>2 DEF PCOK
    <3>6. pc'[a] = "idle" /\ DOMAIN pc' = Actor
      BY <2>2 DEF PCOK, Actor
    <3> QED BY <3>1, <3>2, <3>3, <3>4, <3>5, <3>6
          DEF PCOK, DyingTypes, Actor, AttacherPC, DetacherPC, CreatorPC, RemoverPC
  <2> QED BY <1>8, <2>1, <2>2 DEF Signal
<1>9. ASSUME NEW d \in Detacher, UnlinkSentinel(d) PROVE Typed'
  BY <1>9, StepsKeepPlaces DEF UnlinkSentinel, TypeOK, PCOK, Goto, Actor, DetacherPC
<1> QED BY <1>1, <1>2, <1>3, <1>4, <1>5, <1>6, <1>7, <1>8, <1>9 DEF Attaches

LEMMA WorldKeepsTypes ==
    ASSUME Typed, Counted, World PROVE Typed'
<1> USE DEF Typed, At, git, attach, removers, history
<1>1. ASSUME NEW k \in Work, Works({k}) PROVE Typed'
  <2>1. since' \in [Remover -> SUBSET (Work \cup {"attach", "resume"})] /\ reopened' = reopened
    BY <1>1, HappeningIsKept DEF Works, TypeOK, Happens
  <2>2. work' \subseteq {"edits", "hidden"} /\ branch' \in {"absent", "base", "ahead"}
    BY <1>1 DEF Works, TypeOK
  <2>3. ignored' \in 0..MaxWorks /\ works' \in 0..MaxWorks
    BY <1>1 DEF Works, TypeOK, Counted
  <2>4. TypeOK'
    BY <1>1, <2>1, <2>2, <2>3 DEF Works, TypeOK
  <2> QED BY <1>1, <2>4 DEF Works, PCOK
<1>2. CASE CleansUp
  BY <1>2 DEF CleansUp, TypeOK, PCOK
<1>3. CASE JobMoves
  <2>1. UNCHANGED history \/ Happens({"resume"})
    BY <1>3 DEF JobMoves
  <2>2. since' \in [Remover -> SUBSET (Work \cup {"attach", "resume"})] /\ reopened' = reopened
    BY <2>1, HappeningIsKept DEF TypeOK, Happens
  <2>3. job' \in [atCreate : BOOLEAN, entry : BOOLEAN, idle : BOOLEAN]
    BY <1>3 DEF JobMoves, TypeOK
  <2>4. TypeOK'
    BY <1>3, <2>2, <2>3 DEF JobMoves, TypeOK
  <2> QED BY <1>3, <2>4 DEF JobMoves, PCOK
<1>4. ASSUME NEW x \in Actor, Kill(x) PROVE Typed'
  <2>1. since' \in [Remover -> SUBSET (Work \cup {"attach", "resume"})] /\ events' \in 0..MaxEvents
    BY <1>4 DEF Kill, Occurs, TypeOK
  <2>2. CASE x \in Attacher
    <3>1. Goto(x, "idle") /\ DyingTypes(x)
      BY <1>4, <2>2, DyingKeepsTypes DEF Kill
    <3>2. TypeOK'
      BY <1>4, <2>1, <2>2, <3>1 DEF Kill, TypeOK, DyingTypes
    <3>3. \A d \in Detacher : pc'[d] = "signal" => target'[d] \in Attacher \cup {Gone}
      BY <2>2, <3>1 DEF PCOK, Goto, Actor, DyingTypes
    <3>4. PCOK'
      BY <2>2, <3>1, <3>3, StepsKeepPlaces DEF AttacherPC
    <3> QED BY <3>2, <3>4
  <2>3. CASE x \notin Attacher
    <3>1. NoRecord \in Record
      BY RecordsAreRecords
    <3>2. copy' \in [Remover \cup {Creator} -> Record]
      BY <1>4, <2>3, <3>1 DEF Kill, TypeOK
    <3>3. way' \in [Remover -> Way \cup {None}] /\ target' \in [Detacher -> {None, Gone} \cup Attacher]
      BY <1>4, <2>3 DEF Kill, TypeOK
    <3>4. TypeOK'
      BY <1>4, <2>1, <2>3, <3>2, <3>3 DEF Kill, TypeOK
    <3>5. Goto(x, "idle") /\ \A d \in Detacher : d # x => target'[d] = target[d]
      BY <1>4, <2>3 DEF Kill, TypeOK
    <3>6. \A d \in Detacher : pc'[d] = "signal" => target'[d] \in Attacher \cup {Gone}
      BY <3>5 DEF PCOK, Goto, Actor
    <3>7. PCOK'
      BY <2>3, <3>5, <3>6, StepsKeepPlaces DEF CreatorPC, RemoverPC, DetacherPC
    <3> QED BY <3>4, <3>7
  <2> QED BY <2>2, <2>3
<1> QED BY <1>1, <1>2, <1>3, <1>4 DEF World, Work

LEMMA TypesAreKept ==
    ASSUME Typed, Counted, [Next]_vars PROVE Typed' /\ Counted'
<1>1. CASE UNCHANGED vars
  BY <1>1 DEF vars, git, attach, removers, history, Typed, TypeOK, PCOK, Counted
<1>2. CASE Create
  BY <1>2, CreateKeepsTypes DEF Create, Reserve, AddWorktree, WriteRecord, InstallContent,
       ReadForBaseline, SaveBaseline, git, Counted
<1>3. CASE Destroys
  BY <1>3, DestroysKeepTypes DEF Destroys, SweepSelects, HookSelects, UserSelects, ReadRecord,
       CheckDirty, EndRecord, RemoveWorktree, git, Counted
<1>4. CASE Attaches
  BY <1>4, AttachesKeepTypes DEF Attaches, ReadStatus, TakeLock, ReapStale, TakeLockAgain, WriteSentinel,
       DropSentinel, DropLock, ReadSentinel, Signal, UnlinkSentinel, git, Counted
<1>5. CASE World
  <2>1. \/ UNCHANGED <<ignored, works>>
        \/ works' = works + 1 /\ (ignored' = ignored \/ ignored' = ignored + 1)
    BY <1>5 DEF World, Works, CleansUp, JobMoves, Kill, git
  <2>2. ignored \in Nat /\ works \in Nat
    BY DEF Typed, TypeOK
  <2> QED BY <1>5, <2>1, <2>2, WorldKeepsTypes DEF Counted
<1> QED BY <1>1, <1>2, <1>3, <1>4, <1>5 DEF Next

-----------------------------------------------------------------------------
(* The create. *)

LEMMA CreateKeepsInv ==
    ASSUME IInv, Create PROVE Created' /\ Copied' /\ EndedFirst' /\ Locked'
<1> USE DEF IInv, At, git, attach, removers, history
<1>1. ~rec.conv /\ ~reopened /\ rec.print = None /\ \A a \in Attacher : At(a, "idle")
  BY DEF Create, Reserve, AddWorktree, WriteRecord, InstallContent, ReadForBaseline,
     SaveBaseline, Created, Locked, Creator
<1>2. /\ rec.status \in {"none", "reserved", "active", "ended"}
      /\ DOMAIN pc = Actor /\ DOMAIN copy = Remover \cup {Creator}
  BY DEF Typed, TypeOK, PCOK, Record
<1>3. CASE Reserve
  <2>1. /\ rec'.status = "reserved" /\ rec'.conv = FALSE /\ rec'.print = None
        /\ pc' = [pc EXCEPT ![Creator] = "add"] /\ UNCHANGED <<copy, reopened, flock>>
    BY <1>3 DEF Reserve, NoRecord, Goto
  <2>2. \A r \in Remover : At(r, "idle")
    BY <1>3 DEF Reserve, Created
  <2> QED BY <1>1, <1>2, <2>1, <2>2 DEF Created, Copied, EndedFirst, Locked, ActiveHasItsWorktree,
          Unrecorded, Holds, Actor, Creator
<1>4. CASE AddWorktree
  <2>1. Unrecorded /\ \A r \in Remover : At(r, "idle")
    BY <1>4 DEF AddWorktree, Created
  <2>2. /\ UNCHANGED <<rec, copy, reopened, flock>>
        /\ \/ pc' = [pc EXCEPT ![Creator] = "record"] /\ tree' = "worktree"
           \/ pc' = [pc EXCEPT ![Creator] = "idle"]
    BY <1>4 DEF AddWorktree, Goto
  <2> QED BY <1>1, <1>2, <2>1, <2>2 DEF Created, Copied, EndedFirst, Locked, ActiveHasItsWorktree,
          Unrecorded, Holds, Actor, Creator
<1>5. ASSUME NEW hook \in BOOLEAN, WriteRecord(hook)
      PROVE  Created' /\ Copied' /\ EndedFirst' /\ Locked'
  <2>1. Unrecorded /\ tree = "worktree" /\ \A r \in Remover : At(r, "idle")
    BY <1>5 DEF WriteRecord, Created
  <2>2. /\ UNCHANGED <<copy, reopened, flock>>
        /\ \/ /\ rec'.status = "active" /\ rec'.conv = FALSE /\ rec'.print = None
              /\ \E label \in {"content", "idle"} : pc' = [pc EXCEPT ![Creator] = label]
              /\ UNCHANGED tree
           \/ pc' = [pc EXCEPT ![Creator] = "idle"] /\ UNCHANGED rec
    BY <1>5 DEF WriteRecord, NoRecord, Goto
  <2>3. Created'
    BY <1>1, <1>2, <2>1, <2>2 DEF Created, Unrecorded, Actor, Creator
  <2>4. Copied'
    BY <1>1, <1>2, <2>1, <2>2 DEF Copied, Actor, Creator
  <2>5. EndedFirst'
    BY <1>1, <1>2, <2>1, <2>2 DEF EndedFirst, ActiveHasItsWorktree, Unrecorded, Actor, Creator
  <2>6. Locked'
    BY <1>1, <1>2, <2>1, <2>2 DEF Locked, Holds, Actor, Creator
  <2> QED BY <2>3, <2>4, <2>5, <2>6
<1>6. CASE InstallContent
  <2>1. ~Unrecorded
    BY <1>6 DEF InstallContent, Created
  <2>2. /\ UNCHANGED <<rec, copy, reopened, flock>>
        /\ tree = "absent" \/ UNCHANGED tree
        /\ \/ pc' = [pc EXCEPT ![Creator] = "baseline"]
           \/ \E r \in Remover : pc' = [pc EXCEPT ![Creator] = "idle", ![r] = "read"]
    BY <1>6 DEF InstallContent, Goto, Happens
  <2>3. /\ pc[Creator] = "content" /\ pc'[Creator] \in {"baseline", "idle"}
        /\ \A r \in Remover : pc'[r] \in {pc[r], "read"}
        /\ \A a \in Attacher : pc'[a] = pc[a]
    BY <1>2, <1>6, <2>2 DEF InstallContent, Actor, Creator
  <2>4. Created'
    BY <1>1, <2>1, <2>2, <2>3 DEF Created, Unrecorded
  <2>5. Copied'
    BY <2>2, <2>3 DEF Copied
  <2>6. EndedFirst'
    BY <2>2, <2>3 DEF EndedFirst, ActiveHasItsWorktree
  <2>7. Locked'
    BY <2>2, <2>3 DEF Locked, Holds
  <2> QED BY <2>4, <2>5, <2>6, <2>7
<1>7. CASE ReadForBaseline
  <2>1. ~Unrecorded
    BY <1>7 DEF ReadForBaseline, Created
  <2>2. /\ UNCHANGED <<rec, reopened, flock, tree>>
        /\ \A r \in Remover : copy'[r] = copy[r]
        /\ \/ /\ pc' = [pc EXCEPT ![Creator] = "save"]
              /\ copy'[Creator].conv = rec.conv /\ copy'[Creator].status = rec.status
           \/ pc' = [pc EXCEPT ![Creator] = "idle"]
    BY <1>2, <1>7 DEF ReadForBaseline, Goto, Typed, TypeOK, Record
  <2>3. /\ pc[Creator] = "baseline" /\ pc'[Creator] \in {"save", "idle"}
        /\ \A x \in Remover \cup Attacher : pc'[x] = pc[x]
    BY <1>2, <1>7, <2>2 DEF ReadForBaseline, Actor, Creator
  <2>4. Created'
    BY <1>1, <1>2, <2>1, <2>2, <2>3 DEF Created, Unrecorded, Actor
  <2>5. Copied'
    BY <2>2, <2>3 DEF Copied
  <2>6. EndedFirst'
    BY <2>2, <2>3 DEF EndedFirst, ActiveHasItsWorktree
  <2>7. Locked'
    BY <2>2, <2>3 DEF Locked, Holds
  <2> QED BY <2>4, <2>5, <2>6, <2>7
<1>8. CASE SaveBaseline
  <2>1. ~Unrecorded /\ ~copy[Creator].conv /\ copy[Creator].status \in {"active", "ended"}
    BY <1>8 DEF SaveBaseline, Created
  <2>2. /\ UNCHANGED <<flock, tree>> /\ \A r \in Remover : copy'[r] = copy[r]
        /\ pc' = [pc EXCEPT ![Creator] = "idle"]
        /\ \/ rec' = copy[Creator] /\ reopened' = (rec.status = "ended")
           \/ UNCHANGED <<rec, reopened>>
    BY <1>2, <1>8 DEF SaveBaseline, Goto
  <2>3. \A r \in Remover : pc[r] \in {"dirty", "end"} => copy[r].conv = rec.conv
    BY DEF Copied
  <2>4. rec' \in Record /\ copy \in [Remover \cup {Creator} -> Record] /\ rec \in Record
    BY <2>2 DEF Typed, TypeOK
  <2>5. ~rec'.conv /\ rec'.conv = rec.conv
    BY <1>1, <2>1, <2>2, <2>4 DEF Record
  <2> QED BY <1>1, <1>2, <2>1, <2>2, <2>3, <2>5 DEF Created, Copied, EndedFirst, Locked,
          ActiveHasItsWorktree, Unrecorded, Holds, Actor, Creator
<1> QED BY <1>3, <1>4, <1>5, <1>6, <1>7, <1>8 DEF Create

-----------------------------------------------------------------------------
(* The destroys. *)

LEMMA DestroysKeepInv ==
    ASSUME IInv, NEW r \in Remover,
           \/ SweepSelects(r)
           \/ \E is \in BOOLEAN : HookSelects(r, is) \/ UserSelects(r, is)
           \/ ReadRecord(r) \/ CheckDirty(r) \/ EndRecord(r) \/ RemoveWorktree(r)
    PROVE  Created' /\ Copied' /\ EndedFirst' /\ Locked'
<1> USE DEF IInv, At, git, attach, removers, history
<1> DEFINE Others == \A x \in Actor \ {r} : pc'[x] = pc[x]
<1>1. r \in Actor /\ DOMAIN pc = Actor /\ r # Creator /\ r \notin Attacher
  BY DEF Typed, PCOK, Actor
<1>2. DOMAIN copy = Remover \cup {Creator}
  BY DEF Typed, TypeOK
(* A destroy starts, or gives up. *)
<1>3. ASSUME ~Unrecorded, pc'[r] \in {"idle", "read"}, Others,
             \A x \in Remover \cup {Creator} : x # r => copy'[x] = copy[x],
             UNCHANGED <<rec, tree, reopened, flock>>
      PROVE  Created' /\ Copied' /\ EndedFirst' /\ Locked'
  <2>1. Created'
    BY <1>1, <1>3 DEF Created, Unrecorded, Actor
  <2>2. Copied'
    BY <1>1, <1>3 DEF Copied, Actor
  <2>3. EndedFirst'
    BY <1>1, <1>3 DEF EndedFirst, ActiveHasItsWorktree, Actor
  <2>4. Locked'
    BY <1>1, <1>3 DEF Locked, Holds, Actor
  <2> QED BY <2>1, <2>2, <2>3, <2>4
<1>4. ASSUME NEW as, Begins(r, as, "read"), rec.status = "active", UNCHANGED copy,
             UNCHANGED <<rec, tree, reopened, flock>>
      PROVE  Created' /\ Copied' /\ EndedFirst' /\ Locked'
  BY <1>1, <1>3, <1>4 DEF Begins, Goto, Unrecorded
<1>5. ASSUME Stops(r), ~At(r, "idle"), UNCHANGED <<rec, tree, flock>>
      PROVE  Created' /\ Copied' /\ EndedFirst' /\ Locked'
  <2>1. ~Unrecorded
    BY <1>5 DEF Created
  <2>2. /\ pc'[r] = "idle" /\ Others /\ UNCHANGED reopened
        /\ \A x \in Remover \cup {Creator} : x # r => copy'[x] = copy[x]
    BY <1>1, <1>2, <1>5 DEF Stops, Goto
  <2> QED BY <1>3, <1>5, <2>1, <2>2
<1>6. CASE SweepSelects(r)
  BY <1>4, <1>6 DEF SweepSelects
<1>7. ASSUME NEW is \in BOOLEAN, HookSelects(r, is) \/ UserSelects(r, is)
      PROVE  Created' /\ Copied' /\ EndedFirst' /\ Locked'
  BY <1>4, <1>7 DEF HookSelects, UserSelects
<1>8. CASE ReadRecord(r)
  <2>1. CASE Stops(r)
    BY <1>5, <1>8, <2>1 DEF ReadRecord
  <2>2. CASE copy' = [copy EXCEPT ![r] = rec] /\ Goto(r, "dirty") /\ UNCHANGED reopened
    <3>1. /\ pc'[r] = "dirty" /\ Others /\ copy'[r] = rec /\ rec.status = "active"
          /\ \A x \in Remover \cup {Creator} : x # r => copy'[x] = copy[x]
          /\ UNCHANGED <<rec, tree, reopened, flock>>
      BY <1>1, <1>2, <1>8, <2>2 DEF ReadRecord, Goto, Stops
    <3>2. Created'
      BY <1>1, <3>1 DEF Created, Unrecorded, Actor
    <3>3. Copied'
      BY <1>1, <3>1 DEF Copied, Created, Actor
    <3>4. EndedFirst'
      BY <1>1, <3>1 DEF EndedFirst, ActiveHasItsWorktree, Actor
    <3>5. Locked'
      BY <1>1, <3>1 DEF Locked, Holds, Actor
    <3> QED BY <3>2, <3>3, <3>4, <3>5
  <2> QED BY <1>8, <2>1, <2>2 DEF ReadRecord
<1>9. CASE CheckDirty(r)
  <2>1. CASE Stops(r)
    BY <1>5, <1>9, <2>1 DEF CheckDirty
  <2>2. CASE Goto(r, "end") /\ UNCHANGED <<removers, reopened>>
    <3>1. /\ pc[r] = "dirty" /\ pc'[r] = "end" /\ Others
          /\ UNCHANGED <<rec, tree, reopened, flock, copy>>
      BY <1>1, <1>9, <2>2 DEF CheckDirty, Goto
    <3>2. Created'
      BY <1>1, <3>1 DEF Created, Unrecorded, Actor
    <3>3. Copied'
      BY <1>1, <3>1 DEF Copied, Actor
    <3>4. EndedFirst'
      BY <1>1, <3>1 DEF EndedFirst, ActiveHasItsWorktree, Actor
    <3>5. Locked'
      BY <1>1, <3>1 DEF Locked, Holds, Actor
    <3> QED BY <3>2, <3>3, <3>4, <3>5
  <2> QED BY <1>9, <2>1, <2>2 DEF CheckDirty
<1>10. CASE EndRecord(r)
  <2>1. CASE Stops(r) /\ UNCHANGED <<rec, tree>>
    BY <1>5, <1>10, <2>1 DEF EndRecord
  <2>2. CASE EndFirst(r) /\ Goto(r, "remove") /\ UNCHANGED <<removers, history>>
    <3>1. copy[r] \in Record /\ copy[r].conv = rec.conv /\ ~Unrecorded
          /\ (~At(Creator, "idle") => copy[r].print = None)
      BY <1>10 DEF EndRecord, Typed, TypeOK, Copied, Created
    <3>2. rec' = [copy[r] EXCEPT !.status = "ended"]
      BY <2>2 DEF EndFirst
    <3>3. rec'.status = "ended" /\ rec'.conv = rec.conv /\ rec'.print = copy[r].print
      BY <3>1, <3>2 DEF Record
    <3>4. pc'[r] = "remove" /\ Others /\ UNCHANGED <<tree, reopened, flock, copy>>
      BY <1>1, <1>10, <2>2 DEF EndRecord, EndFirst, Goto
    <3>5. Created'
      BY <1>1, <3>1, <3>3, <3>4 DEF Created, Unrecorded, Actor
    <3>6. Copied'
      BY <1>1, <3>3, <3>4 DEF Copied, Actor
    <3>7. EndedFirst'
      BY <3>3 DEF EndedFirst, ActiveHasItsWorktree
    <3>8. Locked'
      BY <1>1, <3>3, <3>4 DEF Locked, Holds, Actor
    <3> QED BY <3>5, <3>6, <3>7, <3>8
  <2> QED BY <1>10, <2>1, <2>2 DEF EndRecord
<1>11. CASE RemoveWorktree(r)
  <2>1. CASE UNCHANGED <<tree, work, branch, attach>>
    BY <1>5, <1>11, <2>1 DEF RemoveWorktree
  <2>2. CASE tree' = "absent" /\ flock' = None
    <3>1. /\ ~Unrecorded /\ (rec.status = "ended" \/ reopened)
          /\ (rec.conv => rec.status = "ended")
      BY <1>11 DEF RemoveWorktree, Created, EndedFirst
    <3>2. /\ pc'[r] = "idle" /\ Others /\ UNCHANGED <<rec, reopened>>
          /\ \A x \in Remover \cup {Creator} : x # r => copy'[x] = copy[x]
      BY <1>1, <1>2, <1>11 DEF RemoveWorktree, Stops, Goto
    <3>3. Created'
      BY <1>1, <3>1, <3>2 DEF Created, Unrecorded, Actor
    <3>4. Copied'
      BY <1>1, <3>2 DEF Copied, Actor
    <3>5. EndedFirst'
      BY <1>1, <3>1, <3>2 DEF EndedFirst, ActiveHasItsWorktree, Actor
    <3>6. Locked'
      BY <1>1, <3>1, <3>2 DEF Locked, Holds, Actor
    <3> QED BY <3>3, <3>4, <3>5, <3>6
  <2> QED BY <1>11, <2>1, <2>2 DEF RemoveWorktree
<1> QED BY <1>6, <1>7, <1>8, <1>9, <1>10, <1>11

-----------------------------------------------------------------------------
(* Everybody else. *)

(* What attaches, detaches and the world outside may do to a session.      *)
LEMMA OthersKeepInv ==
    ASSUME IInv, UNCHANGED <<rec, reopened>>,
           \A x \in Remover \cup {Creator} :
               \/ pc'[x] = pc[x] /\ copy'[x] = copy[x]
               \/ pc'[x] = "idle" /\ pc[x] # "idle",
           tree' = tree \/ (tree = "absent" /\ tree' = "stub")
    PROVE  Created' /\ Copied' /\ EndedFirst'
<1> USE DEF IInv, At
<1>1. Created'
  BY DEF Created, Unrecorded
<1>2. Copied'
  BY DEF Copied
<1>3. EndedFirst'
  BY DEF EndedFirst, ActiveHasItsWorktree
<1> QED BY <1>1, <1>2, <1>3

(* One process moves, and lets go of no lock but its own. *)
LEMMA LockedIsKept ==
    ASSUME IInv, NEW x \in Actor, NEW label, Goto(x, label), UNCHANGED rec,
           flock' = flock \/ LetsGo(x),
           x \in Attacher =>
               /\ label # "idle" => rec.conv
               /\ label \in {"preflight", "attached", "leaving"} => Holds(x) /\ flock' = flock
    PROVE  Locked'
<1>1. /\ pc'[x] = label
      /\ \A a \in Attacher : a # x => pc'[a] = pc[a]
  BY DEF IInv, Typed, PCOK, Goto, Actor
<1>2. \A a \in Attacher : a # x => (flock = a => flock' = a)
  BY DEF LetsGo
<1>3. \A a \in Attacher : /\ ~At(a, "idle") => rec.conv
                          /\ Holds(a) => flock = a \/ rec.status = "ended"
  BY DEF IInv, Locked
<1>4. ASSUME NEW a \in Attacher, a # x
      PROVE  /\ pc'[a] # "idle" => rec.conv
             /\ pc'[a] \in {"preflight", "attached", "leaving"} => flock' = a \/ rec.status = "ended"
  BY <1>1, <1>2, <1>3, <1>4 DEF Holds, At
<1>5. ASSUME x \in Attacher
      PROVE  /\ pc'[x] # "idle" => rec.conv
             /\ pc'[x] \in {"preflight", "attached", "leaving"} => flock' = x \/ rec.status = "ended"
  BY <1>1, <1>3, <1>5
<1> QED BY <1>4, <1>5 DEF Locked, Holds, At

LEMMA AttachesKeepInv ==
    ASSUME IInv, Attaches PROVE Created' /\ Copied' /\ EndedFirst' /\ Locked'
<1> USE DEF At, git, attach, removers, history
<1>0. DOMAIN pc = Actor /\ Creator \notin Attacher \cup Detacher
  BY DEF IInv, Typed, PCOK
<1>1. /\ UNCHANGED <<rec, reopened, copy>>
      /\ tree' = tree \/ (tree = "absent" /\ tree' = "stub")
  BY DEF Attaches, ReadStatus, TakeLock, ReapStale, TakeLockAgain, WriteSentinel,
     DropSentinel, DropLock, ReadSentinel, Signal, UnlinkSentinel, Happens
<1>2. \A x \in Remover \cup {Creator} : pc'[x] = pc[x]
  <2>1. \/ \E x \in Attacher \cup Detacher : \E label : pc' = [pc EXCEPT ![x] = label]
        \/ \E d \in Detacher : \E a \in Attacher : pc' = [pc EXCEPT ![d] = "unlink", ![a] = "idle"]
    BY DEF Attaches, ReadStatus, TakeLock, ReapStale, TakeLockAgain, WriteSentinel,
       DropSentinel, DropLock, ReadSentinel, Signal, UnlinkSentinel, Goto
  <2> QED BY <1>0, <2>1 DEF Actor
<1>3. Created' /\ Copied' /\ EndedFirst'
  BY <1>1, <1>2, OthersKeepInv
<1>4. \A a \in Attacher : ~At(a, "idle") => rec.conv
  BY DEF IInv, Locked
<1>5. ASSUME NEW a \in Attacher,
             ReadStatus(a) \/ WriteSentinel(a) \/ DropSentinel(a) \/ DropLock(a) \/ ReapStale(a)
      PROVE  Locked'
  <2>1. ReadStatus(a) => rec.conv /\ Goto(a, "lock") /\ flock' = flock
    BY DEF ReadStatus
  <2>2. WriteSentinel(a) => /\ At(a, "preflight")
                            /\ \/ Goto(a, "attached") /\ flock' = flock
                               \/ Goto(a, "idle") /\ LetsGo(a)
    BY DEF WriteSentinel
  <2>3. DropSentinel(a) => At(a, "attached") /\ Goto(a, "leaving") /\ flock' = flock
    BY DEF DropSentinel
  <2>4. DropLock(a) => Goto(a, "idle") /\ LetsGo(a)
    BY DEF DropLock
  <2>5. ReapStale(a) => At(a, "reap") /\ Goto(a, "lock again") /\ flock' = flock
    BY DEF ReapStale
  <2> QED BY <1>1, <1>4, <1>5, <2>1, <2>2, <2>3, <2>4, <2>5, LockedIsKept DEF Holds, Actor
<1>6. ASSUME NEW a \in Attacher, TakeLock(a) \/ TakeLockAgain(a) PROVE Locked'
  <2>1. ~At(a, "idle")
    BY <1>6 DEF TakeLock, TakeLockAgain
  <2>2. CASE flock = None /\ flock' = a /\ Goto(a, "preflight")
    BY <1>0, <1>1, <1>4, <2>1, <2>2 DEF IInv, Locked, Holds, Actor, Goto
  <2>3. CASE flock' = flock /\ (Goto(a, "idle") \/ Goto(a, "reap"))
    <3>1. flock' = flock /\ \E label \in {"idle", "reap"} : Goto(a, label)
      BY <2>3
    <3> QED BY <1>1, <1>4, <2>1, <3>1, LockedIsKept DEF Actor
  <2> QED BY <1>6, <2>2, <2>3 DEF TakeLock, TakeLockAgain, LockIsFree
<1>7. ASSUME NEW d \in Detacher, ReadSentinel(d) \/ UnlinkSentinel(d) PROVE Locked'
  <2>1. flock' = flock /\ (Goto(d, "signal") \/ Goto(d, "idle"))
    BY <1>7 DEF ReadSentinel, UnlinkSentinel
  <2> QED BY <1>1, <2>1, LockedIsKept DEF Actor
<1>8. ASSUME NEW d \in Detacher, Signal(d) PROVE Locked'
  <2>1. CASE Goto(d, "unlink") /\ UNCHANGED flock
    BY <1>1, <2>1, LockedIsKept DEF Actor
  <2>2. ASSUME NEW a \in Attacher, Dies(a), pc' = [pc EXCEPT ![d] = "unlink", ![a] = "idle"]
        PROVE  Locked'
    <3>1. /\ pc'[a] = "idle" /\ LetsGo(a)
          /\ \A b \in Attacher : b # a => pc'[b] = pc[b]
      BY <1>0, <2>2 DEF Actor, Dies
    <3> QED BY <1>1, <3>1 DEF IInv, Locked, Holds, LetsGo
  <2> QED BY <1>8, <2>1, <2>2 DEF Signal
<1> QED BY <1>3, <1>5, <1>6, <1>7, <1>8 DEF Attaches

LEMMA WorldKeepsInv ==
    ASSUME IInv, World PROVE Created' /\ Copied' /\ EndedFirst' /\ Locked'
<1> USE DEF At, git, attach, removers, history
<1>1. CASE UNCHANGED <<rec, tree, pc, copy, flock, reopened>>
  BY <1>1, OthersKeepInv DEF IInv, Locked, Holds
<1>2. ASSUME NEW x \in Actor, Kill(x) PROVE Created' /\ Copied' /\ EndedFirst' /\ Locked'
  <2>1. /\ UNCHANGED <<rec, tree, reopened>>
        /\ \/ x \in Attacher /\ Goto(x, "idle") /\ LetsGo(x) /\ UNCHANGED copy
           \/ /\ x \notin Attacher /\ Goto(x, "idle") /\ UNCHANGED flock
              /\ copy' = IF x \in DOMAIN copy THEN [copy EXCEPT ![x] = NoRecord] ELSE copy
        /\ pc[x] # "idle"
    BY <1>2 DEF Kill, Dies
  <2>2. \A y \in Remover \cup {Creator} :
            \/ pc'[y] = pc[y] /\ copy'[y] = copy[y]
            \/ pc'[y] = "idle" /\ pc[y] # "idle"
    <3>1. DOMAIN pc = Actor /\ DOMAIN copy = Remover \cup {Creator}
      BY DEF IInv, Typed, TypeOK, PCOK
    <3>2. pc' = [pc EXCEPT ![x] = "idle"]
      BY <2>1 DEF Goto
    <3>3. \A y \in Remover \cup {Creator} : y # x => pc'[y] = pc[y] /\ copy'[y] = copy[y]
      BY <2>1, <3>1, <3>2 DEF Actor
    <3>4. x \in Remover \cup {Creator} => pc'[x] = "idle"
      BY <2>1, <3>1 DEF Goto, Actor
    <3>5. pc[x] # "idle"
      BY <2>1
    <3> QED BY <3>3, <3>4, <3>5
  <2>3. Created' /\ Copied' /\ EndedFirst'
    BY <2>1, <2>2, OthersKeepInv
  <2>4. x \in Attacher => rec.conv
    BY <2>1 DEF IInv, Locked
  <2>5. Locked'
    BY <2>1, <2>4, LockedIsKept
  <2> QED BY <2>3, <2>5
<1> QED BY <1>1, <1>2 DEF World, Works, CleansUp, JobMoves, Happens

LEMMA StepKeepsInv ==
    ASSUME IInv, [Next]_vars PROVE IInv'
<1>1. Typed' /\ Counted'
  BY TypesAreKept DEF IInv
<1>2. CASE UNCHANGED vars
  BY <1>1, <1>2, OthersKeepInv DEF vars, git, attach, removers, history, IInv, Locked, Holds, At
<1>3. CASE Destroys
  BY <1>1, <1>3, DestroysKeepInv DEF Destroys, IInv
<1> QED BY <1>1, <1>2, <1>3, CreateKeepsInv, AttachesKeepInv, WorldKeepsInv DEF Next, IInv

-----------------------------------------------------------------------------
(* What a destroy finds changed was changed since it looked. *)

(* What a step does to a destroy that is under way and does not move in it. *)
Seen(r) ==
    /\ way'[r] = way[r] /\ copy'[r] = copy[r] /\ since[r] \subseteq since'[r]
    /\ sentinel' \in Attacher /\ pc'[sentinel'] = "attached" =>
           \/ sentinel' = sentinel /\ pc[sentinel] = "attached"
           \/ "attach" \in since'[r]
    /\ work' \ work \subseteq since'[r]
    /\ ignored' # ignored => "ignored" \in since'[r]
    /\ At(Creator, "idle") => pc'[Creator] = "idle" /\ (rec' = rec \/ rec'.status # "active")
    /\ job'.atCreate = job.atCreate /\ (job'.entry => job.entry)
    /\ job.idle /\ ~job'.idle => "resume" \in since'[r]

LEMMA HappeningIsSeen ==
    ASSUME IInv, NEW r \in Remover, ~At(r, "idle"), NEW what, Happens(what)
    PROVE  since'[r] = since[r] \cup what
BY DEF Happens, IInv, Typed, TypeOK

LEMMA CreateIsSeen ==
    ASSUME IInv, Create, NEW r \in Remover, ~At(r, "idle"), pc'[r] = pc[r] PROVE Seen(r)
<1> USE DEF At, git, attach, removers, history
<1>1. /\ DOMAIN pc = Actor /\ sentinel \in {None, Gone} \cup Attacher /\ DOMAIN copy = Remover \cup {Creator}
      /\ way \in [Remover -> Way \cup {None}]
  BY DEF IInv, Typed, TypeOK, PCOK
<1>2. pc[Creator] # "idle" /\ UNCHANGED <<sentinel, job, ignored>>
  BY DEF Create, Reserve, AddWorktree, WriteRecord, InstallContent, ReadForBaseline, SaveBaseline
<1>3. \A a \in Attacher : pc'[a] = pc[a]
  <2>1. \/ \E label : pc' = [pc EXCEPT ![Creator] = label]
        \/ \E label : \E q \in Remover : pc' = [pc EXCEPT ![Creator] = label, ![q] = "read"]
    BY DEF Create, Reserve, AddWorktree, WriteRecord, InstallContent, ReadForBaseline, SaveBaseline,
       Goto
  <2> QED BY <1>1, <2>1 DEF Actor
<1>4. copy'[r] = copy[r]
  BY <1>1 DEF Create, Reserve, AddWorktree, WriteRecord, InstallContent, ReadForBaseline, SaveBaseline
<1>5. way'[r] = way[r]
  BY <1>1 DEF Create, Reserve, AddWorktree, WriteRecord, InstallContent, ReadForBaseline, SaveBaseline
<1>6. \/ UNCHANGED <<work, since>>
      \/ Happens({"edits"}) /\ work' \subseteq work \cup {"edits"}
  BY DEF Create, Reserve, AddWorktree, WriteRecord, InstallContent, ReadForBaseline, SaveBaseline
<1>7. since[r] \subseteq since'[r] /\ work' \ work \subseteq since'[r]
  BY <1>6, HappeningIsSeen
<1> QED BY <1>1, <1>2, <1>3, <1>4, <1>5, <1>7 DEF Seen

LEMMA DestroysAreSeen ==
    ASSUME IInv, NEW q \in Remover, NEW r \in Remover, ~At(r, "idle"), pc'[r] = pc[r],
           \/ SweepSelects(q)
           \/ \E is \in BOOLEAN : HookSelects(q, is) \/ UserSelects(q, is)
           \/ ReadRecord(q) \/ CheckDirty(q) \/ EndRecord(q) \/ RemoveWorktree(q)
    PROVE  Seen(r)
<1> USE DEF At, git, attach, removers, history
<1>1. /\ DOMAIN pc = Actor /\ sentinel \in {None, Gone} \cup Attacher /\ DOMAIN copy = Remover \cup {Creator}
      /\ DOMAIN way = Remover /\ DOMAIN since = Remover /\ copy[q] \in Record
  BY DEF IInv, Typed, TypeOK, PCOK
<1>2. \E label : pc' = [pc EXCEPT ![q] = label] /\ label # pc[q]
  BY DEF SweepSelects, HookSelects, UserSelects, ReadRecord, CheckDirty, EndRecord, RemoveWorktree,
     Begins, Stops, Goto
<1>3. /\ q # r /\ pc'[Creator] = pc[Creator]
      /\ \A a \in Attacher : pc'[a] = pc[a]
  BY <1>1, <1>2 DEF Actor
<1>4. /\ UNCHANGED <<ignored, job>> /\ work' \subseteq work
      /\ sentinel' = sentinel \/ sentinel' = None
  BY DEF SweepSelects, HookSelects, UserSelects, ReadRecord, CheckDirty, EndRecord, RemoveWorktree
<1>5. rec' = rec \/ rec' = [copy[q] EXCEPT !.status = "ended"]
  BY DEF SweepSelects, HookSelects, UserSelects, ReadRecord, CheckDirty, EndRecord, RemoveWorktree,
     EndFirst
<1>6. rec' = rec \/ rec'.status = "ended"
  BY <1>1, <1>5 DEF Record
<1>7. copy'[r] = copy[r]
  BY <1>1, <1>3 DEF SweepSelects, HookSelects, UserSelects, ReadRecord, CheckDirty, EndRecord,
     RemoveWorktree, Stops
<1>8. way'[r] = way[r]
  BY <1>1, <1>3 DEF SweepSelects, HookSelects, UserSelects, ReadRecord, CheckDirty, EndRecord,
     RemoveWorktree, Begins, Stops
<1>9. since'[r] = since[r]
  BY <1>1, <1>3 DEF SweepSelects, HookSelects, UserSelects, ReadRecord, CheckDirty, EndRecord,
     RemoveWorktree, Stops
<1> QED BY <1>1, <1>3, <1>4, <1>6, <1>7, <1>8, <1>9 DEF Seen

LEMMA AttachesAreSeen ==
    ASSUME IInv, Attaches, NEW r \in Remover, ~At(r, "idle") PROVE Seen(r)
<1> USE DEF At, git, attach, removers, history
<1>1. DOMAIN pc = Actor /\ sentinel \in {None, Gone} \cup Attacher
  BY DEF IInv, Typed, TypeOK, PCOK
<1>2. UNCHANGED <<rec, work, ignored, job, way, copy>>
  BY DEF Attaches, ReadStatus, TakeLock, ReapStale, TakeLockAgain, WriteSentinel, DropSentinel,
     DropLock, ReadSentinel, Signal, UnlinkSentinel
<1>3. UNCHANGED since \/ Happens({"attach"})
  BY DEF Attaches, ReadStatus, TakeLock, ReapStale, TakeLockAgain, WriteSentinel, DropSentinel,
     DropLock, ReadSentinel, Signal, UnlinkSentinel
<1>4. since[r] \subseteq since'[r] /\ (Happens({"attach"}) => "attach" \in since'[r])
  BY <1>3, HappeningIsSeen
<1> DEFINE Quiet ==
            /\ \/ \E x \in Attacher \cup Detacher :
                      \E label \in (AttacherPC \ {"attached"}) \cup DetacherPC :
                          pc' = [pc EXCEPT ![x] = label]
               \/ \E d \in Detacher, a \in Attacher : pc' = [pc EXCEPT ![d] = "unlink", ![a] = "idle"]
            /\ sentinel' \in {sentinel, None, Gone}
<1>5. Happens({"attach"}) \/ Quiet
  <2>1. ASSUME NEW a \in Attacher, WriteSentinel(a) PROVE Happens({"attach"}) \/ Quiet
    BY <2>1 DEF WriteSentinel, Goto, AttacherPC
  <2>2. ASSUME NEW d \in Detacher, Signal(d) PROVE Quiet
    BY <2>2 DEF Signal, Goto, DetacherPC, Dies
  <2> QED BY <2>1, <2>2 DEF Attaches, ReadStatus, TakeLock, ReapStale, TakeLockAgain, DropSentinel,
          DropLock, ReadSentinel, UnlinkSentinel, Goto, AttacherPC, DetacherPC
<1>6. sentinel' \in Attacher /\ pc'[sentinel'] = "attached" =>
          \/ sentinel' = sentinel /\ pc[sentinel] = "attached"
          \/ Happens({"attach"})
  BY <1>1, <1>5 DEF Actor, AttacherPC, DetacherPC
<1>7. pc'[Creator] = pc[Creator]
  <2>1. \/ \E x \in Attacher \cup Detacher : \E label : pc' = [pc EXCEPT ![x] = label]
        \/ \E d \in Detacher : \E a \in Attacher : pc' = [pc EXCEPT ![d] = "unlink", ![a] = "idle"]
    BY DEF Attaches, ReadStatus, TakeLock, ReapStale, TakeLockAgain, WriteSentinel,
       DropSentinel, DropLock, ReadSentinel, Signal, UnlinkSentinel, Goto
  <2> QED BY <1>1, <2>1 DEF Actor
<1> QED BY <1>2, <1>4, <1>6, <1>7 DEF Seen

LEMMA WorldIsSeen ==
    ASSUME IInv, World, NEW r \in Remover, ~At(r, "idle"), pc'[r] = pc[r] PROVE Seen(r)
<1> USE DEF At, git, attach, removers, history
<1>1. /\ DOMAIN pc = Actor /\ sentinel \in {None, Gone} \cup Attacher
      /\ job \in [atCreate : BOOLEAN, entry : BOOLEAN, idle : BOOLEAN]
  BY DEF IInv, Typed, TypeOK, PCOK
<1>2. ASSUME NEW k \in Work, Works({k}) PROVE Seen(r)
  <2>1. since'[r] = since[r] \cup ({k} \ {"commits"})
    BY <1>2, HappeningIsSeen DEF Works
  <2>2. /\ UNCHANGED <<rec, sentinel, job, pc, way, copy>>
        /\ work' \ work \subseteq {k} \ {"commits"} /\ (ignored' # ignored => k = "ignored")
    BY <1>2 DEF Works
  <2> QED BY <2>1, <2>2 DEF Seen
<1>3. CASE CleansUp
  BY <1>3 DEF CleansUp, Seen
<1>4. CASE JobMoves
  <2>1. /\ UNCHANGED <<rec, work, ignored, sentinel, pc, way, copy>>
        /\ IF job.idle /\ ~job'.idle THEN Happens({"resume"}) ELSE UNCHANGED since
    BY <1>4 DEF JobMoves
  <2>2. job'.atCreate = job.atCreate /\ (job'.entry => job.entry)
    BY <1>1, <1>4 DEF JobMoves
  <2>3. since[r] \subseteq since'[r] /\ (job.idle /\ ~job'.idle => "resume" \in since'[r])
    BY <2>1, HappeningIsSeen
  <2> QED BY <2>1, <2>2, <2>3 DEF Seen
<1>5. ASSUME NEW x \in Actor, Kill(x) PROVE Seen(r)
  <2>1. Goto(x, "idle") /\ pc[x] # "idle"
    BY <1>5 DEF Kill
  <2>2. /\ x # r /\ (pc'[Creator] = pc[Creator] \/ pc'[Creator] = "idle" \/ x = Creator)
        /\ \A a \in Attacher : pc'[a] = pc[a] \/ pc'[a] # "attached"
    BY <1>1, <2>1 DEF Goto, Actor
  <2>3. way'[r] = way[r] /\ copy'[r] = copy[r] /\ since'[r] = since[r]
    BY <1>5, <2>2 DEF Kill, IInv, Typed, TypeOK
  <2>4. UNCHANGED <<rec, work, ignored, job>> /\ sentinel' \in {sentinel, Gone}
    BY <1>5 DEF Kill, Dies
  <2>5. pc[Creator] = "idle" => pc'[Creator] = "idle"
    BY <1>1, <1>5, <2>1 DEF Kill, Goto, Actor
  <2> QED BY <1>1, <2>2, <2>3, <2>4, <2>5 DEF Seen
<1> QED BY <1>2, <1>3, <1>4, <1>5 DEF World, Work

LEMMA StepIsSeen ==
    ASSUME IInv, Next, NEW r \in Remover, ~At(r, "idle"), pc'[r] = pc[r] PROVE Seen(r)
<1>1. CASE Destroys
  BY <1>1, DestroysAreSeen DEF Destroys
<1> QED BY <1>1, CreateIsSeen, AttachesAreSeen, WorldIsSeen DEF Next

(* The steps in which a destroy moves. *)
LEMMA MovesAreItsOwn ==
    ASSUME IInv, Next, NEW r \in Remover, pc'[r] # pc[r]
    PROVE  \/ SweepSelects(r)
           \/ \E is \in BOOLEAN : HookSelects(r, is) \/ UserSelects(r, is)
           \/ ReadRecord(r) \/ CheckDirty(r) \/ EndRecord(r) \/ RemoveWorktree(r)
           \/ pc'[r] = "idle"
           \/ pc'[r] = "read" /\ way'[r] = "rollback"
<1> USE DEF At
<1>1. DOMAIN pc = Actor /\ DOMAIN way = Remover
  BY DEF IInv, Typed, TypeOK, PCOK
<1>2. CASE Create
  <2>1. \/ \E label : pc' = [pc EXCEPT ![Creator] = label]
        \/ \E q \in Remover : /\ pc' = [pc EXCEPT ![Creator] = "idle", ![q] = "read"]
                              /\ way' = [way EXCEPT ![q] = "rollback"]
    BY <1>2 DEF Create, Reserve, AddWorktree, WriteRecord, InstallContent, ReadForBaseline,
       SaveBaseline, Goto
  <2> QED BY <1>1, <2>1 DEF Actor
<1>3. CASE Destroys
  <2>1. PICK q \in Remover :
            \/ SweepSelects(q)
            \/ \E is \in BOOLEAN : HookSelects(q, is) \/ UserSelects(q, is)
            \/ ReadRecord(q) \/ CheckDirty(q) \/ EndRecord(q) \/ RemoveWorktree(q)
    BY <1>3 DEF Destroys
  <2>2. \E label : pc' = [pc EXCEPT ![q] = label]
    BY <2>1 DEF SweepSelects, HookSelects, UserSelects, ReadRecord, CheckDirty, EndRecord,
       RemoveWorktree, Begins, Stops, Goto
  <2>3. q = r
    BY <1>1, <2>2 DEF Actor
  <2> QED BY <2>1, <2>3
<1>4. CASE Attaches
  <2>1. \/ \E x \in Attacher \cup Detacher : \E label : pc' = [pc EXCEPT ![x] = label]
        \/ \E d \in Detacher : \E a \in Attacher : pc' = [pc EXCEPT ![d] = "unlink", ![a] = "idle"]
    BY <1>1, <1>4 DEF Attaches, ReadStatus, TakeLock, ReapStale, TakeLockAgain, WriteSentinel,
       DropSentinel, DropLock, ReadSentinel, Signal, UnlinkSentinel, Goto
  <2> QED BY <1>1, <2>1 DEF Actor
<1>5. CASE World
  <2>1. \/ UNCHANGED pc
        \/ \E x \in Actor : pc' = [pc EXCEPT ![x] = "idle"]
    BY <1>5 DEF World, Works, CleansUp, JobMoves, Kill, Goto
  <2> QED BY <1>1, <2>1 DEF Actor
<1> QED BY <1>2, <1>3, <1>4, <1>5 DEF Next

LEMMA LookedIsKept ==
    ASSUME IInv, Looked, [Next]_vars PROVE Looked'
<1> USE DEF At, git, attach, removers, history
<1> SUFFICES ASSUME NEW r \in Remover, way'[r] # "forced",
                    pc'[r] \in {"dirty", "end", "remove"}
             PROVE  /\ sentinel' \in Attacher /\ pc'[sentinel'] = "attached" => "attach" \in since'[r]
                    /\ pc'[r] \in {"end", "remove"} /\ "edits" \in work' => "edits" \in since'[r]
  BY DEF Looked, Unforced
<1>1. CASE UNCHANGED vars
  BY <1>1 DEF vars, Looked, Unforced
<1>2. CASE Next /\ pc'[r] = pc[r]
  BY <1>2, StepIsSeen DEF Seen, Looked, Unforced
<1>3. CASE Next /\ pc'[r] # pc[r]
  <2>1. ReadRecord(r) \/ CheckDirty(r) \/ EndRecord(r)
    <3>1. r \in Actor /\ DOMAIN pc = Actor
      BY DEF IInv, Typed, PCOK, Actor
    <3> QED BY <1>3, <3>1, MovesAreItsOwn DEF SweepSelects, HookSelects, UserSelects, Begins,
            RemoveWorktree, Stops, Goto
  <2>2. /\ r \in DOMAIN pc /\ DOMAIN since = Remover /\ DOMAIN way = Remover
        /\ r \notin Attacher
    BY DEF IInv, Typed, TypeOK, PCOK, Actor
  <2>3. CASE ReadRecord(r)
    <3>1. /\ ~HeldBack(r) /\ way' = way /\ UNCHANGED sentinel /\ pc' = [pc EXCEPT ![r] = "dirty"]
      BY <2>2, <2>3 DEF ReadRecord, Stops, Goto
    <3>2. sentinel \notin Attacher
      BY <3>1 DEF HeldBack, HeldLive, Unforced
    <3> QED BY <2>2, <3>1, <3>2
  <2>4. CASE CheckDirty(r)
    <3>1. /\ ~DirtyOrGone(r) /\ way' = way /\ UNCHANGED <<sentinel, work>>
          /\ pc' = [pc EXCEPT ![r] = "end"] /\ since' = [since EXCEPT ![r] = @ \ {"edits"}]
          /\ pc[r] = "dirty"
      BY <2>2, <2>4 DEF CheckDirty, Stops, Goto
    <3>2. "edits" \notin work
      BY <3>1 DEF DirtyOrGone, Unforced
    <3>3. sentinel \in Attacher /\ pc[sentinel] = "attached" => "attach" \in since[r]
      BY <3>1 DEF Looked, Unforced
    <3> QED BY <2>2, <3>1, <3>2, <3>3
  <2>5. CASE EndRecord(r)
    <3>1. /\ way' = way /\ UNCHANGED <<sentinel, work, since>>
          /\ pc' = [pc EXCEPT ![r] = "remove"] /\ pc[r] = "end"
      BY <2>2, <2>5 DEF EndRecord, Stops, Goto
    <3> QED BY <2>2, <3>1 DEF Looked, Unforced
  <2> QED BY <2>1, <2>3, <2>4, <2>5
<1> QED BY <1>1, <1>2, <1>3

LEMMA SweptIsKept ==
    ASSUME IInv, Swept, [Next]_vars PROVE Swept'
<1> USE DEF At, git, attach, removers, history
<1> SUFFICES ASSUME NEW r \in Remover, way'[r] = "sweep", pc'[r] # "idle"
             PROVE  /\ pc'[Creator] = "idle"
                    /\ "hidden" \in work' => "hidden" \in since'[r]
                    /\ pc'[r] = "read" /\ rec'.status = "active" =>
                           rec'.print # None /\ (ignored' # rec'.print => "ignored" \in since'[r])
                    /\ pc'[r] \in {"dirty", "end", "remove"} =>
                           (ignored' # copy'[r].print => "ignored" \in since'[r])
                    /\ ~(job'.atCreate /\ job'.entry)
                    /\ job'.idle \/ ~job'.entry \/ "resume" \in since'[r]
  BY DEF Swept
<1>0. /\ DOMAIN pc = Actor /\ DOMAIN since = Remover /\ DOMAIN way = Remover
      /\ DOMAIN copy = Remover \cup {Creator} /\ r \in Actor /\ r # Creator
  BY DEF IInv, Typed, TypeOK, PCOK, Actor
<1>1. CASE UNCHANGED vars
  BY <1>1 DEF vars, Swept
<1>2. CASE Next /\ pc'[r] = pc[r]
  <2>1. Seen(r)
    BY <1>2, StepIsSeen
  <2> QED BY <1>2, <2>1 DEF Seen, Swept
<1>3. CASE Next /\ pc'[r] # pc[r]
  <2>1. SweepSelects(r) \/ ReadRecord(r) \/ CheckDirty(r) \/ EndRecord(r)
    BY <1>0, <1>3, MovesAreItsOwn DEF HookSelects, UserSelects, Begins, RemoveWorktree, Stops, Goto
  <2>2. CASE SweepSelects(r)
    <3>1. pc' = [pc EXCEPT ![r] = "read"]
      BY <2>2 DEF SweepSelects, Begins, Goto
    <3>2. UNCHANGED <<rec, git, job, since>> /\ HookSessionEnded /\ WorktreeUnchanged
      BY <2>2 DEF SweepSelects
    <3>3. pc[Creator] = "idle"
      BY <3>2 DEF WorktreeUnchanged, IInv, Created
    <3> QED BY <1>0, <3>1, <3>2, <3>3 DEF WorktreeUnchanged, HookSessionEnded
  <2>3. CASE ReadRecord(r)
    <3>1. /\ pc' = [pc EXCEPT ![r] = "dirty"] /\ UNCHANGED <<way, git, job, rec>>
          /\ copy' = [copy EXCEPT ![r] = rec] /\ since' = [since EXCEPT ![r] = @ \ {"attach"}]
          /\ rec.status = "active" /\ pc[r] = "read"
      BY <1>0, <2>3 DEF ReadRecord, Stops, Goto
    <3> QED BY <1>0, <3>1 DEF Swept
  <2>4. CASE CheckDirty(r)
    <3>1. /\ pc' = [pc EXCEPT ![r] = "end"] /\ UNCHANGED <<way, copy, git, job, rec>>
          /\ since' = [since EXCEPT ![r] = @ \ {"edits"}] /\ pc[r] = "dirty"
      BY <1>0, <2>4 DEF CheckDirty, Stops, Goto
    <3> QED BY <1>0, <3>1 DEF Swept
  <2>5. CASE EndRecord(r)
    <3>1. /\ pc' = [pc EXCEPT ![r] = "remove"] /\ UNCHANGED <<way, copy, job, since>>
          /\ UNCHANGED <<work, ignored>> /\ pc[r] = "end"
      BY <1>0, <2>5 DEF EndRecord, Stops, Goto
    <3> QED BY <1>0, <3>1 DEF Swept
  <2> QED BY <2>1, <2>2, <2>3, <2>4, <2>5
<1> QED BY <1>1, <1>2, <1>3

-----------------------------------------------------------------------------
(* What follows. *)

LEMMA AllHolds == Spec => [](IInv /\ Looked /\ Swept)
<1>1. Init => IInv /\ Looked /\ Swept
  BY InitiallyInv DEF Init, Looked, Swept, Unforced, At, Creator, Actor
<1>2. IInv /\ Looked /\ Swept /\ [Next]_vars => IInv' /\ Looked' /\ Swept'
  BY StepKeepsInv, LookedIsKept, SweptIsKept
<1> QED BY <1>1, <1>2, PTL DEF Spec

(* The record, the worktree, the locks and every process keep their types. *)
THEOREM SessionTypesAreKept == Spec => []TypeOK
<1>1. IInv => TypeOK
  BY DEF IInv, Typed
<1> QED BY <1>1, AllHolds, PTL

(* The record is ended before the worktree goes and is written after it    *)
(* came: in no reachable state of any number of processes, killed anywhere,*)
(* does an active session lack its worktree (DestroySession, Create).      *)
THEOREM ActiveKeepsItsWorktree == Spec => []ActiveHasItsWorktree
<1>1. IInv => ActiveHasItsWorktree
  BY DEF IInv, EndedFirst
<1> QED BY <1>1, AllHolds, PTL

(* The flock lets one process attach at a time: two are attached only once *)
(* the record says ended and a destroy removed the directory the first     *)
(* lock was in (AcquireAttachLock, Attach, DestroySession).                *)
THEOREM OneHolds == Spec => []OneHolderPerWorktree
<1>1. IInv => OneHolderPerWorktree
  BY DEF IInv, Locked, OneHolderPerWorktree, Holds, At
<1> QED BY <1>1, AllHolds, PTL

(* Only a destroy's own step removes the worktree it is to remove.         *)
LEMMA RemovalsAreItsOwn ==
    ASSUME IInv, Next, NEW r \in Remover, Removes(r) PROVE RemoveWorktree(r)
<1>1. pc[r] = "remove" /\ pc'[r] = "idle" /\ tree = "worktree" /\ tree' = "absent"
  BY DEF Removes, At
<1>2. r \in Actor /\ DOMAIN pc = Actor /\ r # Creator
  BY DEF IInv, Typed, PCOK, Actor
<1>3. CASE Create
  <2>1. \/ \E label : pc' = [pc EXCEPT ![Creator] = label]
        \/ \E q \in Remover : pc' = [pc EXCEPT ![Creator] = "idle", ![q] = "read"]
    BY <1>3 DEF Create, Reserve, AddWorktree, WriteRecord, InstallContent, ReadForBaseline,
       SaveBaseline, Goto
  <2> QED BY <1>1, <1>2, <2>1
<1>4. CASE Destroys
  <2>1. PICK q \in Remover : RemoveWorktree(q)
    BY <1>1, <1>4 DEF Destroys, SweepSelects, HookSelects, UserSelects, ReadRecord, CheckDirty,
       EndRecord, EndFirst, git
  <2>2. pc' = [pc EXCEPT ![q] = "idle"]
    BY <2>1 DEF RemoveWorktree, Stops, Goto
  <2>3. q = r
    BY <1>1, <1>2, <2>2
  <2> QED BY <2>1, <2>3
<1>5. CASE Attaches
  BY <1>1, <1>5 DEF Attaches, ReadStatus, TakeLock, ReapStale, TakeLockAgain, WriteSentinel,
     DropSentinel, DropLock, ReadSentinel, Signal, UnlinkSentinel, git
<1>6. CASE World
  BY <1>1, <1>6 DEF World, Works, CleansUp, JobMoves, Kill, git
<1> QED BY <1>3, <1>4, <1>5, <1>6 DEF Next

(* Without --force no destroy takes an uncommitted edit or an unmerged     *)
(* commit, and the sweep takes nothing, that was there when it looked      *)
(* (WorktreeUnchanged, the dirty check and `branch -d` of DestroySession). *)
THEOREM NoWorkIsDiscarded == Spec => UnforcedDiscardsNoWork
<1>1. ASSUME IInv, Looked, Swept, Next, NEW r \in Remover, Removes(r), Unforced(r)
      PROVE  Discards(r) \subseteq since[r] \ {"commits"}
  <2>1. RemoveWorktree(r)
    BY <1>1, RemovalsAreItsOwn
  <2>2. pc[r] = "remove" /\ tree' # tree
    BY <1>1 DEF Removes, At
  <2>3. ~(branch = "ahead" /\ branch' = "absent")
    BY <1>1, <2>1, <2>2 DEF RemoveWorktree, BranchKept
  <2>4. "edits" \in work => "edits" \in since[r]
    BY <1>1, <2>2 DEF Looked
  <2>5. way[r] = "sweep" => /\ "hidden" \in work => "hidden" \in since[r]
                            /\ ignored # copy[r].print => "ignored" \in since[r]
    BY <1>1, <2>2 DEF Swept, At
  <2>6. work \subseteq {"edits", "hidden"}
    BY <1>1 DEF IInv, Typed, TypeOK
  <2> QED BY <2>3, <2>4, <2>5, <2>6 DEF Discards
<1>2. ASSUME IInv, Looked, Swept, [Next]_vars
      PROVE  [\A r \in Remover : Removes(r) /\ Unforced(r) => Discards(r) \subseteq since[r] \ {"commits"}]_vars
  BY <1>1, <1>2
<1> QED BY <1>2, AllHolds, PTL DEF Spec, UnforcedDiscardsNoWork

(* Without --force no destroy takes the worktree of a process that is      *)
(* attached and was when the sentinel was looked at (DestroySession).      *)
THEOREM NobodyIsEvicted == Spec => AttachedIsKept
<1>1. ASSUME IInv, Looked, NEW r \in Remover, Removes(r), Unforced(r)
      PROVE  sentinel \notin Attacher \/ ~At(sentinel, "attached") \/ "attach" \in since[r]
  BY <1>1 DEF Removes, At, Looked
<1>2. ASSUME IInv, Looked, [Next]_vars
      PROVE  [\A r \in Remover : Removes(r) /\ Unforced(r) =>
                  \/ sentinel \notin Attacher \/ ~At(sentinel, "attached")
                  \/ "attach" \in since[r]]_vars
  BY <1>1, <1>2
<1> QED BY <1>2, AllHolds, PTL DEF Spec, AttachedIsKept

(* The sweep takes no worktree of a background worker that is listed, and  *)
(* of no session that was seen to go on (hookSessionEnded).                *)
THEOREM SweepsOnlyTheEnded == Spec => SweepSparesListedWorkers
<1>1. ASSUME Swept, NEW r \in Remover, Removes(r), way[r] = "sweep"
      PROVE  ~(job.atCreate /\ job.entry) /\ (job.idle \/ ~job.entry \/ "resume" \in since[r])
  BY <1>1 DEF Removes, At, Swept
<1>2. ASSUME Swept, [Next]_vars
      PROVE  [\A r \in Remover : Removes(r) /\ way[r] = "sweep" =>
                  ~(job.atCreate /\ job.entry) /\ (job.idle \/ ~job.entry \/ "resume" \in since[r])]_vars
  BY <1>1, <1>2
<1> QED BY <1>2, AllHolds, PTL DEF Spec, SweepSparesListedWorkers
=============================================================================
