----------------------------- MODULE Workspaces ------------------------------
(***************************************************************************)
(* Where a workspace begins and ends: `niwa init', and `niwa destroy' of a  *)
(* whole workspace beside one other command.                               *)
(***************************************************************************)
EXTENDS Integers, FiniteSets

CONSTANTS Unset, Bad

(* initMode and its name and source: --from, or the source a registered name  *)
(* has, clones; a bootstrap asked for takes its name from the repository.      *)
Entry(registry, name) ==
    IF name \in DOMAIN registry THEN registry[name] ELSE [root |-> Unset, source |-> Unset]
SourceOf(i, w) == IF i.from # Unset THEN i.from ELSE Entry(w.registry, i.name).source
ModeOf(i, w) ==
    IF i.name = Unset /\ i.from = Unset THEN "scaffold"
    ELSE IF SourceOf(i, w) # Unset THEN "clone" ELSE "named"
AsksBootstrap(i, w) == i.bootstrap /\ ModeOf(i, w) = "clone"
NameOf(i, w) == IF i.name = Unset /\ AsksBootstrap(i, w) THEN w.repo ELSE i.name

(* What init leaves: the directory, the registry, what is in the workspace.    *)
Leaves(w, exit, dir) ==
    [exit |-> exit, dir |-> dir, registry |-> w.meanwhile, state |-> "none", instance |-> FALSE,
     session |-> "none"]
Left(w, exit) == Leaves(w, exit, w.there)

(* A directory of the name stops it even when it is empty; without a name, the *)
(* directory it stands in may hold anything but a workspace.                   *)
TargetExists(i, w) == NameOf(i, w) # Unset /\ w.there # "nothing"
Conflicts(w) == w.there \in {"workspace", "niwa"} \/ w.inside

(* An entry of another root is retargeted only when asked to.                 *)
NameIsTaken(i, w) ==
    /\ NameOf(i, w) # Unset
    /\ NameOf(i, w) \in DOMAIN w.registry
    /\ w.registry[NameOf(i, w)].root # w.root
    /\ ~i.rebind

(* What is found before anything is made, and init's exit code for it: 0 is    *)
(* nothing.                                                                    *)
Preflight(i, w) ==
    IF i.overlay /\ i.noOverlay THEN 1
    ELSE IF i.bootstrap /\ i.noBootstrap THEN 2
    ELSE IF ~w.loads \/ i.name = Bad THEN 1
    ELSE IF AsksBootstrap(i, w) /\ ~w.parses THEN 1
    ELSE IF AsksBootstrap(i, w) /\ ~w.github THEN 3
    ELSE IF TargetExists(i, w) \/ Conflicts(w) \/ NameIsTaken(i, w) THEN 1
    ELSE 0

(* What the deferred removal leaves: a directory init made goes, one it stands *)
(* in keeps whatever was put there.                                            *)
Undone(i, w, exit, put) ==
    Leaves(w, exit, IF NameOf(i, w) # Unset THEN "nothing" ELSE IF put = Unset THEN w.there ELSE put)

(* handleNoMarkerR13: whether a source without a workspace gets one.           *)
NoMarker(i, w) ==
    IF i.bootstrap THEN "bootstrap"
    ELSE IF i.noBootstrap \/ ~w.terminal THEN "refused"
    ELSE w.answer

Registered(registry, name, w, source) ==
    [n \in DOMAIN registry \cup {name} |->
        IF n = name THEN [root |-> w.root, source |-> source] ELSE registry[n]]

(* RunBootstrap, from the scaffold at the root on: nothing below undoes the     *)
(* directory, a session that gets no commit goes and its instance stays.       *)
RunBootstrap(i, w) ==
    LET stands == Leaves(w, 1, "workspace")
        created == [stands EXCEPT !.instance = TRUE]
    IN  IF ~w.github \/ ~w.creates THEN stands
        ELSE IF ~w.opens THEN created
        ELSE IF ~w.commits THEN [created EXCEPT !.session = "removed"]
        ELSE [created EXCEPT !.session = "kept", !.exit = IF w.lands THEN 0 ELSE 1,
                 !.registry = IF w.saves THEN Registered(w.meanwhile, NameOf(i, w), w, SourceOf(i, w)) ELSE w.meanwhile]

(* defaultRunBootstrap: a scaffold wants a name; from there on the directory    *)
(* is no longer init's to remove.                                              *)
Bootstrap(i, w) ==
    IF NameOf(i, w) = Unset THEN Undone(i, w, 1, Unset)
    ELSE IF ~w.scaffolds THEN Undone(i, w, 1, "niwa")
    ELSE RunBootstrap(i, w)

(* The steps after the workspace is in place.  The registry read at the start   *)
(* is saved whole, before an overlay that can't be cloned and a landing path    *)
(* that can't be written fail the command.                                     *)
RegistryName(i, w) == IF NameOf(i, w) = Unset THEN w.declares ELSE NameOf(i, w)
Keeps(i, w) == i.overlay \/ i.noOverlay \/ i.flags \/ ModeOf(i, w) # "scaffold"
Finish(i, w) ==
    LET registry == IF ModeOf(i, w) # "scaffold" /\ w.saves
                    THEN Registered(w.registry, RegistryName(i, w), w, SourceOf(i, w)) ELSE w.meanwhile
        failed == [Undone(i, w, 1, "workspace") EXCEPT !.registry = registry]
        state == IF Keeps(i, w) /\ w.stateSaves THEN "saved" ELSE "none"
    IN  IF ~w.loadsAfter THEN Undone(i, w, 1, "workspace")
        ELSE IF i.overlay /\ ~w.overlayClones THEN failed
        ELSE IF NameOf(i, w) # Unset /\ ~w.lands THEN failed
        ELSE [Leaves(w, 0, "workspace") EXCEPT !.registry = registry, !.state = state]

(* runInit past its preflight. *)
Make(i, w) ==
    IF NameOf(i, w) # Unset /\ ~w.makes THEN Left(w, 1)
    ELSE IF ModeOf(i, w) # "clone" THEN IF w.scaffolds THEN Finish(i, w) ELSE Undone(i, w, 1, "niwa")
    ELSE IF ~w.parses \/ w.materializes = "fails" THEN Undone(i, w, 1, Unset)
    ELSE IF w.materializes = "all" THEN Finish(i, w)
    ELSE CASE NoMarker(i, w) = "bootstrap" -> Bootstrap(i, w)
           [] NoMarker(i, w) = "refused" -> Undone(i, w, 4, Unset)
           [] NoMarker(i, w) = "declined" ->
                Leaves(w, 0, IF NameOf(i, w) # Unset THEN "empty" ELSE w.there)
           [] NoMarker(i, w) = "eof" -> Undone(i, w, 1, Unset)

RunInit(i, w) == IF Preflight(i, w) # 0 THEN Left(w, Preflight(i, w)) ELSE Make(i, w)

(* An init changes nothing that was there before it, and one that fails leaves  *)
(* no directory of its own making but a bootstrap's, whose instance stays and   *)
(* whose session stays only with its commit.  It takes no other root's name    *)
(* without being told to, unless the name is the cloned configuration's or was  *)
(* registered meanwhile; and what it registers is a workspace, unless the      *)
(* overlay or the landing path failed it afterwards.                           *)
InitIsWhole(i, w) ==
    LET done == RunInit(i, w)
        mine == {n \in DOMAIN done.registry : n \notin DOMAIN w.meanwhile \/ done.registry[n] # w.meanwhile[n]}
    IN  /\ w.there \in {"workspace", "niwa"} => done = Left(w, done.exit) /\ done.exit # 0
        /\ i.name # Unset /\ w.there # "nothing" => done = Left(w, done.exit) /\ done.exit # 0
        /\ w.there = "nothing" /\ done.exit # 0 /\ done.dir # "nothing" => done.dir = "workspace" /\ w.scaffolds
        /\ done.dir = "nothing" => ~done.instance /\ done.session = "none" /\ done.state = "none"
        /\ done.session # "none" => done.instance
        /\ done.session = "kept" => w.commits
        /\ done.exit = 0 /\ ~(w.terminal /\ w.answer = "declined") => done.dir = "workspace"
        /\ \A n \in mine : done.registry[n].root = w.root =>
              /\ done.dir = "workspace" \/ (i.overlay /\ ~w.overlayClones) \/ ~w.lands
              /\ Entry(w.registry, n).root \in {Unset, w.root} \/ i.rebind \/ i.name = Unset
        /\ w.meanwhile = w.registry => mine \subseteq {RegistryName(i, w)}

-----------------------------------------------------------------------------
(* Destroying it.  Directories are numbered in the order in which they are      *)
(* removed.  The other command takes a directory's lock, makes the directory,   *)
(* writes its state, and is done, each just before one of destroy's steps;      *)
(* Never is after them all.                                                     *)
(* Destroy's steps, in order. *)
LockAll == 1
Guard == 2
FirstCheck == 3
SecondCheck == 4
SecondGuard == 5
RootRemoval == 6
Never == 7
Time == LockAll .. Never

(* The locks destroy holds keep another command out: those of what it lists,  *)
(* and from its guard on those of every other directory there.               *)
KeptOut(w, other) ==
    \/ other.locks > LockAll /\ other.dir \in w.listed
    \/ other.locks > Guard /\ other.dir \in w.plain

Holds(w, other, t) == other.locks <= t /\ t < other.done /\ ~KeptOut(w, other)

(* A command that can't take its lock does nothing; one that takes none goes   *)
(* on all the same.                                                            *)
Acts(w, other) == other.locks = Never \/ ~KeptOut(w, other)

Directories(w, other, t) ==
    w.listed \cup w.plain \cup {d \in {other.dir} : Acts(w, other) /\ other.makes <= t}
Instances(w, other, t) ==
    w.listed \cup {d \in {other.dir} : Acts(w, other) /\ other.writes <= t}

Unlisted(w, other, t) == Instances(w, other, t) \ w.listed

(* newUnlistedInstanceGuard: nothing unlisted is there, and nobody else holds  *)
(* a directory's lock.                                                         *)
GuardPasses(w, other, t) ==
    /\ Unlisted(w, other, t) = {}
    /\ \A d \in Directories(w, other, t) \ w.listed : ~(Holds(w, other, t) /\ other.dir = d)

-----------------------------------------------------------------------------
(* destroyPreflight: the instances that something still needs.               *)
Needed(w) ==
    {d \in w.listed : \/ d \in w.refused
                      \/ d \in w.owned /\ (~w.sessionsList \/ d \in w.running)}

(* The workspace's name, given up front or typed at a terminal.               *)
Confirmed(w, who) ==
    IF who.confirm # Unset THEN who.confirm = w.name ELSE who.terminal /\ who.typed = w.name

Kept(w) == [removed |-> {}, root |-> "there", sessions |-> {}]

(* What DestroyWorkspace removes of the list it was given: it stops at the     *)
(* first that is no instance or can't be removed.                              *)
Stuck(w) == {d \in w.listed : d \in w.nested \cup w.stubborn}
DestroyWorkspace(w, other, sessions) ==
    LET removed == {d \in w.listed : \A s \in Stuck(w) : d < s}
        outcome(r, root) == [removed |-> r, root |-> root, sessions |-> sessions]
    IN  IF Unlisted(w, other, FirstCheck) # {} THEN outcome({}, "there")
        ELSE IF Stuck(w) # {} THEN outcome(removed, "there")
        ELSE IF Unlisted(w, other, SecondCheck) # {} THEN outcome(removed, "there")
        ELSE IF ~GuardPasses(w, other, SecondGuard) THEN outcome(removed, "there")
        ELSE outcome(removed, "gone")

RunDestroyWorkspace(w, other, who) ==
    IF who.confirm \notin {Unset, w.name} THEN Kept(w)
    ELSE IF other.dir \in w.listed /\ Holds(w, other, LockAll) THEN Kept(w)
    ELSE IF Needed(w) # {} \/ ~Confirmed(w, who) THEN Kept(w)
    ELSE IF ~GuardPasses(w, other, Guard) THEN Kept(w)
    ELSE DestroyWorkspace(w, other, IF who.keepSessions THEN {} ELSE w.listed)

(* Without instances nothing is asked; one that is made meanwhile keeps the    *)
(* workspace.                                                                  *)
RunDestroyEmptyWorkspace(w, other) ==
    IF ~GuardPasses(w, other, Guard) THEN Kept(w) ELSE DestroyWorkspace(w, other, {})

-----------------------------------------------------------------------------
(* Nothing is removed without the workspace's name, of what something needs or *)
(* of what destroy did not list; a workspace goes whole unless an instance     *)
(* can't be removed or another came; and it stays while another command has    *)
(* the lock of a directory in it or has put an instance there, unless that     *)
(* came after destroy's last look.                                             *)
WipeIsWhole(w, other, who) ==
    LET done == RunDestroyWorkspace(w, other, who)
        touched == done.removed \cup (IF done.root = "gone" THEN w.listed ELSE {})
    IN  /\ (touched # {} \/ done.root = "gone" \/ done.sessions # {}) =>
              Confirmed(w, who) /\ Needed(w) = {} /\ Unlisted(w, other, Guard) = {}
        /\ done.removed \subseteq w.listed /\ done.removed \cap w.nested = {}
        /\ other.dir \in touched => ~\E t \in LockAll .. RootRemoval : Holds(w, other, t)
        /\ done.removed # {} /\ done.root = "there" =>
              \/ Stuck(w) # {}
              \/ other.dir \notin w.listed /\ other.makes <= SecondGuard
        /\ done.root = "gone" => done.removed = w.listed

RootIsKept(w, other, done) ==
    done.root = "gone" /\ other.dir \notin w.listed /\ Acts(w, other) =>
        /\ other.writes > SecondGuard
        /\ other.makes <= SecondGuard => ~Holds(w, other, SecondGuard)
=============================================================================
