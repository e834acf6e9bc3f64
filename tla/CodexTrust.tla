----------------------------- MODULE CodexTrust ------------------------------
(***************************************************************************)
(* The trust entries niwa keeps in the developer's own Codex configuration. *)
(* A document is a sequence of blocks: one about a key (Unset is any other  *)
(* content) has a header of its own, is one below it or inside another      *)
(* table, or is sealed in one inline table of all the projects; trust says  *)
(* whether it has a verdict.  A file says besides which of the steps on it  *)
(* work: what names it, locks, reads, parses (with its projects a table)    *)
(* and writes it.                                                           *)
(***************************************************************************)
EXTENDS Integers, FiniteSets, SequencesExt

CONSTANT Unset

Entry(key) == [key |-> key, shape |-> "header", trust |-> TRUE]

(* The path Codex computes for each root: Unset where it can't be resolved.   *)
Keys(roots, resolves) == {resolves[r] : r \in roots} \ {Unset}

Withheld(req) == Keys(req.conflicted, req.resolves)
Wanted(req) == Keys(req.roots, req.resolves) \ Withheld(req)
Retract(req) == req.recorded \cap Withheld(req)

(* parseCodexProjects: the keys, and those that have a verdict.               *)
Present(doc) == {doc[i].key : i \in DOMAIN doc} \ {Unset}
HasTrust(doc, key) == \E i \in DOMAIN doc : doc[i].key = key /\ doc[i].shape # "below" /\ doc[i].trust

HasHeader(doc, key) == \E i \in DOMAIN doc : doc[i].key = key /\ doc[i].shape = "header"

(* What TOML lets stand: an inline table of projects has no others beside it. *)
Sealed(doc) == \E i \in DOMAIN doc : doc[i].shape = "sealed"
Valid(doc) == Sealed(doc) => \A i \in DOMAIN doc : doc[i].key = Unset \/ doc[i].shape = "sealed"

(* removeTrustEntry, for each of some keys; appendTrustEntries, as a header    *)
(* at the end whatever precedes it.                                            *)
Without(doc, keys) == SelectSeq(doc, LAMBDA b : ~(b.key \in keys /\ b.shape = "header"))
Appended(doc, keys) == doc \o [i \in 1 .. Cardinality(keys) |-> Entry(SetToSortSeq(keys, <)[i])]

Add(req, file) == Wanted(req) \ Present(file.doc)
Removed(req, file) == {k \in Retract(req) : HasHeader(file.doc, k)}
Stranded(req, file) == (Retract(req) \cap Present(file.doc)) \ Removed(req, file)

(* What an entry that stands is reported for.                                  *)
Untrusted(req, file) == {k \in Wanted(req) \cap Present(file.doc) : ~HasTrust(file.doc, k)}

Result(doc, recorded, added, removed, warned, failed) ==
    [doc |-> doc, recorded |-> recorded, added |-> added, removed |-> removed, warned |-> warned, failed |-> failed]
Left(req, file, warned, failed) == Result(file.doc, req.recorded, {}, {}, warned, failed)

EnsureCodexTrust(req, file) ==
    LET unresolved == {<<"root", r>> : r \in {x \in req.roots \cup req.conflicted : req.resolves[x] = Unset}}
        add == Add(req, file)
        removed == Removed(req, file)
        stranded == Stranded(req, file)
        recorded == req.recorded \ (Retract(req) \ stranded)
        warned == unresolved \cup {<<"key", k>> : k \in Untrusted(req, file) \cup stranded \cup removed}
    IN  IF ~file.named THEN Left(req, file, {}, TRUE)
        ELSE IF Wanted(req) = {} /\ Retract(req) = {} THEN Left(req, file, unresolved, FALSE)
        ELSE IF ~file.locks THEN Left(req, file, unresolved, TRUE)
        ELSE IF ~file.reads \/ ~file.parses
             THEN Left(req, file, unresolved \cup {<<"file">>}, FALSE)
        ELSE IF add = {} /\ removed = {} THEN Result(file.doc, recorded, {}, {}, warned, FALSE)
        ELSE IF ~file.writes THEN Left(req, file, warned, TRUE)
        ELSE Result(Appended(Without(file.doc, removed), add), recorded \cup add, add, removed, warned, FALSE)

-----------------------------------------------------------------------------
(* What somebody else has in the file stays, in its order and before niwa's;   *)
(* what is removed niwa had recorded, and has withheld; and no key gets a       *)
(* second header.  The document is still valid, unless its projects are one    *)
(* inline table: what is appended to that makes it a document nobody parses.   *)
OthersEntriesStay(req, file) ==
    LET done == EnsureCodexTrust(req, file)
        kept == SelectSeq(file.doc, LAMBDA b : b.key \notin done.removed \/ b.shape # "header")
    IN  /\ IsPrefix(kept, done.doc)
        /\ done.removed \subseteq req.recorded \cap Withheld(req)
        /\ \A i \in DOMAIN file.doc :
              file.doc[i].key \notin req.recorded => \E j \in DOMAIN done.doc : done.doc[j] = file.doc[i]
        /\ \A i, j \in DOMAIN done.doc :
              /\ i < j /\ j > Len(kept) /\ done.doc[i].key = done.doc[j].key => done.doc[i].shape = "below"
        /\ done.failed \/ ~file.reads \/ ~file.parses => done.doc = file.doc
        /\ Valid(done.doc) = ~(Sealed(file.doc) /\ done.added # {})

(* The record is of niwa's own entries: each one it adds, none it finds; and a  *)
(* key leaves it only when no verdict is left there.                           *)
RecordIsHonest(req, file) ==
    LET done == EnsureCodexTrust(req, file)
    IN  /\ done.added \subseteq done.recorded /\ done.recorded \subseteq req.recorded \cup done.added
        /\ done.added \cap Present(file.doc) = {}
        /\ \A k \in req.recorded \ done.recorded : k \in Withheld(req) /\ ~HasTrust(done.doc, k)
        /\ \A i \in DOMAIN done.doc : done.doc[i] \notin ToSet(file.doc) => done.doc[i].key \in done.recorded

(* What is wanted and can be resolved has a verdict or a warning, but in a      *)
(* document made invalid; nothing that is withheld gets an entry, and a second  *)
(* run changes nothing: one that doesn't parse any more is left, with a warning. *)
TrustIsSettled(req, file) ==
    LET done == EnsureCodexTrust(req, file)
        again == EnsureCodexTrust([req EXCEPT !.recorded = done.recorded],
                                  [file EXCEPT !.doc = done.doc, !.parses = @ /\ Valid(done.doc)])
    IN  /\ Valid(done.doc) => \A k \in Wanted(req) :
              \/ HasTrust(done.doc, k) \/ <<"key", k>> \in done.warned
              \/ <<"file">> \in done.warned \/ done.failed
        /\ done.added \cap Withheld(req) = {}
        /\ again.doc = done.doc /\ again.recorded = done.recorded
        /\ Valid(done.doc) \/ <<"file">> \in again.warned \/ again.failed
=============================================================================
