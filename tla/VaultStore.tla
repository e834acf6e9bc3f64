----------------------------- MODULE VaultStore -----------------------------
(***************************************************************************)
(* One run of niwa asks a vault for secrets through the vendor's client,   *)
(* decides from how that went what the vault has said, and keeps a store   *)
(* of the values it gave, to serve when a later run can't reach it         *)
(* (vault/infisical, vault/runstate, vault/storefallback, vault/store).    *)
(*                                                                         *)
(* What a call of the client came to, an export: [is, status, wording,     *)
(* cancelled, values, probe].  is: "values", "exit" (not zero), "timeout", *)
(* "garbled", "oversized" or "absent"; status: the last HTTP status it     *)
(* wrote, 0 for none; wording: whether it said in words nobody is logged   *)
(* in; cancelled: the run itself was called off.  probe is what the client *)
(* says of its logins afterwards: [timedOut, parsed, sessions, malformed], *)
(* a session [source, state, verified].                                    *)
(***************************************************************************)
EXTENDS Naturals, SequencesExt

CONSTANTS
    Unset,          \* nothing where something could be
    TokenFromEnv    \* whether the environment holds the client's token

Outcome(class, reason, status) == [is |-> class, reason |-> reason, status |-> status]
Unclassified == Outcome("unclassified", "", 0)
NotInstalled == Outcome("client-not-installed", "", 0)
KeyNotFound == Outcome("key-not-found", "", 0)
Found(value) == [is |-> "value", value |-> value]

-----------------------------------------------------------------------------
(* The login that answered for the client: with a token in the environment,  *)
(* the session that token opened.                                            *)
DecidingSession(sessions) ==
    LET of == IF TokenFromEnv THEN SelectSeq(sessions, LAMBDA s : s.source = "env") ELSE sessions
    IN  IF of = <<>> THEN Unset ELSE Head(of)

LoggedOut(status) == Outcome("unauthenticated", "logged out", status)
Unreachable(timedOut, status) ==
    Outcome("unreachable", IF timedOut THEN "timed out" ELSE "unreachable", status)

(* What runProbe makes of the client's word on its logins. *)
RunProbe(probe) ==
    IF probe.timedOut THEN [probe EXCEPT !.parsed = FALSE, !.sessions = <<>>, !.malformed = FALSE]
    ELSE IF ~probe.parsed THEN [probe EXCEPT !.sessions = <<>>]
    ELSE probe

ClassifyExportFailure(export, minted) ==
    LET status == export.status
        authStatus == status \in {401, 403}
        timedOut == export.is = "timeout"
        probe == RunProbe(export.probe)
        deciding == DecidingSession(probe.sessions)
        conclusive == deciding # Unset /\ deciding.state = "authenticated" /\ deciding.verified
    IN  CASE minted -> IF status # 0 THEN Outcome("answered", "", status) ELSE Unreachable(timedOut, status)
          [] status # 0 /\ ~authStatus -> Outcome("answered", "", status)
          [] (deciding # Unset /\ deciding.state \in {"expired", "rejected"}) \/ probe.malformed -> LoggedOut(status)
          [] authStatus -> IF conclusive THEN Outcome("answered", "", status) ELSE LoggedOut(status)
          [] probe.parsed /\ deciding = Unset -> LoggedOut(status)
          [] ~probe.parsed /\ export.wording -> LoggedOut(status)
          [] OTHER -> Unreachable(timedOut \/ probe.timedOut, status)

(* runInfisicalExport: the values of a folder, or how it failed. *)
RunExport(export, minted) ==
    CASE export.is = "values" -> [is |-> "values", values |-> export.values]
      [] export.is = "absent" -> NotInstalled
      [] export.is \in {"garbled", "oversized"} -> Outcome("answered", "", 0)
      [] export.cancelled -> Unclassified
      [] OTHER -> ClassifyExportFailure(export, minted)

-----------------------------------------------------------------------------
(* What a run has learned of the vault's domain, so that the next call need  *)
(* not wait for the same failure.  A login's failure counts only if nothing  *)
(* was unreachable before it, and never for a provider with its own token.   *)
NoVerdict == [unreachable |-> "", unauthenticated |-> FALSE, unauthFirst |-> FALSE]

MarkUnreachable(seen, reason) ==
    IF seen.unreachable # "" THEN seen ELSE [seen EXCEPT !.unreachable = reason]

MarkUnauthenticated(seen) ==
    IF seen.unauthenticated THEN seen
    ELSE [seen EXCEPT !.unauthenticated = TRUE, !.unauthFirst = seen.unreachable = ""]

CheckRun(seen, minted) ==
    CASE ~minted /\ seen.unauthenticated /\ seen.unauthFirst -> LoggedOut(0)
      [] seen.unreachable # "" -> Outcome("unreachable", seen.unreachable, 0)
      [] OTHER -> Unset

Learned(seen, result, minted) ==
    CASE result.is = "unreachable" -> MarkUnreachable(seen, result.reason)
      [] result.is = "unauthenticated" /\ ~minted -> MarkUnauthenticated(seen)
      [] OTHER -> seen

(* A run: seen; paths, the folders it has read, per provider; what it will   *)
(* tell the store: loaded, puts, evicts and all, of each folder; and notes,  *)
(* what it will tell its user of each folder.                                *)
NewRun(folders) ==
    [seen |-> NoVerdict, paths |-> <<>>, notes |-> <<>>, disabled |-> FALSE, loaded |-> <<>>,
     puts |-> [f \in folders |-> <<>>], evicts |-> [f \in folders |-> {}], all |-> {}]

(* Provider.Resolve of ask [minted, folder, key], whose export came to       *)
(* result: a folder is read once.                                            *)
Asked(run, ask, result) ==
    LET at == <<ask.minted, ask.folder>>
        skip == CheckRun(run.seen, ask.minted)
        in(values) == IF ask.key \in DOMAIN values THEN Found(values[ask.key]) ELSE KeyNotFound
    IN  CASE at \in DOMAIN run.paths -> [run |-> run, result |-> in(run.paths[at])]
          [] skip # Unset -> [run |-> run, result |-> skip]
          [] result.is = "values" ->
                 [run |-> [run EXCEPT !.paths = (at :> result.values) @@ @], result |-> in(result.values)]
          [] OTHER -> [run |-> [run EXCEPT !.seen = Learned(@, result, ask.minted)], result |-> result]

-----------------------------------------------------------------------------
(* The store.  A directory: [state, owned, worktree, lock, files]; a file:   *)
(* [state, keys].                                                            *)
TrustedDir(dir) == dir.state \in {"private", "open"} /\ dir.owned
CheckFile(state) == state \notin {"link", "foreign", "shared"}

(* readData: what can't be trusted is an error, what can't be used is empty. *)
ReadData(file) ==
    IF ~CheckFile(file.state) THEN Unset ELSE IF file.state = "sound" THEN file.keys ELSE <<>>

Load(dir, folder) ==
    IF dir.state = "absent" THEN <<>>
    ELSE IF ~TrustedDir(dir) \/ ~CheckFile(dir.lock) THEN Unset
    ELSE ReadData(dir.files[folder])

MergeEntries(current, puts, evicts, all) ==
    puts @@ (IF all THEN <<>> ELSE [k \in DOMAIN current \ evicts |-> current[k]])

(* Update, of one folder, under its lock.  The file is replaced whole, and   *)
(* only when something of it changes; on is what fails on the way, "" for    *)
(* nothing.                                                                  *)
Update(dir, folder, puts, evicts, all, on) ==
    LET made == IF dir.state = "absent" THEN [dir EXCEPT !.state = "private", !.owned = TRUE] ELSE dir
        tight == [made EXCEPT !.state = "private", !.lock = IF @ = "absent" THEN "sound" ELSE @]
        current == ReadData(dir.files[folder])
        next == MergeEntries(current, puts, evicts, all)
    IN  IF dir.worktree THEN [dir |-> dir, err |-> "in a work tree"]
        ELSE IF on = "create" THEN [dir |-> dir, err |-> "unwritable"]
        ELSE IF ~TrustedDir(made) \/ ~CheckFile(made.lock) THEN [dir |-> made, err |-> "unwritable"]
        ELSE IF on = "lock" THEN [dir |-> tight, err |-> "lock timeout"]
        ELSE IF current = Unset THEN [dir |-> tight, err |-> "unwritable"]
        ELSE IF next = current THEN [dir |-> tight, err |-> ""]
        ELSE IF on = "write" THEN [dir |-> tight, err |-> "unwritable"]
        ELSE [dir |-> [tight EXCEPT !.files[folder] = [state |-> "sound", keys |-> next]], err |-> ""]

-----------------------------------------------------------------------------
(* The run's own account of the store, a session. *)
Policy(result) ==
    CASE result.is = "value" -> "record"
      [] result.is = "key-not-found" -> "evict key"
      [] result.is = "answered" /\ result.status \in {403, 404} -> "evict all"
      [] result.is \in {"unauthenticated", "unreachable"} -> "fall back"
      [] OTHER -> "pass"

(* The first note of a kind on a folder stands. *)
Note(run, kind, on, reason) == [run EXCEPT !.notes = @ @@ (<<kind, on>> :> reason)]
Disable(run) == IF run.disabled THEN run ELSE [Note(run, "unwritable", "", "") EXCEPT !.disabled = TRUE]

Put(run, folder, key, value) ==
    [run EXCEPT !.puts[folder] = (key :> value) @@ @, !.evicts[folder] = @ \ {key}]

EvictKey(run, folder, key) ==
    [run EXCEPT !.puts[folder] = [k \in DOMAIN @ \ {key} |-> @[k]], !.evicts[folder] = @ \cup {key}]

EvictAll(run, folder) ==
    [run EXCEPT !.puts[folder] = <<>>, !.evicts[folder] = {}, !.all = @ \cup {folder}]

(* Mutant: what the vault said in this run is not looked at. *)
LookupStale(run, dir, folder, key) ==
    LET entries == IF folder \in DOMAIN run.loaded THEN run.loaded[folder] ELSE Load(dir, folder)
    IN  CASE run.disabled -> [run |-> run, entry |-> Unset]
          [] entries = Unset -> [run |-> Disable(run), entry |-> Unset]
          [] OTHER -> [run |-> [run EXCEPT !.loaded = (folder :> entries) @@ @],
                       entry |-> IF key \in DOMAIN entries THEN entries[key] ELSE Unset]

(* What the store held when this run first looked, except what the vault has *)
(* denied to it since.                                                       *)
Lookup(run, dir, folder, key) ==
    LET entries == IF folder \in DOMAIN run.loaded THEN run.loaded[folder] ELSE Load(dir, folder)
    IN  CASE run.disabled \/ folder \in run.all \/ key \in run.evicts[folder] -> [run |-> run, entry |-> Unset]
          [] entries = Unset -> [run |-> Disable(run), entry |-> Unset]
          [] OTHER -> [run |-> [run EXCEPT !.loaded = (folder :> entries) @@ @],
                       entry |-> IF key \in DOMAIN entries THEN entries[key] ELSE Unset]

(* The decorator's Resolve, of what the provider and the store said: [run,   *)
(* result, served].                                                          *)
Decorated(asked, found, ask) ==
    LET does == Policy(asked.result)
        said(after) == [run |-> after, result |-> asked.result, served |-> FALSE]
    IN  CASE does = "record" -> said(Put(asked.run, ask.folder, ask.key, asked.result.value))
          [] does = "evict key" -> said(EvictKey(asked.run, ask.folder, ask.key))
          [] does = "evict all" -> said(EvictAll(asked.run, ask.folder))
          [] does = "fall back" /\ found.entry # Unset ->
                 [run |-> Note(found.run, "served", ask.folder, asked.result.reason),
                  result |-> Found(found.entry), served |-> TRUE]
          [] does = "fall back" -> said(Note(found.run, "miss", ask.folder, ""))
          [] OTHER -> said(asked.run)

Resolve(run, dir, ask, export) ==
    LET answered(asked) == Decorated(asked, Lookup(asked.run, dir, ask.folder, ask.key), ask)
    IN  answered(Asked(run, ask, RunExport(export, ask.minted)))

(* Flush writes the folders in order.  A lock that isn't had in time costs   *)
(* that folder alone; anything else ends it.  fails: folder -> what fails.   *)
Flush(run, dir, order, fails) ==
    LET due(f) == f \in run.all \/ run.evicts[f] # {} \/ DOMAIN run.puts[f] # {}
        one(acc, f) ==
            LET up == Update(acc.dir, f, run.puts[f], run.evicts[f], f \in run.all, fails[f])
                told == CASE up.err = "lock timeout" -> Note(acc.run, "lock timeout", f, "")
                          [] up.err = "in a work tree" -> Note(acc.run, "in a work tree", "", "")
                          [] up.err = "unwritable" -> Disable(acc.run)
                          [] OTHER -> acc.run
            IN  IF acc.stop \/ ~due(f) THEN acc
                ELSE [dir |-> up.dir, run |-> told, stop |-> up.err \notin {"", "lock timeout"}]
        start == [dir |-> dir, run |-> run, stop |-> run.disabled]
        done == FoldLeft(one, start, order)
    IN  [dir |-> done.dir,
         run |-> [done.run EXCEPT !.puts = [f \in DOMAIN @ |-> <<>>], !.evicts = [f \in DOMAIN @ |-> {}], !.all = {}]]

-----------------------------------------------------------------------------
(* What it promises, of a history of runs that share a store.  An event:     *)
(* [run, ask, export, fails], where a flush has no ask and the rest no fails;*)
(* a run ends with its flush.                                                *)
History(runs, dir, order, events) ==
    LET start == [runs |-> [r \in runs |-> NewRun(Range(order))], log |-> <<>>]
        logged(acc, e, one) ==
            [runs |-> [acc.runs EXCEPT ![e.run] = one.run],
             log |-> Append(acc.log, [event |-> e, result |-> one.result, served |-> one.served, dir |-> one.dir])]
        flushed(flush) == [run |-> flush.run, result |-> Unset, served |-> FALSE, dir |-> flush.dir]
        step(acc, e, now) ==
            IF e.ask = Unset THEN logged(acc, e, flushed(Flush(acc.runs[e.run], now, order, e.fails)))
            ELSE logged(acc, e, [dir |-> now] @@ Resolve(acc.runs[e.run], now, e.ask, e.export))
    IN  FoldLeft(LAMBDA acc, e : step(acc, e, IF acc.log = <<>> THEN dir ELSE Last(acc.log).dir), start, events)

(* What the vault itself said of a key at an entry of the log: Found, a      *)
(* denial (Unset), or no word.                                               *)
NoWord == [is |-> "no word"]

WordOn(entry, folder, key) ==
    LET r == entry.result
        ask == entry.event.ask
    IN  CASE ask = Unset \/ entry.served \/ ask.folder # folder -> NoWord
          [] r.is = "answered" /\ r.status \in {403, 404} -> Unset
          [] ask.key # key -> NoWord
          [] r.is = "value" -> r
          [] r = KeyNotFound -> Unset
          [] OTHER -> NoWord

(* The last of these a run heard before an entry. *)
LastWord(log, i, folder, key) ==
    LET heard == {j \in 1 .. i - 1 : log[j].event.run = log[i].event.run /\ WordOn(log[j], folder, key) # NoWord}
    IN  IF heard = {} THEN NoWord ELSE WordOn(log[CHOOSE j \in heard : \A k \in heard : k <= j], folder, key)

(* A stored value is only served to a run the vault did not answer, or       *)
(* answered as one nobody is logged in to; never one the vault has denied to *)
(* that run; and the run says so.  A flush that fails at nothing leaves of   *)
(* each key the last word its run heard, and of other keys what other runs   *)
(* left.                                                                     *)
TruthfulAt(i, log, ended, dir, order) ==
    LET e == log[i].event
        before == {j \in 1 .. i - 1 : log[j].event.run = e.run}
        dirs == [j \in 0 .. i |-> IF j = 0 THEN dir ELSE log[j].dir]
        held(j, f, k) == LET keys == ReadData(dirs[j].files[f])
                         IN  IF keys = Unset \/ k \notin DOMAIN keys THEN Unset ELSE Found(keys[k])
    IN  /\ log[i].served =>
              /\ e.export.is = "values" => \E j \in before : log[j].event.ask # Unset
              /\ e.export.is # "values" => e.export.status \in {0, 401, 403} \/ ended.seen # NoVerdict
              /\ \A j \in before : WordOn(log[j], e.ask.folder, e.ask.key) # Unset
              /\ <<"served", e.ask.folder>> \in DOMAIN ended.notes
              /\ \E j \in 0 .. i - 1 : log[i].result = held(j, e.ask.folder, e.ask.key)
        /\ e.ask = Unset =>
              \A f \in Range(order), k \in {"a", "b"} :
                  \E word \in {LastWord(log, i, f, k)} :
                      \/ held(i, f, k) = held(i - 1, f, k) /\ (word = NoWord \/ \E g \in Range(order) : e.fails[g] # "")
                      \/ held(i, f, k) = word
                      \/ word # NoWord /\ ended.disabled

StoreIsTruthful(runs, dir, order, events) ==
    \A h \in {History(runs, dir, order, events)} :
        \A i \in DOMAIN h.log : TruthfulAt(i, h.log, h.runs[h.log[i].event.run], dir, order)

(* An update leaves the old file or the new one, whole, and only the new one *)
(* when it says so; it writes nothing where others could have written.       *)
UpdateIsWhole(dir, folder, puts, evicts, all, on) ==
    LET up == Update(dir, folder, puts, evicts, all, on)
        was == ReadData(dir.files[folder])
        merged == MergeEntries(was, puts, evicts, all)
    IN  /\ up.dir.files # dir.files => up.err = "" /\ (dir.state = "absent" \/ Load(dir, folder) # Unset)
        /\ up.err = "" => ReadData(up.dir.files[folder]) = merged
        /\ \A f \in DOMAIN dir.files \ {folder} : up.dir.files[f] = dir.files[f]
=============================================================================
