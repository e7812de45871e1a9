------------------------------- MODULE Imports -------------------------------
(***************************************************************************)
(* The two doors through which files of people come in: POST /imports and  *)
(* HrSyncService, which fetches a feed, previews it, and commits it if     *)
(* evaluateHrRun lets it.  A commit reads every person its file names once *)
(* and then writes row by row, each row in a transaction of its own.       *)
(***************************************************************************)
EXTENDS PeopleRecords, Sequences

CONSTANTS
    Importers, Feeds,   \* requests and CLI processes that import; those that run the feed
    Files,              \* bound: what a file can hold: [rows, extra]
    Threshold, Floor,   \* the source's blast radius: percent and rows
    MaxRuns, MaxCrashes \* bounds: imports started, runs that an error or a crash ends

(* A line of a file, parsed; ok, when it can be resolved.                  *)
FileRows ==
    [who : People, ok : BOOLEAN, unit : Units, start : Dates, end : Dates, attrs : Attributes]

ASSUME ImportsAssumption ==
    /\ Feeds \subseteq Importers
    /\ Files \subseteq [rows : Seq(FileRows), extra : BOOLEAN]
    /\ Threshold \in 0..100 /\ Floor \in Nat
    /\ MaxRuns \in Nat /\ MaxCrashes \in Nat

VARIABLES
    source,   \* hr_sources: enabled, and the outcome of the last run
    imp,      \* each importer's run
    batch,    \* people each importer's present run has updated
    runs, crashes

ivars == <<source, imp, batch, runs, crashes>>

NoFile == [rows |-> <<>>, extra |-> FALSE]
NoOptions == [commit |-> FALSE, partial |-> FALSE, force |-> FALSE]

Options == {[commit |-> c, partial |-> p, force |-> f] : c, p, f \in BOOLEAN}

NotImporting ==
    [pc |-> "idle", options |-> NoOptions, file |-> NoFile, at |-> 1,
     found |-> <<>>, known |-> {}, toUpdate |-> {}, population |-> 0, failed |-> 0,
     outcome |-> "none"]

Outcomes ==
    {"none", "running", "fetch_failed", "previewed", "aborted_failures",
     "aborted_blast_radius", "committed", "committed_partial"}

ImportsTypeOK ==
    /\ source \in [enabled : BOOLEAN, outcome : Outcomes]
    /\ \A h \in Importers :
          /\ imp[h].pc \in {"idle", "fetching", "fetched", "resolved", "prefetch",
                            "rows", "finishing"}
          /\ imp[h].options \in Options
          /\ imp[h].toUpdate \cup imp[h].known \subseteq People
    /\ batch \in [Importers -> SUBSET People]

-----------------------------------------------------------------------------
(* ImportLookups.build: everybody the file names, in one go.               *)
Lookups == person

(* resolveRow: what a row asks of the person of its number, as found.  A   *)
(* second row of a number fails, and so does one of the wrong unit.        *)
Resolve(file, n, found) ==
    LET row == file.rows[n]
    IN IF ~row.ok \/ \E i \in 1..(n - 1) : file.rows[i].ok /\ file.rows[i].who = row.who
       THEN "failure"
       ELSE IF found[row.who] = Absent THEN "create"
       ELSE IF found[row.who].unit # row.unit THEN "failure"
       ELSE "update"

Rows(file, found, kind) ==
    {n \in DOMAIN file.rows : Resolve(file, n, found) = kind}

(* resolveUpdateRow: every column of the row; the attributes, as a whole,  *)
(* only of a file that has columns for them.                               *)
Imported(row, extra, old) ==
    [old EXCEPT !.start = row.start, !.end = row.end,
                !.attrs = IF extra THEN row.attrs ELSE @]

(* evaluateBlastRadius.                                                    *)
Tripped(changed, population) ==
    /\ population > 0 /\ changed * 100 > population * Threshold
    /\ changed > Floor

Population == Cardinality({p \in People : Exists(p)})

(* Mutant of EvaluateHrRun: what the feed may change is never counted.      *)
EvaluateFailures(h) ==
    IF imp[h].failed > 0 /\ ~imp[h].options.partial THEN "aborted_failures" ELSE "none"

(* evaluateHrRun: the run is refused, or may commit.                       *)
EvaluateHrRun(h) ==
    IF imp[h].failed > 0 /\ ~imp[h].options.partial THEN "aborted_failures"
    ELSE IF Tripped(Cardinality(imp[h].toUpdate), Population) /\ ~imp[h].options.force
         THEN "aborted_blast_radius"
    ELSE "none"

-----------------------------------------------------------------------------
Go(h, to) ==
    /\ imp' = [imp EXCEPT ![h] = to]
    /\ UNCHANGED crashes

StillPeople == UNCHANGED pvars

(* PATCH /hr-sources/:id.                                                  *)
SetSourceEnabled(to) ==
    /\ writes < MaxWrites /\ writes' = writes + 1
    /\ source.enabled # to
    /\ source' = [source EXCEPT !.enabled = to]
    /\ UNCHANGED <<person, today, txn, gaps, imp, batch, runs, crashes>>

(* POST /imports/commit.                                                   *)
StartImport(h, file) ==
    /\ imp[h].pc = "idle" /\ h \notin Feeds /\ runs < MaxRuns
    /\ runs' = runs + 1
    /\ Go(h, [NotImporting EXCEPT !.pc = "prefetch", !.file = file])
    /\ UNCHANGED <<source, batch>> /\ StillPeople

(* HrSyncService.run: recordRunStarted wipes what the last run left.       *)
StartFeedRun(h, options) ==
    /\ imp[h].pc = "idle" /\ h \in Feeds /\ runs < MaxRuns
    /\ options.commit => source.enabled
    /\ runs' = runs + 1
    /\ source' = [source EXCEPT !.outcome = "running"]
    /\ Go(h, [NotImporting EXCEPT !.pc = "fetching", !.options = options])
    /\ UNCHANGED batch /\ StillPeople

FetchFeed(h, file) ==
    /\ imp[h].pc = "fetching"
    /\ Go(h, [imp[h] EXCEPT !.pc = "fetched", !.file = file])
    /\ UNCHANGED <<source, batch, runs>> /\ StillPeople

(* finishFailed: the upstream did not answer, or not with people.          *)
FetchFails(h) ==
    /\ imp[h].pc = "fetching"
    /\ Go(h, [imp[h] EXCEPT !.pc = "finishing", !.outcome = "fetch_failed"])
    /\ UNCHANGED <<source, batch, runs>> /\ StillPeople

(* ImportsController.preview.                                              *)
Preview(h) ==
    LET file == imp[h].file
    IN /\ imp[h].pc = "fetched"
       /\ Go(h, [imp[h] EXCEPT !.pc = "resolved", !.known = {p \in People : Exists(p)},
                   !.toUpdate = {file.rows[n].who : n \in Rows(file, Lookups, "update")},
                   !.failed = Cardinality(Rows(file, Lookups, "failure"))])
       /\ UNCHANGED <<source, batch, runs>> /\ StillPeople

(* The population is counted, and the run goes on or ends.                 *)
Decide(h) ==
    LET verdict == IF imp[h].options.commit THEN EvaluateHrRun(h) ELSE "previewed"
    IN /\ imp[h].pc = "resolved"
       /\ Go(h, IF verdict = "none"
                THEN [imp[h] EXCEPT !.pc = "prefetch", !.population = Population]
                ELSE [imp[h] EXCEPT !.pc = "finishing", !.outcome = verdict])
       /\ UNCHANGED <<source, batch, runs>> /\ StillPeople

(* ImportsController.commit looks everybody up again.                      *)
Prefetch(h) ==
    /\ imp[h].pc = "prefetch"
    /\ Go(h, [imp[h] EXCEPT !.pc = "rows", !.found = Lookups, !.failed = 0])
    /\ UNCHANGED <<source, batch, runs>> /\ StillPeople

RowDone(h, failures) ==
    /\ Go(h, [imp[h] EXCEPT !.at = @ + 1, !.failed = @ + failures])
    /\ UNCHANGED <<source, runs, today, txn, writes>>

RowAt(h) == imp[h].file.rows[imp[h].at]

(* The next row of the commit.                                             *)
Importing(h, kind) ==
    /\ imp[h].pc = "rows" /\ imp[h].at \in DOMAIN imp[h].file.rows
    /\ Resolve(imp[h].file, imp[h].at, imp[h].found) = kind

FailRow(h) ==
    /\ Importing(h, "failure")
    /\ RowDone(h, 1)
    /\ UNCHANGED <<person, gaps, batch>>

(* A new person; a unique violation when somebody created it meanwhile.    *)
CreateRow(h) ==
    LET p == RowAt(h).who
        row == Imported(RowAt(h), TRUE, NewRow(RowAt(h).unit, [field |-> "end", value |-> Never]))
    IN /\ Importing(h, "create")
       /\ \/ ~Exists(p) /\ Write(p, row, "import", Absent) /\ RowDone(h, 0)
          \/ Exists(p) /\ RowDone(h, 1) /\ UNCHANGED <<person, gaps>>
       /\ UNCHANGED batch

(* isNoopUpdate against the row as found, or the update of what the row is *)
(* now; the audit record says it was as found.                             *)
UpdateRow(h) ==
    LET row == RowAt(h)
        extra == imp[h].file.extra
        old == imp[h].found[row.who]
    IN /\ Importing(h, "update")
       /\ \/ /\ Imported(row, extra, old) = old
             /\ UNCHANGED <<person, gaps, batch>>
          \/ /\ Imported(row, extra, old) # old /\ ~Locked(row.who)
             /\ Write(row.who, Imported(row, extra, person[row.who]), "import", old)
             /\ batch' = [batch EXCEPT ![h] = @ \cup {row.who}]
       /\ RowDone(h, 0)

EndCommit(h) ==
    /\ imp[h].pc = "rows" /\ imp[h].at \notin DOMAIN imp[h].file.rows
    /\ Go(h, [imp[h] EXCEPT !.pc = "finishing",
                !.outcome = IF imp[h].failed > 0 THEN "committed_partial" ELSE "committed"])
    /\ UNCHANGED <<source, batch, runs>> /\ StillPeople

(* The answer to the request; of a feed, finish with what is recorded.     *)
FinishRun(h) ==
    /\ imp[h].pc = "finishing"
    /\ source' = IF h \in Feeds THEN [source EXCEPT !.outcome = imp[h].outcome] ELSE source
    /\ batch' = [batch EXCEPT ![h] = {}]
    /\ Go(h, NotImporting)
    /\ UNCHANGED runs /\ StillPeople

(* A throw outside the row's try, or a crash.                              *)
RunCrashes(h) ==
    /\ imp[h].pc # "idle" /\ crashes < MaxCrashes
    /\ crashes' = crashes + 1
    /\ imp' = [imp EXCEPT ![h] = NotImporting]
    /\ batch' = [batch EXCEPT ![h] = {}]
    /\ UNCHANGED <<source, runs>> /\ StillPeople

-----------------------------------------------------------------------------
ImportsInit ==
    /\ source = [enabled |-> TRUE, outcome |-> "none"]
    /\ imp = [h \in Importers |-> NotImporting]
    /\ batch = [h \in Importers |-> {}]
    /\ runs = 0 /\ crashes = 0

ImportStep(h) ==
    \/ FetchFails(h) \/ Preview(h) \/ Decide(h) \/ Prefetch(h)
    \/ FailRow(h) \/ CreateRow(h) \/ UpdateRow(h)
    \/ EndCommit(h) \/ FinishRun(h) \/ RunCrashes(h)

ImportsNext ==
    \/ \E to \in BOOLEAN : SetSourceEnabled(to)
    \/ \E h \in Importers :
          \/ \E file \in Files : StartImport(h, file) \/ FetchFeed(h, file)
          \/ \E options \in Options : StartFeedRun(h, options)
          \/ ImportStep(h)

-----------------------------------------------------------------------------
(* evaluateHrRun is decided on a preview, and the commit resolves every    *)
(* row again after it: of the people the preview knew, a run that was not  *)
(* forced and had no failing row never updates more than the guard allows, *)
(* whoever is created, moved or edited in between.                         *)
GuardBoundsTheRun ==
    \A h \in Feeds :
        imp[h].pc = "rows" /\ ~imp[h].options.force /\ ~imp[h].options.partial =>
            ~Tripped(Cardinality(batch[h] \cap imp[h].known), imp[h].population)

(* hr-sync.service.ts: "Every terminal state - including every refusal -   *)
(* is recorded": when no run is going on, the source says how the last one *)
(* ended.                                                                  *)
EveryRunIsRecorded ==
    (\A h \in Feeds : imp[h].pc = "idle") => source.outcome # "running"
=============================================================================
