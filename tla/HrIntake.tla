------------------------------ MODULE HrIntake ------------------------------
(***************************************************************************)
(* How a feed of people comes in: an administrator keeps the source's row, *)
(* a run fetches the feed page by page while the HR system goes on         *)
(* changing it, maps the records to columns and records how it ended.      *)
(* What a run does with the file it has made is the module Imports; here   *)
(* only its outcome is chosen.                                             *)
(***************************************************************************)
EXTENDS Naturals, Sequences, FiniteSets, SequencesExt

CONSTANTS
    Fetchers,          \* runs of the one source: a console request, the CLI
    Clerks,            \* administrators that patch it
    Records,           \* what the HR system may hold
    FirstFeeds,        \* what it may list at first
    Shape,             \* of every record, what each field holds
    Fields,
    Settings,          \* what a source may be configured with
    PageSize,
    PageCeiling,       \* HR_MAX_PAGES_CEILING
    MaxBytes,          \* the fetch budget of one run, in records
    MaxFeedEdits, MaxFetches, MaxPatches   \* bounds

Pagings == [mode : {"none"}] \cup [mode : {"page", "cursor"}, maxPages : Nat]

ASSUME IntakeAssumption ==
    /\ FirstFeeds \subseteq Seq(Records)
    /\ Settings \subseteq
           [kind : {"csv_url", "rest_json"}, mapping : {s.mapping : s \in Settings},
            paging : Pagings, enabled : BOOLEAN]
    /\ Shape \in [Records -> [Fields -> {"scalar", "absent", "subtree"}]]
    /\ {PageSize, PageCeiling} \subseteq Nat \ {0}
    /\ {MaxBytes, MaxFeedEdits, MaxFetches, MaxPatches} \subseteq Nat

VARIABLES
    hr,       \* the records the HR system lists, in its order
    src,      \* the hr_sources row
    fetch,    \* what each run is doing
    patching, \* the row each administrator's request has read
    runlog,   \* the hr_source:sync audit rows, newest last
    told,     \* what the newest hr_source:update audit row says
    spent     \* how often what is bounded has happened

hvars == <<hr, src, fetch, patching, runlog, told, spent>>

NoFetch == [pc |-> "idle"]

-----------------------------------------------------------------------------
(* parseColumnMapping: no column is produced by two fields.  A mapping is  *)
(* the set of its pairs.                                                   *)
MappingParses(pairs) ==
    \A p, q \in pairs : p[2] = q[2] => p = q

(* A schema per kind: a CSV source takes no settings, a page count is      *)
(* positive and below the ceiling.                                         *)
ConfigParses(kind, paging) ==
    IF kind = "csv_url" THEN paging.mode = "none"
    ELSE paging.mode # "none" => paging.maxPages \in 1..PageCeiling

Accepted(row) == MappingParses(row.mapping) /\ ConfigParses(row.kind, row.paging)

Mapped(pairs) == {p[1] : p \in pairs}

-----------------------------------------------------------------------------
(* applyColumnMapping: every mapped column is in the file's header, which  *)
(* is every field some record has.                                         *)
CsvMaps(records, pairs) ==
    \A f \in Mapped(pairs) : records = <<>> \/ \E i \in DOMAIN records : Shape[records[i]][f] # "absent"

(* mapJsonFeed: no mapped path is a subtree anywhere or absent everywhere. *)
JsonMaps(records, pairs) ==
    /\ \A f \in Mapped(pairs), i \in DOMAIN records : Shape[records[i]][f] # "subtree"
    /\ CsvMaps(records, pairs)

FeedMaps(kind, records, pairs) ==
    IF kind = "csv_url" THEN CsvMaps(records, pairs) ELSE JsonMaps(records, pairs)

(* The records of the page that starts after `from`, as the HR system has  *)
(* them when it is asked.                                                  *)
PageOf(from) == SubSeq(hr, from + 1, IF from + PageSize > Len(hr) THEN Len(hr) ELSE from + PageSize)

(* The pages one run asks for.                                             *)
PageCap(paging) ==
    IF paging.mode = "none" THEN 1
    ELSE IF paging.maxPages < PageCeiling THEN paging.maxPages ELSE PageCeiling

(* What the next request of a run returns; all of it when nothing is said  *)
(* of pages.                                                               *)
Asked(f) == IF f.of.paging.mode = "none" THEN hr ELSE PageOf(f.from)

(* Is the feed over with this page: it was empty, or names no next one.    *)
LastPage(f) ==
    CASE f.of.paging.mode = "none" -> TRUE
      [] f.of.paging.mode = "page" -> Asked(f) = <<>>
      [] f.of.paging.mode = "cursor" -> f.from + PageSize >= Len(hr)

(* Mutant of NextFrom: the page number starts at one page too many.        *)
NextFromOneLate(f) == IF f.pages = 0 THEN f.from + 2 * PageSize ELSE f.from + PageSize

(* Where the next request starts: startPage + page, or the cursor.         *)
NextFrom(f) == f.from + PageSize

-----------------------------------------------------------------------------
(* HrSyncService.run: recordRunStarted clears what the last run left.      *)
StartFetch(h, commit) ==
    /\ fetch[h].pc = "idle" /\ spent.fetches < MaxFetches
    /\ commit => src.enabled
    /\ src' = [src EXCEPT !.last = "running"]
    /\ fetch' = [fetch EXCEPT ![h] =
                   [pc |-> "fetching", of |-> src, commit |-> commit, from |-> 0, pages |-> 0,
                    got |-> <<>>, budget |-> MaxBytes, saw |-> hr, moved |-> FALSE]]
    /\ spent' = [spent EXCEPT !.fetches = @ + 1]
    /\ UNCHANGED <<hr, patching, runlog, told>>

Fetching(h) == fetch[h].pc = "fetching" /\ fetch[h].pages < PageCap(fetch[h].of.paging)

(* fetchFeedBody refuses a bad answer, a body that is not the JSON asked   *)
(* for, and one that is larger than what is left of the run's budget.      *)
RequestFails(h) ==
    /\ Fetching(h)
    /\ fetch' = [fetch EXCEPT ![h] = [pc |-> "ending", outcome |-> "fetch_failed"]]
    /\ UNCHANGED <<hr, src, patching, runlog, told, spent>>

(* One page is read and the next asked for.                                *)
ReadPage(h) ==
    LET f == fetch[h]
        page == Asked(f)
        read == [f EXCEPT !.got = @ \o page, !.budget = @ - Len(page), !.pages = @ + 1,
                          !.from = NextFrom(f), !.pc = IF LastPage(f) THEN "fetched" ELSE "fetching"]
    IN /\ Fetching(h) /\ Len(page) <= f.budget
       /\ fetch' = [fetch EXCEPT ![h] = read]
       /\ UNCHANGED <<hr, src, patching, runlog, told, spent>>

(* The page limit is reached: the run has what it has.                     *)
StopAtTheCap(h) ==
    /\ fetch[h].pc = "fetching" /\ ~Fetching(h)
    /\ fetch' = [fetch EXCEPT ![h].pc = "fetched"]
    /\ UNCHANGED <<hr, src, patching, runlog, told, spent>>

(* The feed is mapped; what the import pipeline makes of it is its own.    *)
MapFeed(h, outcome) ==
    LET f == fetch[h]
    IN /\ f.pc = "fetched"
       /\ outcome \in IF ~FeedMaps(f.of.kind, f.got, f.of.mapping) THEN {"preview_failed"}
                      ELSE IF f.commit THEN {"aborted_failures", "aborted_blast_radius", "committed"}
                      ELSE {"previewed", "preview_failed"}
       /\ fetch' = [fetch EXCEPT ![h] = [pc |-> "ending", outcome |-> outcome]]
       /\ UNCHANGED <<hr, src, patching, runlog, told, spent>>

(* finish: the row says how the run ended, and so does one more audit row. *)
EndFetch(h) ==
    /\ fetch[h].pc = "ending"
    /\ src' = [src EXCEPT !.last = fetch[h].outcome]
    /\ runlog' = Append(runlog, fetch[h].outcome)
    /\ fetch' = [fetch EXCEPT ![h] = NoFetch]
    /\ UNCHANGED <<hr, patching, told, spent>>

-----------------------------------------------------------------------------
(* PATCH reads the row outside its transaction.                            *)
ReadSource(c) ==
    /\ patching[c] = <<>> /\ spent.patches < MaxPatches
    /\ patching' = [patching EXCEPT ![c] = <<src>>]
    /\ spent' = [spent EXCEPT !.patches = @ + 1]
    /\ UNCHANGED <<hr, src, fetch, runlog, told>>

(* What is sent is written whole, after the kind the row was read with;    *)
(* the audit row says it replaced what was read.                           *)
PatchSource(c, s) ==
    LET read == patching[c][1]
        row == [src EXCEPT !.mapping = s.mapping, !.paging = s.paging, !.enabled = s.enabled]
    IN /\ patching[c] # <<>>
       /\ patching' = [patching EXCEPT ![c] = <<>>]
       /\ IF Accepted([s EXCEPT !.kind = read.kind])
          THEN /\ src' = row
               /\ told' = [from |-> read.mapping, over |-> src.mapping]
          ELSE UNCHANGED <<src, told>>
       /\ UNCHANGED <<hr, fetch, runlog, spent>>

(* People are hired and leave in the HR system.                            *)
EditFeed ==
    /\ spent.edits < MaxFeedEdits
    /\ hr' \in {Append(hr, r) : r \in Records \ ToSet(hr)} \cup {RemoveAt(hr, i) : i \in DOMAIN hr}
    /\ spent' = [spent EXCEPT !.edits = @ + 1]
    /\ fetch' = [h \in Fetchers |-> IF fetch[h].pc = "fetching" THEN [fetch[h] EXCEPT !.moved = TRUE]
                                    ELSE fetch[h]]
    /\ UNCHANGED <<src, patching, runlog, told>>

-----------------------------------------------------------------------------
(* POST /hr-sources.                                                       *)
CreatedSources ==
    {[kind |-> s.kind, mapping |-> s.mapping, paging |-> s.paging, enabled |-> s.enabled, last |-> "never"] :
        s \in {t \in Settings : Accepted(t)}}

IntakeInit ==
    /\ hr \in FirstFeeds
    /\ src \in CreatedSources
    /\ fetch = [h \in Fetchers |-> NoFetch]
    /\ patching = [c \in Clerks |-> <<>>]
    /\ runlog = <<>> /\ told = [from |-> {}, over |-> {}]
    /\ spent = [edits |-> 0, fetches |-> 0, patches |-> 0]

IntakeNext ==
    \/ EditFeed
    \/ \E c \in Clerks : ReadSource(c) \/ \E s \in Settings : PatchSource(c, s)
    \/ \E h \in Fetchers :
          \/ \E commit \in BOOLEAN : StartFetch(h, commit)
          \/ RequestFails(h) \/ ReadPage(h) \/ StopAtTheCap(h) \/ EndFetch(h)
          \/ \E outcome \in {"preview_failed", "previewed", "aborted_failures",
                             "aborted_blast_radius", "committed"} : MapFeed(h, outcome)

-----------------------------------------------------------------------------
(* The pages a whole fetch of n records takes; in page mode the empty one  *)
(* that ends it as well.                                                   *)
PagesOf(n, mode) ==
    IF mode = "none" THEN 1
    ELSE IF mode = "page" THEN (n + PageSize - 1) \div PageSize + 1
    ELSE IF n = 0 THEN 1 ELSE (n + PageSize - 1) \div PageSize

(* hr-fetch.ts fetches by pages, over several requests and under two       *)
(* limits: a run that the HR system did not change under, and that needed  *)
(* no more pages than it may ask for, has every record, once and in order, *)
(* and never more than its budget.                                         *)
StillFeedsArriveWhole ==
    \A h \in Fetchers :
        LET f == fetch[h]
        IN f.pc = "fetched" =>
             /\ Len(f.got) <= MaxBytes
             /\ ~f.moved /\ PagesOf(Len(f.saw), f.of.paging.mode) <= PageCap(f.of.paging) => f.got = f.saw

(* hr-fetch.ts: the page limit is "low enough that a misconfigured feed    *)
(* fails fast".  It does not fail: what was read so far is the feed.       *)
CappedFeedsFail ==
    \A h \in Fetchers :
        fetch[h].pc = "fetched" /\ ~fetch[h].moved => fetch[h].got = fetch[h].saw

(* The audit row of a change of the source tells what it replaced.         *)
PatchesTellTheTruth == told.from = told.over
=============================================================================
