--------------------------- MODULE LifecycleProofs ---------------------------
(***************************************************************************)
(* What the jobs, the rules, the imports and the requests keep of each     *)
(* other's work on the same people, for any number of each, and what a     *)
(* feed that is fetched by pages brings in.                                *)
(***************************************************************************)
EXTENDS Lifecycle, Imports, HrIntake, FiniteSetTheorems, SequenceTheorems, TLAPS

(* Everything that writes people, at once.                                 *)
WritersInit == PeopleInit /\ LifecycleInit /\ ImportsInit

WritersNext ==
    \/ PeopleNext /\ UNCHANGED <<lvars, ivars>>
    \/ LifecycleNext /\ UNCHANGED ivars
    \/ ImportsNext /\ UNCHANGED lvars

wvars == <<pvars, lvars, ivars>>

WritersSpec == WritersInit /\ [][WritersNext]_wvars

-----------------------------------------------------------------------------
(* Rows.                                                                   *)

LEMMA AbsentIsNoRow == Absent \notin Row
BY DEF Absent, Row, Statuses

LEMMA PatchedRows ==
    ASSUME NEW row \in Row, NEW patch \in Patches
    PROVE  Patched(row, patch) \in Row /\ Patched(row, patch).status = row.status
<1>1. CASE patch \in [field : {"attrs"}, value : Attributes]
  <2>1. Patched(row, patch) = [row EXCEPT !.attrs = patch.value] /\ patch.value \in Attributes
    BY <1>1 DEF Patched
  <2> QED BY <2>1 DEF Row
<1>2. CASE patch \in [field : {"start", "end"}, value : Dates]
  <2>1. patch.field \in {"start", "end"} /\ patch.value \in Dates
    BY <1>2
  <2>2. CASE patch.field = "start"
    <3>1. Patched(row, patch) = [row EXCEPT !.start = patch.value]
      BY <2>2 DEF Patched
    <3> QED BY <2>1, <3>1 DEF Row
  <2>3. CASE patch.field = "end"
    <3>1. Patched(row, patch) = [row EXCEPT !.end = patch.value]
      BY <2>3 DEF Patched
    <3> QED BY <2>1, <3>1 DEF Row
  <2> QED BY <2>1, <2>2, <2>3
<1> QED BY <1>1, <1>2, PeopleAssumption

LEMMA NewRows ==
    ASSUME NEW unit \in Units, NEW patch,
           patch \in Patches \/ patch = [field |-> "end", value |-> Never]
    PROVE  NewRow(unit, patch) \in Row /\ NewRow(unit, patch).status = "pending"
<1> DEFINE blank == [status |-> "pending", unit |-> unit, start |-> Never, end |-> Never,
                     attrs |-> [k \in Keys |-> Unset]]
<1>1. blank \in Row /\ blank.status = "pending"
  BY DEF Row, Statuses, Dates, Attributes
<1>2. CASE patch \in Patches
  BY <1>1, <1>2, PatchedRows DEF NewRow
<1>3. CASE patch = [field |-> "end", value |-> Never]
  <2>1. NewRow(unit, patch) = [blank EXCEPT !.end = Never]
    BY <1>3 DEF NewRow, Patched
  <2> QED BY <1>1, <2>1 DEF Row, Dates
<1> QED BY <1>2, <1>3

LEMMA ImportedRows ==
    ASSUME NEW row \in FileRows, NEW extra \in BOOLEAN, NEW old \in Row
    PROVE  Imported(row, extra, old) \in Row /\ Imported(row, extra, old).status = old.status
BY DEF Imported, FileRows, Row

LEMMA MergedAttributes ==
    ASSUME NEW attrs \in Attributes, NEW k, NEW v \in Values
    PROVE  Merged(attrs, [own \in {k} |-> v]) \in Attributes
BY DEF Merged, Attributes

-----------------------------------------------------------------------------
(* Records.                                                                *)

(* What a person asks of one's own record.                                 *)
OwnEdit(arg) == \E k \in SelfKeys, v \in Values : arg = [own \in {k} |-> v]

(* A request that is under way has the row of an existing person locked,   *)
(* alone, and read as it still is.                                         *)
RequestInHand(t) ==
    /\ t.on \in People /\ Exists(t.on)
    /\ t.read = person[t.on]
    /\ t.op = "update" => t.arg \in Patches
    /\ t.op = "transfer" => t.arg \in Units
    /\ t.op = "self" => OwnEdit(t.arg)

RecordsInv ==
    /\ person \in [People -> Row \cup {Absent}]
    /\ DOMAIN txn = Sessions
    /\ \A s \in Sessions : txn[s] # Idle => RequestInHand(txn[s])
    /\ \A s, t \in Sessions : txn[s] # Idle /\ txn[t] # Idle /\ txn[s].on = txn[t].on => s = t
    /\ gaps \cap {"request", "rule"} = {}

(* What may become of a person in one step: nobody is deleted, nobody is   *)
(* suspended, and nobody comes back.                                       *)
Evolves(p) ==
    \/ person'[p] = person[p]
    \/ ~Exists(p) /\ person'[p] \in Row /\ person'[p].status = "pending"
    \/ /\ Exists(p) /\ person'[p] \in Row
       /\ \/ person'[p].status = person[p].status
          \/ person[p].status \in {"pending", "suspended"} /\ person'[p].status = "active"
          \/ person[p].status # "deactivated" /\ person'[p].status = "deactivated"

(* One row is written, by somebody who may.                                *)
Writes(p, row, by, before) ==
    /\ p \in People /\ row \in Row
    /\ Write(p, row, by, before)
    /\ by \in {"request", "rule"} => before = person[p]
    /\ Exists(p) => \/ row.status = person[p].status
                    \/ person[p].status \in {"pending", "suspended"} /\ row.status = "active"
                    \/ person[p].status # "deactivated" /\ row.status = "deactivated"
    /\ ~Exists(p) => row.status = "pending"

LEMMA WritesEvolve ==
    ASSUME RecordsInv, NEW p, NEW row, NEW by, NEW before, Writes(p, row, by, before)
    PROVE  /\ person' \in [People -> Row \cup {Absent}]
           /\ \A q \in People : Evolves(q)
           /\ \A q \in People : q # p => person'[q] = person[q]
           /\ \A q \in People : Exists(q) => Exists(q)'
           /\ gaps' \cap {"request", "rule"} = {}
<1>1. person' = [person EXCEPT ![p] = row] /\ p \in People /\ row \in Row
  BY DEF Writes, Write
<1>2. person' \in [People -> Row \cup {Absent}] /\ person'[p] = row
  BY <1>1 DEF RecordsInv
<1>3. \A q \in People : q # p => person'[q] = person[q]
  BY <1>1 DEF RecordsInv
<1>4. \A q \in People : Evolves(q)
  BY <1>1, <1>2, <1>3 DEF Evolves, Writes
<1>5. \A q \in People : Exists(q) => Exists(q)'
  BY <1>1, <1>2, <1>3, AbsentIsNoRow DEF Exists
<1>6. gaps' \cap {"request", "rule"} = {}
  BY DEF Writes, Write, RecordsInv
<1> QED BY <1>2, <1>3, <1>4, <1>5, <1>6

LEMMA StatusWrites ==
    ASSUME RecordsInv, NEW p \in People, NEW next \in {"active", "deactivated"},
           NEW by, NEW before, ChangeStatus(p, next, by, before),
           by = "request" => before = person[p], by # "rule"
    PROVE  Writes(p, [person[p] EXCEPT !.status = next], by, before)
<1>1. Exists(p) /\ person[p] \in Row /\ next \in AllowedTransitions[person[p].status]
  BY DEF ChangeStatus, CanBecome, RecordsInv, Exists
<1>2. person[p].status \in {"pending", "active", "suspended", "deactivated"}
  BY <1>1 DEF Row, Statuses
<1>3. /\ AllowedTransitions["deactivated"] = {}
      /\ AllowedTransitions["active"] = {"suspended", "deactivated"}
  BY DEF AllowedTransitions
<1>4. /\ person[p].status # "deactivated"
      /\ next = "active" => person[p].status \in {"pending", "suspended"}
  BY <1>1, <1>2, <1>3
<1>5. /\ [person[p] EXCEPT !.status = next] \in Row
      /\ [person[p] EXCEPT !.status = next].status = next
  BY <1>1 DEF Row, Statuses
<1> QED BY <1>1, <1>4, <1>5 DEF Writes, ChangeStatus

(* What a step that is not a request's makes of the records.               *)
LEMMA OthersKeepRecords ==
    ASSUME RecordsInv, NEW p, NEW row, NEW by, NEW before, Writes(p, row, by, before),
           ~Locked(p), UNCHANGED txn
    PROVE  RecordsInv'
<1>1. \A s \in Sessions : txn[s] # Idle => txn[s].on # p
  BY DEF Locked
<1>2. \A s \in Sessions : txn[s] # Idle => RequestInHand(txn[s])'
  BY <1>1, WritesEvolve DEF RequestInHand, RecordsInv
<1> QED BY <1>2, WritesEvolve DEF RecordsInv

LEMMA RequestsBegin ==
    ASSUME RecordsInv, NEW s \in Sessions, NEW p \in People, Ask(s, p)
    PROVE  RecordsInv' /\ \A q \in People : Evolves(q)
<1>1. PICK op, arg :
          /\ Begin(s, op, p, arg)
          /\ op \in Ops
          /\ op = "update" => arg \in Patches
          /\ op = "transfer" => arg \in Units
          /\ op = "self" => OwnEdit(arg)
  <2>1. CASE \E patch \in Patches : Begin(s, "update", p, patch)
    BY <2>1 DEF Ops
  <2>2. CASE \E u \in Units : Begin(s, "transfer", p, u)
    BY <2>2 DEF Ops
  <2>3. CASE \E op \in {"activate", "deactivate"} : Begin(s, op, p, Nobody)
    BY <2>3 DEF Ops
  <2>4. CASE \E k \in SelfKeys, v \in Values : Begin(s, "self", p, [own \in {k} |-> v])
    <3>1. PICK k \in SelfKeys, v \in Values : Begin(s, "self", p, [own \in {k} |-> v])
      BY <2>4
    <3>2. OwnEdit([own \in {k} |-> v])
      BY DEF OwnEdit
    <3> QED BY <3>1, <3>2 DEF Ops
  <2> QED BY <2>1, <2>2, <2>3, <2>4 DEF Ask
<1>2. /\ txn' = [txn EXCEPT ![s] = [op |-> op, on |-> p, arg |-> arg, read |-> person[p]]]
      /\ UNCHANGED <<person, gaps>> /\ Exists(p) /\ ~Locked(p)
  BY <1>1 DEF Begin
<1>3. DOMAIN txn' = Sessions /\ \A t \in Sessions : t # s => txn'[t] = txn[t]
  BY <1>2 DEF RecordsInv
<1>4. txn'[s] = [op |-> op, on |-> p, arg |-> arg, read |-> person[p]]
  BY <1>2 DEF RecordsInv
<1>5. RequestInHand(txn'[s])
  BY <1>1, <1>2, <1>4 DEF RequestInHand
<1>6. \A t \in Sessions : t # s => txn'[t].on # p
  BY <1>2, <1>3 DEF Locked
<1>7. \A t \in Sessions : txn'[t] # Idle => RequestInHand(txn'[t])
  BY <1>3, <1>5 DEF RecordsInv
<1>8. \A t \in Sessions : txn'[t] # Idle => RequestInHand(txn[t])'
  BY <1>2, <1>7 DEF RequestInHand, Exists
<1>9. \A t, r \in Sessions : txn'[t] # Idle /\ txn'[r] # Idle /\ txn'[t].on = txn'[r].on => t = r
  BY <1>3, <1>4, <1>6 DEF RecordsInv
<1>10. RecordsInv'
  BY <1>2, <1>3, <1>8, <1>9 DEF RecordsInv
<1> QED BY <1>2, <1>10 DEF Evolves

LEMMA RequestsFinish ==
    ASSUME RecordsInv, NEW s \in Sessions, Finish(s)
    PROVE  RecordsInv' /\ \A q \in People : Evolves(q)
<1> DEFINE t == txn[s]
<1>1. End(s) /\ t # Idle
  BY DEF Finish, UpdateUser, TransferUser, ActivateUser, DeactivateUser, SelfUpdate, Rollback, Idle
<1>2. RequestInHand(t) /\ person[t.on] \in Row
  BY <1>1 DEF RecordsInv, RequestInHand, Exists
<1>3. \/ UNCHANGED <<person, gaps>>
      \/ \E row : Writes(t.on, row, "request", t.read)
  <2>1. CASE UpdateUser(s)
    <3>1. Writes(t.on, Patched(person[t.on], t.arg), "request", t.read)
      BY <1>2, <2>1, PatchedRows DEF UpdateUser, RequestInHand, Writes
    <3> QED BY <3>1
  <2>2. CASE TransferUser(s)
    <3>1. /\ [person[t.on] EXCEPT !.unit = t.arg] \in Row
          /\ [person[t.on] EXCEPT !.unit = t.arg].status = person[t.on].status
      BY <1>2, <2>2 DEF TransferUser, RequestInHand, Row
    <3>2. Writes(t.on, [person[t.on] EXCEPT !.unit = t.arg], "request", t.read)
      BY <1>2, <2>2, <3>1 DEF TransferUser, RequestInHand, Writes
    <3> QED BY <3>2
  <2>3. CASE ActivateUser(s)
    BY <1>2, <2>3, StatusWrites DEF ActivateUser, RequestInHand
  <2>4. CASE DeactivateUser(s)
    BY <1>2, <2>4, StatusWrites DEF DeactivateUser, RequestInHand
  <2>5. CASE SelfUpdate(s)
    <3> DEFINE merged == Merged(t.read.attrs, t.arg)
    <3>1. merged \in Attributes
      <4>1. PICK k \in SelfKeys, v \in Values : t.arg = [own \in {k} |-> v]
        BY <1>2, <2>5 DEF SelfUpdate, RequestInHand, OwnEdit
      <4>2. t.read.attrs \in Attributes
        BY <1>2 DEF RequestInHand, Row
      <4>3. PICK attrs \in Attributes : attrs = t.read.attrs
        BY <4>2
      <4>4. Merged(attrs, [own \in {k} |-> v]) \in Attributes
        BY MergedAttributes
      <4> QED BY <4>1, <4>3, <4>4
    <3>2. /\ [person[t.on] EXCEPT !.attrs = merged] \in Row
          /\ [person[t.on] EXCEPT !.attrs = merged].status = person[t.on].status
      BY <1>2, <3>1 DEF Row
    <3>3. Writes(t.on, [person[t.on] EXCEPT !.attrs = merged], "request", t.read)
      BY <1>2, <2>5, <3>2 DEF SelfUpdate, RequestInHand, Writes
    <3> QED BY <3>3
  <2>6. CASE Rollback(s)
    BY <2>6 DEF Rollback
  <2> QED BY <2>1, <2>2, <2>3, <2>4, <2>5, <2>6 DEF Finish
<1>4. DOMAIN txn' = Sessions /\ txn'[s] = Idle /\ \A r \in Sessions : r # s => txn'[r] = txn[r]
  BY <1>1 DEF End, RecordsInv
<1>5. \A r \in Sessions : r # s /\ txn[r] # Idle => txn[r].on # t.on
  BY <1>1 DEF RecordsInv
<1>6. CASE UNCHANGED <<person, gaps>>
  <2>1. \A r \in Sessions : txn'[r] # Idle => RequestInHand(txn[r])'
    BY <1>4, <1>6 DEF RecordsInv, RequestInHand, Exists
  <2>2. RecordsInv'
    BY <1>4, <1>6, <2>1 DEF RecordsInv
  <2> QED BY <1>6, <2>2 DEF Evolves
<1>7. ASSUME NEW row, Writes(t.on, row, "request", t.read)
      PROVE  RecordsInv' /\ \A q \in People : Evolves(q)
  <2>1. \A r \in Sessions : txn'[r] # Idle => RequestInHand(txn[r])'
    BY <1>4, <1>5, <1>7, WritesEvolve DEF RecordsInv, RequestInHand
  <2>2. RecordsInv'
    BY <1>4, <1>7, <2>1, WritesEvolve DEF RecordsInv
  <2> QED BY <1>7, <2>2, WritesEvolve
<1> QED BY <1>3, <1>6, <1>7

LEMMA PeopleSteps ==
    ASSUME RecordsInv, PeopleNext
    PROVE  RecordsInv' /\ \A q \in People : Evolves(q)
<1>1. ASSUME NEW p \in People, NEW u \in Units, NEW patch \in Patches, CreateUser(p, u, patch)
      PROVE  RecordsInv' /\ \A q \in People : Evolves(q)
  <2>1. Writes(p, NewRow(u, patch), "request", Absent) /\ UNCHANGED txn
    BY <1>1, NewRows DEF CreateUser, Writes, Exists
  <2>2. ~Locked(p)
    BY <1>1, PeopleAssumption DEF Locked, RecordsInv, RequestInHand, CreateUser, Idle
  <2> QED BY <2>1, <2>2, OthersKeepRecords, WritesEvolve
<1>2. CASE Tick
  BY <1>2 DEF Tick, RecordsInv, RequestInHand, Exists, Evolves
<1> QED BY <1>1, <1>2, RequestsBegin, RequestsFinish DEF PeopleNext

-----------------------------------------------------------------------------
(* Runs.                                                                   *)

Steps == [trigger : {"start_date_reached", "end_date_reached"}, who : People, row : Row]

Pair(step) == <<step.trigger, step.who>>

RunTypes ==
    [pc : {"idle", "joiners", "joining", "leavers", "leaving", "firing", "applying", "ending"},
     todo : SUBSET People, on : People \cup {Nobody}, read : Row \cup {Absent},
     acted : Seq(Steps), queue : SUBSET Rules]

(* A candidate for activation was pending once, so it is not suspended;    *)
(* rules are applied to whom the run has moved first.                      *)
Candidate(p) == Exists(p) /\ person[p].status # "suspended"

RunInHand(j, run) ==
    /\ run \in RunTypes
    /\ run.pc \in {"joining", "leaving"} => run.on \in People
    /\ run.pc \in {"joiners", "joining"} => \A p \in run.todo : Candidate(p)
    /\ run.pc = "joining" => Candidate(run.on)
    /\ run.pc \in {"applying", "ending"} =>
          run.acted # <<>> /\ run.on = Head(run.acted).who /\ Exists(run.on)
    /\ j \in Bulk => run.pc \in {"idle", "joiners", "joining"} /\ run.acted = <<>>

(* Who was moved stays moved.                                              *)
MovedForGood ==
    \A p \in People :
        /\ <<"start_date_reached", p>> \in moved => Exists(p) /\ person[p].status # "pending"
        /\ <<"end_date_reached", p>> \in moved => Exists(p) /\ person[p].status = "deactivated"

(* The moves that still have their rules to come are in the hand of one    *)
(* run each, once.                                                         *)
RulesToCome ==
    /\ \A j \in Jobs : \A i \in 1..Len(job[j].acted) : Pair(job[j].acted[i]) \in moved \ fired
    /\ \A j, k \in Jobs : \A i \in 1..Len(job[j].acted) : \A l \in 1..Len(job[k].acted) :
          Pair(job[j].acted[i]) = Pair(job[k].acted[l]) => j = k /\ i = l
    /\ fired \subseteq moved
    /\ ~refired

RunsInv ==
    /\ DOMAIN job = Jobs
    /\ \A j \in Jobs : RunInHand(j, job[j])
    /\ MovedForGood
    /\ RulesToCome

LEMMA EvolvingCandidates ==
    ASSUME RecordsInv, NEW p \in People, Evolves(p)
    PROVE  /\ Exists(p) => Exists(p)'
           /\ Candidate(p) => Candidate(p)'
           /\ Exists(p) /\ person[p].status # "pending" => person'[p].status # "pending"
           /\ Exists(p) /\ person[p].status = "deactivated" => person'[p].status = "deactivated"
<1>1. CASE person'[p] = person[p]
  BY <1>1 DEF Candidate, Exists
<1>2. CASE ~Exists(p)
  BY <1>2 DEF Candidate
<1>3. CASE Exists(p) /\ person'[p] \in Row
  BY <1>3, AbsentIsNoRow DEF Evolves, Candidate, Exists
<1> QED BY <1>1, <1>2, <1>3 DEF Evolves

LEMMA AppliesToSomebody ==
    ASSUME NEW j, NEW run, RunInHand(j, run), run.pc \in {"applying", "ending"}
    PROVE  run.on \in People
<1>1. run.acted \in Seq(Steps)
  BY DEF RunInHand, RunTypes
<1>2. run.acted # <<>> => Head(run.acted) \in Steps
  BY <1>1, HeadTailProperties
<1> QED BY <1>2 DEF RunInHand, Steps

LEMMA RunsEvolve ==
    ASSUME RecordsInv, NEW j, NEW run, RunInHand(j, run), \A p \in People : Evolves(p)
    PROVE  RunInHand(j, run)'
<1>1. run \in RunTypes
  BY DEF RunInHand
<1>2. run.todo \subseteq People
  BY <1>1 DEF RunTypes
<1>3. \A p \in People : (Exists(p) => Exists(p)') /\ (Candidate(p) => Candidate(p)')
  BY EvolvingCandidates
<1>4. run.pc \in {"applying", "ending"} => run.on \in People
  BY AppliesToSomebody
<1> QED BY <1>1, <1>2, <1>3, <1>4 DEF RunInHand

LEMMA MovesStay ==
    ASSUME RecordsInv, MovedForGood, \A p \in People : Evolves(p), UNCHANGED moved
    PROVE  MovedForGood'
BY EvolvingCandidates DEF MovedForGood

LEMMA QuietRuns ==
    ASSUME RecordsInv, RunsInv, \A p \in People : Evolves(p),
           UNCHANGED <<job, moved, fired, refired>>
    PROVE  RunsInv'
<1>1. \A j \in Jobs : RunInHand(j, job[j])'
  BY RunsEvolve DEF RunsInv
<1> QED BY <1>1, MovesStay DEF RunsInv, RulesToCome

(* A run takes a turn in which nobody is moved and no rules come to an end. *)
LEMMA RunsTurn ==
    ASSUME RecordsInv, RunsInv, \A p \in People : Evolves(p),
           NEW j \in Jobs, NEW run, job' = [job EXCEPT ![j] = run],
           RunInHand(j, run)',
           run.acted = job[j].acted \/ run.acted = <<>>,
           UNCHANGED <<moved, fired, refired>>
    PROVE  RunsInv'
<1>1. DOMAIN job' = Jobs /\ job'[j] = run /\ \A k \in Jobs : k # j => job'[k] = job[k]
  BY DEF RunsInv
<1>2. \A k \in Jobs : RunInHand(k, job[k])'
  <2> SUFFICES ASSUME NEW k \in Jobs, k # j PROVE RunInHand(k, job[k])'
    BY <1>1
  <2>1. RunInHand(k, job[k])
    BY DEF RunsInv
  <2> DEFINE other == job[k]
  <2>2. PICK r : r = job[k]
    OBVIOUS
  <2>3. RunInHand(k, r)'
    BY <2>1, <2>2, RunsEvolve
  <2> QED BY <1>1, <2>2, <2>3 DEF RunInHand
<1>3. \A k \in Jobs : job'[k].acted = job[k].acted \/ job'[k].acted = <<>>
  BY <1>1
<1>4. Len(<<>>) = 0
  OBVIOUS
<1>5. RulesToCome'
  BY <1>3, <1>4 DEF RulesToCome, RunsInv
<1> QED BY <1>1, <1>2, <1>5, MovesStay DEF RunsInv

(* The turns in which no row is written.                                   *)
LEMMA SilentTurns ==
    ASSUME RecordsInv, RunsInv, NEW j \in Jobs, NEW run, UNCHANGED <<person, moved, fired, refired>>,
           job' = [job EXCEPT ![j] = run], RunInHand(j, run),
           run.acted = job[j].acted \/ run.acted = <<>>
    PROVE  RunsInv'
<1>1. RunInHand(j, run)'
  BY DEF RunInHand, Candidate, Exists
<1>2. \A p \in People : Evolves(p)
  BY DEF Evolves
<1> QED BY <1>1, <1>2, RunsTurn

LEMMA RestingInHand == \A j : RunInHand(j, Resting) /\ Resting.acted = <<>>
BY DEF RunInHand, Resting, RunTypes

LEMMA RunsStart ==
    ASSUME RecordsInv, RunsInv, NEW j \in Jobs, StartRun(j) \/ StartBulkRun(j)
    PROVE  RunsInv'
<1>1. PICK run : run = [Resting EXCEPT !.pc = "joiners", !.todo = DueJoiners(j)]
  OBVIOUS
<1>2. job' = [job EXCEPT ![j] = run] /\ UNCHANGED <<person, moved, fired, refired>>
  BY <1>1 DEF StartRun, StartBulkRun, Turn, Still
<1>3. run.acted = <<>>
  BY <1>1 DEF Resting
<1>4. \A p \in DueJoiners(j) : p \in People /\ Candidate(p)
  BY DEF DueJoiners, Candidate
<1>5. /\ run.pc = "joiners" /\ run.todo = DueJoiners(j)
      /\ run \in RunTypes
  <2>1. Resting \in RunTypes
    BY RestingInHand DEF RunInHand
  <2>2. DueJoiners(j) \subseteq People
    BY <1>4
  <2> QED BY <1>1, <2>1, <2>2 DEF RunTypes
<1>6. RunInHand(j, run)
  BY <1>3, <1>4, <1>5 DEF RunInHand
<1> QED BY <1>2, <1>3, <1>6, SilentTurns

LEMMA RunsRead ==
    ASSUME RecordsInv, RunsInv, NEW j \in Jobs, NEW p \in People, ReadCandidate(j, p)
    PROVE  RunsInv'
<1>1. PICK run :
          run = [job[j] EXCEPT !.pc = IF @ = "joiners" THEN "joining" ELSE "leaving",
                               !.todo = @ \ {p}, !.on = p, !.read = person[p]]
  OBVIOUS
<1>2. job' = [job EXCEPT ![j] = run] /\ UNCHANGED <<person, moved, fired, refired>>
  BY <1>1 DEF ReadCandidate, Turn, Still
<1>3. RunInHand(j, job[j]) /\ job[j] \in RunTypes /\ job[j].pc \in {"joiners", "leavers"} /\ p \in job[j].todo
  BY DEF RunsInv, RunInHand, ReadCandidate
<1>4. /\ run \in RunTypes /\ run.acted = job[j].acted /\ run.on = p /\ run.todo = job[j].todo \ {p}
      /\ run.pc = IF job[j].pc = "joiners" THEN "joining" ELSE "leaving"
  BY <1>1, <1>3 DEF RunTypes, RecordsInv
<1>5. RunInHand(j, run)
  BY <1>3, <1>4 DEF RunInHand
<1> QED BY <1>2, <1>4, <1>5, SilentTurns

LEMMA PhasesTurn ==
    ASSUME RecordsInv, RunsInv, NEW j \in Jobs, NextPhase(j)
    PROVE  RunsInv'
<1>1. UNCHANGED <<person, moved, fired, refired>> /\ RunInHand(j, job[j]) /\ job[j] \in RunTypes
  BY DEF NextPhase, Still, RunsInv, RunInHand
<1>2. CASE Turn(j, Resting)
  <2>1. job' = [job EXCEPT ![j] = Resting]
    BY <1>2 DEF Turn
  <2> QED BY <1>1, <2>1, RestingInHand, SilentTurns
<1>3. CASE j \notin Bulk /\ Turn(j, [job[j] EXCEPT !.pc = "leavers", !.todo = DueLeavers])
  <2>1. PICK run : run = [job[j] EXCEPT !.pc = "leavers", !.todo = DueLeavers]
    OBVIOUS
  <2>2. run \in RunTypes /\ run.pc = "leavers" /\ run.acted = job[j].acted
    BY <1>1, <2>1 DEF RunTypes, DueLeavers
  <2>3. RunInHand(j, run)
    BY <1>1, <1>3, <2>2 DEF RunInHand
  <2> QED BY <1>1, <1>3, <2>1, <2>2, <2>3, SilentTurns DEF Turn
<1>4. CASE job[j].pc = "leavers" /\ Turn(j, [job[j] EXCEPT !.pc = "firing"])
  <2>1. PICK run : run = [job[j] EXCEPT !.pc = "firing"]
    OBVIOUS
  <2>2. run \in RunTypes /\ run.pc = "firing" /\ run.acted = job[j].acted
    BY <1>1, <2>1 DEF RunTypes
  <2>3. RunInHand(j, run)
    BY <1>1, <1>4, <2>2 DEF RunInHand
  <2> QED BY <1>1, <1>4, <2>1, <2>2, <2>3, SilentTurns DEF Turn
<1> QED BY <1>2, <1>3, <1>4 DEF NextPhase

LEMMA RulesBegin ==
    ASSUME RecordsInv, RunsInv, NEW j \in Jobs, FireRules(j)
    PROVE  RunsInv'
<1> DEFINE step == Head(job[j].acted)
<1>1. RunInHand(j, job[j]) /\ job[j] \in RunTypes /\ job[j].acted \in Seq(Steps) /\ job[j].acted # <<>>
  BY DEF RunsInv, RunInHand, FireRules, RunTypes
<1>2. step \in Steps
  BY <1>1, HeadTailProperties
<1>3. PICK run :
          run = [job[j] EXCEPT !.pc = "applying", !.on = step.who,
                               !.queue = MatchRules(step.trigger, step.row)]
  OBVIOUS
<1>4. job' = [job EXCEPT ![j] = run] /\ UNCHANGED <<person, moved, fired, refired>>
  BY <1>3 DEF FireRules, Turn, Still
<1>5. MatchRules(step.trigger, step.row) \subseteq Rules /\ step.who \in People
  BY <1>2 DEF MatchRules, Steps
<1>6. run \in RunTypes /\ run.pc = "applying" /\ run.on = step.who /\ run.acted = job[j].acted
  BY <1>1, <1>3, <1>5 DEF RunTypes
<1>7. Exists(step.who)
  <2>1. 1 \in 1..Len(job[j].acted) /\ step = job[j].acted[1]
    BY <1>1
  <2>2. Pair(step) \in moved
    BY <2>1 DEF RunsInv, RulesToCome
  <2> QED BY <1>2, <2>2 DEF Steps, Pair, RunsInv, MovedForGood
<1>8. j \notin Bulk
  BY <1>1 DEF RunInHand
<1>9. RunInHand(j, run)
  BY <1>1, <1>6, <1>7, <1>8 DEF RunInHand
<1> QED BY <1>4, <1>6, <1>9, SilentTurns

LEMMA RulesRead ==
    ASSUME RecordsInv, RunsInv, NEW j \in Jobs, NEW r \in Rules, ReadForDeactivate(j, r)
    PROVE  RunsInv'
<1>1. RunInHand(j, job[j]) /\ job[j] \in RunTypes /\ job[j].pc = "applying" /\ job[j].on \in People
  BY AppliesToSomebody DEF RunsInv, RunInHand, ReadForDeactivate
<1>2. PICK run :
          run = [job[j] EXCEPT !.pc = "ending", !.queue = @ \ {r}, !.read = person[job[j].on]]
  OBVIOUS
<1>3. job' = [job EXCEPT ![j] = run] /\ UNCHANGED <<person, moved, fired, refired>>
  BY <1>2 DEF ReadForDeactivate, Turn, Still
<1>4. run \in RunTypes /\ run.pc = "ending" /\ run.on = job[j].on /\ run.acted = job[j].acted
  BY <1>1, <1>2 DEF RunTypes, RecordsInv
<1>5. RunInHand(j, run)
  BY <1>1, <1>4 DEF RunInHand
<1> QED BY <1>3, <1>4, <1>5, SilentTurns

LEMMA RunsFail ==
    ASSUME RecordsInv, RunsInv, NEW j \in Jobs, RunFails(j)
    PROVE  RunsInv'
BY RestingInHand, SilentTurns DEF RunFails, pvars

LEMMA RecordsStill ==
    ASSUME RecordsInv, UNCHANGED <<person, txn, gaps>>
    PROVE  RecordsInv' /\ \A p \in People : Evolves(p)
<1>1. \A s \in Sessions : txn[s] # Idle => RequestInHand(txn[s])'
  BY DEF RecordsInv, RequestInHand, Exists
<1> QED BY <1>1 DEF RecordsInv, Evolves

(* A run puts somebody into another status and will apply the rules.       *)
LEMMA RunsMove ==
    ASSUME RecordsInv, RunsInv, \A p \in People : Evolves(p),
           NEW j \in Jobs, NEW run, job' = [job EXCEPT ![j] = run], RunInHand(j, run)',
           NEW step \in Steps, run.acted = Append(job[j].acted, step),
           Pair(step) \notin moved, moved' = moved \cup {Pair(step)},
           Exists(step.who)',
           step.trigger = "start_date_reached" => person'[step.who].status # "pending",
           step.trigger = "end_date_reached" => person'[step.who].status = "deactivated",
           UNCHANGED <<fired, refired>>
    PROVE  RunsInv'
<1> DEFINE old == job[j].acted
<1>1. DOMAIN job' = Jobs /\ job'[j] = run /\ \A k \in Jobs : k # j => job'[k] = job[k]
  BY DEF RunsInv
<1>2. \A k \in Jobs : RunInHand(k, job[k])'
  <2> SUFFICES ASSUME NEW k \in Jobs, k # j PROVE RunInHand(k, job[k])'
    BY <1>1
  <2>1. PICK r : r = job[k]
    OBVIOUS
  <2>2. RunInHand(k, r)'
    BY <2>1, RunsEvolve DEF RunsInv
  <2> QED BY <1>1, <2>1, <2>2 DEF RunInHand
<1>3. old \in Seq(Steps)
  BY DEF RunsInv, RunInHand, RunTypes
<1>4. /\ Len(run.acted) = Len(old) + 1 /\ Len(old) \in Nat
      /\ \A i \in 1..Len(old) : run.acted[i] = old[i]
      /\ run.acted[Len(old) + 1] = step
  BY <1>3, AppendProperties
<1>5. \A i \in 1..Len(run.acted) : i \in 1..Len(old) \/ i = Len(old) + 1
  BY <1>4
<1>6. Pair(step) \notin fired
  BY DEF RunsInv, RulesToCome
<1>7. \A k \in Jobs : \A i \in 1..Len(job'[k].acted) :
          \/ k = j /\ i = Len(old) + 1 /\ job'[k].acted[i] = step
          \/ /\ i \in 1..Len(job[k].acted) /\ job'[k].acted[i] = job[k].acted[i]
             /\ Pair(job[k].acted[i]) \in moved \ fired
  <2> SUFFICES ASSUME NEW k \in Jobs, NEW i \in 1..Len(job'[k].acted)
               PROVE  \/ k = j /\ i = Len(old) + 1 /\ job'[k].acted[i] = step
                      \/ /\ i \in 1..Len(job[k].acted) /\ job'[k].acted[i] = job[k].acted[i]
                         /\ Pair(job[k].acted[i]) \in moved \ fired
    OBVIOUS
  <2>1. CASE k # j
    BY <1>1, <2>1 DEF RunsInv, RulesToCome
  <2>2. CASE k = j /\ i \in 1..Len(old)
    BY <1>1, <1>4, <2>2 DEF RunsInv, RulesToCome
  <2>3. CASE k = j /\ i = Len(old) + 1
    BY <1>1, <1>4, <2>3
  <2> QED BY <1>1, <1>5, <2>1, <2>2, <2>3
<1>8. RulesToCome'
  <2>1. \A k \in Jobs : \A i \in 1..Len(job'[k].acted) : Pair(job'[k].acted[i]) \in moved' \ fired'
    BY <1>6, <1>7
  <2>2. ASSUME NEW k \in Jobs, NEW m \in Jobs,
               NEW i \in 1..Len(job'[k].acted), NEW l \in 1..Len(job'[m].acted),
               Pair(job'[k].acted[i]) = Pair(job'[m].acted[l])
        PROVE  k = m /\ i = l
    <3>1. CASE job'[k].acted[i] = step /\ k = j /\ i = Len(old) + 1
      BY <1>7, <2>2, <3>1
    <3>2. CASE job'[m].acted[l] = step /\ m = j /\ l = Len(old) + 1
      BY <1>7, <2>2, <3>2
    <3>3. CASE /\ i \in 1..Len(job[k].acted) /\ job'[k].acted[i] = job[k].acted[i]
               /\ l \in 1..Len(job[m].acted) /\ job'[m].acted[l] = job[m].acted[l]
      BY <2>2, <3>3 DEF RunsInv, RulesToCome
    <3> QED BY <1>7, <3>1, <3>2, <3>3
  <2> QED BY <2>1, <2>2 DEF RulesToCome, RunsInv
<1>9. MovedForGood'
  <2> SUFFICES ASSUME NEW p \in People
               PROVE  /\ <<"start_date_reached", p>> \in moved' =>
                            Exists(p)' /\ person'[p].status # "pending"
                      /\ <<"end_date_reached", p>> \in moved' =>
                            Exists(p)' /\ person'[p].status = "deactivated"
    BY DEF MovedForGood
  <2>1. CASE <<"start_date_reached", p>> \in moved
    BY <2>1, EvolvingCandidates DEF RunsInv, MovedForGood, Pair
  <2>2. CASE <<"end_date_reached", p>> \in moved
    BY <2>2, EvolvingCandidates DEF RunsInv, MovedForGood, Pair
  <2> QED BY <2>1, <2>2, EvolvingCandidates DEF RunsInv, MovedForGood, Pair
<1> QED BY <1>1, <1>2, <1>8, <1>9 DEF RunsInv

LEMMA RunsRefuse ==
    ASSUME RecordsInv, RunsInv, NEW j \in Jobs, NEW next \in {"active", "deactivated"},
           job[j].pc = IF next = "active" THEN "joining" ELSE "leaving",
           Refused(j, next)
    PROVE  RunsInv'
<1>1. PICK run :
          run = [job[j] EXCEPT !.pc = IF next = "active" THEN "joiners" ELSE "leavers",
                               !.on = Nobody, !.read = Absent]
  OBVIOUS
<1>2. job' = [job EXCEPT ![j] = run] /\ UNCHANGED <<person, moved, fired, refired>>
  BY <1>1 DEF Refused, Turn, Still
<1>3. RunInHand(j, job[j]) /\ job[j] \in RunTypes
  BY DEF RunsInv, RunInHand
<1>4. /\ run \in RunTypes /\ run.acted = job[j].acted /\ run.todo = job[j].todo
      /\ run.pc = IF next = "active" THEN "joiners" ELSE "leavers"
  BY <1>1, <1>3 DEF RunTypes
<1>5. RunInHand(j, run)
  BY <1>3, <1>4 DEF RunInHand
<1> QED BY <1>2, <1>4, <1>5, SilentTurns

LEMMA MovesTurn ==
    ASSUME RecordsInv, RunsInv, NEW j \in Jobs, ActivateDue(j) \/ DeactivateDue(j)
    PROVE  RecordsInv' /\ RunsInv' /\ \A p \in People : Evolves(p)
<1>1. PICK next \in {"active", "deactivated"}, trigger \in {"start_date_reached", "end_date_reached"} :
          /\ Move(j, next, trigger)
          /\ job[j].pc = IF next = "active" THEN "joining" ELSE "leaving"
          /\ trigger = IF next = "active" THEN "start_date_reached" ELSE "end_date_reached"
  BY DEF ActivateDue, DeactivateDue
<1>4. RunInHand(j, job[j]) /\ job[j] \in RunTypes /\ job[j].on \in People
  BY <1>1 DEF RunsInv, RunInHand
<1>5. PICK p \in People : p = job[j].on
  BY <1>4
<1>6. PICK step :
          step = [trigger |-> trigger, who |-> p, row |-> [person[p] EXCEPT !.status = next]]
  OBVIOUS
<1>2. CASE Refused(j, next)
  <2>1. UNCHANGED <<person, txn, gaps>>
    BY <1>2 DEF Refused, Turn, Still
  <2> QED BY <1>1, <1>2, <2>1, RunsRefuse, RecordsStill
<1>3. CASE ~Refused(j, next)
  <2>1. RunInHand(j, job[j]) /\ job[j] \in RunTypes /\ p \in People
    BY <1>4
  <2>2. ~Locked(p) /\ ChangeStatus(p, next, "job", job[j].read) /\ UNCHANGED <<txn, fired, refired>>
    BY <1>1, <1>3, <1>5 DEF Move, Turn
  <2>3. Writes(p, [person[p] EXCEPT !.status = next], "job", job[j].read)
    BY <2>1, <2>2, StatusWrites
  <2>4. RecordsInv' /\ \A q \in People : Evolves(q)
    BY <2>2, <2>3, OthersKeepRecords, WritesEvolve
  <2>5. Exists(p) /\ person[p] \in Row /\ CanBecome(p, next)
    BY <2>1, <2>2 DEF ChangeStatus, CanBecome, RecordsInv, Exists
  <2>6. person'[p] = [person[p] EXCEPT !.status = next] /\ person'[p].status = next /\ person'[p] \in Row
    BY <2>1, <2>3, <2>5 DEF Writes, Write, RecordsInv, Row
  <2>7. Exists(p)'
    BY <2>6, AbsentIsNoRow DEF Exists
  <2>8. step \in Steps /\ Pair(step) = <<trigger, p>>
    BY <1>6, <2>1, <2>6 DEF Steps, Pair
  <2>9. PICK run :
            run = [job[j] EXCEPT !.pc = IF next = "active" THEN "joiners" ELSE "leavers",
                                 !.on = Nobody, !.read = Absent,
                                 !.acted = IF j \in Bulk THEN @ ELSE Append(@, step)]
    OBVIOUS
  <2>10. job' = [job EXCEPT ![j] = run]
    BY <1>1, <1>3, <1>5, <1>6, <2>9 DEF Move, Turn
  <2>11. job[j].acted \in Seq(Steps) /\ Append(job[j].acted, step) \in Seq(Steps)
    BY <2>1, <2>8, AppendProperties DEF RunTypes
  <2>12. /\ run \in RunTypes /\ run.todo = job[j].todo
         /\ run.pc = IF next = "active" THEN "joiners" ELSE "leavers"
         /\ run.acted = IF j \in Bulk THEN job[j].acted ELSE Append(job[j].acted, step)
    BY <2>1, <2>9, <2>11 DEF RunTypes
  <2>13. RunInHand(j, run)
    BY <1>1, <2>1, <2>12 DEF RunInHand
  <2>14. RunInHand(j, run)'
    BY <2>4, <2>13, RunsEvolve
  <2>15. RunsInv'
    <3>1. CASE j \in Bulk
      <4>1. UNCHANGED <<moved, fired, refired>>
        BY <1>1, <1>3, <2>2, <3>1 DEF Move
      <4>2. run.acted = job[j].acted
        BY <2>12, <3>1
      <4> QED BY <2>4, <2>10, <2>14, <4>1, <4>2, RunsTurn
    <3>2. CASE j \notin Bulk
      <4>1. moved' = moved \cup {Pair(step)} /\ run.acted = Append(job[j].acted, step)
        BY <1>1, <1>3, <1>5, <2>8, <2>12, <3>2 DEF Move
      <4>2. /\ step.who = p /\ step.trigger = trigger
            /\ step.trigger = "start_date_reached" => person'[step.who].status # "pending"
            /\ step.trigger = "end_date_reached" => person'[step.who].status = "deactivated"
        BY <1>1, <1>6, <2>6
      <4>3. person[p].status \in Statuses /\ AllowedTransitions["deactivated"] = {}
        BY <2>5 DEF Row, AllowedTransitions
      <4>4. CASE next = "active"
        <5>1. Candidate(p)
          BY <1>1, <1>5, <2>1, <4>4 DEF RunInHand
        <5>2. person[p].status \in {"pending", "suspended"}
          BY <2>3, <2>5, <2>6, <4>4 DEF Writes, Statuses, CanBecome, AllowedTransitions
        <5>3. person[p].status = "pending"
          BY <5>1, <5>2 DEF Candidate
        <5>4. Pair(step) \notin moved
          BY <1>1, <2>8, <4>4, <5>3 DEF RunsInv, MovedForGood
        <5> QED BY <2>2, <2>4, <2>7, <2>8, <2>10, <2>14, <4>1, <4>2, <5>4, RunsMove
      <4>5. CASE next = "deactivated"
        <5>1. person[p].status # "deactivated"
          BY <2>5, <4>3 DEF CanBecome
        <5>2. Pair(step) \notin moved
          BY <1>1, <2>1, <2>8, <4>5, <5>1 DEF RunsInv, MovedForGood
        <5> QED BY <2>2, <2>4, <2>7, <2>8, <2>10, <2>14, <4>1, <4>2, <5>2, RunsMove
      <4> QED BY <4>4, <4>5
    <3> QED BY <3>1, <3>2
  <2> QED BY <2>4, <2>15
<1> QED BY <1>2, <1>3

LEMMA MergedRows ==
    ASSUME NEW row \in Row, NEW edits, \A k \in DOMAIN edits : edits[k] \in Values
    PROVE  /\ [row EXCEPT !.attrs = Merged(@, edits)] \in Row
           /\ [row EXCEPT !.attrs = Merged(@, edits)].status = row.status
<1>1. Merged(row.attrs, edits) \in Attributes
  BY DEF Row, Merged, Attributes
<1> QED BY <1>1 DEF Row

LEMMA RulesSet ==
    ASSUME RecordsInv, RunsInv, NEW j \in Jobs, NEW r \in Rules, ApplySetAttribute(j, r)
    PROVE  RecordsInv' /\ RunsInv' /\ \A p \in People : Evolves(p)
<1>1. PICK p : p = job[j].on
  OBVIOUS
<1>2. /\ RunInHand(j, job[j]) /\ job[j] \in RunTypes /\ job[j].pc = "applying"
      /\ p \in People /\ Exists(p) /\ person[p] \in Row /\ ~Locked(p)
      /\ UNCHANGED <<txn, moved, fired, refired>>
  BY <1>1, AppliesToSomebody DEF RunsInv, RunInHand, ApplySetAttribute, RecordsInv, Exists, Dequeue, Turn
<1>3. RecordsInv' /\ \A q \in People : Evolves(q)
  <2>1. CASE RuleOf[r].key \in Keys /\ RuleOf[r].set \in Values
    <3>1. WithAttribute(j, r) \in Row /\ WithAttribute(j, r).status = person[p].status
      <4>1. PICK edits : edits = [k \in {RuleOf[r].key} |-> RuleOf[r].set]
        OBVIOUS
      <4>2. WithAttribute(j, r) = [person[p] EXCEPT !.attrs = Merged(@, edits)]
        BY <1>1, <4>1 DEF WithAttribute
      <4>3. \A k \in DOMAIN edits : edits[k] \in Values
        BY <2>1, <4>1
      <4> QED BY <1>2, <4>2, <4>3, MergedRows
    <3>2. Write(p, WithAttribute(j, r), "rule", person[p])
      BY <1>1, <2>1 DEF ApplySetAttribute
    <3>3. Writes(p, WithAttribute(j, r), "rule", person[p])
      BY <1>2, <3>1, <3>2 DEF Writes
    <3> QED BY <1>2, <3>3, OthersKeepRecords, WritesEvolve
  <2>2. CASE ~(RuleOf[r].key \in Keys /\ RuleOf[r].set \in Values)
    <3>1. UNCHANGED <<person, gaps>>
      BY <2>2 DEF ApplySetAttribute
    <3> QED BY <1>2, <3>1, RecordsStill
  <2> QED BY <2>1, <2>2
<1>4. PICK run : run = [job[j] EXCEPT !.queue = @ \ {r}]
  OBVIOUS
<1>5. job' = [job EXCEPT ![j] = run]
  BY <1>4 DEF ApplySetAttribute, Dequeue, Turn
<1>6. run \in RunTypes /\ run.pc = "applying" /\ run.on = job[j].on /\ run.acted = job[j].acted
  BY <1>2, <1>4 DEF RunTypes
<1>7. RunInHand(j, run)
  BY <1>2, <1>6 DEF RunInHand
<1>8. RunInHand(j, run)'
  BY <1>3, <1>7, RunsEvolve
<1> QED BY <1>2, <1>3, <1>5, <1>6, <1>8, RunsTurn

LEMMA RulesDeactivate ==
    ASSUME RecordsInv, RunsInv, NEW j \in Jobs, ApplyDeactivate(j)
    PROVE  RecordsInv' /\ RunsInv' /\ \A p \in People : Evolves(p)
<1>1. PICK p : p = job[j].on
  OBVIOUS
<1>2. /\ RunInHand(j, job[j]) /\ job[j] \in RunTypes /\ job[j].pc = "ending"
      /\ p \in People /\ ~Locked(p)
      /\ UNCHANGED <<txn, moved, fired, refired>>
  BY <1>1, AppliesToSomebody DEF RunsInv, RunInHand, ApplyDeactivate, Turn
<1>3. RecordsInv' /\ \A q \in People : Evolves(q)
  <2>1. CASE ChangeStatus(p, "deactivated", "job", job[j].read)
    <3>1. Writes(p, [person[p] EXCEPT !.status = "deactivated"], "job", job[j].read)
      BY <1>2, <2>1, StatusWrites
    <3> QED BY <1>2, <3>1, OthersKeepRecords, WritesEvolve
  <2>2. CASE UNCHANGED <<person, gaps>>
    BY <1>2, <2>2, RecordsStill
  <2> QED BY <1>1, <2>1, <2>2 DEF ApplyDeactivate
<1>4. PICK run : run = [job[j] EXCEPT !.pc = "applying", !.read = Absent]
  OBVIOUS
<1>5. job' = [job EXCEPT ![j] = run]
  BY <1>4 DEF ApplyDeactivate, Turn
<1>6. run \in RunTypes /\ run.pc = "applying" /\ run.on = job[j].on /\ run.acted = job[j].acted
  BY <1>2, <1>4 DEF RunTypes
<1>7. RunInHand(j, run)
  BY <1>2, <1>6 DEF RunInHand
<1>8. RunInHand(j, run)'
  BY <1>3, <1>7, RunsEvolve
<1> QED BY <1>2, <1>3, <1>5, <1>6, <1>8, RunsTurn

(* The rules of one move come to an end: they were still to come.          *)
LEMMA RulesEnd ==
    ASSUME RecordsInv, RunsInv, NEW j \in Jobs, RulesDone(j)
    PROVE  RunsInv'
<1> DEFINE old == job[j].acted
           step == Head(old)
<1>1. /\ RunInHand(j, job[j]) /\ job[j] \in RunTypes /\ job[j].pc = "applying"
      /\ old \in Seq(Steps) /\ old # <<>> /\ job[j].on = step.who
  BY DEF RunsInv, RunInHand, RulesDone, RunTypes
<1>2. PICK run : run = [job[j] EXCEPT !.pc = "firing", !.on = Nobody, !.acted = Tail(@)]
  OBVIOUS
<1>3. /\ job' = [job EXCEPT ![j] = run] /\ UNCHANGED <<person, moved>>
      /\ fired' = fired \cup {Pair(step)} /\ refired' = (refired \/ Pair(step) \in fired)
  BY <1>1, <1>2 DEF RulesDone, Turn, Pair
<1>4. /\ Tail(old) \in Seq(Steps) /\ Len(Tail(old)) = Len(old) - 1 /\ Len(old) \in Nat \ {0}
      /\ \A i \in 1..Len(Tail(old)) : i + 1 \in 1..Len(old) /\ Tail(old)[i] = old[i + 1]
      /\ 1 \in 1..Len(old) /\ step = old[1]
  BY <1>1, HeadTailProperties
<1>5. run \in RunTypes /\ run.pc = "firing" /\ run.acted = Tail(old) /\ j \notin Bulk
  BY <1>1, <1>2, <1>4 DEF RunTypes, RunInHand
<1>6. RunInHand(j, run)'
  BY <1>5 DEF RunInHand
<1>7. DOMAIN job' = Jobs /\ job'[j] = run /\ \A k \in Jobs : k # j => job'[k] = job[k]
  BY <1>3 DEF RunsInv
<1>8. \A k \in Jobs : RunInHand(k, job[k])'
  BY <1>3, <1>6, <1>7 DEF RunsInv, RunInHand, Exists, Candidate
<1>9. Pair(step) \in moved \ fired
  BY <1>4 DEF RunsInv, RulesToCome
<1>10. \A k \in Jobs : \A i \in 1..Len(job'[k].acted) :
           \E n \in 1..Len(job[k].acted) :
               /\ job'[k].acted[i] = job[k].acted[n]
               /\ n = IF k = j THEN i + 1 ELSE i
  BY <1>4, <1>5, <1>7
<1>11. RulesToCome'
  <2>1. ASSUME NEW k \in Jobs, NEW i \in 1..Len(job'[k].acted)
        PROVE  Pair(job'[k].acted[i]) \in moved' \ fired'
    <3>1. PICK n \in 1..Len(job[k].acted) :
              job'[k].acted[i] = job[k].acted[n] /\ n = IF k = j THEN i + 1 ELSE i
      BY <1>10
    <3>2. ~(k = j /\ n = 1)
      BY <3>1
    <3>3. Pair(job[k].acted[n]) # Pair(step)
      BY <1>4, <3>2 DEF RunsInv, RulesToCome
    <3>4. Pair(job[k].acted[n]) \in moved \ fired
      BY DEF RunsInv, RulesToCome
    <3> QED BY <1>3, <3>1, <3>3, <3>4
  <2>2. ASSUME NEW k \in Jobs, NEW m \in Jobs,
               NEW i \in 1..Len(job'[k].acted), NEW l \in 1..Len(job'[m].acted),
               Pair(job'[k].acted[i]) = Pair(job'[m].acted[l])
        PROVE  k = m /\ i = l
    <3>1. PICK n \in 1..Len(job[k].acted) :
              job'[k].acted[i] = job[k].acted[n] /\ n = IF k = j THEN i + 1 ELSE i
      BY <1>10
    <3>2. PICK o \in 1..Len(job[m].acted) :
              job'[m].acted[l] = job[m].acted[o] /\ o = IF m = j THEN l + 1 ELSE l
      BY <1>10
    <3>3. k = m /\ n = o
      BY <2>2, <3>1, <3>2 DEF RunsInv, RulesToCome
    <3> QED BY <3>1, <3>2, <3>3
  <2>3. fired' \subseteq moved' /\ ~refired'
    BY <1>3, <1>9 DEF RunsInv, RulesToCome
  <2> QED BY <2>1, <2>2, <2>3 DEF RulesToCome
<1>12. MovedForGood'
  BY <1>3 DEF RunsInv, MovedForGood, Exists
<1> QED BY <1>7, <1>8, <1>11, <1>12 DEF RunsInv

LEMMA LifecycleSteps ==
    ASSUME RecordsInv, RunsInv, LifecycleNext
    PROVE  RecordsInv' /\ RunsInv' /\ \A p \in People : Evolves(p)
<1>1. ASSUME NEW r \in Rules, NEW to, RuleRequest(r, to)
      PROVE  RecordsInv' /\ RunsInv' /\ \A p \in People : Evolves(p)
  BY <1>1, RecordsStill, QuietRuns DEF RuleRequest
<1>2. ASSUME NEW j \in Jobs, JobStep(j) \/ RunFails(j)
      PROVE  RecordsInv' /\ RunsInv' /\ \A p \in People : Evolves(p)
  <2>1. CASE RunFails(j)
    BY <2>1, RunsFail, RecordsStill DEF RunFails, pvars
  <2>2. CASE StartRun(j) \/ StartBulkRun(j)
    BY <2>2, RunsStart, RecordsStill DEF StartRun, StartBulkRun, Turn, Still
  <2>3. CASE \E p \in People : ReadCandidate(j, p)
    BY <2>3, RunsRead, RecordsStill DEF ReadCandidate, Turn, Still
  <2>4. CASE NextPhase(j)
    BY <2>4, PhasesTurn, RecordsStill DEF NextPhase, Turn, Still
  <2>5. CASE FireRules(j)
    BY <2>5, RulesBegin, RecordsStill DEF FireRules, Turn, Still
  <2>6. CASE \E r \in Rules : ReadForDeactivate(j, r)
    BY <2>6, RulesRead, RecordsStill DEF ReadForDeactivate, Turn, Still
  <2>7. CASE RulesDone(j)
    BY <2>7, RulesEnd, RecordsStill DEF RulesDone, Turn
  <2> QED BY <1>2, <2>1, <2>2, <2>3, <2>4, <2>5, <2>6, <2>7, MovesTurn, RulesSet, RulesDeactivate
          DEF JobStep
<1> QED BY <1>1, <1>2 DEF LifecycleNext, CreateRule, AcknowledgeSimulation, EnableRule, DisableRule

-----------------------------------------------------------------------------
(* Imports.                                                                *)

FileTypes == [rows : Seq(FileRows), extra : BOOLEAN]

ImportTypes ==
    [pc : {"idle", "fetching", "fetched", "resolved", "prefetch", "rows", "finishing"},
     options : Options, file : FileTypes, at : Nat \ {0},
     found : {<<>>} \cup [People -> Row \cup {Absent}],
     known : SUBSET People, toUpdate : SUBSET People, population : Nat, failed : Nat,
     outcome : Outcomes]

Named(file) == {file.rows[n].who : n \in DOMAIN file.rows}

(* A preview without a failing row has announced an update of everybody    *)
(* known that the file names; a commit that was let through announced no   *)
(* more than the guard allows, and writes nobody the file does not name.   *)
ImportInHand(h, run, written) ==
    /\ run \in ImportTypes
    /\ written \subseteq Named(run.file)
    /\ run.pc \notin {"rows", "finishing"} => written = {}
    /\ run.pc = "rows" =>
          /\ run.found \in [People -> Row \cup {Absent}]
          /\ \A p \in People : run.found[p] # Absent => Exists(p)
    /\ run.pc \in {"resolved", "prefetch", "rows"} => run.toUpdate \subseteq Named(run.file)
    /\ h \in Feeds =>
          /\ run.pc = "resolved" /\ run.failed = 0 => Named(run.file) \cap run.known \subseteq run.toUpdate
          /\ run.pc \in {"prefetch", "rows"} /\ ~run.options.force /\ ~run.options.partial =>
                /\ Named(run.file) \cap run.known \subseteq run.toUpdate
                /\ ~Tripped(Cardinality(run.toUpdate), run.population)

ImportsInv ==
    /\ DOMAIN imp = Importers /\ batch \in [Importers -> SUBSET People]
    /\ \A h \in Importers : ImportInHand(h, imp[h], batch[h])

LEMMA NamedArePeople ==
    ASSUME NEW run \in ImportTypes
    PROVE  Named(run.file) \subseteq People
<1>1. run.file.rows \in Seq(FileRows)
  BY DEF ImportTypes, FileTypes
<1>2. \A n \in DOMAIN run.file.rows : run.file.rows[n] \in FileRows
  BY <1>1
<1> QED BY <1>2 DEF Named, FileRows

LEMMA ImportsEvolve ==
    ASSUME RecordsInv, \A p \in People : Evolves(p),
           NEW h, NEW run, NEW written, ImportInHand(h, run, written)
    PROVE  ImportInHand(h, run, written)'
<1>1. \A p \in People : Exists(p) => Exists(p)'
  BY EvolvingCandidates
<1> QED BY <1>1 DEF ImportInHand

LEMMA QuietImports ==
    ASSUME RecordsInv, ImportsInv, \A p \in People : Evolves(p), UNCHANGED <<imp, batch>>
    PROVE  ImportsInv'
BY ImportsEvolve DEF ImportsInv

LEMMA ImportsTurn ==
    ASSUME RecordsInv, ImportsInv, \A p \in People : Evolves(p),
           NEW h \in Importers, NEW run, NEW written,
           imp' = [imp EXCEPT ![h] = run], batch' = [batch EXCEPT ![h] = written],
           ImportInHand(h, run, written)'
    PROVE  ImportsInv'
<1>0. written \in SUBSET People
  BY NamedArePeople DEF ImportInHand
<1>1. /\ DOMAIN imp' = Importers /\ batch' \in [Importers -> SUBSET People]
      /\ imp'[h] = run /\ batch'[h] = written
      /\ \A k \in Importers : k # h => imp'[k] = imp[k] /\ batch'[k] = batch[k]
  BY <1>0 DEF ImportsInv
<1>2. ASSUME NEW k \in Importers, k # h
      PROVE  ImportInHand(k, imp[k], batch[k])'
  <2>1. PICK r, w : r = imp[k] /\ w = batch[k]
    OBVIOUS
  <2>2. ImportInHand(k, r, w)'
    BY <2>1, ImportsEvolve DEF ImportsInv
  <2> QED BY <1>1, <1>2, <2>1, <2>2 DEF ImportInHand
<1>3. ImportInHand(h, imp[h], batch[h])'
  BY <1>1 DEF ImportInHand
<1> QED BY <1>1, <1>2, <1>3 DEF ImportsInv

(* The turns in which no row is written.                                   *)
LEMMA SilentImports ==
    ASSUME RecordsInv, ImportsInv, UNCHANGED person,
           NEW h \in Importers, NEW run, NEW written,
           imp' = [imp EXCEPT ![h] = run], batch' = [batch EXCEPT ![h] = written],
           ImportInHand(h, run, written)
    PROVE  ImportsInv'
<1>1. \A p \in People : Evolves(p)
  BY DEF Evolves
<1> QED BY <1>1, ImportsEvolve, ImportsTurn

LEMMA BatchKept ==
    ASSUME ImportsInv, NEW h \in Importers, UNCHANGED batch
    PROVE  batch' = [batch EXCEPT ![h] = batch[h]]
BY DEF ImportsInv

LEMMA NotImportingInHand == \A h : ImportInHand(h, NotImporting, {})
<1>1. NotImporting \in ImportTypes
  <2>1. NoFile \in FileTypes
    BY DEF NoFile, FileTypes
  <2>3. NoOptions \in Options
    <3>1. PICK no : no = FALSE /\ no \in BOOLEAN
      OBVIOUS
    <3>2. [commit |-> no, partial |-> no, force |-> no] \in Options
      BY <3>1 DEF Options
    <3> QED BY <3>1, <3>2 DEF NoOptions
  <2>2. "none" \in Outcomes
    BY DEF Outcomes
  <2> QED BY <2>1, <2>2, <2>3 DEF NotImporting, ImportTypes
<1>2. NotImporting.pc = "idle"
  BY DEF NotImporting
<1> QED BY <1>1, <1>2 DEF ImportInHand

LEMMA ImportsStart ==
    ASSUME RecordsInv, ImportsInv, NEW h \in Importers, NEW file \in Files, StartImport(h, file)
    PROVE  ImportsInv'
<1>1. imp[h].pc = "idle" /\ ImportInHand(h, imp[h], batch[h]) /\ UNCHANGED <<person, batch>> /\ h \notin Feeds
  BY DEF StartImport, ImportsInv, StillPeople, pvars
<1>2. batch' = [batch EXCEPT ![h] = {}]
  BY <1>1, BatchKept DEF ImportInHand
<1>3. PICK blank : blank = NotImporting
  OBVIOUS
<1>4. blank \in ImportTypes /\ blank.toUpdate = {}
  BY <1>3, NotImportingInHand DEF ImportInHand, NotImporting
<1>5. PICK run : run = [blank EXCEPT !.pc = "prefetch", !.file = file]
  OBVIOUS
<1>6. file \in FileTypes
  BY ImportsAssumption DEF FileTypes
<1>7. run \in ImportTypes /\ run.pc = "prefetch" /\ run.toUpdate = {}
  BY <1>4, <1>5, <1>6 DEF ImportTypes
<1>8. ImportInHand(h, run, {})
  BY <1>1, <1>7 DEF ImportInHand
<1> QED BY <1>1, <1>2, <1>3, <1>5, <1>8, SilentImports DEF StartImport, Go

LEMMA FeedRunsStart ==
    ASSUME RecordsInv, ImportsInv, NEW h \in Importers, NEW options \in Options,
           StartFeedRun(h, options)
    PROVE  ImportsInv'
<1>1. imp[h].pc = "idle" /\ ImportInHand(h, imp[h], batch[h]) /\ UNCHANGED <<person, batch>>
  BY DEF StartFeedRun, ImportsInv, StillPeople, pvars
<1>2. batch' = [batch EXCEPT ![h] = {}]
  BY <1>1, BatchKept DEF ImportInHand
<1>3. PICK blank : blank = NotImporting
  OBVIOUS
<1>4. blank \in ImportTypes
  BY <1>3, NotImportingInHand DEF ImportInHand
<1>5. PICK run : run = [blank EXCEPT !.pc = "fetching", !.options = options]
  OBVIOUS
<1>6. run \in ImportTypes /\ run.pc = "fetching"
  BY <1>4, <1>5 DEF ImportTypes
<1>7. ImportInHand(h, run, {})
  BY <1>6 DEF ImportInHand
<1> QED BY <1>1, <1>2, <1>3, <1>5, <1>7, SilentImports DEF StartFeedRun, Go

LEMMA ImportsFetch ==
    ASSUME RecordsInv, ImportsInv, NEW h \in Importers, NEW file \in Files, FetchFeed(h, file)
    PROVE  ImportsInv'
<1>1. /\ imp[h].pc = "fetching" /\ ImportInHand(h, imp[h], batch[h]) /\ imp[h] \in ImportTypes
      /\ UNCHANGED <<person, batch>>
  BY DEF FetchFeed, ImportsInv, ImportInHand, StillPeople, pvars
<1>2. batch' = [batch EXCEPT ![h] = {}]
  BY <1>1, BatchKept DEF ImportInHand
<1>3. PICK run : run = [imp[h] EXCEPT !.pc = "fetched", !.file = file]
  OBVIOUS
<1>4. file \in FileTypes
  BY ImportsAssumption DEF FileTypes
<1>5. run \in ImportTypes /\ run.pc = "fetched"
  BY <1>1, <1>3, <1>4 DEF ImportTypes
<1>6. ImportInHand(h, run, {})
  BY <1>5 DEF ImportInHand
<1> QED BY <1>1, <1>2, <1>3, <1>6, SilentImports DEF FetchFeed, Go

LEMMA FetchesFail ==
    ASSUME RecordsInv, ImportsInv, NEW h \in Importers, FetchFails(h)
    PROVE  ImportsInv'
<1>1. /\ imp[h].pc = "fetching" /\ ImportInHand(h, imp[h], batch[h]) /\ imp[h] \in ImportTypes
      /\ UNCHANGED <<person, batch>>
  BY DEF FetchFails, ImportsInv, ImportInHand, StillPeople, pvars
<1>2. batch' = [batch EXCEPT ![h] = {}]
  BY <1>1, BatchKept DEF ImportInHand
<1>3. PICK run : run = [imp[h] EXCEPT !.pc = "finishing", !.outcome = "fetch_failed"]
  OBVIOUS
<1>4. run \in ImportTypes /\ run.pc = "finishing"
  BY <1>1, <1>3 DEF ImportTypes, Outcomes
<1>5. ImportInHand(h, run, {})
  BY <1>4 DEF ImportInHand
<1> QED BY <1>1, <1>2, <1>3, <1>5, SilentImports DEF FetchFails, Go

(* A preview with no failing row has an update for everybody known.        *)
LEMMA PreviewsAnnounce ==
    ASSUME RecordsInv, NEW run \in ImportTypes,
           Cardinality(Rows(run.file, person, "failure")) = 0
    PROVE  Named(run.file) \cap {p \in People : Exists(p)}
               \subseteq {run.file.rows[n].who : n \in Rows(run.file, person, "update")}
<1> DEFINE file == run.file
<1>1. file.rows \in Seq(FileRows)
  BY DEF ImportTypes, FileTypes
<1>2. DOMAIN file.rows = 1..Len(file.rows) /\ Len(file.rows) \in Nat
  BY <1>1
<1>3. IsFiniteSet(DOMAIN file.rows)
  BY <1>2, FS_Interval
<1>4. IsFiniteSet(Rows(file, person, "failure"))
  BY <1>3, FS_Subset DEF Rows
<1>5. Rows(file, person, "failure") = {}
  BY <1>4, FS_EmptySet
<1>6. ASSUME NEW n \in DOMAIN file.rows, Exists(file.rows[n].who)
      PROVE  n \in Rows(file, person, "update")
  <2>1. Resolve(file, n, person) # "failure"
    BY <1>5 DEF Rows
  <2>2. Resolve(file, n, person) # "create"
    BY <1>6 DEF Resolve, Exists
  <2>3. Resolve(file, n, person) = "update"
    BY <2>1, <2>2 DEF Resolve
  <2> QED BY <2>3 DEF Rows
<1> QED BY <1>6 DEF Named

LEMMA ImportsPreview ==
    ASSUME RecordsInv, ImportsInv, NEW h \in Importers, Preview(h)
    PROVE  ImportsInv'
<1> DEFINE file == imp[h].file
<1>1. /\ ImportInHand(h, imp[h], batch[h]) /\ imp[h] \in ImportTypes /\ batch[h] = {}
      /\ UNCHANGED <<person, batch>> /\ batch' = [batch EXCEPT ![h] = {}]
  <2>1. ImportInHand(h, imp[h], batch[h]) /\ imp[h].pc = "fetched" /\ UNCHANGED <<person, batch>>
    BY DEF ImportsInv, Preview, StillPeople, pvars
  <2>2. batch[h] = {}
    BY <2>1 DEF ImportInHand
  <2> QED BY <2>1, <2>2, BatchKept DEF ImportInHand
<1>2. PICK known, toUpdate, failed :
          /\ known = {p \in People : Exists(p)}
          /\ toUpdate = {file.rows[n].who : n \in Rows(file, person, "update")}
          /\ failed = Cardinality(Rows(file, person, "failure"))
  OBVIOUS
<1>3. toUpdate \subseteq Named(file) /\ Named(file) \subseteq People /\ known \subseteq People
  BY <1>1, <1>2, NamedArePeople DEF Named, Rows
<1>4. failed \in Nat
  <2>1. file.rows \in Seq(FileRows)
    BY <1>1 DEF ImportTypes, FileTypes
  <2>2. IsFiniteSet(DOMAIN file.rows)
    <3>1. DOMAIN file.rows = 1..Len(file.rows) /\ Len(file.rows) \in Nat
      BY <2>1
    <3> QED BY <3>1, FS_Interval
  <2>3. IsFiniteSet(Rows(file, person, "failure"))
    BY <2>2, FS_Subset DEF Rows
  <2> QED BY <1>2, <2>3, FS_CardinalityType
<1>5. failed = 0 => Named(file) \cap known \subseteq toUpdate
  BY <1>1, <1>2, PreviewsAnnounce
<1>6. PICK run :
          run = [imp[h] EXCEPT !.pc = "resolved", !.known = known, !.toUpdate = toUpdate, !.failed = failed]
  OBVIOUS
<1>7. imp' = [imp EXCEPT ![h] = run]
  BY <1>2, <1>6 DEF Preview, Go, Lookups
<1>8. /\ run \in ImportTypes /\ run.pc = "resolved" /\ run.file = file
      /\ run.known = known /\ run.toUpdate = toUpdate /\ run.failed = failed
  BY <1>1, <1>3, <1>4, <1>6 DEF ImportTypes
<1>9. ImportInHand(h, run, {})
  BY <1>3, <1>5, <1>8 DEF ImportInHand
<1> QED BY <1>1, <1>7, <1>9, SilentImports

LEMMA ImportsDecide ==
    ASSUME RecordsInv, ImportsInv, NEW h \in Importers, Decide(h)
    PROVE  ImportsInv'
<1>1. /\ ImportInHand(h, imp[h], batch[h]) /\ imp[h] \in ImportTypes /\ batch[h] = {}
      /\ imp[h].pc = "resolved"
      /\ UNCHANGED <<person, batch>> /\ batch' = [batch EXCEPT ![h] = {}]
  <2>1. ImportInHand(h, imp[h], batch[h]) /\ imp[h].pc = "resolved" /\ UNCHANGED <<person, batch>>
    BY DEF ImportsInv, Decide, StillPeople, pvars
  <2>2. batch[h] = {}
    BY <2>1 DEF ImportInHand
  <2> QED BY <2>1, <2>2, BatchKept DEF ImportInHand
<1>2. Population \in Nat
  <2>1. IsFiniteSet({p \in People : Exists(p)})
    BY PeopleAssumption, FS_Subset
  <2> QED BY <2>1, FS_CardinalityType DEF Population
<1>3. PICK verdict : verdict = IF imp[h].options.commit THEN EvaluateHrRun(h) ELSE "previewed"
  OBVIOUS
<1>4. CASE verdict = "none"
  <2>1. PICK run : run = [imp[h] EXCEPT !.pc = "prefetch", !.population = Population]
    OBVIOUS
  <2>2. imp' = [imp EXCEPT ![h] = run]
    BY <1>3, <1>4, <2>1 DEF Decide, Go
  <2>3. /\ run \in ImportTypes /\ run.pc = "prefetch" /\ run.file = imp[h].file
        /\ run.known = imp[h].known /\ run.toUpdate = imp[h].toUpdate
        /\ run.options = imp[h].options /\ run.population = Population
    BY <1>1, <1>2, <2>1 DEF ImportTypes
  <2>4. EvaluateHrRun(h) = "none"
    BY <1>3, <1>4
  <2>5. /\ imp[h].failed > 0 => imp[h].options.partial
        /\ Tripped(Cardinality(imp[h].toUpdate), Population) => imp[h].options.force
    BY <2>4 DEF EvaluateHrRun
  <2>6. imp[h].failed \in Nat
    BY <1>1 DEF ImportTypes
  <2>7. ImportInHand(h, run, {})
    BY <1>1, <2>3, <2>5, <2>6 DEF ImportInHand
  <2> QED BY <1>1, <2>2, <2>7, SilentImports
<1>5. CASE verdict # "none"
  <2>1. PICK run : run = [imp[h] EXCEPT !.pc = "finishing", !.outcome = verdict]
    OBVIOUS
  <2>2. imp' = [imp EXCEPT ![h] = run]
    BY <1>3, <1>5, <2>1 DEF Decide, Go
  <2>3. verdict \in Outcomes
    BY <1>3 DEF EvaluateHrRun, Outcomes
  <2>4. run \in ImportTypes /\ run.pc = "finishing" /\ run.file = imp[h].file
    BY <1>1, <2>1, <2>3 DEF ImportTypes
  <2>5. ImportInHand(h, run, {})
    BY <2>4 DEF ImportInHand
  <2> QED BY <1>1, <2>2, <2>5, SilentImports
<1> QED BY <1>4, <1>5

LEMMA ImportsPrefetch ==
    ASSUME RecordsInv, ImportsInv, NEW h \in Importers, Prefetch(h)
    PROVE  ImportsInv'
<1>1. /\ ImportInHand(h, imp[h], batch[h]) /\ imp[h] \in ImportTypes /\ batch[h] = {}
      /\ imp[h].pc = "prefetch"
      /\ UNCHANGED <<person, batch>> /\ batch' = [batch EXCEPT ![h] = {}]
  <2>1. ImportInHand(h, imp[h], batch[h]) /\ imp[h].pc = "prefetch" /\ UNCHANGED <<person, batch>>
    BY DEF ImportsInv, Prefetch, StillPeople, pvars
  <2>2. batch[h] = {}
    BY <2>1 DEF ImportInHand
  <2> QED BY <2>1, <2>2, BatchKept DEF ImportInHand
<1>2. PICK run : run = [imp[h] EXCEPT !.pc = "rows", !.found = person, !.failed = 0]
  OBVIOUS
<1>3. imp' = [imp EXCEPT ![h] = run]
  BY <1>2 DEF Prefetch, Go, Lookups
<1>4. /\ run \in ImportTypes /\ run.pc = "rows" /\ run.file = imp[h].file /\ run.found = person
      /\ run.known = imp[h].known /\ run.toUpdate = imp[h].toUpdate
      /\ run.options = imp[h].options /\ run.population = imp[h].population
  BY <1>1, <1>2 DEF ImportTypes, RecordsInv
<1>5. ImportInHand(h, run, {})
  BY <1>1, <1>4 DEF ImportInHand, Exists, RecordsInv
<1> QED BY <1>1, <1>3, <1>5, SilentImports

(* Where a row of the commit is taken.                                     *)
LEMMA RowsInHand ==
    ASSUME RecordsInv, ImportsInv, NEW h \in Importers, imp[h].pc = "rows",
           imp[h].at \in DOMAIN imp[h].file.rows
    PROVE  /\ ImportInHand(h, imp[h], batch[h]) /\ imp[h] \in ImportTypes
           /\ RowAt(h) \in FileRows /\ RowAt(h).who \in Named(imp[h].file)
           /\ imp[h].file.extra \in BOOLEAN
<1>1. ImportInHand(h, imp[h], batch[h]) /\ imp[h] \in ImportTypes
  BY DEF ImportsInv, ImportInHand
<1>2. imp[h].file.rows \in Seq(FileRows) /\ imp[h].file.extra \in BOOLEAN
  BY <1>1 DEF ImportTypes, FileTypes
<1>3. RowAt(h) \in FileRows
  BY <1>2 DEF RowAt
<1> QED BY <1>1, <1>2, <1>3 DEF RowAt, Named

(* After a row the run goes on with the next, and what it has written is   *)
(* named in its file.                                                      *)
LEMMA RowsTurn ==
    ASSUME RecordsInv, ImportsInv, \A p \in People : Evolves(p), NEW h \in Importers,
           imp[h].pc = "rows", imp[h].at \in DOMAIN imp[h].file.rows,
           NEW failures \in Nat, RowDone(h, failures),
           NEW written, batch' = [batch EXCEPT ![h] = written], written \subseteq Named(imp[h].file)
    PROVE  ImportsInv'
<1>1. PICK run : run = [imp[h] EXCEPT !.at = @ + 1, !.failed = @ + failures]
  OBVIOUS
<1>2. imp' = [imp EXCEPT ![h] = run]
  BY <1>1 DEF RowDone, Go
<1>3. ImportInHand(h, imp[h], batch[h]) /\ imp[h] \in ImportTypes
  BY RowsInHand
<1>4. PICK at \in Nat \ {0}, failed \in Nat : at = imp[h].at /\ failed = imp[h].failed
  BY <1>3 DEF ImportTypes
<1>5. run = [imp[h] EXCEPT !.at = at + 1, !.failed = failed + failures]
  BY <1>1, <1>4
<1>6. at + 1 \in Nat \ {0} /\ failed + failures \in Nat
  BY <1>4
<1>7. /\ run \in ImportTypes /\ run.pc = "rows" /\ run.file = imp[h].file /\ run.found = imp[h].found
      /\ run.known = imp[h].known /\ run.toUpdate = imp[h].toUpdate
      /\ run.options = imp[h].options /\ run.population = imp[h].population
  BY <1>3, <1>5, <1>6 DEF ImportTypes
<1>8. ImportInHand(h, run, written)
  BY <1>3, <1>7 DEF ImportInHand
<1> QED BY <1>2, <1>8, ImportsEvolve, ImportsTurn

LEMMA RowsFail ==
    ASSUME RecordsInv, ImportsInv, NEW h \in Importers, FailRow(h)
    PROVE  RecordsInv' /\ ImportsInv' /\ \A p \in People : Evolves(p)
<1>1. /\ imp[h].pc = "rows" /\ imp[h].at \in DOMAIN imp[h].file.rows
      /\ RowDone(h, 1) /\ UNCHANGED <<person, txn, gaps, batch>>
  BY DEF FailRow, Importing, RowDone
<1>2. RecordsInv' /\ \A p \in People : Evolves(p)
  BY <1>1, RecordsStill
<1>3. batch[h] \subseteq Named(imp[h].file) /\ batch' = [batch EXCEPT ![h] = batch[h]]
  BY <1>1, RowsInHand, BatchKept DEF ImportInHand
<1> QED BY <1>1, <1>2, <1>3, RowsTurn

LEMMA RowsCreate ==
    ASSUME RecordsInv, ImportsInv, NEW h \in Importers, CreateRow(h)
    PROVE  RecordsInv' /\ ImportsInv' /\ \A p \in People : Evolves(p)
<1>1. imp[h].pc = "rows" /\ imp[h].at \in DOMAIN imp[h].file.rows /\ UNCHANGED <<txn, batch>>
  BY DEF CreateRow, Importing, RowDone
<1>2. PICK failures \in Nat : RowDone(h, failures)
  BY DEF CreateRow
<1>3. RowAt(h) \in FileRows /\ batch[h] \subseteq Named(imp[h].file)
  BY <1>1, RowsInHand DEF ImportInHand
<1>4. PICK p, blank, row :
          /\ p = RowAt(h).who
          /\ blank = NewRow(RowAt(h).unit, [field |-> "end", value |-> Never])
          /\ row = Imported(RowAt(h), TRUE, blank)
  OBVIOUS
<1>5. RecordsInv' /\ \A q \in People : Evolves(q)
  <2>1. CASE UNCHANGED <<person, gaps>>
    BY <1>1, <2>1, RecordsStill
  <2>2. CASE ~Exists(p) /\ Write(p, row, "import", Absent)
    <3>1. p \in People /\ RowAt(h).unit \in Units
      BY <1>3, <1>4 DEF FileRows
    <3>2. blank \in Row /\ blank.status = "pending"
      BY <1>4, <3>1, NewRows
    <3>3. row \in Row /\ row.status = "pending"
      BY <1>3, <1>4, <3>2, ImportedRows
    <3>4. Writes(p, row, "import", Absent)
      BY <2>2, <3>1, <3>3 DEF Writes
    <3>5. ~Locked(p)
      BY <2>2, <3>1, PeopleAssumption DEF Locked, RecordsInv, RequestInHand, Idle
    <3> QED BY <1>1, <3>4, <3>5, OthersKeepRecords, WritesEvolve
  <2> QED BY <1>4, <2>1, <2>2 DEF CreateRow
<1>6. batch' = [batch EXCEPT ![h] = batch[h]]
  BY <1>1, BatchKept
<1> QED BY <1>1, <1>2, <1>3, <1>5, <1>6, RowsTurn

LEMMA RowsUpdate ==
    ASSUME RecordsInv, ImportsInv, NEW h \in Importers, UpdateRow(h)
    PROVE  RecordsInv' /\ ImportsInv' /\ \A p \in People : Evolves(p)
<1>1. /\ imp[h].pc = "rows" /\ imp[h].at \in DOMAIN imp[h].file.rows /\ UNCHANGED txn
      /\ RowDone(h, 0) /\ Resolve(imp[h].file, imp[h].at, imp[h].found) = "update"
  BY DEF UpdateRow, Importing, RowDone
<1>2. PICK p, extra, old : p = RowAt(h).who /\ extra = imp[h].file.extra /\ old = imp[h].found[p]
  OBVIOUS
<1>3. /\ ImportInHand(h, imp[h], batch[h]) /\ RowAt(h) \in FileRows /\ extra \in BOOLEAN
      /\ p \in People /\ p \in Named(imp[h].file) /\ batch[h] \subseteq Named(imp[h].file)
  BY <1>1, <1>2, RowsInHand DEF ImportInHand, FileRows
<1>4. Exists(p) /\ person[p] \in Row
  <2>1. imp[h].found[p] # Absent
    BY <1>1, <1>2 DEF Resolve, RowAt
  <2> QED BY <1>1, <1>3, <2>1 DEF ImportInHand, RecordsInv, Exists
<1>5. CASE UNCHANGED <<person, gaps, batch>>
  <2>1. RecordsInv' /\ \A q \in People : Evolves(q)
    BY <1>1, <1>5, RecordsStill
  <2>2. batch' = [batch EXCEPT ![h] = batch[h]]
    BY <1>5, BatchKept
  <2> QED BY <1>1, <1>3, <2>1, <2>2, RowsTurn
<1>6. CASE /\ ~Locked(p)
           /\ Write(p, Imported(RowAt(h), extra, person[p]), "import", old)
           /\ batch' = [batch EXCEPT ![h] = @ \cup {p}]
  <2>1. /\ Imported(RowAt(h), extra, person[p]) \in Row
        /\ Imported(RowAt(h), extra, person[p]).status = person[p].status
    BY <1>3, <1>4, ImportedRows
  <2>2. Writes(p, Imported(RowAt(h), extra, person[p]), "import", old)
    BY <1>3, <1>4, <1>6, <2>1 DEF Writes
  <2>3. RecordsInv' /\ \A q \in People : Evolves(q)
    BY <1>1, <1>6, <2>2, OthersKeepRecords, WritesEvolve
  <2>4. batch[h] \cup {p} \subseteq Named(imp[h].file)
    BY <1>3
  <2> QED BY <1>1, <1>6, <2>3, <2>4, RowsTurn
<1> QED BY <1>2, <1>5, <1>6 DEF UpdateRow

LEMMA ImportsEnd ==
    ASSUME RecordsInv, ImportsInv, NEW h \in Importers,
           EndCommit(h) \/ FinishRun(h) \/ RunCrashes(h)
    PROVE  ImportsInv'
<1>1. ImportInHand(h, imp[h], batch[h]) /\ imp[h] \in ImportTypes /\ UNCHANGED person
  BY DEF ImportsInv, ImportInHand, EndCommit, FinishRun, RunCrashes, StillPeople, pvars
<1>2. CASE EndCommit(h)
  <2>1. PICK outcome : outcome = IF imp[h].failed > 0 THEN "committed_partial" ELSE "committed"
    OBVIOUS
  <2>2. PICK run : run = [imp[h] EXCEPT !.pc = "finishing", !.outcome = outcome]
    OBVIOUS
  <2>3. imp' = [imp EXCEPT ![h] = run] /\ batch' = [batch EXCEPT ![h] = batch[h]]
    BY <1>2, <2>1, <2>2, BatchKept DEF EndCommit, Go
  <2>4. run \in ImportTypes /\ run.pc = "finishing" /\ run.file = imp[h].file
    BY <1>1, <2>1, <2>2 DEF ImportTypes, Outcomes
  <2>5. ImportInHand(h, run, batch[h])
    BY <1>1, <2>4 DEF ImportInHand
  <2> QED BY <1>1, <2>3, <2>5, SilentImports
<1>3. CASE FinishRun(h) \/ RunCrashes(h)
  <2>1. imp' = [imp EXCEPT ![h] = NotImporting] /\ batch' = [batch EXCEPT ![h] = {}]
    BY <1>3 DEF FinishRun, RunCrashes, Go
  <2> QED BY <1>1, <2>1, NotImportingInHand, SilentImports
<1> QED BY <1>2, <1>3

LEMMA ImportsSteps ==
    ASSUME RecordsInv, ImportsInv, ImportsNext
    PROVE  RecordsInv' /\ ImportsInv' /\ \A p \in People : Evolves(p)
<1>1. ASSUME NEW to \in BOOLEAN, SetSourceEnabled(to)
      PROVE  RecordsInv' /\ ImportsInv' /\ \A p \in People : Evolves(p)
  BY <1>1, RecordsStill, QuietImports DEF SetSourceEnabled
<1>2. ASSUME NEW h \in Importers, NEW file \in Files, StartImport(h, file) \/ FetchFeed(h, file)
      PROVE  RecordsInv' /\ ImportsInv' /\ \A p \in People : Evolves(p)
  <2>1. UNCHANGED <<person, txn, gaps>>
    BY <1>2 DEF StartImport, FetchFeed, StillPeople, pvars
  <2>2. CASE StartImport(h, file)
    BY <2>1, <2>2, ImportsStart, RecordsStill
  <2>3. CASE FetchFeed(h, file)
    BY <2>1, <2>3, ImportsFetch, RecordsStill
  <2> QED BY <1>2, <2>2, <2>3
<1>3. ASSUME NEW h \in Importers, NEW options \in Options, StartFeedRun(h, options)
      PROVE  RecordsInv' /\ ImportsInv' /\ \A p \in People : Evolves(p)
  BY <1>3, FeedRunsStart, RecordsStill DEF StartFeedRun, StillPeople, pvars
<1>4. ASSUME NEW h \in Importers, ImportStep(h)
      PROVE  RecordsInv' /\ ImportsInv' /\ \A p \in People : Evolves(p)
  <2>1. CASE FetchFails(h) \/ Preview(h) \/ Decide(h) \/ Prefetch(h) \/ EndCommit(h) \/ FinishRun(h) \/ RunCrashes(h)
    <3>1. UNCHANGED <<person, txn, gaps>>
      BY <2>1 DEF FetchFails, Preview, Decide, Prefetch, EndCommit, FinishRun, RunCrashes, StillPeople, pvars
    <3>2. ImportsInv'
      BY <2>1, FetchesFail, ImportsPreview, ImportsDecide, ImportsPrefetch, ImportsEnd
    <3> QED BY <3>1, <3>2, RecordsStill
  <2>2. CASE FailRow(h) \/ CreateRow(h) \/ UpdateRow(h)
    BY <2>2, RowsFail, RowsCreate, RowsUpdate
  <2> QED BY <1>4, <2>1, <2>2 DEF ImportStep
<1> QED BY <1>1, <1>2, <1>3, <1>4 DEF ImportsNext

-----------------------------------------------------------------------------
(* All of them together.                                                   *)

WritersInv == RecordsInv /\ RunsInv /\ ImportsInv

LEMMA WritersStart == WritersInit => WritersInv
<1> SUFFICES ASSUME WritersInit PROVE WritersInv
  OBVIOUS
<1>1. RecordsInv
  BY PeopleAssumption DEF WritersInit, PeopleInit, RecordsInv
<1>2. RunsInv
  <2>1. \A j \in Jobs : job[j] = Resting
    BY DEF WritersInit, LifecycleInit
  <2>2. \A j \in Jobs : RunInHand(j, job[j]) /\ job[j].acted = <<>>
    BY <2>1, RestingInHand
  <2>3. moved = {} /\ fired = {} /\ refired = FALSE /\ DOMAIN job = Jobs
    BY DEF WritersInit, LifecycleInit
  <2>4. Len(<<>>) = 0
    OBVIOUS
  <2>5. RulesToCome
    BY <2>2, <2>3, <2>4 DEF RulesToCome
  <2> QED BY <2>2, <2>3, <2>5 DEF RunsInv, MovedForGood
<1>3. ImportsInv
  <2>1. DOMAIN imp = Importers /\ \A h \in Importers : imp[h] = NotImporting /\ batch[h] = {}
    BY DEF WritersInit, ImportsInit
  <2>2. batch \in [Importers -> SUBSET People]
    BY DEF WritersInit, ImportsInit
  <2> QED BY <2>1, <2>2, NotImportingInHand DEF ImportsInv
<1> QED BY <1>1, <1>2, <1>3 DEF WritersInv

LEMMA WritersStep == WritersInv /\ [WritersNext]_wvars => WritersInv'
<1> SUFFICES ASSUME WritersInv, [WritersNext]_wvars PROVE WritersInv'
  OBVIOUS
<1>1. CASE PeopleNext /\ UNCHANGED <<lvars, ivars>>
  BY <1>1, PeopleSteps, QuietRuns, QuietImports DEF WritersInv, lvars, ivars
<1>2. CASE LifecycleNext /\ UNCHANGED ivars
  BY <1>2, LifecycleSteps, QuietImports DEF WritersInv, ivars
<1>3. CASE ImportsNext /\ UNCHANGED lvars
  BY <1>3, ImportsSteps, QuietRuns DEF WritersInv, lvars
<1>4. CASE UNCHANGED wvars
  BY <1>4, RecordsStill, QuietRuns, QuietImports DEF WritersInv, wvars, pvars, lvars, ivars
<1> QED BY <1>1, <1>2, <1>3, <1>4 DEF WritersNext

LEMMA WritersKeep == WritersSpec => []WritersInv
BY WritersStart, WritersStep, PTL DEF WritersSpec

(* lifecycle.job.ts: however many runs overlap, crash and start again, and  *)
(* whatever requests and imports do to the same people meanwhile, the rules *)
(* of a person and a trigger fire once, after a run moved that person.      *)
THEOREM RulesOnce == WritersSpec => []RulesFireOnce
<1>1. WritersInv => RulesFireOnce
  BY DEF WritersInv, RunsInv, RulesToCome, RulesFireOnce
<1> QED BY <1>1, WritersKeep, PTL

(* users.controller.ts, rule-applier.ts: a request or a rule, which locks   *)
(* the row it reads, writes an audit record whose `before` is the row it    *)
(* replaces.                                                               *)
THEOREM LockedWritersAudit == WritersSpec => []LockedWritersTellTheTruth
<1>1. WritersInv => LockedWritersTellTheTruth
  BY DEF WritersInv, RecordsInv, LockedWritersTellTheTruth
<1> QED BY <1>1, WritersKeep, PTL

LEMMA TrippedByMore ==
    ASSUME NEW few \in Nat, NEW many \in Nat, few <= many, NEW population \in Nat,
           Tripped(few, population)
    PROVE  Tripped(many, population)
<1>1. Threshold \in Nat /\ Floor \in Nat
  BY ImportsAssumption
<1>2. PICK limit : limit = population * Threshold
  OBVIOUS
<1>3. limit \in Nat
  BY <1>1, <1>2
<1>4. population > 0 /\ few * 100 > limit /\ few > Floor
  BY <1>2 DEF Tripped
<1>5. many * 100 > limit /\ many > Floor
  BY <1>1, <1>3, <1>4
<1> QED BY <1>2, <1>4, <1>5 DEF Tripped

(* hr-run-policy.ts: of the people its preview knew, a run that was let     *)
(* through by the guard updates no more than the guard allows, whatever     *)
(* anybody else creates, moves or edits between preview and commit.         *)
THEOREM GuardBounds == WritersSpec => []GuardBoundsTheRun
<1>1. WritersInv => GuardBoundsTheRun
  <2> SUFFICES ASSUME WritersInv, NEW h \in Feeds,
                      imp[h].pc = "rows", ~imp[h].options.force, ~imp[h].options.partial
               PROVE  ~Tripped(Cardinality(batch[h] \cap imp[h].known), imp[h].population)
    BY DEF GuardBoundsTheRun
  <2>1. ImportInHand(h, imp[h], batch[h])
    BY ImportsAssumption DEF WritersInv, ImportsInv
  <2>2. /\ batch[h] \cap imp[h].known \subseteq imp[h].toUpdate
        /\ ~Tripped(Cardinality(imp[h].toUpdate), imp[h].population)
        /\ imp[h].toUpdate \subseteq People /\ imp[h].population \in Nat
    BY <2>1 DEF ImportInHand, ImportTypes
  <2>3. IsFiniteSet(imp[h].toUpdate)
    BY <2>2, PeopleAssumption, FS_Subset
  <2>4. /\ IsFiniteSet(batch[h] \cap imp[h].known)
        /\ Cardinality(batch[h] \cap imp[h].known) <= Cardinality(imp[h].toUpdate)
    BY <2>2, <2>3, FS_Subset
  <2>5. Cardinality(batch[h] \cap imp[h].known) \in Nat /\ Cardinality(imp[h].toUpdate) \in Nat
    BY <2>3, <2>4, FS_CardinalityType
  <2> QED BY <2>2, <2>4, <2>5, TrippedByMore
<1> QED BY <1>1, WritersKeep, PTL

LEMMA OneAttribute ==
    ASSUME NEW row \in Row, NEW k \in Keys, NEW edits, DOMAIN edits = {k},
           NEW to, to = [row EXCEPT !.attrs = Merged(@, edits)]
    PROVE  to = [row EXCEPT !.attrs[k] = to.attrs[k]]
<1>1. Merged(row.attrs, edits) = [row.attrs EXCEPT ![k] = edits[k]]
  BY DEF Row, Attributes, Merged
<1>2. to.attrs = Merged(row.attrs, edits) /\ to.attrs[k] = edits[k]
  BY <1>1 DEF Row, Attributes
<1> QED BY <1>1, <1>2 DEF Row, Attributes

(* Of a run that is applying rules, only a rule writes a person.           *)
LEMMA RulesWrite ==
    ASSUME WritersInv, LifecycleNext, NEW j \in Jobs, job[j].pc = "applying",
           job'[j].queue # job[j].queue, ~UNCHANGED person
    PROVE  \E r \in Rules : ApplySetAttribute(j, r)
<1>1. PICK k \in Jobs : JobStep(k)
  BY DEF LifecycleNext, CreateRule, AcknowledgeSimulation, EnableRule, DisableRule, RuleRequest,
         RunFails, pvars
<1>2. \/ ActivateDue(k) \/ DeactivateDue(k) \/ ApplyDeactivate(k)
      \/ \E r \in Rules : ApplySetAttribute(k, r)
  BY <1>1 DEF JobStep, StartRun, StartBulkRun, ReadCandidate, NextPhase, FireRules, RulesDone,
              ReadForDeactivate, Still
<1>3. \E to : job' = [job EXCEPT ![k] = to]
  BY <1>2 DEF ActivateDue, DeactivateDue, ApplyDeactivate, ApplySetAttribute, Move, Refused,
              Dequeue, Turn
<1>4. k = j
  BY <1>3 DEF WritersInv, RunsInv
<1> QED BY <1>2, <1>4 DEF ActivateDue, DeactivateDue, ApplyDeactivate

(* rule-applier.ts, applySetAttribute: a rule changes one attribute of the  *)
(* row as it is, and keeps whatever was written since the run moved the     *)
(* person.                                                                 *)
THEOREM RulesKeepEdits == WritersSpec => RulesKeepOtherEdits
<1>1. ASSUME WritersInv, [WritersNext]_wvars, NEW j \in Jobs, NEW p \in People,
             job[j].pc = "applying", job'[j].queue # job[j].queue, person'[p] # person[p]
      PROVE  \E k \in Keys : person'[p] = [person[p] EXCEPT !.attrs[k] = person'[p].attrs[k]]
  <2>1. LifecycleNext
    BY <1>1 DEF WritersNext, wvars, lvars
  <2>2. PICK r \in Rules : ApplySetAttribute(j, r)
    BY <1>1, <2>1, RulesWrite
  <2>3. PICK on : on = job[j].on
    OBVIOUS
  <2>4. /\ RuleOf[r].key \in Keys /\ RuleOf[r].set \in Values
        /\ person' = [person EXCEPT ![on] = WithAttribute(j, r)]
    BY <1>1, <2>2, <2>3 DEF ApplySetAttribute, Write
  <2>5. p = on /\ person'[p] = WithAttribute(j, r)
    BY <1>1, <2>4 DEF WritersInv, RecordsInv
  <2>6. Exists(p) /\ person[p] \in Row
    BY <1>1, <2>3, <2>5 DEF WritersInv, RunsInv, RunInHand, RecordsInv, Exists
  <2>7. PICK k, row, to, edits :
            /\ k \in Keys /\ k = RuleOf[r].key /\ row = person[p] /\ to = person'[p]
            /\ edits = [own \in {RuleOf[r].key} |-> RuleOf[r].set]
    BY <2>4
  <2>8. to = [row EXCEPT !.attrs = Merged(@, edits)]
    BY <2>3, <2>5, <2>7 DEF WithAttribute
  <2>9. DOMAIN edits = {k} /\ row \in Row
    BY <2>6, <2>7
  <2>10. to = [row EXCEPT !.attrs[k] = to.attrs[k]]
    BY <2>7, <2>8, <2>9, OneAttribute
  <2> QED BY <2>7, <2>10
<1>2. WritersInv /\ [WritersNext]_wvars =>
          [\A j \in Jobs, p \in People :
              job[j].pc = "applying" /\ job'[j].queue # job[j].queue /\ person'[p] # person[p] =>
                  \E k \in Keys : person'[p] = [person[p] EXCEPT !.attrs[k] = person'[p].attrs[k]]
          ]_<<pvars, lvars>>
  BY <1>1
<1> QED BY <1>2, WritersKeep, PTL DEF WritersSpec, RulesKeepOtherEdits

-----------------------------------------------------------------------------
(* The fetch of a feed, by itself.                                         *)

IntakeSpec == IntakeInit /\ [][IntakeNext]_hvars

Ends ==
    {"never", "running", "fetch_failed", "preview_failed", "previewed", "aborted_failures",
     "aborted_blast_radius", "committed"}

SourceRows ==
    [kind : {"csv_url", "rest_json"}, mapping : {s.mapping : s \in Settings}, paging : Pagings,
     enabled : BOOLEAN, last : Ends]

FetchTypes ==
    [pc : {"fetching", "fetched"}, of : SourceRows, commit : BOOLEAN, from : Nat, pages : Nat,
     got : Seq(Records), budget : Nat, saw : Seq(Records), moved : BOOLEAN]

(* How many of the feed's records the requests so far have reached.        *)
Reached(from, saw) == IF from > Len(saw) THEN Len(saw) ELSE from

(* The HR system has not changed under the run.                            *)
Unmoved(f) == ~f.moved

Whole(f) ==
    Unmoved(f) /\ PagesOf(Len(f.saw), f.of.paging.mode) <= PageCap(f.of.paging) => f.got = f.saw

(* A fetch has read its source once, has spent what it has read, and as     *)
(* long as the feed stands still has its beginning.                        *)
FetchInHand(f) ==
    \/ f.pc = "idle"
    \/ f.pc = "ending" /\ f.outcome \in Ends
    \/ /\ f \in FetchTypes
       /\ Len(f.got) + f.budget = MaxBytes
       /\ f.pc = "fetching" =>
             /\ f.from = f.pages * PageSize
             /\ f.of.paging.mode = "none" => f.pages = 0
             /\ Unmoved(f) => hr = f.saw /\ f.got = SubSeq(f.saw, 1, Reached(f.from, f.saw))
       /\ f.pc = "fetched" => Whole(f)

IntakeInv ==
    /\ hr \in Seq(Records) /\ src \in SourceRows
    /\ DOMAIN fetch = Fetchers
    /\ \A h \in Fetchers : FetchInHand(fetch[h])

LEMMA PageSizes == PageSize \in Nat /\ PageSize > 0 /\ MaxBytes \in Nat
BY IntakeAssumption

LEMMA MorePages ==
    ASSUME NEW few \in Nat, NEW many \in Nat, few <= many
    PROVE  few * PageSize <= many * PageSize
BY PageSizes

LEMMA NextPages ==
    ASSUME NEW pages \in Nat
    PROVE  /\ pages * PageSize \in Nat /\ 0 * PageSize = 0
           /\ (pages + 1) * PageSize = pages * PageSize + PageSize
BY PageSizes

LEMMA PagesCover ==
    ASSUME NEW n \in Nat
    PROVE  /\ (n + PageSize - 1) \div PageSize \in Nat
           /\ n <= ((n + PageSize - 1) \div PageSize) * PageSize
<1>1. PICK size \in Nat \ {0} : size = PageSize
  BY PageSizes
<1>2. PICK a \in Nat : a = n + size - 1
  OBVIOUS
<1>3. /\ a \div size \in Nat /\ size * (a \div size) <= a /\ a < size * (a \div size) + size
  OBVIOUS
<1>4. PICK q \in Nat : q = a \div size
  BY <1>3
<1>5. size * q = q * size /\ q * size \in Nat
  OBVIOUS
<1>6. n <= q * size
  BY <1>2, <1>3, <1>4, <1>5
<1> QED BY <1>1, <1>2, <1>4, <1>6

(* As many pages as a whole fetch takes reach the end of the feed.         *)
LEMMA EnoughPages ==
    ASSUME NEW n \in Nat, NEW pages \in Nat, NEW mode \in {"page", "cursor"}, PagesOf(n, mode) <= pages
    PROVE  n <= pages * PageSize
<1>1. PICK q \in Nat : q = (n + PageSize - 1) \div PageSize
  BY PagesCover
<1>2. n <= q * PageSize
  BY <1>1, PagesCover
<1>3. CASE n = 0
  BY <1>3, NextPages
<1>4. CASE n # 0
  <2>1. q <= pages
    BY <1>1, <1>4 DEF PagesOf
  <2> QED BY <1>2, <2>1, MorePages, NextPages
<1> QED BY <1>3, <1>4

(* The next page of a still feed goes on where the last one ended.         *)
LEMMA PagesJoin ==
    ASSUME IntakeInv, NEW from \in Nat
    PROVE  /\ PageOf(from) \in Seq(Records)
           /\ SubSeq(hr, 1, Reached(from, hr)) \o PageOf(from) = SubSeq(hr, 1, Reached(from + PageSize, hr))
           /\ PageOf(from) = <<>> => Len(hr) <= from
<1>1. hr \in Seq(Records) /\ Len(hr) \in Nat
  BY DEF IntakeInv
<1>2. PICK last \in Nat : last = Reached(from + PageSize, hr)
  BY <1>1, PageSizes DEF Reached
<1>3. last <= Len(hr) /\ PageOf(from) = SubSeq(hr, from + 1, last)
  BY <1>1, <1>2, PageSizes DEF Reached, PageOf
<1>4. \A i \in (from + 1)..last : hr[i] \in Records
  BY <1>1, <1>3
<1>5. PageOf(from) \in Seq(Records)
  BY <1>2, <1>3, <1>4, SubSeqProperties
<1>6. CASE from <= Len(hr)
  <2>1. Reached(from, hr) = from /\ from <= last
    BY <1>1, <1>2, <1>6, PageSizes DEF Reached
  <2>2. SubSeq(hr, 1, from) \o SubSeq(hr, from + 1, last) = SubSeq(hr, 1, last)
    BY <1>1, <1>3, <1>6, <2>1, ConcatAdjacentSubSeq
  <2>3. PageOf(from) = <<>> => Len(hr) <= from
    <3> SUFFICES ASSUME from < Len(hr) PROVE PageOf(from) # <<>>
      BY <1>1
    <3>1. from + 1 <= last
      BY <1>1, <1>2, PageSizes DEF Reached
    <3>2. Len(SubSeq(hr, from + 1, last)) = last - (from + 1) + 1
      BY <1>4, <3>1, SubSeqProperties
    <3> QED BY <1>3, <3>1, <3>2
  <2> QED BY <1>2, <1>3, <1>5, <2>1, <2>2, <2>3
<1>7. CASE from > Len(hr)
  <2>1. Reached(from, hr) = Len(hr) /\ last = Len(hr)
    BY <1>1, <1>2, <1>7, PageSizes DEF Reached
  <2>2. PageOf(from) = <<>>
    BY <1>3, <1>7, <2>1, SubSeqEmpty
  <2>3. SubSeq(hr, 1, Len(hr)) = hr
    BY <1>1, SubSeqFull
  <2>4. hr \o <<>> = hr
    BY <1>1
  <2> QED BY <1>1, <1>2, <1>7, <2>1, <2>2, <2>3, <2>4
<1>8. from <= Len(hr) \/ from > Len(hr)
  BY <1>1
<1> QED BY <1>6, <1>7, <1>8

LEMMA WholeFeed ==
    ASSUME IntakeInv, NEW from \in Nat, Len(hr) <= from
    PROVE  SubSeq(hr, 1, Reached(from, hr)) = hr
<1>1. hr \in Seq(Records) /\ Len(hr) \in Nat
  BY DEF IntakeInv
<1>2. Reached(from, hr) = Len(hr)
  BY <1>1 DEF Reached
<1> QED BY <1>1, <1>2, SubSeqFull

LEMMA FetchesTurn ==
    ASSUME IntakeInv, NEW h \in Fetchers, NEW f, fetch' = [fetch EXCEPT ![h] = f], FetchInHand(f),
           UNCHANGED hr, src' \in SourceRows
    PROVE  IntakeInv'
<1>1. DOMAIN fetch' = Fetchers /\ fetch'[h] = f /\ \A k \in Fetchers : k # h => fetch'[k] = fetch[k]
  BY DEF IntakeInv
<1>2. \A k \in Fetchers : FetchInHand(fetch'[k])
  BY <1>1 DEF IntakeInv
<1>3. \A k \in Fetchers : FetchInHand(fetch[k])'
  BY <1>2 DEF FetchInHand
<1> QED BY <1>1, <1>3 DEF IntakeInv

LEMMA PagesRead ==
    ASSUME IntakeInv, NEW h \in Fetchers, ReadPage(h)
    PROVE  IntakeInv'
<1>1. PICK f : f = fetch[h]
  OBVIOUS
<1>2. PICK page : page = Asked(f)
  OBVIOUS
<1>3. PICK read :
          read = [f EXCEPT !.got = @ \o page, !.budget = @ - Len(page), !.pages = @ + 1,
                           !.from = NextFrom(f), !.pc = IF LastPage(f) THEN "fetched" ELSE "fetching"]
  OBVIOUS
<1>4. /\ FetchInHand(f) /\ f.pc = "fetching" /\ Len(page) <= f.budget
      /\ fetch' = [fetch EXCEPT ![h] = read] /\ UNCHANGED <<hr, src>>
  BY <1>1, <1>2, <1>3 DEF IntakeInv, ReadPage, Fetching
<1>5. /\ f \in FetchTypes /\ Len(f.got) + f.budget = MaxBytes /\ f.from = f.pages * PageSize
      /\ f.of.paging.mode = "none" => f.pages = 0
      /\ Unmoved(f) => hr = f.saw /\ f.got = SubSeq(f.saw, 1, Reached(f.from, f.saw))
  BY <1>4 DEF FetchInHand
<1>6. PICK from \in Nat, pages \in Nat, budget \in Nat, got \in Seq(Records) :
          from = f.from /\ pages = f.pages /\ budget = f.budget /\ got = f.got
  BY <1>5 DEF FetchTypes
<1>7. page \in Seq(Records)
  BY <1>2, <1>6, PagesJoin DEF Asked, IntakeInv
<1>8. /\ Len(page) \in Nat /\ got \o page \in Seq(Records) /\ Len(got \o page) = Len(got) + Len(page)
      /\ Len(got) \in Nat
  BY <1>7
<1>9. budget - Len(page) \in Nat /\ pages + 1 \in Nat /\ from + PageSize \in Nat
  <2>1. Len(page) <= budget /\ PageSize \in Nat
    BY <1>4, <1>6, PageSizes
  <2> QED BY <1>6, <1>8, <2>1
<1>10. PICK to : to = IF LastPage(f) THEN "fetched" ELSE "fetching"
  OBVIOUS
<1>11. read = [f EXCEPT !.got = got \o page, !.budget = budget - Len(page), !.pages = pages + 1,
                        !.from = from + PageSize, !.pc = to]
  BY <1>3, <1>6, <1>10 DEF NextFrom
<1>12. /\ read \in FetchTypes /\ read.pc = to /\ read.got = got \o page
       /\ read.budget = budget - Len(page) /\ read.pages = pages + 1 /\ read.from = from + PageSize
       /\ read.of = f.of /\ read.saw = f.saw /\ read.moved = f.moved
  BY <1>5, <1>8, <1>9, <1>10, <1>11 DEF FetchTypes
<1>13. Len(read.got) + read.budget = MaxBytes
  <2>1. Len(got) + budget = MaxBytes
    BY <1>5, <1>6
  <2>2. (Len(got) + Len(page)) + (budget - Len(page)) = MaxBytes
    BY <1>6, <1>8, <2>1
  <2> QED BY <1>8, <1>12, <2>2
<1>18. Unmoved(read) <=> Unmoved(f)
  BY <1>12 DEF Unmoved
<1>14. read.from = read.pages * PageSize
  BY <1>5, <1>6, <1>12, NextPages
<1>15. f.of.paging.mode \in {"none", "page", "cursor"}
  BY <1>5 DEF FetchTypes, SourceRows, Pagings
<1>16. CASE f.of.paging.mode = "none"
  <2>1. LastPage(f) /\ page = hr
    BY <1>2, <1>16 DEF LastPage, Asked
  <2>2. ASSUME Unmoved(f) PROVE read.got = f.saw
    <3>1. from = 0
      BY <1>5, <1>6, <1>16, NextPages
    <3>2. Reached(0, f.saw) = 0
      BY <1>5 DEF FetchTypes, Reached
    <3>3. got = <<>>
      BY <1>5, <1>6, <2>2, <3>1, <3>2, SubSeqEmpty
    <3> QED BY <1>5, <1>7, <1>12, <2>1, <2>2, <3>3
  <2>3. read.pc = "fetched"
    BY <1>10, <1>12, <2>1
  <2>4. FetchInHand(read)
    BY <1>12, <1>13, <1>18, <2>2, <2>3 DEF FetchInHand, Whole
  <2> QED BY <1>4, <2>4, FetchesTurn DEF IntakeInv
<1>17. CASE f.of.paging.mode \in {"page", "cursor"}
  <2>1. page = PageOf(from)
    BY <1>2, <1>6, <1>17 DEF Asked
  <2>2. Unmoved(f) => read.got = SubSeq(hr, 1, Reached(from + PageSize, hr)) /\ hr = f.saw
    BY <1>5, <1>6, <1>12, <2>1, PagesJoin
  <2>3. LastPage(f) => Len(hr) <= from + PageSize
    <3>1. Len(hr) \in Nat
      BY DEF IntakeInv
    <3>2. CASE f.of.paging.mode = "page"
      <4>1. LastPage(f) => page = <<>>
        BY <1>2, <3>2 DEF LastPage
      <4>2. LastPage(f) => Len(hr) <= from
        BY <2>1, <4>1, PagesJoin
      <4> QED BY <3>1, <4>2, PageSizes
    <3>3. CASE f.of.paging.mode = "cursor"
      <4>1. LastPage(f) => f.from + PageSize >= Len(hr)
        BY <3>3 DEF LastPage
      <4> QED BY <1>6, <3>1, <4>1, PageSizes
    <3> QED BY <1>17, <3>2, <3>3
  <2>4. CASE LastPage(f)
    <3>1. Unmoved(f) => read.got = f.saw
      BY <1>9, <2>2, <2>3, <2>4, WholeFeed
    <3>2. read.pc = "fetched"
      BY <1>10, <1>12, <2>4
    <3>3. FetchInHand(read)
      BY <1>12, <1>13, <1>18, <3>1, <3>2 DEF FetchInHand, Whole
    <3> QED BY <1>4, <3>3, FetchesTurn DEF IntakeInv
  <2>5. CASE ~LastPage(f)
    <3>1. read.pc = "fetching"
      BY <1>10, <1>12, <2>5
    <3>2. Unmoved(read) => hr = read.saw /\ read.got = SubSeq(read.saw, 1, Reached(read.from, read.saw))
      BY <1>12, <1>18, <2>2
    <3>3. FetchInHand(read)
      BY <1>12, <1>13, <1>14, <1>17, <3>1, <3>2 DEF FetchInHand
    <3> QED BY <1>4, <3>3, FetchesTurn DEF IntakeInv
  <2> QED BY <2>4, <2>5
<1> QED BY <1>15, <1>16, <1>17

LEMMA PagesCapped ==
    ASSUME IntakeInv, NEW h \in Fetchers, StopAtTheCap(h)
    PROVE  IntakeInv'
<1>1. PICK f, stopped : f = fetch[h] /\ stopped = [f EXCEPT !.pc = "fetched"]
  OBVIOUS
<1>2. /\ FetchInHand(f) /\ f.pc = "fetching" /\ ~(f.pages < PageCap(f.of.paging))
      /\ fetch' = [fetch EXCEPT ![h] = stopped] /\ UNCHANGED <<hr, src>>
  BY <1>1 DEF IntakeInv, StopAtTheCap, Fetching
<1>3. /\ f \in FetchTypes /\ Len(f.got) + f.budget = MaxBytes /\ f.from = f.pages * PageSize
      /\ f.of.paging.mode = "none" => f.pages = 0
      /\ Unmoved(f) => hr = f.saw /\ f.got = SubSeq(f.saw, 1, Reached(f.from, f.saw))
  BY <1>2 DEF FetchInHand
<1>4. PICK paging \in Pagings, pages \in Nat : paging = f.of.paging /\ pages = f.pages
  BY <1>3 DEF FetchTypes, SourceRows
<1>5. PageCap(paging) \in Nat /\ paging.mode \in {"none", "page", "cursor"}
  BY <1>4, IntakeAssumption DEF PageCap, Pagings
<1>6. PageCap(paging) <= pages
  BY <1>2, <1>4, <1>5
<1>7. paging.mode \in {"page", "cursor"}
  BY <1>3, <1>4, <1>5, <1>6 DEF PageCap
<1>8. ASSUME Unmoved(f), PagesOf(Len(f.saw), paging.mode) <= PageCap(paging)
      PROVE  f.got = f.saw
  <2>1. Len(hr) \in Nat /\ hr = f.saw
    BY <1>3, <1>8 DEF IntakeInv
  <2>2. PagesOf(Len(hr), paging.mode) \in Nat
    BY <1>7, <2>1, PagesCover DEF PagesOf
  <2>3. PagesOf(Len(hr), paging.mode) <= pages
    BY <1>5, <1>6, <1>8, <2>1, <2>2
  <2>4. Len(hr) <= f.from
    BY <1>3, <1>4, <1>7, <2>1, <2>3, EnoughPages
  <2>5. f.from \in Nat
    BY <1>3 DEF FetchTypes
  <2> QED BY <1>3, <1>8, <2>1, <2>4, <2>5, WholeFeed
<1>9. /\ stopped \in FetchTypes /\ stopped.pc = "fetched" /\ stopped.got = f.got
      /\ stopped.budget = f.budget /\ stopped.of = f.of /\ stopped.saw = f.saw
      /\ stopped.moved = f.moved
  BY <1>1, <1>3 DEF FetchTypes
<1>10. Unmoved(stopped) <=> Unmoved(f)
  BY <1>9 DEF Unmoved
<1>11. FetchInHand(stopped)
  BY <1>3, <1>4, <1>8, <1>9, <1>10 DEF FetchInHand, Whole
<1> QED BY <1>2, <1>11, FetchesTurn DEF IntakeInv

LEMMA FetchesStart ==
    ASSUME IntakeInv, NEW h \in Fetchers, NEW commit \in BOOLEAN, StartFetch(h, commit)
    PROVE  IntakeInv'
<1>1. PICK row : row = src
  OBVIOUS
<1>2. PICK f :
          f = [pc |-> "fetching", of |-> row, commit |-> commit, from |-> 0, pages |-> 0,
               got |-> <<>>, budget |-> MaxBytes, saw |-> hr, moved |-> FALSE]
  OBVIOUS
<1>3. /\ fetch' = [fetch EXCEPT ![h] = f] /\ src' = [row EXCEPT !.last = "running"]
      /\ UNCHANGED hr
  BY <1>1, <1>2 DEF StartFetch
<1>4. row \in SourceRows /\ hr \in Seq(Records)
  BY <1>1 DEF IntakeInv
<1>5. src' \in SourceRows
  BY <1>3, <1>4 DEF SourceRows, Ends
<1>6. f \in FetchTypes
  BY <1>2, <1>4, PageSizes DEF FetchTypes
<1>7. SubSeq(hr, 1, 0) = <<>> /\ Reached(0, hr) = 0 /\ Len(<<>>) = 0
  BY <1>4, SubSeqEmpty DEF Reached
<1>8. /\ Len(f.got) + f.budget = MaxBytes /\ f.pc = "fetching" /\ f.from = f.pages * PageSize
      /\ f.pages = 0 /\ hr = f.saw /\ f.got = SubSeq(f.saw, 1, Reached(f.from, f.saw))
  BY <1>2, <1>7, PageSizes, NextPages
<1>9. FetchInHand(f)
  BY <1>6, <1>8 DEF FetchInHand
<1> QED BY <1>3, <1>5, <1>9, FetchesTurn

LEMMA FetchesClose ==
    ASSUME IntakeInv, NEW h \in Fetchers, NEW outcome \in Ends,
           RequestFails(h) \/ MapFeed(h, outcome) \/ EndFetch(h)
    PROVE  IntakeInv'
<1>1. CASE RequestFails(h) \/ MapFeed(h, outcome)
  <2>1. PICK end \in Ends : fetch' = [fetch EXCEPT ![h] = [pc |-> "ending", outcome |-> end]]
    BY <1>1 DEF RequestFails, MapFeed, Ends
  <2>2. UNCHANGED <<hr, src>>
    BY <1>1 DEF RequestFails, MapFeed
  <2>3. FetchInHand([pc |-> "ending", outcome |-> end])
    BY DEF FetchInHand
  <2> QED BY <2>1, <2>2, <2>3, FetchesTurn DEF IntakeInv
<1>2. CASE EndFetch(h)
  <2>1. FetchInHand(NoFetch)
    BY DEF FetchInHand, NoFetch
  <2>2. fetch[h].outcome \in Ends
    BY <1>2 DEF EndFetch, IntakeInv, FetchInHand, FetchTypes
  <2>3. src' = [src EXCEPT !.last = fetch[h].outcome] /\ UNCHANGED hr
    BY <1>2 DEF EndFetch
  <2>4. PICK row, end : row = src /\ end = fetch[h].outcome
    OBVIOUS
  <2>5. src' \in SourceRows
    BY <2>2, <2>3, <2>4 DEF IntakeInv, SourceRows
  <2> QED BY <1>2, <2>1, <2>3, <2>5, FetchesTurn DEF EndFetch
<1> QED BY <1>1, <1>2

LEMMA SourcesPatched ==
    ASSUME IntakeInv, NEW c \in Clerks, NEW s \in Settings, PatchSource(c, s)
    PROVE  IntakeInv'
<1>1. PICK row, mapping, paging, enabled :
          row = src /\ mapping = s.mapping /\ paging = s.paging /\ enabled = s.enabled
  OBVIOUS
<1>2. row \in SourceRows
  BY <1>1 DEF IntakeInv
<1>3. mapping \in {t.mapping : t \in Settings} /\ paging \in Pagings /\ enabled \in BOOLEAN
  <2>1. mapping \in {t.mapping : t \in Settings}
    BY <1>1
  <2>2. s \in [kind : {"csv_url", "rest_json"}, mapping : {t.mapping : t \in Settings},
               paging : Pagings, enabled : BOOLEAN]
    BY IntakeAssumption
  <2> QED BY <1>1, <2>1, <2>2
<1>4. PICK to : to = [row EXCEPT !.mapping = mapping, !.paging = paging, !.enabled = enabled]
  OBVIOUS
<1>5. to \in SourceRows
  BY <1>2, <1>3, <1>4 DEF SourceRows
<1>6. UNCHANGED <<hr, fetch>> /\ (src' = to \/ src' = src)
  BY <1>1, <1>4 DEF PatchSource
<1>7. \A h \in Fetchers : FetchInHand(fetch[h])'
  BY <1>6 DEF IntakeInv, FetchInHand
<1> QED BY <1>1, <1>2, <1>5, <1>6, <1>7 DEF IntakeInv

LEMMA FeedsMove ==
    ASSUME IntakeInv, EditFeed
    PROVE  IntakeInv'
<1>1. hr' \in Seq(Records)
  <2>1. CASE \E r \in Records : hr' = Append(hr, r)
    BY <2>1, AppendProperties DEF IntakeInv
  <2>2. CASE \E i \in DOMAIN hr : hr' = RemoveAt(hr, i)
    <3>1. PICK i \in DOMAIN hr : hr' = RemoveAt(hr, i)
      BY <2>2
    <3>2. hr \in Seq(Records) /\ Len(hr) \in Nat /\ i \in 1..Len(hr)
      BY DEF IntakeInv
    <3>3. SubSeq(hr, 1, i - 1) \in Seq(Records) /\ SubSeq(hr, i + 1, Len(hr)) \in Seq(Records)
      BY <3>2, SubSeqProperties
    <3> QED BY <3>1, <3>3 DEF RemoveAt
  <2> QED BY <2>1, <2>2 DEF EditFeed
<1>2. UNCHANGED src /\ DOMAIN fetch' = Fetchers
  BY DEF EditFeed
<1>3. ASSUME NEW h \in Fetchers PROVE FetchInHand(fetch[h])'
  <2>1. PICK f, to : f = fetch[h] /\ to = fetch'[h]
    OBVIOUS
  <2>2. to = IF f.pc = "fetching" THEN [f EXCEPT !.moved = TRUE] ELSE f
    BY <2>1 DEF EditFeed
  <2>3. FetchInHand(f)
    BY <2>1 DEF IntakeInv
  <2>4. CASE f.pc = "fetching"
    <3>1. f \in FetchTypes
      BY <2>3, <2>4 DEF FetchInHand
    <3>2. /\ to \in FetchTypes /\ to.moved /\ to.pc = "fetching" /\ to.of = f.of /\ to.got = f.got
          /\ to.budget = f.budget /\ to.from = f.from /\ to.pages = f.pages
      BY <2>2, <2>4, <3>1 DEF FetchTypes
    <3> QED BY <2>1, <2>3, <2>4, <3>1, <3>2 DEF FetchInHand, Unmoved
  <2>5. CASE f.pc # "fetching"
    BY <2>1, <2>2, <2>3, <2>5 DEF FetchInHand
  <2> QED BY <2>4, <2>5
<1> QED BY <1>1, <1>2, <1>3 DEF IntakeInv

LEMMA IntakeStart == IntakeInit => IntakeInv
<1> SUFFICES ASSUME IntakeInit PROVE IntakeInv
  OBVIOUS
<1>1. hr \in Seq(Records)
  BY IntakeAssumption DEF IntakeInit
<1>2. src \in SourceRows
  <2>1. PICK s \in Settings :
            src = [kind |-> s.kind, mapping |-> s.mapping, paging |-> s.paging, enabled |-> s.enabled,
                   last |-> "never"]
    BY DEF IntakeInit, CreatedSources
  <2>2. s \in [kind : {"csv_url", "rest_json"}, mapping : {t.mapping : t \in Settings},
               paging : Pagings, enabled : BOOLEAN]
    BY IntakeAssumption
  <2> QED BY <2>1, <2>2 DEF SourceRows, Ends
<1>3. DOMAIN fetch = Fetchers /\ \A h \in Fetchers : FetchInHand(fetch[h])
  BY DEF IntakeInit, FetchInHand, NoFetch
<1> QED BY <1>1, <1>2, <1>3 DEF IntakeInv

LEMMA IntakeStep == IntakeInv /\ [IntakeNext]_hvars => IntakeInv'
<1> SUFFICES ASSUME IntakeInv, [IntakeNext]_hvars PROVE IntakeInv'
  OBVIOUS
<1>1. ASSUME UNCHANGED <<hr, src, fetch>> PROVE IntakeInv'
  BY <1>1 DEF IntakeInv, FetchInHand
<1>2. CASE UNCHANGED hvars
  BY <1>1, <1>2 DEF hvars
<1>3. ASSUME NEW c \in Clerks, ReadSource(c) PROVE IntakeInv'
  BY <1>1, <1>3 DEF ReadSource
<1>4. ASSUME NEW h \in Fetchers, NEW outcome \in Ends, RequestFails(h) \/ EndFetch(h) \/ MapFeed(h, outcome)
      PROVE  IntakeInv'
  BY <1>4, FetchesClose
<1>5. "never" \in Ends /\ {"preview_failed", "previewed", "aborted_failures", "aborted_blast_radius",
                           "committed"} \subseteq Ends
  BY DEF Ends
<1> QED BY <1>2, <1>3, <1>4, <1>5, FeedsMove, SourcesPatched, FetchesStart, PagesRead, PagesCapped
        DEF IntakeNext

(* hr-fetch.ts: whatever the size of a page, the limits and the feed, a run *)
(* that the HR system did not change under and that may ask for enough      *)
(* pages has every record, once and in order; and it is within its budget.  *)
THEOREM StillFeedsAreWhole == IntakeSpec => []StillFeedsArriveWhole
<1>1. IntakeInv => StillFeedsArriveWhole
  <2> SUFFICES ASSUME IntakeInv, NEW h \in Fetchers, fetch[h].pc = "fetched"
               PROVE  Len(fetch[h].got) <= MaxBytes /\ Whole(fetch[h])
    BY DEF StillFeedsArriveWhole, Whole, Unmoved
  <2>1. PICK f : f = fetch[h]
    OBVIOUS
  <2>2. f \in FetchTypes /\ Len(f.got) + f.budget = MaxBytes /\ Whole(f)
    BY <2>1 DEF IntakeInv, FetchInHand
  <2>3. Len(f.got) \in Nat /\ f.budget \in Nat
    BY <2>2 DEF FetchTypes
  <2>4. Len(f.got) <= MaxBytes
    BY <2>2, <2>3, PageSizes
  <2> QED BY <2>1, <2>2, <2>4
<1> QED BY <1>1, IntakeStart, IntakeStep, PTL DEF IntakeSpec

=============================================================================
