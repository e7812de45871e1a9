------------------------------ MODULE Lifecycle ------------------------------
(***************************************************************************)
(* LifecycleJob: activates joiners and deactivates leavers by their dates, *)
(* then fires the JML rules of those it moved; BulkActivateJob: activates  *)
(* whoever is pending.  Each person and each rule is a transaction of its  *)
(* own, and a run ends with the first error that is not a refused          *)
(* transition.                                                             *)
(***************************************************************************)
EXTENDS PeopleRecords, Sequences

CONSTANTS
    Rules, RuleOf,   \* jml_rules: what each rule says
    Jobs, Bulk,      \* processes that run a job; those that run the bulk one
    MaxFaults        \* bound: runs that an error or a crash ends

ASSUME LifecycleAssumption == Bulk \subseteq Jobs /\ MaxFaults \in Nat

VARIABLES
    rule,      \* each rule: made, simulated, enabled
    job,       \* each process's run
    moved,     \* history: <<trigger, person>> a run has committed
    fired,     \* history: <<trigger, person>> whose rules a run went through
    refired,   \* history: a pair was fired again
    faults     \* faulty ends so far

lvars == <<rule, job, moved, fired, refired, faults>>

Triggers == {"user_created", "user_attribute_changed", "start_date_reached", "end_date_reached"}

Resting ==
    [pc |-> "idle", todo |-> {}, on |-> Nobody, read |-> Absent, acted |-> <<>>, queue |-> {}]

LifecycleTypeOK ==
    /\ PeopleTypeOK
    /\ rule \in [Rules -> [made : BOOLEAN, simulated : BOOLEAN, enabled : BOOLEAN]]
    /\ \A r \in Rules : rule[r].enabled => rule[r].simulated /\ rule[r].made
    /\ \A j \in Jobs :
          /\ job[j].pc \in {"idle", "joiners", "joining", "leavers", "leaving",
                            "firing", "applying", "ending"}
          /\ job[j].todo \subseteq People /\ job[j].on \in People \cup {Nobody}
          /\ job[j].queue \subseteq Rules
    /\ faults \in 0..MaxFaults

-----------------------------------------------------------------------------
(* resolveConditionField: a column, an attribute, or nothing it knows.     *)
Field(row, field) ==
    IF field = "status" THEN <<row.status>>
    ELSE IF field \in Keys THEN <<row.attrs[field]>>
    ELSE <<>>

Holds(operator, actual, expected) ==
    CASE operator = "equals" -> actual = expected
      [] operator = "not_equals" -> actual # expected
      [] operator = "in" -> actual \in expected
      [] OTHER -> FALSE

(* evaluateRule: an unknown field, operator or action never matches.       *)
EvaluateRule(r, row) ==
    LET field == Field(row, RuleOf[r].field)
    IN /\ field # <<>>
       /\ Holds(RuleOf[r].operator, field[1], RuleOf[r].value)
       /\ RuleOf[r].action \in {"set_attribute", "deactivate"}

(* matchRules over listEnabledByTrigger.                                   *)
MatchRules(trigger, row) ==
    {r \in Rules : rule[r].enabled /\ RuleOf[r].trigger = trigger /\ EvaluateRule(r, row)}

-----------------------------------------------------------------------------
RuleRequest(r, to) ==
    /\ writes < MaxWrites /\ writes' = writes + 1
    /\ rule' = [rule EXCEPT ![r] = to]
    /\ UNCHANGED <<person, today, txn, gaps, job, moved, fired, refired, faults>>

CreateRule(r) ==
    /\ ~rule[r].made
    /\ RuleRequest(r, [made |-> TRUE, simulated |-> FALSE, enabled |-> FALSE])

AcknowledgeSimulation(r) == rule[r].made /\ RuleRequest(r, [rule[r] EXCEPT !.simulated = TRUE])

(* setEnabled: only a rule that has been previewed.                        *)
EnableRule(r) == rule[r].simulated /\ RuleRequest(r, [rule[r] EXCEPT !.enabled = TRUE])

DisableRule(r) == rule[r].made /\ RuleRequest(r, [rule[r] EXCEPT !.enabled = FALSE])

-----------------------------------------------------------------------------
Turn(j, to) ==
    /\ job' = [job EXCEPT ![j] = to]
    /\ UNCHANGED <<today, txn, writes, rule, faults>>

Still == UNCHANGED <<person, gaps, moved, fired, refired>>

(* listPendingWithStartDateOnOrBefore; listPending for the bulk job.       *)
DueJoiners(j) ==
    {p \in People : Exists(p) /\ person[p].status = "pending" /\
        (j \in Bulk \/ person[p].start \in 0..today)}

(* listNonDeactivatedWithEndDateOnOrBefore.                                *)
DueLeavers ==
    {p \in People : Exists(p) /\ person[p].status # "deactivated" /\ person[p].end \in 0..today}

StartRun(j) ==
    /\ job[j].pc = "idle" /\ j \notin Bulk
    /\ DueJoiners(j) \cup DueLeavers # {}
    /\ Turn(j, [Resting EXCEPT !.pc = "joiners", !.todo = DueJoiners(j)])
    /\ Still

(* BulkActivateJob.run.                                                    *)
StartBulkRun(j) ==
    /\ job[j].pc = "idle" /\ j \in Bulk
    /\ DueJoiners(j) # {}
    /\ Turn(j, [Resting EXCEPT !.pc = "joiners", !.todo = DueJoiners(j)])
    /\ Still

(* The transaction's plain read of the next candidate, in the order of ids. *)
ReadCandidate(j, p) ==
    /\ job[j].pc \in {"joiners", "leavers"} /\ p \in job[j].todo
    /\ Turn(j, [job[j] EXCEPT !.pc = IF @ = "joiners" THEN "joining" ELSE "leaving",
                              !.todo = @ \ {p}, !.on = p, !.read = person[p]])
    /\ Still

(* Mutant of Refused: whoever could not be moved counts as moved.           *)
RefusedButCounted(j, next) ==
    LET p == job[j].on
        back == IF next = "active" THEN "joiners" ELSE "leavers"
        trigger == IF next = "active" THEN "start_date_reached" ELSE "end_date_reached"
    IN /\ ~CanBecome(p, next)
       /\ Turn(j, [job[j] EXCEPT !.pc = back, !.on = Nobody, !.read = Absent,
                     !.acted = Append(@, [trigger |-> trigger, who |-> p, row |-> person[p]])])
       /\ Still

(* InvalidTransitionError: the candidate is reported as skipped.           *)
Refused(j, next) ==
    /\ ~CanBecome(job[j].on, next)
    /\ Turn(j, [job[j] EXCEPT !.pc = IF next = "active" THEN "joiners" ELSE "leavers",
                              !.on = Nobody, !.read = Absent])
    /\ Still

(* The conditional update of the candidate, its audit record and event.    *)
Move(j, next, trigger) ==
    LET p == job[j].on
        step == [trigger |-> trigger, who |-> p, row |-> [person[p] EXCEPT !.status = next]]
    IN /\ ~Locked(p)
       /\ \/ /\ ChangeStatus(p, next, "job", job[j].read)
             /\ Turn(j, [job[j] EXCEPT !.pc = IF next = "active" THEN "joiners" ELSE "leavers",
                           !.on = Nobody, !.read = Absent,
                           !.acted = IF j \in Bulk THEN @ ELSE Append(@, step)])
             /\ moved' = IF j \in Bulk THEN moved ELSE moved \cup {<<trigger, p>>}
             /\ UNCHANGED <<fired, refired>>
          \/ Refused(j, next)

ActivateDue(j) == job[j].pc = "joining" /\ Move(j, "active", "start_date_reached")

DeactivateDue(j) == job[j].pc = "leaving" /\ Move(j, "deactivated", "end_date_reached")

(* The end of a phase.                                                     *)
NextPhase(j) ==
    /\ job[j].todo = {}
    /\ \/ /\ job[j].pc = "joiners"
          /\ IF j \in Bulk THEN Turn(j, Resting)
             ELSE Turn(j, [job[j] EXCEPT !.pc = "leavers", !.todo = DueLeavers])
       \/ /\ job[j].pc = "leavers"
          /\ Turn(j, [job[j] EXCEPT !.pc = "firing"])
       \/ /\ job[j].pc = "firing" /\ job[j].acted = <<>>
          /\ Turn(j, Resting)
    /\ Still

(* fireTriggerRules, for the next of those the run moved, as the row was   *)
(* when it was moved.                                                      *)
FireRules(j) ==
    /\ job[j].pc = "firing" /\ job[j].acted # <<>>
    /\ LET step == Head(job[j].acted)
       IN Turn(j, [job[j] EXCEPT !.pc = "applying", !.on = step.who,
                                 !.queue = MatchRules(step.trigger, step.row)])
    /\ Still

(* Mutant of WithAttribute: the rule writes over the row the run has moved. *)
WithAttributeOfRun(j, r) ==
    [person[job[j].on] EXCEPT
        !.attrs = Merged(Head(job[j].acted).row.attrs, [k \in {RuleOf[r].key} |-> RuleOf[r].set])]

(* The attributes of the locked row, and the rule's over them.             *)
WithAttribute(j, r) ==
    [person[job[j].on] EXCEPT !.attrs = Merged(@, [k \in {RuleOf[r].key} |-> RuleOf[r].set])]

Dequeue(j, r) == Turn(j, [job[j] EXCEPT !.queue = @ \ {r}])

(* applySetAttribute: of a key that is an active definition, and a value   *)
(* that validates.                                                         *)
ApplySetAttribute(j, r) ==
    /\ job[j].pc = "applying" /\ r \in job[j].queue
    /\ RuleOf[r].action = "set_attribute" /\ ~Locked(job[j].on)
    /\ IF RuleOf[r].key \in Keys /\ RuleOf[r].set \in Values
       THEN Write(job[j].on, WithAttribute(j, r), "rule", person[job[j].on])
       ELSE UNCHANGED <<person, gaps>>
    /\ Dequeue(j, r)
    /\ UNCHANGED <<moved, fired, refired>>

(* applyDeactivate: a plain read, and the conditional update.              *)
ReadForDeactivate(j, r) ==
    /\ job[j].pc = "applying" /\ r \in job[j].queue /\ RuleOf[r].action = "deactivate"
    /\ Turn(j, [job[j] EXCEPT !.pc = "ending", !.queue = @ \ {r}, !.read = person[job[j].on]])
    /\ Still

ApplyDeactivate(j) ==
    /\ job[j].pc = "ending" /\ ~Locked(job[j].on)
    /\ IF CanBecome(job[j].on, "deactivated")
       THEN ChangeStatus(job[j].on, "deactivated", "job", job[j].read)
       ELSE UNCHANGED <<person, gaps>>
    /\ Turn(j, [job[j] EXCEPT !.pc = "applying", !.read = Absent])
    /\ UNCHANGED <<moved, fired, refired>>

RulesDone(j) ==
    LET pair == <<Head(job[j].acted).trigger, job[j].on>>
    IN /\ job[j].pc = "applying" /\ job[j].queue = {}
       /\ fired' = fired \cup {pair}
       /\ refired' = (refired \/ pair \in fired)
       /\ Turn(j, [job[j] EXCEPT !.pc = "firing", !.on = Nobody, !.acted = Tail(@)])
       /\ UNCHANGED <<person, gaps, moved>>

(* Any call throws, or the process dies: the run is over.                  *)
RunFails(j) ==
    /\ job[j].pc # "idle" /\ faults < MaxFaults
    /\ faults' = faults + 1
    /\ job' = [job EXCEPT ![j] = Resting]
    /\ UNCHANGED <<pvars, rule, moved, fired, refired>>

-----------------------------------------------------------------------------
LifecycleInit ==
    /\ rule \in [Rules -> {[made |-> TRUE, simulated |-> TRUE, enabled |-> TRUE],
                           [made |-> FALSE, simulated |-> FALSE, enabled |-> FALSE]}]
    /\ job = [j \in Jobs |-> Resting]
    /\ moved = {} /\ fired = {} /\ refired = FALSE
    /\ faults = 0

JobStep(j) ==
    \/ StartRun(j) \/ StartBulkRun(j) \/ \E p \in People : ReadCandidate(j, p)
    \/ ActivateDue(j) \/ DeactivateDue(j) \/ NextPhase(j)
    \/ FireRules(j) \/ RulesDone(j) \/ ApplyDeactivate(j)
    \/ \E r \in Rules : ApplySetAttribute(j, r) \/ ReadForDeactivate(j, r)

LifecycleNext ==
    \/ \E r \in Rules :
          CreateRule(r) \/ AcknowledgeSimulation(r) \/ EnableRule(r) \/ DisableRule(r)
    \/ \E j \in Jobs : JobStep(j) \/ RunFails(j)

(* The timer starts the job again every day, and a transaction ends.       *)
LifecycleFairness ==
    /\ \A j \in Jobs \ Bulk : WF_<<pvars, lvars>>(JobStep(j))
    /\ \A s \in Sessions : WF_pvars(Finish(s))

-----------------------------------------------------------------------------
(* lifecycle.job.ts: rules fire once for a person and a trigger, and only  *)
(* after a run itself moved that person - however many runs overlap.       *)
RulesFireOnce == ~refired /\ fired \subseteq moved

(* A leaver whose last day has come is deactivated in the end, never       *)
(* onboarded or not, unless the date is changed.                           *)
LeaversLeave ==
    \A p \in People :
        p \in DueLeavers ~> p \notin DueLeavers

(* A rule's write keeps every edit committed before it: it changes one     *)
(* attribute of the person it is applied to.                               *)
RulesKeepOtherEdits ==
    [][\A j \in Jobs, p \in People :
          job[j].pc = "applying" /\ job'[j].queue # job[j].queue /\ person'[p] # person[p] =>
              \E k \in Keys : person'[p] = [person[p] EXCEPT !.attrs[k] = person'[p].attrs[k]]
      ]_<<pvars, lvars>>

(* lifecycle.job.ts: rules "fire exactly once per user, ever, with no      *)
(* extra bookkeeping": when no run is going on, everybody a run has moved  *)
(* has had the rules.                                                      *)
EveryMoveFiresItsRules == (\A j \in Jobs : job[j].pc = "idle") => moved \subseteq fired
=============================================================================
