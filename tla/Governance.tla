------------------------------ MODULE Governance ------------------------------
(***************************************************************************)
(* Who decides about one business role: exceptions set by administrators,  *)
(* access requests decided by approvers, and a recertification campaign    *)
(* whose reviewers certify or revoke.  All three end in the same           *)
(* business_role_exceptions row, written by transactions whose statements  *)
(* interleave under READ COMMITTED.  The reconcile that closes each of     *)
(* them is module Entitlements; here it commits or refuses.                *)
(***************************************************************************)
EXTENDS Integers, FiniteSets

CONSTANTS
    People,
    Nobody,
    Admins,          \* hold super_admin, and with it every global grant
    Matching,        \* people the role's formula describes
    Requests,
    Formula,         \* the subject of the role_formula item
    ManagersFirst,   \* the campaign's reviewer_strategy is manager_of_subject
    Creator,         \* the campaign's created_by
    Sessions,        \* API requests, one open transaction each
    MaxClock,        \* bound: the instants exceptions expire between
    MaxWrites        \* bound: requests sent to the API

ASSUME GovernanceAssumption ==
    /\ Nobody \notin People \cup {Formula} /\ Formula \notin People
    /\ Admins \subseteq People /\ Matching \subseteq People
    /\ ManagersFirst \in BOOLEAN
    /\ Creator \in Admins
    /\ MaxClock \in Nat /\ MaxWrites \in Nat

VARIABLES
    clock,
    manager,     \* users.manager_id
    enabled,     \* the role's enabled flag
    exception,   \* each person's exception to the role
    request,     \* the access requests
    campaign,    \* the campaign's status
    item,        \* its recert_items, one for each subject
    txn,         \* each session's transaction
    writes       \* requests sent to the API so far

gvars == <<clock, manager, enabled, exception, request, campaign, item, txn, writes>>

Never == MaxClock + 1

Exception == [mode : {"none", "include", "exclude"}, expiresAt : -1..Never]

NoException == [mode |-> "none", expiresAt |-> 0]

Live(x, now) == x.mode # "none" /\ x.expiresAt >= now

Request ==
    [state : {"absent", "pending", "approved", "denied", "cancelled"},
     subject : People \cup {Nobody}, byManager : BOOLEAN, until : 0..Never,
     decidedBy : People \cup {Nobody}]

NoRequest ==
    [state |-> "absent", subject |-> Nobody, byManager |-> FALSE, until |-> 0,
     decidedBy |-> Nobody]

Subjects == People \cup {Formula}

Item ==
    [decision : {"absent", "pending", "certified", "revoked"},
     reviewer : People \cup {Nobody}, decidedBy : People \cup {Nobody}]

NoItem == [decision |-> "absent", reviewer |-> Nobody, decidedBy |-> Nobody]

(* judged: the guards have passed; checked: the campaign was open; decided: *)
(* the item is updated; ready: an exception is to be written; written: it  *)
(* is, and its row is locked; settled: there is none to write.  An opening *)
(* is locked, then has found its items, then is settled.                   *)
Steps == {"idle", "judged", "checked", "decided", "locked", "found", "ready", "written", "settled"}

Acts == {"none", "set", "remove", "approve", "deny", "cancel", "certify", "revoke", "open", "close"}

Txn ==
    [step : Steps, act : Acts, on : Requests \cup Subjects \cup {Nobody},
     by : People \cup {Nobody}, now : 0..MaxClock, sets : Exception,
     found : SUBSET Subjects, reviewer : [Subjects -> People \cup {Nobody}]]

NoReviewer == [i \in Subjects |-> Nobody]

Idle ==
    [step |-> "idle", act |-> "none", on |-> Nobody, by |-> Nobody, now |-> 0,
     sets |-> NoException, found |-> {}, reviewer |-> NoReviewer]

GovernanceTypeOK ==
    /\ clock \in 0..MaxClock
    /\ manager \in [People -> People \cup {Nobody}]
    /\ enabled \in BOOLEAN
    /\ exception \in [People -> Exception]
    /\ request \in [Requests -> Request]
    /\ campaign \in {"draft", "open", "closed"}
    /\ item \in [Subjects -> Item]
    /\ txn \in [Sessions -> Txn]
    /\ writes \in 0..MaxWrites

-----------------------------------------------------------------------------
Deciding(s) == txn[s].act \in {"approve", "deny", "cancel"}

Reviewing(s) == txn[s].act \in {"certify", "revoke"}

(* The row locks of the transactions that are still open.                  *)
RequestLocked(q) ==
    \E s \in Sessions :
        Deciding(s) /\ txn[s].on = q /\ txn[s].step \in {"ready", "written", "settled"}

ItemLocked(i) ==
    \E s \in Sessions :
        Reviewing(s) /\ txn[s].on = i /\ txn[s].step \in {"decided", "ready", "written", "settled"}

CampaignLocked == \E s \in Sessions : txn[s].act \in {"open", "close"}

(* The person whose exception the transaction writes.                      *)
Person(s) == IF Deciding(s) THEN request[txn[s].on].subject ELSE txn[s].on

ExceptionLocked(u) == \E s \in Sessions : txn[s].step = "written" /\ Person(s) = u

Begin(s, act, on, by, step, x) ==
    /\ writes < MaxWrites
    /\ writes' = writes + 1
    /\ txn[s].step = "idle"
    /\ txn' = [txn EXCEPT ![s] = [step |-> step, act |-> act, on |-> on, by |-> by,
                                   now |-> clock, sets |-> x, found |-> {},
                                   reviewer |-> NoReviewer]]
    /\ UNCHANGED <<clock, manager, enabled, exception, request, campaign, item>>

At(s, step) == txn[s].step = step

Go(s, to) ==
    /\ txn' = [txn EXCEPT ![s].step = to]
    /\ UNCHANGED <<clock, manager, enabled, exception, request, campaign, item, writes>>

-----------------------------------------------------------------------------
(* addException and removeException.                                       *)
SetException(s, u, x) == Begin(s, "set", u, Nobody, "ready", x)

RemoveException(s, u) == Begin(s, "remove", u, Nobody, "ready", NoException)

(* upsertException and deleteException wait for another transaction's row; *)
(* deleting a row that is gone by then is a 404.                           *)
WriteException(s) ==
    /\ At(s, "ready") /\ ~ExceptionLocked(Person(s))
    /\ txn[s].act = "remove" => exception[Person(s)].mode # "none"
    /\ Go(s, "written")

-----------------------------------------------------------------------------
(* AccessRequestsController.create; the role must be offered.              *)
Ask(q, u, until) ==
    /\ writes < MaxWrites
    /\ writes' = writes + 1
    /\ enabled
    /\ request[q].state = "absent"
    /\ request' = [request EXCEPT ![q] =
          [state |-> "pending", subject |-> u, byManager |-> manager[u] # Nobody,
           until |-> until, decidedBy |-> Nobody]]
    /\ UNCHANGED <<clock, manager, enabled, exception, campaign, item, txn>>

(* Mutant of MayDecide: administrators are let through first.              *)
MayDecideAdminsFirst(a, q) ==
    \/ a \in Admins
    \/ a # request[q].subject /\ request[q].byManager /\ manager[request[q].subject] = a

(* assertMayDecide: never one's own; the resolver, asked again now; an     *)
(* administrator.                                                          *)
MayDecide(a, q) ==
    /\ a # request[q].subject
    /\ \/ request[q].byManager /\ manager[request[q].subject] = a
       \/ a \in Admins

Judge(s, act, q, a) ==
    /\ request[q].state # "absent"
    /\ IF act = "cancel" THEN a = request[q].subject ELSE MayDecide(a, q)
    /\ Begin(s, act, q, a, "judged", NoException)

(* Mutant of Granted: the grant outlives what was asked for.               *)
GrantedOneLater(q) == [mode |-> "include", expiresAt |-> request[q].until + 1]

Granted(q) == [mode |-> "include", expiresAt |-> request[q].until]

(* Mutants of Transition: the UPDATE without its state predicate; the      *)
(* UPDATE outside the transaction.                                         *)
TransitionUnguarded(s) ==
    /\ At(s, "judged") /\ Deciding(s) /\ ~RequestLocked(txn[s].on)
    /\ txn' = [txn EXCEPT ![s].step = IF txn[s].act = "approve" THEN "ready" ELSE "settled",
                           ![s].sets = Granted(txn[s].on)]
    /\ UNCHANGED <<clock, manager, enabled, exception, request, campaign, item, writes>>

TransitionAutocommitted(s) ==
    /\ At(s, "judged") /\ Deciding(s) /\ ~RequestLocked(txn[s].on)
    /\ request[txn[s].on].state = "pending"
    /\ request' = [request EXCEPT ![txn[s].on].state =
          IF txn[s].act = "approve" THEN "approved" ELSE "denied"]
    /\ txn' = [txn EXCEPT ![s].step = IF txn[s].act = "approve" THEN "ready" ELSE "settled",
                           ![s].sets = Granted(txn[s].on)]
    /\ UNCHANGED <<clock, manager, enabled, exception, campaign, item, writes>>

(* AccessRequestsRepository.transition: UPDATE ... WHERE state = 'pending'. *)
(* An approval goes on to upsertException.                                 *)
Transition(s) ==
    /\ At(s, "judged") /\ Deciding(s) /\ ~RequestLocked(txn[s].on)
    /\ request[txn[s].on].state = "pending"
    /\ txn' = [txn EXCEPT ![s].step = IF txn[s].act = "approve" THEN "ready" ELSE "settled",
                           ![s].sets = Granted(txn[s].on)]
    /\ UNCHANGED <<clock, manager, enabled, exception, request, campaign, item, writes>>

-----------------------------------------------------------------------------
(* open: lockForTransition, the enabled roles and their live includes, the *)
(* subjects' managers.  No reviewer but oneself is a 409.                  *)
OpenCampaign(s) ==
    /\ ~CampaignLocked /\ campaign = "draft"
    /\ Begin(s, "open", Nobody, Creator, "locked", NoException)

LiveIncludes(now) == {u \in People : exception[u].mode = "include" /\ Live(exception[u], now)}

Snapshot(s) ==
    /\ At(s, "locked")
    /\ txn' = [txn EXCEPT ![s].step = "found",
          ![s].found = IF enabled THEN {Formula} \cup LiveIncludes(txn[s].now) ELSE {}]
    /\ UNCHANGED <<clock, manager, enabled, exception, request, campaign, item, writes>>

(* resolveReviewer: the first of the chain who is somebody else.           *)
Reviewer(u) ==
    LET fit == {manager[u], Creator} \ {Nobody, u}
        preferred == IF ManagersFirst THEN manager[u] ELSE Creator
    IN IF preferred \in fit THEN preferred
       ELSE IF fit # {} THEN CHOOSE a \in fit : TRUE ELSE Nobody

AssignReviewers(s) ==
    /\ At(s, "found")
    /\ \A u \in txn[s].found \ {Formula} : Reviewer(u) # Nobody
    /\ txn' = [txn EXCEPT ![s].step = "settled",
          ![s].reviewer = [i \in Subjects |-> IF i = Formula THEN Creator ELSE Reviewer(i)]]
    /\ UNCHANGED <<clock, manager, enabled, exception, request, campaign, item, writes>>

Snapshotted(s) ==
    [i \in Subjects |->
        IF i \in txn[s].found
        THEN [decision |-> "pending", reviewer |-> txn[s].reviewer[i], decidedBy |-> Nobody]
        ELSE item[i]]

CloseCampaign(s) ==
    /\ ~CampaignLocked /\ campaign = "open"
    /\ Begin(s, "close", Nobody, Creator, "settled", NoException)

(* decide: the item, then the campaign, then the guarded UPDATE, and for a *)
(* revocation the exception as it is now: expireException.                 *)
MayReview(a, i) == a # i /\ (a = item[i].reviewer \/ a \in Admins)

Review(s, act, i, a) ==
    /\ item[i].decision # "absent"
    /\ MayReview(a, i)
    /\ Begin(s, act, i, a, "judged", NoException)

CheckCampaign(s) ==
    At(s, "judged") /\ Reviewing(s) /\ campaign = "open" /\ Go(s, "checked")

(* Mutant of DecideItem: the UPDATE without its decision predicate.        *)
DecideItemUnguarded(s) ==
    /\ At(s, "checked") /\ ~ItemLocked(txn[s].on)
    /\ Go(s, IF txn[s].act = "revoke" /\ txn[s].on # Formula THEN "decided" ELSE "settled")

DecideItem(s) ==
    /\ At(s, "checked") /\ ~ItemLocked(txn[s].on)
    /\ item[txn[s].on].decision = "pending"
    /\ Go(s, IF txn[s].act = "revoke" /\ txn[s].on # Formula THEN "decided" ELSE "settled")

ReadCurrent(s) ==
    /\ At(s, "decided")
    /\ LET current == exception[txn[s].on]
       IN IF Live(current, txn[s].now)
          THEN txn' = [txn EXCEPT ![s].step = "ready",
                                   ![s].sets = [current EXCEPT !.expiresAt = txn[s].now - 1]]
          ELSE txn' = [txn EXCEPT ![s].step = "settled"]
    /\ UNCHANGED <<clock, manager, enabled, exception, request, campaign, item, writes>>

-----------------------------------------------------------------------------
Outcome(act) ==
    CASE act = "approve" -> "approved"
      [] act = "deny" -> "denied"
      [] act = "cancel" -> "cancelled"
      [] act = "certify" -> "certified"
      [] act = "revoke" -> "revoked"
      [] act = "open" -> "open"
      [] act = "close" -> "closed"

Commit(s) ==
    /\ txn[s].step \in {"written", "settled"}
    /\ exception' = IF txn[s].step = "written"
                    THEN [exception EXCEPT ![Person(s)] = txn[s].sets] ELSE exception
    /\ request' = IF Deciding(s)
                  THEN [request EXCEPT ![txn[s].on].state = Outcome(txn[s].act),
                                        ![txn[s].on].decidedBy = txn[s].by]
                  ELSE request
    /\ campaign' = IF txn[s].act \in {"open", "close"} THEN Outcome(txn[s].act) ELSE campaign
    /\ item' = IF Reviewing(s)
               THEN [item EXCEPT ![txn[s].on].decision = Outcome(txn[s].act),
                                  ![txn[s].on].decidedBy = txn[s].by]
               ELSE IF txn[s].act = "open" THEN Snapshotted(s) ELSE item
    /\ txn' = [txn EXCEPT ![s] = Idle]
    /\ UNCHANGED <<clock, manager, enabled, writes>>

(* A guard answers 404 or 409, the reconcile refuses, the connection is    *)
(* lost: the transaction leaves nothing behind.                            *)
Abort(s) ==
    /\ txn[s].step # "idle"
    /\ txn' = [txn EXCEPT ![s] = Idle]
    /\ UNCHANGED <<clock, manager, enabled, exception, request, campaign, item, writes>>

(* UsersController.update moves a person to another manager.               *)
ChangeManager(u, m) ==
    /\ writes < MaxWrites
    /\ writes' = writes + 1
    /\ m # manager[u]
    /\ manager' = [manager EXCEPT ![u] = m]
    /\ UNCHANGED <<clock, enabled, exception, request, campaign, item, txn>>

SetEnabled ==
    /\ writes < MaxWrites
    /\ writes' = writes + 1
    /\ enabled' = ~enabled
    /\ UNCHANGED <<clock, manager, exception, request, campaign, item, txn>>

Tick ==
    /\ clock < MaxClock
    /\ clock' = clock + 1
    /\ UNCHANGED <<manager, enabled, exception, request, campaign, item, txn, writes>>

-----------------------------------------------------------------------------
GovernanceInit ==
    /\ clock = 0
    /\ manager \in [People -> {Nobody, Creator}]
    /\ enabled = TRUE
    /\ exception = [u \in People |-> NoException]
    /\ request = [q \in Requests |-> NoRequest]
    /\ campaign = "draft"
    /\ item = [i \in Subjects |-> NoItem]
    /\ txn = [s \in Sessions |-> Idle]
    /\ writes = 0

Expiries == {0, Never}

Send(s) ==
    \/ \E u \in People :
          \/ \E m \in {"include", "exclude"}, e \in Expiries :
                SetException(s, u, [mode |-> m, expiresAt |-> e])
          \/ RemoveException(s, u)
    \/ \E q \in Requests, a \in People, act \in {"approve", "deny", "cancel"} : Judge(s, act, q, a)
    \/ \E i \in Subjects, a \in People, act \in {"certify", "revoke"} : Review(s, act, i, a)
    \/ OpenCampaign(s) \/ CloseCampaign(s)

Continue(s) ==
    \/ WriteException(s) \/ Transition(s) \/ Snapshot(s) \/ AssignReviewers(s)
    \/ CheckCampaign(s) \/ DecideItem(s) \/ ReadCurrent(s)
    \/ Commit(s) \/ Abort(s)

GovernanceNext ==
    \/ \E s \in Sessions : Send(s) \/ Continue(s)
    \/ \E q \in Requests, u \in People, e \in Expiries : Ask(q, u, e)
    \/ \E u \in People, m \in People \cup {Nobody} : ChangeManager(u, m)
    \/ SetEnabled
    \/ Tick

GovernanceSpec == GovernanceInit /\ [][GovernanceNext]_gvars

-----------------------------------------------------------------------------
Holds(u) == enabled /\ IF Live(exception[u], clock) THEN exception[u].mode = "include" ELSE u \in Matching

(* "A decided or cancelled request never changes again" and "decisions are *)
(* final": of two racing deciders, reviewers or a requester who withdraws, *)
(* exactly one decides and nobody's decision is overwritten.               *)
DecisionsAreFinal ==
    [][/\ \A q \in Requests :
             request[q].state \notin {"absent", "pending"} => request'[q] = request[q]
       /\ \A i \in Subjects :
             item[i].decision \notin {"absent", "pending"} => item'[i] = item[i]]_gvars

(* Nobody approves or denies their own request and nobody reviews their    *)
(* own access, however managers change between the guards and the write.   *)
NobodyDecidesTheirOwn ==
    /\ \A q \in Requests :
          request[q].state \in {"approved", "denied"} => request[q].decidedBy # request[q].subject
    /\ \A i \in Subjects : item[i].decidedBy # i

(* An approval and the exception it grants are one transaction: a request  *)
(* is approved in the very step that writes its include, or stays pending. *)
ApprovalsCarryTheirException ==
    [][\A q \in Requests :
          request[q].state # "approved" /\ request'[q].state = "approved" =>
              exception'[request[q].subject] = Granted(q)]_gvars

(* docs/10-api-reference.md, approve: never a 200 for an approval that     *)
(* silently did nothing.  Whoever is approved holds the role.              *)
ApprovalsTakeEffect ==
    [][\A q \in Requests :
          request[q].state # "approved" /\ request'[q].state = "approved" =>
              Holds(request[q].subject)']_gvars

(* RecertCampaignsController.close: undecided items stay pending forever.  *)
UndecidedStayPending == [][campaign = "closed" => item' = item]_gvars

(* docs/07-admin-guide.md, What a decision actually does: revoking an      *)
(* include-exception expires it and the engine revokes what it granted.    *)
(* A revocation never gives the role to a person who did not hold it.      *)
RevocationsOnlyRevoke ==
    [][\A u \in People :
          item[u].decision = "pending" /\ item'[u].decision = "revoked" =>
              (Holds(u)' => Holds(u))]_gvars
=============================================================================
