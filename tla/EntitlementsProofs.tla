-------------------------- MODULE EntitlementsProofs --------------------------
(***************************************************************************)
(* What two unserialised reconciles and a sync worker can never do to a    *)
(* person's entitlements, for every set of roles, formulas, targets and    *)
(* sessions, which does not depend on what the formulas answer; and that   *)
(* the evaluator's three loops answer what the roles mean, for every list  *)
(* of roles, exceptions and conditions.                                    *)
(***************************************************************************)
EXTENDS MCRoles, FiniteSetTheorems, WellFoundedInduction, TLAPS

(* The rows and the queue are what the schema says.                        *)
Rows ==
    /\ held \in [Entitlements -> {"none", "manual", "business_role"}]
    /\ owed \in [Accounts -> Nat]
    /\ sync \in [Accounts -> {"idle", "active", "enable", "disable"}]
    /\ remote \subseteq Accounts

(* A worker has an event in hand from its first read to its call.          *)
InHand == \A t \in Accounts : sync[t] # "idle" => owed[t] > 0

(* A worker about to enable an account revoked since it read the row has   *)
(* another event behind the one in its hand.                               *)
Overtaken ==
    \A t \in Accounts : sync[t] = "enable" /\ ~EntitledTo(t) => owed[t] > 1

Inv == Rows /\ InHand /\ Overtaken /\ RevokedAccountIsOwed

-----------------------------------------------------------------------------
(* Begin, Read and End leave the rows, the queue and the target alone; the *)
(* steps of a session that are only that change nothing the invariant is   *)
(* about.                                                                  *)
LEMMA QuietSteps ==
    ASSUME NEW s \in Sessions,
           \/ \E j \in Jobs : BeginUpdate(s, j)
           \/ \E r \in Roles, x \in Exception : BeginException(s, r, x)
           \/ \E r \in Roles, d \in Definitions : Publish(s, r, d)
           \/ \E r \in Roles : SetEnabled(s, r)
           \/ BeginSweep(s) \/ ReadUser(s) \/ ReadEnabledRoles(s)
           \/ \E r \in Roles : ReadConditions(s, r) \/ ReadGrants(s, r) \/ ReadExceptions(s, r)
           \/ ReadGroupRows(s) \/ ReadAccountRows(s) \/ Refuse(s) \/ Abort(s)
    PROVE  UNCHANGED <<held, owed, sync, remote>>
<1>1. CASE \/ \E j \in Jobs : BeginUpdate(s, j)
           \/ \E r \in Roles, x \in Exception : BeginException(s, r, x)
           \/ \E r \in Roles, d \in Definitions : Publish(s, r, d)
           \/ \E r \in Roles : SetEnabled(s, r)
           \/ BeginSweep(s)
  BY <1>1 DEF BeginUpdate, BeginException, Publish, SetEnabled, BeginSweep, database, delivery
<1>2. CASE \/ ReadUser(s) \/ ReadEnabledRoles(s)
           \/ \E r \in Roles : ReadConditions(s, r) \/ ReadGrants(s, r) \/ ReadExceptions(s, r)
           \/ ReadGroupRows(s) \/ ReadAccountRows(s)
  BY <1>2 DEF ReadUser, ReadEnabledRoles, ReadConditions, ReadGrants, ReadExceptions, ReadPart,
              ReadGroupRows, ReadAccountRows, ReadRows, Read, database, delivery
<1>3. CASE Refuse(s) \/ Abort(s)
  BY <1>3 DEF Refuse, Abort, database, delivery
<1> QED BY <1>1, <1>2, <1>3

(* What a commit does to one entitlement row: nothing to a manual one, and *)
(* it deletes an account's row only with an event for the account.         *)
LEMMA CommitRows ==
    ASSUME NEW s \in Sessions, Commit(s), Inv
    PROVE  /\ Rows'
           /\ \A e \in Entitlements : held[e] = "manual" => held'[e] = "manual"
           /\ \A t \in Accounts : owed'[t] >= owed[t]
           /\ \A t \in Accounts : EntitledTo(t) /\ ~EntitledTo(t)' => owed'[t] > owed[t]
           /\ UNCHANGED <<sync, remote>>
<1> USE DEF Entitlements
<1>1. /\ held' = Reconciled(s)
      /\ owed' = [t \in Accounts |-> owed[t]
                     + (IF t \in RevokeEvents(s) THEN 1 ELSE 0)
                     + (IF t \in RecordedEvents(s) THEN 1 ELSE 0)]
      /\ UNCHANGED <<sync, remote>>
  BY DEF Commit
<1>2. Rows'
  <2>1. held' \in [Entitlements -> {"none", "manual", "business_role"}]
    BY <1>1 DEF Reconciled, Inv, Rows
  <2>2. owed' \in [Accounts -> Nat]
    BY <1>1 DEF Inv, Rows
  <2> QED BY <1>1, <2>1, <2>2 DEF Inv, Rows
<1>3. \A e \in Entitlements : held[e] = "manual" => held'[e] = "manual"
  BY <1>1 DEF Reconciled
<1>4. \A t \in Accounts : owed'[t] >= owed[t]
  BY <1>1 DEF Inv, Rows
<1>5. ASSUME NEW t \in Accounts, EntitledTo(t), ~EntitledTo(t)'
      PROVE  owed'[t] > owed[t]
  <2>1. held[t] # "none" /\ held'[t] = "none"
    BY <1>5 DEF EntitledTo
  <2>2. t \in ToRemove(s)
    BY <1>1, <2>1 DEF Reconciled
  <2>3. t \in RevokeEvents(s)
    BY <2>2 DEF RevokeEvents
  <2> QED BY <1>1, <2>3 DEF Inv, Rows
<1> QED BY <1>1, <1>2, <1>3, <1>4, <1>5

-----------------------------------------------------------------------------
LEMMA InitInv == EntitlementsInit => Inv
<1> SUFFICES ASSUME EntitlementsInit PROVE Inv
  OBVIOUS
<1>1. Rows
  BY DEF EntitlementsInit, Rows
<1>2. InHand /\ Overtaken
  BY DEF EntitlementsInit, InHand, Overtaken
<1>3. RevokedAccountIsOwed
  BY DEF EntitlementsInit, RevokedAccountIsOwed
<1> QED BY <1>1, <1>2, <1>3 DEF Inv

(* Writers only ever add events, and one for each account they revoke.     *)
LEMMA MoreOwed ==
    ASSUME Inv, Rows',
           \A t \in Accounts : owed'[t] >= owed[t],
           \A t \in Accounts : EntitledTo(t) /\ ~EntitledTo(t)' => owed'[t] > owed[t],
           UNCHANGED <<sync, remote>>
    PROVE  Inv'
<1> USE DEF Inv, Rows
<1>1. InHand'
  BY DEF InHand
<1>2. ASSUME NEW t \in Accounts, sync'[t] = "enable", ~EntitledTo(t)'
      PROVE  owed'[t] > 1
  BY <1>2 DEF InHand, Overtaken
<1>3. ASSUME NEW t \in remote', ~EntitledTo(t)'
      PROVE  owed'[t] > 0
  BY <1>3 DEF RevokedAccountIsOwed
<1> QED BY <1>1, <1>2, <1>3 DEF Overtaken, RevokedAccountIsOwed

(* A row made or removed by hand is a group's.                             *)
LEMMA ByHand ==
    ASSUME NEW g \in Groups, HandAdd(g) \/ HandRemove(g), Inv
    PROVE  Inv'
<1>1. /\ \A e \in Entitlements : e # g => held'[e] = held[e]
      /\ held' \in [Entitlements -> {"none", "manual", "business_role"}]
      /\ UNCHANGED <<owed, sync, remote>>
  BY DEF HandAdd, HandRemove, Inv, Rows, delivery, Entitlements
<1>2. \A t \in Accounts : EntitledTo(t)' <=> EntitledTo(t)
  BY <1>1, EntitlementsAssumption DEF EntitledTo, Entitlements
<1> QED BY <1>1, <1>2, MoreOwed DEF Inv, Rows

LEMMA StatusChange ==
    ASSUME NEW st \in Statuses, ChangeStatus(st), Inv
    PROVE  Inv'
<1>1. /\ owed' = [t \in Accounts |-> owed[t] + IF t \in FanOut THEN 1 ELSE 0]
      /\ UNCHANGED <<held, sync, remote>>
  BY DEF ChangeStatus, Enqueue
<1>2. \A t \in Accounts : EntitledTo(t)' <=> EntitledTo(t)
  BY <1>1 DEF EntitledTo
<1> QED BY <1>1, <1>2, MoreOwed DEF Inv, Rows

(* The worker: it enables only who was entitled when it looked, and a      *)
(* revocation after that look has queued an event behind it.               *)
LEMMA Worker ==
    ASSUME NEW t \in Accounts, Deliver(t), Inv
    PROVE  Inv'
<1> USE DEF Inv, Rows
<1>0. UNCHANGED held /\ \A a \in Accounts : EntitledTo(a)' <=> EntitledTo(a)
  BY DEF Deliver, SyncReadUser, SyncReadEntitlement, SyncApply, SyncFails, database, EntitledTo
<1>1. CASE SyncReadUser(t)
  BY <1>0, <1>1 DEF SyncReadUser, InHand, Overtaken, RevokedAccountIsOwed
<1>2. CASE SyncReadEntitlement(t)
  BY <1>0, <1>2 DEF SyncReadEntitlement, InHand, Overtaken, RevokedAccountIsOwed
<1>3. CASE SyncApply(t)
  <2>1. /\ sync[t] \in {"enable", "disable"} /\ owed[t] > 0
        /\ remote' = Applied(t)
        /\ owed' = [owed EXCEPT ![t] = @ - 1]
        /\ sync' = [sync EXCEPT ![t] = "idle"]
    BY <1>3 DEF SyncApply, InHand
  <2>2. Rows' /\ InHand' /\ Overtaken'
    BY <1>0, <2>1 DEF InHand, Overtaken, Applied
  <2>3. ASSUME NEW a \in remote', ~EntitledTo(a)'
        PROVE  owed'[a] > 0
    BY <1>0, <2>1, <2>3 DEF Applied, Overtaken, RevokedAccountIsOwed
  <2> QED BY <2>2, <2>3 DEF RevokedAccountIsOwed
<1>4. CASE SyncFails(t)
  <2>1. /\ sync[t] \in {"enable", "disable"} /\ owed[t] > 0
        /\ remote' = Applied(t)
        /\ sync' = [sync EXCEPT ![t] = "idle"]
        /\ UNCHANGED owed
    BY <1>4 DEF SyncFails, InHand
  <2>2. Rows' /\ InHand' /\ Overtaken'
    BY <1>0, <2>1 DEF InHand, Overtaken, Applied
  <2>3. ASSUME NEW a \in remote', ~EntitledTo(a)'
        PROVE  owed'[a] > 0
    BY <1>0, <2>1, <2>3 DEF Applied, Overtaken, RevokedAccountIsOwed
  <2> QED BY <2>2, <2>3 DEF RevokedAccountIsOwed
<1> QED BY <1>1, <1>2, <1>3, <1>4 DEF Deliver

LEMMA Quiet ==
    ASSUME UNCHANGED <<held, owed, sync, remote>>, Inv
    PROVE  Inv'
BY MoreOwed DEF Inv, Rows, EntitledTo

LEMMA StepInv == Inv /\ [EntitlementsNext]_evars => Inv'
<1> SUFFICES ASSUME Inv, [EntitlementsNext]_evars PROVE Inv'
  OBVIOUS
<1>1. ASSUME NEW s \in Sessions, Request(s) \/ BeginSweep(s) \/ Reconcile(s) \/ Abort(s)
      PROVE  Inv'
  <2>1. CASE Commit(s)
    BY <2>1, CommitRows, MoreOwed
  <2>2. CASE ~Commit(s)
    BY <1>1, <2>2, QuietSteps, Quiet DEF Request, Reconcile
  <2> QED BY <2>1, <2>2
<1>2. ASSUME NEW g \in Groups, HandAdd(g) \/ HandRemove(g)
      PROVE  Inv'
  BY <1>2, ByHand
<1>3. ASSUME NEW st \in Statuses, ChangeStatus(st)
      PROVE  Inv'
  BY <1>3, StatusChange
<1>4. ASSUME NEW t \in Accounts, Deliver(t)
      PROVE  Inv'
  BY <1>4, Worker
<1>5. CASE Tick
  BY <1>5, Quiet DEF Tick, database, delivery
<1>6. CASE UNCHANGED evars
  BY <1>6, Quiet DEF evars, database, delivery
<1> QED BY <1>1, <1>2, <1>3, <1>4, <1>5, <1>6 DEF EntitlementsNext

(* A revoked account is never orphaned, for any roles, targets, sessions   *)
(* and bounds: reconcileUser inserts the event itself, past the fan-out    *)
(* that would not find the entitlement any more.                           *)
THEOREM RevocationsReachTheTarget == EntitlementsSpec => []RevokedAccountIsOwed
<1>1. Inv => RevokedAccountIsOwed
  BY DEF Inv
<1> QED BY InitInv, StepInv, <1>1, PTL DEF EntitlementsSpec

(* No step but a human's removal takes a manual membership away.           *)
LEMMA StepManual ==
    ASSUME Inv, [EntitlementsNext]_evars, NEW g \in Groups, held[g] = "manual"
    PROVE  held'[g] = "manual" \/ HandRemove(g)
<1>1. ASSUME NEW s \in Sessions, Request(s) \/ BeginSweep(s) \/ Reconcile(s) \/ Abort(s)
      PROVE  held'[g] = "manual"
  <2>1. CASE Commit(s)
    BY <2>1, CommitRows DEF Entitlements
  <2>2. CASE ~Commit(s)
    BY <1>1, <2>2, QuietSteps DEF Request, Reconcile
  <2> QED BY <2>1, <2>2
<1>2. ASSUME NEW h \in Groups, HandAdd(h)
      PROVE  held'[g] = "manual"
  BY <1>2 DEF HandAdd, Inv, Rows, Entitlements
<1>3. ASSUME NEW h \in Groups, HandRemove(h), h # g
      PROVE  held'[g] = "manual"
  BY <1>3 DEF HandRemove, Inv, Rows, Entitlements
<1>4. ASSUME NEW st \in Statuses, ChangeStatus(st)
      PROVE  held'[g] = "manual"
  BY <1>4 DEF ChangeStatus
<1>5. ASSUME NEW t \in Accounts, Deliver(t)
      PROVE  held'[g] = "manual"
  BY <1>5 DEF Deliver, SyncReadUser, SyncReadEntitlement, SyncApply, SyncFails, database
<1>6. CASE Tick \/ UNCHANGED evars
  BY <1>6 DEF Tick, evars, database
<1> QED BY <1>1, <1>2, <1>3, <1>4, <1>5, <1>6 DEF EntitlementsNext

(* The role engine never takes away a membership a human made, whatever    *)
(* reconciles, hand edits and aborts interleave between its reads and its  *)
(* DELETE.                                                                 *)
THEOREM HumansOutrankFormulas == EntitlementsSpec => ManualRowsSurvive
<1>1. Inv /\ [EntitlementsNext]_evars =>
        [\A g \in Groups : held[g] = "manual" => held'[g] = "manual" \/ HandRemove(g)]_evars
  BY StepManual
<1> QED BY InitInv, StepInv, <1>1, PTL DEF EntitlementsSpec, ManualRowsSurvive

-----------------------------------------------------------------------------
(* The loops of the evaluator run over lists of any length, so what they   *)
(* answer is shown by induction.  The library's induction theorems are     *)
(* about an operator; here a property of numbers is the set of those that  *)
(* have it.  The least member of such a set: inclusion among finite sets   *)
(* is well founded, and the intervals from 0 are finite.                   *)
LEMMA Least ==
    ASSUME NEW S \in SUBSET Nat, S # {}
    PROVE  \E m \in S : \A k \in S : m <= k
<1> DEFINE T == {0..n : n \in S}
<1>1. IsWellFoundedOn(StrictSubsetOrdering(Nat), FiniteSubsetsOf(Nat))
  BY FS_StrictSubsetOrderingWellFounded
<1>2. T \subseteq FiniteSubsetsOf(Nat)
  <2>1. \A n \in S : IsFiniteSet(0..n) /\ 0..n \subseteq Nat
    BY FS_Interval
  <2> QED BY <2>1 DEF FiniteSubsetsOf
<1>3. T # {}
  OBVIOUS
<1>4. PICK x \in T : \A y \in T : <<y, x>> \notin StrictSubsetOrdering(Nat)
  BY <1>1, <1>2, <1>3, WFMin
<1>5. PICK m \in S : x = 0..m
  BY <1>4
<1>6. ASSUME NEW k \in S, k < m PROVE FALSE
  <2>1. <<0..k, 0..m>> \notin StrictSubsetOrdering(Nat)
    BY <1>4, <1>5
  <2>2. 0..k \subseteq 0..m /\ m \in 0..m /\ m \notin 0..k /\ 0..m \subseteq Nat
    BY <1>6
  <2> QED BY <2>1, <2>2 DEF StrictSubsetOrdering
<1> QED BY <1>6

(* A set with 0 in it and with every successor has every number.           *)
LEMMA Induction ==
    ASSUME NEW S, 0 \in S, \A n \in Nat : n \in S => n + 1 \in S
    PROVE  Nat \subseteq S
<1> SUFFICES ASSUME Nat \ S # {} PROVE FALSE
  OBVIOUS
<1>1. PICK m \in Nat \ S : \A k \in Nat \ S : m <= k
  BY Least
<1>2. m # 0 /\ m - 1 \in Nat /\ (m - 1) + 1 = m
  BY <1>1
<1>3. m - 1 \in S
  BY <1>1, <1>2
<1> QED BY <1>1, <1>2, <1>3

(* A loop that runs N times over values of A has a value after every step. *)
LEMMA Recursion ==
    ASSUME NEW A, NEW first \in A, NEW N \in Nat, NEW step \in [1..N -> [A -> A]]
    PROVE  \E g \in [0..N -> A] :
              g[0] = first /\ \A n \in 1..N : g[n] = step[n][g[n - 1]]
<1> DEFINE Fits(k, g) == g[0] = first /\ \A n \in 1..k : g[n] = step[n][g[n - 1]]
           S == {k \in Nat : k <= N => \E g \in [0..k -> A] : Fits(k, g)}
<1>1. 0 \in S
  <2>1. [i \in 0..0 |-> first] \in [0..0 -> A] /\ Fits(0, [i \in 0..0 |-> first])
    OBVIOUS
  <2> QED BY <2>1
<1>2. ASSUME NEW k \in Nat, k \in S PROVE k + 1 \in S
  <2> SUFFICES ASSUME k + 1 <= N PROVE \E g \in [0..(k + 1) -> A] : Fits(k + 1, g)
    OBVIOUS
  <2>1. PICK g \in [0..k -> A] : Fits(k, g)
    BY <1>2
  <2> DEFINE h == [i \in 0..(k + 1) |-> IF i = k + 1 THEN step[k + 1][g[k]] ELSE g[i]]
  <2>2. k + 1 \in 1..N /\ g[k] \in A /\ step[k + 1][g[k]] \in A
    OBVIOUS
  <2>3. h \in [0..(k + 1) -> A]
    BY <2>2
  <2>4. h[0] = first
    BY <2>1
  <2>5. ASSUME NEW n \in 1..(k + 1) PROVE h[n] = step[n][h[n - 1]]
    <3>1. CASE n = k + 1
      BY <3>1
    <3>2. CASE n # k + 1
      <4>1. n \in 1..k /\ n - 1 \in 0..k /\ n - 1 # k + 1
        BY <3>2
      <4>2. h[n] = g[n] /\ h[n - 1] = g[n - 1]
        BY <4>1
      <4> QED BY <2>1, <4>1, <4>2
    <3> QED BY <3>1, <3>2
  <2> HIDE DEF h
  <2> QED BY <2>3, <2>4, <2>5
<1>3. N \in S
  <2> HIDE DEF S
  <2> QED BY <1>1, <1>2, Induction
<1> QED BY <1>3

-----------------------------------------------------------------------------
(* One condition is met, is not, or is not understood.                     *)
LEMMA MatchGivesVerdict == \A c, u : MatchCondition(c, u) \in Verdicts
<1> SUFFICES ASSUME NEW c, NEW u PROVE MatchCondition(c, u) \in Verdicts
  OBVIOUS
<1>1. \A b : Known(b) \in Verdicts
  BY DEF Known, Verdicts
<1>2. "unknown" \in Verdicts
  BY DEF Verdicts
<1>3. \A o, v, w : OperatorMatch(o, v, w, u) \in Verdicts
  BY <1>1, <1>2 DEF OperatorMatch
<1> QED BY <1>2, <1>3 DEF MatchCondition

(* The loop of matchesConditions has an answer.                            *)
LEMMA VerdictsRun ==
    ASSUME NEW N \in Nat, NEW step \in [1..N -> [Verdicts -> Verdicts]], NEW first \in Verdicts
    PROVE  \E g \in [0..N -> Verdicts] : g[0] = first /\ \A n \in 1..N : g[n] = step[n][g[n - 1]]
BY Recursion

(* matchesConditions: no condition at all matches nobody; a condition that *)
(* is not understood is never overruled by one that is not met, wherever   *)
(* in the list either of them is.                                          *)
LEMMA WhatAFormulaAnswers ==
    ASSUME NEW C, NEW conditions \in Seq(C), NEW u
    PROVE  MatchesConditions(conditions, u) =
              IF conditions = <<>> THEN "no"
              ELSE IF \E c \in ToSet(conditions) : MatchCondition(c, u) = "unknown"
              THEN "unknown"
              ELSE IF \A c \in ToSet(conditions) : MatchCondition(c, u) = "yes"
              THEN "yes" ELSE "no"
<1>1. PICK N \in Nat : N = Len(conditions) /\ DOMAIN conditions = 1..N
  OBVIOUS
<1> DEFINE Match(n) == MatchCondition(conditions[n], u)
           Loop(f) == [n \in 0..Len(conditions) |->
                          IF n = 0 THEN "yes"
                          ELSE LET m == MatchCondition(conditions[n], u)
                               IN IF f[n - 1] = "unknown" \/ m = "yes" THEN f[n - 1] ELSE m]
           verdict == CHOOSE f : f = Loop(f)
           step == [n \in 1..N |-> [v \in Verdicts |->
                       IF v = "unknown" \/ Match(n) = "yes" THEN v ELSE Match(n)]]
           Meant(n) == IF \E i \in 1..n : Match(i) = "unknown" THEN "unknown"
                       ELSE IF \A i \in 1..n : Match(i) = "yes" THEN "yes" ELSE "no"
<1>2. MatchesConditions(conditions, u) = IF conditions = <<>> THEN "no" ELSE verdict[N]
  BY <1>1 DEF MatchesConditions
<1>3. \A n : Match(n) \in Verdicts
  BY MatchGivesVerdict
<1>4. step \in [1..N -> [Verdicts -> Verdicts]]
  BY <1>3
<1>5. PICK g \in [0..N -> Verdicts] :
         g[0] = "yes" /\ \A n \in 1..N : g[n] = step[n][g[n - 1]]
  <2>1. "yes" \in Verdicts
    BY DEF Verdicts
  <2> HIDE DEF step, verdict
  <2> QED BY <1>4, <2>1, VerdictsRun
<1>6. verdict = Loop(verdict)
  <2>1. g = Loop(g)
    <3>1. \A n \in 1..N : n - 1 \in 0..N /\ g[n - 1] \in Verdicts
      BY <1>1
    <3>2. \A n \in 1..N :
             g[n] = IF g[n - 1] = "unknown" \/ Match(n) = "yes" THEN g[n - 1] ELSE Match(n)
      BY <1>5, <3>1
    <3>3. \A n \in 0..N : n = 0 \/ n \in 1..N
      BY <1>1
    <3> QED BY <1>1, <1>5, <3>2, <3>3
  <2> HIDE DEF Loop
  <2> QED BY <2>1
<1> HIDE DEF verdict
<1>7. verdict[N] = Meant(N)
  <2> DEFINE S == {n \in Nat : n <= N => verdict[n] = Meant(n)}
  <2>1. 0 \in S
    BY <1>1, <1>6
  <2>2. ASSUME NEW n \in Nat, n \in S PROVE n + 1 \in S
    <3> SUFFICES ASSUME n + 1 <= N PROVE verdict[n + 1] = Meant(n + 1)
      OBVIOUS
    <3>1. verdict[n] = Meant(n) /\ n + 1 \in 0..N /\ (n + 1) - 1 = n
      BY <1>1, <2>2
    <3>2. verdict[n + 1] = IF verdict[n] = "unknown" \/ Match(n + 1) = "yes"
                           THEN verdict[n] ELSE Match(n + 1)
      BY <1>1, <1>6, <3>1
    <3>3. \A i : i \in 1..(n + 1) <=> i \in 1..n \/ i = n + 1
      OBVIOUS
    <3> QED BY <1>3, <3>1, <3>2, <3>3 DEF Verdicts
  <2> HIDE DEF S
  <2>3. N \in S
    BY <1>1, <2>1, <2>2, Induction
  <2> QED BY <2>3 DEF S
<1>8. ToSet(conditions) = {conditions[i] : i \in 1..N}
  BY <1>1 DEF ToSet
<1> QED BY <1>2, <1>7, <1>8

(* What the loop over a role's exceptions has come to.                     *)
Modes == {"neither", "include", "exclude"}

(* The loop over the exceptions has an answer.                             *)
LEMMA ModesRun ==
    ASSUME NEW N \in Nat, NEW step \in [1..N -> [Modes -> Modes]], NEW first \in Modes
    PROVE  \E g \in [0..N -> Modes] : g[0] = first /\ \A n \in 1..N : g[n] = step[n][g[n - 1]]
BY Recursion

(* The exceptions of the person that have not expired decide: one exclude  *)
(* is enough, in whatever order they come.                                 *)
LEMMA WhatTheExceptionsSay ==
    ASSUME NEW X, NEW role, NEW u, NEW t, role.exceptions \in Seq(X),
           \A x \in X : x.mode \in {"include", "exclude"}
    PROVE  Exceptional(role, u, t) =
              IF Excluded(role, u, t) THEN "exclude"
              ELSE IF Decided(role, u, t) THEN "include" ELSE "neither"
<1> DEFINE list == role.exceptions
<1>1. PICK N \in Nat : N = Len(list) /\ DOMAIN list = 1..N /\ \A i \in 1..N : list[i] \in X
  OBVIOUS
<1> DEFINE Passed(n) == list[n].userId # u.id \/ ~IsLive(list[n], t)
           Loop(f) == [n \in 0..Len(role.exceptions) |->
                          IF n = 0 THEN "neither"
                          ELSE LET x == role.exceptions[n]
                               IN IF f[n - 1] = "exclude" \/ x.userId # u.id \/ ~IsLive(x, t)
                                  THEN f[n - 1] ELSE x.mode]
           mode == CHOOSE f : f = Loop(f)
           step == [n \in 1..N |-> [m \in Modes |->
                       IF m = "exclude" \/ Passed(n) THEN m ELSE list[n].mode]]
           Meant(n) == IF \E i \in 1..n : ~Passed(i) /\ list[i].mode = "exclude" THEN "exclude"
                       ELSE IF \E i \in 1..n : ~Passed(i) THEN "include" ELSE "neither"
<1>2. Exceptional(role, u, t) = mode[N]
  BY <1>1 DEF Exceptional
<1>3. \A n \in 1..N : list[n].mode \in {"include", "exclude"}
  BY <1>1
<1>4. step \in [1..N -> [Modes -> Modes]]
  BY <1>3 DEF Modes
<1>5. PICK g \in [0..N -> Modes] :
         g[0] = "neither" /\ \A n \in 1..N : g[n] = step[n][g[n - 1]]
  <2>1. "neither" \in Modes
    BY DEF Modes
  <2> HIDE DEF step, mode
  <2> QED BY <1>4, <2>1, ModesRun
<1> HIDE DEF Passed
<1>6. mode = Loop(mode)
  <2>1. g = Loop(g)
    <3>1. \A n \in 1..N : n - 1 \in 0..N /\ g[n - 1] \in Modes
      BY <1>1
    <3>2. \A n \in 1..N :
             g[n] = IF g[n - 1] = "exclude" \/ Passed(n) THEN g[n - 1] ELSE list[n].mode
      BY <1>5, <3>1
    <3>3. \A n \in 0..N : n = 0 \/ n \in 1..N
      BY <1>1
    <3>4. \A n \in 0..N :
             g[n] = IF n = 0 THEN "neither"
                    ELSE IF g[n - 1] = "exclude" \/ Passed(n) THEN g[n - 1] ELSE list[n].mode
      BY <1>5, <3>2, <3>3
    <3> HIDE DEF step
    <3> QED BY <1>1, <3>4 DEF Passed
  <2> HIDE DEF Loop
  <2> QED BY <2>1
<1> HIDE DEF mode
<1>7. mode[N] = Meant(N)
  <2> DEFINE S == {n \in Nat : n <= N => mode[n] = Meant(n)}
  <2>1. 0 \in S
    BY <1>1, <1>6
  <2>2. ASSUME NEW n \in Nat, n \in S PROVE n + 1 \in S
    <3> SUFFICES ASSUME n + 1 <= N PROVE mode[n + 1] = Meant(n + 1)
      OBVIOUS
    <3>1. mode[n] = Meant(n) /\ n + 1 \in 0..N /\ n + 1 \in 1..N /\ (n + 1) - 1 = n
      BY <1>1, <2>2
    <3>2. mode[n + 1] = IF mode[n] = "exclude" \/ Passed(n + 1) THEN mode[n] ELSE list[n + 1].mode
      BY <1>1, <1>6, <3>1 DEF Passed
    <3>3. \A i : i \in 1..(n + 1) <=> i \in 1..n \/ i = n + 1
      OBVIOUS
    <3>4. list[n + 1].mode \in {"include", "exclude"}
      BY <1>3, <3>1
    <3> HIDE DEF list
    <3> QED BY <3>1, <3>2, <3>3, <3>4
  <2> HIDE DEF S
  <2>3. N \in S
    BY <1>1, <2>1, <2>2, Induction
  <2> QED BY <2>3 DEF S
<1>8. ToSet(list) = {list[i] : i \in 1..N}
  BY <1>1 DEF ToSet
<1>9. Excluded(role, u, t) <=> \E i \in 1..N : ~Passed(i) /\ list[i].mode = "exclude"
  BY <1>8 DEF Excluded, Live, IsLive, Passed
<1>10. Decided(role, u, t) <=> \E i \in 1..N : ~Passed(i)
  BY <1>8 DEF Decided, Live, IsLive, Passed
<1> QED BY <1>2, <1>7, <1>9, <1>10

(* A role as loadDefinition returns it: a list of conditions and a list of *)
(* exceptions, each of which includes or excludes.                         *)
IsRole(role) ==
    /\ \E C : role.conditions \in Seq(C)
    /\ \E X : role.exceptions \in Seq(X) /\ \A x \in X : x.mode \in {"include", "exclude"}

(* explainRoleHold: the formula is asked only where no exception decides.  *)
LEMMA WhoHoldsARole ==
    ASSUME NEW role, IsRole(role), NEW u, NEW t
    PROVE  /\ HoldsRole(role, u, t) = "unknown"
                 <=> ~Decided(role, u, t) /\ NotUnderstood(role, u)
           /\ HoldsRole(role, u, t) = "yes"
                 <=> /\ Entitled(role, u, t)
                     /\ Decided(role, u, t) \/ ~NotUnderstood(role, u)
<1>1. Exceptional(role, u, t) =
         IF Excluded(role, u, t) THEN "exclude"
         ELSE IF Decided(role, u, t) THEN "include" ELSE "neither"
  BY WhatTheExceptionsSay DEF IsRole
<1>2. MatchesConditions(role.conditions, u) =
         IF role.conditions = <<>> THEN "no"
         ELSE IF NotUnderstood(role, u) THEN "unknown"
         ELSE IF \A c \in ToSet(role.conditions) : MatchCondition(c, u) = "yes"
         THEN "yes" ELSE "no"
  BY WhatAFormulaAnswers DEF NotUnderstood, IsRole
<1>3. Excluded(role, u, t) => Decided(role, u, t)
  BY DEF Excluded, Decided
<1>4. role.conditions = <<>> => ~NotUnderstood(role, u)
  BY DEF NotUnderstood, ToSet
<1> QED BY <1>1, <1>2, <1>3, <1>4 DEF HoldsRole, Entitled, Satisfied

(* An answer that grants some of the grants in G, or none at all.          *)
Answers(G) == [evaluable : BOOLEAN, grants : SUBSET G]

(* evaluateRoles: a single role that is not understood refuses them all,   *)
(* and otherwise the grants of the roles that are held are united.         *)
LEMMA WhatTheRolesGive ==
    ASSUME NEW R, NEW rs \in Seq(R), NEW u, NEW t
    PROVE  EvaluateRoles(u, rs, t) =
              IF \E r \in ToSet(rs) : HoldsRole(r, u, t) = "unknown" THEN Refused
              ELSE [evaluable |-> TRUE,
                    grants |-> UNION {r.grants : r \in {q \in ToSet(rs) :
                                                        HoldsRole(q, u, t) = "yes"}}]
<1>1. PICK N \in Nat : N = Len(rs) /\ DOMAIN rs = 1..N /\ \A i \in 1..N : rs[i] \in R
  OBVIOUS
<1> DEFINE Held(n) == HoldsRole(rs[n], u, t)
           G == UNION {r.grants : r \in R}
           None == [evaluable |-> TRUE, grants |-> {}]
           Loop(f) == [n \in 0..Len(rs) |->
                          IF n = 0 THEN [evaluable |-> TRUE, grants |-> {}]
                          ELSE LET holds == HoldsRole(rs[n], u, t)
                                   before == f[n - 1]
                               IN IF ~before.evaluable \/ holds = "unknown" THEN Refused
                                  ELSE IF holds = "yes"
                                  THEN [evaluable |-> TRUE, grants |-> before.grants \cup rs[n].grants]
                                  ELSE before]
           answer == CHOOSE f : f = Loop(f)
           After(b, n) == IF ~b.evaluable \/ Held(n) = "unknown" THEN Refused
                          ELSE IF Held(n) = "yes"
                          THEN [evaluable |-> TRUE, grants |-> b.grants \cup rs[n].grants] ELSE b
           step == [n \in 1..N |-> [b \in Answers(G) |-> After(b, n)]]
           Given(n) == UNION {rs[i].grants : i \in {k \in 1..n : Held(k) = "yes"}}
           Meant(n) == IF \E i \in 1..n : Held(i) = "unknown" THEN Refused
                       ELSE [evaluable |-> TRUE, grants |-> Given(n)]
<1>2. EvaluateRoles(u, rs, t) = answer[N]
  BY <1>1 DEF EvaluateRoles
<1> HIDE DEF Held
<1>3. step \in [1..N -> [Answers(G) -> Answers(G)]]
  <2>1. ASSUME NEW n \in 1..N, NEW b \in Answers(G) PROVE After(b, n) \in Answers(G)
    <3>1. rs[n].grants \subseteq G
      BY <1>1
    <3>2. Refused \in Answers(G)
      BY DEF Refused, Answers
    <3>3. [evaluable |-> TRUE, grants |-> b.grants \cup rs[n].grants] \in Answers(G)
      BY <3>1 DEF Answers
    <3> QED BY <3>2, <3>3
  <2> HIDE DEF After
  <2> QED BY <2>1
<1>4. None \in Answers(G)
  BY DEF Answers
<1>5. PICK g \in [0..N -> Answers(G)] :
         g[0] = None /\ \A n \in 1..N : g[n] = step[n][g[n - 1]]
  <2> HIDE DEF step, answer, None, G, After
  <2>1. PICK A, s, f : A = Answers(G) /\ s = step /\ f = None
    OBVIOUS
  <2>2. s \in [1..N -> [A -> A]] /\ f \in A
    BY <1>3, <1>4, <2>1
  <2>3. \E g \in [0..N -> A] : g[0] = f /\ \A n \in 1..N : g[n] = s[n][g[n - 1]]
    BY ONLY N \in Nat, <2>2, Recursion
  <2> QED BY <2>1, <2>3
<1>6. answer = Loop(answer)
  <2>1. g = Loop(g)
    <3>1. \A n \in 1..N : n - 1 \in 0..N /\ g[n - 1] \in Answers(G)
      BY <1>1
    <3> HIDE DEF After, None, G
    <3>2. \A n \in 1..N : g[n] = After(g[n - 1], n)
      BY <1>5, <3>1
    <3>3. \A n \in 0..N : n = 0 \/ n \in 1..N
      BY <1>1
    <3>4. \A n \in 0..N : g[n] = IF n = 0 THEN None ELSE After(g[n - 1], n)
      BY <1>5, <3>2, <3>3
    <3>5. g = [n \in 0..N |-> IF n = 0 THEN None ELSE After(g[n - 1], n)]
      BY <3>4
    <3>6. [n \in 0..N |-> IF n = 0 THEN None ELSE After(g[n - 1], n)] = Loop(g)
      BY <1>1 DEF After, None, Held
    <3> QED BY <3>5, <3>6
  <2> HIDE DEF Loop
  <2> QED BY <2>1
<1> HIDE DEF answer, step
<1>7. answer[N] = Meant(N)
  <2> DEFINE S == {n \in Nat : n <= N => answer[n] = Meant(n)}
  <2>1. 0 \in S
    <3>1. answer[0] = None
      BY <1>1, <1>6
    <3>2. Meant(0) = None
      <4>1. Given(0) = {} /\ ~\E i \in 1..0 : Held(i) = "unknown"
        OBVIOUS
      <4> HIDE DEF Given
      <4> QED BY <4>1
    <3> HIDE DEF Meant, None
    <3> QED BY <3>1, <3>2
  <2>2. ASSUME NEW n \in Nat, n \in S PROVE n + 1 \in S
    <3> SUFFICES ASSUME n + 1 <= N PROVE answer[n + 1] = Meant(n + 1)
      OBVIOUS
    <3>1. answer[n] = Meant(n) /\ n + 1 \in 0..N /\ n + 1 \in 1..N /\ (n + 1) - 1 = n
      BY <1>1, <2>2
    <3>2. answer[n + 1] = After(Meant(n), n + 1)
      <4> HIDE DEF Meant
      <4>1. answer[n + 1] = Loop(answer)[n + 1]
        BY <1>6
      <4>2. answer[n + 1] = After(answer[(n + 1) - 1], n + 1)
        BY <1>1, <3>1, <4>1 DEF Held
      <4> HIDE DEF After
      <4> QED BY <3>1, <4>2
    <3>3. \A i : i \in 1..(n + 1) <=> i \in 1..n \/ i = n + 1
      OBVIOUS
    <3>4. Given(n + 1) = IF Held(n + 1) = "yes" THEN Given(n) \cup rs[n + 1].grants ELSE Given(n)
      BY <3>3
    <3>5. CASE \E i \in 1..n : Held(i) = "unknown"
      <4>1. Meant(n) = Refused /\ Meant(n + 1) = Refused
        BY <3>3, <3>5
      <4>2. ~Refused.evaluable
        BY DEF Refused
      <4> QED BY <3>2, <4>1, <4>2
    <3>6. CASE ~\E i \in 1..n : Held(i) = "unknown"
      <4> HIDE DEF Given
      <4>1. Meant(n) = [evaluable |-> TRUE, grants |-> Given(n)]
        BY <3>6
      <4>2. Meant(n + 1) = IF Held(n + 1) = "unknown" THEN Refused
                           ELSE [evaluable |-> TRUE, grants |-> Given(n + 1)]
        BY <3>3, <3>6
      <4>3. PICK b : b = Meant(n)
        OBVIOUS
      <4>4. b = [evaluable |-> TRUE, grants |-> Given(n)]
        BY <4>1, <4>3
      <4>5. b.evaluable
        BY <4>4
      <4>6. b.grants = Given(n)
        BY <4>4
      <4>7. answer[n + 1] = IF Held(n + 1) = "unknown" THEN Refused
                            ELSE IF Held(n + 1) = "yes"
                            THEN [evaluable |-> TRUE, grants |-> b.grants \cup rs[n + 1].grants]
                            ELSE b
        <5>1. answer[n + 1] = After(b, n + 1)
          BY ONLY <3>2, <4>3
        <5> QED BY ONLY <4>5, <5>1
      <4> HIDE DEF After, Meant
      <4>8. CASE Held(n + 1) = "unknown"
        BY <4>2, <4>7, <4>8
      <4>9. CASE Held(n + 1) = "yes"
        BY <3>4, <4>2, <4>6, <4>7, <4>9
      <4>10. CASE Held(n + 1) \notin {"yes", "unknown"}
        BY <3>4, <4>2, <4>4, <4>7, <4>10
      <4> QED BY <4>8, <4>9, <4>10
    <3> QED BY <3>5, <3>6
  <2> HIDE DEF S
  <2>3. N \in S
    BY <1>1, <2>1, <2>2, Induction
  <2> QED BY <2>3 DEF S
<1>8. ToSet(rs) = {rs[i] : i \in 1..N}
  BY <1>1 DEF ToSet
<1>9. (\E r \in ToSet(rs) : HoldsRole(r, u, t) = "unknown")
      <=> \E i \in 1..N : Held(i) = "unknown"
  BY <1>8 DEF Held
<1>10. UNION {r.grants : r \in {q \in ToSet(rs) : HoldsRole(q, u, t) = "yes"}} = Given(N)
  BY <1>8 DEF Held
<1> QED BY <1>2, <1>7, <1>9, <1>10

(* For any number of roles, any exceptions, formulas and person, and at    *)
(* any instant, evaluateRoles answers what the roles mean: whatever order  *)
(* the database returns roles, exceptions and conditions in, there is no   *)
(* guess where a condition that matters is not understood.                 *)
THEOREM EveryEvaluationMeetsItsMeaning ==
    ASSUME NEW R, \A r \in R : IsRole(r), NEW rs \in Seq(R), NEW u, NEW t
    PROVE  EvaluateRoles(u, rs, t) = Meaning(u, ToSet(rs), t)
<1>1. ToSet(rs) \subseteq R
  BY DEF ToSet
<1>2. \A r \in ToSet(rs) :
         /\ HoldsRole(r, u, t) = "unknown"
               <=> ~Decided(r, u, t) /\ NotUnderstood(r, u)
         /\ HoldsRole(r, u, t) = "yes"
               <=> /\ Entitled(r, u, t)
                   /\ Decided(r, u, t) \/ ~NotUnderstood(r, u)
  BY <1>1, WhoHoldsARole
<1>3. CASE \E r \in ToSet(rs) : ~Decided(r, u, t) /\ NotUnderstood(r, u)
  BY <1>2, <1>3, WhatTheRolesGive DEF Meaning
<1>4. CASE ~\E r \in ToSet(rs) : ~Decided(r, u, t) /\ NotUnderstood(r, u)
  <2>1. {q \in ToSet(rs) : HoldsRole(q, u, t) = "yes"}
        = {q \in ToSet(rs) : Entitled(q, u, t)}
    BY <1>2, <1>4
  <2>2. ~\E r \in ToSet(rs) : HoldsRole(r, u, t) = "unknown"
    BY <1>2, <1>4
  <2> QED BY <1>4, <2>1, <2>2, WhatTheRolesGive DEF Meaning
<1> QED BY <1>3, <1>4

-----------------------------------------------------------------------------
(* The rows the run of the evaluator alone draws from.                     *)
ExceptionRow == [userId : {"u1", "u2"}, mode : {"include", "exclude"}, expiresAt : {0, 1}]

RoleRow ==
    [id : {"r1", "r2"}, conditions : Seq(Conditions), grants : SUBSET {"shared", "r1", "r2"},
     exceptions : Seq(ExceptionRow)]

(* Every role it makes up is one.                                          *)
LEMMA RolesAreRows ==
    ASSUME NEW id \in {"r1", "r2"}, NEW f \in Formulas, NEW x \in Exceptions
    PROVE  Role(id, f, x) \in RoleRow
<1>1. f \in Seq(Conditions)
  <2>1. CASE f = <<>>
    BY <2>1
  <2>2. CASE \E c \in Conditions : f = <<c>>
    BY <2>2
  <2>3. CASE \E c, d \in Conditions : f = <<c, d>>
    BY <2>3
  <2> QED BY <2>1, <2>2, <2>3 DEF Formulas
<1>2. \A w \in {"u1", "u2"}, m \in {"include", "exclude"}, e \in {0, 1} :
         ExceptionFor(w, m, e) \in ExceptionRow
  BY DEF ExceptionFor, ExceptionRow
<1>3. x \in Seq(ExceptionRow)
  <2>1. PICK E : E = ExceptionRow
    OBVIOUS
  <2>2. \A y, z \in E : <<y>> \in Seq(E) /\ <<y, z>> \in Seq(E)
    OBVIOUS
  <2>3. <<>> \in Seq(E)
    OBVIOUS
  <2>4. \A w \in {"u1", "u2"}, m \in {"include", "exclude"}, e \in {0, 1} :
           ExceptionFor(w, m, e) \in E
    BY <1>2, <2>1
  <2>5. x = <<>> \/ \E y, z \in E : x = <<y>> \/ x = <<y, z>>
    BY <2>4 DEF Exceptions
  <2> QED BY <2>1, <2>2, <2>3, <2>5
<1> QED BY <1>1, <1>3 DEF Role, RoleRow

(* The evaluator alone, roles added before and behind one another: every   *)
(* answer is what the roles mean.                                          *)
THEOREM EvaluationsMeetTheirMeaning == MCSpec => []EvaluatorMeetsItsMeaning
<1>1. MCInit => roles \in Seq(RoleRow)
  <2>1. EvaluatorInit => roles \in Seq(RoleRow)
    <3>1. \A r \in RoleRow : <<r>> \in Seq(RoleRow)
      OBVIOUS
    <3> QED BY <3>1, RolesAreRows DEF EvaluatorInit
  <2>2. <<>> \in Seq(RoleRow)
    OBVIOUS
  <2> QED BY <2>1, <2>2 DEF MCInit
<1>2. roles \in Seq(RoleRow) /\ [MCNext]_<<evars, user, roles, instant, cast>>
      => (roles \in Seq(RoleRow))'
  <2> SUFFICES ASSUME roles \in Seq(RoleRow), AddRole PROVE roles' \in Seq(RoleRow)
    BY DEF MCNext
  <2>1. \A c \in Conditions : <<c>> \in Formulas
    BY DEF Formulas
  <2>2. <<>> \in Exceptions /\ <<ExceptionFor("u1", "include", 0)>> \in Exceptions
    BY DEF Exceptions
  <2>3. \A c \in Conditions, x \in {<<>>, <<ExceptionFor("u1", "include", 0)>>} :
           Role("r2", <<c>>, x) \in RoleRow
    BY <2>1, <2>2, RolesAreRows
  <2>4. PICK other \in RoleRow : roles' \in {<<other>> \o roles, roles \o <<other>>}
    BY <2>3 DEF AddRole
  <2>5. <<other>> \o roles \in Seq(RoleRow) /\ roles \o <<other>> \in Seq(RoleRow)
    OBVIOUS
  <2> QED BY <2>4, <2>5
<1>3. roles \in Seq(RoleRow) => EvaluatorMeetsItsMeaning
  <2>1. ASSUME NEW r \in RoleRow PROVE IsRole(r)
    <3>1. r.exceptions \in Seq(ExceptionRow) /\ r.conditions \in Seq(Conditions)
      BY DEF RoleRow
    <3>2. \A x \in ExceptionRow : x.mode \in {"include", "exclude"}
      BY DEF ExceptionRow
    <3> QED BY <3>1, <3>2 DEF IsRole
  <2> SUFFICES ASSUME roles \in Seq(RoleRow)
               PROVE  EvaluateRoles(user, roles, instant) = Meaning(user, ToSet(roles), instant)
    BY DEF EvaluatorMeetsItsMeaning
  <2> QED BY <2>1, EveryEvaluationMeetsItsMeaning
<1> QED BY <1>1, <1>2, <1>3, PTL DEF MCSpec
=============================================================================
