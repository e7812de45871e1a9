------------------------- MODULE DirectorySyncProofs -------------------------
(***************************************************************************)
(* Proofs about the delivery of people to a directory, with the inline     *)
(* disabling of an offboarding beside it, for every number of users,       *)
(* groups, workers, producers and events.                                  *)
(***************************************************************************)
EXTENDS Offboarding, OutboxProofs, FiniteSetTheorems

-----------------------------------------------------------------------------
(* The inductive invariant.                                                *)

AccountShape == [profile : Nat, enabled : BOOLEAN, groups : [Groups -> Nat]]

(* Types, with the counters of the database unbounded.                     *)
ShapeOK ==
    /\ change \in [Ids -> Change]
    /\ profile \in [Users -> Nat]
    /\ active \subseteq Users
    /\ name \in [Groups -> Nat]
    /\ members \in [Groups -> SUBSET Users]
    /\ remote \in [Users -> AccountShape]
    /\ pc \in [Workers -> PC]
    /\ todo \in [Workers -> SUBSET Users]
    /\ cur \in [Workers -> Users \cup {NoUser}]
    /\ desired \in [Workers -> AccountShape]
    /\ locks \in [Workers -> SUBSET Users]

(* Two events of one stream about one user, or about one group's name: the *)
(* changes of two transactions that lock one row.                          *)
SameRow(i, j) == stream[i] = stream[j] /\ change[i].user = change[j].user

Seen(i) == status[i] \in {"pending", "done", "failed"}

(* An event stands in the stream of what it is about; the row its          *)
(* transaction has locked is nobody else's, so what is under way is        *)
(* younger than everything that is committed about that row.               *)
RowsKnown ==
    /\ \A i \in Ids : status[i] # "absent" =>
          change[i] \in Changes /\ stream[i] = StreamOf(change[i])
    /\ \A p, q \in Producers : \A i \in txn[p], j \in txn[q] : SameRow(i, j) => i = j
    /\ \A p \in Producers : \A i \in txn[p], j \in Ids : Seen(j) /\ SameRow(i, j) => j < i

(* Where a worker is between taking a user's lock and leaving the user.    *)
Inside == {"locked", "row", "built", "updated", "enabled"}

WorkersKnown ==
    /\ \A w \in Workers :
          /\ pc[w] = "idle" <=> claim[w] = None
          /\ pc[w] = "waiting" => cur[w] \in Users
          /\ pc[w] \in Inside => cur[w] \in Users /\ cur[w] \in locks[w]
    /\ \A v, w \in Workers : v # w => locks[v] \cap locks[w] = {}

(* An account is kept in three parts; the worker reads each and writes     *)
(* each at its own step.                                                   *)
Parts == {"profile", "enabled", "groups"}

Unread(P) == {"waiting", "locked"} \cup (IF P = "groups" THEN {"row"} ELSE {})

Unwritten(P) ==
    CASE P = "profile" -> {"row", "built"}
      [] P = "enabled" -> {"row", "built", "updated"}
      [] P = "groups" -> {"built", "updated", "enabled"}

(* The account agrees with the database in a part; a worker's reading does. *)
Fresh(P, u) ==
    CASE P = "profile" -> remote[u].profile = profile[u]
      [] P = "enabled" -> (remote[u].enabled <=> u \in active)
      [] P = "groups" -> remote[u].groups = GroupNames(u)

Good(P, w, u) ==
    CASE P = "profile" -> desired[w].profile = profile[u]
      [] P = "enabled" -> (desired[w].enabled <=> u \in active)
      [] P = "groups" -> desired[w].groups = GroupNames(u)

(* The newest event about its row, which concerns u.                       *)
Weighs(i, u) ==
    /\ Seen(i) /\ Concerns(i, u)
    /\ \A j \in Ids : Seen(j) /\ SameRow(j, i) => j <= i

(* A worker has still to read the part of u for its event, or has thrown   *)
(* and will leave the event as it found it.                                *)
Ahead(P, w, u) ==
    \/ pc[w] \in {"claimed", "thrown"}
    \/ u \in todo[w]
    \/ cur[w] = u /\ pc[w] \in Unread(P)

(* An event that weighs on u will yet be applied to the part.              *)
Unspent(P, i, u) ==
    /\ Weighs(i, u)
    /\ status[i] \in {"pending", "failed"}
    /\ \A w \in Workers : claim[w] = i => Ahead(P, w, u)

Midway(P, w, u) == cur[w] = u /\ pc[w] \in Unwritten(P)

(* A part agrees with the database, or an event that weighs on the user    *)
(* will be applied to it, or is being applied and is still open.  And no   *)
(* worker has an outdated reading in its hand unless there is such an      *)
(* event.                                                                  *)
Covered(P, u) ==
    \/ \E i \in Ids : Unspent(P, i, u)
    \/ /\ \A w \in Workers : Midway(P, w, u) => Good(P, w, u)
       /\ Fresh(P, u) \/ \E w \in Workers : Midway(P, w, u) /\ Weighs(claim[w], u)

(* What a worker has read of a profile, it has read since the account got  *)
(* its own: the lock is held from the reading to the writing.              *)
ProfilesLag ==
    /\ \A u \in Users : remote[u].profile <= profile[u]
    /\ \A w \in Workers : pc[w] \in {"row", "built"} =>
          remote[cur[w]].profile <= desired[w].profile /\ desired[w].profile <= profile[cur[w]]

DInv ==
    /\ IInv
    /\ ShapeOK
    /\ RowsKnown
    /\ WorkersKnown
    /\ \A P \in Parts, u \in Users : Covered(P, u)
    /\ ProfilesLag

(* Only a deactivated user is disabled inline.                             *)
OffboardingInv ==
    /\ DInv
    /\ inline \in [Users -> {"nothing", "disable", "revoke"}]
    /\ \A u \in Users : inline[u] # "nothing" => u \notin active
-----------------------------------------------------------------------------
(* The directory's steps are steps of the queue.                           *)
LEMMA DirectoryIsAnOutbox == [DirectoryNext]_dvars => [Next]_vars
<1> SUFFICES ASSUME [DirectoryNext]_dvars PROVE [Next]_vars
  OBVIOUS
<1>1. ASSUME NEW p \in Producers, CommitChanges(p) \/ RollbackChanges(p)
      PROVE  Next
  BY <1>1 DEF CommitChanges, RollbackChanges, Next, Produce
<1>2. ASSUME NEW p \in Producers, NEW c \in Changes, Write(p, c)
      PROVE  Next
  <2>1. StreamOf(c) \in Streams
    BY DirectoryAssumption DEF Changes, Change, StreamOf, AllKinds
  <2> QED BY <1>2, <2>1 DEF Write, Next, Produce
<1>3. ASSUME NEW w \in Workers, DirectoryWork(w)
      PROVE  [Next]_vars
  <2>1. CASE ClaimEvent(w)
    BY <2>1 DEF ClaimEvent, Next, Work
  <2>2. CASE Finish(w) \/ RecordFailure(w) \/ WorkerCrash(w)
    BY <2>2 DEF Finish, RecordFailure, WorkerCrash, Next, Work, Settle
  <2>3. CASE \/ FanOut(w) \/ NextUser(w) \/ LockUser(w) \/ ReadUser(w) \/ ReadGroups(w)
             \/ UpdateUser(w) \/ SetEnabled(w) \/ SetUserGroups(w)
             \/ DeadlockVictim(w) \/ CallFails(w)
    BY <2>3 DEF FanOut, NextUser, LockUser, ReadUser, ReadGroups, UpdateUser, SetEnabled,
                SetUserGroups, Request, DeadlockVictim, CallFails, Throw
  <2> QED BY <1>3, <2>1, <2>2, <2>3 DEF DirectoryWork, Progress
<1>4. CASE QueueStep
  BY <1>4 DEF QueueStep, Next
<1>5. CASE UNCHANGED dvars
  BY <1>5 DEF dvars
<1> QED BY <1>1, <1>2, <1>3, <1>4, <1>5 DEF DirectoryNext

-----------------------------------------------------------------------------
(* Shapes.                                                                 *)

(* The renames of a group in one transaction are finitely many.            *)
LEMMA RenamesAreCounted ==
    ASSUME IInv, NEW p \in Producers, NEW g
    PROVE  IsFiniteSet(In(g, Made(p, "rename")))
<1> DEFINE Rows == {change[i] : i \in txn[p]}
           f == [i \in txn[p] |-> change[i]]
<1>1. IsFiniteSet(Ids)
  BY FS_Interval, OutboxAssumption DEF Ids
<1>2. IsFiniteSet(txn[p])
  BY <1>1, FS_Subset DEF IInv, TypeOK
<1>3. f \in Surjection(txn[p], Rows)
  BY DEF Surjection
<1>4. IsFiniteSet(Rows)
  BY <1>2, <1>3, FS_Surjection
<1>5. In(g, Made(p, "rename")) \subseteq Rows
  BY DEF In, Made
<1> QED BY <1>4, <1>5, FS_Subset

(* Whoever a transaction has made join or leave is a user.                 *)
LEMMA MadeByRows ==
    ASSUME IInv, ShapeOK, RowsKnown, NEW p \in Producers, NEW kind, NEW c \in Made(p, kind)
    PROVE  \E i \in txn[p] : i \in Ids /\ c = change[i] /\ c.kind = kind /\ c \in Changes
BY DEF Made, IInv, TypeOK, TxnRows, RowsKnown

LEMMA ShapesKept ==
    ASSUME IInv, ShapeOK, RowsKnown, WorkersKnown, [DirectoryNext]_dvars
    PROVE  ShapeOK'
<1>1. ASSUME NEW p \in Producers, CommitChanges(p)
      PROVE  ShapeOK'
  <2>1. UNCHANGED <<change, remote, pc, todo, cur, desired, locks>>
    BY <1>1 DEF CommitChanges, local
  <2>2. profile' \in [Users -> Nat] /\ active' \subseteq Users
    BY <1>1 DEF CommitChanges, ShapeOK
  <2>3. name' \in [Groups -> Nat]
    <3>1. \A g \in Groups : Cardinality(In(g, Made(p, "rename"))) \in Nat
      BY RenamesAreCounted, FS_CardinalityType
    <3> QED BY <1>1, <3>1 DEF CommitChanges, ShapeOK
  <2>4. members' \in [Groups -> SUBSET Users]
    <3>1. UsersOf(Made(p, "join")) \subseteq Users
      BY MadeByRows, DirectoryAssumption DEF UsersOf, Changes, Change
    <3>2. \A g \in Groups : UsersOf(In(g, Made(p, "join"))) \subseteq Users
      BY <3>1 DEF UsersOf, In
    <3> QED BY <1>1, <3>2 DEF CommitChanges, ShapeOK
  <2> QED BY <2>1, <2>2, <2>3, <2>4 DEF ShapeOK
<1>2. ASSUME NEW p \in Producers, RollbackChanges(p)
      PROVE  ShapeOK'
  BY <1>2 DEF RollbackChanges, store, local, ShapeOK
<1>3. ASSUME NEW p \in Producers, NEW c \in Changes, Write(p, c)
      PROVE  ShapeOK'
  BY <1>3 DEF Write, Changes, local, ShapeOK
<1>4. ASSUME NEW w \in Workers, DirectoryWork(w)
      PROVE  ShapeOK'
  <2>0. NoAccount \in AccountShape
    BY DEF NoAccount, AccountShape
  <2>1. CASE ClaimEvent(w)
    BY <1>4, <2>1 DEF ClaimEvent, store, ShapeOK, PC
  <2>2. CASE FanOut(w)
    <3>1. Affected(change[claim[w]]) \subseteq Users
      <4>1. claim[w] \in Ids /\ status[claim[w]] = "pending"
        BY <2>2 DEF FanOut, WorkersKnown, IInv, TypeOK, HeldRowsAreOpen, None
      <4>2. change[claim[w]] \in Changes
        BY <4>1 DEF RowsKnown
      <4> QED BY <4>2 DEF Affected, Changes, Change, ShapeOK
    <3> QED BY <2>2, <3>1 DEF FanOut, store, ShapeOK, PC
  <2>3. CASE NextUser(w)
    BY <2>3 DEF NextUser, store, ShapeOK, PC
  <2>4. CASE LockUser(w)
    BY <2>4 DEF LockUser, store, ShapeOK, PC, WorkersKnown
  <2>5. CASE ReadUser(w)
    <3>1. cur[w] \in Users
      BY <2>5 DEF ReadUser, WorkersKnown, Inside
    <3>2. [NoAccount EXCEPT !.profile = profile[cur[w]], !.enabled = cur[w] \in active] \in AccountShape
      <4> DEFINE a == profile[cur[w]]
                 b == cur[w] \in active
      <4>1. a \in Nat /\ b \in BOOLEAN
        BY <3>1 DEF ShapeOK
      <4> HIDE DEF a, b
      <4>2. [NoAccount EXCEPT !.profile = a, !.enabled = b] \in AccountShape
        BY <2>0, <4>1 DEF AccountShape
      <4> QED BY <4>2 DEF a, b
    <3> QED BY <2>5, <3>2 DEF ReadUser, store, ShapeOK, PC
  <2>6. CASE ReadGroups(w)
    <3>1. cur[w] \in Users
      BY <2>6 DEF ReadGroups, WorkersKnown, Inside
    <3>2. GroupNames(cur[w]) \in [Groups -> Nat]
      BY DEF GroupNames, ShapeOK
    <3>3. desired[w] \in AccountShape
      BY DEF ShapeOK
    <3>4. [desired[w] EXCEPT !.groups = GroupNames(cur[w])] \in AccountShape
      BY <3>2, <3>3 DEF AccountShape
    <3>5. desired' = [desired EXCEPT ![w] = [desired[w] EXCEPT !.groups = GroupNames(cur[w])]]
      BY <2>6 DEF ReadGroups
    <3> QED BY <2>6, <3>4, <3>5 DEF ReadGroups, store, ShapeOK, PC
  <2>7. CASE UpdateUser(w) \/ SetEnabled(w) \/ SetUserGroups(w)
    <3>1. cur[w] \in Users
      BY <2>7 DEF UpdateUser, SetEnabled, SetUserGroups, Request, WorkersKnown, Inside
    <3>2. remote[cur[w]] \in AccountShape /\ desired[w] \in AccountShape
      BY <3>1 DEF ShapeOK
    <3>3. remote' \in [Users -> AccountShape]
      <4>1. CASE UpdateUser(w)
        <5>1. [remote[cur[w]] EXCEPT !.profile = desired[w].profile] \in AccountShape
          BY <3>2 DEF AccountShape
        <5>2. remote' = [remote EXCEPT ![cur[w]] = [remote[cur[w]] EXCEPT !.profile = desired[w].profile]]
          BY <4>1 DEF UpdateUser
        <5> QED BY <3>1, <5>1, <5>2 DEF ShapeOK
      <4>2. CASE SetEnabled(w)
        <5>1. [remote[cur[w]] EXCEPT !.enabled = desired[w].enabled] \in AccountShape
          BY <3>2 DEF AccountShape
        <5>2. remote' = [remote EXCEPT ![cur[w]] = [remote[cur[w]] EXCEPT !.enabled = desired[w].enabled]]
          BY <4>2 DEF SetEnabled
        <5> QED BY <3>1, <5>1, <5>2 DEF ShapeOK
      <4>3. CASE SetUserGroups(w)
        <5>1. [remote[cur[w]] EXCEPT !.groups = desired[w].groups] \in AccountShape
          BY <3>2 DEF AccountShape
        <5>2. remote' = [remote EXCEPT ![cur[w]] = [remote[cur[w]] EXCEPT !.groups = desired[w].groups]]
          BY <4>3 DEF SetUserGroups
        <5> QED BY <3>1, <5>1, <5>2 DEF ShapeOK
      <4> QED BY <2>7, <4>1, <4>2, <4>3
    <3> QED BY <2>7, <3>3
            DEF UpdateUser, SetEnabled, SetUserGroups, Request, store, ShapeOK, PC
  <2>8. CASE Finish(w) \/ RecordFailure(w) \/ WorkerCrash(w)
    BY <2>0, <2>8 DEF Finish, RecordFailure, WorkerCrash, Reset, store, ShapeOK, PC
  <2>9. CASE CallFails(w) \/ DeadlockVictim(w)
    BY <2>9 DEF CallFails, DeadlockVictim, Throw, store, ShapeOK, PC
  <2> QED BY <1>4, <2>1, <2>2, <2>3, <2>4, <2>5, <2>6, <2>7, <2>8, <2>9 DEF DirectoryWork, Progress
<1>5. CASE QueueStep
  BY <1>5 DEF QueueStep, store, local, ShapeOK
<1>6. CASE UNCHANGED dvars
  BY <1>6 DEF dvars, store, local, ShapeOK
<1> QED BY <1>1, <1>2, <1>3, <1>4, <1>5, <1>6 DEF DirectoryNext

-----------------------------------------------------------------------------
(* The queue's rows.                                                       *)

(* Workers, time and operators change rows only that have been committed.  *)
LEMMA OnlySeenRowsMove ==
    ASSUME IInv, QueueStep \/ \E w \in Workers : DirectoryWork(w)
    PROVE  /\ UNCHANGED <<lastId, stream, txn, store>>
           /\ \A i \in Ids : status'[i] # status[i] => Seen(i) /\ Seen(i)'
<1> DEFINE Still ==
        /\ UNCHANGED <<lastId, stream, txn, store>>
        /\ \A i \in Ids : status'[i] # status[i] => Seen(i) /\ Seen(i)'
<1>1. ASSUME NEW w \in Workers, ClaimEvent(w) PROVE Still
  BY <1>1 DEF ClaimEvent, Claim, rowVars
<1>2. ASSUME NEW w \in Workers, Finish(w) \/ RecordFailure(w) \/ WorkerCrash(w)
      PROVE  Still
  <2> DEFINE c == claim[w]
  <2>1. c \in Ids /\ status[c] = "pending" /\ claim[w] # None
    BY <1>2 DEF Finish, RecordFailure, WorkerCrash, Succeed, Fail, Crash, Release,
                IInv, TypeOK, HeldRowsAreOpen, None
  <2>2. UNCHANGED <<lastId, stream, txn, store>>
    BY <1>2 DEF Finish, RecordFailure, WorkerCrash, Succeed, Fail, Crash, Reset, rowVars
  <2>3. /\ \A i \in Ids \ {c} : status'[i] = status[i]
        /\ status'[c] \in {"pending", "done", "failed"}
    <3>1. CASE Finish(w)
      BY <2>1, <3>1 DEF Finish, Succeed, IInv, TypeOK
    <3>2. CASE RecordFailure(w)
      BY <2>1, <3>2 DEF RecordFailure, Fail, IInv, TypeOK
    <3>3. CASE WorkerCrash(w)
      BY <2>1, <3>3 DEF WorkerCrash, Crash, rowVars
    <3> QED BY <1>2, <3>1, <3>2, <3>3
  <2> QED BY <2>1, <2>2, <2>3 DEF Seen
<1>3. ASSUME NEW w \in Workers,
             \/ FanOut(w) \/ NextUser(w) \/ LockUser(w) \/ ReadUser(w) \/ ReadGroups(w)
             \/ UpdateUser(w) \/ SetEnabled(w) \/ SetUserGroups(w)
             \/ DeadlockVictim(w) \/ CallFails(w)
      PROVE  Still
  BY <1>3 DEF FanOut, NextUser, LockUser, ReadUser, ReadGroups, UpdateUser, SetEnabled,
              SetUserGroups, Request, DeadlockVictim, CallFails, Throw, vars
<1>4. CASE QueueStep
  <2>1. CASE \E i \in Ids : BecomeDue(i)
    BY <1>4, <2>1 DEF QueueStep, BecomeDue
  <2>2. ASSUME NEW o \in Operators, FindFailed(o)
        PROVE  UNCHANGED <<lastId, stream, txn, status>>
    BY <2>2 DEF FindFailed, rowVars
  <2>3. ASSUME NEW o \in Operators, Retry(o)
        PROVE  /\ UNCHANGED <<lastId, stream, txn>>
               /\ \A i \in Ids : status'[i] # status[i] => Seen(i) /\ Seen(i)'
    BY <2>3 DEF Retry, IInv, TypeOK, FoundRows, Seen
  <2> QED BY <1>4, <2>1, <2>2, <2>3 DEF QueueStep, Operate
<1> QED BY <1>1, <1>2, <1>3, <1>4 DEF DirectoryWork, Progress

LEMMA RowsKept ==
    ASSUME IInv, IInv', ShapeOK, RowsKnown, [DirectoryNext]_dvars
    PROVE  RowsKnown'
<1>1. ASSUME NEW p \in Producers, NEW c \in Changes, Write(p, c)
      PROVE  RowsKnown'
  <2> DEFINE n == lastId + 1
  <2>1. n \in Ids /\ status[n] = "absent"
    BY <1>1, OutboxAssumption DEF Write, Insert, IInv, TypeOK, FreshRows, Ids
  <2>2. /\ \A i \in Ids \ {n} : /\ status'[i] = status[i]
                                 /\ stream'[i] = stream[i]
                                 /\ change'[i] = change[i]
        /\ status'[n] = "writing" /\ stream'[n] = StreamOf(c) /\ change'[n] = c
        /\ txn' = [txn EXCEPT ![p] = @ \cup {n}]
    BY <1>1, <2>1 DEF Write, Insert, IInv, TypeOK, ShapeOK
  <2>3. \A q \in Producers : txn[q] \subseteq Ids \ {n} /\ txn'[q] \subseteq txn[q] \cup {n}
    BY <2>1, <2>2 DEF IInv, TypeOK, TxnRows
  <2>4. \A q \in Producers : \A i \in txn[q] :
          /\ status[i] = "writing"
          /\ ~(stream[i] = stream'[n] /\ change[i].user = change'[n].user)
    BY <1>1, <2>2 DEF Write, RowBusy, IInv, TypeOK, TxnRows, RowsKnown
  <2>5. \A q, r \in Producers : \A i \in txn'[q], j \in txn'[r] : SameRow(i, j)' => i = j
    BY <2>2, <2>3, <2>4 DEF RowsKnown, SameRow
  <2>6. \A q \in Producers : \A i \in txn'[q], j \in Ids : Seen(j)' /\ SameRow(i, j)' => j < i
    <3> SUFFICES ASSUME NEW q \in Producers, NEW i \in txn'[q], NEW j \in Ids,
                        Seen(j)', SameRow(i, j)'
                 PROVE  j < i
      OBVIOUS
    <3>1. j # n /\ Seen(j)
      BY <2>2 DEF Seen
    <3>2. CASE i = n
      BY <3>1, <3>2 DEF Seen, IInv, TypeOK, FreshRows, Ids
    <3>3. CASE i # n
      BY <2>2, <2>3, <3>1, <3>3 DEF RowsKnown, SameRow
    <3> QED BY <3>2, <3>3
  <2> QED BY <2>2, <2>5, <2>6 DEF RowsKnown
<1>2. ASSUME NEW p \in Producers, NEW outcome \in {"pending", "void"}, EndTxn(p, outcome),
             UNCHANGED change
      PROVE  RowsKnown'
  <2>1. /\ \A i \in Ids : status'[i] = IF i \in txn[p] THEN outcome ELSE status[i]
        /\ \A i \in txn[p] : i \in Ids /\ status[i] = "writing"
        /\ txn' = [txn EXCEPT ![p] = {}]
        /\ UNCHANGED <<stream, change>>
    BY <1>2 DEF EndTxn, IInv, TypeOK, TxnRows
  <2>2. \A q \in Producers : txn'[q] \subseteq txn[q]
    BY <2>1 DEF IInv, TypeOK
  <2>3. \A q, r \in Producers : \A i \in txn'[q], j \in txn'[r] : SameRow(i, j)' => i = j
    BY <2>1, <2>2 DEF RowsKnown, SameRow
  <2>4. \A q \in Producers : \A i \in txn'[q], j \in Ids : Seen(j)' /\ SameRow(i, j)' => j < i
    <3> SUFFICES ASSUME NEW q \in Producers, NEW i \in txn'[q], NEW j \in Ids,
                        Seen(j)', SameRow(i, j)'
                 PROVE  j < i
      OBVIOUS
    <3>1. SameRow(i, j) /\ i \in txn[q] /\ i \notin txn[p]
      BY <2>1, <2>2 DEF SameRow, IInv, TypeOK, TxnRows
    <3>2. j \notin txn[p]
      BY <3>1 DEF RowsKnown
    <3> QED BY <2>1, <3>1, <3>2 DEF RowsKnown, Seen
  <2> QED BY <2>1, <2>3, <2>4 DEF RowsKnown
<1>3. ASSUME NEW p \in Producers, CommitChanges(p) \/ RollbackChanges(p)
      PROVE  RowsKnown'
  BY <1>2, <1>3 DEF CommitChanges, RollbackChanges, Commit, Rollback, store
<1>4. ASSUME UNCHANGED <<stream, txn, change>>,
             \A i \in Ids : status'[i] # status[i] => Seen(i) /\ Seen(i)'
      PROVE  RowsKnown'
  <2>1. \A i \in Ids : (Seen(i)' <=> Seen(i)) /\ (status'[i] # "absent" => status[i] # "absent")
    BY <1>4 DEF Seen
  <2> QED BY <1>4, <2>1 DEF RowsKnown, SameRow
<1>5. CASE QueueStep \/ \E w \in Workers : DirectoryWork(w)
  BY <1>4, <1>5, OnlySeenRowsMove DEF store
<1>6. CASE UNCHANGED dvars
  BY <1>4, <1>6 DEF dvars, vars, store
<1> QED BY <1>1, <1>3, <1>5, <1>6 DEF DirectoryNext

-----------------------------------------------------------------------------
(* The workers.                                                            *)
LEMMA WorkersKept ==
    ASSUME IInv, ShapeOK, WorkersKnown, [DirectoryNext]_dvars
    PROVE  WorkersKnown'
<1>1. ASSUME UNCHANGED <<claim, pc, cur, locks>> PROVE WorkersKnown'
  BY <1>1 DEF WorkersKnown
<1>2. ASSUME NEW p \in Producers, CommitChanges(p) \/ RollbackChanges(p)
      PROVE  WorkersKnown'
  BY <1>1, <1>2 DEF CommitChanges, RollbackChanges, Commit, Rollback, EndTxn, local
<1>3. ASSUME NEW p \in Producers, NEW c \in Changes, Write(p, c)
      PROVE  WorkersKnown'
  BY <1>1, <1>3 DEF Write, Insert, local
<1>4. CASE QueueStep
  BY <1>1, <1>4 DEF QueueStep, BecomeDue, Operate, FindFailed, Retry, local
<1>5. ASSUME NEW w \in Workers, DirectoryWork(w)
      PROVE  WorkersKnown'
  <2>1. CASE ClaimEvent(w)
    BY <2>1 DEF ClaimEvent, Claim, WorkersKnown, ShapeOK, IInv, TypeOK, Inside, None, Ids
  <2>2. CASE FanOut(w)
    BY <2>2 DEF FanOut, vars, WorkersKnown, ShapeOK, Inside
  <2>3. CASE NextUser(w)
    BY <2>3 DEF NextUser, vars, WorkersKnown, ShapeOK, Inside
  <2>4. CASE LockUser(w)
    BY <2>4 DEF LockUser, Holds, vars, WorkersKnown, ShapeOK, Inside
  <2>5. CASE ReadUser(w) \/ ReadGroups(w)
    BY <2>5 DEF ReadUser, ReadGroups, vars, WorkersKnown, ShapeOK, Inside
  <2>6. CASE UpdateUser(w) \/ SetEnabled(w) \/ SetUserGroups(w)
    BY <2>6 DEF UpdateUser, SetEnabled, SetUserGroups, Request, vars, WorkersKnown, ShapeOK, Inside
  <2>7. CASE Finish(w) \/ RecordFailure(w) \/ WorkerCrash(w)
    <3>1. /\ pc' = [pc EXCEPT ![w] = "idle"] /\ claim' = [claim EXCEPT ![w] = None]
          /\ locks' = [locks EXCEPT ![w] = {}]
          /\ \A v \in Workers : v # w => cur'[v] = cur[v]
      BY <2>7 DEF Finish, RecordFailure, WorkerCrash, Succeed, Fail, Crash, Release, Reset,
                  ShapeOK, IInv, TypeOK
    <3> QED BY <3>1 DEF WorkersKnown, ShapeOK, IInv, TypeOK, Inside
  <2>8. CASE CallFails(w) \/ DeadlockVictim(w)
    BY <2>8 DEF CallFails, DeadlockVictim, Throw, vars, WorkersKnown, ShapeOK, Inside
  <2> QED BY <1>5, <2>1, <2>2, <2>3, <2>4, <2>5, <2>6, <2>7, <2>8 DEF DirectoryWork, Progress
<1>6. CASE UNCHANGED dvars
  BY <1>1, <1>6 DEF dvars, vars, local
<1> QED BY <1>2, <1>3, <1>4, <1>5, <1>6 DEF DirectoryNext

-----------------------------------------------------------------------------
(* Covered.                                                                *)

(* What weighs on a user is what the committed rows and the store say.     *)
LEMMA WeighsKept ==
    ASSUME UNCHANGED <<stream, store>>, \A i \in Ids : Seen(i)' <=> Seen(i)
    PROVE  \A i \in Ids, u \in Users : Weighs(i, u)' <=> Weighs(i, u)
BY DEF store, Weighs, SameRow, Concerns

LEMMA MidwayIsInside ==
    ASSUME WorkersKnown, NEW P \in Parts, NEW u \in Users, NEW w \in Workers, Midway(P, w, u)
    PROVE  claim[w] # None /\ u \in locks[w]
BY DEF Parts, Midway, Unwritten, WorkersKnown, Inside

(* One worker moves within its transaction, and the queue and the store    *)
(* stand still.                                                            *)
LEMMA WorkerMoves ==
    ASSUME IInv, WorkersKnown, NEW P \in Parts, NEW u \in Users, Covered(P, u),
           NEW w \in Workers, UNCHANGED <<vars, store>>,
           \A v \in Workers \ {w} : /\ pc'[v] = pc[v] /\ todo'[v] = todo[v]
                                    /\ cur'[v] = cur[v] /\ desired'[v] = desired[v],
           Weighs(claim[w], u) /\ Ahead(P, w, u) =>
               \/ Ahead(P, w, u)'
               \/ /\ Midway(P, w, u)' /\ Good(P, w, u)'
                  /\ \A v \in Workers \ {w} : ~Midway(P, v, u),
           Midway(P, w, u)' => Good(P, w, u)' \/ (Midway(P, w, u) /\ (Good(P, w, u) => Good(P, w, u)')),
           Midway(P, w, u) => Midway(P, w, u)' \/ Ahead(P, w, u)' \/ (Good(P, w, u) => Fresh(P, u)'),
           Fresh(P, u) /\ (Midway(P, w, u) => Good(P, w, u)) => Fresh(P, u)'
    PROVE  Covered(P, u)'
<1>1. \A i \in Ids : Weighs(i, u)' <=> Weighs(i, u)
  BY WeighsKept DEF vars, Seen
<1>2. UNCHANGED <<status, claim>>
  BY DEF vars
<1>3. \A v \in Workers \ {w} :
        /\ Ahead(P, v, u)' <=> Ahead(P, v, u)
        /\ Midway(P, v, u)' <=> Midway(P, v, u)
        /\ Good(P, v, u)' <=> Good(P, v, u)
  BY DEF Ahead, Midway, Good, Unread, Unwritten, store, GroupNames, Parts
<1>4. CASE \E i \in Ids : Unspent(P, i, u)
  <2>1. PICK i \in Ids : Unspent(P, i, u)
    BY <1>4
  <2>2. CASE claim[w] # i \/ Ahead(P, w, u)'
    BY <1>1, <1>2, <1>3, <2>1, <2>2 DEF Unspent, Covered
  <2>3. CASE claim[w] = i /\ ~Ahead(P, w, u)'
    <3>1. /\ Midway(P, w, u)' /\ Good(P, w, u)'
          /\ \A v \in Workers \ {w} : ~Midway(P, v, u)
      BY <2>1, <2>3 DEF Unspent
    <3>2. Weighs(claim[w], u)'
      BY <1>1, <1>2, <2>1, <2>3 DEF Unspent
    <3> QED BY <1>3, <3>1, <3>2 DEF Covered
  <2> QED BY <2>2, <2>3
<1>5. CASE /\ \A v \in Workers : Midway(P, v, u) => Good(P, v, u)
           /\ Fresh(P, u) \/ \E v \in Workers : Midway(P, v, u) /\ Weighs(claim[v], u)
  <2>1. \A v \in Workers : Midway(P, v, u)' => Good(P, v, u)'
    BY <1>3, <1>5
  <2>2. CASE Fresh(P, u)'
    BY <2>1, <2>2 DEF Covered
  <2>3. CASE ~Fresh(P, u)'
    <3>1. PICK v \in Workers : Midway(P, v, u) /\ Weighs(claim[v], u)
      BY <1>5, <2>3
    <3>2. claim[v] \in Ids /\ status[claim[v]] = "pending" /\ Weighs(claim[v], u)'
      BY <1>1, <1>2, <3>1, MidwayIsInside DEF IInv, TypeOK, HeldRowsAreOpen
    <3>3. CASE Midway(P, v, u)'
      BY <1>2, <2>1, <3>2, <3>3 DEF Covered
    <3>4. CASE ~Midway(P, v, u)'
      <4>1. v = w /\ Ahead(P, w, u)'
        BY <1>3, <1>5, <2>3, <3>1, <3>4
      <4>2. \A x \in Workers : claim[x] = claim[w] => x = w
        BY <3>1, <4>1, MidwayIsInside DEF IInv, HeldRowsAreOpen
      <4>3. PICK i \in Ids : i = claim[w]
        BY <3>2, <4>1
      <4>4. Unspent(P, i, u)'
        BY <1>2, <3>2, <4>1, <4>2, <4>3 DEF Unspent
      <4> QED BY <4>4 DEF Covered
    <3> QED BY <3>3, <3>4
  <2> QED BY <2>2, <2>3
<1> QED BY <1>4, <1>5 DEF Covered

(* A worker leaves its event: settled after the whole fan-out, or put back. *)
LEMMA WorkerLeaves ==
    ASSUME IInv, WorkersKnown, ShapeOK, NEW P \in Parts, NEW u \in Users, Covered(P, u),
           NEW w \in Workers, Release(w), Reset(w), UNCHANGED stream,
           \A i \in Ids : Seen(i)' <=> Seen(i),
           \A i \in Ids \ {claim[w]} : status'[i] = status[i],
           \/ status'[claim[w]] \in {"pending", "failed"}
           \/ pc[w] = "loop" /\ todo[w] = {}
    PROVE  Covered(P, u)'
<1>1. \A i \in Ids : Weighs(i, u)' <=> Weighs(i, u)
  BY WeighsKept DEF Reset
<1>2. /\ \A v \in Workers \ {w} : /\ claim'[v] = claim[v] /\ pc'[v] = pc[v] /\ todo'[v] = todo[v]
                                 /\ cur'[v] = cur[v] /\ desired'[v] = desired[v]
      /\ claim'[w] = None /\ pc'[w] = "idle"
      /\ claim[w] \in Ids /\ status[claim[w]] = "pending"
      /\ \A v \in Workers : claim[v] = claim[w] => v = w
  BY DEF Release, Reset, IInv, TypeOK, HeldRowsAreOpen, WorkersKnown, ShapeOK
<1>3. \A v \in Workers \ {w} :
        /\ Ahead(P, v, u)' <=> Ahead(P, v, u)
        /\ Midway(P, v, u)' <=> Midway(P, v, u)
        /\ Good(P, v, u)' <=> Good(P, v, u)
  BY <1>2 DEF Reset, Ahead, Midway, Good, Unread, Unwritten, store, GroupNames, Parts
<1>4. ~Midway(P, w, u)'
  BY <1>2 DEF Midway, Unwritten, Parts
<1>5. Fresh(P, u)' <=> Fresh(P, u)
  BY DEF Reset, store, Fresh, GroupNames, Parts
<1>6. None \notin Ids
  BY DEF None, Ids
<1>7. CASE \E i \in Ids : Unspent(P, i, u)
  <2>1. PICK i \in Ids : Unspent(P, i, u)
    BY <1>7
  <2>2. CASE i # claim[w]
    BY <1>1, <1>2, <1>3, <1>6, <2>1, <2>2 DEF Unspent, Covered
  <2>3. CASE i = claim[w]
    <3>1. ~(pc[w] = "loop" /\ todo[w] = {})
      BY <2>1, <2>3 DEF Unspent, Ahead, Unread, Parts
    <3>2. status'[i] \in {"pending", "failed"}
      BY <2>3, <3>1
    <3>3. \A v \in Workers : claim'[v] # i
      BY <1>2, <1>6, <2>3
    <3> QED BY <1>1, <2>1, <3>2, <3>3 DEF Unspent, Covered
  <2> QED BY <2>2, <2>3
<1>8. CASE /\ \A v \in Workers : Midway(P, v, u) => Good(P, v, u)
           /\ Fresh(P, u) \/ \E v \in Workers : Midway(P, v, u) /\ Weighs(claim[v], u)
  <2>1. \A v \in Workers : Midway(P, v, u)' => Good(P, v, u)'
    BY <1>3, <1>4, <1>8
  <2>2. CASE Fresh(P, u)
    BY <1>5, <2>1, <2>2 DEF Covered
  <2>3. ASSUME NEW v \in Workers \ {w}, Midway(P, v, u) /\ Weighs(claim[v], u)
        PROVE  Covered(P, u)'
    <3>1. claim[v] \in Ids /\ claim'[v] = claim[v]
      BY <1>2, <2>3, MidwayIsInside DEF IInv, TypeOK
    <3>2. Midway(P, v, u)' /\ Weighs(claim[v], u)'
      BY <1>1, <1>2, <1>3, <2>3, <3>1
    <3> QED BY <2>1, <3>2 DEF Covered
  <2>4. CASE Midway(P, w, u) /\ Weighs(claim[w], u)
    <3>1. status'[claim[w]] \in {"pending", "failed"}
      BY <2>4 DEF Midway, Unwritten, Parts
    <3>2. \A v \in Workers : claim'[v] # claim[w]
      BY <1>2, <1>6
    <3>3. PICK i \in Ids : i = claim[w]
      BY <1>2
    <3>4. Unspent(P, i, u)'
      BY <1>1, <2>4, <3>1, <3>2, <3>3 DEF Unspent
    <3> QED BY <3>4 DEF Covered
  <2> QED BY <1>8, <2>2, <2>3, <2>4
<1> QED BY <1>7, <1>8 DEF Covered

(* Every step of a worker.                                                 *)
LEMMA CoveredByWorkers ==
    ASSUME IInv, RowsKnown, ShapeOK, WorkersKnown, NEW P \in Parts, NEW u \in Users, Covered(P, u),
           NEW w \in Workers, DirectoryWork(w)
    PROVE  Covered(P, u)'
<1>1. CASE ClaimEvent(w)
  <2>1. \A i \in Ids, x \in Users : Weighs(i, x)' <=> Weighs(i, x)
    BY <1>1, WeighsKept DEF ClaimEvent, Claim, rowVars, Seen
  <2>2. pc[w] = "idle" /\ pc'[w] = "claimed"
    BY <1>1 DEF ClaimEvent, Claim, WorkersKnown, ShapeOK
  <2>3. Ahead(P, w, u)' /\ ~Midway(P, w, u) /\ ~Midway(P, w, u)'
    BY <2>2 DEF Ahead, Midway, Unwritten, Parts
  <2>4. \A v \in Workers \ {w} :
          /\ claim'[v] = claim[v]
          /\ Ahead(P, v, u)' <=> Ahead(P, v, u)
          /\ Midway(P, v, u)' <=> Midway(P, v, u)
          /\ Good(P, v, u)' <=> Good(P, v, u)
    BY <1>1 DEF ClaimEvent, Claim, Ahead, Midway, Good, Unread, Unwritten, store, GroupNames,
                Parts, IInv, TypeOK, ShapeOK
  <2>5. Fresh(P, u)' <=> Fresh(P, u)
    BY <1>1 DEF ClaimEvent, store, Fresh, GroupNames, Parts
  <2>6. UNCHANGED status
    BY <1>1 DEF ClaimEvent, Claim, rowVars
  <2>7. CASE \E i \in Ids : Unspent(P, i, u)
    BY <2>1, <2>3, <2>4, <2>6, <2>7 DEF Unspent, Covered
  <2>8. CASE /\ \A v \in Workers : Midway(P, v, u) => Good(P, v, u)
             /\ Fresh(P, u) \/ \E v \in Workers : Midway(P, v, u) /\ Weighs(claim[v], u)
    <3>1. \A v \in Workers : Midway(P, v, u)' => Good(P, v, u)'
      BY <2>3, <2>4, <2>8
    <3>2. \A v \in Workers : Midway(P, v, u) => claim[v] \in Ids
      BY MidwayIsInside DEF IInv, TypeOK
    <3>3. Fresh(P, u)' \/ \E v \in Workers : Midway(P, v, u)' /\ Weighs(claim[v], u)'
      BY <2>1, <2>3, <2>4, <2>5, <2>8, <3>2
    <3> QED BY <3>1, <3>3 DEF Covered
  <2> QED BY <2>7, <2>8 DEF Covered
<1>2. CASE FanOut(w)
  <2>1. pc[w] = "claimed" /\ pc'[w] = "loop" /\ todo'[w] = Affected(change[claim[w]])
    BY <1>2 DEF FanOut, ShapeOK
  <2>2. Weighs(claim[w], u) => u \in todo'[w]
    <3>1. claim[w] \in Ids /\ status[claim[w]] = "pending"
      BY <2>1 DEF WorkersKnown, IInv, TypeOK, HeldRowsAreOpen
    <3>2. change[claim[w]] \in Changes
      BY <3>1 DEF RowsKnown
    <3> QED BY <2>1, <3>2, DirectoryAssumption DEF Weighs, Concerns, Affected, Changes
  <2>3. /\ \A v \in Workers \ {w} : /\ pc'[v] = pc[v] /\ todo'[v] = todo[v]
                                   /\ cur'[v] = cur[v] /\ desired'[v] = desired[v]
        /\ UNCHANGED <<vars, store, remote>>
    BY <1>2 DEF FanOut, ShapeOK
  <2>4. ~Midway(P, w, u) /\ ~Midway(P, w, u)'
    BY <2>1 DEF Midway, Unwritten, Parts
  <2>5. Fresh(P, u)' <=> Fresh(P, u)
    BY <2>3 DEF store, Fresh, GroupNames, Parts
  <2> QED BY <2>2, <2>3, <2>4, <2>5, WorkerMoves DEF Ahead
<1>3. CASE NextUser(w)
  <2>1. PICK x \in todo[w] : /\ pc[w] = "loop" /\ pc'[w] = "waiting"
                             /\ cur'[w] = x /\ todo'[w] = todo[w] \ {x}
    BY <1>3 DEF NextUser, ShapeOK
  <2>2. Ahead(P, w, u) => Ahead(P, w, u)'
    BY <2>1 DEF Ahead, Unread, Parts
  <2>3. /\ \A v \in Workers \ {w} : /\ pc'[v] = pc[v] /\ todo'[v] = todo[v]
                                   /\ cur'[v] = cur[v] /\ desired'[v] = desired[v]
        /\ UNCHANGED <<vars, store, remote>>
    BY <1>3 DEF NextUser, ShapeOK
  <2>4. ~Midway(P, w, u) /\ ~Midway(P, w, u)'
    BY <2>1 DEF Midway, Unwritten, Parts
  <2>5. Fresh(P, u)' <=> Fresh(P, u)
    BY <2>3 DEF store, Fresh, GroupNames, Parts
  <2> QED BY <2>2, <2>3, <2>4, <2>5, WorkerMoves
<1>4. CASE LockUser(w)
  <2>1. pc[w] = "waiting" /\ pc'[w] = "locked" /\ UNCHANGED <<cur, todo, desired, vars, store, remote>>
    BY <1>4 DEF LockUser, ShapeOK
  <2>2. Ahead(P, w, u) => Ahead(P, w, u)'
    BY <2>1 DEF Ahead, Unread, Parts
  <2>3. \A v \in Workers \ {w} : pc'[v] = pc[v]
    BY <1>4 DEF LockUser, ShapeOK
  <2>4. ~Midway(P, w, u) /\ ~Midway(P, w, u)'
    BY <2>1 DEF Midway, Unwritten, Parts
  <2>5. Fresh(P, u)' <=> Fresh(P, u)
    BY <2>1 DEF store, Fresh, GroupNames, Parts
  <2> QED BY <2>1, <2>2, <2>3, <2>4, <2>5, WorkerMoves
<1>5. CASE CallFails(w) \/ DeadlockVictim(w)
  <2>1. pc'[w] = "thrown" /\ UNCHANGED <<cur, todo, desired, vars, store, remote>>
    BY <1>5 DEF CallFails, DeadlockVictim, Throw, ShapeOK
  <2>2. Ahead(P, w, u)'
    BY <2>1 DEF Ahead
  <2>3. \A v \in Workers \ {w} : pc'[v] = pc[v]
    BY <1>5 DEF CallFails, DeadlockVictim, Throw, ShapeOK
  <2>4. ~Midway(P, w, u)'
    BY <2>1 DEF Midway, Unwritten, Parts
  <2>5. Fresh(P, u)' <=> Fresh(P, u)
    BY <2>1 DEF store, Fresh, GroupNames, Parts
  <2> QED BY <2>1, <2>2, <2>3, <2>4, <2>5, WorkerMoves
<1>6. CASE ReadUser(w) \/ ReadGroups(w)
  <2>1. /\ UNCHANGED <<cur, todo, locks, vars, store, remote>>
        /\ \A v \in Workers \ {w} : pc'[v] = pc[v] /\ desired'[v] = desired[v]
    BY <1>6 DEF ReadUser, ReadGroups, ShapeOK
  <2>2. /\ pc[w] \in Inside /\ cur[w] \in Users /\ cur[w] \in locks[w]
        /\ \A v \in Workers \ {w} : cur[w] \notin locks[v]
    BY <1>6 DEF ReadUser, ReadGroups, WorkersKnown, Inside
  <2>3. cur[w] = u => \A v \in Workers \ {w} : ~Midway(P, v, u)
    BY <2>2, MidwayIsInside
  <2>4. Fresh(P, u)' <=> Fresh(P, u)
    BY <2>1 DEF store, Fresh, GroupNames, Parts
  <2>5. CASE ReadUser(w)
    <3>1. pc[w] = "locked" /\ pc'[w] = "row"
      BY <2>5 DEF ReadUser, ShapeOK
    <3>2. desired'[w] = [NoAccount EXCEPT !.profile = profile[cur[w]], !.enabled = cur[w] \in active]
      BY <2>5 DEF ReadUser, ShapeOK
    <3>3. desired'[w].profile = profile[cur[w]] /\ (desired'[w].enabled <=> cur[w] \in active)
      <4> DEFINE a == profile[cur[w]]
                 b == cur[w] \in active
      <4> HIDE DEF a, b
      <4>1. desired'[w] = [NoAccount EXCEPT !.profile = a, !.enabled = b]
        BY <3>2 DEF a, b
      <4>2. desired'[w].profile = a /\ desired'[w].enabled = b
        BY <4>1 DEF NoAccount
      <4> QED BY <4>2 DEF a, b
    <3>4. Ahead(P, w, u) =>
            \/ Ahead(P, w, u)'
            \/ Midway(P, w, u)' /\ cur[w] = u
      BY <2>1, <3>1 DEF Ahead, Unread, Midway, Unwritten, Parts
    <3>5. Midway(P, w, u)' => Good(P, w, u)' /\ cur[w] = u
      BY <2>1, <3>1, <3>3 DEF Midway, Good, Unwritten, Parts, store
    <3>6. ~Midway(P, w, u)
      BY <3>1 DEF Midway, Unwritten, Parts
    <3> QED BY <2>1, <2>3, <2>4, <3>4, <3>5, <3>6, WorkerMoves
  <2>6. CASE ReadGroups(w)
    <3>1. pc[w] = "row" /\ pc'[w] = "built"
      BY <2>6 DEF ReadGroups, ShapeOK
    <3>2. /\ desired'[w].profile = desired[w].profile
          /\ desired'[w].enabled = desired[w].enabled
          /\ desired'[w].groups = GroupNames(cur[w])
      <4>1. desired' = [desired EXCEPT ![w] = [desired[w] EXCEPT !.groups = GroupNames(cur[w])]]
        BY <2>6 DEF ReadGroups
      <4>2. desired'[w] = [desired[w] EXCEPT !.groups = GroupNames(cur[w])] /\ desired[w] \in AccountShape
        BY <4>1 DEF ShapeOK
      <4> QED BY <4>2 DEF AccountShape
    <3>3. Ahead(P, w, u) =>
            \/ Ahead(P, w, u)'
            \/ Midway(P, w, u)' /\ cur[w] = u
      BY <2>1, <3>1 DEF Ahead, Unread, Midway, Unwritten, Parts
    <3>4. Midway(P, w, u)' =>
            cur[w] = u /\ (Good(P, w, u)' \/ (Midway(P, w, u) /\ (Good(P, w, u) => Good(P, w, u)')))
      <4>1. ASSUME cur[w] = u, P = "groups" PROVE Good(P, w, u)'
        BY <2>1, <3>2, <4>1 DEF Good, store, GroupNames
      <4>2. ASSUME P # "groups", Good(P, w, u) PROVE Good(P, w, u)'
        BY <2>1, <3>2, <4>2 DEF Good, store, Parts
      <4>3. Midway(P, w, u)' => cur[w] = u /\ (P = "groups" \/ Midway(P, w, u))
        BY <2>1, <3>1 DEF Midway, Unwritten, Parts
      <4> QED BY <4>1, <4>2, <4>3
    <3>5. Midway(P, w, u) => Midway(P, w, u)'
      BY <2>1, <3>1 DEF Midway, Unwritten, Parts
    <3>6. Ahead(P, w, u) /\ ~Ahead(P, w, u)' => Good(P, w, u)'
      <4>1. CASE P = "groups"
        BY <2>1, <3>1, <3>2, <4>1 DEF Ahead, Unread, Good, store, GroupNames
      <4>2. CASE P # "groups"
        BY <2>1, <3>1, <4>2 DEF Ahead, Unread
      <4> QED BY <4>1, <4>2
    <3> QED BY <2>1, <2>3, <2>4, <3>3, <3>4, <3>5, <3>6, WorkerMoves
  <2> QED BY <1>6, <2>5, <2>6
<1>7. CASE UpdateUser(w) \/ SetEnabled(w) \/ SetUserGroups(w)
  <2>1. /\ UNCHANGED <<todo, desired, locks, vars, store>>
        /\ \A v \in Workers \ {w} : pc'[v] = pc[v] /\ cur'[v] = cur[v]
    BY <1>7 DEF UpdateUser, SetEnabled, SetUserGroups, Request, ShapeOK
  <2>2. cur[w] \in Users /\ pc[w] \in Inside
    BY <1>7 DEF UpdateUser, SetEnabled, SetUserGroups, Request, WorkersKnown, Inside
  <2>3. remote[cur[w]] \in AccountShape
    BY <2>2 DEF ShapeOK
  <2>4. Good(P, w, u)' <=> Good(P, w, u)
    BY <2>1 DEF Good, store, GroupNames, Parts
  <2>5. CASE UpdateUser(w)
    <3>1. pc[w] = "built" /\ pc'[w] = "updated" /\ UNCHANGED cur
      BY <2>5 DEF UpdateUser, Request, ShapeOK
    <3>2. remote' = [remote EXCEPT ![cur[w]] = [remote[cur[w]] EXCEPT !.profile = desired[w].profile]]
      BY <2>5 DEF UpdateUser
    <3>3. /\ remote'[cur[w]].profile = desired[w].profile
          /\ remote'[cur[w]].enabled = remote[cur[w]].enabled
          /\ remote'[cur[w]].groups = remote[cur[w]].groups
          /\ \A x \in Users \ {cur[w]} : remote'[x] = remote[x]
      BY <2>2, <2>3, <3>2 DEF AccountShape, ShapeOK
    <3>4. Ahead(P, w, u) => Ahead(P, w, u)'
      BY <2>1, <3>1 DEF Ahead, Unread, Parts
    <3>5. Midway(P, w, u)' => Midway(P, w, u)
      BY <3>1 DEF Midway, Unwritten, Parts
    <3>6. Midway(P, w, u) => Midway(P, w, u)' \/ (Good(P, w, u) => Fresh(P, u)')
      BY <2>1, <3>1, <3>3 DEF Midway, Unwritten, Good, Fresh, Parts, store, GroupNames
    <3>7. Fresh(P, u) /\ (Midway(P, w, u) => Good(P, w, u)) => Fresh(P, u)'
      BY <2>1, <3>1, <3>3 DEF Midway, Unwritten, Good, Fresh, Parts, store, GroupNames
    <3> QED BY <2>1, <2>4, <3>4, <3>5, <3>6, <3>7, WorkerMoves
  <2>6. CASE SetEnabled(w)
    <3>1. pc[w] = "updated" /\ pc'[w] = "enabled" /\ UNCHANGED cur
      BY <2>6 DEF SetEnabled, Request, ShapeOK
    <3>2. remote' = [remote EXCEPT ![cur[w]] = [remote[cur[w]] EXCEPT !.enabled = desired[w].enabled]]
      BY <2>6 DEF SetEnabled
    <3>3. /\ remote'[cur[w]].profile = remote[cur[w]].profile
          /\ remote'[cur[w]].enabled = desired[w].enabled
          /\ remote'[cur[w]].groups = remote[cur[w]].groups
          /\ \A x \in Users \ {cur[w]} : remote'[x] = remote[x]
      BY <2>2, <2>3, <3>2 DEF AccountShape, ShapeOK
    <3>4. Ahead(P, w, u) => Ahead(P, w, u)'
      BY <2>1, <3>1 DEF Ahead, Unread, Parts
    <3>5. Midway(P, w, u)' => Midway(P, w, u)
      BY <3>1 DEF Midway, Unwritten, Parts
    <3>6. Midway(P, w, u) => Midway(P, w, u)' \/ (Good(P, w, u) => Fresh(P, u)')
      BY <2>1, <3>1, <3>3 DEF Midway, Unwritten, Good, Fresh, Parts, store, GroupNames
    <3>7. ~Midway(P, w, u)' \/ P # "enabled"
      BY <3>1 DEF Midway, Unwritten
    <3>8. Fresh(P, u) /\ (Midway(P, w, u) => Good(P, w, u)) => Fresh(P, u)'
      <4>1. CASE P # "enabled" \/ cur[w] # u
        BY <2>1, <3>3, <4>1 DEF Fresh, Parts, store, GroupNames
      <4>2. CASE P = "enabled" /\ cur[w] = u
        <5>1. Midway(P, w, u)
          BY <3>1, <4>2 DEF Midway, Unwritten
        <5> QED BY <3>6, <3>7, <4>2, <5>1
      <4> QED BY <4>1, <4>2
    <3> QED BY <2>1, <2>4, <3>4, <3>5, <3>6, <3>8, WorkerMoves
  <2>7. CASE SetUserGroups(w)
    <3>1. pc[w] = "enabled" /\ pc'[w] = "loop" /\ cur'[w] = NoUser /\ NoUser # u
      BY <2>7, DirectoryAssumption DEF SetUserGroups, Request, ShapeOK
    <3>2. remote' = [remote EXCEPT ![cur[w]] = [remote[cur[w]] EXCEPT !.groups = desired[w].groups]]
      BY <2>7 DEF SetUserGroups
    <3>3. /\ remote'[cur[w]].profile = remote[cur[w]].profile
          /\ remote'[cur[w]].enabled = remote[cur[w]].enabled
          /\ remote'[cur[w]].groups = desired[w].groups
          /\ \A x \in Users \ {cur[w]} : remote'[x] = remote[x]
      BY <2>2, <2>3, <3>2 DEF AccountShape, ShapeOK
    <3>4. Ahead(P, w, u) => Ahead(P, w, u)'
      BY <2>1, <3>1 DEF Ahead, Unread, Parts
    <3>5. ~Midway(P, w, u)'
      BY <3>1 DEF Midway, Unwritten, Parts
    <3>6. Midway(P, w, u) => (Good(P, w, u) => Fresh(P, u)')
      BY <2>1, <3>1, <3>3 DEF Midway, Unwritten, Good, Fresh, Parts, store, GroupNames
    <3>7. Fresh(P, u) /\ (Midway(P, w, u) => Good(P, w, u)) => Fresh(P, u)'
      <4>1. CASE P # "groups" \/ cur[w] # u
        BY <2>1, <3>3, <4>1 DEF Fresh, Parts, store, GroupNames
      <4>2. CASE P = "groups" /\ cur[w] = u
        <5>1. Midway(P, w, u)
          BY <3>1, <4>2 DEF Midway, Unwritten
        <5> QED BY <3>6, <5>1
      <4> QED BY <4>1, <4>2
    <3> QED BY <2>1, <3>4, <3>5, <3>6, <3>7, WorkerMoves
  <2> QED BY <1>7, <2>5, <2>6, <2>7
<1>8. CASE Finish(w) \/ RecordFailure(w) \/ WorkerCrash(w)
  <2>1. Release(w) /\ Reset(w) /\ UNCHANGED stream
    BY <1>8 DEF Finish, RecordFailure, WorkerCrash, Succeed, Fail, Crash, rowVars
  <2>2. \A i \in Ids : Seen(i)' <=> Seen(i)
    BY OnlySeenRowsMove DEF Seen
  <2>3. /\ \A i \in Ids \ {claim[w]} : status'[i] = status[i]
        /\ \/ status'[claim[w]] \in {"pending", "failed"}
           \/ pc[w] = "loop" /\ todo[w] = {}
    <3>1. claim[w] \in Ids /\ status[claim[w]] = "pending"
      BY <2>1 DEF Release, IInv, TypeOK, HeldRowsAreOpen
    <3> QED BY <1>8, <3>1 DEF Finish, RecordFailure, WorkerCrash, Succeed, Fail, Crash, rowVars, IInv, TypeOK
  <2> QED BY <2>1, <2>2, <2>3, WorkerLeaves
<1> QED BY <1>1, <1>2, <1>3, <1>4, <1>5, <1>6, <1>7, <1>8 DEF DirectoryWork, Progress

(* A row of a transaction that has not ended weighs on nobody yet.         *)
LEMMA CoveredThroughWrites ==
    ASSUME IInv, RowsKnown, ShapeOK, WorkersKnown, NEW P \in Parts, NEW u \in Users, Covered(P, u),
           NEW p \in Producers, RollbackChanges(p) \/ \E c \in Changes : Write(p, c)
    PROVE  Covered(P, u)'
<1>1. UNCHANGED <<profile, active, name, members, remote, pc, todo, cur, desired, claim>>
  BY DEF RollbackChanges, Rollback, EndTxn, Write, Insert, store, local
<1>2. \A i \in Ids : Seen(i)' <=> Seen(i)
  <2>1. CASE RollbackChanges(p)
    BY <2>1 DEF RollbackChanges, Rollback, EndTxn, Seen, IInv, TxnRows
  <2>2. ASSUME NEW c \in Changes, Write(p, c)
        PROVE  \A i \in Ids : Seen(i)' <=> Seen(i)
    <3>1. lastId + 1 \in Ids /\ status[lastId + 1] = "absent"
      BY <2>2, OutboxAssumption DEF Write, Insert, IInv, TypeOK, FreshRows, Ids
    <3> QED BY <2>2, <3>1 DEF Write, Insert, Seen, IInv, TypeOK
  <2> QED BY <2>1, <2>2
<1>3. \A i \in Ids : Seen(i) =>
        stream'[i] = stream[i] /\ change'[i] = change[i] /\ status'[i] = status[i]
  <2>1. CASE RollbackChanges(p)
    BY <2>1 DEF RollbackChanges, Rollback, EndTxn, Seen, IInv, TxnRows, store
  <2>2. ASSUME NEW c \in Changes, Write(p, c), NEW i \in Ids, Seen(i)
        PROVE  stream'[i] = stream[i] /\ change'[i] = change[i] /\ status'[i] = status[i]
    <3>1. lastId + 1 \in Ids /\ status[lastId + 1] = "absent"
      BY <2>2, OutboxAssumption DEF Write, Insert, IInv, TypeOK, FreshRows, Ids
    <3> QED BY <2>2, <3>1 DEF Write, Insert, Seen, IInv, TypeOK, ShapeOK
  <2> QED BY <2>1, <2>2
<1>4. \A i \in Ids : Weighs(i, u)' <=> Weighs(i, u)
  BY <1>1, <1>2, <1>3 DEF Weighs, SameRow, Concerns
<1>5. Fresh(P, u)' <=> Fresh(P, u)
  BY <1>1 DEF Fresh, GroupNames, Parts
<1>6. \A w \in Workers :
        /\ Ahead(P, w, u)' <=> Ahead(P, w, u)
        /\ Midway(P, w, u)' <=> Midway(P, w, u)
        /\ Good(P, w, u)' <=> Good(P, w, u)
  BY <1>1 DEF Ahead, Midway, Good, Unread, Unwritten, GroupNames, Parts
<1>7. \A i \in Ids : Unspent(P, i, u) => Unspent(P, i, u)'
  BY <1>1, <1>3, <1>4, <1>6 DEF Unspent, Weighs
<1>8. \A w \in Workers : Midway(P, w, u) => claim[w] \in Ids
  BY MidwayIsInside DEF IInv, TypeOK
<1> QED BY <1>1, <1>4, <1>5, <1>6, <1>7, <1>8 DEF Covered

(* A commit changes a user's account only along with a row that weighs on  *)
(* the user and that no worker has seen.                                   *)
LEMMA CoveredThroughCommits ==
    ASSUME IInv, RowsKnown, ShapeOK, WorkersKnown, NEW P \in Parts, NEW u \in Users, Covered(P, u),
           NEW p \in Producers, CommitChanges(p)
    PROVE  Covered(P, u)'
<1>1. UNCHANGED <<change, stream, remote, pc, todo, cur, desired, claim>>
  BY DEF CommitChanges, Commit, EndTxn, local
<1>2. /\ \A i \in Ids : status'[i] = IF i \in txn[p] THEN "pending" ELSE status[i]
      /\ \A i \in txn[p] : i \in Ids /\ status[i] = "writing"
  BY DEF CommitChanges, Commit, EndTxn, IInv, TypeOK, TxnRows
<1>3. ASSUME NEW i \in txn[p], Concerns(i, u)'
      PROVE  Covered(P, u)'
  <2>1. Weighs(i, u)'
    <3>1. \A j \in Ids : Seen(j)' /\ SameRow(j, i) => j <= i
      BY <1>2 DEF RowsKnown, SameRow, Seen, Ids
    <3> QED BY <1>1, <1>2, <1>3, <3>1 DEF Weighs, SameRow, Seen
  <2>2. \A w \in Workers : claim[w] # i
    BY <1>2 DEF IInv, HeldRowsAreOpen, None, Ids
  <2> QED BY <1>1, <1>2, <2>1, <2>2 DEF Unspent, Covered
<1>4. ASSUME \A i \in txn[p] : ~Concerns(i, u)'
      PROVE  Covered(P, u)'
  <2>1. \A kind : u \notin UsersOf(Made(p, kind))
    BY <1>1, <1>4 DEF UsersOf, Made, Concerns
  <2>2. profile'[u] = profile[u] /\ (u \in active' <=> u \in active)
    BY <2>1 DEF CommitChanges, ShapeOK
  <2>3. \A g \in Groups : u \in members'[g] <=> u \in members[g]
    BY <2>1 DEF CommitChanges, UsersOf, In, ShapeOK
  <2>4. \A g \in Groups : u \in members'[g] => name'[g] = name[g]
    <3> SUFFICES ASSUME NEW g \in Groups, u \in members'[g]
                 PROVE  name'[g] = name[g]
      OBVIOUS
    <3>1. In(g, Made(p, "rename")) = {}
      BY <1>1, <1>4 DEF In, Made, Concerns
    <3>2. Cardinality(In(g, Made(p, "rename"))) = 0
      BY <3>1, FS_EmptySet
    <3>3. name'[g] = name[g] + Cardinality(In(g, Made(p, "rename")))
      BY DEF CommitChanges
    <3> QED BY <3>2, <3>3 DEF ShapeOK
  <2>5. Fresh(P, u)' <=> Fresh(P, u)
    BY <1>1, <2>2, <2>3, <2>4 DEF Fresh, GroupNames, Parts
  <2>6. \A w \in Workers :
          /\ Ahead(P, w, u)' <=> Ahead(P, w, u)
          /\ Midway(P, w, u)' <=> Midway(P, w, u)
          /\ Good(P, w, u)' <=> Good(P, w, u)
    <3>1. GroupNames(u)' = GroupNames(u)
      BY <2>3, <2>4 DEF GroupNames
    <3> QED BY <1>1, <2>2, <3>1 DEF Ahead, Midway, Good, Unread, Unwritten, Parts
  <2>7. \A i \in Ids : Seen(i) => (Concerns(i, u)' <=> Concerns(i, u))
    <3> SUFFICES ASSUME NEW i \in Ids, Seen(i) PROVE Concerns(i, u)' <=> Concerns(i, u)
      OBVIOUS
    <3>1. change[i] \in Changes
      BY DEF RowsKnown, Seen
    <3>2. change[i].kind = "rename" => change[i].group \in Groups
      BY <3>1 DEF Changes, Change
    <3> QED BY <1>1, <2>3, <3>2 DEF Concerns
  <2>8. \A i \in Ids : Weighs(i, u) => Weighs(i, u)'
    <3> SUFFICES ASSUME NEW i \in Ids, Weighs(i, u) PROVE Weighs(i, u)'
      OBVIOUS
    <3>1. Seen(i) /\ Concerns(i, u)' /\ Seen(i)'
      BY <1>2, <2>7 DEF Weighs, Seen
    <3>2. change[i] \in Changes /\ stream[i] = StreamOf(change[i])
      BY <3>1 DEF RowsKnown, Seen
    <3>3. ASSUME NEW j \in Ids, Seen(j)', SameRow(j, i) PROVE j <= i
      <4>1. CASE Seen(j)
        BY <3>3, <4>1 DEF Weighs
      <4>2. CASE ~Seen(j)
        <5>1. j \in txn[p] /\ ~Concerns(j, u)'
          BY <1>2, <1>4, <3>3, <4>2 DEF Seen
        <5>2. change[j] \in Changes /\ stream[j] = StreamOf(change[j])
          BY <1>2, <5>1 DEF RowsKnown
        <5>3. change[i].user # u
          BY <1>1, <3>3, <5>1 DEF SameRow, Concerns
        <5>4. change[i].kind = "rename" /\ u \in members'[change[i].group]
          BY <1>1, <3>1, <5>3 DEF Concerns
        <5>5. change[j].kind = "rename" /\ change[j].group = change[i].group
          BY <3>2, <3>3, <5>2, <5>4 DEF SameRow, StreamOf, Changes, Change, AllKinds
        <5> QED BY <1>1, <5>1, <5>4, <5>5 DEF Concerns
      <4> QED BY <4>1, <4>2
    <3> QED BY <1>1, <3>1, <3>3 DEF Weighs, SameRow
  <2>9. \A i \in Ids : Unspent(P, i, u) => Unspent(P, i, u)'
    BY <1>1, <1>2, <2>6, <2>8 DEF Unspent
  <2>10. \A w \in Workers : Midway(P, w, u) => claim[w] \in Ids
    BY MidwayIsInside DEF IInv, TypeOK
  <2> QED BY <1>1, <2>5, <2>6, <2>8, <2>9, <2>10 DEF Covered
<1> QED BY <1>3, <1>4

LEMMA CoveredKept ==
    ASSUME IInv, RowsKnown, ShapeOK, WorkersKnown, NEW P \in Parts, NEW u \in Users, Covered(P, u),
           [DirectoryNext]_dvars
    PROVE  Covered(P, u)'
<1>1. CASE QueueStep
  <2>1. UNCHANGED <<stream, store, remote, local, claim>>
    BY <1>1 DEF QueueStep, BecomeDue, Operate, FindFailed, Retry, rowVars
  <2>2. \A i \in Ids : Seen(i)' <=> Seen(i)
    BY <1>1, OnlySeenRowsMove DEF Seen
  <2>3. \A i \in Ids : Weighs(i, u)' <=> Weighs(i, u)
    BY <2>1, <2>2, WeighsKept
  <2>4. \A i \in Ids : status'[i] \in {status[i], "pending"}
    BY <1>1 DEF QueueStep, BecomeDue, Operate, FindFailed, Retry, rowVars, IInv, TypeOK
  <2>5. \A i \in Ids : Unspent(P, i, u) => Unspent(P, i, u)'
    BY <2>1, <2>3, <2>4 DEF Unspent, Ahead, Unread, Parts, local
  <2>6. /\ Fresh(P, u)' <=> Fresh(P, u)
        /\ \A w \in Workers :
              /\ Midway(P, w, u)' <=> Midway(P, w, u)
              /\ Good(P, w, u)' <=> Good(P, w, u)
    BY <2>1 DEF Midway, Good, Fresh, Unwritten, Parts, local, store, GroupNames
  <2>7. \A w \in Workers : Midway(P, w, u) => claim[w] \in Ids
    BY MidwayIsInside DEF IInv, TypeOK
  <2> QED BY <2>1, <2>3, <2>5, <2>6, <2>7 DEF Covered
<1>2. CASE UNCHANGED dvars
  <2>1. UNCHANGED <<stream, status, store, remote, local, claim>>
    BY <1>2 DEF dvars, vars
  <2>2. \A i \in Ids : Weighs(i, u)' <=> Weighs(i, u)
    BY <1>2 DEF dvars, vars, store, local, Weighs, SameRow, Seen, Concerns
  <2>3. \A i \in Ids : Unspent(P, i, u)' <=> Unspent(P, i, u)
    BY <2>1, <2>2 DEF Unspent, Ahead, local
  <2>4. /\ Fresh(P, u)' <=> Fresh(P, u)
        /\ \A w \in Workers :
              /\ Midway(P, w, u)' <=> Midway(P, w, u)
              /\ Good(P, w, u)' <=> Good(P, w, u)
    BY <2>1 DEF Midway, Good, Fresh, local, store, GroupNames
  <2>5. \A w \in Workers : Midway(P, w, u) => claim[w] \in Ids
    BY MidwayIsInside DEF IInv, TypeOK
  <2> QED BY <2>1, <2>2, <2>3, <2>4, <2>5 DEF Covered
<1> QED BY <1>1, <1>2, CoveredByWorkers, CoveredThroughWrites, CoveredThroughCommits
        DEF DirectoryNext

-----------------------------------------------------------------------------
(* Profiles only grow, and a reading is never older than the account.      *)
LEMMA ProfilesLagKept ==
    ASSUME ShapeOK, WorkersKnown, ProfilesLag, [DirectoryNext]_dvars
    PROVE  ProfilesLag'
<1>1. ASSUME UNCHANGED <<profile, remote, pc, cur, desired>> PROVE ProfilesLag'
  BY <1>1 DEF ProfilesLag
<1>2. ASSUME NEW p \in Producers, CommitChanges(p)
      PROVE  ProfilesLag'
  <2>1. \A u \in Users : profile[u] <= profile'[u] /\ profile'[u] \in Nat
    BY <1>2 DEF CommitChanges, ShapeOK
  <2>2. \A u \in Users : remote[u].profile \in Nat
    BY DEF ShapeOK, AccountShape
  <2>3. \A w \in Workers : pc[w] \in {"row", "built"} => cur[w] \in Users /\ desired[w].profile \in Nat
    BY DEF ShapeOK, AccountShape, WorkersKnown, Inside
  <2>4. UNCHANGED <<remote, pc, cur, desired>>
    BY <1>2 DEF CommitChanges, local
  <2> QED BY <2>1, <2>2, <2>3, <2>4 DEF ProfilesLag, ShapeOK
<1>3. ASSUME NEW p \in Producers, RollbackChanges(p) \/ \E c \in Changes : Write(p, c)
      PROVE  ProfilesLag'
  BY <1>1, <1>3 DEF RollbackChanges, Write, store, local
<1>4. CASE QueueStep \/ UNCHANGED dvars
  BY <1>1, <1>4 DEF QueueStep, dvars, store, local
<1>5. ASSUME NEW w \in Workers, DirectoryWork(w)
      PROVE  ProfilesLag'
  <2>1. ASSUME UNCHANGED <<profile, remote>>,
               \A v \in Workers \ {w} : pc'[v] = pc[v] /\ cur'[v] = cur[v] /\ desired'[v] = desired[v],
               pc'[w] \notin {"row", "built"}
        PROVE  ProfilesLag'
    BY <2>1 DEF ProfilesLag
  <2>2. CASE ClaimEvent(w) \/ FanOut(w) \/ NextUser(w) \/ LockUser(w)
    BY <2>1, <2>2 DEF ClaimEvent, FanOut, NextUser, LockUser, store, ShapeOK
  <2>3. CASE ReadUser(w)
    <3>1. pc'[w] = "row" /\ UNCHANGED <<profile, remote, cur>> /\ cur[w] \in Users
      BY <2>3 DEF ReadUser, store, ShapeOK, WorkersKnown, Inside
    <3>2. \A v \in Workers \ {w} : pc'[v] = pc[v] /\ desired'[v] = desired[v]
      BY <2>3 DEF ReadUser, ShapeOK
    <3>3. desired'[w].profile = profile[cur[w]]
      <4> DEFINE a == profile[cur[w]]
                 b == cur[w] \in active
      <4> HIDE DEF a, b
      <4>1. desired'[w] = [NoAccount EXCEPT !.profile = a, !.enabled = b]
        BY <2>3 DEF ReadUser, ShapeOK, a, b
      <4>2. desired'[w].profile = a
        BY <4>1 DEF NoAccount
      <4> QED BY <4>2 DEF a
    <3>4. remote[cur[w]].profile <= desired'[w].profile /\ desired'[w].profile <= profile[cur[w]]
      BY <3>1, <3>3 DEF ProfilesLag, ShapeOK
    <3> QED BY <3>1, <3>2, <3>4 DEF ProfilesLag
  <2>4. CASE ReadGroups(w)
    <3>1. pc[w] = "row" /\ UNCHANGED <<profile, remote, cur>>
      BY <2>4 DEF ReadGroups, store
    <3>2. \A v \in Workers \ {w} : pc'[v] = pc[v] /\ desired'[v] = desired[v]
      BY <2>4 DEF ReadGroups, ShapeOK
    <3>3. desired'[w].profile = desired[w].profile
      <4>1. desired' = [desired EXCEPT ![w] = [desired[w] EXCEPT !.groups = GroupNames(cur[w])]]
        BY <2>4 DEF ReadGroups
      <4>2. desired'[w] = [desired[w] EXCEPT !.groups = GroupNames(cur[w])] /\ desired[w] \in AccountShape
        BY <4>1 DEF ShapeOK
      <4> QED BY <4>2 DEF AccountShape
    <3> QED BY <3>1, <3>2, <3>3 DEF ProfilesLag
  <2>5. CASE UpdateUser(w) \/ SetEnabled(w) \/ SetUserGroups(w)
    <3>1. /\ UNCHANGED <<profile, desired>>
          /\ cur[w] \in Users /\ cur[w] \in locks[w]
          /\ pc'[w] \notin {"row", "built"}
          /\ \A v \in Workers \ {w} : pc'[v] = pc[v] /\ cur'[v] = cur[v]
      BY <2>5 DEF UpdateUser, SetEnabled, SetUserGroups, Request, store, ShapeOK, WorkersKnown, Inside
    <3>2. /\ remote'[cur[w]].profile =
                IF UpdateUser(w) THEN desired[w].profile ELSE remote[cur[w]].profile
          /\ \A u \in Users \ {cur[w]} : remote'[u] = remote[u]
      <4>1. remote[cur[w]] \in AccountShape
        BY <3>1 DEF ShapeOK
      <4>2. CASE UpdateUser(w)
        <5>1. remote' = [remote EXCEPT ![cur[w]] = [remote[cur[w]] EXCEPT !.profile = desired[w].profile]]
          BY <4>2 DEF UpdateUser
        <5> QED BY <3>1, <4>1, <4>2, <5>1 DEF AccountShape, ShapeOK
      <4>3. CASE SetEnabled(w)
        <5>1. remote' = [remote EXCEPT ![cur[w]] = [remote[cur[w]] EXCEPT !.enabled = desired[w].enabled]]
          BY <4>3 DEF SetEnabled
        <5>2. ~UpdateUser(w)
          BY <4>3 DEF SetEnabled, UpdateUser, Request
        <5> QED BY <3>1, <4>1, <5>1, <5>2 DEF AccountShape, ShapeOK
      <4>4. CASE SetUserGroups(w)
        <5>1. remote' = [remote EXCEPT ![cur[w]] = [remote[cur[w]] EXCEPT !.groups = desired[w].groups]]
          BY <4>4 DEF SetUserGroups
        <5>2. ~UpdateUser(w)
          BY <4>4 DEF SetUserGroups, UpdateUser, Request
        <5> QED BY <3>1, <4>1, <5>1, <5>2 DEF AccountShape, ShapeOK
      <4> QED BY <2>5, <4>2, <4>3, <4>4
    <3>3. remote'[cur[w]].profile <= profile[cur[w]]
      BY <3>1, <3>2 DEF ProfilesLag, UpdateUser, Request
    <3>4. \A v \in Workers \ {w} : pc[v] \in {"row", "built"} => cur[v] \in Users /\ cur[v] # cur[w]
      BY <3>1 DEF WorkersKnown, Inside
    <3> QED BY <3>1, <3>2, <3>3, <3>4 DEF ProfilesLag
  <2>6. CASE Finish(w) \/ RecordFailure(w) \/ WorkerCrash(w)
    BY <2>1, <2>6 DEF Finish, RecordFailure, WorkerCrash, Reset, store, ShapeOK
  <2>7. CASE CallFails(w) \/ DeadlockVictim(w)
    BY <2>1, <2>7 DEF CallFails, DeadlockVictim, Throw, store, ShapeOK
  <2> QED BY <1>5, <2>2, <2>3, <2>4, <2>5, <2>6, <2>7 DEF DirectoryWork, Progress
<1> QED BY <1>2, <1>3, <1>4, <1>5 DEF DirectoryNext

-----------------------------------------------------------------------------
LEMMA InitDInv == DirectoryInit => DInv
<1> SUFFICES ASSUME DirectoryInit PROVE DInv
  OBVIOUS
<1>1. IInv
  BY InitIInv DEF DirectoryInit
<1>2. ShapeOK
  <2>1. \A u \in Users : GroupNames(u) \in [Groups -> Nat]
    BY DEF DirectoryInit, GroupNames
  <2>2. \A u \in Users : [profile |-> 0, enabled |-> TRUE, groups |-> GroupNames(u)] \in AccountShape
    BY <2>1 DEF AccountShape
  <2>3. NoAccount \in AccountShape
    BY DEF NoAccount, AccountShape
  <2>4. NoChange \in Change
    BY DEF NoChange, Change
  <2> QED BY <2>2, <2>3, <2>4 DEF DirectoryInit, ShapeOK, PC
<1>3. RowsKnown
  BY DEF DirectoryInit, Init, RowsKnown
<1>4. WorkersKnown
  BY DEF DirectoryInit, Init, WorkersKnown, Inside
<1>5. ASSUME NEW P \in Parts, NEW u \in Users PROVE Covered(P, u)
  <2>1. remote[u] = [profile |-> 0, enabled |-> TRUE, groups |-> GroupNames(u)] /\ profile[u] = 0 /\ u \in active
    BY DEF DirectoryInit
  <2>2. Fresh(P, u)
    <3>1. remote[u].profile = 0 /\ remote[u].enabled = TRUE /\ remote[u].groups = GroupNames(u)
      BY <2>1
    <3> QED BY <2>1, <3>1, Zenon DEF Fresh, Parts
  <2> QED BY <2>2 DEF DirectoryInit, Covered, Midway, Unwritten, Parts
<1>6. ProfilesLag
  BY DEF DirectoryInit, ProfilesLag
<1> QED BY <1>1, <1>2, <1>3, <1>4, <1>5, <1>6 DEF DInv

LEMMA StepDInv == DInv /\ [DirectoryNext]_dvars => DInv'
<1> SUFFICES ASSUME DInv, [DirectoryNext]_dvars PROVE DInv'
  OBVIOUS
<1>1. IInv'
  BY DirectoryIsAnOutbox, NextIInv DEF DInv
<1> QED BY <1>1, ShapesKept, RowsKept, WorkersKept, CoveredKept, ProfilesLagKept DEF DInv

THEOREM DirectoryInvariance == DirectorySpec => []DInv
BY InitDInv, StepDInv, PTL DEF DirectorySpec

-----------------------------------------------------------------------------
(* What the invariant says of an account that differs from the database.   *)
LEMMA StaleMeansWeighed ==
    ASSUME DInv, NEW u \in Users, remote[u] # AccountOf(u)
    PROVE  \E i \in Ids : status[i] \in {"pending", "failed"} /\ Weighs(i, u)
<1>1. PICK P \in Parts : ~Fresh(P, u)
  <2>1. ASSUME \A P \in Parts : Fresh(P, u) PROVE FALSE
    <3> DEFINE a == u \in active
               e == remote[u].enabled
    <3>1. Fresh("profile", u) /\ Fresh("enabled", u) /\ Fresh("groups", u)
      BY <2>1 DEF Parts
    <3>2. remote[u].profile = profile[u] /\ remote[u].groups = GroupNames(u) /\ (e <=> a)
      BY <3>1 DEF Fresh
    <3>3. remote[u] \in AccountShape
      BY DEF DInv, ShapeOK
    <3>4. e \in BOOLEAN /\ a \in BOOLEAN
      BY <3>3 DEF AccountShape
    <3>5. remote[u] = [profile |-> remote[u].profile, enabled |-> e, groups |-> remote[u].groups]
      BY <3>3 DEF AccountShape
    <3> HIDE DEF e
    <3>6. AccountOf(u) = [profile |-> profile[u], enabled |-> a, groups |-> GroupNames(u)]
      BY DEF AccountOf
    <3> HIDE DEF a
    <3>7. e = a
      BY <3>2, <3>4
    <3> QED BY <3>2, <3>5, <3>6, <3>7
  <2> QED BY <2>1
<1>2. CASE \E i \in Ids : Unspent(P, i, u)
  BY <1>2 DEF Unspent
<1>3. ASSUME NEW w \in Workers, Midway(P, w, u), Weighs(claim[w], u)
      PROVE  \E i \in Ids : status[i] \in {"pending", "failed"} /\ Weighs(i, u)
  <2>1. claim[w] \in Ids /\ status[claim[w]] = "pending"
    BY <1>3, MidwayIsInside DEF DInv, IInv, TypeOK, HeldRowsAreOpen
  <2> QED BY <1>3, <2>1
<1> QED BY <1>1, <1>2, <1>3 DEF DInv, Covered

LEMMA StreamsTell ==
    ASSUME NEW c
    PROVE  /\ c.kind \in {"edit", "deactivate"} <=> StreamOf(c)[1] = "user"
           /\ c.kind = "rename" <=> StreamOf(c)[1] = "group"
           /\ c.kind \in {"edit", "deactivate"} => StreamOf(c)[2] = c.user
           /\ c.kind \notin {"edit", "deactivate"} => StreamOf(c)[2] = c.group
<1>1. CASE c.kind \in {"edit", "deactivate"}
  BY <1>1 DEF StreamOf
<1>2. CASE c.kind = "rename"
  BY <1>2 DEF StreamOf
<1>3. CASE c.kind \notin {"edit", "deactivate", "rename"}
  BY <1>3 DEF StreamOf
<1> QED BY <1>1, <1>2, <1>3

(* A person's badge is computed from every event that weighs on the person. *)
LEMMA WhatWeighsIsShown ==
    ASSUME DInv, NEW u \in Users, NEW i \in Ids, Weighs(i, u)
    PROVE  i \in Weighing(u, {u})
<1>1. i \in Visible /\ change[i] \in Changes /\ stream[i] = StreamOf(change[i]) /\ Concerns(i, u)
  BY DEF Weighs, Seen, Visible, DInv, RowsKnown
<1>2. \A j \in Visible :
        /\ change[j] \in Changes /\ stream[j] = StreamOf(change[j])
        /\ SameRow(j, i) => j <= i
  BY DEF Weighs, Seen, Visible, DInv, RowsKnown
<1>3. u # NoUser
  BY DirectoryAssumption
<1>4. CASE change[i].kind \in {"edit", "deactivate"}
  <2>1. stream[i] = <<"user", u>>
    BY <1>1, <1>3, <1>4 DEF StreamOf, Concerns, Changes
  <2>2. \A j \in Visible : stream[j] = <<"user", u>> => SameRow(j, i)
    <3>1. change[i].user = u
      BY <1>1, <1>4 DEF Concerns
    <3>2. \A j \in Visible : stream[j] = <<"user", u>> => change[j].user = u
      BY <1>2, StreamsTell
    <3> QED BY <2>1, <3>1, <3>2 DEF SameRow
  <2> QED BY <1>1, <1>2, <2>1, <2>2 DEF Weighing, LatestUserEvent, Newest
<1>5. CASE change[i].kind = "rename"
  <2>1. PICK g \in Groups : stream[i] = <<"group", g>> /\ u \in members[g]
    BY <1>1, <1>3, <1>5 DEF StreamOf, Concerns, Changes, Change
  <2>2. \A j \in Visible : stream[j] = <<"group", g>> => SameRow(j, i)
    <3>1. change[i].user = NoUser
      BY <1>1, <1>5 DEF Changes
    <3>2. \A j \in Visible : stream[j] = <<"group", g>> => change[j].user = NoUser
      BY <1>2, StreamsTell DEF Changes
    <3> QED BY <2>1, <3>1, <3>2 DEF SameRow
  <2>3. i \in LatestGroupEvent(g)
    BY <1>1, <1>2, <2>1, <2>2 DEF LatestGroupEvent, Newest
  <2> QED BY <2>1, <2>3 DEF Weighing
<1>6. CASE change[i].kind \in {"join", "leave"}
  <2>1. change[i].user = u
    BY <1>1, <1>6 DEF Concerns
  <2>2. PICK g \in Groups : stream[i] = <<"membership", g>>
    BY <1>1, <1>6 DEF StreamOf, Changes, Change
  <2>3. \A j \in Visible : stream[j] = <<"membership", g>> /\ change[j].user \in {u} => SameRow(j, i)
    BY <2>1, <2>2 DEF SameRow
  <2>4. i \in LatestMembershipEvent(g, {u})
    BY <1>1, <1>2, <2>1, <2>2, <2>3 DEF LatestMembershipEvent, Newest
  <2>5. i \in UNION {LatestMembershipEvent(h, {u}) : h \in Groups}
    BY <2>4
  <2> QED BY <2>1, <2>5 DEF Weighing
<1>7. change[i].kind \in AllKinds
  BY <1>1, DirectoryAssumption DEF Changes
<1> QED BY <1>4, <1>5, <1>6, <1>7 DEF AllKinds

LEMMA DInvImpliesVisible == DInv => NeverSilentlyStale /\ PersonBadgeIsHonest
<1> SUFFICES ASSUME DInv PROVE NeverSilentlyStale /\ PersonBadgeIsHonest
  OBVIOUS
<1>1. NeverSilentlyStale
  BY StaleMeansWeighed DEF NeverSilentlyStale, Owed, Weighs
<1>2. PersonBadgeIsHonest
  <2> SUFFICES ASSUME NEW u \in Users, remote[u] # AccountOf(u)
               PROVE  SyncState(u, {u}) # "synced"
    BY DEF PersonBadgeIsHonest
  <2>1. PICK i \in Ids : status[i] \in {"pending", "failed"} /\ Weighs(i, u)
    BY StaleMeansWeighed
  <2>2. i \in Weighing(u, {u})
    BY <2>1, WhatWeighsIsShown
  <2> QED BY <2>1, <2>2 DEF SyncState
<1> QED BY <1>1, <1>2

(* The lock covers reading and writing.                                    *)
LEMMA ProfilesNeverRegress ==
    ASSUME ShapeOK, WorkersKnown, ProfilesLag, [DirectoryNext]_dvars, NEW u \in Users
    PROVE  remote'[u].profile >= remote[u].profile
<1>1. remote[u] \in AccountShape /\ remote[u].profile \in Nat
  BY DEF ShapeOK, AccountShape
<1>2. CASE UNCHANGED remote
  BY <1>1, <1>2
<1>3. ASSUME NEW w \in Workers, UpdateUser(w) \/ SetEnabled(w) \/ SetUserGroups(w)
      PROVE  remote'[u].profile >= remote[u].profile
  <2>1. cur[w] \in Users /\ desired[w] \in AccountShape /\ remote[cur[w]] \in AccountShape
    BY <1>3 DEF UpdateUser, SetEnabled, SetUserGroups, Request, WorkersKnown, Inside, ShapeOK
  <2>2. CASE UpdateUser(w)
    <3>1. remote' = [remote EXCEPT ![cur[w]] = [remote[cur[w]] EXCEPT !.profile = desired[w].profile]]
      BY <2>2 DEF UpdateUser
    <3>2. remote[cur[w]].profile <= desired[w].profile
      BY <2>2 DEF UpdateUser, Request, ProfilesLag
    <3>3. desired[w].profile \in Nat
      BY <2>1 DEF AccountShape
    <3> QED BY <1>1, <2>1, <3>1, <3>2, <3>3 DEF AccountShape, ShapeOK
  <2>3. CASE SetEnabled(w)
    <3>1. remote' = [remote EXCEPT ![cur[w]] = [remote[cur[w]] EXCEPT !.enabled = desired[w].enabled]]
      BY <2>3 DEF SetEnabled
    <3> QED BY <1>1, <2>1, <3>1 DEF AccountShape, ShapeOK
  <2>4. CASE SetUserGroups(w)
    <3>1. remote' = [remote EXCEPT ![cur[w]] = [remote[cur[w]] EXCEPT !.groups = desired[w].groups]]
      BY <2>4 DEF SetUserGroups
    <3> QED BY <1>1, <2>1, <3>1 DEF AccountShape, ShapeOK
  <2> QED BY <1>3, <2>2, <2>3, <2>4
<1>4. UNCHANGED remote \/ \E w \in Workers : UpdateUser(w) \/ SetEnabled(w) \/ SetUserGroups(w)
  <2>1. ASSUME NEW w \in Workers, DirectoryWork(w)
        PROVE  UNCHANGED remote \/ UpdateUser(w) \/ SetEnabled(w) \/ SetUserGroups(w)
    BY <2>1 DEF DirectoryWork, Progress, ClaimEvent, FanOut, NextUser, LockUser, ReadUser, ReadGroups,
                Finish, RecordFailure, WorkerCrash, DeadlockVictim, CallFails, Throw, Reset
  <2>2. CASE ~ \E w \in Workers : DirectoryWork(w)
    BY <2>2 DEF DirectoryNext, CommitChanges, RollbackChanges, Write, QueueStep, dvars
  <2> QED BY <2>1, <2>2
<1> QED BY <1>2, <1>3, <1>4

(* Whatever the number of workers, an account that differs from the        *)
(* database has an event about it that is queued or dead-lettered.         *)
THEOREM DirectoryNeverSilentlyStale == DirectorySpec => []NeverSilentlyStale
BY DirectoryInvariance, DInvImpliesVisible, PTL

(* No worker overwrites a newer profile with an older one.                 *)
THEOREM DirectoryProfilesGrow == DirectorySpec => ProfileNeverRegresses
<1>1. DInv /\ [DirectoryNext]_dvars => [\A u \in Users : remote'[u].profile >= remote[u].profile]_dvars
  BY ProfilesNeverRegress DEF DInv
<1> QED BY <1>1, DirectoryInvariance, PTL DEF DirectorySpec, ProfileNeverRegresses

-----------------------------------------------------------------------------
(* Offboarding.                                                            *)

(* Disabling the account of a deactivated user by the side of the workers  *)
(* brings it no further from the database.                                 *)
LEMMA DisablingKeepsDInv ==
    ASSUME OffboardingInv, NEW u \in Users, DisableInline(u)
    PROVE  DInv'
<1>1. /\ UNCHANGED <<vars, store, local>>
      /\ remote' = [remote EXCEPT ![u] = [remote[u] EXCEPT !.enabled = FALSE]]
      /\ u \notin active
  BY DEF DisableInline, OffboardingInv
<1>2. remote[u] \in AccountShape /\ remote'[u] = [remote[u] EXCEPT !.enabled = FALSE]
  BY <1>1 DEF OffboardingInv, DInv, ShapeOK
<1>3. remote'[u] \in AccountShape
  BY <1>2 DEF AccountShape
<1>4. /\ remote'[u].profile = remote[u].profile
      /\ remote'[u].groups = remote[u].groups
      /\ remote'[u].enabled = FALSE
      /\ \A x \in Users \ {u} : remote'[x] = remote[x]
  BY <1>1, <1>2 DEF AccountShape, OffboardingInv, DInv, ShapeOK
<1>5. IInv'
  <2>1. [Next]_vars
    BY <1>1
  <2> QED BY <2>1, NextIInv DEF OffboardingInv, DInv
<1>6. ShapeOK'
  BY <1>1, <1>3 DEF OffboardingInv, DInv, ShapeOK, store, local
<1>7. RowsKnown' /\ WorkersKnown'
  BY <1>1 DEF OffboardingInv, DInv, RowsKnown, SameRow, Seen, WorkersKnown, vars, store, local
<1>8. ASSUME NEW P \in Parts, NEW x \in Users PROVE Covered(P, x)'
  <2>1. Covered(P, x)
    BY DEF OffboardingInv, DInv
  <2>2. Fresh(P, x) => Fresh(P, x)'
    BY <1>1, <1>4 DEF Fresh, GroupNames, store, Parts
  <2>3. \A i \in Ids : Unspent(P, i, x) => Unspent(P, i, x)'
    BY <1>1 DEF Unspent, Weighs, Seen, SameRow, Concerns, Ahead, vars, store, local
  <2>4. \A w \in Workers :
          /\ Midway(P, w, x)' <=> Midway(P, w, x)
          /\ Good(P, w, x)' <=> Good(P, w, x)
          /\ Weighs(claim[w], x)' <=> Weighs(claim[w], x)
    BY <1>1 DEF Midway, Good, GroupNames, Weighs, Seen, SameRow, Concerns, vars, store, local, Parts
  <2> QED BY <2>1, <2>2, <2>3, <2>4 DEF Covered
<1>9. ProfilesLag'
  <2>1. \A x \in Users : remote'[x].profile = remote[x].profile
    BY <1>4
  <2>2. \A w \in Workers : pc[w] \in {"row", "built"} => cur[w] \in Users
    BY DEF OffboardingInv, DInv, WorkersKnown, Inside
  <2> QED BY <1>1, <2>1, <2>2 DEF OffboardingInv, DInv, ProfilesLag, store, local
<1> QED BY <1>5, <1>6, <1>7, <1>8, <1>9 DEF DInv

LEMMA DInvUnmoved == DInv /\ UNCHANGED dvars => DInv'
BY StepDInv

LEMMA InitOffboardingInv == OffboardingInit => OffboardingInv
BY InitDInv DEF OffboardingInit, OffboardingInv

(* Nobody becomes active again.                                            *)
LEMMA ActiveShrinks == [DirectoryNext]_dvars => active' \subseteq active
BY DEF DirectoryNext, CommitChanges, RollbackChanges, Write, QueueStep, DirectoryWork, Progress,
       ClaimEvent, FanOut, NextUser, LockUser, ReadUser, ReadGroups, UpdateUser, SetEnabled,
       SetUserGroups, Request, Finish, RecordFailure, WorkerCrash, DeadlockVictim, CallFails, Throw,
       Reset, store, dvars

LEMMA StepOffboardingInv == OffboardingInv /\ [OffboardingNext]_ovars => OffboardingInv'
<1> SUFFICES ASSUME OffboardingInv, [OffboardingNext]_ovars PROVE OffboardingInv'
  OBVIOUS
<1>1. CASE SyncStep
  <2>1. DInv'
    BY <1>1, StepDInv DEF SyncStep, OffboardingInv
  <2>2. active' \subseteq active
    BY <1>1, ActiveShrinks DEF SyncStep
  <2> QED BY <1>1, <2>1, <2>2 DEF SyncStep, OffboardingInv
<1>2. ASSUME NEW u \in Users, DisableInline(u)
      PROVE  OffboardingInv'
  BY <1>2, DisablingKeepsDInv DEF DisableInline, OffboardingInv, store
<1>3. ASSUME NEW u \in Users, RevokeInline(u) \/ GiveUpInline(u) \/ SignIn(u)
      PROVE  OffboardingInv'
  BY <1>3, DInvUnmoved DEF RevokeInline, GiveUpInline, SignIn, OffboardingInv, dvars, store
<1>4. CASE UNCHANGED ovars
  BY <1>4, DInvUnmoved DEF ovars, OffboardingInv, dvars, store
<1> QED BY <1>1, <1>2, <1>3, <1>4 DEF OffboardingNext

THEOREM OffboardingInvariance == OffboardingSpec => []OffboardingInv
BY InitOffboardingInv, StepOffboardingInv, PTL DEF OffboardingSpec

(* Whatever the number of people, groups, workers, producers and events,   *)
(* and through inline disabling: an account that differs from the database *)
(* has an event about it that is queued or dead-lettered.                  *)
THEOREM DriftIsAlwaysOwed == OffboardingSpec => []NeverSilentlyStale
<1>1. OffboardingInv => NeverSilentlyStale
  BY DInvImpliesVisible DEF OffboardingInv
<1> QED BY <1>1, OffboardingInvariance, PTL

(* A person's page says "synced" only of an account that is what the       *)
(* database says.                                                          *)
THEOREM BadgesAreHonest == OffboardingSpec => []PersonBadgeIsHonest
<1>1. OffboardingInv => PersonBadgeIsHonest
  BY DInvImpliesVisible DEF OffboardingInv
<1> QED BY <1>1, OffboardingInvariance, PTL

(* No worker overwrites a newer profile with an older one, and disabling   *)
(* an account inline leaves its profile alone.                             *)
THEOREM ProfilesGrow == OffboardingSpec => ProfileNeverRegresses
<1>1. ASSUME OffboardingInv, [OffboardingNext]_ovars
      PROVE  [\A u \in Users : remote'[u].profile >= remote[u].profile]_dvars
  <2>1. CASE SyncStep
    BY <1>1, <2>1, ProfilesNeverRegress DEF SyncStep, OffboardingInv, DInv
  <2>2. ASSUME NEW u \in Users, DisableInline(u)
        PROVE  \A x \in Users : remote'[x].profile >= remote[x].profile
    <3>1. \A x \in Users : remote[x] \in AccountShape /\ remote[x].profile \in Nat
      BY <1>1 DEF OffboardingInv, DInv, ShapeOK, AccountShape
    <3>2. remote' = [remote EXCEPT ![u] = [remote[u] EXCEPT !.enabled = FALSE]]
      BY <2>2 DEF DisableInline
    <3>3. \A x \in Users : remote'[x].profile = remote[x].profile
      BY <3>1, <3>2 DEF AccountShape
    <3> QED BY <3>1, <3>3
  <2>3. ASSUME NEW u \in Users, RevokeInline(u) \/ GiveUpInline(u) \/ SignIn(u)
        PROVE  UNCHANGED dvars
    BY <2>3 DEF RevokeInline, GiveUpInline, SignIn
  <2> QED BY <1>1, <2>1, <2>2, <2>3 DEF OffboardingNext, ovars
<1> QED BY <1>1, OffboardingInvariance, PTL DEF OffboardingSpec, ProfileNeverRegresses

(* A deactivated user signs in only while an event about the user is       *)
(* queued or dead-lettered: the outbox is a fallback that cannot be lost.  *)
THEOREM SignInsAreOwed == OffboardingSpec => SignInOnlyWhileOwed
<1>1. ASSUME OffboardingInv, [OffboardingNext]_ovars
      PROVE  [\A u \in Users \ active : u \in sessions' \ sessions => Owed(u)]_ovars
  <2>1. ASSUME NEW u \in Users \ active, u \in sessions' \ sessions, OffboardingNext
        PROVE  Owed(u)
    <3>1. SignIn(u)
      BY <2>1 DEF OffboardingNext, SyncStep, DisableInline, RevokeInline, GiveUpInline, SignIn
    <3>2. remote[u] # AccountOf(u)
      <4>1. AccountOf(u).enabled = FALSE
        <5> DEFINE a == u \in active
        <5>1. a = FALSE
          BY <2>1
        <5> HIDE DEF a
        <5>2. AccountOf(u) = [profile |-> profile[u], enabled |-> a, groups |-> GroupNames(u)]
          BY DEF AccountOf, a
        <5> QED BY <5>1, <5>2
      <4>2. remote[u].enabled
        BY <3>1 DEF SignIn
      <4> QED BY <4>1, <4>2
    <3> QED BY <1>1, <3>2, DInvImpliesVisible DEF OffboardingInv, NeverSilentlyStale
  <2> QED BY <1>1, <2>1
<1> QED BY <1>1, OffboardingInvariance, PTL DEF OffboardingSpec, SignInOnlyWhileOwed
=============================================================================
