---------------------------- MODULE GroupSyncProofs ----------------------------
(***************************************************************************)
(* A directory group lists accounts only: the guarantee that is left of    *)
(* reconcileAdStyleGroup when its writes go unserialised.  And what one    *)
(* worker keeps: the members it has always known are listed, or owed.      *)
(* At the end of the path that starts in the console: what its pages wait  *)
(* for ends, and what they show once they are settled is what there is.    *)
(***************************************************************************)
EXTENDS Console, GroupSync, OutboxProofs

(* Both the list on the target and the list a worker has in hand were      *)
(* filtered by accounts already committed, and correlations are never      *)
(* taken back.                                                             *)
Inv ==
    /\ directory \in [Groups -> SUBSET correlated]
    /\ desired \in [Workers -> SUBSET correlated]

-----------------------------------------------------------------------------
LEMMA InitInv == GroupSyncInit => Inv
BY DEF GroupSyncInit, Inv

LEMMA Quiet ==
    ASSUME Inv, UNCHANGED <<directory, desired>>, correlated \subseteq correlated'
    PROVE  Inv'
BY DEF Inv

(* A worker that lets go of its row drops its list.                        *)
LEMMA Released ==
    ASSUME Inv, NEW w \in Workers, Reset(w), correlated \subseteq correlated'
    PROVE  Inv'
BY DEF Inv, Reset

LEMMA WorkerInv ==
    ASSUME Inv, NEW w \in Workers, GroupWork(w)
    PROVE  Inv'
<1>1. CASE ClaimEvent(w)
  BY <1>1, Quiet DEF ClaimEvent
<1>2. CASE BuildDesiredGroup(w)
  BY <1>2 DEF BuildDesiredGroup, Inv
<1>3. CASE ApplyGroup(w)
  BY <1>3 DEF ApplyGroup, Inv
<1>4. CASE FinishGroup(w)
  BY <1>4, Released DEF FinishGroup
<1>5. CASE FinishUser(w)
  BY <1>5, Released DEF FinishUser
<1>6. CASE Throw(w)
  BY <1>6, Quiet DEF Throw
<1>7. CASE RecordFailure(w)
  BY <1>7, Released DEF RecordFailure
<1>8. CASE WorkerCrash(w)
  BY <1>8, Released DEF WorkerCrash
<1> QED BY <1>1, <1>2, <1>3, <1>4, <1>5, <1>6, <1>7, <1>8 DEF GroupWork

LEMMA StepInv == Inv /\ [GroupSyncNext]_gvars => Inv'
<1> SUFFICES ASSUME Inv, [GroupSyncNext]_gvars PROVE Inv'
  OBVIOUS
<1>1. ASSUME NEW p \in Producers, CommitWrite(p) \/ RollbackWrite(p)
      PROVE  Inv'
  BY <1>1, Quiet DEF CommitWrite, RollbackWrite
<1>2. ASSUME NEW p \in Producers, NEW s \in Streams, NEW E \in SUBSET Users, Write(p, s, E)
      PROVE  Inv'
  BY <1>2, Quiet DEF Write
<1>3. ASSUME NEW w \in Workers, GroupWork(w)
      PROVE  Inv'
  BY <1>3, WorkerInv
<1>4. CASE QueueStep
  BY <1>4, Quiet DEF QueueStep
<1>5. CASE UNCHANGED gvars
  BY <1>5, Quiet DEF gvars
<1> QED BY <1>1, <1>2, <1>3, <1>4, <1>5 DEF GroupSyncNext

(* No principal without an account is ever put on a group, for any users,  *)
(* groups and workers, whatever workers crash, throw or race.              *)
THEOREM GroupsListAccounts == GroupSyncSpec => []OnlyAccountsListed
<1>1. Inv => OnlyAccountsListed
  BY DEF Inv, OnlyAccountsListed
<1> QED BY InitInv, StepInv, <1>1, PTL DEF GroupSyncSpec

-----------------------------------------------------------------------------
(* The steps of the groups are steps of the queue.                         *)
LEMMA GroupSyncIsAnOutbox == [GroupSyncNext]_gvars => [Next]_vars
<1> SUFFICES ASSUME [GroupSyncNext]_gvars PROVE [Next]_vars
  OBVIOUS
<1>1. ASSUME NEW p \in Producers, CommitWrite(p) \/ RollbackWrite(p) PROVE Next
  BY <1>1 DEF CommitWrite, RollbackWrite, Next, Produce
<1>2. ASSUME NEW p \in Producers, NEW s \in Streams, NEW E \in SUBSET Users, Write(p, s, E)
      PROVE  Next
  BY <1>2 DEF Write, Next, Produce
<1>3. ASSUME NEW w \in Workers, GroupWork(w) PROVE [Next]_vars
  <2>1. CASE ClaimEvent(w)
    BY <2>1 DEF ClaimEvent, Next, Work
  <2>2. CASE FinishGroup(w) \/ FinishUser(w) \/ RecordFailure(w) \/ WorkerCrash(w)
    BY <2>2 DEF FinishGroup, FinishUser, RecordFailure, WorkerCrash, Next, Work, Settle
  <2>3. CASE BuildDesiredGroup(w) \/ ApplyGroup(w) \/ Throw(w)
    BY <2>3 DEF BuildDesiredGroup, ApplyGroup, Throw
  <2> QED BY <1>3, <2>1, <2>2, <2>3 DEF GroupWork
<1>4. CASE QueueStep
  BY <1>4 DEF QueueStep, Next
<1>5. CASE UNCHANGED gvars
  BY <1>5 DEF gvars
<1> QED BY <1>1, <1>2, <1>3, <1>4, <1>5 DEF GroupSyncNext

(* Only a membership's row names a user; a worker that has claimed nothing *)
(* is idle, and one that has a list has claimed a row of a group.          *)
Bookkeeping ==
    /\ members \in [Groups -> SUBSET Users]
    /\ edge \in [Ids -> SUBSET Users]
    /\ \A i \in Ids : status[i] # "absent" /\ edge[i] # {} => stream[i][1] = "membership"
    /\ Provisioned \subseteq correlated
    /\ directory = [g \in Groups |-> directory[g]]
    /\ desired = [w \in Workers |-> desired[w]]
    /\ pc = [w \in Workers |-> pc[w]]
    /\ \A w \in Workers :
          /\ pc[w] = "idle" <=> claim[w] = None
          /\ pc[w] \in {"built", "applied"} => stream[claim[w]][1] # "user"

GroupRow(i, g) == stream[i] \in {<<"group", g>>, <<"membership", g>>}

(* An event of the group, other than the one in w's hands, is open.        *)
OwedBeside(w, g) ==
    \E i \in Ids : status[i] \in {"pending", "failed"} /\ GroupRow(i, g) /\ i # claim[w]

ListFits(S, g) == S \subseteq members[g] /\ members[g] \cap Provisioned \subseteq S

(* A group's list fits its members, or an event of it is open; and what    *)
(* the worker has read or written fits, or another event of it is open.    *)
Kept ==
    /\ \A g \in Groups : GroupOwed(g) \/ ListFits(directory[g], g)
    /\ \A w \in Workers, g \in Groups : GroupRow(claim[w], g) =>
          /\ pc[w] = "built" => OwedBeside(w, g) \/ ListFits(desired[w], g)
          /\ pc[w] = "applied" => OwedBeside(w, g) \/ ListFits(directory[g], g)

KInv == IInv /\ Drawn /\ Bookkeeping /\ Kept

LEMMA InitKInv == GroupSyncInit => KInv
<1> SUFFICES ASSUME GroupSyncInit PROVE KInv
  OBVIOUS
<1>1. IInv /\ Drawn
  BY InitIInv DEF GroupSyncInit, Init, Drawn
<1>2. Bookkeeping
  BY GroupSyncAssumption DEF GroupSyncInit, Init, Bookkeeping
<1>3. Kept
  BY DEF GroupSyncInit, Kept, ListFits
<1> QED BY <1>1, <1>2, <1>3 DEF KInv

(* Steps that end no row, take no list and change no member.               *)
StillOpen(i) == status[i] \in {"pending", "failed"}

LEMMA KeptQuietly ==
    ASSUME KInv, UNCHANGED <<members, directory, desired>>,
           \A i \in Ids : StillOpen(i) => StillOpen(i)' /\ stream'[i] = stream[i],
           \A w \in Workers : pc'[w] \in {"built", "applied"} =>
              pc'[w] = pc[w] /\ claim'[w] = claim[w] /\ claim[w] \in Ids /\ StillOpen(claim[w])
    PROVE  Kept'
<1>1. ASSUME NEW g \in Groups, GroupOwed(g) PROVE GroupOwed(g)'
  BY <1>1 DEF GroupOwed, StillOpen
<1>2. ASSUME NEW g \in Groups PROVE GroupOwed(g)' \/ ListFits(directory[g], g)'
  BY <1>1 DEF KInv, Kept, ListFits
<1>3. ASSUME NEW w \in Workers, NEW g \in Groups, GroupRow(claim[w], g)',
             pc'[w] \in {"built", "applied"}
      PROVE  /\ pc'[w] = "built" => OwedBeside(w, g)' \/ ListFits(desired[w], g)'
             /\ pc'[w] = "applied" => OwedBeside(w, g)' \/ ListFits(directory[g], g)'
  <2>1. claim'[w] = claim[w] /\ pc'[w] = pc[w] /\ stream'[claim[w]] = stream[claim[w]]
    BY <1>3
  <2>2. GroupRow(claim[w], g)
    BY <1>3, <2>1 DEF GroupRow
  <2>3. OwedBeside(w, g) => OwedBeside(w, g)'
    BY <2>1 DEF OwedBeside, StillOpen, GroupRow
  <2> QED BY <2>1, <2>2, <2>3 DEF KInv, Kept, ListFits
<1> QED BY <1>2, <1>3 DEF Kept

(* The row a worker holds is open, and of a stream.                        *)
LEMMA HeldRow ==
    ASSUME KInv, NEW w \in Workers, claim[w] # None
    PROVE  claim[w] \in Ids /\ status[claim[w]] = "pending" /\ stream[claim[w]] \in Streams
BY DEF KInv, IInv, TypeOK, HeldRowsAreOpen, Drawn

LEMMA HeldGroup ==
    ASSUME KInv, NEW w \in Workers, claim[w] # None, stream[claim[w]][1] # "user"
    PROVE  /\ stream[claim[w]][2] \in Groups /\ GroupRow(claim[w], stream[claim[w]][2])
           /\ \A g \in Groups : GroupRow(claim[w], g) => g = stream[claim[w]][2]
BY HeldRow, GroupSyncAssumption DEF GroupRow

(* A transaction that changes a group's members leaves an event of it.     *)
LEMMA KeptByCommit ==
    ASSUME KInv, NEW p \in Producers, CommitWrite(p) \/ RollbackWrite(p)
    PROVE  Kept'
<1>1. /\ UNCHANGED <<stream, claim, pc, directory, desired>>
      /\ \A i \in Ids : i \notin txn[p] => status'[i] = status[i]
      /\ \A i \in txn[p] : i \in Ids /\ status[i] = "writing"
  BY DEF CommitWrite, RollbackWrite, Commit, Rollback, EndTxn, KInv, IInv, TypeOK, TxnRows
<1>2. \A i \in Ids : StillOpen(i) => StillOpen(i)'
  BY <1>1 DEF StillOpen
<1>3. \A w \in Workers : pc[w] \in {"built", "applied"} => claim[w] \in Ids /\ StillOpen(claim[w])
  <2> SUFFICES ASSUME NEW w \in Workers, pc[w] \in {"built", "applied"}
               PROVE  claim[w] \in Ids /\ StillOpen(claim[w])
    OBVIOUS
  <2>1. claim[w] # None
    BY DEF KInv, Bookkeeping
  <2> QED BY <2>1, HeldRow DEF StillOpen
<1>4. ASSUME NEW g \in Groups, members'[g] # members[g]
      PROVE  GroupOwed(g)' /\ \A w \in Workers : pc[w] \in {"built", "applied"} => OwedBeside(w, g)'
  <2>1. CommitWrite(p) /\ Edges(p, g) # {}
    <3>1. CommitWrite(p)
      BY <1>4 DEF RollbackWrite
    <3>2. members'[g] = (members[g] \cup Edges(p, g)) \ (members[g] \cap Edges(p, g))
      BY <3>1 DEF CommitWrite
    <3> QED BY <1>4, <3>1, <3>2
  <2>2. PICK j \in txn[p] : stream[j][2] = g /\ edge[j] # {}
    BY <2>1 DEF Edges
  <2>3. stream[j][1] = "membership" /\ stream[j] \in Streams
    BY <1>1, <2>2 DEF KInv, Bookkeeping, Drawn
  <2>4. stream[j] = <<"membership", g>>
    BY <2>2, <2>3, GroupSyncAssumption
  <2>5. status'[j] = "pending" /\ stream'[j] = stream[j] /\ j \in Ids
    BY <1>1, <2>1 DEF CommitWrite, Commit, EndTxn
  <2>6. GroupOwed(g)'
    BY <2>4, <2>5 DEF GroupOwed
  <2>7. ASSUME NEW w \in Workers, pc[w] \in {"built", "applied"} PROVE OwedBeside(w, g)'
    <3>1. claim[w] # j
      BY <1>1, <1>3, <2>7 DEF StillOpen
    <3> QED BY <1>1, <2>4, <2>5, <3>1 DEF OwedBeside, GroupRow
  <2> QED BY <2>6, <2>7
<1>5. ASSUME NEW g \in Groups PROVE GroupOwed(g)' \/ ListFits(directory[g], g)'
  <2>1. GroupOwed(g) => GroupOwed(g)'
    BY <1>1, <1>2 DEF GroupOwed, StillOpen
  <2> QED BY <1>1, <1>4, <2>1 DEF KInv, Kept, ListFits
<1>6. ASSUME NEW w \in Workers, NEW g \in Groups, GroupRow(claim[w], g)',
             pc'[w] \in {"built", "applied"}
      PROVE  /\ pc'[w] = "built" => OwedBeside(w, g)' \/ ListFits(desired[w], g)'
             /\ pc'[w] = "applied" => OwedBeside(w, g)' \/ ListFits(directory[g], g)'
  <2>1. OwedBeside(w, g) => OwedBeside(w, g)'
    BY <1>1, <1>2 DEF OwedBeside, StillOpen, GroupRow
  <2>2. GroupRow(claim[w], g)
    BY <1>1, <1>6 DEF GroupRow
  <2> QED BY <1>1, <1>4, <1>6, <2>1, <2>2 DEF KInv, Kept, ListFits
<1> QED BY <1>5, <1>6 DEF Kept

(* The one worker reads, writes and ends.                                  *)
LEMMA KeptByWorker ==
    ASSUME KInv, \A v, w \in Workers : v = w, NEW w \in Workers, GroupWork(w)
    PROVE  Kept'
<1>0. /\ pc[w] = "idle" <=> claim[w] = None
      /\ \A v \in Workers : v = w
  BY DEF KInv, Bookkeeping
<1>1. CASE ClaimEvent(w) \/ Throw(w)
  <2>1. /\ UNCHANGED <<members, directory, desired, status, stream>>
        /\ pc'[w] \in {"claimed", "thrown"}
    BY <1>1 DEF ClaimEvent, Claim, Throw, KInv, Bookkeeping, vars, rowVars
  <2> QED BY <1>0, <2>1, KeptQuietly DEF StillOpen
<1>2. CASE BuildDesiredGroup(w)
  <2>1. /\ UNCHANGED <<vars, members, directory, correlated>> /\ pc'[w] = "built"
        /\ stream[claim[w]][1] # "user" /\ claim[w] # None
        /\ desired'[w] = members[stream[claim[w]][2]] \cap correlated
    BY <1>0, <1>2 DEF BuildDesiredGroup, KInv, Bookkeeping, Row
  <2>2. UNCHANGED <<status, stream, claim>>
    BY <2>1 DEF vars
  <2>3. ASSUME NEW g \in Groups PROVE GroupOwed(g)' \/ ListFits(directory[g], g)'
    BY <2>1, <2>2 DEF KInv, Kept, GroupOwed, ListFits
  <2>4. ASSUME NEW g \in Groups, GroupRow(claim[w], g)' PROVE ListFits(desired[w], g)'
    <3>1. g = stream[claim[w]][2]
      BY <2>1, <2>2, <2>4, HeldGroup DEF GroupRow
    <3> QED BY <2>1, <3>1 DEF ListFits, KInv, Bookkeeping
  <2> QED BY <1>0, <2>1, <2>3, <2>4 DEF Kept
<1>3. CASE ApplyGroup(w)
  <2>1. /\ UNCHANGED <<vars, members, desired>> /\ pc[w] = "built" /\ pc'[w] = "applied"
        /\ stream[claim[w]][1] # "user" /\ claim[w] # None
        /\ \A g \in Groups : directory'[g] = IF g = stream[claim[w]][2] THEN desired[w] ELSE directory[g]
    BY <1>0, <1>3 DEF ApplyGroup, KInv, Bookkeeping, Row
  <2>2. UNCHANGED <<status, stream, claim>>
    BY <2>1 DEF vars
  <2>3. GroupOwed(stream[claim[w]][2])
    BY <2>1, HeldRow, HeldGroup DEF GroupOwed, GroupRow
  <2>4. ASSUME NEW g \in Groups PROVE GroupOwed(g)' \/ ListFits(directory[g], g)'
    BY <2>1, <2>2, <2>3 DEF KInv, Kept, GroupOwed, ListFits
  <2>5. ASSUME NEW g \in Groups, GroupRow(claim[w], g)'
        PROVE  OwedBeside(w, g)' \/ ListFits(directory[g], g)'
    <3>1. g = stream[claim[w]][2] /\ GroupRow(claim[w], g)
      BY <2>1, <2>2, <2>5, HeldGroup DEF GroupRow
    <3>2. OwedBeside(w, g) \/ ListFits(desired[w], g)
      BY <2>1, <3>1 DEF KInv, Kept
    <3> QED BY <2>1, <2>2, <3>1, <3>2 DEF OwedBeside, GroupRow, ListFits
  <2> QED BY <1>0, <2>1, <2>4, <2>5 DEF Kept
<1>4. CASE FinishGroup(w) \/ FinishUser(w)
  <2>1. /\ UNCHANGED <<members, directory, stream>> /\ claim[w] # None /\ pc'[w] = "idle"
        /\ \A i \in Ids : i # claim[w] => status'[i] = status[i]
        /\ pc[w] = "applied" \/ stream[claim[w]][1] = "user"
    BY <1>4 DEF FinishGroup, FinishUser, Succeed, Release, Reset, KInv, Bookkeeping, Row, IInv, TypeOK
  <2>2. ASSUME NEW g \in Groups PROVE GroupOwed(g)' \/ ListFits(directory[g], g)'
    <3>1. OwedBeside(w, g) => GroupOwed(g)'
      BY <2>1 DEF OwedBeside, GroupOwed, GroupRow
    <3>2. CASE GroupRow(claim[w], g)
      <4>1. pc[w] = "applied"
        BY <2>1, <3>2 DEF GroupRow
      <4> QED BY <2>1, <3>1, <3>2, <4>1 DEF KInv, Kept, ListFits
    <3>3. CASE ~GroupRow(claim[w], g)
      <4>1. GroupOwed(g) => OwedBeside(w, g)
        BY <3>3 DEF GroupOwed, OwedBeside, GroupRow
      <4> QED BY <2>1, <3>1, <4>1 DEF KInv, Kept, ListFits
    <3> QED BY <3>2, <3>3
  <2> QED BY <1>0, <2>1, <2>2 DEF Kept
<1>5. CASE RecordFailure(w) \/ WorkerCrash(w)
  <2>1. /\ UNCHANGED <<members, directory, stream>> /\ pc'[w] = "idle"
        /\ \A i \in Ids : status'[i] = status[i] \/ status'[i] = "failed"
    BY <1>5 DEF RecordFailure, Fail, WorkerCrash, Crash, Release, Reset, KInv, Bookkeeping, IInv,
                TypeOK, rowVars
  <2>2. ASSUME NEW g \in Groups PROVE GroupOwed(g)' \/ ListFits(directory[g], g)'
    BY <2>1 DEF KInv, Kept, GroupOwed, ListFits
  <2> QED BY <1>0, <2>1, <2>2 DEF Kept
<1> QED BY <1>1, <1>2, <1>3, <1>4, <1>5 DEF GroupWork

LEMMA BookkeepingKept == KInv /\ [GroupSyncNext]_gvars => Bookkeeping'
<1> SUFFICES ASSUME KInv, [GroupSyncNext]_gvars PROVE Bookkeeping'
  OBVIOUS
<1> USE DEF KInv, Bookkeeping
<1>1. ASSUME NEW p \in Producers, CommitWrite(p) \/ RollbackWrite(p) PROVE Bookkeeping'
  <2>1. /\ UNCHANGED <<stream, claim, pc, directory, desired, correlated, edge>>
        /\ \A i \in Ids : status'[i] # "absent" => status[i] # "absent"
    BY <1>1 DEF CommitWrite, RollbackWrite, Commit, Rollback, EndTxn, IInv, TypeOK, TxnRows
  <2>2. members' \in [Groups -> SUBSET Users]
    <3>1. CASE CommitWrite(p)
      <4>1. \A g \in Groups : Edges(p, g) \subseteq Users
        BY <3>1 DEF Edges, IInv, TypeOK, TxnRows
      <4> QED BY <3>1, <4>1 DEF CommitWrite
    <3>2. CASE RollbackWrite(p)
      BY <3>2 DEF RollbackWrite
    <3> QED BY <1>1, <3>1, <3>2
  <2> QED BY <2>1, <2>2
<1>2. ASSUME NEW p \in Producers, NEW s \in Streams, NEW E \in SUBSET Users, Write(p, s, E)
      PROVE  Bookkeeping'
  <2>1. /\ UNCHANGED <<members, claim, pc, directory, desired, correlated>>
        /\ lastId + 1 \in Ids /\ status[lastId + 1] = "absent"
        /\ status' = [status EXCEPT ![lastId + 1] = "writing"]
        /\ stream' = [stream EXCEPT ![lastId + 1] = s]
        /\ edge' = [edge EXCEPT ![lastId + 1] = E]
    BY <1>2, OutboxAssumption DEF Write, Insert, IInv, TypeOK, FreshRows, Ids
  <2>2. E # {} => s[1] = "membership"
    BY <1>2 DEF Write
  <2>3. \A w \in Workers : claim[w] # None => claim[w] \in Ids /\ claim[w] # lastId + 1
    BY <2>1, HeldRow
  <2>4. \A i \in Ids : status'[i] # "absent" /\ edge'[i] # {} => stream'[i][1] = "membership"
    BY <2>1, <2>2 DEF IInv, TypeOK
  <2>5. \A w \in Workers : pc[w] \in {"built", "applied"} => stream'[claim[w]][1] # "user"
    BY <2>1, <2>3
  <2> QED BY <2>1, <2>4, <2>5
<1>3. ASSUME NEW w \in Workers, GroupWork(w) PROVE Bookkeeping'
  <2>1. UNCHANGED <<members, edge, stream>>
    BY <1>3 DEF GroupWork, ClaimEvent, BuildDesiredGroup, ApplyGroup, FinishGroup, FinishUser, Throw,
                RecordFailure, WorkerCrash, Reset, Claim, Succeed, Fail, Crash, vars, rowVars
  <2>2. /\ correlated \subseteq correlated'
        /\ \A i \in Ids : status'[i] # "absent" => status[i] # "absent"
    BY <1>3, HeldRow
    DEF GroupWork, ClaimEvent, BuildDesiredGroup, ApplyGroup, FinishGroup, FinishUser, Throw,
        RecordFailure, WorkerCrash, Reset, Claim, Succeed, Fail, Crash, Release, vars, rowVars, IInv,
        TypeOK
  <2>3. /\ directory' = [g \in Groups |-> directory'[g]]
        /\ desired' = [v \in Workers |-> desired'[v]]
        /\ pc' = [v \in Workers |-> pc'[v]]
    BY <1>3 DEF GroupWork, ClaimEvent, BuildDesiredGroup, ApplyGroup, FinishGroup, FinishUser, Throw,
                RecordFailure, WorkerCrash, Reset
  <2>4. \A v \in Workers : v # w => pc'[v] = pc[v] /\ claim'[v] = claim[v]
    BY <1>3 DEF GroupWork, ClaimEvent, BuildDesiredGroup, ApplyGroup, FinishGroup, FinishUser, Throw,
                RecordFailure, WorkerCrash, Reset, Claim, Succeed, Fail, Crash, Release, vars, rowVars, IInv,
                TypeOK
  <2>5. /\ pc'[w] = "idle" <=> claim'[w] = None
        /\ pc'[w] \in {"built", "applied"} => stream[claim'[w]][1] # "user"
    <3>1. CASE ClaimEvent(w)
      BY <3>1 DEF ClaimEvent, Claim, None, Ids, IInv, TypeOK
    <3>2. CASE BuildDesiredGroup(w) \/ ApplyGroup(w) \/ Throw(w)
      BY <3>2 DEF BuildDesiredGroup, ApplyGroup, Throw, vars, Row
    <3>3. CASE FinishGroup(w) \/ FinishUser(w) \/ RecordFailure(w) \/ WorkerCrash(w)
      BY <3>3 DEF FinishGroup, FinishUser, RecordFailure, WorkerCrash, Reset, Succeed, Fail, Crash,
                  Release, IInv, TypeOK
    <3> QED BY <1>3, <3>1, <3>2, <3>3 DEF GroupWork
  <2> QED BY <2>1, <2>2, <2>3, <2>4, <2>5
<1>4. CASE QueueStep
  <2>1. /\ UNCHANGED <<members, edge, stream, claim, pc, directory, desired, correlated>>
        /\ \A i \in Ids : status'[i] # "absent" => status[i] # "absent"
    BY <1>4 DEF QueueStep, BecomeDue, Operate, FindFailed, Retry, rowVars, IInv, TypeOK, FoundRows
  <2> QED BY <2>1
<1>5. CASE UNCHANGED gvars
  BY <1>5 DEF gvars, vars
<1> QED BY <1>1, <1>2, <1>3, <1>4, <1>5 DEF GroupSyncNext

LEMMA StepKInv ==
    ASSUME \A v, w \in Workers : v = w
    PROVE  KInv /\ [GroupSyncNext]_gvars => KInv'
<1> SUFFICES ASSUME KInv, [GroupSyncNext]_gvars PROVE KInv'
  OBVIOUS
<1>1. IInv' /\ Drawn' /\ Bookkeeping'
  BY GroupSyncIsAnOutbox, NextIInv, DrawnStep, BookkeepingKept DEF KInv
<1>2. ASSUME NEW p \in Producers, CommitWrite(p) \/ RollbackWrite(p) PROVE Kept'
  BY <1>2, KeptByCommit
<1>3. ASSUME NEW w \in Workers, GroupWork(w) PROVE Kept'
  BY <1>3, KeptByWorker
<1>4. \A w \in Workers : pc[w] \in {"built", "applied"} => claim[w] \in Ids /\ StillOpen(claim[w])
  <2> SUFFICES ASSUME NEW w \in Workers, pc[w] \in {"built", "applied"}
               PROVE  claim[w] \in Ids /\ StillOpen(claim[w])
    OBVIOUS
  <2>1. claim[w] # None
    BY DEF KInv, Bookkeeping
  <2> QED BY <2>1, HeldRow DEF StillOpen
<1>5. ASSUME NEW p \in Producers, NEW s \in Streams, NEW E \in SUBSET Users, Write(p, s, E)
      PROVE  Kept'
  <2>1. /\ UNCHANGED <<members, claim, pc, directory, desired>>
        /\ lastId + 1 \in Ids /\ status[lastId + 1] = "absent"
        /\ status' = [status EXCEPT ![lastId + 1] = "writing"]
        /\ stream' = [stream EXCEPT ![lastId + 1] = s]
    BY <1>5, OutboxAssumption DEF Write, Insert, KInv, IInv, TypeOK, FreshRows, Ids
  <2>2. \A i \in Ids : StillOpen(i) => StillOpen(i)' /\ stream'[i] = stream[i]
    BY <2>1 DEF StillOpen, KInv, IInv, TypeOK
  <2> QED BY <1>4, <2>1, <2>2, KeptQuietly
<1>6. ASSUME QueueStep PROVE Kept'
  <2>1. /\ UNCHANGED <<members, stream, claim, pc, directory, desired>>
        /\ \A i \in Ids : status'[i] = status[i] \/ status'[i] = "pending"
    BY <1>6 DEF QueueStep, BecomeDue, Operate, FindFailed, Retry, rowVars, KInv, IInv, TypeOK
  <2>2. \A i \in Ids : StillOpen(i) => StillOpen(i)' /\ stream'[i] = stream[i]
    BY <2>1 DEF StillOpen
  <2>3. \A w \in Workers : pc'[w] \in {"built", "applied"} =>
          pc'[w] = pc[w] /\ claim'[w] = claim[w] /\ claim[w] \in Ids /\ StillOpen(claim[w])
    BY <1>4, <2>1
  <2>4. UNCHANGED <<members, directory, desired>>
    BY <2>1
  <2> QED BY <2>2, <2>3, <2>4, KeptQuietly
<1>7. ASSUME UNCHANGED gvars PROVE Kept'
  <2>1. UNCHANGED <<members, stream, status, claim, pc, directory, desired>>
    BY <1>7 DEF gvars, vars
  <2>2. \A i \in Ids : StillOpen(i) => StillOpen(i)' /\ stream'[i] = stream[i]
    BY <2>1 DEF StillOpen
  <2>3. \A w \in Workers : pc'[w] \in {"built", "applied"} =>
          pc'[w] = pc[w] /\ claim'[w] = claim[w] /\ claim[w] \in Ids /\ StillOpen(claim[w])
    BY <1>4, <2>1
  <2>4. UNCHANGED <<members, directory, desired>>
    BY <2>1
  <2> QED BY <2>2, <2>3, <2>4, KeptQuietly
<1>8. Kept'
  BY <1>2, <1>3, <1>5, <1>6, <1>7 DEF GroupSyncNext
<1> QED BY <1>1, <1>8 DEF KInv

(* Where one worker drains the queue, the members a group has always had   *)
(* are on its list, and nobody else but its members, or an event of the    *)
(* group is queued or a dead letter.                                       *)
THEOREM OneWorkerKeepsKnownMembers ==
    ASSUME \A v, w \in Workers : v = w
    PROVE  GroupSyncSpec => []KnownMembersNeverSilentlyStale
<1>1. KInv => KnownMembersNeverSilentlyStale
  BY DEF KInv, Kept, ListFits, KnownMembersNeverSilentlyStale
<1>2. KInv /\ [GroupSyncNext]_gvars => KInv'
  BY StepKInv
<1> QED BY InitKInv, <1>1, <1>2, PTL DEF GroupSyncSpec

-----------------------------------------------------------------------------
(* The pages of the console.                                             *)
Parts ==
    {"topic", "rows", "of", "loading", "error", "at", "forms", "dialog", "held", "busy",
     "preview", "pending", "again"}

IsPage(p) == DOMAIN p = Parts

(* The dialogs that a handler gives back, whatever the answer.           *)
GivenBack == {"activatePerson", "deactivatePerson", "revokeRole", "deleteUnit", "disableRole"}

Ops ==
    {"transferPerson", "activatePerson", "deactivatePerson", "grantRole", "revokeRole",
     "addMember", "removeMember", "nestGroup", "unnestGroup", "createUnit", "renameUnit",
     "deleteUnit", "createOrganization", "toggleOrganization", "decide", "createCampaign",
     "previewImport", "commitImport", "saveProfile", "createRule", "previewRule",
     "enableRule", "toggleRule", "saveApp", "toggleApp", "mintSecret", "createSource",
     "saveSource", "previewSource", "commitSource", "retryLetter", "createRole",
     "createConflict", "switchConflict", "saveDraft", "simulateRole", "publishRole",
     "toggleRequestable", "enableRole", "disableRole", "addException", "removeException",
     "createAttribute", "editAttribute", "toggleAttribute", "previewMigration",
     "commitMigration", "openCampaign", "closeCampaign", "decideItem", "request",
     "cancelRequest"}

(* What every answer does to what the page waits for.                    *)
Freed(p, c, q) ==
    /\ IsPage(q)
    /\ q.busy \subseteq (IF c.op = "nestGroup" THEN p.busy ELSE p.busy \ {c})
    /\ q.held => p.held /\ q.dialog = p.dialog /\ c.op \notin GivenBack

LEMMA EveryAnswerFrees ==
    ASSUME NEW p, IsPage(p), NEW c, c.op \in Ops, NEW ok \in BOOLEAN, NEW got
    PROVE  Freed(p, c, Answered(p, c, ok, got))
<1> USE DEF IsPage, Parts, Freed, GivenBack, Done
<1>1. CASE c.op = "transferPerson"
  BY <1>1 DEF Answered, PersonTransferred, Dismiss, Replace
<1>2. CASE c.op = "activatePerson"
  BY <1>2 DEF Answered, PersonActivated, Dismiss, Replace, Threw
<1>3. CASE c.op = "deactivatePerson"
  BY <1>3 DEF Answered, PersonDeactivated, Dismiss, Replace, Threw
<1>4. CASE c.op = "grantRole"
  BY <1>4 DEF Answered, RoleGranted, AgainOf, Close
<1>5. CASE c.op = "revokeRole"
  BY <1>5 DEF Answered, RoleRevoked, AgainOf, Dismiss, Threw
<1>6. CASE c.op = "addMember"
  BY <1>6 DEF Answered, MemberAdded, AgainOf, Close
<1>7. CASE c.op = "removeMember"
  BY <1>7 DEF Answered, MemberRemoved, AgainOf
<1>8. CASE c.op = "nestGroup"
  BY <1>8 DEF Answered, GroupNested, AgainOf, Close
<1>9. CASE c.op = "unnestGroup"
  BY <1>9 DEF Answered, GroupUnnested, AgainOf
<1>10. CASE c.op = "createUnit"
  BY <1>10 DEF Answered, CreateUnitAnswered, UnitCreated, Select, AddOrgUnit, Patched,
     Close
<1>11. CASE c.op = "renameUnit"
  BY <1>11 DEF Answered, UnitRenamed, Again, Close
<1>12. CASE c.op = "deleteUnit"
  BY <1>12 DEF Answered, DeleteUnitAnswered, Dismiss, UnitDeleted, Again, Select
<1>13. CASE c.op = "createOrganization"
  BY <1>13 DEF Answered, OrganizationCreated, Again, Close
<1>14. CASE c.op = "toggleOrganization"
  BY <1>14 DEF Answered, OrganizationToggled, Again
<1>15. CASE c.op = "decide"
  BY <1>15 DEF Answered, ReviewDecided, Patched
<1>16. CASE c.op = "createCampaign"
  BY <1>16 DEF Answered, CampaignCreated, Again, Close
<1>17. CASE c.op = "previewImport"
  BY <1>17 DEF Answered, ImportPreviewed
<1>18. CASE c.op = "commitImport"
  BY <1>18 DEF Answered, ImportCommitted
<1>19. CASE c.op = "saveProfile"
  BY <1>19 DEF Answered, SelfSaved, Replace
<1>20. CASE c.op = "createRule"
  BY <1>20 DEF Answered, RuleCreated, Again, Close
<1>21. CASE c.op = "previewRule"
  BY <1>21 DEF Answered, RulePreviewed
<1>22. CASE c.op = "enableRule"
  BY <1>22 DEF Answered, RuleEnabled, Again, Forget
<1>23. CASE c.op = "toggleRule"
  BY <1>23 DEF Answered, RuleToggled, Again
<1>24. CASE c.op = "saveApp"
  BY <1>24 DEF Answered, AppSaved, Close, Replace
<1>25. CASE c.op = "toggleApp"
  BY <1>25 DEF Answered, AppToggled, Replace
<1>26. CASE c.op = "mintSecret"
  BY <1>26 DEF Answered, SecretMinted
<1>27. CASE c.op = "createSource"
  BY <1>27 DEF Answered, SourceCreated, SourceSelected, Forget, If, Again, Close
<1>28. CASE c.op = "saveSource"
  BY <1>28 DEF Answered, SourceSaved, Again
<1>29. CASE c.op = "previewSource"
  BY <1>29 DEF Answered, SourcePreviewed, Again, SourceReported
<1>30. CASE c.op = "commitSource"
  BY <1>30 DEF Answered, SourceCommitted, Again, SourceReported
<1>31. CASE c.op = "retryLetter"
  BY <1>31 DEF Answered, LetterRetried, Again
<1>32. CASE c.op = "createRole"
  BY <1>32 DEF Answered, RoleCreated, Again, Close
<1>33. CASE c.op = "createConflict"
  BY <1>33 DEF Answered, ConflictCreated, Again, Close
<1>34. CASE c.op = "switchConflict"
  BY <1>34 DEF Answered, ConflictSwitched, Again
<1>35. CASE c.op = "saveDraft"
  BY <1>35 DEF Answered, DraftSaved, RoleLoaded, Forget, Reseeded, Close, Replace
<1>36. CASE c.op = "simulateRole"
  BY <1>36 DEF Answered, RoleSimulated, Reseeded, Close, Replace
<1>37. CASE c.op = "publishRole"
  BY <1>37 DEF Answered, RolePublished, RoleLoaded, Forget, Reseeded, Close, Replace,
     Again
<1>38. CASE c.op = "toggleRequestable"
  BY <1>38 DEF Answered, RequestableToggled
<1>39. CASE c.op = "enableRole"
  BY <1>39 DEF Answered, RoleEnabled, Reseeded, Close, Replace
<1>40. CASE c.op = "disableRole"
  BY <1>40 DEF Answered, RoleDisabled, Dismiss, Reseeded, Close, Replace, Threw
<1>41. CASE c.op = "addException"
  BY <1>41 DEF Answered, ExceptionAdded, Again, Close
<1>42. CASE c.op = "removeException"
  BY <1>42 DEF Answered, ExceptionRemoved, Again
<1>43. CASE c.op \in {"createAttribute", "editAttribute"}
  BY <1>43 DEF Answered, AttributeSubmitted, Again, CloseForms
<1>44. CASE c.op = "toggleAttribute"
  BY <1>44 DEF Answered, AttributeToggled, Again
<1>45. CASE c.op = "previewMigration"
  BY <1>45 DEF Answered, MigrationPreviewed
<1>46. CASE c.op = "commitMigration"
  BY <1>46 DEF Answered, MigrationCommitted
<1>47. CASE c.op = "openCampaign"
  BY <1>47 DEF Answered, CampaignOpened, Replace
<1>48. CASE c.op = "closeCampaign"
  BY <1>48 DEF Answered, CampaignClosed, Again
<1>49. CASE c.op = "decideItem"
  BY <1>49 DEF Answered, ItemDecided, Again
<1>50. CASE c.op = "request"
  BY <1>50 DEF Answered, RequestSubmitted, Again, Close
<1>51. CASE c.op = "cancelRequest"
  BY <1>51 DEF Answered, RequestCancelled, Again
<1> QED BY <1>1, <1>2, <1>3, <1>4, <1>5, <1>6, <1>7, <1>8, <1>9, <1>10, <1>11, <1>12,
    <1>13, <1>14, <1>15, <1>16, <1>17, <1>18, <1>19, <1>20, <1>21, <1>22, <1>23, <1>24,
    <1>25, <1>26, <1>27, <1>28, <1>29, <1>30, <1>31, <1>32, <1>33, <1>34, <1>35, <1>36,
    <1>37, <1>38, <1>39, <1>40, <1>41, <1>42, <1>43, <1>44, <1>45, <1>46, <1>47, <1>48,
    <1>49, <1>50, <1>51 DEF Ops

-----------------------------------------------------------------------------
(* A command goes out, and nothing else.                                 *)
LEMMA OffersSend ==
    ASSUME NEW p, IsPage(p), NEW op, NEW does, NEW rows, NEW q \in Offer(p, op, does, rows)
    PROVE  /\ IsPage(q)
           /\ q.topic = p.topic /\ q.rows = p.rows /\ q.of = p.of /\ q.error = p.error
           /\ q.dialog = p.dialog /\ q.held = p.held /\ q.again = p.again
           /\ q.pending = p.pending
           /\ \A c \in q.busy : c \in p.busy \/ (c.op = op /\ c.does = does)
           /\ \E c \in q.busy : c.op = op
<1>1. PICK r \in rows : q = Send(p, op, does, r)
  BY DEF Offer
<1> DEFINE c == [op |-> op, does |-> does, row |-> r, to |-> Aim(p, does, r),
                 saw |-> p.preview,
                 of |-> IF does \in {"change", "remove"} /\ Loaded(p) THEN p.of ELSE p.topic]
<1>2. c.op = op /\ c.does = does
  OBVIOUS
<1>3. q = [p EXCEPT !.busy = p.busy \cup {c}]
  BY <1>1 DEF Send
<1> HIDE DEF c
<1> QED BY <1>2, <1>3 DEF IsPage, Parts

(* What a gesture may do: send commands there are, and have a dialog wait*)
(* only for a command of the dialog's own.                               *)
Gestured(p, q) ==
    /\ IsPage(q)
    /\ \A c \in q.busy : c \in p.busy \/ c.op \in Ops
    /\ q.held => \/ p.held /\ q.dialog = p.dialog
                 \/ q.dialog = "transferPerson"
                 \/ q.dialog \in GivenBack /\ \E c \in q.busy : c.op = q.dialog

LEMMA Sending ==
    ASSUME NEW p, IsPage(p), NEW op \in Ops, NEW does, NEW rows,
           NEW q \in Offer(p, op, does, rows)
    PROVE  /\ Gestured(p, q) /\ Gestured(p, Forget(q)) /\ Gestured(p, Dismiss(q))
           /\ \A r : Gestured(p, [q EXCEPT !.at = r])
           /\ p.dialog = op /\ op \in GivenBack => Gestured(p, [q EXCEPT !.held = TRUE])
<1>1. /\ IsPage(q) /\ q.dialog = p.dialog /\ q.held = p.held
      /\ \A c \in q.busy : c \in p.busy \/ c.op = op
      /\ \E c \in q.busy : c.op = op
  BY OffersSend
<1>2. Gestured(p, q)
  BY <1>1 DEF Gestured
<1>3. Gestured(p, Forget(q)) /\ \A r : Gestured(p, [q EXCEPT !.at = r])
  BY <1>1 DEF Gestured, Forget, IsPage, Parts
<1>4. Gestured(p, Dismiss(q))
  BY <1>1 DEF Gestured, Dismiss, IsPage, Parts
<1>5. p.dialog = op /\ op \in GivenBack => Gestured(p, [q EXCEPT !.held = TRUE])
  BY <1>1 DEF Gestured, IsPage, Parts
<1> QED BY <1>2, <1>3, <1>4, <1>5

LEMMA Clicking ==
    ASSUME NEW p, IsPage(p), NEW op \in Ops, NEW does, NEW q \in Clicks(p, op, does)
    PROVE  Gestured(p, q)
<1>1. PICK r : \E o \in Offer(p, op, does, {r}) : q = [o EXCEPT !.at = r]
  BY DEF Clicks
<1>2. PICK o \in Offer(p, op, does, {r}) : q = [o EXCEPT !.at = r]
  BY <1>1
<1> QED BY <1>2, Sending

LEMMA Waiting ==
    ASSUME NEW p, IsPage(p), NEW op, NEW q
    PROVE  /\ q \in Dismissal(p) => Gestured(p, q)
           /\ \A does, rows : q \in Confirmation(p, op, does, rows) /\ op \in GivenBack
                 => Gestured(p, q)
           /\ p.dialog = "transferPerson" => Gestured(p, Confirmed(p))
           /\ \A does, rows : q \in Confirmation(p, "transferPerson", does, rows)
                 => Gestured(p, q)
<1>1. q \in Dismissal(p) => Gestured(p, q)
  BY DEF Dismissal, If, Dismiss, Gestured, IsPage, Parts
<1>2. ASSUME NEW does, NEW rows, q \in Confirmation(p, op, does, rows), op \in GivenBack
      PROVE  Gestured(p, q)
  <2>1. PICK o \in Offer(p, op, does, rows) : q = [o EXCEPT !.held = TRUE]
    BY <1>2 DEF Confirmation, If
  <2>2. p.dialog = op /\ op \in Ops
    BY <1>2 DEF Confirmation, If, GivenBack, Ops
  <2> QED BY <1>2, <2>1, <2>2, Sending
<1>3. p.dialog = "transferPerson" => Gestured(p, Confirmed(p))
  BY DEF Confirmed, Gestured, IsPage, Parts
<1>4. ASSUME NEW does, NEW rows, q \in Confirmation(p, "transferPerson", does, rows)
      PROVE  Gestured(p, q)
  <2>1. PICK o \in Offer(p, "transferPerson", does, rows) : q = [o EXCEPT !.held = TRUE]
    BY <1>4 DEF Confirmation, If
  <2>2. p.dialog = "transferPerson"
    BY <1>4 DEF Confirmation, If
  <2>3. /\ IsPage(o) /\ o.dialog = p.dialog
        /\ \A c \in o.busy : c \in p.busy \/ c.op = "transferPerson"
    BY <2>1, OffersSend
  <2>4. "transferPerson" \in Ops
    BY DEF Ops
  <2> QED BY <2>1, <2>2, <2>3, <2>4 DEF Gestured, IsPage, Parts
<1> QED BY <1>1, <1>2, <1>3, <1>4

LEMMA Staying ==
    ASSUME NEW p, IsPage(p), p.dialog = Nothing => ~p.held
    PROVE  /\ \A f : Gestured(p, Open(p, f)) /\ Gestured(p, Close(p, f))
                 /\ Gestured(p, StartOnly(p, f))
           /\ \A op : p.dialog = Nothing => Gestured(p, Ask(p, op))
                 /\ \A r : Gestured(p, [Ask(p, op) EXCEPT !.at = r])
           /\ Gestured(p, Again(p)) /\ Gestured(p, Forget(p)) /\ Gestured(p, Dismiss(p))
           /\ Gestured(p, CloseForms(p))
           /\ Gestured(p, Again(CloseForms(p)))
           /\ \A s : Gestured(p, PeopleQuery(p, s)) /\ Gestured(p, FileChosen(p, s))
                 /\ Gestured(p, ChooseDataType(p, s))
           /\ \A q : q \in Turns(p) => Gestured(p, q) /\ Gestured(p, CloseForms(q))
                 /\ \A r : Gestured(p, Select(q, r))
           /\ \A q : q \in Types(p) \/ q \in Elapses(p) => Gestured(p, q)
           /\ \A r : Gestured(p, Select(p, r)) /\ Gestured(p, [p EXCEPT !.at = r])
           /\ Gestured(p, AuditClear(p)) /\ \A r : Gestured(p, SourceSelected(p, r))
           /\ \A s, r : Gestured(p, ComboboxTyped(p, s))
                 /\ Gestured(p, ComboboxChosen(p, r))
           /\ Gestured(p, ComboboxLeft(p)) /\ Gestured(p, ComboboxCleared(p))
           /\ Gestured(p, ComboboxSearch(p)) /\ Gestured(p, Again(Open(p, "options")))
<1> USE DEF IsPage, Parts, Gestured
<1>1. \A f : Gestured(p, Open(p, f)) /\ Gestured(p, Close(p, f))
      /\ Gestured(p, StartOnly(p, f))
  BY DEF Open, Close, StartOnly
<1>2. \A op : p.dialog = Nothing => Gestured(p, Ask(p, op))
      /\ \A r : Gestured(p, [Ask(p, op) EXCEPT !.at = r])
  BY DEF Ask
<1>3. Gestured(p, Again(p)) /\ Gestured(p, Forget(p)) /\ Gestured(p, Dismiss(p))
      /\ Gestured(p, CloseForms(p))
  BY DEF Again, Forget, Dismiss, CloseForms
<1>4. Gestured(p, Again(CloseForms(p)))
  BY DEF Again, CloseForms
<1>5. \A s : Gestured(p, [p EXCEPT !.topic = s]) /\ Gestured(p, [p EXCEPT !.pending = s])
      /\ Gestured(p, FileChosen(p, s)) /\ Gestured(p, ChooseDataType(p, s))
  BY DEF FileChosen, ChooseDataType, Forget
<1>14. \A s : Gestured(p, PeopleQuery(p, s))
  BY DEF PeopleQuery
<1>6. \A s, r : Gestured(p, CloseForms([p EXCEPT !.topic = s]))
      /\ Gestured(p, Select([p EXCEPT !.topic = s], r))
  BY DEF CloseForms, Select
<1>7. \A r : Gestured(p, Select(p, r)) /\ Gestured(p, [p EXCEPT !.at = r])
  BY DEF Select
<1>8. Gestured(p, [p EXCEPT !.topic = p.pending, !.pending = Nothing])
  OBVIOUS
<1>11. Gestured(p, AuditClear(p)) /\ \A r : Gestured(p, SourceSelected(p, r))
  BY DEF AuditClear, SourceSelected, Forget
<1>12. \A s, r : Gestured(p, ComboboxTyped(p, s)) /\ Gestured(p, ComboboxChosen(p, r))
  BY DEF ComboboxTyped, ComboboxChosen, ComboboxEmptied, Stop, Open
<1>13. Gestured(p, ComboboxLeft(p)) /\ Gestured(p, ComboboxCleared(p))
      /\ Gestured(p, ComboboxSearch(p)) /\ Gestured(p, Again(Open(p, "options")))
  BY DEF ComboboxLeft, ComboboxCleared, ComboboxSearch, ComboboxEmptied, Stop, Open,
     Again, AgainOf
<1> HIDE DEF Gestured, IsPage
<1>9. \A q : q \in Turns(p) => Gestured(p, q) /\ Gestured(p, CloseForms(q))
      /\ \A r : Gestured(p, Select(q, r))
  BY <1>5, <1>6 DEF Turns
<1>10. \A q : q \in Types(p) \/ q \in Elapses(p) => Gestured(p, q)
  BY <1>5, <1>8 DEF Types, Elapses, If
<1> QED BY <1>1, <1>2, <1>3, <1>4, <1>5, <1>7, <1>9, <1>10, <1>11, <1>12, <1>13, <1>14

LEMMA EveryGesture ==
    ASSUME NEW p, IsPage(p), NEW pg \in Pages, NEW q \in Gestures(pg, p),
           p.dialog = Nothing => ~p.held
    PROVE  Gestured(p, q)
<1>0. \A op \in Ops : \A does, rows, o : o \in Offer(p, op, does, rows) =>
           /\ Gestured(p, o) /\ Gestured(p, Forget(o)) /\ Gestured(p, Dismiss(o))
           /\ \A r : Gestured(p, [o EXCEPT !.at = r])
  BY Sending
<1>c. \A op \in Ops : \A does, o : o \in Clicks(p, op, does) => Gestured(p, o)
  BY Clicking
<1>w. /\ \A o : o \in Dismissal(p) => Gestured(p, o)
      /\ \A o, op, does, rows : o \in Confirmation(p, op, does, rows)
            /\ op \in GivenBack \cup {"transferPerson"} => Gestured(p, o)
      /\ p.dialog = "transferPerson" => Gestured(p, Confirmed(p))
  BY Waiting
<1> USE Staying, <1>0, <1>w, <1>c DEF If, Ops, GivenBack
<1>1. CASE pg = "people"
  <2>1. q \in PeoplePage(p)
    BY <1>1 DEF Gestures
  <2> QED BY <2>1 DEF PeoplePage, PeopleFilters, PeopleTyping, PeopleTable, PeopleClear,
      PeoplePages
<1>2. CASE pg = "person"
  <2>1. q \in PersonPage(p)
    BY <1>2 DEF Gestures
  <2> QED BY <2>1 DEF PersonPage, PersonHeader, PersonDialogs, PersonProfile
<1>3. CASE pg = "personRoles"
  <2>1. q \in RolesPage(p)
    BY <1>3 DEF Gestures
  <2> QED BY <2>1 DEF RolesPage, GrantForm, RolesTab
<1>4. CASE pg = "members"
  <2>1. q \in MembersPage(p)
    BY <1>4 DEF Gestures
  <2> QED BY <2>1 DEF MembersPage, MemberList, AddMemberForm
<1>5. CASE pg = "nested"
  <2>1. q \in NestedPage(p)
    BY <1>5 DEF Gestures
  <2> QED BY <2>1 DEF NestedPage, ChildGroups, NestForm
<1>6. CASE pg = "group"
  <2>1. q \in GroupPage(p)
    BY <1>6 DEF Gestures
  <2> QED BY <2>1 DEF GroupPage
<1>7. CASE pg = "units"
  <2>1. q \in UnitsPage(p)
    BY <1>7 DEF Gestures
  <2>2. CASE p.dialog # Nothing
    BY <2>1, <2>2 DEF UnitsPage, DeleteUnitDialog
  <2>3. CASE q \in OrganizationSwitch(p)
    <3>1. PICK o \in Turns(p) : q = Select(o, Nothing)
      BY <2>3 DEF OrganizationSwitch
    <3> QED BY <3>1
  <2>6. CASE q \in UnitTree(p)
    BY <2>6 DEF UnitTree
  <2>4. CASE p.dialog = Nothing /\ q \in UnitHeading(p)
    BY <2>4 DEF UnitHeading
  <2>5. CASE q \in RenameForm(p) \cup UnitChildren(p)
    BY <2>5 DEF RenameForm, UnitChildren, CreateUnitForm
  <2> QED BY <2>1, <2>2, <2>3, <2>4, <2>5, <2>6 DEF UnitsPage
<1>8. CASE pg = "organizations"
  <2>1. q \in OrganizationsPage(p)
    BY <1>8 DEF Gestures
  <2> QED BY <2>1 DEF OrganizationsPage, OrganizationForm, OrganizationTable
<1>9. CASE pg = "reviews"
  <2>1. q \in ReviewsTable(p)
    BY <1>9 DEF Gestures
  <2> QED BY <2>1 DEF ReviewsTable
<1>10. CASE pg = "campaigns"
  <2>1. q \in CampaignForm(p) \cup CampaignsTable(p)
    BY <1>10 DEF Gestures
  <2> QED BY <2>1 DEF CampaignForm, CampaignsTable
<1>11. CASE pg = "import"
  <2>1. q \in ImportPage(p)
    BY <1>11 DEF Gestures
  <2> QED BY <2>1 DEF ImportPage, ImportUpload, ImportPreview, ImportStartOver,
      ImportResult
<1>12. CASE pg = "combobox"
  <2>1. q \in ComboboxPage(p)
    BY <1>12 DEF Gestures
  <2> QED BY <2>1 DEF ComboboxPage, ComboboxKeys, ComboboxOpened
<1>13. CASE pg = "self"
  <2>1. q \in SelfForm(p)
    BY <1>13 DEF Gestures
  <2> QED BY <2>1 DEF SelfForm
<1>14. CASE pg = "rules"
  <2>1. q \in RulesPage(p)
    BY <1>14 DEF Gestures
  <2> QED BY <2>1 DEF RulesPage, RulesFailed, RuleForm, RulesTable, RulePreview
<1>15. CASE pg = "app"
  <2>1. q \in AppPage(p)
    BY <1>15 DEF Gestures
  <2> QED BY <2>1 DEF AppPage, AppForm, AppEditing, AppActions
<1>16. CASE pg = "sources"
  <2>1. q \in SourcesPage(p)
    BY <1>16 DEF Gestures
  <2> QED BY <2>1 DEF SourcesPage, SourceCommit, SourceForm, SourcesTable,
      SourceButtons, SourceEdit
<1>17. CASE pg = "audit"
  <2>1. q \in AuditPage(p)
    BY <1>17 DEF Gestures
  <2> QED BY <2>1 DEF AuditPage, AuditFilters, AuditTyping, AuditTable, EntryUnfolded,
      AuditPages
<1>18. CASE pg = "letters"
  <2>1. q \in DeadLettersPage(p)
    BY <1>18 DEF Gestures
  <2> QED BY <2>1 DEF DeadLettersPage, DeadLettersFilter, DeadLettersTable,
      DeadLettersPages
<1>19. CASE pg = "connectors"
  <2>1. q \in ConnectorsPage(p)
    BY <1>19 DEF Gestures
  <2> QED BY <2>1 DEF ConnectorsPage, ConnectorsFailed, ConnectorsOrganization,
      ConnectorsTab
<1>20. CASE pg = "roles"
  <2>1. q \in RolesListPage(p)
    BY <1>20 DEF Gestures
  <2> QED BY <2>1 DEF RolesListPage, RoleForm, RolesTable
<1>21. CASE pg = "conflicts"
  <2>1. q \in ConflictsPage(p)
    BY <1>21 DEF Gestures
  <2> QED BY <2>1 DEF ConflictsPage, ConflictForm, ConflictsTable
<1>22. CASE pg = "role"
  <2>1. q \in RoleDetailPage(p)
    BY <1>22 DEF Gestures
  <2> QED BY <2>1 DEF RoleDetailPage, DisableDialog, RoleHeader, DefinitionTab, Reseeded
<1>23. CASE pg = "exceptions"
  <2>1. q \in ExceptionsPage(p)
    BY <1>23 DEF Gestures
  <2> QED BY <2>1 DEF ExceptionsPage, ExceptionForm, ExceptionsTable
<1>24. CASE pg = "attributes"
  <2>1. q \in AttributesPage(p)
    BY <1>24 DEF Gestures
  <2> QED BY <2>1 DEF AttributesPage, ScopeActivated, AttributeStarts, AttributeForm,
      MigrationPanel, AttributesTable
<1>25. CASE pg = "migration"
  <2>1. q \in MigrationPage(p)
    BY <1>25 DEF Gestures
  <2> QED BY <2>1 DEF MigrationPage, MigrationChoices, MigrationReport
<1>26. CASE pg = "campaign"
  <2>1. q \in CampaignPage(p)
    BY <1>26 DEF Gestures
  <2> QED BY <2>1 DEF CampaignPage, CampaignFailed, CampaignHeader, CampaignItems
<1>27. CASE pg = "catalogue"
  <2>1. q \in CataloguePage(p)
    BY <1>27 DEF Gestures
  <2> QED BY <2>1 DEF CataloguePage, RequestForm, RequestsTable
<1> QED BY <1>1, <1>2, <1>3, <1>4, <1>5, <1>6, <1>7, <1>8, <1>9, <1>10, <1>11, <1>12,
    <1>13, <1>14, <1>15, <1>16, <1>17, <1>18, <1>19, <1>20, <1>21, <1>22, <1>23, <1>24,
    <1>25, <1>26, <1>27 DEF Pages, PageLoads

-----------------------------------------------------------------------------
IsMessage(m) == DOMAIN m = {"cmd", "answer", "got"}

WaitsInv ==
    /\ page \in Pages /\ IsPage(view)
    /\ view.held => view.dialog \in GivenBack \cup {"transferPerson"}
    /\ \A m \in sent : IsMessage(m) /\ m.cmd.op \in Ops
    /\ WaitsEnd

LEMMA TurnedTo ==
    ASSUME NEW q, IsPage(q), Turn(q)
    PROVE  /\ IsPage(view')
           /\ view'.busy \subseteq q.busy /\ view'.dialog = q.dialog /\ view'.held = q.held
BY DEF Turn, IsPage, Parts

LEMMA GesturesWait == WaitsInv /\ Gesture => WaitsInv'
<1> SUFFICES ASSUME WaitsInv, NEW q \in Gestures(page, view), Turn(q), page' = page,
                    sent' = sent \cup {[cmd |-> c, answer |-> "none", got |-> Nothing]
                                         : c \in q.busy \ view.busy}
             PROVE  WaitsInv'
  BY DEF Gesture
<1> DEFINE new(c) == [cmd |-> c, answer |-> "none", got |-> Nothing]
<1>1. Gestured(view, q)
  BY EveryGesture, PageAssumption DEF WaitsInv, GivenBack
<1>2. /\ IsPage(view') /\ view'.busy \subseteq q.busy
      /\ view'.dialog = q.dialog /\ view'.held = q.held
  BY <1>1, TurnedTo DEF Gestured
<1>3. \A c \in q.busy : c \in view.busy \/ (c.op \in Ops /\ new(c) \in sent')
  BY <1>1 DEF Gestured
<1>4. \A c : IsMessage(new(c)) /\ new(c).cmd = c
  BY DEF IsMessage
<1>5. \A m \in sent' : m \in sent \/ \E c \in q.busy \ view.busy : m = new(c)
  OBVIOUS
<1> HIDE DEF new
<1>6. \A c \in q.busy : c.op # "nestGroup" => \E m \in sent' : m.cmd = c
  BY <1>3, <1>4 DEF WaitsInv, WaitsEnd
<1>7. \A m \in sent' : IsMessage(m) /\ m.cmd.op \in Ops
  BY <1>3, <1>4, <1>5 DEF WaitsInv
<1>8. "nestGroup" \notin GivenBack
  BY DEF GivenBack
<1>9. q.held /\ q.dialog # "transferPerson" => q.dialog \in GivenBack
      /\ \E m \in sent' : m.cmd.op = q.dialog
  BY <1>1, <1>6, <1>8 DEF Gestured, WaitsInv, WaitsEnd
<1> QED BY <1>2, <1>6, <1>7, <1>9 DEF WaitsInv, WaitsEnd

LEMMA AnswersWait == WaitsInv /\ Return => WaitsInv'
<1> SUFFICES ASSUME WaitsInv, NEW m \in sent, NEW ok \in BOOLEAN, NEW got,
                    Turn(Answered(view, m.cmd, ok, got)), page' = page, sent' = sent \ {m}
             PROVE  WaitsInv'
  BY DEF Return
<1> DEFINE q == Answered(view, m.cmd, ok, got)
<1>1. Freed(view, m.cmd, q)
  BY EveryAnswerFrees DEF WaitsInv
<1>2. Turn(q)
  OBVIOUS
<1> HIDE DEF q
<1>3. /\ IsPage(view') /\ view'.busy \subseteq q.busy
      /\ view'.dialog = q.dialog /\ view'.held = q.held
  BY <1>1, <1>2, TurnedTo DEF Freed
<1>4. \A c \in q.busy : c.op # "nestGroup" => c # m.cmd /\ \E n \in sent : n.cmd = c
  BY <1>1 DEF Freed, WaitsInv, WaitsEnd
<1>5. q.held /\ q.dialog # "transferPerson" => m.cmd.op # q.dialog
      /\ \E n \in sent : n.cmd.op = q.dialog
  BY <1>1 DEF Freed, WaitsInv, WaitsEnd
<1>6. q.held => q.dialog \in GivenBack \cup {"transferPerson"}
  BY <1>1 DEF Freed, WaitsInv
<1> QED BY <1>3, <1>4, <1>5, <1>6 DEF WaitsInv, WaitsEnd

(* What a page waits for is under way, and its answer gives it back.     *)
THEOREM WaitingEnds == ConsoleSpec => []WaitsEnd
<1>1. ConsoleInit => WaitsInv
  BY DEF ConsoleInit, Opened, WaitsInv, WaitsEnd, IsPage, Parts
<1>2. WaitsInv /\ [ConsoleNext]_pvars => WaitsInv'
  <2> SUFFICES ASSUME WaitsInv, [ConsoleNext]_pvars PROVE WaitsInv'
    OBVIOUS
  <2>1. CASE Gesture
    BY <2>1, GesturesWait
  <2>2. CASE Return
    BY <2>2, AnswersWait
  <2>3. CASE Read \/ Edit \/ UNCHANGED pvars
    BY <2>3 DEF Read, Edit, pvars, WaitsInv, WaitsEnd, IsPage
  <2>4. CASE LoadFails \/ Arrive
    <3>1. /\ IsPage(view') /\ view'.busy = view.busy /\ view'.dialog = view.dialog
          /\ view'.held = view.held /\ sent' = sent /\ page' = page
      BY <2>4 DEF LoadFails, Arrive, WaitsInv, IsPage, Parts, RoleLoaded, Forget,
         Reseeded, Close
    <3> QED BY <3>1 DEF WaitsInv, WaitsEnd
  <2>5. CASE Perform \/ Refuse
    <3>1. PICK m \in sent : \E n : IsMessage(n) /\ n.cmd = m.cmd
          /\ sent' = (sent \ {m}) \cup {n}
      BY <2>5 DEF Perform, Refuse, WaitsInv, IsMessage
    <3>2. view' = view /\ page' = page
      BY <2>5 DEF Perform, Refuse
    <3> QED BY <3>1, <3>2 DEF WaitsInv, WaitsEnd, IsPage
  <2> QED BY <2>1, <2>2, <2>3, <2>4, <2>5 DEF ConsoleNext
<1>3. WaitsInv => WaitsEnd
  BY DEF WaitsInv
<1> QED BY <1>1, <1>2, <1>3, PTL DEF ConsoleSpec

-----------------------------------------------------------------------------
(* Pages whose every command has the page read again, when it is taken.  *)
Rereading ==
    {"people", "group", "campaigns", "rules", "audit", "letters", "connectors", "roles",
     "exceptions", "attributes"}

RereadOps ==
    {"createCampaign", "createRule", "enableRule", "toggleRule", "retryLetter",
     "createRole", "addException", "removeException", "createAttribute",
     "editAttribute", "toggleAttribute"}

Reread(c) == c.op \in RereadOps \/ (c.op = "previewRule" /\ c.does = "look")

Steady(p) ==
    /\ IsPage(p) /\ p.topic \in Topics /\ p.pending \in Topics \cup {Nothing}
    /\ p.again = Nothing

Followed(p, q) ==
    /\ IsPage(q) /\ q.topic \in Topics /\ q.pending \in Topics \cup {Nothing}
    /\ q.again = Nothing \/ q.again = q.topic
    /\ q.rows = p.rows /\ q.of = p.of /\ q.error = p.error
    /\ \A c \in q.busy : c \in p.busy \/ Reread(c)

LEMMA RereadingSends ==
    ASSUME NEW p, Steady(p), NEW op, NEW does,
           op \in RereadOps \/ (op = "previewRule" /\ does = "look"), NEW q
    PROVE  /\ \A rows : q \in Offer(p, op, does, rows) => Followed(p, q)
                 /\ Followed(p, Forget(q))
           /\ q \in Clicks(p, op, does) => Followed(p, q)
<1>1. ASSUME NEW rows, NEW o \in Offer(p, op, does, rows)
      PROVE  Followed(p, o) /\ Followed(p, Forget(o))
                   /\ \A r : Followed(p, [o EXCEPT !.at = r])
  <2>1. /\ IsPage(o) /\ o.topic = p.topic /\ o.rows = p.rows /\ o.of = p.of
        /\ o.error = p.error /\ o.again = p.again /\ o.pending = p.pending
        /\ \A c \in o.busy : c \in p.busy \/ (c.op = op /\ c.does = does)
    BY OffersSend DEF Steady
  <2>2. \A c \in o.busy : c \in p.busy \/ Reread(c)
    BY <2>1 DEF Reread
  <2>3. Followed(p, o)
    BY <2>1, <2>2 DEF Followed, Steady
  <2>4. Followed(p, Forget(o)) /\ \A r : Followed(p, [o EXCEPT !.at = r])
    BY <2>1, <2>2 DEF Followed, Steady, Forget, IsPage, Parts
  <2> QED BY <2>3, <2>4
<1>2. ASSUME q \in Clicks(p, op, does) PROVE Followed(p, q)
  <2>1. PICK r : \E o \in Offer(p, op, does, {r}) : q = [o EXCEPT !.at = r]
    BY <1>2 DEF Clicks
  <2>2. PICK o \in Offer(p, op, does, {r}) : q = [o EXCEPT !.at = r]
    BY <2>1
  <2> QED BY <2>2, <1>1
<1> QED BY <1>1, <1>2

LEMMA RereadingStays ==
    ASSUME NEW p, Steady(p)
    PROVE  /\ \A f : Followed(p, Open(p, f)) /\ Followed(p, Close(p, f))
                 /\ Followed(p, StartOnly(p, f))
           /\ Followed(p, Again(p)) /\ Followed(p, Forget(p)) /\ Followed(p, CloseForms(p))
           /\ Followed(p, Again(CloseForms(p))) /\ Followed(p, AuditClear(p))
           /\ \A s \in Topics : Followed(p, PeopleQuery(p, s))
           /\ \A q : q \in Turns(p) => Followed(p, q) /\ Followed(p, CloseForms(q))
           /\ \A q : q \in Types(p) \/ q \in Elapses(p) => Followed(p, q)
           /\ \A r : Followed(p, [p EXCEPT !.at = r])
<1> USE PageAssumption DEF IsPage, Parts, Followed, Steady
<1>1. \A f : Followed(p, Open(p, f)) /\ Followed(p, Close(p, f))
      /\ Followed(p, StartOnly(p, f))
  BY DEF Open, Close, StartOnly
<1>2. Followed(p, Again(p)) /\ Followed(p, Forget(p)) /\ Followed(p, CloseForms(p))
  BY DEF Again, Forget, CloseForms
<1>3. Followed(p, Again(CloseForms(p))) /\ Followed(p, AuditClear(p))
  BY DEF Again, CloseForms, AuditClear
<1>4. \A s \in Topics : Followed(p, PeopleQuery(p, s))
  BY DEF PeopleQuery
<1>5. \A s \in Topics : Followed(p, [p EXCEPT !.topic = s])
      /\ Followed(p, [p EXCEPT !.pending = s])
  OBVIOUS
<1>6. \A s \in Topics : Followed(p, CloseForms([p EXCEPT !.topic = s]))
  BY DEF CloseForms
<1>7. p.pending # Nothing
      => Followed(p, [p EXCEPT !.topic = p.pending, !.pending = Nothing])
  OBVIOUS
<1>8. \A r : Followed(p, [p EXCEPT !.at = r])
  OBVIOUS
<1> HIDE DEF Followed, Steady, IsPage
<1>9. \A q : q \in Turns(p) => Followed(p, q) /\ Followed(p, CloseForms(q))
  BY <1>5, <1>6 DEF Turns
<1>10. \A q : q \in Types(p) \/ q \in Elapses(p) => Followed(p, q)
  BY <1>5, <1>7 DEF Types, Elapses, If
<1> QED BY <1>1, <1>2, <1>3, <1>4, <1>8, <1>9, <1>10

LEMMA RereadingFollows ==
    ASSUME NEW p, Steady(p), NEW pg \in Rereading, NEW q \in Gestures(pg, p)
    PROVE  Followed(p, q)
<1>1. \A op \in RereadOps \cup {"previewRule"} : \A does, rows, o :
         o \in Offer(p, op, does, rows) /\ (op = "previewRule" => does = "look")
           => Followed(p, o) /\ Followed(p, Forget(o))
  BY RereadingSends
<1>2. \A op \in RereadOps : \A does, o : o \in Clicks(p, op, does) => Followed(p, o)
  BY RereadingSends
<1> USE RereadingStays, <1>1, <1>2, PageAssumption DEF If, RereadOps
<1>3. CASE pg = "people"
  <2>1. q \in PeoplePage(p)
    BY <1>3 DEF Gestures
  <2> QED BY <2>1 DEF PeoplePage, PeopleFilters, PeopleTyping, PeopleTable, PeopleClear,
      PeoplePages
<1>4. CASE pg = "group"
  <2>1. q \in GroupPage(p)
    BY <1>4 DEF Gestures
  <2> QED BY <2>1 DEF GroupPage
<1>5. CASE pg = "campaigns"
  <2>1. q \in CampaignForm(p) \cup CampaignsTable(p)
    BY <1>5 DEF Gestures
  <2> QED BY <2>1 DEF CampaignForm, CampaignsTable
<1>6. CASE pg = "rules"
  <2>1. q \in RulesPage(p)
    BY <1>6 DEF Gestures
  <2> QED BY <2>1 DEF RulesPage, RulesFailed, RuleForm, RulesTable, RulePreview
<1>7. CASE pg = "audit"
  <2>1. q \in AuditPage(p)
    BY <1>7 DEF Gestures
  <2> QED BY <2>1 DEF AuditPage, AuditFilters, AuditTyping, AuditTable, EntryUnfolded,
      AuditPages
<1>8. CASE pg = "letters"
  <2>1. q \in DeadLettersPage(p)
    BY <1>8 DEF Gestures
  <2> QED BY <2>1 DEF DeadLettersPage, DeadLettersFilter, DeadLettersTable,
      DeadLettersPages
<1>9. CASE pg = "connectors"
  <2>1. q \in ConnectorsPage(p)
    BY <1>9 DEF Gestures
  <2> QED BY <2>1 DEF ConnectorsPage, ConnectorsFailed, ConnectorsOrganization,
      ConnectorsTab
<1>10. CASE pg = "roles"
  <2>1. q \in RolesListPage(p)
    BY <1>10 DEF Gestures
  <2> QED BY <2>1 DEF RolesListPage, RoleForm, RolesTable
<1>11. CASE pg = "exceptions"
  <2>1. q \in ExceptionsPage(p)
    BY <1>11 DEF Gestures
  <2> QED BY <2>1 DEF ExceptionsPage, ExceptionForm, ExceptionsTable
<1>12. CASE pg = "attributes"
  <2>1. q \in AttributesPage(p)
    BY <1>12 DEF Gestures
  <2> QED BY <2>1 DEF AttributesPage, ScopeActivated, AttributeStarts, AttributeForm,
      MigrationPanel, AttributesTable
<1> QED BY <1>3, <1>4, <1>5, <1>6, <1>7, <1>8, <1>9, <1>10, <1>11, <1>12 DEF Rereading

LEMMA RereadingAnswers ==
    ASSUME NEW p, Steady(p), NEW c, Reread(c), NEW ok \in BOOLEAN, NEW got
    PROVE  /\ Followed(p, Answered(p, c, ok, got))
           /\ ok /\ c.does # "look"
                => Answered(p, c, ok, got).again = Answered(p, c, ok, got).topic
<1> USE DEF Steady, Followed, IsPage, Parts, Done
<1>1. CASE c.op = "createCampaign"
  BY <1>1 DEF Answered, CampaignCreated, Again, Close
<1>2. CASE c.op = "createRule"
  BY <1>2 DEF Answered, RuleCreated, Again, Close
<1>3. CASE c.op = "toggleRule"
  BY <1>3 DEF Answered, RuleToggled, Again
<1>4. CASE c.op = "enableRule"
  BY <1>4 DEF Answered, RuleEnabled, Again, Forget
<1>5. CASE c.op = "previewRule" /\ c.does = "look"
  <2>1. Answered(p, c, ok, got) = RulePreviewed(p, c, ok, got)
    BY <1>5 DEF Answered
  <2> QED BY <1>5, <2>1 DEF RulePreviewed
<1>6. CASE c.op = "retryLetter"
  BY <1>6 DEF Answered, LetterRetried, Again
<1>7. CASE c.op = "createRole"
  BY <1>7 DEF Answered, RoleCreated, Again, Close
<1>8. CASE c.op = "addException"
  BY <1>8 DEF Answered, ExceptionAdded, Again, Close
<1>9. CASE c.op = "removeException"
  BY <1>9 DEF Answered, ExceptionRemoved, Again
<1>10. CASE c.op \in {"createAttribute", "editAttribute"}
  <2>1. Answered(p, c, ok, got) = AttributeSubmitted(p, c, ok)
    BY <1>10 DEF Answered
  <2> QED BY <2>1 DEF AttributeSubmitted, Again, CloseForms
<1>11. CASE c.op = "toggleAttribute"
  BY <1>11 DEF Answered, AttributeToggled, Again
<1> QED BY <1>1, <1>2, <1>3, <1>4, <1>5, <1>6, <1>7, <1>8, <1>9, <1>10, <1>11 DEF
    Reread, RereadOps

(* Pages that load nothing: what is previewed is all they have.          *)
Loadless == {"import", "migration"}

PreviewOps == {"previewImport", "commitImport", "previewMigration", "commitMigration"}

LEMMA LoadlessGestures ==
    ASSUME NEW p, Steady(p), NEW pg \in Loadless, NEW q \in Gestures(pg, p)
    PROVE  /\ Steady(q) /\ q.rows = p.rows
           /\ \A c \in q.busy : c \in p.busy \/ c.op \in PreviewOps
<1> DEFINE Good(o) == /\ Steady(o) /\ o.rows = p.rows
                      /\ \A c \in o.busy : c \in p.busy \/ c.op \in PreviewOps
<1>1. ASSUME NEW op \in PreviewOps, NEW does, NEW rows, NEW o \in Offer(p, op, does, rows)
      PROVE  Good(o) /\ Good(Forget(o))
  <2>1. /\ IsPage(o) /\ o.topic = p.topic /\ o.rows = p.rows /\ o.again = p.again
        /\ o.pending = p.pending /\ \A c \in o.busy : c \in p.busy \/ c.op = op
    BY OffersSend DEF Steady
  <2> QED BY <2>1 DEF Steady, Forget, IsPage, Parts
<1>2. \A s \in Topics : Good(FileChosen(p, s)) /\ Good(ChooseDataType(p, s))
  BY DEF FileChosen, ChooseDataType, Forget, Steady, IsPage, Parts
<1>3. p.topic \in Topics
  BY DEF Steady
<1>4. \A op \in PreviewOps : \A does, rows, o : o \in Offer(p, op, does, rows) => Good(o)
      /\ Good(Forget(o))
  BY <1>1
<1> SUFFICES Good(q)
  OBVIOUS
<1> HIDE DEF Good
<1>5. CASE pg = "import"
  <2>1. q \in ImportPage(p)
    BY <1>5 DEF Gestures
  <2> QED BY <2>1, <1>2, <1>3, <1>4 DEF ImportPage, ImportUpload, ImportPreview,
      ImportResult, ImportStartOver, If, PreviewOps
<1>6. CASE pg = "migration"
  <2>1. q \in MigrationPage(p)
    BY <1>6 DEF Gestures
  <2> QED BY <2>1, <1>2, <1>4 DEF MigrationPage, MigrationChoices, MigrationReport, If,
      PreviewOps
<1> QED BY <1>5, <1>6 DEF Loadless

LEMMA LoadlessAnswers ==
    ASSUME NEW p, Steady(p), NEW c, c.op \in PreviewOps, NEW ok \in BOOLEAN, NEW got
    PROVE  Steady(Answered(p, c, ok, got)) /\ Answered(p, c, ok, got).rows = p.rows
<1> USE DEF Steady, IsPage, Parts, Done
<1>1. CASE c.op = "previewImport"
  BY <1>1 DEF Answered, ImportPreviewed
<1>2. CASE c.op = "commitImport"
  BY <1>2 DEF Answered, ImportCommitted
<1>3. CASE c.op = "previewMigration"
  BY <1>3 DEF Answered, MigrationPreviewed
<1>4. CASE c.op = "commitMigration"
  BY <1>4 DEF Answered, MigrationCommitted
<1> QED BY <1>1, <1>2, <1>3, <1>4 DEF PreviewOps

(* Pages that put the answer of their one command, sent of the rows they *)
(* show, in the place of those.                                          *)
Answering == {"reviews", "self"}

OwnOp(pg) == IF pg = "self" THEN "saveProfile" ELSE "decide"

LEMMA AnsweringGestures ==
    ASSUME NEW p, Steady(p), NEW pg \in Answering, NEW q \in Gestures(pg, p)
    PROVE  /\ Steady([q EXCEPT !.again = Nothing]) /\ q.topic = p.topic
           /\ q.rows = p.rows /\ q.of = p.of /\ q.error = p.error
           /\ \/ q.busy = p.busy /\ p.error /\ q.again = p.topic
              \/ /\ q.again = Nothing /\ Loaded(p)
                 /\ \A c \in p.busy : c.op # OwnOp(pg)
                 /\ \E c : c.op = OwnOp(pg) /\ c.of = p.of /\ q.busy = p.busy \cup {c}
<1>1. CASE p.error /\ q = Again(p)
  BY <1>1 DEF Again, Steady, IsPage, Parts
<1>2. ASSUME NEW does \in {"change", "remove"}, NEW r \in Shown(p), q = Send(p, OwnOp(pg),
            does, r),
             Idle(p, OwnOp(pg))
      PROVE  /\ Steady([q EXCEPT !.again = Nothing]) /\ q.topic = p.topic
             /\ q.rows = p.rows /\ q.of = p.of /\ q.error = p.error
             /\ q.again = Nothing /\ Loaded(p)
             /\ \A c \in p.busy : c.op # OwnOp(pg)
             /\ \E c : c.op = OwnOp(pg) /\ c.of = p.of /\ q.busy = p.busy \cup {c}
  <2> DEFINE c == [op |-> OwnOp(pg), does |-> does, row |-> r, to |-> Aim(p, does, r),
                   saw |-> p.preview,
                   of |-> IF does \in {"change", "remove"} /\ Loaded(p)
                         THEN p.of ELSE p.topic]
  <2>1. Loaded(p)
    BY DEF Shown
  <2>2. c.op = OwnOp(pg) /\ c.of = p.of
    BY <2>1
  <2>3. q = [p EXCEPT !.busy = p.busy \cup {c}]
    BY <1>2 DEF Send
  <2> HIDE DEF c
  <2> QED BY <1>2, <2>1, <2>2, <2>3 DEF Steady, IsPage, Parts, Idle
<1>3. CASE pg = "reviews"
  <2>1. q \in ReviewsTable(p)
    BY <1>3 DEF Gestures
  <2>2. \/ p.error /\ q = Again(p)
        \/ Idle(p, "decide") /\ \E r \in Shown(p) : q = Send(p, "decide", "remove", r)
    BY <2>1 DEF ReviewsTable, If, Offer
  <2>3. OwnOp(pg) = "decide"
    BY <1>3 DEF OwnOp
  <2> QED BY <1>1, <1>2, <2>2, <2>3
<1>4. CASE pg = "self"
  <2>1. q \in SelfForm(p)
    BY <1>4 DEF Gestures
  <2>2. Idle(p, "saveProfile")
        /\ \E r \in Shown(p) : q = Send(p, "saveProfile", "change", r)
    BY <2>1 DEF SelfForm, If, Offer
  <2>3. OwnOp(pg) = "saveProfile"
    BY <1>4 DEF OwnOp
  <2> QED BY <1>2, <2>2, <2>3
<1> QED BY <1>3, <1>4 DEF Answering

LEMMA AnsweringAnswers ==
    ASSUME NEW p, Steady(p), NEW pg \in Answering, NEW c, c.op = OwnOp(pg), c.of = p.of,
           Loaded(p), NEW ok \in BOOLEAN, NEW got
    PROVE  /\ Steady(Answered(p, c, ok, got)) /\ Answered(p, c, ok, got).topic = p.topic
           /\ Answered(p, c, ok, got).of = p.of /\ Answered(p, c, ok, got).error = p.error
           /\ Answered(p, c, ok, got).busy = p.busy \ {c}
           /\ Answered(p, c, ok, got).rows =
                 IF ~ok THEN p.rows ELSE IF pg = "self" THEN got ELSE Applied(p.rows, c)
<1> USE DEF Steady, IsPage, Parts, Done
<1>1. CASE pg = "reviews"
  <2>1. Answered(p, c, ok, got) = ReviewDecided(p, c, ok)
    BY <1>1 DEF Answered, OwnOp
  <2> QED BY <1>1, <2>1 DEF ReviewDecided, Patched, Loaded
<1>2. CASE pg = "self"
  <2>1. Answered(p, c, ok, got) = SelfSaved(p, c, ok, got)
    BY <1>2 DEF Answered, OwnOp
  <2> QED BY <1>2, <2>1 DEF SelfSaved, Replace
<1> QED BY <1>1, <1>2 DEF Answering

-----------------------------------------------------------------------------
LEMMA FollowingTraits ==
    ASSUME page \in Rereading \cup Answering
    PROVE  /\ Loading("guarded") /\ ~Loading("asked") /\ ~Loading("none")
                 /\ ~Loading("wipes")
           /\ ~Loading("unmounts") /\ ~Loading("drops")
<1> USE DEF Loading, PageLoads
<1>1. CASE page \in {"people", "group", "campaigns", "rules", "audit", "letters"}
  BY <1>1 DEF PeopleLoads, GroupLoads, CampaignsLoads, RulesLoads, AuditLoads,
     DeadLettersLoads
<1>2. CASE page \in {"connectors", "roles", "exceptions", "attributes", "reviews", "self"}
  BY <1>2 DEF ConnectorsLoads, RolesLoads, RoleDetailLoads, AttributesLoads,
     ReviewsLoads, SelfLoads
<1> QED BY <1>1, <1>2 DEF Rereading, Answering

LEMMA LoadlessTraits == page \in Loadless => Loading("none")
BY DEF Loadless, Loading, PageLoads, ImportLoads, MigrationLoads

(* A page that follows its topic turns to it with a load of its own, or  *)
(* leaves its loads alone.                                               *)
LEMMA FollowingTurns ==
    ASSUME page \in Rereading \cup Answering, NEW q, IsPage(q), q.topic \in Topics,
           q.again = Nothing \/ q.again = q.topic, Turn(q)
    PROVE  /\ IsPage(view') /\ view'.topic = q.topic /\ view'.pending = q.pending
           /\ view'.rows = q.rows /\ view'.of = q.of /\ view'.busy = q.busy
           /\ view'.again = Nothing
           /\ \/ /\ asks' = asks /\ q.topic = view.topic /\ q.again = Nothing
                 /\ view'.error = q.error
              \/ /\ asks' = {[of |-> q.topic, got |-> Nothing]}
                 /\ q.topic # view.topic \/ q.again # Nothing
<1>1. Starts(q) <=> q.topic # view.topic \/ q.again # Nothing
  BY FollowingTraits, PageAssumption DEF Starts
<1>2. q.again # "stop"
  BY PageAssumption
<1>3. /\ IsPage(view') /\ view'.topic = q.topic /\ view'.pending = q.pending
      /\ view'.rows = q.rows /\ view'.of = q.of /\ view'.busy = q.busy
      /\ view'.again = Nothing
      /\ ~Starts(q) => view'.error = q.error
  BY FollowingTraits DEF Turn, IsPage, Parts
<1>4. asks' = IF ~Starts(q) THEN asks
              ELSE {[of |-> IF q.again = Nothing THEN q.topic ELSE q.again,
              got |-> Nothing]}
  BY FollowingTraits, <1>2 DEF Turn
<1>5. (IF q.again = Nothing THEN q.topic ELSE q.again) = q.topic
  OBVIOUS
<1> QED BY <1>1, <1>3, <1>4, <1>5

(* One load at most, of what the page is about.                          *)
OneLoad ==
    /\ \A a \in asks : DOMAIN a = {"of", "got"} /\ a.of = view.topic
    /\ \A a, b \in asks : a = b

(* A command that changes rows and whose answer is on its way.           *)
Answer(m) == m.answer = "ok" /\ m.cmd.does # "look" /\ m.cmd.of = view.topic

Fresh(rows) ==
    \/ rows = service[view.topic]
    \/ view.topic \in unseen
    \/ \E m \in sent : Answer(m)

LoadlessInv ==
    page \in Loadless =>
        /\ Steady(view) /\ view.rows = Nothing /\ asks = {}
        /\ \A m \in sent : IsMessage(m) /\ m.cmd.op \in PreviewOps

RereadingInv ==
    page \in Rereading =>
        /\ Steady(view) /\ DOMAIN service = Topics /\ OneLoad
        /\ \A m \in sent : IsMessage(m) /\ Reread(m.cmd)
        /\ \A a \in asks : a.got # Nothing => Fresh(a.got)
        /\ asks = {} /\ Loaded(view) /\ ~view.error => view.of = view.topic
              /\ Fresh(view.rows)

Outcome(m) == IF page = "self" THEN m.got ELSE Applied(view.rows, m.cmd)

AnsweringInv ==
    page \in Answering =>
        /\ Steady(view) /\ DOMAIN service = Topics /\ OneLoad
        /\ \A m \in sent :
              /\ IsMessage(m) /\ m.cmd \in view.busy
              /\ m.cmd.op = OwnOp(page) /\ m.cmd.of = view.topic
              /\ m.answer = "ok" => view.topic \in unseen
                    \/ service[view.topic] = Outcome(m)
        /\ \A m, n \in sent : m = n
        /\ Loaded(view) => asks = {} /\ view.of = view.topic /\ ~view.error
        /\ ~Loaded(view) => sent = {}
        /\ \A a \in asks : a.got # Nothing => a.got = service[view.topic]
              \/ view.topic \in unseen
        /\ Loaded(view) /\ (\A m \in sent : m.answer # "ok")
              => view.topic \in unseen \/ view.rows = service[view.topic]

SettledInv == page \in Pages /\ LoadlessInv /\ RereadingInv /\ AnsweringInv

LEMMA SettledInit == ConsoleInit => SettledInv
<1> SUFFICES ASSUME ConsoleInit PROVE SettledInv
  OBVIOUS
<1>1. PICK s \in Topics :
         LET none == Loading("none") \/ Loading("asked")
         IN /\ view = [Opened(s) EXCEPT !.loading = ~none]
            /\ asks = IF none THEN {} ELSE {[of |-> s, got |-> Nothing]}
  BY DEF ConsoleInit
<1>2. Steady(view) /\ view.topic = s /\ view.rows = Nothing
  BY <1>1 DEF Opened, Steady, IsPage, Parts
<1>3. page \in Pages /\ sent = {} /\ DOMAIN service = Topics
  BY DEF ConsoleInit
<1>4. LoadlessInv
  BY <1>1, <1>2, <1>3, LoadlessTraits DEF LoadlessInv
<1>5. page \in Rereading \cup Answering => asks = {[of |-> s, got |-> Nothing]}
  BY <1>1, FollowingTraits
<1>6. page \in Rereading \cup Answering => OneLoad /\ \A a \in asks : a.got = Nothing
  BY <1>2, <1>5 DEF OneLoad
<1> QED BY <1>2, <1>3, <1>4, <1>6 DEF SettledInv, RereadingInv, AnsweringInv, Loaded

-----------------------------------------------------------------------------
LEMMA Returned ==
    ASSUME Return
    PROVE  /\ UNCHANGED <<page, service, unseen>>
           /\ \E m \in sent, ok \in BOOLEAN : \E got :
                 /\ ok <=> m.answer = "ok"
                 /\ ok => got = m.got
                 /\ Turn(Answered(view, m.cmd, ok, got))
                 /\ sent' = sent \ {m}
BY DEF Return

Becomes(m, n) ==
    /\ IsMessage(n) /\ n.cmd = m.cmd /\ m.answer = "none"
    /\ sent' = (sent \ {m}) \cup {n}
    /\ \/ /\ n.answer = "ok" /\ n.got = service'[m.cmd.of]
          /\ service' = [service EXCEPT ![m.cmd.of] = Applied(@, m.cmd)]
          /\ unseen' = unseen
       \/ /\ n.answer = "lost" /\ unseen' = unseen \cup {m.cmd.of}
          /\ service' = [service EXCEPT ![m.cmd.of] = Applied(@, m.cmd)]
       \/ n.answer = "refused" /\ service' = service /\ unseen' = unseen

LEMMA Performed ==
    ASSUME Perform \/ Refuse, \A m \in sent : IsMessage(m)
    PROVE  UNCHANGED <<page, view, asks>> /\ \E m \in sent : \E n : Becomes(m, n)
<1>1. CASE Perform
  <2>1. PICK m \in sent :
           /\ m.answer = "none"
           /\ service' = [service EXCEPT ![m.cmd.of] = Applied(@, m.cmd)]
           /\ \/ /\ sent' = (sent \ {m}) \cup
                       {[m EXCEPT !.answer = "ok", !.got = service'[m.cmd.of]]}
                 /\ unseen' = unseen
              \/ /\ sent' = (sent \ {m}) \cup {[m EXCEPT !.answer = "lost"]}
                 /\ unseen' = unseen \cup {m.cmd.of}
    BY <1>1 DEF Perform
  <2>2. CASE /\ sent' = (sent \ {m}) \cup
                       {[m EXCEPT !.answer = "ok", !.got = service'[m.cmd.of]]}
             /\ unseen' = unseen
    <3> DEFINE n == [m EXCEPT !.answer = "ok", !.got = service'[m.cmd.of]]
    <3>1. IsMessage(n) /\ n.cmd = m.cmd /\ n.answer = "ok" /\ n.got = service'[m.cmd.of]
      BY DEF IsMessage
    <3>2. sent' = (sent \ {m}) \cup {n}
      BY <2>2
    <3> HIDE DEF n
    <3>3. Becomes(m, n)
      BY <2>1, <2>2, <3>1, <3>2 DEF Becomes
    <3> QED BY <1>1, <3>3 DEF Perform
  <2>3. CASE /\ sent' = (sent \ {m}) \cup {[m EXCEPT !.answer = "lost"]}
             /\ unseen' = unseen \cup {m.cmd.of}
    <3> DEFINE n == [m EXCEPT !.answer = "lost"]
    <3>1. IsMessage(n) /\ n.cmd = m.cmd /\ n.answer = "lost"
      BY DEF IsMessage
    <3>2. sent' = (sent \ {m}) \cup {n}
      BY <2>3
    <3> HIDE DEF n
    <3>3. Becomes(m, n)
      BY <2>1, <2>3, <3>1, <3>2 DEF Becomes
    <3> QED BY <1>1, <3>3 DEF Perform
  <2> QED BY <2>1, <2>2, <2>3
<1>2. CASE Refuse
  <2>1. PICK m \in sent : /\ m.answer = "none"
                          /\ sent' = (sent \ {m}) \cup {[m EXCEPT !.answer = "refused"]}
    BY <1>2 DEF Refuse
  <2> DEFINE n == [m EXCEPT !.answer = "refused"]
  <2>2. IsMessage(n) /\ n.cmd = m.cmd /\ n.answer = "refused"
    BY DEF IsMessage
  <2>3. sent' = (sent \ {m}) \cup {n}
    BY <2>1
  <2> HIDE DEF n
  <2>4. Becomes(m, n)
    BY <1>2, <2>1, <2>2, <2>3 DEF Becomes, Refuse
  <2> QED BY <1>2, <2>4 DEF Refuse
<1> QED BY <1>1, <1>2

LEMMA LoadlessStep == LoadlessInv /\ ConsoleNext => LoadlessInv'
<1> SUFFICES ASSUME LoadlessInv, ConsoleNext, page' \in Loadless PROVE LoadlessInv'
  BY DEF LoadlessInv
<1>1. page' = page
  BY DEF ConsoleNext, Gesture, Read, Arrive, LoadFails, Perform, Refuse, Return, Edit
<1>2. /\ page \in Loadless /\ Steady(view) /\ view.rows = Nothing /\ asks = {}
      /\ \A m \in sent : IsMessage(m) /\ m.cmd.op \in PreviewOps
  BY <1>1 DEF LoadlessInv
<1>3. ASSUME NEW q, Steady(q), q.rows = Nothing, Turn(q)
      PROVE  Steady(view') /\ view'.rows = Nothing /\ asks' = {}
  <2>1. ~Starts(q)
    BY <1>2, <1>3, LoadlessTraits DEF Starts, Steady
  <2>2. view' = [q EXCEPT !.again = Nothing] /\ asks' = asks
    BY <1>3, <2>1, PageAssumption DEF Turn, Steady
  <2> QED BY <1>2, <1>3, <2>2 DEF Steady, IsPage, Parts
<1>4. CASE Gesture
  <2>1. PICK q \in Gestures(page, view) :
           /\ Turn(q)
           /\ sent' = sent \cup {[cmd |-> c, answer |-> "none", got |-> Nothing]
                                  : c \in q.busy \ view.busy}
    BY <1>4 DEF Gesture
  <2>2. /\ Steady(q) /\ q.rows = Nothing
        /\ \A c \in q.busy : c \in view.busy \/ c.op \in PreviewOps
    BY <1>2, LoadlessGestures
  <2>3. \A m \in sent' : IsMessage(m) /\ m.cmd.op \in PreviewOps
    BY <1>2, <2>1, <2>2 DEF IsMessage
  <2> QED BY <1>3, <2>1, <2>2, <2>3 DEF LoadlessInv
<1>5. CASE Return
  <2>1. PICK m \in sent, ok \in BOOLEAN : \E got :
           Turn(Answered(view, m.cmd, ok, got)) /\ sent' = sent \ {m}
    BY <1>5, Returned
  <2>2. PICK got : Turn(Answered(view, m.cmd, ok, got)) /\ sent' = sent \ {m}
    BY <2>1
  <2>4. Steady(Answered(view, m.cmd, ok, got))
        /\ Answered(view, m.cmd, ok, got).rows = Nothing
    BY <1>2, LoadlessAnswers
  <2> QED BY <1>2, <1>3, <2>2, <2>4 DEF LoadlessInv
<1>6. CASE Read \/ Arrive \/ LoadFails
  BY <1>2, <1>6 DEF Read, Arrive, LoadFails
<1>7. CASE Perform \/ Refuse
  <2>1. PICK m \in sent : \E n : Becomes(m, n)
    BY <1>2, <1>7, Performed
  <2>2. PICK n : Becomes(m, n)
    BY <2>1
  <2>3. UNCHANGED <<view, asks>>
    BY <1>7 DEF Perform, Refuse
  <2> QED BY <1>2, <2>2, <2>3 DEF Becomes, LoadlessInv, Steady, IsPage
<1>8. CASE Edit
  BY <1>2, <1>8 DEF Edit, LoadlessInv
<1> QED BY <1>4, <1>5, <1>6, <1>7, <1>8 DEF ConsoleNext


-----------------------------------------------------------------------------
LEMMA RereadingStep == RereadingInv /\ ConsoleNext => RereadingInv'
<1> SUFFICES ASSUME RereadingInv, ConsoleNext, page' \in Rereading PROVE RereadingInv'
  BY DEF RereadingInv
<1>1. page' = page
  BY DEF ConsoleNext, Gesture, Read, Arrive, LoadFails, Perform, Refuse, Return, Edit
<1>2. /\ page \in Rereading /\ Steady(view) /\ DOMAIN service = Topics /\ OneLoad
      /\ \A m \in sent : IsMessage(m) /\ Reread(m.cmd)
      /\ \A a \in asks : a.got # Nothing => Fresh(a.got)
      /\ asks = {} /\ Loaded(view) /\ ~view.error => view.of = view.topic
            /\ Fresh(view.rows)
  BY <1>1 DEF RereadingInv
<1>t. ASSUME NEW q, Followed(view, q), Turn(q), UNCHANGED <<service, unseen>>,
             \A m \in sent' : IsMessage(m) /\ Reread(m.cmd),
             q.topic = view.topic /\ q.again = Nothing =>
                \A m \in sent : Answer(m) => m \in sent'
      PROVE  RereadingInv'
  <2>1. /\ IsPage(view') /\ view'.topic = q.topic /\ view'.pending = q.pending
        /\ view'.rows = q.rows /\ view'.of = q.of /\ view'.again = Nothing
        /\ \/ /\ asks' = asks /\ q.topic = view.topic /\ q.again = Nothing
              /\ view'.error = q.error
           \/ /\ asks' = {[of |-> q.topic, got |-> Nothing]}
              /\ q.topic # view.topic \/ q.again # Nothing
    BY <1>2, <1>t, FollowingTurns DEF Followed
  <2>2. Steady(view') /\ view'.rows = view.rows /\ view'.of = view.of
    BY <1>t, <2>1 DEF Followed, Steady
  <2>3. CASE asks' = {[of |-> q.topic, got |-> Nothing]}
    <3>1. OneLoad' /\ asks' # {} /\ \A a \in asks' : a.got = Nothing
      BY <2>1, <2>3 DEF OneLoad
    <3> QED BY <1>2, <1>t, <2>2, <3>1 DEF RereadingInv
  <2>4. CASE asks' = asks /\ q.topic = view.topic /\ q.again = Nothing
              /\ view'.error = q.error
    <3>1. view'.topic = view.topic /\ view'.error = view.error
      BY <1>t, <2>1, <2>4 DEF Followed
    <3>2. OneLoad'
      BY <1>2, <2>4, <3>1 DEF OneLoad
    <3>3. \A rows : Fresh(rows) => Fresh(rows)'
      BY <1>t, <2>4, <3>1 DEF Fresh, Answer
    <3> QED BY <1>2, <1>t, <2>2, <2>4, <3>1, <3>2, <3>3 DEF RereadingInv, Loaded
  <2> QED BY <2>1, <2>3, <2>4
<1>3. CASE Gesture
  <2>1. PICK q \in Gestures(page, view) :
           /\ Turn(q)
           /\ sent' = sent \cup {[cmd |-> c, answer |-> "none", got |-> Nothing]
                                  : c \in q.busy \ view.busy}
    BY <1>3 DEF Gesture
  <2>2. Followed(view, q)
    BY <1>2, RereadingFollows
  <2>3. \A m \in sent' : IsMessage(m) /\ Reread(m.cmd)
    BY <1>2, <2>1, <2>2 DEF IsMessage, Followed
  <2>4. UNCHANGED <<service, unseen>>
    BY <1>3 DEF Gesture
  <2> QED BY <1>t, <2>1, <2>2, <2>3, <2>4
<1>4. CASE Return
  <2>1. PICK m \in sent, ok \in BOOLEAN : \E got :
           /\ ok <=> m.answer = "ok"
           /\ Turn(Answered(view, m.cmd, ok, got)) /\ sent' = sent \ {m}
    BY <1>4, Returned
  <2>2. PICK got : Turn(Answered(view, m.cmd, ok, got)) /\ sent' = sent \ {m}
    BY <2>1
  <2> DEFINE q == Answered(view, m.cmd, ok, got)
  <2>3. /\ Followed(view, q)
        /\ ok /\ m.cmd.does # "look" => q.again = q.topic
    BY <1>2, RereadingAnswers
  <2>4. Turn(q)
    BY <2>2
  <2> HIDE DEF q
  <2>5. q.again = Nothing => ~Answer(m)
    BY <2>1, <2>3, PageAssumption DEF Answer, Followed
  <2>6. UNCHANGED <<service, unseen>>
    BY <1>4, Returned
  <2> QED BY <1>2, <1>t, <2>2, <2>3, <2>4, <2>5, <2>6
<1>5. CASE Read
  <2>1. PICK a \in asks :
           /\ a.got = Nothing
           /\ asks' = (asks \ {a}) \cup {[a EXCEPT !.got = service[a.of]]}
           /\ unseen' = unseen \ {a.of}
           /\ UNCHANGED <<page, view, sent, service, budget>>
    BY <1>5 DEF Read
  <2> DEFINE b == [a EXCEPT !.got = service[a.of]]
  <2>2. a.of = view.topic /\ DOMAIN a = {"of", "got"} /\ \A x \in asks : x = a
    BY <1>2 DEF OneLoad
  <2>3. DOMAIN b = {"of", "got"} /\ b.of = view.topic /\ b.got = service[view.topic]
    BY <2>2
  <2>4. asks' = {b}
    BY <2>1, <2>2
  <2> HIDE DEF b
  <2>5. OneLoad'
    BY <2>1, <2>3, <2>4 DEF OneLoad
  <2>6. \A x \in asks' : Fresh(x.got)'
    BY <2>1, <2>3, <2>4 DEF Fresh
  <2>7. asks' # {} /\ Steady(view)' /\ (DOMAIN service = Topics)'
        /\ (\A m \in sent : IsMessage(m) /\ Reread(m.cmd))'
    BY <1>2, <2>1, <2>4 DEF Steady, IsPage
  <2> QED BY <2>5, <2>6, <2>7 DEF RereadingInv
<1>6. CASE Arrive
  <2>1. PICK a \in asks :
           /\ a.got # Nothing /\ asks' = asks \ {a}
           /\ view' = LET q == [view EXCEPT !.rows = a.got, !.of = a.of, !.loading = FALSE,
                                            !.error = FALSE]
                      IN IF Loading("forgets") THEN RoleLoaded(q) ELSE q
           /\ UNCHANGED <<page, sent, service, unseen, budget>>
    BY <1>6 DEF Arrive
  <2>2. a.of = view.topic /\ asks' = {} /\ Fresh(a.got)
    BY <1>2, <2>1 DEF OneLoad
  <2>3. Steady(view') /\ view'.rows = a.got /\ view'.of = a.of /\ view'.topic = view.topic
    BY <1>2, <2>1 DEF Steady, IsPage, Parts, RoleLoaded, Forget, Reseeded, Close
  <2>4. Fresh(view.rows)'
    BY <2>1, <2>2, <2>3 DEF Fresh, Answer
  <2> QED BY <1>2, <2>1, <2>2, <2>3, <2>4 DEF RereadingInv, OneLoad
<1>7. CASE LoadFails
  <2>1. PICK a \in asks : asks' = asks \ {a}
    BY <1>7 DEF LoadFails
  <2>2. asks' = {}
    BY <1>2, <2>1 DEF OneLoad
  <2>3. Steady(view') /\ view'.error
    BY <1>2, <1>7 DEF LoadFails, Steady, IsPage, Parts
  <2>4. UNCHANGED <<sent, service>>
    BY <1>7 DEF LoadFails
  <2> QED BY <1>2, <2>2, <2>3, <2>4 DEF RereadingInv, OneLoad
<1>8. CASE Perform \/ Refuse
  <2>1. UNCHANGED <<page, view, asks>> /\ \E m \in sent : \E n : Becomes(m, n)
    BY <1>2, <1>8, Performed
  <2>2. PICK m \in sent : \E n : Becomes(m, n)
    BY <2>1
  <2>3. PICK n : Becomes(m, n)
    BY <2>2
  <2>4. \A rows : Fresh(rows) => Fresh(rows)'
    <3>1. \A x \in sent : Answer(x) => x \in sent' /\ Answer(x)'
      BY <2>1, <2>3 DEF Becomes, Answer
    <3>2. CASE m.cmd.of # view.topic \/ n.answer = "refused" \/ m.cmd.does = "look"
      <4>1. service'[view.topic] = service[view.topic]
        BY <1>2, <2>3, <3>2 DEF Becomes, Applied, Steady
      <4>2. view.topic \in unseen => view.topic \in unseen'
        BY <2>3 DEF Becomes
      <4> QED BY <2>1, <3>1, <4>1, <4>2 DEF Fresh
    <3>3. CASE m.cmd.of = view.topic /\ n.answer = "ok" /\ m.cmd.does # "look"
      <4>1. n \in sent' /\ Answer(n)'
        BY <2>1, <2>3, <3>3 DEF Becomes, Answer
      <4> QED BY <4>1 DEF Fresh
    <3>4. CASE m.cmd.of = view.topic /\ n.answer = "lost"
      BY <2>1, <2>3, <3>4 DEF Becomes, Fresh
    <3> QED BY <2>3, <3>2, <3>3, <3>4 DEF Becomes
  <2>5. (\A x \in sent : IsMessage(x) /\ Reread(x.cmd))' /\ (DOMAIN service = Topics)'
    BY <1>2, <2>3 DEF Becomes, IsMessage
  <2>6. Steady(view)' /\ OneLoad'
    BY <1>2, <2>1 DEF OneLoad, Steady, IsPage
  <2> QED BY <1>2, <2>1, <2>4, <2>5, <2>6 DEF RereadingInv, Loaded
<1>9. CASE Edit
  <2>1. PICK s \in Topics : \E rows \in Contents :
           service' = [service EXCEPT ![s] = rows] /\ unseen' = unseen \cup {s}
    BY <1>9 DEF Edit
  <2>2. UNCHANGED <<page, view, asks, sent>>
    BY <1>9 DEF Edit
  <2>3. \A rows : Fresh(rows) => Fresh(rows)'
    BY <1>2, <2>1, <2>2 DEF Fresh, Answer, Steady
  <2> QED BY <1>2, <2>1, <2>2, <2>3 DEF RereadingInv, OneLoad, Steady, IsPage, Loaded
<1> QED BY <1>3, <1>4, <1>5, <1>6, <1>7, <1>8, <1>9 DEF ConsoleNext


-----------------------------------------------------------------------------
LEMMA AnsweringStep == AnsweringInv /\ ConsoleNext => AnsweringInv'
<1> SUFFICES ASSUME AnsweringInv, ConsoleNext, page' \in Answering PROVE AnsweringInv'
  BY DEF AnsweringInv
<1>1. page' = page
  BY DEF ConsoleNext, Gesture, Read, Arrive, LoadFails, Perform, Refuse, Return, Edit
<1>2. /\ page \in Answering /\ Steady(view) /\ DOMAIN service = Topics /\ OneLoad
      /\ \A m \in sent :
            /\ IsMessage(m) /\ m.cmd \in view.busy
            /\ m.cmd.op = OwnOp(page) /\ m.cmd.of = view.topic
            /\ m.answer = "ok" => view.topic \in unseen \/ service[view.topic] = Outcome(m)
      /\ \A m, n \in sent : m = n
      /\ Loaded(view) => asks = {} /\ view.of = view.topic /\ ~view.error
      /\ ~Loaded(view) => sent = {}
      /\ \A a \in asks : a.got # Nothing => a.got = service[view.topic]
            \/ view.topic \in unseen
      /\ Loaded(view) /\ (\A m \in sent : m.answer # "ok")
            => view.topic \in unseen \/ view.rows = service[view.topic]
  BY <1>1 DEF AnsweringInv
<1>3. CASE Gesture
  <2>1. PICK q \in Gestures(page, view) :
           /\ Turn(q)
           /\ sent' = sent \cup {[cmd |-> c, answer |-> "none", got |-> Nothing]
                                  : c \in q.busy \ view.busy}
    BY <1>3 DEF Gesture
  <2>2. /\ Steady([q EXCEPT !.again = Nothing]) /\ q.topic = view.topic
        /\ q.rows = view.rows /\ q.of = view.of /\ q.error = view.error
        /\ \/ q.busy = view.busy /\ view.error /\ q.again = view.topic
           \/ /\ q.again = Nothing /\ Loaded(view)
              /\ \A c \in view.busy : c.op # OwnOp(page)
              /\ \E c : c.op = OwnOp(page) /\ c.of = view.of /\ q.busy = view.busy \cup {c}
    BY <1>2, AnsweringGestures
  <2>3. IsPage(q) /\ q.pending \in Topics \cup {Nothing}
    BY <2>2 DEF Steady, IsPage, Parts
  <2>4. /\ IsPage(view') /\ view'.topic = q.topic /\ view'.pending = q.pending
        /\ view'.rows = q.rows /\ view'.of = q.of /\ view'.busy = q.busy
        /\ view'.again = Nothing
        /\ \/ asks' = asks /\ q.again = Nothing /\ view'.error = q.error
           \/ asks' = {[of |-> q.topic, got |-> Nothing]} /\ q.again # Nothing
    BY <1>2, <2>1, <2>2, <2>3, FollowingTurns DEF Steady
  <2>5. UNCHANGED <<service, unseen>>
    BY <1>3 DEF Gesture
  <2>6. Steady(view)' /\ view'.topic = view.topic /\ view'.rows = view.rows
        /\ view'.of = view.of
    BY <1>2, <2>2, <2>3, <2>4 DEF Steady
  <2>7. CASE q.busy = view.busy /\ view.error /\ q.again = view.topic
    <3>1. asks' = {[of |-> view.topic, got |-> Nothing]}
      BY <1>2, <2>2, <2>4, <2>7, PageAssumption DEF Steady
    <3>2. OneLoad' /\ \A a \in asks' : a.got = Nothing
      BY <2>6, <3>1 DEF OneLoad
    <3>3. ~Loaded(view) /\ sent = {} /\ sent' = {}
      BY <1>2, <2>1, <2>7
    <3> QED BY <1>2, <2>5, <2>6, <3>2, <3>3 DEF AnsweringInv, Loaded
  <2>8. CASE /\ q.again = Nothing /\ Loaded(view)
             /\ \A c \in view.busy : c.op # OwnOp(page)
             /\ \E c : c.op = OwnOp(page) /\ c.of = view.of /\ q.busy = view.busy \cup {c}
    <3>1. PICK c : c.op = OwnOp(page) /\ c.of = view.of /\ q.busy = view.busy \cup {c}
      BY <2>8
    <3> DEFINE n == [cmd |-> c, answer |-> "none", got |-> Nothing]
    <3>2. sent = {} /\ sent' = {n}
      BY <1>2, <2>1, <2>8, <3>1
    <3>3. IsMessage(n) /\ n.cmd = c /\ n.answer = "none"
      BY DEF IsMessage
    <3> HIDE DEF n
    <3>4. asks' = asks /\ view'.error = view.error /\ c \in view'.busy
      BY <2>2, <2>4, <2>8, <3>1
    <3>5. Loaded(view) /\ Loaded(view)' /\ view.of = view.topic
      BY <1>2, <2>6, <2>8 DEF Loaded
    <3>6. OneLoad'
      BY <1>2, <2>6, <3>4 DEF OneLoad
    <3>7. /\ \A m \in sent' : IsMessage(m) /\ m.cmd \in view'.busy /\ m.cmd.op = OwnOp(page)
                               /\ m.cmd.of = view.topic /\ m.answer # "ok"
          /\ \A m, o \in sent' : m = o
      BY <3>1, <3>2, <3>3, <3>4, <3>5
    <3>8. view.topic \in unseen \/ view.rows = service[view.topic]
      BY <1>2, <3>2, <3>5
    <3> QED BY <1>1, <1>2, <2>5, <2>6, <3>4, <3>5, <3>6, <3>7, <3>8 DEF AnsweringInv
  <2> QED BY <2>2, <2>7, <2>8
<1>4. CASE Return
  <2>1. PICK m \in sent, ok \in BOOLEAN : \E got :
           /\ ok <=> m.answer = "ok"
           /\ ok => got = m.got
           /\ Turn(Answered(view, m.cmd, ok, got)) /\ sent' = sent \ {m}
    BY <1>4, Returned
  <2>2. PICK got : /\ ok <=> m.answer = "ok"
                   /\ ok => got = m.got
                   /\ Turn(Answered(view, m.cmd, ok, got)) /\ sent' = sent \ {m}
    BY <2>1
  <2>3. Loaded(view) /\ asks = {} /\ view.of = view.topic /\ ~view.error /\ sent' = {}
    BY <1>2, <2>2
  <2> DEFINE q == Answered(view, m.cmd, ok, got)
  <2>4. /\ Steady(q) /\ q.topic = view.topic /\ q.of = view.of /\ q.error = view.error
        /\ q.rows = IF ~ok THEN view.rows ELSE IF page = "self" THEN got
                    ELSE Applied(view.rows, m.cmd)
    BY <1>2, <2>3, AnsweringAnswers
  <2>5. Turn(q)
    BY <2>2
  <2> HIDE DEF q
  <2>6. /\ IsPage(view') /\ view'.topic = q.topic /\ view'.pending = q.pending
        /\ view'.rows = q.rows /\ view'.of = q.of /\ view'.again = Nothing
        /\ asks' = asks /\ view'.error = q.error
    BY <1>2, <2>4, <2>5, FollowingTurns DEF Steady
  <2>7. UNCHANGED <<service, unseen>>
    BY <1>4, Returned
  <2>8. Steady(view)' /\ OneLoad'
    BY <2>3, <2>4, <2>6 DEF Steady, OneLoad
  <2>9. view.topic \in unseen \/ q.rows = service[view.topic]
    <3>1. CASE ok
      BY <1>2, <2>2, <2>4, <3>1 DEF Outcome
    <3>2. CASE ~ok
      BY <1>2, <2>2, <2>3, <2>4, <3>2
    <3> QED BY <3>1, <3>2
  <2> QED BY <1>2, <2>3, <2>4, <2>6, <2>7, <2>8, <2>9 DEF AnsweringInv, Loaded
<1>5. CASE Read
  <2>1. PICK a \in asks :
           /\ a.got = Nothing
           /\ asks' = (asks \ {a}) \cup {[a EXCEPT !.got = service[a.of]]}
           /\ unseen' = unseen \ {a.of}
           /\ UNCHANGED <<page, view, sent, service, budget>>
    BY <1>5 DEF Read
  <2> DEFINE b == [a EXCEPT !.got = service[a.of]]
  <2>2. a.of = view.topic /\ DOMAIN a = {"of", "got"} /\ \A x \in asks : x = a
    BY <1>2 DEF OneLoad
  <2>3. DOMAIN b = {"of", "got"} /\ b.of = view.topic /\ b.got = service[view.topic]
    BY <2>2
  <2>4. asks' = {b}
    BY <2>1, <2>2
  <2> HIDE DEF b
  <2>5. OneLoad' /\ \A x \in asks' : x.got = service[view.topic]
    BY <2>1, <2>3, <2>4 DEF OneLoad
  <2>6. ~Loaded(view) /\ sent = {} /\ view' = view /\ sent' = sent /\ service' = service
    BY <1>2, <2>1
  <2> QED BY <1>2, <2>5, <2>6 DEF AnsweringInv, Steady, IsPage, Loaded
<1>6. CASE Arrive
  <2>1. PICK a \in asks :
           /\ a.got # Nothing /\ asks' = asks \ {a}
           /\ view' = LET q == [view EXCEPT !.rows = a.got, !.of = a.of, !.loading = FALSE,
                                            !.error = FALSE]
                      IN IF Loading("forgets") THEN RoleLoaded(q) ELSE q
           /\ UNCHANGED <<page, sent, service, unseen, budget>>
    BY <1>6 DEF Arrive
  <2>2. a.of = view.topic /\ asks' = {} /\ ~Loaded(view) /\ sent = {} /\ sent' = {}
        /\ (a.got = service[view.topic] \/ view.topic \in unseen)
    BY <1>2, <2>1 DEF OneLoad
  <2>3. Steady(view') /\ view'.rows = a.got /\ view'.of = a.of /\ view'.topic = view.topic
        /\ ~view'.error
    BY <1>2, <2>1 DEF Steady, IsPage, Parts, RoleLoaded, Forget, Reseeded, Close
  <2> QED BY <1>2, <2>1, <2>2, <2>3 DEF AnsweringInv, OneLoad, Loaded
<1>7. CASE LoadFails
  <2>1. PICK a \in asks : asks' = asks \ {a}
    BY <1>7 DEF LoadFails
  <2>2. asks' = {} /\ ~Loaded(view) /\ sent = {}
    BY <1>2, <2>1 DEF OneLoad
  <2>3. Steady(view') /\ view'.rows = view.rows
    BY <1>2, <1>7, FollowingTraits DEF LoadFails, Steady, IsPage, Parts
  <2>4. UNCHANGED <<sent, service>>
    BY <1>7 DEF LoadFails
  <2> QED BY <1>2, <2>2, <2>3, <2>4 DEF AnsweringInv, OneLoad, Loaded
<1>8. CASE Perform \/ Refuse
  <2>1. UNCHANGED <<page, view, asks>> /\ \E m \in sent : \E n : Becomes(m, n)
    BY <1>2, <1>8, Performed
  <2>2. PICK m \in sent : \E n : Becomes(m, n)
    BY <2>1
  <2>3. PICK n : Becomes(m, n)
    BY <2>2
  <2>4. /\ sent = {m} /\ sent' = {n} /\ IsMessage(n) /\ n.cmd = m.cmd /\ m.answer = "none"
        /\ m.cmd.of = view.topic /\ view.topic \in Topics /\ Loaded(view)
    BY <1>2, <2>3 DEF Becomes, Steady
  <2>5. view.topic \in unseen \/ view.rows = service[view.topic]
    BY <1>2, <2>4
  <2>6. DOMAIN service' = Topics
    BY <1>2, <2>3 DEF Becomes
  <2>7. CASE n.answer = "ok"
    <3>1. /\ n.got = service'[view.topic] /\ unseen' = unseen
          /\ service'[view.topic] = Applied(service[view.topic], n.cmd)
      BY <1>2, <2>3, <2>4, <2>7 DEF Becomes
    <3>2. view.topic \in unseen \/ service'[view.topic] = Outcome(n)
      BY <2>5, <3>1 DEF Outcome
    <3>3. Outcome(n)' = Outcome(n)
      BY <2>1 DEF Outcome
    <3> QED BY <1>2, <2>1, <2>4, <2>6, <2>7, <3>1, <3>2, <3>3 DEF AnsweringInv, OneLoad,
        Steady, IsPage, Loaded
  <2>8. CASE n.answer = "lost"
    <3>1. view.topic \in unseen'
      BY <2>3, <2>4, <2>8 DEF Becomes
    <3> QED BY <1>2, <2>1, <2>4, <2>6, <2>8, <3>1 DEF AnsweringInv, OneLoad, Steady,
        IsPage, Loaded
  <2>9. CASE n.answer = "refused" /\ service' = service /\ unseen' = unseen
    BY <1>2, <2>1, <2>4, <2>5, <2>6, <2>9 DEF AnsweringInv, OneLoad, Steady, IsPage,
       Loaded
  <2> QED BY <2>3, <2>7, <2>8, <2>9 DEF Becomes
<1>9. CASE Edit
  <2>1. PICK s \in Topics : \E rows \in Contents :
           service' = [service EXCEPT ![s] = rows] /\ unseen' = unseen \cup {s}
    BY <1>9 DEF Edit
  <2>2. UNCHANGED <<page, view, asks, sent>>
    BY <1>9 DEF Edit
  <2>3. view.topic \in unseen' \/ (service'[view.topic] = service[view.topic]
        /\ (view.topic \in unseen <=> view.topic \in unseen'))
    BY <1>2, <2>1 DEF Steady
  <2>4. DOMAIN service' = Topics /\ OneLoad' /\ Steady(view)'
    BY <1>2, <2>1, <2>2 DEF OneLoad, Steady, IsPage
  <2>5. \A m : Outcome(m)' = Outcome(m)
    BY <2>2 DEF Outcome
  <2> QED BY <1>2, <2>2, <2>3, <2>4, <2>5 DEF AnsweringInv, Loaded
<1> QED BY <1>3, <1>4, <1>5, <1>6, <1>7, <1>8, <1>9 DEF ConsoleNext

(* The pages that are not named by Overtakable show what was read last, or  *)
(* what their last command made of it.                                   *)
THEOREM PagesSettle == ConsoleSpec => []SettledPagesAreCurrent
<1>1. SettledInv /\ [ConsoleNext]_pvars => SettledInv'
  <2> SUFFICES ASSUME SettledInv, [ConsoleNext]_pvars PROVE SettledInv'
    OBVIOUS
  <2>1. CASE ConsoleNext
    <3>1. page' = page
      BY <2>1 DEF ConsoleNext, Gesture, Read, Arrive, LoadFails, Perform, Refuse,
         Return, Edit
    <3> QED BY <2>1, <3>1, LoadlessStep, RereadingStep, AnsweringStep DEF SettledInv
  <2>2. CASE UNCHANGED pvars
    BY <2>2 DEF pvars, SettledInv, LoadlessInv, RereadingInv, AnsweringInv, Steady,
       IsPage, OneLoad, Fresh, Answer, Outcome, Loaded
  <2> QED BY <2>1, <2>2
<1>2. SettledInv => SettledPagesAreCurrent
  <2> SUFFICES ASSUME SettledInv, page \notin Overtakable, asks = {}, sent = {},
              Loaded(view),
                      ~view.error, view.topic \notin unseen
               PROVE  view.of = view.topic /\ view.rows = service[view.topic]
    BY DEF SettledPagesAreCurrent
  <2>1. page \in Loadless \cup Rereading \cup Answering
    BY DEF SettledInv, Pages, PageLoads, Overtakable, Loadless, Rereading, Answering
  <2>2. CASE page \in Loadless
    BY <2>2 DEF SettledInv, LoadlessInv, Loaded
  <2>3. CASE page \in Rereading
    BY <2>3 DEF SettledInv, RereadingInv, Fresh
  <2>4. CASE page \in Answering
    BY <2>4 DEF SettledInv, AnsweringInv
  <2> QED BY <2>1, <2>2, <2>3, <2>4
<1> QED BY SettledInit, <1>1, <1>2, PTL DEF ConsoleSpec
=============================================================================
