---------------------------- MODULE OutboxProofs ----------------------------
(***************************************************************************)
(* Proofs about Outbox for every number of streams, producers, workers,    *)
(* operators, events, attempts and retries.                                *)
(***************************************************************************)
EXTENDS Outbox, TLAPS

(* Ids are drawn in order, and a row not yet committed is untouched.       *)
FreshRows ==
    \A i \in Ids :
        /\ status[i] = "absent" <=> i > lastId
        /\ status[i] \in {"absent", "writing"} => attempts[i] = 0

(* A producer's uncommitted rows are its own.                              *)
TxnRows ==
    \A p \in Producers : \A i \in txn[p] :
        /\ status[i] = "writing"
        /\ \A q \in Producers : i \in txn[q] => q = p

(* What an operator has read as a dead letter has been committed.          *)
FoundRows ==
    \A o \in Operators :
        found[o] # None => status[found[o]] \in {"pending", "done", "failed"}

(* The inductive invariant: what the row locks promise, and the bookkeeping *)
(* of uncommitted rows that keeps a commit or a retry away from them.      *)
IInv ==
    /\ TypeOK
    /\ FreshRows
    /\ TxnRows
    /\ FoundRows
    /\ HeldRowsAreOpen
    /\ QueuedRowsHaveBudget
    /\ StreamOrder

-----------------------------------------------------------------------------
LEMMA InitIInv == Init => IInv
BY OutboxAssumption
DEF Init, IInv, TypeOK, FreshRows, TxnRows, FoundRows, HeldRowsAreOpen,
    QueuedRowsHaveBudget, StreamOrder, Ids, None, Status, Started, Locked, Older

(* A new row is neither in a worker's hands nor in another transaction.    *)
LEMMA InsertIInv ==
    ASSUME IInv, NEW p \in Producers, NEW s \in Streams, Insert(p, s)
    PROVE  IInv'
<1> DEFINE n == lastId + 1
<1>1. n \in Ids /\ status[n] = "absent"
  BY OutboxAssumption DEF IInv, TypeOK, FreshRows, Insert, Ids
<1>2. TypeOK'
  BY <1>1, OutboxAssumption DEF IInv, TypeOK, Insert, Ids, Status
<1>3. /\ \A i \in Ids \ {n} : status'[i] = status[i] /\ stream'[i] = stream[i]
      /\ status'[n] = "writing"
  BY <1>1 DEF IInv, TypeOK, Insert
<1>4. FreshRows'
  BY <1>1, <1>3 DEF IInv, TypeOK, FreshRows, Insert, Ids
<1>5. TxnRows'
  BY <1>1, <1>3 DEF IInv, TypeOK, TxnRows, Insert
<1>6. FoundRows'
  BY <1>1, <1>3 DEF IInv, TypeOK, FoundRows, Insert, Ids, None
<1>7. HeldRowsAreOpen'
  BY <1>1, <1>3 DEF IInv, TypeOK, HeldRowsAreOpen, Insert, Ids, None
<1>8. QueuedRowsHaveBudget'
  BY <1>3 DEF IInv, QueuedRowsHaveBudget, Insert
<1>9. StreamOrder'
  BY <1>1, <1>3, <1>7
  DEF IInv, TypeOK, StreamOrder, HeldRowsAreOpen, Insert, Older, Started, Locked, Ids, None
<1> QED BY <1>2, <1>4, <1>5, <1>6, <1>7, <1>8, <1>9 DEF IInv

LEMMA EndTxnIInv ==
    ASSUME IInv, NEW p \in Producers, Commit(p) \/ Rollback(p)
    PROVE  IInv'
<1>1. PICK outcome \in {"pending", "void"} :
        /\ EndTxn(p, outcome)
        /\ late' \subseteq Ids /\ late \subseteq late'
        /\ outcome = "pending" => late' = late \cup {i \in txn[p] : Overtaken(i)}
  BY DEF IInv, TypeOK, Commit, Rollback
<1>2. txn[p] \subseteq Ids /\ \A i \in txn[p] : status[i] = "writing" /\ ~Locked(i)
  BY DEF IInv, TypeOK, TxnRows, HeldRowsAreOpen, Locked, None, Ids
<1>3. \A i \in Ids : status'[i] = IF i \in txn[p] THEN outcome ELSE status[i]
  BY <1>1 DEF EndTxn
<1>4. TypeOK'
  BY <1>1, <1>2 DEF IInv, TypeOK, EndTxn, Status
<1>5. FreshRows'
  BY <1>1, <1>2, <1>3 DEF IInv, FreshRows, EndTxn
<1>6. TxnRows'
  BY <1>1, <1>2, <1>3 DEF IInv, TypeOK, TxnRows, EndTxn
<1>7. FoundRows'
  BY <1>1, <1>2, <1>3 DEF IInv, TypeOK, FoundRows, EndTxn
<1>8. HeldRowsAreOpen'
  BY <1>1, <1>2, <1>3 DEF IInv, TypeOK, HeldRowsAreOpen, EndTxn, Locked
<1>9. QueuedRowsHaveBudget'
  BY <1>1, <1>2, <1>3, OutboxAssumption
  DEF IInv, TypeOK, FreshRows, QueuedRowsHaveBudget, EndTxn
<1>10. StreamOrder'
  <2> SUFFICES ASSUME NEW i \in Ids, NEW j \in Ids,
                      Older(j, i)', status'[j] = "pending", Started(i)'
               PROVE  j \in late'
    BY DEF StreamOrder
  <2>1. Older(j, i) /\ Started(i)
    BY <1>1, <1>2, <1>3 DEF EndTxn, Older, Started, Locked
  <2>2. CASE j \in txn[p]
    BY <1>1, <1>3, <2>1, <2>2 DEF Overtaken
  <2>3. CASE j \notin txn[p]
    BY <1>1, <1>3, <2>1, <2>3 DEF IInv, StreamOrder
  <2> QED BY <2>2, <2>3
<1> QED BY <1>4, <1>5, <1>6, <1>7, <1>8, <1>9, <1>10 DEF IInv

LEMMA ClaimIInv ==
    ASSUME IInv, NEW w \in Workers, Claim(w)
    PROVE  IInv'
<1>1. PICK i \in Ids : Claimable(i) /\ claim' = [claim EXCEPT ![w] = i]
  BY DEF Claim, IsNext
<1>2. UNCHANGED <<lastId, stream, status, attempts, due, txn, found, retries, late>>
  BY DEF Claim, rowVars
<1>3. TypeOK'
  BY <1>1, <1>2 DEF IInv, TypeOK
<1>4. FreshRows' /\ TxnRows' /\ FoundRows' /\ QueuedRowsHaveBudget'
  BY <1>2 DEF IInv, FreshRows, TxnRows, FoundRows, QueuedRowsHaveBudget
<1>5. HeldRowsAreOpen'
  BY <1>1, <1>2 DEF IInv, TypeOK, HeldRowsAreOpen, Claimable, Locked
<1>6. StreamOrder'
  BY <1>1, <1>2 DEF IInv, TypeOK, StreamOrder, Claimable, Started, Locked, Older
<1> QED BY <1>3, <1>4, <1>5, <1>6 DEF IInv

(* A worker's transaction ends: it writes at most its own row, which no    *)
(* other worker holds, and the row counted as started already.             *)
LEMMA ReleaseIInv ==
    ASSUME IInv, NEW w \in Workers, Settle(w) \/ Defer(w) \/ Crash(w)
    PROVE  IInv'
<1> DEFINE c == claim[w]
<1>1. c \in Ids /\ status[c] = "pending" /\ attempts[c] < MaxAttempts
  BY DEF IInv, TypeOK, HeldRowsAreOpen, QueuedRowsHaveBudget, Settle, Succeed,
         Fail, Defer, Crash, Release, Ids, None
<1>2. /\ claim' = [claim EXCEPT ![w] = None]
      /\ UNCHANGED <<lastId, stream, txn, found, retries, late>>
  BY DEF Settle, Succeed, Fail, Defer, Crash, Release, rowVars
<1>3. /\ status' \in [Ids -> Status]
      /\ attempts' \in [Ids -> 0..MaxAttempts]
      /\ due' \in [Ids -> BOOLEAN]
      /\ \A i \in Ids \ {c} : status'[i] = status[i] /\ attempts'[i] = attempts[i]
      /\ status'[c] \in {"pending", "done", "failed"}
      /\ status'[c] = "pending" => attempts'[c] < MaxAttempts
  <2>1. CASE Succeed(w)
    BY <1>1, <2>1 DEF IInv, TypeOK, Succeed, Status
  <2>2. ASSUME NEW permanent \in BOOLEAN, Fail(w, permanent)
        PROVE  <1>3
    <3>1. attempts' = [attempts EXCEPT ![c] = attempts[c] + 1]
      BY <2>2 DEF Fail
    <3>2. attempts[c] \in Nat /\ attempts[c] + 1 \in 0..MaxAttempts
      BY <1>1, OutboxAssumption DEF IInv, TypeOK
    <3>3. CASE DeadLetters(w, permanent)
      BY <1>1, <2>2, <3>1, <3>2, <3>3 DEF IInv, TypeOK, Fail, Status
    <3>4. CASE ~DeadLetters(w, permanent)
      <4>1. due' = [due EXCEPT ![c] = FALSE] /\ status' = status
        BY <2>2, <3>4 DEF Fail
      <4>2. ~(attempts[c] + 1 >= MaxAttempts)
        BY <3>4 DEF DeadLetters
      <4> QED BY <1>1, <3>1, <3>2, <4>1, <4>2, OutboxAssumption DEF IInv, TypeOK
    <3> QED BY <3>3, <3>4
  <2>3. CASE Defer(w)
    BY <1>1, <2>3 DEF IInv, TypeOK, Defer
  <2>4. CASE Crash(w)
    BY <1>1, <2>4 DEF IInv, TypeOK, Crash, rowVars
  <2> QED BY <2>1, <2>2, <2>3, <2>4 DEF Settle
<1>4. TypeOK'
  BY <1>2, <1>3 DEF IInv, TypeOK
<1>5. FreshRows'
  BY <1>1, <1>2, <1>3 DEF IInv, FreshRows
<1>6. TxnRows'
  BY <1>1, <1>2, <1>3 DEF IInv, TypeOK, TxnRows
<1>7. FoundRows'
  BY <1>2, <1>3 DEF IInv, TypeOK, FoundRows, None, Ids
<1>8. HeldRowsAreOpen'
  BY <1>1, <1>2, <1>3 DEF IInv, TypeOK, HeldRowsAreOpen, None, Ids
<1>9. QueuedRowsHaveBudget'
  BY <1>2, <1>3 DEF IInv, QueuedRowsHaveBudget
<1>10. StreamOrder'
  <2>1. ASSUME NEW i \in Ids, Started(i)' PROVE Started(i)
    BY <1>1, <1>2, <1>3, <2>1 DEF IInv, TypeOK, Started, Locked, None, Ids
  <2>2. ASSUME NEW i \in Ids, status'[i] = "pending" PROVE status[i] = "pending"
    BY <1>1, <1>3, <2>2
  <2> QED BY <1>2, <2>1, <2>2 DEF IInv, StreamOrder, Older
<1> QED BY <1>4, <1>5, <1>6, <1>7, <1>8, <1>9, <1>10 DEF IInv

LEMMA OperateIInv ==
    ASSUME IInv, NEW o \in Operators, Operate(o)
    PROVE  IInv'
<1>1. CASE FindFailed(o)
  <2>1. UNCHANGED <<lastId, stream, status, attempts, due, txn, claim, retries, late>>
    BY <1>1 DEF FindFailed, rowVars
  <2>2. PICK i \in Ids : status[i] = "failed" /\ found' = [found EXCEPT ![o] = i]
    BY <1>1 DEF FindFailed
  <2>3. TypeOK' /\ FoundRows'
    BY <2>1, <2>2 DEF IInv, TypeOK, FoundRows
  <2> QED BY <2>1, <2>3
          DEF IInv, FreshRows, TxnRows, HeldRowsAreOpen, QueuedRowsHaveBudget,
              StreamOrder, Older, Started, Locked
<1>2. CASE Retry(o)
  <2> DEFINE r == found[o]
  <2>1. r \in Ids /\ status[r] \in {"pending", "done", "failed"} /\ ~Locked(r)
    BY <1>2 DEF Retry, IInv, TypeOK, FoundRows, None, Ids
  <2>2. /\ \A i \in Ids : status'[i] = IF i = r THEN "pending" ELSE status[i]
        /\ \A i \in Ids : attempts'[i] = IF i = r THEN 0 ELSE attempts[i]
        /\ UNCHANGED <<lastId, stream, txn, claim>>
        /\ found' = [found EXCEPT ![o] = None]
        /\ late \subseteq late' /\ (Overtaken(r) => r \in late')
    BY <1>2, <2>1 DEF Retry, IInv, TypeOK
  <2>3. TypeOK'
    BY <1>2, <2>1, OutboxAssumption DEF Retry, IInv, TypeOK, Status
  <2>4. FreshRows' /\ TxnRows'
    BY <2>1, <2>2 DEF IInv, TypeOK, FreshRows, TxnRows
  <2>5. FoundRows'
    BY <2>1, <2>2 DEF IInv, TypeOK, FoundRows, None, Ids
  <2>6. HeldRowsAreOpen'
    BY <2>1, <2>2 DEF IInv, TypeOK, HeldRowsAreOpen, Locked, None, Ids
  <2>7. QueuedRowsHaveBudget'
    BY <2>1, <2>2, OutboxAssumption DEF IInv, QueuedRowsHaveBudget
  <2>8. StreamOrder'
    <3> SUFFICES ASSUME NEW i \in Ids, NEW j \in Ids,
                        Older(j, i)', status'[j] = "pending", Started(i)'
                 PROVE  j \in late'
      BY DEF StreamOrder
    <3>1. Older(j, i) /\ Started(i)
      BY <2>1, <2>2 DEF Older, Started, Locked
    <3>2. CASE j = r
      BY <2>2, <3>1, <3>2 DEF Overtaken
    <3>3. CASE j # r
      BY <2>2, <3>1, <3>3 DEF IInv, StreamOrder
    <3> QED BY <3>2, <3>3
  <2> QED BY <2>3, <2>4, <2>5, <2>6, <2>7, <2>8 DEF IInv
<1> QED BY <1>1, <1>2 DEF Operate

LEMMA BecomeDueIInv ==
    ASSUME IInv, NEW i \in Ids, BecomeDue(i)
    PROVE  IInv'
BY DEF IInv, TypeOK, FreshRows, TxnRows, FoundRows, HeldRowsAreOpen,
       QueuedRowsHaveBudget, StreamOrder, Older, Started, Locked, BecomeDue

LEMMA NextIInv == IInv /\ [Next]_vars => IInv'
<1> SUFFICES ASSUME IInv, [Next]_vars PROVE IInv'
  OBVIOUS
<1>1. ASSUME NEW p \in Producers, Produce(p) PROVE IInv'
  BY <1>1, InsertIInv, EndTxnIInv DEF Produce
<1>2. ASSUME NEW w \in Workers, Work(w) PROVE IInv'
  BY <1>2, ClaimIInv, ReleaseIInv DEF Work
<1>3. ASSUME NEW o \in Operators, Operate(o) PROVE IInv'
  BY <1>3, OperateIInv
<1>4. ASSUME NEW i \in Ids, BecomeDue(i) PROVE IInv'
  BY <1>4, BecomeDueIInv
<1>5. CASE UNCHANGED vars
  BY <1>5
  DEF vars, IInv, TypeOK, FreshRows, TxnRows, FoundRows, HeldRowsAreOpen,
      QueuedRowsHaveBudget, StreamOrder, Older, Started, Locked
<1> QED BY <1>1, <1>2, <1>3, <1>4, <1>5 DEF Next

-----------------------------------------------------------------------------
(* Every reachable state of the queue satisfies the inductive invariant.   *)
THEOREM Invariance == Spec => []IInv
BY InitIInv, NextIInv, PTL DEF Spec

(* Type correctness of the queue; attempts never exceeds the cap.          *)
THEOREM TypeCorrect == Spec => []TypeOK
<1>1. IInv => TypeOK BY DEF IInv
<1> QED BY Invariance, <1>1, PTL

(* claimNext's row lock: one worker per event, and only on open rows.      *)
THEOREM ClaimsAreExclusive == Spec => []HeldRowsAreOpen
<1>1. IInv => HeldRowsAreOpen BY DEF IInv
<1> QED BY Invariance, <1>1, PTL

(* claimNext's ordering: an event runs before an older one of its stream   *)
(* only if the older one became visible, or was retried, afterwards.       *)
THEOREM StreamsAreOrdered == Spec => []StreamOrder
<1>1. IInv => StreamOrder BY DEF IInv
<1> QED BY Invariance, <1>1, PTL

(* recordFailure's cap: no queued row has spent its attempts.              *)
THEOREM BudgetsHold == Spec => []QueuedRowsHaveBudget
<1>1. IInv => QueuedRowsHaveBudget BY DEF IInv
<1> QED BY Invariance, <1>1, PTL

-----------------------------------------------------------------------------
(* The outbox implements the abstract queue of module EventQueue.          *)

(* A row that was inserted stands in a stream.                             *)
Drawn == \A i \in Ids : status[i] # "absent" => stream[i] \in Streams

LEMMA DrawnStep == IInv /\ Drawn /\ [Next]_vars => Drawn'
<1> SUFFICES ASSUME IInv, Drawn, [Next]_vars PROVE Drawn'
  OBVIOUS
<1>1. ASSUME NEW p \in Producers, NEW s \in Streams, Insert(p, s) PROVE Drawn'
  BY <1>1, OutboxAssumption DEF IInv, TypeOK, Drawn, Insert, Ids
<1>2. ASSUME NEW p \in Producers, Commit(p) \/ Rollback(p) PROVE Drawn'
  BY <1>2 DEF IInv, TypeOK, TxnRows, Drawn, Commit, Rollback, EndTxn
<1>3. ASSUME NEW w \in Workers, Work(w) PROVE Drawn'
  <2>1. stream' = stream
    BY <1>3 DEF Work, Claim, Settle, Succeed, Fail, Defer, Crash, rowVars
  <2>2. \A i \in Ids : status'[i] # status[i] => status[i] # "absent"
    BY <1>3
    DEF IInv, TypeOK, HeldRowsAreOpen, Work, Claim, Settle, Succeed, Fail, Defer, Crash,
        Release, rowVars, None, Ids
  <2> QED BY <2>1, <2>2 DEF Drawn
<1>4. ASSUME NEW o \in Operators, Operate(o) PROVE Drawn'
  BY <1>4 DEF IInv, TypeOK, FoundRows, Drawn, Operate, FindFailed, Retry, rowVars
<1>5. ASSUME NEW i \in Ids, BecomeDue(i) PROVE Drawn'
  BY <1>5 DEF Drawn, BecomeDue
<1>6. CASE UNCHANGED vars
  BY <1>6 DEF Drawn, vars
<1> QED BY <1>1, <1>2, <1>3, <1>4, <1>5, <1>6 DEF Next, Produce

LEMMA AllDrawn == Spec => []Drawn
<1>1. Init => Drawn BY DEF Init, Drawn
<1> QED BY <1>1, Invariance, DrawnStep, PTL DEF Spec

-----------------------------------------------------------------------------
(* The queue's variables, as the outbox shows them.                        *)
Line == [i \in Ids |-> IF Posted(i) THEN stream[i] ELSE NoStream]

State == [i \in Ids |-> IF Posted(i) THEN status[i] ELSE "unposted"]

LEMMA InitRefines == Init => Queue!QueueInit
BY DEF Init, Queue!QueueInit, Posted

(* A commit posts a producer's rows, a rollback nothing.                   *)
LEMMA EndTxnRefines ==
    ASSUME IInv, Drawn, NEW p \in Producers, Commit(p) \/ Rollback(p)
    PROVE  Queue!Post
<1>1. PICK outcome \in {"pending", "void"} : EndTxn(p, outcome)
  BY DEF Commit, Rollback
<1>2. claim' = claim /\ stream' = stream
  BY <1>1 DEF EndTxn
<1>3. ASSUME NEW i \in Ids
      PROVE  \/ Line'[i] = Line[i] /\ State'[i] = State[i]
             \/ State[i] = "unposted" /\ State'[i] = "pending" /\ Line'[i] \in Streams
  <2>1. CASE i \in txn[p]
    <3>1. status[i] = "writing" /\ status'[i] = outcome
      BY <1>1, <2>1 DEF IInv, TypeOK, TxnRows, EndTxn
    <3>2. stream[i] \in Streams
      BY <3>1 DEF Drawn
    <3> QED BY <1>2, <3>1, <3>2 DEF Line, State, Posted
  <2>2. CASE i \notin txn[p]
    <3>1. status'[i] = status[i]
      BY <1>1, <2>2 DEF EndTxn
    <3> QED BY <1>2, <3>1 DEF Line, State, Posted
  <2> QED BY <2>1, <2>2
<1> QED BY <1>2, <1>3 DEF Queue!Post, Line, State

(* A row that is being inserted is not seen yet.                           *)
LEMMA InsertRefines ==
    ASSUME IInv, NEW p \in Producers, NEW s \in Streams, Insert(p, s)
    PROVE  Line' = Line /\ State' = State /\ claim' = claim
<1>1. lastId + 1 \in Ids /\ status[lastId + 1] = "absent"
  BY OutboxAssumption DEF IInv, TypeOK, FreshRows, Insert, Ids
<1>2. /\ status' = [status EXCEPT ![lastId + 1] = "writing"]
      /\ \A i \in Ids \ {lastId + 1} : stream'[i] = stream[i]
  BY <1>1 DEF IInv, TypeOK, Insert
<1>3. \A i \in Ids : Line'[i] = Line[i] /\ State'[i] = State[i]
  BY <1>1, <1>2 DEF IInv, TypeOK, Line, State, Posted
<1> QED BY <1>3 DEF Line, State, Insert

LEMMA ClaimRefines ==
    ASSUME IInv, NEW w \in Workers, Claim(w)
    PROVE  \E i \in Ids : Queue!HandOut(w, i)
<1>1. PICK i \in Ids : Claimable(i) /\ claim' = [claim EXCEPT ![w] = i]
  BY DEF Claim, IsNext
<1>2. Line' = Line /\ State' = State /\ claim[w] = None
  BY DEF Claim, rowVars, Line, State, Posted
<1>3. status[i] = "pending" /\ ~Locked(i)
  BY <1>1 DEF Claimable
<1>4. ASSUME NEW j \in Ids, j < i, Line[j] = Line[i], State[j] = "pending" PROVE FALSE
  <2>1. status[j] = "pending"
    BY <1>4 DEF State
  <2>2. stream[j] = stream[i]
    BY <1>3, <1>4, <2>1 DEF Line, Posted
  <2> QED BY <1>1, <1>4, <2>1, <2>2 DEF Claimable, Older
<1>5. State[i] = "pending"
  BY <1>3 DEF State, Posted
<1>6. ~Queue!InHand(i)
  BY <1>3 DEF Queue!InHand, Locked
<1>7. Queue!FirstInLine(i)
  BY <1>4 DEF Queue!FirstInLine, Queue!Pending, Line, State
<1>8. Queue!HandOut(w, i)
  BY <1>1, <1>2, <1>5, <1>6, <1>7 DEF Queue!HandOut, Queue!Pending, Line, State
<1> QED BY <1>8

(* A worker ends its row as done or dead, or puts it back.                 *)
LEMMA ReleaseRefines ==
    ASSUME IInv, NEW w \in Workers, Settle(w) \/ Defer(w) \/ Crash(w)
    PROVE  Queue!PutBack(w) \/ \E outcome \in Queue!Ended : Queue!End(w, outcome)
<1> DEFINE c == claim[w]
<1>1. /\ c \in Ids /\ c # None /\ status[c] = "pending"
      /\ claim' = [claim EXCEPT ![w] = None]
      /\ stream' = stream
  BY DEF IInv, TypeOK, HeldRowsAreOpen, Settle, Succeed, Fail, Defer, Crash, Release, rowVars
<1>2. \/ status' = status
      \/ status' = [status EXCEPT ![c] = "done"]
      \/ status' = [status EXCEPT ![c] = "failed"]
  BY DEF Settle, Succeed, Fail, Defer, Crash, rowVars
<1>3. CASE status' = status
  <2>1. Line' = Line /\ State' = State
    BY <1>1, <1>3 DEF Line, State, Posted
  <2> QED BY <1>1, <2>1 DEF Queue!PutBack, Line, State
<1>4. ASSUME NEW o \in {"done", "failed"}, status' = [status EXCEPT ![c] = o]
      PROVE  \E outcome \in Queue!Ended : Queue!End(w, outcome)
  <2>1. ASSUME NEW i \in Ids
        PROVE  Line'[i] = Line[i] /\ State'[i] = IF i = c THEN o ELSE State[i]
    BY <1>1, <1>4 DEF IInv, TypeOK, Line, State, Posted
  <2>2. Line' = Line /\ State' = [State EXCEPT ![c] = o]
    BY <1>1, <2>1 DEF Line, State
  <2>3. Queue!End(w, o)
    BY <1>1, <2>2 DEF Queue!End, Line, State
  <2> QED BY <2>3 DEF Queue!Ended
<1> QED BY <1>2, <1>3, <1>4

(* An operator reads, or asks for one more try of what has ended; of what  *)
(* is waiting already, nothing changes.                                    *)
LEMMA OperateRefines ==
    ASSUME IInv, NEW o \in Operators, Operate(o)
    PROVE  \/ Line' = Line /\ State' = State /\ claim' = claim
           \/ \E i \in Ids : Queue!Revive(i)
<1>1. CASE FindFailed(o)
  BY <1>1 DEF FindFailed, rowVars, Line, State, Posted
<1>2. CASE Retry(o)
  <2>1. PICK f \in Ids :
           /\ status[f] \in {"pending", "done", "failed"}
           /\ status' = [status EXCEPT ![f] = "pending"]
           /\ stream' = stream /\ claim' = claim
    BY <1>2 DEF IInv, TypeOK, FoundRows, Retry
  <2>2. ASSUME NEW i \in Ids
        PROVE  Line'[i] = Line[i] /\ State'[i] = IF i = f THEN "pending" ELSE State[i]
    BY <2>1 DEF IInv, TypeOK, Line, State, Posted
  <2>3. Line' = Line
    BY <2>1, <2>2 DEF Line
  <2>4. CASE status[f] = "pending"
    <3>1. State[f] = "pending"
      BY <2>1, <2>4 DEF State, Posted
    <3>2. State' = State
      BY <2>2, <3>1 DEF State
    <3> QED BY <2>1, <2>3, <3>2
  <2>5. CASE status[f] \in {"done", "failed"}
    <3>1. State[f] \in Queue!Ended
      BY <2>1, <2>5 DEF State, Posted, Queue!Ended
    <3>2. State' = [State EXCEPT ![f] = "pending"]
      BY <2>1, <2>2 DEF State
    <3>3. Queue!Revive(f)
      BY <2>1, <2>3, <3>1, <3>2 DEF Queue!Revive, Line, State
    <3> QED BY <3>3
  <2> QED BY <2>1, <2>4, <2>5
<1> QED BY <1>1, <1>2 DEF Operate

LEMMA StepRefines == IInv /\ Drawn /\ [Next]_vars => [Queue!QueueNext]_Queue!qvars
<1> SUFFICES ASSUME IInv, Drawn, [Next]_vars PROVE [Queue!QueueNext]_Queue!qvars
  OBVIOUS
<1>1. ASSUME NEW p \in Producers, Produce(p) PROVE [Queue!QueueNext]_Queue!qvars
  BY <1>1, InsertRefines, EndTxnRefines DEF Produce, Queue!QueueNext, Queue!qvars, Line, State
<1>2. ASSUME NEW w \in Workers, Work(w) PROVE Queue!QueueNext
  BY <1>2, ClaimRefines, ReleaseRefines DEF Work, Queue!QueueNext
<1>3. ASSUME NEW o \in Operators, Operate(o) PROVE [Queue!QueueNext]_Queue!qvars
  BY <1>3, OperateRefines DEF Queue!QueueNext, Queue!qvars, Line, State
<1>4. ASSUME NEW i \in Ids, BecomeDue(i) PROVE UNCHANGED Queue!qvars
  BY <1>4 DEF BecomeDue, Queue!qvars, Posted
<1>5. CASE UNCHANGED vars
  BY <1>5 DEF vars, Queue!qvars, Posted
<1> QED BY <1>1, <1>2, <1>3, <1>4, <1>5 DEF Next

(* claimNext, the row locks and the workers' transactions implement the    *)
(* queue: whatever producers, crashes and operators do, an event is handed *)
(* out after its elders, to one worker, who alone ends it.                 *)
THEOREM TheOutboxIsAQueue == Spec => ImplementsQueue
BY InitRefines, StepRefines, Invariance, AllDrawn, PTL DEF Spec, ImplementsQueue, Queue!QueueSpec
=============================================================================
