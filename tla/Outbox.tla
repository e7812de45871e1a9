------------------------------- MODULE Outbox -------------------------------
(***************************************************************************)
(* The transactional outbox: the table outbox_events, the transactions     *)
(* that write rows into it (OutboxWriter.record), the workers that claim,  *)
(* apply and finish them (OutboxRepository.claimNext, SyncWorker.runOnce)  *)
(* and the operators who put dead letters back (OutboxController).         *)
(*                                                                         *)
(* A stream is one (aggregate_type, aggregate_id, target): the scope       *)
(* within which claimNext orders events.  What applying an event does is   *)
(* left open here; DirectorySync and GroupSync refine it.                  *)
(***************************************************************************)
EXTENDS Integers, FiniteSets

CONSTANTS
    Streams,       \* (aggregate_type, aggregate_id, target) triples
    NoStream,      \* the stream of an id not drawn yet
    Producers,     \* sessions that write events in their own transactions
    Workers,       \* SyncWorker loops, one open transaction each
    Operators,     \* sessions of POST /outbox/dead-letters/:id/retry
    MaxEvents,     \* bound: ids drawn from the bigserial sequence
    MaxAttempts,   \* SyncWorkerConfig.maxAttempts
    MaxRetries     \* bound: operator retries

ASSUME OutboxAssumption ==
    /\ NoStream \notin Streams
    /\ MaxEvents \in Nat
    /\ MaxAttempts \in Nat \ {0}
    /\ MaxRetries \in Nat

VARIABLES
    lastId,    \* the last id the sequence handed out
    stream,    \* aggregate and target of each row
    status,    \* what a transaction started now would read in the row
    attempts,  \* outbox_events.attempts
    due,       \* next_attempt_at <= now()
    txn,       \* the rows each producer has inserted and not committed
    claim,     \* the row each worker's open transaction has locked, or None
    found,     \* the row each operator's open transaction has read, or None
    retries,   \* operator retries so far
    late       \* history: rows that turned pending after a younger row of
               \* their stream had been claimed or settled

vars == <<lastId, stream, status, attempts, due, txn, claim, found, retries, late>>

rowVars == <<stream, status, attempts, due>>

Ids == 1..MaxEvents
None == 0

(* The row's committed image.  A claimed row still reads "pending": the    *)
(* write of 'processing' stays inside the claiming transaction.            *)
Status == {"absent", "writing", "void", "pending", "done", "failed"}

TypeOK ==
    /\ lastId \in 0..MaxEvents
    /\ stream \in [Ids -> Streams \cup {NoStream}]
    /\ status \in [Ids -> Status]
    /\ attempts \in [Ids -> 0..MaxAttempts]
    /\ due \in [Ids -> BOOLEAN]
    /\ txn \in [Producers -> SUBSET Ids]
    /\ claim \in [Workers -> Ids \cup {None}]
    /\ found \in [Operators -> Ids \cup {None}]
    /\ retries \in 0..MaxRetries
    /\ late \subseteq Ids

-----------------------------------------------------------------------------
Locked(i) == \E w \in Workers : claim[w] = i

Older(j, i) == j < i /\ stream[j] = stream[i]

(* Mutants of Claimable: SKIP LOCKED lost; a row in backoff no longer      *)
(* blocks its stream; a dead letter blocks its stream for ever.            *)
ClaimableThoughLocked(i) ==
    /\ status[i] = "pending"
    /\ due[i]
    /\ ~ \E j \in Ids : Older(j, i) /\ status[j] = "pending"

ClaimablePastBackoff(i) ==
    /\ status[i] = "pending"
    /\ due[i]
    /\ ~ \E j \in Ids : Older(j, i) /\ status[j] = "pending" /\ due[j]
    /\ ~Locked(i)

ClaimableUnlessDeadLetter(i) ==
    /\ status[i] = "pending"
    /\ due[i]
    /\ ~ \E j \in Ids : Older(j, i) /\ status[j] \in {"pending", "failed"}
    /\ ~Locked(i)

(* The WHERE clause of claimNext together with SKIP LOCKED.                *)
Claimable(i) ==
    /\ status[i] = "pending"
    /\ due[i]
    /\ ~ \E j \in Ids : Older(j, i) /\ status[j] = "pending"
    /\ ~Locked(i)

(* ORDER BY id LIMIT 1: the row this claim returns, if any.                *)
IsNext(i) == Claimable(i) /\ \A j \in Ids : Claimable(j) => i <= j

(* History only: some younger row of i's stream is in a worker's hands or  *)
(* behind us.                                                              *)
Started(i) == Locked(i) \/ status[i] \in {"done", "failed"}

Overtaken(i) == \E k \in Ids : Older(i, k) /\ Started(k)

-----------------------------------------------------------------------------
Init ==
    /\ lastId = 0
    /\ stream = [i \in Ids |-> NoStream]
    /\ status = [i \in Ids |-> "absent"]
    /\ attempts = [i \in Ids |-> 0]
    /\ due = [i \in Ids |-> FALSE]
    /\ txn = [p \in Producers |-> {}]
    /\ claim = [w \in Workers |-> None]
    /\ found = [o \in Operators |-> None]
    /\ retries = 0
    /\ late = {}

(* One row of an INSERT by record.  The id is drawn now and becomes        *)
(* visible at the commit: the two orders need not agree across producers.  *)
Insert(p, s) ==
    /\ lastId < MaxEvents
    /\ lastId' = lastId + 1
    /\ stream' = [stream EXCEPT ![lastId'] = s]
    /\ status' = [status EXCEPT ![lastId'] = "writing"]
    /\ due' = [due EXCEPT ![lastId'] = TRUE]
    /\ txn' = [txn EXCEPT ![p] = @ \cup {lastId'}]
    /\ UNCHANGED <<attempts, claim, found, retries, late>>

EndTxn(p, outcome) ==
    /\ txn[p] # {}
    /\ status' = [i \in Ids |-> IF i \in txn[p] THEN outcome ELSE status[i]]
    /\ txn' = [txn EXCEPT ![p] = {}]
    /\ UNCHANGED <<lastId, stream, attempts, due, claim, found, retries>>

Commit(p) ==
    /\ EndTxn(p, "pending")
    /\ late' = late \cup {i \in txn[p] : Overtaken(i)}

Rollback(p) ==
    /\ EndTxn(p, "void")
    /\ UNCHANGED late

-----------------------------------------------------------------------------
Claim(w) ==
    /\ claim[w] = None
    /\ \E i \in Ids : IsNext(i) /\ claim' = [claim EXCEPT ![w] = i]
    /\ UNCHANGED <<lastId, rowVars, txn, found, retries, late>>

Release(w) ==
    /\ claim[w] # None
    /\ claim' = [claim EXCEPT ![w] = None]

(* applyEvent returned: markDone, commit.                                  *)
Succeed(w) ==
    /\ Release(w)
    /\ status' = [status EXCEPT ![claim[w]] = "done"]
    /\ UNCHANGED <<lastId, stream, attempts, due, txn, found, retries, late>>

(* Mutants of DeadLetters: the cap compared one attempt late; the cap      *)
(* compared before the attempt is counted, and strictly.                   *)
DeadLettersLate(w, permanent) == permanent \/ attempts[claim[w]] + 1 > MaxAttempts

DeadLettersTwoLate(w, permanent) == permanent \/ attempts[claim[w]] > MaxAttempts

DeadLetters(w, permanent) == permanent \/ attempts[claim[w]] + 1 >= MaxAttempts

(* applyEvent threw: recordFailure, then markFailed or markForRetry.       *)
Fail(w, permanent) ==
    /\ Release(w)
    /\ attempts' = [attempts EXCEPT ![claim[w]] = @ + 1]
    /\ IF DeadLetters(w, permanent)
       THEN /\ status' = [status EXCEPT ![claim[w]] = "failed"]
            /\ UNCHANGED due
       ELSE /\ due' = [due EXCEPT ![claim[w]] = FALSE]
            /\ UNCHANGED status
    /\ UNCHANGED <<lastId, stream, txn, found, retries, late>>

(* applyEvent threw DeferredError: recordDeferral spends no attempt.       *)
Defer(w) ==
    /\ Release(w)
    /\ due' = [due EXCEPT ![claim[w]] = FALSE]
    /\ UNCHANGED <<lastId, stream, status, attempts, txn, found, retries, late>>

(* The process dies or loses its connection: Postgres rolls the claim      *)
(* back and frees the row.                                                 *)
Crash(w) ==
    /\ Release(w)
    /\ UNCHANGED <<lastId, rowVars, txn, found, retries, late>>

(* next_attempt_at arrives.                                                *)
BecomeDue(i) ==
    /\ status[i] = "pending" /\ ~due[i]
    /\ due' = [due EXCEPT ![i] = TRUE]
    /\ UNCHANGED <<lastId, stream, status, attempts, txn, claim, found, retries, late>>

-----------------------------------------------------------------------------
(* retryDeadLetter, first statement: findFailedById, a plain SELECT.       *)
FindFailed(o) ==
    /\ found[o] = None
    /\ \E i \in Ids : status[i] = "failed" /\ found' = [found EXCEPT ![o] = i]
    /\ UNCHANGED <<lastId, rowVars, txn, claim, retries, late>>

(* Second statement: markForRetry, an UPDATE by id alone.  It waits for a  *)
(* worker holding the row's lock and then overwrites what it left.         *)
Retry(o) ==
    /\ found[o] # None /\ ~Locked(found[o])
    /\ retries < MaxRetries
    /\ retries' = retries + 1
    /\ status' = [status EXCEPT ![found[o]] = "pending"]
    /\ attempts' = [attempts EXCEPT ![found[o]] = 0]
    /\ due' = [due EXCEPT ![found[o]] = TRUE]
    /\ found' = [found EXCEPT ![o] = None]
    /\ late' = IF Overtaken(found[o]) THEN late \cup {found[o]} ELSE late
    /\ UNCHANGED <<lastId, stream, txn, claim>>

-----------------------------------------------------------------------------
Produce(p) == Commit(p) \/ Rollback(p) \/ \E s \in Streams : Insert(p, s)

Settle(w) == Succeed(w) \/ \E permanent \in BOOLEAN : Fail(w, permanent)

Work(w) == Claim(w) \/ Settle(w) \/ Defer(w) \/ Crash(w)

Operate(o) == FindFailed(o) \/ Retry(o)

Next ==
    \/ \E p \in Producers : Produce(p)
    \/ \E w \in Workers : Work(w)
    \/ \E o \in Operators : Operate(o)
    \/ \E i \in Ids : BecomeDue(i)

Spec == Init /\ [][Next]_vars

(***************************************************************************)
(* Fairness.  The poll loop keeps claiming (scheduleTick re-arms itself    *)
(* whatever drain did) and time passes.  SettleRow is an assumption on the *)
(* outside: a row that is claimed over and over is not deferred or cut off *)
(* by a crash every single time.                                           *)
(***************************************************************************)
SettleRow(i) == \E w \in Workers : claim[w] = i /\ Settle(w)

Fairness ==
    /\ WF_vars(\E w \in Workers : Claim(w))
    /\ \A i \in Ids : WF_vars(BecomeDue(i)) /\ SF_vars(SettleRow(i))

FairSpec == Spec /\ Fairness

-----------------------------------------------------------------------------
(* SKIP LOCKED and the row lock: an event is never in two workers' hands,  *)
(* and what a worker holds is still an unfinished row whose outcome it     *)
(* alone will write, so an operator's retry or a second worker never       *)
(* changes a row under the transaction that is applying it.                *)
HeldRowsAreOpen ==
    \A w \in Workers : claim[w] # None =>
        /\ status[claim[w]] = "pending"
        /\ \A v \in Workers : claim[v] = claim[w] => v = w

(* Per-stream order (claimNext's NOT EXISTS): an event is claimed or       *)
(* settled while an older one of its stream is still unfinished only when  *)
(* that older row became pending afterwards - a commit that lost the race  *)
(* to its id, or a dead letter put back by an operator.  Backoff,          *)
(* deferral, crash and a second worker never reorder a stream.             *)
StreamOrder ==
    \A i, j \in Ids :
        /\ Older(j, i)
        /\ status[j] = "pending"
        /\ Started(i)
        => j \in late

(* recordFailure's attempt cap: a row is never queued with its budget      *)
(* spent, so no sequence of failures, deferrals, crashes and retries makes *)
(* an event run more than maxAttempts times without an operator seeing it. *)
QueuedRowsHaveBudget ==
    \A i \in Ids : status[i] = "pending" => attempts[i] < MaxAttempts

(* Claiming and settling are per row: whatever the crashes, deferrals and  *)
(* dead letters around it, a committed event ends as done or as a dead     *)
(* letter, so a dead letter never blocks the rest of its stream.           *)
EveryEventSettles ==
    \A i \in Ids : status[i] = "pending" ~> status[i] \in {"done", "failed"}

(* What the outbox promises: the queue of module EventQueue, read off the  *)
(* committed rows and the workers' locks.                                  *)
Posted(i) == status[i] \in {"pending", "done", "failed"}

Queue == INSTANCE EventQueue WITH
    Events <- Ids, Lines <- Streams, NoLine <- NoStream, Hands <- Workers, Empty <- None,
    line <- [i \in Ids |-> IF Posted(i) THEN stream[i] ELSE NoStream],
    state <- [i \in Ids |-> IF Posted(i) THEN status[i] ELSE "unposted"],
    hand <- claim

(* The table, its claims and its transactions implement that queue: no     *)
(* interleaving of producers, workers, crashes and operators hands an      *)
(* event out before its elders, to two workers, or ends it behind the back *)
(* of the worker that has it.                                              *)
ImplementsQueue == Queue!QueueSpec

(* SyncWorker.reconcileSsoApp's comment: two concurrent events for one     *)
(* stream are serialised by claimNext's own row lock.                      *)
OneInFlightPerStream ==
    \A v, w \in Workers :
        /\ v # w
        /\ claim[v] # None
        /\ claim[w] # None
        => stream[claim[v]] # stream[claim[w]]

(* OutboxRepository.markDone's comment: done is a terminal success.        *)
DoneIsTerminal ==
    [][\A i \in Ids : status[i] = "done" => status'[i] = "done"]_vars
=============================================================================
