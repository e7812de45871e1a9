------------------------------ MODULE EventQueue ------------------------------
(***************************************************************************)
(* What the outbox promises whoever writes events and whoever applies      *)
(* them, with no transaction, lock, attempt or clock in sight: events      *)
(* stand in lines, the first unfinished one of a line may be handed to one *)
(* worker, and only the worker it was handed to ends it or puts it back.   *)
(***************************************************************************)
EXTENDS Integers

(* Events are numbers: a smaller one is an elder.  NoLine is not in Lines,  *)
(* Empty not an event.                                                     *)
CONSTANTS Events, Lines, NoLine, Hands, Empty

VARIABLES
    line,    \* the line each event stands in, NoLine before it is posted
    state,   \* "unposted", "pending" or how it ended
    hand     \* the event each worker has been handed

qvars == <<line, state, hand>>

Ended == {"done", "failed"}

Pending(e) == state[e] = "pending"

InHand(e) == \E h \in Hands : hand[h] = e

FirstInLine(e) == ~ \E d \in Events : d < e /\ line[d] = line[e] /\ Pending(d)

QueueInit ==
    /\ line = [e \in Events |-> NoLine]
    /\ state = [e \in Events |-> "unposted"]
    /\ hand = [h \in Hands |-> Empty]

(* Events are posted together, each at its own place in its line.          *)
Post ==
    /\ \A e \in Events :
          \/ line'[e] = line[e] /\ state'[e] = state[e]
          \/ state[e] = "unposted" /\ state'[e] = "pending" /\ line'[e] \in Lines
    /\ UNCHANGED hand

HandOut(h, e) ==
    /\ hand[h] = Empty /\ Pending(e) /\ ~InHand(e) /\ FirstInLine(e)
    /\ hand' = [hand EXCEPT ![h] = e]
    /\ UNCHANGED <<line, state>>

End(h, outcome) ==
    /\ hand[h] # Empty
    /\ state' = [state EXCEPT ![hand[h]] = outcome]
    /\ hand' = [hand EXCEPT ![h] = Empty]
    /\ UNCHANGED line

PutBack(h) ==
    /\ hand[h] # Empty
    /\ hand' = [hand EXCEPT ![h] = Empty]
    /\ UNCHANGED <<line, state>>

(* An operator asks for one more try of what has ended.                    *)
Revive(e) ==
    /\ state[e] \in Ended
    /\ state' = [state EXCEPT ![e] = "pending"]
    /\ UNCHANGED <<line, hand>>

QueueNext ==
    \/ Post
    \/ \E h \in Hands :
          \/ \E e \in Events : HandOut(h, e)
          \/ \E outcome \in Ended : End(h, outcome)
          \/ PutBack(h)
    \/ \E e \in Events : Revive(e)

QueueSpec == QueueInit /\ [][QueueNext]_qvars
=============================================================================
