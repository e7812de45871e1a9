---------------------------- MODULE ConsoleState ----------------------------
(***************************************************************************)
(* What one open page of the administration console is: what its address,  *)
(* filters or selection name, the rows it holds and whose they are, and    *)
(* what is open, under way or looked at on it.  ConsolePeople and          *)
(* ConsoleSystem say of every page what can be done on it and what its     *)
(* handlers do to this state; Console makes the pages move.                *)
(***************************************************************************)
EXTENDS Naturals, FiniteSets

CONSTANTS
    Topics,     \* persons, roles, organizations, filters: what a page can be about
    Whole,      \* the topic of a page without filters
    Rows,       \* the rows of a list, the parts of one entity
    Nothing     \* null

(* null and "stop" are nothing a page can be about, nor is null a dialog.  *)
ASSUME PageAssumption ==
    /\ Whole \in Topics /\ "stop" \notin Topics /\ Nothing \notin Topics
    /\ Nothing \notin {"stop", "transferPerson", "activatePerson", "deactivatePerson",
                      "revokeRole", "deleteUnit", "disableRole"}

NoRows == [r \in Rows |-> "absent"]

Present(rows) == {r \in Rows : rows[r] # "absent"}

Flipped(v) == CASE v = "a" -> "b" [] v = "b" -> "a" [] v = "absent" -> v

(* What a command makes of the rows of its topic, once the service takes   *)
(* it: a change names the value to set and not the one it was.             *)
Applied(rows, c) ==
    IF \/ c.does = "look"
       \/ c.does = "add" /\ rows[c.row] # "absent"
       \/ c.does \in {"change", "mark"} /\ rows[c.row] = "absent"
    THEN rows
    ELSE [rows EXCEPT ![c.row] = c.to]

(* at: the row, tab or unit selected.  forms: the forms that are open.     *)
(* dialog, held: the modal dialog, and that its confirmation is under way. *)
(* busy: the commands the page waits for.  pending: a search not yet sent. *)
(* again: whose rows a handler wants read again.                           *)
Opened(s) ==
    [topic |-> s, rows |-> Nothing, of |-> s, loading |-> TRUE, error |-> FALSE,
     at |-> Nothing, forms |-> {}, dialog |-> Nothing, held |-> FALSE, busy |-> {},
     preview |-> Nothing, pending |-> Nothing, again |-> Nothing]

-----------------------------------------------------------------------------
Loaded(p) == p.rows # Nothing
Shown(p) == IF Loaded(p) THEN Present(p.rows) ELSE {}
Missing(p) == IF Loaded(p) THEN Rows \ Present(p.rows) ELSE {}
With(p, content) == {r \in Shown(p) : p.rows[r] = content}

(* A table that is neither an error nor a skeleton.                        *)
Settled(p) == Loaded(p) /\ ~p.loading /\ ~p.error

(* A command goes out: to what the rows shown belong to, or, when it does  *)
(* not name a row, to what the page is about.                              *)
Aim(p, does, row) ==
    CASE does \in {"add", "put"} -> "a"
      [] does = "mark" -> "b"
      [] does = "change" -> Flipped(p.rows[row])
      [] does = "remove" -> "absent"
      [] does = "look" -> Nothing

Send(p, op, does, row) ==
    [p EXCEPT !.busy = @ \cup
        {[op |-> op, does |-> does, row |-> row, to |-> Aim(p, does, row), saw |-> p.preview,
          of |-> IF does \in {"change", "remove"} /\ Loaded(p) THEN p.of ELSE p.topic]}]

Offer(p, op, does, rows) == {Send(p, op, does, r) : r \in rows}
If(condition, gestures) == IF condition THEN gestures ELSE {}

(* A button on every row; only on the row clicked last is it disabled.     *)
Clicks(p, op, does) ==
    UNION {{[q EXCEPT !.at = r] : q \in Offer(p, op, does, {r})} : r \in Shown(p) \ {p.at}}

Idle(p, op) == \A c \in p.busy : c.op # op
IdleAt(p, op, r) == \A c \in p.busy : c.op # op \/ c.row # r
Done(p, c) == [p EXCEPT !.busy = @ \ {c}]

Again(p) == [p EXCEPT !.again = p.topic]
AgainOf(p, s) == [p EXCEPT !.again = s]

(* Whatever is being read is given up.                                     *)
Stop(p) == [p EXCEPT !.again = "stop"]

(* The rows are replaced by an answer; an answer's row is put into them.   *)
Replace(p, c, got) == [p EXCEPT !.rows = got, !.of = c.of]
Patched(p, c) ==
    IF Loaded(p) /\ (c.does = "add" \/ c.of = p.of)
    THEN [p EXCEPT !.rows = Applied(@, c)] ELSE p

Open(p, f) == [p EXCEPT !.forms = @ \cup {f}]
Close(p, f) == [p EXCEPT !.forms = @ \ {f}]
Ask(p, op) == [p EXCEPT !.dialog = op]
Dismiss(p) == [p EXCEPT !.dialog = Nothing, !.held = FALSE]
Forget(p) == [p EXCEPT !.preview = Nothing]

(* The page comes to be about something else.                              *)
Turns(p) == {[p EXCEPT !.topic = s] : s \in Topics \ {p.topic}}

(* Another row is selected: the part of the page about the row before is   *)
(* gone, with its forms, its dialog and what it waited for.                *)
Select(p, r) ==
    [p EXCEPT !.at = r, !.forms = {}, !.dialog = Nothing, !.held = FALSE, !.busy = {}]

(* Typing into a search field starts its timer over; the timer runs out.   *)
Types(p) == {[p EXCEPT !.pending = s] : s \in Topics}
Elapses(p) == If(p.pending # Nothing, {[p EXCEPT !.topic = p.pending, !.pending = Nothing]})

(* ConfirmDialog: while a confirmation is under way it can neither be      *)
(* dismissed nor confirmed again.  Only a handler that throws gives the    *)
(* dialog back; one that resolves has to close it.                         *)
Dismissal(p) == If(p.dialog # Nothing /\ ~p.held, {Dismiss(p)})
Confirmed(p) == [p EXCEPT !.held = TRUE]
Confirmation(p, op, does, rows) ==
    If(p.dialog = op /\ ~p.held,
       {[q EXCEPT !.held = TRUE] : q \in Offer(p, op, does, rows)})
Threw(p) == [p EXCEPT !.held = FALSE]
=============================================================================
