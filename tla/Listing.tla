------------------------------ MODULE Listing -------------------------------
(***************************************************************************)
(* The keyset-paged lists of the API: runs and dead letters, newest first  *)
(* (handleListRuns, handleListDeadLetters), and approvals, oldest first    *)
(* (handleListApprovals).  A row's created_at is read from the clock       *)
(* before its transaction commits, so rows appear out of order and with    *)
(* equal times; rows leave and enter the status filter while a client      *)
(* follows next_cursor.                                                    *)
(***************************************************************************)
EXTENDS Integers, FiniteSets, Sequences, SequencesExt

CONSTANTS Ids,       \* rows that may be inserted
          Limit,     \* ?limit= of the client
          MaxTime    \* bound: values of the clock

VARIABLE list

NoCursor == [created |-> 0, id |-> 0]

\* Which list is read, with a status filter or without.
Init == \E kind \in {"runs", "dead_letters", "approvals"}, filtered \in BOOLEAN :
    list = [kind |-> kind, filtered |-> filtered, now |-> 1,
            open |-> {}, rows |-> {}, pc |-> "idle", cursor |-> NoCursor,
            seen |-> <<>>, kept |-> {}]

Used == {w.id : w \in list.open \cup list.rows}

\* A transaction that inserts a row starts: created_at is the time now.
Begin(i) ==
    /\ i \in Ids \ Used
    /\ list' = [list EXCEPT !.open = @ \cup {[created |-> list.now, id |-> i, matches |-> TRUE]}]

\* It commits, and the row can be read; or it rolls back.
Commit(w) == list' = [list EXCEPT !.open = @ \ {w}, !.rows = @ \cup {w}]

Rollback(w) == list' = [list EXCEPT !.open = @ \ {w}]

\* A row's status changes and it enters or leaves the filter; a dead letter that
\* was requeued is never open again, the next death writes a letter of its own.
ChangeStatus(w) ==
    /\ list.filtered
    /\ list.kind = "dead_letters" => w.matches
    /\ list' = [list EXCEPT !.rows = (@ \ {w}) \cup {[w EXCEPT !.matches = ~@]},
                            !.kept = @ \ {w.id}]

Tick ==
    /\ list.now < MaxTime
    /\ list' = [list EXCEPT !.now = @ + 1]

\* Newest first: the runs and the dead letters.
Descending == list.kind \in {"runs", "dead_letters"}

\* Rows by created_at alone.
PrecedesByTime(v, w) ==
    IF Descending THEN v.created > w.created ELSE v.created < w.created

\* The list order: (created_at, id), descending or ascending throughout; the id
\* of a dead letter is (run_id, step_id, seq).
Precedes(v, w) ==
    LET before == \/ v.created < w.created
                  \/ v.created = w.created /\ v.id < w.id
        after  == \/ v.created > w.created
                  \/ v.created = w.created /\ v.id > w.id
    IN  IF Descending THEN after ELSE before

\* ListRunsPage, ListDeadLettersPage, ListApprovals: the rows that match, strictly after the
\* cursor in list order.
AfterCursor ==
    SetToSortSeq({w \in list.rows :
                     /\ list.filtered => w.matches
                     /\ list.cursor = NoCursor \/ Precedes(list.cursor, w)},
                 LAMBDA v, w : Precedes(v, w))

\* The first request of a walk.
Start ==
    /\ list.pc = "idle"
    /\ list' = [list EXCEPT
         !.pc = "walking",
         !.kept = {w.id : w \in {v \in list.rows : list.filtered => v.matches}}]

\* One page: Limit rows and one more that only says a next page exists; the
\* cursor is the last row returned.
Page ==
    LET rows == AfterCursor
        more == Len(rows) > Limit
        page == IF more THEN SubSeq(rows, 1, Limit) ELSE rows
    IN  /\ list.pc = "walking"
        /\ list' = [list EXCEPT
             !.seen = @ \o [i \in DOMAIN page |-> page[i].id],
             !.cursor = IF more THEN [created |-> page[Limit].created, id |-> page[Limit].id] ELSE @,
             !.pc = IF more THEN "walking" ELSE "done"]

Next ==
    \/ \E i \in Ids : Begin(i)
    \/ \E w \in list.open : Commit(w) \/ Rollback(w)
    \/ \E w \in list.rows : ChangeStatus(w)
    \/ Tick
    \/ Start
    \/ Page

Spec == Init /\ [][Next]_list

-----------------------------------------------------------------------------
(* A walk repeats no row and, once it ends, has returned every row that    *)
(* was there and matched when it began and kept matching, whatever rows    *)
(* were inserted meanwhile, in whichever order they committed              *)
(* (handleListRuns, handleListDeadLetters, handleListApprovals and their   *)
(* queries).                                                               *)
WalkExact ==
    /\ \A i, j \in DOMAIN list.seen : i # j => list.seen[i] # list.seen[j]
    /\ list.pc = "done" => list.kept \subseteq ToSet(list.seen)
=============================================================================
