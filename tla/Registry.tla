------------------------------ MODULE Registry ------------------------------
(***************************************************************************)
(* The definition registry (internal/store/definitions.go, internal/api/   *)
(* definitions.go).  Builders open a version of a name and save the next   *)
(* one, with or without If-Match; an append runs in a transaction that     *)
(* takes an advisory lock on the name, reads MAX(version) + 1, compares    *)
(* the precondition and inserts; a create inserts version 1 without the    *)
(* lock.  A specification is the version it was edited from.               *)
(***************************************************************************)
EXTENDS Integers, FiniteSets, FiniteSetsExt

CONSTANTS Names, LockKey,   \* definitionNameLockKey: names may share a key
          Builders,
          MaxVersions       \* bound: versions of each name

VARIABLE reg

Free == [pc |-> "free", name |-> CHOOSE n \in Names : TRUE, opened |-> 0,
         ifMatch |-> FALSE, next |-> 0]

Init == reg = [rows |-> {}, at |-> [b \in Builders |-> Free], collided |-> FALSE]

VersionsOf(n) == {w.version : w \in {v \in reg.rows : v.name = n}}

\* NextDefinitionVersion: COALESCE(MAX(version), 0) + 1 over committed rows.
NextVersion(n) == IF VersionsOf(n) = {} THEN 1 ELSE Max(VersionsOf(n)) + 1

Row(b, v) == [name |-> reg.at[b].name, version |-> v,
              opened |-> reg.at[b].opened, ifMatch |-> reg.at[b].ifMatch]

\* The saves stop at the bound.
Room(n) == NextVersion(n) <= MaxVersions[n]

\* A builder opens a stored version (handleGetDefinition), or starts a new
\* definition (version 0), and edits it.
Open(b) ==
    /\ reg.at[b].pc = "free"
    /\ \E n \in Names, m \in BOOLEAN : \E v \in VersionsOf(n) \cup {0} :
          /\ Room(n)
          /\ m => v # 0
          /\ reg' = [reg EXCEPT !.at[b] =
                       [Free EXCEPT !.pc = "edited", !.name = n, !.opened = v, !.ifMatch = m]]

\* The handler answers; the constraint's refusal of an append is remembered.
Answered(b, kind) ==
    [reg EXCEPT !.at[b] = Free, !.collided = @ \/ kind = "conflict"]

\* Store.CreateDefinition: version 1 in one statement, refused by the unique
\* (name, version) when the name is taken.
CreateDefinition(b) ==
    /\ reg.at[b].pc = "edited"
    /\ ~reg.at[b].ifMatch
    /\ reg' = IF 1 \in VersionsOf(reg.at[b].name) THEN Answered(b, "exists")
              ELSE [Answered(b, "created") EXCEPT !.rows = @ \cup {Row(b, 1)}]

\* The names whose appends one lock serializes.
Holding(key) == {b \in Builders : reg.at[b].pc \in {"locked", "read"}
                                  /\ LockKey[reg.at[b].name] = key}

\* CreateDefinitionVersion: the transaction's first statement waits for the
\* advisory lock of the name's key.
LockName(b) ==
    /\ reg.at[b].pc = "edited"
    /\ Holding(LockKey[reg.at[b].name]) = {}
    /\ reg' = [reg EXCEPT !.at[b].pc = "locked"]

\* Then the next version is read: an unseen name is a 404, and a
\* precondition that is not the newest version a 409 version_conflict.
ReadNext(b) ==
    LET at == reg.at[b]
        next == NextVersion(at.name)
    IN  /\ at.pc = "locked"
        /\ reg' = CASE next = 1 -> Answered(b, "not_found")
                    [] next # 1 /\ at.ifMatch /\ at.opened # next - 1 -> Answered(b, "version_conflict")
                    [] OTHER -> [reg EXCEPT !.at[b].pc = "read", !.at[b].next = next]

\* Then the row is inserted and the transaction commits; the constraint
\* would refuse a version that exists.
AppendVersion(b) ==
    LET at == reg.at[b]
    IN  /\ at.pc = "read"
        /\ reg' = IF at.next \in VersionsOf(at.name) THEN Answered(b, "conflict")
                  ELSE [Answered(b, "appended") EXCEPT !.rows = @ \cup {Row(b, at.next)}]

\* The connection is lost in the transaction: rolled back, lock released.
Abort(b) ==
    /\ reg.at[b].pc \in {"locked", "read"}
    /\ reg' = [reg EXCEPT !.at[b] = Free]

Next == \E b \in Builders :
    \/ Open(b)
    \/ CreateDefinition(b)
    \/ LockName(b)
    \/ ReadNext(b)
    \/ AppendVersion(b)
    \/ Abort(b)

Spec == Init /\ [][Next]_reg

-----------------------------------------------------------------------------
(* The lock does what MAX + 1 alone cannot: two appends never allocate the *)
(* same version, so no append is refused by the (name, version) constraint *)
(* (CreateDefinitionVersion).                                              *)
AppendsNeverCollide == ~reg.collided

(* A save that carried If-Match supersedes exactly the version its builder *)
(* had opened: nobody's version lies between (CreateDefinitionVersion).    *)
NoSilentFork ==
    \A v \in reg.rows : v.ifMatch => v.version = v.opened + 1

(* A name's versions are 1, 2, ..., with no gap, whatever transactions     *)
(* failed (NextDefinitionVersion, the unique constraint).                  *)
VersionsContiguous ==
    \A n \in Names : VersionsOf(n) = 1..Cardinality({v \in reg.rows : v.name = n})

(* A stored version is never changed or taken away: runs that reference it *)
(* keep what they were submitted with.                                     *)
RowsKept == reg.rows \subseteq reg'.rows
=============================================================================
