----------------------------- MODULE Submission -----------------------------
(***************************************************************************)
(* Run submission with idempotency tokens: POST /v1/runs (internal/api/    *)
(* runs.go) over Store.CreateRun (internal/store/instantiate.go).  A       *)
(* request looks its token up, inserts the run in a transaction arbitrated *)
(* by the unique index on the token, and on a lost race reads the winner's *)
(* run.  Requests race, reads and transactions fail, a commit can succeed  *)
(* unseen, responses are lost and clients send the same request again.     *)
(***************************************************************************)
EXTENDS Integers, FiniteSets

CONSTANTS Requests,     \* what clients submit
          Token,        \* a request's Idempotency-Key, or NoToken
          Payload,      \* a request's [def, params, ref]
          LegacyRuns,   \* runs from before fingerprints were stored
          Batches,      \* sets of requests whose clients are active together
          MaxSends,     \* bound: times a client sends one request
          NoToken,
          NoRun

VARIABLE sub

\* canonicalJSON: formatting does not tell parameters apart, and absent
\* parameters are the empty object.
Canonical(params) ==
    CASE params = "absent" -> "empty"
      [] params = "respaced" -> "given"
      [] OTHER -> params

\* idempotencyFingerprint: the definition, the canonical parameters and the
\* definition reference.
Fingerprint(p) == <<p.def, Canonical(p.params), p.ref>>

\* A request as its handler carries it: where it is, and the id its run
\* would have.
Idle == [pc |-> "idle", sends |-> 0]

Init == \E batch \in Batches :
    sub = [runs    |-> LegacyRuns,
           active  |-> batch,
           reqs    |-> [r \in Requests |-> Idle],
           answers |-> {},
           next    |-> Cardinality(LegacyRuns) + 1]

At(r, pc) == sub.reqs[r].pc = pc

Goto(r, pc) == [sub EXCEPT !.reqs[r].pc = pc]

Answer(r, kind, id) ==
    [sub EXCEPT !.reqs[r].pc = "answered",
                !.answers = @ \cup {[req |-> r, kind |-> kind, run |-> id]}]

\* GetRunByIdempotencyToken.
WithToken(t) == {n \in sub.runs : n.token = t}

\* checkedReuse: the stored fingerprint must be the request's; a run from
\* before fingerprints is handed out unchecked.
CheckedReuse(r, run) ==
    IF run.fingerprint # NoRun /\ run.fingerprint # Fingerprint(Payload[r])
    THEN Answer(r, "mismatch", run.id)
    ELSE Answer(r, "reused", run.id)

\* handleSubmitRun receives the request, or receives it once more from a
\* client that got an error or no answer at all.
Submit(r) ==
    /\ sub.reqs[r].pc \in {"idle", "answered", "unanswered"}
    /\ sub.reqs[r].sends < MaxSends
    /\ sub' = [sub EXCEPT !.reqs[r] = [pc |-> "lookup", sends |-> @.sends + 1]]

\* CreateRun's pre-check: a run with the token answers at once.
Lookup(r) ==
    /\ At(r, "lookup")
    /\ IF Token[r] = NoToken \/ WithToken(Token[r]) = {}
       THEN sub' = Goto(r, "begin")
       ELSE \E run \in WithToken(Token[r]) : sub' = CheckedReuse(r, run)

\* A read of the store fails: the answer is a 500.
ReadFails(r) ==
    /\ sub.reqs[r].pc \in {"lookup", "reread"}
    /\ Token[r] # NoToken
    /\ sub' = Answer(r, "error", NoRun)

\* Another transaction has inserted the token and not committed: the index
\* makes the second insert wait.
Locked(t) == t # NoToken /\ \E o \in Requests : At(o, "inserted") /\ Token[o] = t

\* The insert with no index on the token.
InsertUnindexed(r) ==
    /\ At(r, "begin")
    /\ sub' = Goto(r, "inserted")

\* plan.insert inside WithTx: the unique index refuses a committed token.
Insert(r) ==
    /\ At(r, "begin")
    /\ ~Locked(Token[r])
    /\ sub' = Goto(r, IF Token[r] # NoToken /\ WithToken(Token[r]) # {}
                      THEN "reread" ELSE "inserted")

NewRun(r) ==
    [id |-> sub.next, token |-> Token[r], payload |-> Payload[r],
     fingerprint |-> IF Token[r] = NoToken THEN NoRun ELSE Fingerprint(Payload[r])]

\* The transaction commits and the handler answers 201.
Commit(r) ==
    /\ At(r, "inserted")
    /\ sub' = [Answer(r, "created", sub.next) EXCEPT
                 !.runs = @ \cup {NewRun(r)}, !.next = @ + 1]

\* The transaction commits and the connection is lost before the store says
\* so: the handler answers 500 although the run exists.
CommitUnseen(r) ==
    /\ At(r, "inserted")
    /\ sub' = [Answer(r, "error", NoRun) EXCEPT
                 !.runs = @ \cup {NewRun(r)}, !.next = @ + 1]

\* The transaction rolls back: nothing of the run is left.
Rollback(r) ==
    /\ At(r, "inserted")
    /\ sub' = Answer(r, "error", NoRun)

\* A lost same-token race: the winner's run is read and handed out as the
\* sequential path would.
Reread(r) ==
    /\ At(r, "reread")
    /\ \E run \in WithToken(Token[r]) : sub' = CheckedReuse(r, run)

\* The server dies or the response is lost: the client knows nothing, and an
\* open transaction rolls back.  `answers` keeps what the handler said,
\* heard or not.
Lost(r) ==
    /\ sub.reqs[r].pc \notin {"idle", "unanswered"}
    /\ sub' = Goto(r, "unanswered")

Next == \E r \in sub.active :
    \/ Submit(r)
    \/ Lookup(r)
    \/ ReadFails(r)
    \/ Insert(r)
    \/ Commit(r)
    \/ CommitUnseen(r)
    \/ Rollback(r)
    \/ Reread(r)
    \/ Lost(r)

Spec == Init /\ [][Next]_sub

-----------------------------------------------------------------------------
Tokened == {n \in sub.runs : n.token # NoToken}

(* However many requests carry a token, race and are sent again, the token *)
(* names at most one run (the unique index behind CreateRun).              *)
OneRunPerToken ==
    \A m, n \in Tokened : m.token = n.token => m = n

(* No client is handed a run it did not ask for: a success names an        *)
(* existing run with the request's token and, unless the run predates      *)
(* fingerprints, the request's payload; a 409 names a run that has the     *)
(* token and another payload (checkedReuse on both paths of CreateRun).    *)
AnswersNameTheRun ==
    \A a \in sub.answers :
        a.kind # "error" =>
            \E n \in sub.runs :
                /\ n.id = a.run
                /\ n.token = Token[a.req]
                /\ n.fingerprint # NoRun =>
                       ((a.kind = "mismatch") <=>
                            [n.payload EXCEPT !.params = Canonical(@)]
                                # [Payload[a.req] EXCEPT !.params = Canonical(@)])

(* A run is announced as new at most once: no two answers for one token    *)
(* say 201 created, and no run is created for two requests                 *)
(* (handleSubmitRun, CreateRun).                                           *)
CreatedOnce ==
    \A a, b \in {c \in sub.answers : c.kind = "created"} :
        a # b => /\ a.run # b.run
                 /\ Token[a.req] = NoToken \/ Token[a.req] # Token[b.req]
=============================================================================
