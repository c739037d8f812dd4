------------------------------ MODULE ModelCall ------------------------------
(***************************************************************************)
(* What a step of the llm family asks a model and what becomes of the      *)
(* answer: the request its configuration renders to, the response cache's  *)
(* key for it, the shaping of a structured answer, the validation chain    *)
(* with its llm_judge entries, and the semantic retry that carries the     *)
(* chain's critique.  Steps run one after the other and share the response *)
(* cache; Attempt models what concurrent attempts do to the run.           *)
(*                                                                         *)
(* A prompt is the sequence of its parts: the task (0), the assembled      *)
(* context (-1) and the critique of attempt n (n).                         *)
(***************************************************************************)
EXTENDS Integers, Sequences, FiniteSets, SequencesExt, FiniteSetsExt

CONSTANTS
    Programs,   \* sequences of steps
    Answers,    \* what a provider can answer: [native, text, fenced, tools]
    Routable,   \* models the provider registry resolves
    Scores      \* grades a judge can give

VARIABLE mc

Task == 0
Context == -1
None == "none"

-----------------------------------------------------------------------------
(* The request.                                                            *)

\* llmConfigView: a planner asks for plain JSON and has no system prompt; an
\* agent's toolset is no part of the call.
ConfigView(c) ==
    IF c.type = "planner" THEN [c EXCEPT !.format = "json", !.mode = "auto", !.system = FALSE] ELSE c

WithFeedback(c, n) == IF n = 0 THEN c ELSE [c EXCEPT !.parts = Append(@, n)]
WithContext(c) == IF c.context THEN [c EXCEPT !.parts = <<Context>> \o @] ELSE c

\* buildMessages: a prompt is one message, a conversation one per part.
Messages(c) == IF c.form = "prompt" THEN <<c.parts>> ELSE [i \in DOMAIN c.parts |-> <<c.parts[i]>>]

\* responseFormatFor: repair_only leaves the request as it is.
ResponseFormat(c) == IF c.mode = "repair_only" THEN None ELSE c.format

\* buildChatRequest, with the model the registry routed.
ChatRequest(c) ==
    LET v == ConfigView(c)
    IN  [model |-> v.model, system |-> v.system, temp |-> v.temp,
         messages |-> Messages(v), response |-> ResponseFormat(v)]

\* LLMRequest.components: what the key hashes.
Components(type, r, v) ==
    <<type, r.model, r.system, r.temp, r.messages,
      IF v.format = None THEN <<>> ELSE <<v.format, v.mode>>>>

\* CacheBinding.
Key(c) == Components(c.type, ChatRequest(c), ConfigView(c))

\* Decide: temperature 0 caches unless the policy says otherwise.
CacheMode(c) ==
    IF c.cache # "" THEN c.cache ELSE IF c.temp = "zero" THEN "read_write" ELSE "off"
Reads(c) == CacheMode(c) \in {"read_write", "read_only"}
Writes(c) == CacheMode(c) = "read_write"

-----------------------------------------------------------------------------
(* The answer.                                                             *)

\* jsonrepair.Repair: a fenced text is repaired, plain prose is not.
Repaired(a) == IF a.text = "plain" THEN None ELSE a.text

\* marshalLLMOutput and shapeStructured.
Shape(c, a) ==
    IF ConfigView(c).format = None
    THEN [text |-> IF a.fenced THEN "plain" ELSE a.text, json |-> None, tools |-> a.tools]
    ELSE IF a.native # None
    THEN [text |-> a.native, json |-> a.native, tools |-> a.tools]
    ELSE [text |-> IF Repaired(a) = None THEN "plain" ELSE Repaired(a),
          json |-> Repaired(a), tools |-> a.tools]

\* enforceToolAllowlist.
Allowed(c, out) == c.type = "agent" => out.tools \subseteq c.tools

\* implicitOutputFormatSpec: the validator a format implies.
Implicit(c) ==
    IF c.type = "planner" \/ c.format = "schema"
    THEN <<[kind |-> "schema", want |-> {"conforming"}, target |-> "/text", onError |-> "fail", models |-> {}]>>
    ELSE IF c.format = "json"
    THEN <<[kind |-> "schema", want |-> {"json", "conforming"}, target |-> "/text", onError |-> "fail", models |-> {}]>>
    ELSE <<>>

\* mergeValidationPolicy.
Merge(c) == Implicit(c) \o c.chain

\* LLMJudge.compile: every model of the judge's chain routes.
Compiles(c) == \A i \in DOMAIN Merge(c) : Merge(c)[i].models \subseteq Routable

\* resolveTarget.
Value(out, target) ==
    CASE target = "/text" -> out.text
      [] target = "/json" -> out.json
      [] OTHER -> None

\* Validate of a deterministic validator.
CheapVerdicts(e, out) ==
    LET v == Value(out, e.target)
    IN  IF v = None THEN {"fail"}
        ELSE IF e.kind = "schema" THEN {IF v \in e.want THEN "pass" ELSE "fail"}
        ELSE {"pass", "fail"}

-----------------------------------------------------------------------------
(* The steps.                                                              *)

Fresh == [pc |-> "claimed", try |-> 1, cfg |-> <<>>, out |-> <<>>, hit |-> FALSE,
          results |-> <<>>, at |-> 0]

Init ==
    \E p \in Programs :
        mc = [program |-> p, cur |-> 1, job |-> Fresh, cache |-> {}, ended |-> <<>>,
              billed |-> {}, metered |-> {}]

Job == mc.job
Step == mc.program[mc.cur]
Chain == Merge(Step)
Judges == {i \in DOMAIN Chain : Chain[i].kind = "judge"}
Cheap == DOMAIN Chain \ Judges

Active(pc) == mc.cur <= Len(mc.program) /\ Job.pc = pc

\* The step ends, in this try and at this place of its chain, and the next one
\* is claimed.
End(x, outcome) ==
    [x EXCEPT !.ended = Append(@, [outcome |-> outcome, out |-> x.job.out, hit |-> x.job.hit,
                                   try |-> x.job.try, at |-> x.job.at]),
              !.cur = @ + 1, !.job = Fresh]

\* resolveChain before any spend; then the request: the context goes before
\* the task, the pending critique after it.
Claim ==
    /\ Active("claimed")
    /\ mc' = IF ~Compiles(Step) THEN End(mc, "permanent")
             ELSE [mc EXCEPT !.job.pc = "cache",
                     !.job.cfg = WithContext(WithFeedback(Step, IF Job.try = 1 THEN 0 ELSE Job.try - 1))]

\* cacheRead: a stored output is validated again before it is served.
CacheRead ==
    /\ Active("cache")
    /\ \/ /\ Reads(Step)
          /\ \E e \in mc.cache :
                /\ e[1] = Key(Job.cfg)
                /\ mc' = [mc EXCEPT !.job.pc = "chain", !.job.out = e[2], !.job.hit = TRUE]
       \/ mc' = [mc EXCEPT !.job.pc = "chat"]

\* Execute; a provider structures its answer only when it is asked to.
Execute ==
    /\ Active("chat")
    /\ IF Job.cfg.model \notin Routable THEN mc' = End(mc, "permanent")
       ELSE \/ \E a \in Answers :
                /\ a.native # None => ChatRequest(Job.cfg).response # None
                /\ LET out == Shape(Job.cfg, a)
                       x == [mc EXCEPT !.job.pc = "chain", !.job.out = out]
                   IN  mc' = IF Allowed(Step, out) THEN x
                             ELSE End([x EXCEPT !.job.out = <<>>], "permanent")
            \/ \E class \in {"transient", "permanent"} : mc' = End(mc, class)

\* The first pass of Chain.Run: every cheap validator, and the judges skipped
\* if one of them failed.
RunCheap ==
    /\ Active("chain")
    /\ \E r \in [DOMAIN Chain -> {"pass", "fail", "skipped", ""}] :
        /\ \A i \in Cheap : r[i] \in CheapVerdicts(Chain[i], Job.out)
        /\ \A i \in Judges : r[i] = IF \E k \in Cheap : r[k] = "fail" THEN "skipped" ELSE ""
        /\ mc' = [mc EXCEPT !.job.results = r, !.job.at = 1, !.job.pc = "judge"]

\* A charge: the step, the attempt, the chain position, and whether it graded
\* a stored output.
Charge(i) == [step |-> mc.cur, try |-> Job.try, at |-> i, hit |-> Job.hit]

\* applyOnError for a judge that could not be reached (usage {}) or whose
\* answer cannot be read (its charge): skipped, or a failure of the stage.  A
\* hit is then executed afresh.
JudgeErrs(x, i, usage) ==
    IF Chain[i].onError = "skip"
    THEN [x EXCEPT !.job.results[i] = IF usage = {} THEN "error" ELSE "error_billed", !.job.at = @ + 1]
    ELSE IF Job.hit THEN [x EXCEPT !.job.pc = "chat", !.job.hit = FALSE]
    ELSE End([x EXCEPT !.metered = @ \cup usage], IF usage = {} THEN "transient" ELSE "permanent")

\* Validate of an llm_judge: its models in turn until one answers.
RunJudge ==
    /\ Active("judge") /\ Job.at <= Len(Chain)
    /\ LET i == Job.at
           e == Chain[i]
           bill == [mc EXCEPT !.billed = @ \cup {Charge(i)}]
       IN  IF Job.results[i] # "" THEN mc' = [mc EXCEPT !.job.at = @ + 1]
           ELSE IF Value(Job.out, e.target) = None
           THEN mc' = [mc EXCEPT !.job.results[i] = "fail", !.job.at = @ + 1]
           ELSE \/ mc' = JudgeErrs(mc, i, {})
                \/ mc' = JudgeErrs(bill, i, {Charge(i)})
                \/ \E s \in Scores :
                       mc' = [bill EXCEPT !.job.at = @ + 1,
                                 !.job.results[i] = IF s >= e.want THEN "passed" ELSE "failed"]

Failing == {"fail", "failed"}
Failed == \E i \in DOMAIN Chain : Job.results[i] \in Failing

\* priceOverheads: what the chain's results say was billed.
Overheads(j) ==
    {Charge(i) : i \in {k \in DOMAIN j.results : j.results[k] \in {"passed", "failed", "error_billed"}}}

\* The verdict: served or completed, executed afresh when it was a hit, tried
\* again with the critique while the semantic budget lasts.
Conclude ==
    /\ Active("judge") /\ Job.at > Len(Chain)
    /\ LET paid == [mc EXCEPT !.metered = @ \cup Overheads(Job)]
       IN  mc' = IF ~Failed
                 THEN End([paid EXCEPT !.cache = IF Job.hit \/ ~Writes(Step) THEN @
                                                 ELSE {e \in @ : e[1] # Key(Job.cfg)}
                                                        \cup {<<Key(Job.cfg), Job.out>>}], "succeeded")
                 ELSE IF Job.hit THEN [mc EXCEPT !.job.pc = "chat", !.job.hit = FALSE]
                 ELSE IF Job.try < Step.max
                 THEN [paid EXCEPT !.job = [Fresh EXCEPT !.try = Job.try + 1]]
                 ELSE End(paid, "dead_lettered")

Next == Claim \/ CacheRead \/ Execute \/ RunCheap \/ RunJudge \/ Conclude

Spec == Init /\ [][Next]_mc

-----------------------------------------------------------------------------
(* Properties.                                                             *)

\* Two steps that share a cache key send the same request and shape every
\* answer to it in the same way, so that either may be served what the other
\* stored (the premise of the response cache).
KeyDeterminesOutput ==
    \A c, d \in Range(mc.program) : Key(c) = Key(d) =>
        /\ ChatRequest(c) = ChatRequest(d)
        /\ \A a \in Answers : Shape(c, a) = Shape(d, a)

\* A step that declares an output format, and a planner, succeeds only with
\* JSON of that format, whether the answer is fresh or was stored by another
\* step, and whatever its author's own chain checks.
SucceedsWithItsFormat ==
    \A k \in DOMAIN mc.ended :
        LET c == mc.program[k]
        IN  mc.ended[k].outcome = "succeeded" =>
                /\ c.type = "planner" \/ c.format = "schema" => mc.ended[k].out.json = "conforming"
                /\ c.format = "json" => mc.ended[k].out.json # None

\* No judge is paid to grade what a free check rejects, every free check is
\* run, and a judge is passed over for no other reason (Chain.Run).
JudgesOnlyGradePassing ==
    Active("judge") =>
        /\ \A i \in Judges : Job.results[i] \notin {"", "skipped"} => \A k \in Cheap : Job.results[k] = "pass"
        /\ \A i \in Cheap : Job.results[i] \in {"pass", "fail"}
        /\ (\E i \in Judges : Job.results[i] = "skipped") => \E k \in Cheap : Job.results[k] = "fail"

\* A semantic retry's request has the critique of the attempt before it, after
\* everything else, and of no older attempt; the first has none; and the
\* context stays in front (injectFeedback over the stored configuration).
CritiqueIsCurrent ==
    Active("chat") \/ Active("cache") =>
        LET p == Job.cfg.parts
        IN  p = (IF Step.context THEN <<Context>> ELSE <<>>) \o Step.parts
                 \o (IF Job.try = 1 THEN <<>> ELSE <<Job.try - 1>>)

\* A judge call that was billed is on the ledger once its attempt is over, in
\* every outcome but two: the stored output it graded was not served
\* (engine/cache.go:168-181 drops the verdict), or a later judge's error ended
\* the stage (chain.go:146-149 drops the results so far).  The call that
\* itself ended the stage is on it.  ADR-013:676 says every judge spend is.
JudgeSpendMetered ==
    \A b \in mc.billed \ mc.metered :
        /\ b.step = mc.cur => b.hit \/ b.try = Job.try
        /\ b.step < mc.cur =>
              LET e == mc.ended[b.step]
              IN  IF b.hit THEN ~(e.hit /\ e.try = b.try)
                  ELSE e.try = b.try /\ b.at < e.at /\ e.outcome \in {"transient", "permanent"}

\* A step that succeeds as an agent names no tool outside its role's toolset.
ToolsWithinRole ==
    \A k \in DOMAIN mc.ended :
        mc.ended[k].outcome = "succeeded" /\ mc.program[k].type = "agent" =>
            mc.ended[k].out.tools \subseteq mc.program[k].tools
=============================================================================
