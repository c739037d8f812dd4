----------------------------- MODULE MCRequests -----------------------------
(* What an llm step asks, pays and retries; the variables of a part that is  *)
(* not exercised are empty.                                                  *)
EXTENDS MCServices, Integers, SequencesExt

CONSTANTS RequestFaults, MaxText, MaxLog, NotifyClock, MaxDay

VARIABLES asm, mc, rp, rt, nt, pr

requestVars == <<asm, mc, rp, rt, nt, pr>>

-----------------------------------------------------------------------------
(* Context: every pipeline of distinct strategies over two lists of sources. *)

Source(lens, pinned, prio, cap, skip) ==
    [lens |-> lens, pinned |-> pinned, prio |-> prio, cap |-> cap, skip |-> skip]

Strategies ==
    {[kind |-> "sliding_window", n |-> 1], [kind |-> "drop_lowest_priority", n |-> 0],
     [kind |-> "truncate_oldest", n |-> 1], [kind |-> "summarize", n |-> 2]}

Pipelines ==
    {p \in UNION {[1..k -> Strategies] : k \in 0..2} : \A i, j \in DOMAIN p : p[i] = p[j] => i = j}

SourceLists ==
    {<<Source({5}, FALSE, 1, 0, FALSE), Source({3}, TRUE, 0, 0, FALSE),
       Source({-1, 8}, FALSE, 0, 3, TRUE), Source({6}, FALSE, 1, 0, FALSE)>>,
     <<Source({2, 7}, FALSE, 0, 0, TRUE), Source({-1, 4}, TRUE, 0, 0, FALSE),
       Source({9}, TRUE, 2, 0, TRUE)>>}

Ctx == INSTANCE ContextAssembly WITH
        Specs <- {[sources |-> s, budget |-> b, pipeline |-> p] :
                     s \in SourceLists, b \in {0, 5, 8, 11}, p \in Pipelines},
        Models <- {[window |-> 0, max |-> 2], [window |-> 14, max |-> 2], [window |-> 10, max |-> 3]},
        Frame <- 1, Wrap <- 1, R <- 2, Marker <- 3, HeadroomFloor <- 1, SummaryLens <- {1, 9},
        MaxAttempts <- 2, MaxFaults <- RequestFaults

-----------------------------------------------------------------------------
(* Calls: one step of every kind, and pairs of steps that may share a key.   *)

Plain == [type |-> "llm", form |-> "prompt", system |-> TRUE, model |-> "m", temp |-> "zero",
          format |-> "none", mode |-> "auto", tools |-> {}, context |-> FALSE, parts |-> <<0>>,
          chain |-> <<>>, max |-> 1, cache |-> ""]

Judge(on) == [kind |-> "judge", want |-> 2, target |-> "/text", onError |-> on, models |-> {"m"}]
Free(t) == [kind |-> "free", want |-> {}, target |-> t, onError |-> "fail", models |-> {}]

Chains == {<<>>, <<Free("/text")>>, <<Judge("fail"), Free("/json")>>,
           <<Free("/text"), Judge("skip")>>}

Kinds ==
    {c \in {[Plain EXCEPT !.max = 2, !.format = f, !.mode = m, !.chain = ch, !.type = t,
                          !.context = x, !.form = fo] :
                f \in {"none", "json", "schema"}, m \in {"auto", "repair_only"},
                ch \in Chains, t \in {"llm", "planner"}, x \in BOOLEAN,
                fo \in {"prompt", "messages"}} :
        c.form = "messages" => c.type = "llm" /\ c.context}
    \cup {[Plain EXCEPT !.type = "agent", !.tools = s, !.temp = t] :
              s \in {{}, {"a"}}, t \in {"zero", "one"}}
    \cup {[Plain EXCEPT !.max = 2, !.chain = <<Judge("fail"), Judge(on)>>] : on \in {"fail", "skip"}}
    \cup {[Plain EXCEPT !.model = "x"],
          [Plain EXCEPT !.chain = <<[Judge("fail") EXCEPT !.models = {"x"}]>>],
          [Plain EXCEPT !.max = 3, !.chain = <<Free("/text")>>, !.temp = "one", !.cache = "read_only"]}

Sharing ==
    {c \in {[Plain EXCEPT !.max = 2, !.format = f, !.mode = m, !.chain = ch] :
                f \in {"none", "json"}, m \in {"auto", "repair_only"},
                ch \in {<<Free("/text")>>, <<Judge("fail")>>}} :
        c.format = "none" => c.mode = "auto"}

Call == INSTANCE ModelCall WITH
        Programs <- {<<c>> : c \in Kinds} \cup {<<c, d>> : c, d \in Sharing},
        Answers <- {a \in [native : {"none", "json", "conforming"}, text : {"plain", "conforming"},
                           fenced : BOOLEAN, tools : {{}, {"a"}}] :
                       /\ a.native # "none" => ~a.fenced /\ a.text = "plain"
                       /\ a.tools # {} => a.text = "plain" /\ ~a.fenced},
        Routable <- {"m"}, Scores <- {1, 2}

-----------------------------------------------------------------------------
(* Repair: all short texts over two alphabets, and documents whose strings   *)
(* hold every character the passes look for.                                 *)

Str(x) == <<"q">> \o x \o <<"q">>

Values == {<<"1">>, <<"t">>, Str(<<",", "}">>), Str(<<"\\", "q", "{">>), Str(<<"f">>),
           <<"[", "]">>, <<"[", "1", ",", "1", "]">>}
ObjectKeys == {Str(<<"a">>), Str(<<"a", ":">>), Str(<<"t">>)}

Rep == INSTANCE JsonRepair WITH
        Texts <- SeqOf({"{", "}", ",", ":", "q", "a", "1"}, MaxText)
                 \cup SeqOf({"[", "f", "n", "t", "q", "\\"}, MaxText),
        Documents <- Values
            \cup {<<"{">> \o k \o <<":">> \o v \o <<"}">> : k \in ObjectKeys, v \in Values}
            \cup {<<"[">> \o v \o <<",">> \o w \o <<"]">> : v, w \in Values}
            \cup {<<"{">> \o Str(<<"a">>) \o <<":">> \o v \o <<",">> \o k \o <<":">> \o w \o <<"}">> :
                      k \in ObjectKeys, v \in {Str(<<"]">>), <<"[", "1", "]">>, <<"{", "}">>}, w \in Values}

-----------------------------------------------------------------------------
(* Retries: policies that default each field, and two that do not validate.  *)

Backoff(i, c, m) == [given |-> i > 0, initial |-> i, cap |-> c, multiplier |-> m]
NoBackoff == Backoff(0, 0, 0)
Policy(m, j, r, b) == [max |-> m, jitter |-> j, retryOn |-> r, backoff |-> b]

Ret == INSTANCE Retries WITH
        Authored <- {Policy(0, "", {}, NoBackoff), Policy(1, "none", {}, Backoff(4, 4, 1)),
                     Policy(3, "none", {"timeout"}, Backoff(2, 5, 0)),
                     Policy(4, "none", {}, Backoff(1, 8, 3)),
                     Policy(2, "full", {"transient"}, Backoff(3, 4, 2)),
                     Policy(2, "", {"permanent"}, NoBackoff), Policy(2, "", {}, Backoff(5, 4, 1))},
        Timeouts <- {0, 2}, RetryAfters <- {0, 9}, Durations <- {1, 2},
        Default <- Policy(3, "full", {"transient", "timeout"}, Backoff(1, 6, 2)),
        MaxRetryAttempts <- 4, MaxBackoffInitial <- 4, MaxBackoffCap <- 9, MaxMultiplier <- 3,
        MaxStepTimeout <- 2, Floor <- 1, Ceiling <- 5, JitterPercent <- 20

-----------------------------------------------------------------------------
(* Notifications: a gate parked twice, under three webhook configurations.   *)

Webhook(m, b, c) == [maxAttempts |-> m, backoff |-> b, maxBackoff |-> c]

Ntf == INSTANCE Notifier WITH
        Configs <- {Webhook(0, 0, 0), Webhook(1, 5, 3), Webhook(2, 9, 3)},
        DefaultConfig <- Webhook(3, 2, 3), Approvals <- {1, 2}, Statuses <- {0, 204, 401, 429},
        MaxClock <- NotifyClock

-----------------------------------------------------------------------------
(* Prices.                                                                   *)

Model(n, f, i, o, w) == [name |-> n, from |-> f, in |-> i, out |-> o, window |-> w]
Tool(n, f, c) == [name |-> n, from |-> f, perCall |-> c]
Doc(m, t, f) == [models |-> m, tools |-> t, fallback |-> f]
PM == <<"p", "m">>
PX == <<"p", "*">>
QM == <<"q", "m">>
TX == <<"tool", "x">>

\* Overrides of every kind, the ill-formed ones included.
ModelLists ==
    {<<>>, <<Model(PM, 1, 1, 3, 0), Model(PM, 2, 2, 8, 3)>>,
     <<Model(PM, 2, 2, 8, 3), Model(PM, 1, 1, 3, 0)>>, <<Model(QM, 2, 7, 1, 0)>>,
     <<Model(QM, 2, 7, 1, 0), Model(QM, 2, 8, 1, 0)>>, <<Model(TX, 1, 1, 1, 0)>>,
     <<Model(PM, 0, 1, 1, 0)>>, <<Model(PM, 1, -1, 1, 0)>>, <<Model(PX, 2, 9, 9, 6)>>}

Prc == INSTANCE Pricing WITH
        Defaults <- Doc(<<Model(PM, 1, 3, 7, 0), Model(PM, 3, 4, 9, 8), Model(PX, 1, 2, 2, 7)>>,
                        <<Tool(TX, 2, 4)>>, <<[in |-> 5, out |-> 6]>>),
        Overrides <- {Doc(m, t, f) : m \in ModelLists,
                         t \in {<<>>, <<Tool(TX, 3, 9), Tool(TX, 1, 2)>>, <<Tool(PM, 1, 1)>>},
                         f \in {<<>>, <<[in |-> 1, out |-> 8]>>}},
        Calls <- {[name |-> n, in |-> 4, max |-> 3, tokensIn |-> i, tokensOut |-> o] :
                     n \in {PM, <<"p", "z">>, QM, TX}, i \in {2, 4}, o \in {0, 3}},
        Mega <- 10, MaxRows <- 1

-----------------------------------------------------------------------------
RequestsInit ==
    /\ IF part = "context" THEN Ctx!Init ELSE asm = <<>>
    /\ IF part = "call" THEN Call!Init ELSE mc = <<>>
    /\ IF part = "repair" THEN Rep!Init ELSE rp = <<>>
    /\ IF part = "retry" THEN Ret!Init ELSE rt = <<>>
    /\ IF part = "notify" THEN Ntf!Init ELSE nt = <<>>
    /\ IF part = "price" THEN Prc!Init ELSE pr = <<>>

ContextNext == part = "context" /\ Ctx!Next /\ UNCHANGED <<mc, rp, rt, nt, pr>>

CallNext == part = "call" /\ Call!Next /\ UNCHANGED <<asm, rp, rt, nt, pr>>

RepairNext == part = "repair" /\ Rep!Next /\ UNCHANGED <<asm, mc, rt, nt, pr>>

RetryNext == part = "retry" /\ Ret!Next /\ UNCHANGED <<asm, mc, rp, nt, pr>>

NotifyNext == part = "notify" /\ Ntf!Next /\ UNCHANGED <<asm, mc, rp, rt, pr>>

PriceNext == part = "price" /\ Prc!Next /\ UNCHANGED <<asm, mc, rp, rt, nt>>

RequestsNext == ContextNext \/ CallNext \/ RepairNext \/ RetryNext \/ NotifyNext \/ PriceNext

-----------------------------------------------------------------------------
\* What is sent fits the window and leaves room for the answer, a truncation keeps
\* as much as fits, pins survive whole, order is kept, a request is over budget only
\* when nothing was left to give, and the recorded decision is the request's.
ContextFits ==
    part = "context" =>
        /\ Ctx!SentFits /\ Ctx!BudgetWithinWindow /\ Ctx!TruncationIsTight
        /\ Ctx!PinnedWhole /\ Ctx!MessageOrderKept
        /\ Ctx!OverBudgetIsJustified /\ Ctx!EventMatchesRequest

\* A cache key determines request and output, a declared format holds of every
\* success, judges grade what the free checks passed, a semantic retry has the
\* latest critique and agents stay within their toolset.
CallsAgree ==
    part = "call" =>
        /\ Call!KeyDeterminesOutput /\ Call!SucceedsWithItsFormat /\ Call!JudgesOnlyGradePassing
        /\ Call!CritiqueIsCurrent /\ Call!ToolsWithinRole

\* The first pass that helps is the last one applied, string literals are never
\* rewritten, and the damaged document is the one recovered.
RepairIsFaithful ==
    part = "repair" => Rep!RepairIsMinimal /\ Rep!StringsKept /\ Rep!Recovers

\* The retry budget is the policy's, only the engine's clock makes a timeout, a
\* result that came is kept, backoff grows to its cap, and a throttled step waits
\* for its tokens.
RetriesFollowPolicy ==
    part = "retry" =>
        /\ Ret!BudgetExact /\ Ret!TimeoutsAreTheEngines /\ Ret!DoneIsDone
        /\ Ret!BackoffBounded /\ Ret!NeverWakesEarly

\* The audit trail of a notification is true, all POSTs for an approval are the
\* same, none follows a settling answer, and waits double up to the cap.
NotificationsTrue ==
    part = "notify" =>
        Ntf!EventsAreTrue /\ Ntf!OneDistinctDelivery /\ Ntf!StopsWhenSettled /\ Ntf!WaitsDoubleToTheCap

\* Rows carry the rate in force, every call made has a price, fail-closed refuses
\* exactly the unpriced, estimates bound costs, and requests fit the model's or its
\* family's window.
PricesHold ==
    part = "price" =>
        /\ Prc!PricedAsOfTheDay /\ Prc!NeverUnpriceable /\ Prc!FailsClosed
        /\ Prc!EstimateBounds /\ Prc!WithinTheWindow

\* A summary in use and a billed judge call are on the ledger, but for the judges
\* of a stored output that is not served and those before a judge that errs.
SpendMetered ==
    /\ part = "context" => Ctx!SummariesMetered
    /\ part = "call" => Call!JudgeSpendMetered
=============================================================================
