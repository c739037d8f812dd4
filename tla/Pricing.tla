------------------------------- MODULE Pricing -------------------------------
(***************************************************************************)
(* The pricing catalog: the embedded defaults and an operator's override   *)
(* are parsed and merged when a worker boots; every model call is          *)
(* estimated before it is made and ledgered after, each time at the price  *)
(* in force on that day; tools have a flat price or none.                  *)
(*                                                                         *)
(* A resource name is <<namespace, rest>>: <<"p", "m">> is p:m, <<"p", "*">> *)
(* the provider's wildcard, <<"tool", "x">> a tool.  Rates are whole       *)
(* numbers per Mega tokens.                                                *)
(***************************************************************************)
EXTENDS Integers, Sequences, FiniteSets, SequencesExt, FiniteSetsExt

CONSTANTS
    Defaults,       \* the embedded document
    Overrides,      \* the documents an operator may supply
    Calls,          \* [name, in, max, tokensIn, tokensOut]
    Mega,           \* tokens a rate is quoted against
    MaxDay, MaxRows \* bounds

VARIABLE pr

None == "none"
NoDate == 0

-----------------------------------------------------------------------------
(* Documents: [models, tools, fallback], the first two sequences of        *)
(* entries, fallback a sequence of at most one rate.                       *)

ValidRate(r) == r.in >= 0 /\ r.out >= 0

\* validateResourceName and the split of the two namespaces.
ValidModelName(n) == n[1] # "" /\ n[2] # "" /\ n[1] # "tool"
ValidToolName(n) == n[1] = "tool" /\ n[2] # ""

NoDuplicates(es) == \A i, j \in DOMAIN es : es[i].name = es[j].name /\ es[i].from = es[j].from => i = j

\* Parse's checks, over all its errors.
Parses(doc) ==
    /\ \A i \in DOMAIN doc.models :
          LET e == doc.models[i]
          IN  ValidModelName(e.name) /\ e.from # NoDate /\ e.window >= 0 /\ ValidRate(e)
    /\ \A i \in DOMAIN doc.tools :
          LET e == doc.tools[i] IN ValidToolName(e.name) /\ e.from # NoDate /\ e.perCall >= 0
    /\ NoDuplicates(doc.models) /\ NoDuplicates(doc.tools)
    /\ \A i \in DOMAIN doc.fallback : ValidRate(doc.fallback[i])

\* sortEntries: the newest price first.
SortEntries(es) == SortSeq(es, LAMBDA a, b : a.from > b.from)

\* A list per name, as Parse collects them.
ByName(es) ==
    [n \in {es[i].name : i \in DOMAIN es} |-> SortEntries(SelectSeq(es, LAMBDA e : e.name = n))]

Catalog(doc) == [models |-> ByName(doc.models), tools |-> ByName(doc.tools), fallback |-> doc.fallback]

\* Merge: a name the override lists has the override's entries only.
Merge(base, over) ==
    [models |-> over.models @@ base.models, tools |-> over.tools @@ base.tools,
     fallback |-> IF over.fallback = <<>> THEN base.fallback ELSE over.fallback]

-----------------------------------------------------------------------------
(* Prices.                                                                 *)

\* selectModel and selectTool: the first entry not after the day, as a
\* sequence of at most one.
Select(lists, name, day) ==
    IF name \notin DOMAIN lists THEN <<>>
    ELSE LET es == SelectSeq(lists[name], LAMBDA e : e.from <= day)
         IN  SubSeq(es, 1, Min({1, Len(es)}))

\* Lookup: the name's own entry, else its provider's wildcard.
Lookup(cat, name, day) ==
    LET exact == Select(cat.models, name, day)
    IN  IF exact # <<>> THEN exact ELSE Select(cat.models, <<name[1], "*">>, day)

\* ContextWindow, by the same order; an entry without a window is passed over.
ContextWindow(cat, name, day) ==
    LET Windowed(es) == SelectSeq(es, LAMBDA e : e.window > 0)
        exact == Windowed(Select(cat.models, name, day))
        family == Windowed(Select(cat.models, <<name[1], "*">>, day))
    IN  IF exact # <<>> THEN exact[1].window ELSE IF family # <<>> THEN family[1].window ELSE 0

\* PriceModel, as a sequence of at most one rate.
PriceModel(cat, name, day, policy) ==
    LET found == Lookup(cat, name, day)
    IN  IF found # <<>> THEN <<[in |-> found[1].in, out |-> found[1].out]>>
        ELSE IF policy = "fail" THEN <<>> ELSE cat.fallback

\* component: one direction, rounded half up.
Component(tokens, rate) ==
    IF tokens <= 0 \/ rate <= 0 THEN 0 ELSE (tokens * rate + Mega \div 2) \div Mega

Cost(in, out, rate) == Component(in, rate.in) + Component(out, rate.out)

Estimate(in, max, rate) == Cost(in, max, rate)

\* ToolPrice: an unlisted tool is free.
ToolPrice(cat, name, day) ==
    LET e == Select(cat.tools, name, day) IN IF e = <<>> THEN 0 ELSE e[1].perCall

IsTool(name) == name[1] = "tool"

-----------------------------------------------------------------------------
(* A worker.                                                               *)

Init ==
    \E over \in Overrides, policy \in {"estimate", "fail"} :
        pr = [status |-> "boot", over |-> over, policy |-> policy,
              cat |-> Catalog(Defaults), day |-> 1, call |-> None, estimate |-> 0,
              quoted |-> 0, rows |-> <<>>, refused |-> {}, unledgered |-> {}, oversize |-> {}]

\* Load: a document that does not parse is a boot error.
Load ==
    /\ pr.status = "boot"
    /\ pr' = IF Parses(pr.over)
             THEN [pr EXCEPT !.status = "idle", !.cat = Merge(@, Catalog(pr.over))]
             ELSE [pr EXCEPT !.status = "down"]

\* guardWindow: a request larger than a known window is not sent.
Oversize(c) ==
    LET window == ContextWindow(pr.cat, c.name, pr.day)
    IN  ~IsTool(c.name) /\ window > 0 /\ c.in + c.max > window

\* estimateNanoUSD before a call; under fail-closed an unpriced model is
\* refused for good.
Preflight(c) ==
    /\ pr.status = "idle" /\ Len(pr.rows) < MaxRows /\ ~Oversize(c)
    /\ LET rate == PriceModel(pr.cat, c.name, pr.day, pr.policy)
       IN  IF IsTool(c.name)
           THEN pr' = [pr EXCEPT !.status = "calling", !.call = c, !.quoted = pr.day,
                                 !.estimate = ToolPrice(pr.cat, c.name, pr.day)]
           ELSE IF rate = <<>>
           THEN pr' = [pr EXCEPT !.refused = @ \cup {<<c.name, pr.day>>}]
           ELSE pr' = [pr EXCEPT !.status = "calling", !.call = c, !.quoted = pr.day,
                                 !.estimate = Estimate(c.in, c.max, rate[1])]

\* The attempt fails for good on its window, and costs nothing.
Guarded(c) ==
    /\ pr.status = "idle" /\ Oversize(c)
    /\ pr' = [pr EXCEPT !.oversize = @ \cup {c.name}]

Row(amount, rate) ==
    [name |-> pr.call.name, day |-> pr.day, quoted |-> pr.quoted, amount |-> amount, rate |-> rate,
     estimate |-> pr.estimate, asked |-> pr.call.in + pr.call.max, in |-> pr.call.tokensIn, out |-> pr.call.tokensOut]

Ledgered(row) == [pr EXCEPT !.status = "idle", !.call = None, !.rows = @ \o row]

\* priceAttempt after the call, always under the estimate policy: a model
\* call is never refused once made, a free tool has no row.
Ledger ==
    /\ pr.status = "calling"
    /\ LET c == pr.call
           rate == PriceModel(pr.cat, c.name, pr.day, "estimate")
           flat == ToolPrice(pr.cat, c.name, pr.day)
       IN  IF IsTool(c.name)
           THEN pr' = Ledgered(IF flat = 0 THEN <<>> ELSE <<Row(flat, [in |-> 0, out |-> 0])>>)
           ELSE IF rate = <<>>
           THEN pr' = [Ledgered(<<>>) EXCEPT !.unledgered = @ \cup {c.name}]
           ELSE pr' = Ledgered(<<Row(Cost(c.tokensIn, c.tokensOut, rate[1]), rate[1])>>)

Midnight == pr.day < MaxDay /\ pr.status # "boot" /\ pr' = [pr EXCEPT !.day = @ + 1]

Next == Load \/ (\E c \in Calls : Preflight(c) \/ Guarded(c)) \/ Ledger \/ Midnight

-----------------------------------------------------------------------------
\* The documents' own word on a price: the entries of the name, or else of
\* its wildcard, in the override if it lists that name and else in the
\* defaults, with the latest date that is not after the day.
Source(name) ==
    LET Of(doc) == {doc.models[i] : i \in {k \in DOMAIN doc.models : doc.models[k].name = name}}
    IN  IF Of(pr.over) # {} THEN Of(pr.over) ELSE Of(Defaults)

InForce(name, day) ==
    LET past == {e \in Source(name) : e.from <= day}
    IN  {e \in past : \A f \in past : f.from <= e.from}

Quoted(name, day) ==
    IF InForce(name, day) # {} THEN InForce(name, day) ELSE InForce(<<name[1], "*">>, day)

Models == {i \in DOMAIN pr.rows : ~IsTool(pr.rows[i].name)}

\* A row is priced at the rate in force the day it is written, whatever the
\* order the documents list their entries in (sortEntries, Merge, Lookup).
PricedAsOfTheDay ==
    \A i \in Models :
        LET row == pr.rows[i]
        IN  \A e \in Quoted(row.name, row.day) : row.rate = [in |-> e.in, out |-> e.out]

\* A call that was made is never without a price: the runtime catalog keeps a
\* fallback through every merge (Merge, priceAttempt).
NeverUnpriceable == pr.unledgered = {}

\* Under fail-closed no call is made to a model the catalog does not price
\* that day, and no call the catalog does price is refused (PriceModel).
FailsClosed ==
    /\ pr.policy = "fail" => \A i \in Models : Quoted(pr.rows[i].name, pr.rows[i].quoted) # {}
    /\ \A r \in pr.refused : Quoted(r[1], r[2]) = {} /\ pr.policy = "fail"

\* "This never under-estimates": a call that used no more tokens than it was
\* estimated for, priced on the same day, costs no more than its estimate
\* (Estimate).
EstimateBounds ==
    \A i \in DOMAIN pr.rows :
        LET row == pr.rows[i]
        IN  row.day = row.quoted /\ (\E c \in Calls : c.name = row.name /\ c.in >= row.in /\ c.max >= row.out
                                       /\ c.tokensIn = row.in /\ c.tokensOut = row.out)
            => row.amount <= row.estimate

\* No request larger than the model's window is sent, and a model that sets
\* none has its family's (ContextWindow, guardWindow).
WithinTheWindow ==
    \A i \in Models :
        LET row == pr.rows[i]
            Windows(n) == {e.window : e \in {f \in InForce(n, row.quoted) : f.window > 0}}
            own == Windows(row.name)
        IN  \A w \in IF own # {} THEN own ELSE Windows(<<row.name[1], "*">>) : row.asked <= w
==============================================================================
