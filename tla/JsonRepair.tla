----------------------------- MODULE JsonRepair -----------------------------
(***************************************************************************)
(* jsonrepair.Repair: the deterministic passes that turn a model's text    *)
(* into JSON before the validation chain sees it.  A text is a sequence of *)
(* characters: the punctuation of JSON, Quote, a letter "a", the literal   *)
(* "t" (true: a letter and a value), a digit "1", Space, Newline, the code *)
(* fence as one character, and "." for anything else.                      *)
(***************************************************************************)
EXTENDS Integers, Sequences, FiniteSets, SequencesExt, FiniteSetsExt

CONSTANTS
    Texts,      \* arbitrary texts
    Documents   \* valid, compact JSON documents, to be damaged

VARIABLE rp

Quote == "q"
Space == "_"
Newline == "n"
Fence == "f"
Blank == {Space, Newline}
IdentStart == {"a", "t"}
IdentPart == IdentStart \cup {"1"}

-----------------------------------------------------------------------------
(* Positions.                                                              *)

First(S) == IF S = {} THEN 0 ELSE Min(S)

\* The position of the first character after i that is not blank, or 0.
NextAt(s, i) == First({j \in (i + 1)..Len(s) : s[j] \notin Blank})

\* The position of the last character before i that is not blank, or 0.
PrevAt(s, i) == Max({0} \cup {j \in 1..(i - 1) : s[j] \notin Blank})

\* strings.TrimSpace.
Trim(s) ==
    LET solid == {i \in DOMAIN s : s[i] \notin Blank}
    IN  IF solid = {} THEN <<>> ELSE SubSeq(s, Min(solid), Max(solid))

\* The string state every pass tracks, before each character.
Track(m, c) ==
    CASE m = "out" -> IF c = Quote THEN "str" ELSE "out"
      [] m = "esc" -> "str"
      [] OTHER -> IF c = "\\" THEN "esc" ELSE IF c = Quote THEN "out" ELSE "str"

Modes(s) == FoldLeft(LAMBDA ms, c : Append(ms, Track(Last(ms), c)), <<"out">>, s)

-----------------------------------------------------------------------------
(* encoding/json: the tokens of a text and the grammar of a value.         *)

\* Tokens are sequences of characters: a string literal, a run of word
\* characters, or one character of punctuation.
Extends(toks, m, prev, c) ==
    /\ toks # <<>>
    /\ \/ m # "out"
       \/ c \in IdentPart /\ prev \in IdentPart

Lex(s) ==
    LET ms == Modes(s)
        Add(toks, i) ==
            IF ms[i] = "out" /\ s[i] \in Blank THEN toks
            ELSE IF Extends(toks, ms[i], IF i = 1 THEN "." ELSE s[i - 1], s[i])
                 THEN [toks EXCEPT ![Len(toks)] = Append(@, s[i])]
                 ELSE Append(toks, <<s[i]>>)
    IN  FoldLeft(Add, <<>>, [i \in DOMAIN s |-> i])

IsString(t) == t[1] = Quote
IsScalar(t) == IsString(t) \/ t = <<"t">> \/ ToSet(t) = {"1"}

RECURSIVE Value(_, _), Items(_, _, _)

\* The position after the value that starts at i, 0 when none does.
Value(t, i) ==
    IF i > Len(t) THEN 0
    ELSE IF IsScalar(t[i]) THEN i + 1
    ELSE IF t[i] \notin {<<"{">>, <<"[">>} THEN 0
    ELSE LET close == IF t[i] = <<"{">> THEN <<"}">> ELSE <<"]">>
         IN  IF i < Len(t) /\ t[i + 1] = close THEN i + 2 ELSE Items(t, i + 1, close)

\* The position after the members of an object or array, closed by close.
Items(t, i, close) ==
    LET at == IF close = <<"]">> THEN i
              ELSE IF i + 1 <= Len(t) /\ IsString(t[i]) /\ t[i + 1] = <<":">> THEN i + 2
              ELSE Len(t) + 1
        after == Value(t, at)
    IN  IF after = 0 \/ after > Len(t) THEN 0
        ELSE IF t[after] = close THEN after + 1
        ELSE IF t[after] = <<",">> THEN Items(t, after + 1, close)
        ELSE 0

\* json.Valid.
Valid(s) ==
    LET t == Lex(s) IN Last(Modes(s)) = "out" /\ t # <<>> /\ Value(t, 1) = Len(t) + 1

\* compactValid's value: the text without insignificant blanks.
Compacted(s) == FlattenSeq(Lex(s))

-----------------------------------------------------------------------------
(* The passes.                                                             *)

StripCodeFence(s) ==
    LET t == Trim(s)
        nl == First({i \in DOMAIN t : t[i] = Newline})
        body == SubSeq(t, nl + 1, Len(t))
        fences == {i \in DOMAIN body : body[i] = Fence}
    IN  IF t = <<>> \/ nl = 0 THEN s
        ELSE IF t[1] # Fence THEN s
        ELSE Trim(IF fences = {} THEN body ELSE SubSeq(body, 1, Max(fences) - 1))

\* extractFirstJSON: from the first bracket to the one that balances it; only
\* brackets of its own kind count, and none inside a string.
ExtractFirstJSON(s) ==
    LET start == First({i \in DOMAIN s : s[i] \in {"{", "["}})
        sub == SubSeq(s, start, Len(s))
        ms == Modes(sub)
        close == IF sub[1] = "{" THEN "}" ELSE "]"
        Depth(j) == Cardinality({k \in 1..j : ms[k] = "out" /\ sub[k] = sub[1]})
                    - Cardinality({k \in 1..j : ms[k] = "out" /\ sub[k] = close})
        stop == First({j \in DOMAIN sub : ms[j] = "out" /\ sub[j] = close /\ Depth(j) = 0})
    IN  IF start = 0 THEN s ELSE IF stop = 0 THEN s ELSE SubSeq(sub, 1, stop)

Closes(s, i) == LET n == NextAt(s, i) IN n # 0 /\ s[IF n = 0 THEN i ELSE n] \in {"}", "]"}

KeepAt(s, keep) == FlattenSeq([i \in DOMAIN s |-> IF i \in keep THEN <<s[i]>> ELSE <<>>])

RemoveTrailingCommas(s) ==
    LET ms == Modes(s)
    IN  KeepAt(s, {i \in DOMAIN s : ~(ms[i] = "out" /\ s[i] = "," /\ Closes(s, i))})

\* The bare keys of s as pairs of first and last position: an identifier that
\* follows { or , and precedes a colon.
BareKeys(s) ==
    LET ms == Modes(s)
        Opens(i) == LET p == PrevAt(s, i) IN p # 0 /\ s[IF p = 0 THEN i ELSE p] \in {"{", ","}
        End(i) == Max({j \in i..Len(s) : \A k \in i..j : s[k] \in IdentPart})
        Keyed(j) == LET n == NextAt(s, j) IN n # 0 /\ s[IF n = 0 THEN j ELSE n] = ":"
    IN  {<<i, End(i)>> : i \in {i \in DOMAIN s : /\ ms[i] = "out" /\ s[i] \in IdentStart
                                                /\ Opens(i) /\ Keyed(End(i))}}

QuoteBareKeys(s) ==
    LET keys == BareKeys(s)
        At(i) == (IF \E k \in keys : k[1] = i THEN <<Quote>> ELSE <<>>) \o <<s[i]>>
                 \o (IF \E k \in keys : k[2] = i THEN <<Quote>> ELSE <<>>)
    IN  FlattenSeq([i \in DOMAIN s |-> At(i)])

Passes == <<"strip_code_fence", "extract_first_json", "trailing_commas", "unquoted_keys">>

RunPass(name, s) ==
    CASE name = "strip_code_fence" -> StripCodeFence(s)
      [] name = "extract_first_json" -> ExtractFirstJSON(s)
      [] name = "trailing_commas" -> RemoveTrailingCommas(s)
      [] OTHER -> QuoteBareKeys(s)

-----------------------------------------------------------------------------
(* What models do to a document.                                           *)

Structural(s, C) == LET ms == Modes(s) IN {i \in DOMAIN s : ms[i] = "out" /\ s[i] \in C}

PutBefore(s, at, x) ==
    FlattenSeq([i \in DOMAIN s |-> IF i \in at THEN Append(x, s[i]) ELSE <<s[i]>>])

\* A comma before every closing bracket that follows a value.
TrailingCommas(d) ==
    PutBefore(d, {i \in Structural(d, {"}", "]"}) : d[i - 1] \notin {"{", "["}}, <<",", Space>>)

\* The quotes taken from every key that is an identifier.
Unquoted(d) ==
    LET ms == Modes(d)
        quotes == {i \in DOMAIN d : d[i] = Quote /\ ms[i] = "out" /\ d[i - 1] \in {"{", ","}}
        End(i) == i + First({n \in 1..(Len(d) - i) : d[i + n] = Quote})
        Ident(i) == /\ End(i) > i + 1 /\ d[i + 1] \in IdentStart
                    /\ \A k \in (i + 1)..(End(i) - 1) : d[k] \in IdentPart
        keys == {i \in quotes : Ident(i) /\ End(i) < Len(d) /\ d[IF End(i) < Len(d) THEN End(i) + 1 ELSE i] = ":"}
    IN  KeepAt(d, DOMAIN d \ (keys \cup {End(i) : i \in keys}))

Brackets(d) == d[1] \in {"{", "["}

\* Every combination of the mistakes; prose surrounds objects and arrays only.
Damaged(d) ==
    LET bodies == {d} \cup (IF Brackets(d) THEN {TrailingCommas(d), Unquoted(d), TrailingCommas(Unquoted(d))} ELSE {})
        fenced == {<<Fence, "a", Newline>> \o b \o <<Newline, Fence>> : b \in bodies}
    IN  bodies \cup fenced
        \cup (IF Brackets(d) THEN {<<"a", ":", Space>> \o b \o <<".">> : b \in bodies \cup fenced} ELSE {})

-----------------------------------------------------------------------------
(* Repair.                                                                 *)

Begun(text, doc) ==
    [text |-> text, doc |-> doc, work |-> text, steps |-> <<>>, pass |-> 0,
     status |-> "working", value |-> <<>>]

Init ==
    \/ \E t \in Texts : rp = Begun(t, <<>>)
    \/ \E d \in Documents : \E t \in Damaged(d) : rp = Begun(t, d)

\* The fast path: text that already parses is only compacted.
FastPath ==
    /\ rp.status = "working" /\ rp.pass = 0
    /\ rp' = IF Valid(rp.text)
             THEN [rp EXCEPT !.status = "raw", !.value = Compacted(rp.text)]
             ELSE [rp EXCEPT !.pass = 1]

\* One pass: recorded when it changed the text, and the last one when the
\* text then parses.
ApplyPass ==
    /\ rp.status = "working" /\ rp.pass \in DOMAIN Passes
    /\ LET next == RunPass(Passes[rp.pass], rp.work)
           changed == next # rp.work
           done == changed /\ Valid(next)
       IN  rp' = [rp EXCEPT !.pass = @ + 1, !.work = next,
                            !.steps = IF changed THEN Append(@, Passes[rp.pass]) ELSE @,
                            !.status = IF done THEN "repaired" ELSE @,
                            !.value = IF done THEN Compacted(next) ELSE @]

GiveUp ==
    /\ rp.status = "working" /\ rp.pass > Len(Passes)
    /\ rp' = [rp EXCEPT !.status = "unrepairable"]

Next == FastPath \/ ApplyPass \/ GiveUp

-----------------------------------------------------------------------------
\* The mistakes the package names (code fences, prose around the JSON,
\* trailing commas, bare keys), in any combination, are repaired to the
\* document the model meant, whatever its strings contain (Repair).
Recovers ==
    rp.doc # <<>> /\ rp.status # "working" => rp.value = rp.doc

\* "String contents are never rewritten": every string literal of the value
\* stands in the text as it is, or is a bare identifier that was quoted.
StringsKept ==
    LET Within(x) == \E i \in 0..(Len(rp.text) - Len(x)) : SubSeq(rp.text, i + 1, i + Len(x)) = x
        Inner(x) == SubSeq(x, 2, Len(x) - 1)
        strings == {t \in ToSet(Lex(rp.value)) : IsString(t)}
    IN  \A t \in strings :
            \/ Within(t)
            \/ Within(Inner(t)) /\ ToSet(Inner(t)) \subseteq IdentPart

\* A repair is minimal: the recorded passes are the shortest prefix of the
\* sequence of passes that makes the text parse, without the ones that had
\* nothing to change (the short-circuit of Repair's loop).
RepairIsMinimal ==
    LET R[k \in 0..Len(Passes)] == IF k = 0 THEN rp.text ELSE RunPass(Passes[k], R[k - 1])
        helps == {k \in 0..Len(Passes) : Valid(R[k])}
    IN  rp.status = "repaired" =>
          /\ helps # {}
          /\ rp.value = Compacted(R[Min(helps)])
          /\ rp.steps = SelectSeq(Passes, LAMBDA p : \E k \in 1..Min(helps) : Passes[k] = p /\ R[k] # R[k - 1])
=============================================================================
