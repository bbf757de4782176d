---- MODULE MCScanner ----
(***************************************************************************)
(* Three families of calls.  Rules given by what they match, three over a  *)
(* text of four runes: the first matches anything one or two times, the    *)
(* second once, the third has capture groups, a minimum length, a keyword  *)
(* or a defect.  Rules given by a pattern and keywords, compiled by the    *)
(* registry, over a text they match.  Rules with a check digit validator,  *)
(* over a number.                                                          *)
(***************************************************************************)
EXTENDS Scanner, Registry

CONSTANT MaxWord   \* longest match of a pattern

Plain(s, e) == [start |-> s, end |-> e, groups |-> <<>>]

\* Every regex that matches up to twice, empty matches included.
Raws == {R \in {{Plain(a[1], a[2]), Plain(b[1], b[2])} :
                  a, b \in {x \in (0..4) \X (0..4) : x[1] <= x[2]}} :
           \A m, n \in R : m.start = n.start => m = n}

Once == {{}} \cup {{Plain(s, e)} : s \in {0, 1, 2}, e \in {2, 3, 4}}

Rule(n, R) ==
  [id |-> n, broken |-> "no", eligible |-> FALSE, hit |-> FALSE, raw |-> R,
   capture_groups |-> <<>>, min_length |-> 0, rejected |-> {}]

Span(s, e) == [start |-> s, end |-> e]

\* The first group configured takes no part, the second is empty, the third
\* is taken; with a minimum length one of two matches is left out.
Capturing ==
  [Rule(3, {[start |-> 0, end |-> 3,
             groups |-> [g \in {1, 4} |-> IF g = 1 THEN Span(1, 1) ELSE Span(1, 3)]],
            [start |-> 3, end |-> 4, groups |-> [g \in {4} |-> Span(3, 4)]]})
     EXCEPT !.capture_groups = <<2, 1, 4>>, !.min_length = 2]

Validated == [Rule(3, {Plain(0, 2), Plain(2, 4)})
                EXCEPT !.rejected = {Span(0, 2)}, !.eligible = TRUE, !.hit = TRUE]

Absent  == [Rule(3, {}) EXCEPT !.eligible = TRUE]
NullPtr == [Rule(3, {}) EXCEPT !.broken = "null", !.eligible = TRUE]
NullRe  == [Rule(3, {}) EXCEPT !.broken = "regex", !.eligible = TRUE]

Thirds == {Capturing, Validated, Absent, NullPtr, NullRe}

Call(n, rs, filter, workers, hw) ==
  [size |-> n, rules |-> rs, prefilter_enabled |-> filter,
   max_workers |-> workers, hardware_concurrency |-> hw, sample |-> "none"]

\* Without threads to spare, with two workers, and with one for each rule.
MatchCalls ==
  {Call(4, <<Rule(1, R), Rule(2, S), t>>, f, w[1], w[2]) :
     R \in Raws, S \in Once, t \in Thirds, f \in BOOLEAN,
     w \in {<<2, 1>>}}
  \cup {Call(4, <<t, Rule(1, R), Rule(2, S)>>, TRUE, w[1], w[2]) :
     R \in Once, S \in Once, t \in Thirds, w \in {<<0, 0>>, <<0, 8>>, <<8, 1>>}}
  \cup {Call(n, rs, f, 0, 2) : n \in {0, 4}, f \in BOOLEAN,
          rs \in {<<>>, <<Absent>>, <<NullRe>>, <<Rule(1, {Plain(0, 0)})>>}}
-----------------------------------------------------------------------------
(* Regular expressions: the pattern, and the words it matches, as written  *)
(* and under (?i).  Words longer than MaxWord are left out.                *)

Alphabet == {"k", "K", "KELVIN", "s", "LONG_S", "2"}
Orbit(c) == CASE c \in {"k", "K", "KELVIN"} -> {"k", "K", "KELVIN"}
              [] c \in {"s", "LONG_S"} -> {"s", "LONG_S"}
              [] OTHER -> {c}

Regex(pattern, words, folded) == [pattern |-> pattern, words |-> words, folded |-> folded]
One(pattern, C)               == Regex(pattern, {<<c>> : c \in C}, {<<c>> : c \in UNION {Orbit(d) : d \in C}})

Atoms == {One(<<"k">>, {"k"}), One(<<"K">>, {"K"}), One(<<"s">>, {"s"}), One(<<"2">>, {"2"}),
          One(<<"KELVIN">>, {"KELVIN"}), One(<<"LONG_S">>, {"LONG_S"}),
          One(<<".">>, Alphabet), One(<<"\\", "d">>, {"2"}), One(<<"\\", "p", "N">>, {"2"}),
          One(<<"\\", "p", "{", "N", "}">>, {"2"}), One(<<"\\", "P", "N">>, Alphabet \ {"2"}),
          One(<<"\\", "x", "6", "b">>, {"k"}), One(<<"\\", "x", "{", "6", "b", "}">>, {"k"}),
          One(<<"\\", "0", "6", "2">>, {"2"}), One(<<"\\", "Q", "k", "\\", "E">>, {"k"})}

Classes == {One(<<"[", "k", "s", "]">>, {"k", "s"}), One(<<"[", "k", "-", "s", "]">>, {"k", "s"}),
            Regex(<<"[", "^", "k", "]">>, {<<c>> : c \in Alphabet \ {"k"}},
                  {<<c>> : c \in Alphabet \ Orbit("k")}),
            One(<<"[", "k", "-", "]">>, {"k"}), One(<<"[", "\\", "d", "k", "]">>, {"2", "k"}),
            One(<<"[", "]", "k", "]">>, {"k"}), One(<<"[", "\\", "]", "k", "s", "]">>, {"k", "s"})}

Short(W)       == {w \in W : Len(w) <= MaxWord}
Product(V, W)  == Short({v \o w : v \in V, w \in W})
Powers(W, n)   == IF n = 0 THEN {<<>>} ELSE IF n = 1 THEN W ELSE Product(W, W)

Sequel(a, b) == Regex(a.pattern \o b.pattern, Product(a.words, b.words), Product(a.folded, b.folded))
Either(a, b) == Regex(a.pattern \o <<"|">> \o b.pattern, a.words \cup b.words, a.folded \cup b.folded)
Times(a, q)  == Regex(a.pattern \o q.pattern, UNION {Powers(a.words, n) : n \in q.counts},
                                              UNION {Powers(a.folded, n) : n \in q.counts})

\* Repetitions; more than two are left out.
Quantifiers == {[pattern |-> p, counts |-> {0, 1, 2}] : p \in {<<"*">>, <<"{", "0", ",", "}">>}}
          \cup {[pattern |-> p, counts |-> {1, 2}] : p \in {<<"+">>, <<"+", "?">>, <<"{", "1", ",", "}">>}}
          \cup {[pattern |-> <<"?">>, counts |-> {0, 1}], [pattern |-> <<"{", "2", "}">>, counts |-> {2}],
                [pattern |-> <<"{", "0", "}">>, counts |-> {0}]}

Wrap(open, a) == [a EXCEPT !.pattern = open \o @ \o <<")">>]
Fold(a)       == [a EXCEPT !.words = a.folded]
Keep(a)       == [a EXCEPT !.folded = a.words]

Wraps(a) == {Wrap(<<"(">>, a), Wrap(<<"(", "?", "P", "<", "n", ">">>, a), Wrap(<<"(", "?", ":">>, a),
             Wrap(<<"(", "?", "i", ":">>, Fold(a)), Wrap(<<"(", "?", "-", "i", ":">>, Keep(a)),
             Wrap(<<"(", "(", "(">>, [a EXCEPT !.pattern = @ \o <<")", ")">>])}

\* (?i) holds to the end of the group it is in.
Flagged(a) == [Fold(a) EXCEPT !.pattern = <<"(", "?", "i", ")">> \o @]

Single  == Atoms \cup Classes
Letter  == {One(<<"k">>, {"k"}), One(<<"s">>, {"s"}), One(<<"\\", "d">>, {"2"})}
Pieces  == Single \cup {Times(a, q) : a \in Letter, q \in Quantifiers}
Pairs   == {Sequel(a, b) : a \in Pieces, b \in Pieces}
Bodies  == {Sequel(a, b) : a, b \in Letter} \cup {Either(a, b) : a, b \in Letter}
Groups  == UNION {Wraps(a) : a \in Bodies}
Nested  == UNION {Wraps(Either(a, Sequel(b, g))) : a, b \in Letter,
                    g \in Wraps(One(<<"k">>, {"k"})) \cup Wraps(One(<<"s">>, {"s"}))}

Patterns ==
  Pieces \cup Pairs \cup {Either(a, b) : a, b \in Single}
  \cup {Sequel(a, Flagged(Sequel(b, c))) : a, b \in Letter, c \in Pieces}
  \cup {Times(g, q) : g \in Groups, q \in Quantifiers}
  \cup UNION {{Sequel(a, g), Sequel(g, a), Either(a, g)} : a \in Letter, g \in Groups}
  \cup {Sequel(g, a) : a \in Letter, g \in Nested}

KeywordSets == {{<<"k">>}, {<<"K", "s">>, <<"2", "2">>}, {<<"s">>, <<"k", "k">>}}

\* What the registry is given: the rule of a pattern, and one of another data
\* type that matches the digit.
Declared(n, type, pattern, keywords, validators) ==
  [id |-> n, id_ok |-> TRUE, data_type |-> type, validators |-> validators, regex |-> pattern,
   groups |-> 0, capture_groups |-> <<>>, keywords |-> keywords]

Hits(text, keywords) == \E k \in keywords : Includes(to_lower_utf8(text), to_lower_utf8(k))

\* A text that a pattern matches: without any of the keywords when there is
\* such a match.
TextFor(words, keywords) ==
  CHOOSE w \in words : ~Hits(w, keywords) \/ \A v \in words : Hits(v, keywords)

\* The longest match at each start.
Matches(words, text) ==
  UNION {{Plain(s, e) : e \in {Max({e \in {s + Len(w) : w \in words} :
                                       e <= Len(text) /\ SubSeq(text, s + 1, e) \in words} \cup {-1})} \ {-1}}
         : s \in 0..(Len(text) - 1)}

Scannable(cr, text, raw) ==
  [Rule(cr.rule.id, raw) EXCEPT
     !.eligible = cr.prefilter_eligible, !.hit = contains_any_keyword(cr, text),
     !.capture_groups = cr.rule.capture_groups,
     !.rejected = {s \in {Span(m.start, m.end) : m \in raw} :
                     ~passes_validators(SubSeq(text, s.start + 1, s.end), cr.rule.validators, {})}]

PatternCall(regex, keywords, types) ==
  LET words == regex.words \ {<<>>}
      raw(cr, text) == Matches(IF cr.rule.id = 1 THEN words ELSE {<<"2">>}, text)
      calls(text, rules) ==
        [Call(Len(text), [i \in DOMAIN rules |-> Scannable(rules[i], text, raw(rules[i], text))],
              TRUE, 0, 2) EXCEPT !.sample = "pattern"]
  IN  {calls(TextFor(words, keywords), for_data_types(reg, types)) :
         reg \in {build(<<Declared(1, "token", regex.pattern, keywords, <<>>),
                          Declared(2, "number", <<"\\", "d">>, {}, <<>>)>>)}}

PatternCalls ==
  UNION {PatternCall(r, K, <<"token">>) : r \in {r \in Patterns : r.words \ {<<>>} # {}}, K \in KeywordSets}
  \cup UNION {PatternCall(r, K, types) : r \in Pieces \ {r \in Pieces : r.words \subseteq {<<>>}},
                K \in KeywordSets, types \in {<<"number", "token">>, <<"token", "token">>}}
-----------------------------------------------------------------------------
(* Numbers with check digits.                                              *)

Bases(n, lead) == {lead \o [i \in 1..(n - Len(lead)) |-> (a * i + b) % 10] : a \in {0, 3, 7}, b \in {0, 4, 9}}

Numbers ==
  {<<"luhn", Append(p, luhn_check_digit(p))>> : p \in Bases(5, <<>>) \cup Bases(6, <<>>)}
  \cup {<<"payment_card", Append(p, luhn_check_digit(p))>> :
          p \in Bases(12, <<4>>) \cup Bases(14, <<3, 7>>) \cup Bases(15, <<5, 5>>)
                \cup Bases(15, <<2, 7, 2, 0>>) \cup Bases(18, <<6, 4, 9>>)}
  \cup {<<"iban_mod97", <<16, 11>> \o iban_mod97(<<16, 11>>, p) \o p>> :
          p \in Bases(12, <<30, 14>>) \cup Bases(11, <<>>)}
  \cup {<<"snils", p \o snils_checksum(p)>> : p \in Bases(9, <<>>) \cup Bases(9, <<9, 9>>)}
  \cup {<<"inn_person", p \o inn_person_checksums(p)>> : p \in Bases(10, <<>>)}
  \cup {<<"inn_org", Append(p, inn_org_checksum(p))>> : p \in Bases(9, <<>>)}
  \cup {<<"ogrn", Append(p, ogrn_check_digit(p))>> : p \in Bases(12, <<>>)}
  \cup {<<"ogrnip", Append(p, ogrnip_check_digit(p))>> : p \in Bases(14, <<>>)}

\* Numbers that are known to be right, whatever weights the code has
\* (tests/unit/test_guard_validators_checksums.cpp).
Issued ==
  {<<"luhn", <<7, 9, 9, 2, 7, 3, 9, 8, 7, 1, 3>>>>,
   <<"payment_card", <<4, 1, 1, 1, 1, 1, 1, 1, 1, 1, 1, 1, 1, 1, 1, 1>>>>,
   <<"iban_mod97", <<16, 11, 8, 2, 32, 14, 28, 29, 1, 2, 3, 4, 5, 6, 9, 8, 7, 6, 5, 4, 3, 2>>>>,
   <<"snils", <<1, 1, 2, 2, 3, 3, 4, 4, 5, 9, 5>>>>,
   <<"inn_person", <<5, 0, 0, 1, 0, 0, 7, 3, 2, 2, 5, 9>>>>,
   <<"inn_org", <<7, 7, 0, 7, 0, 8, 3, 8, 9, 3>>>>,
   <<"ogrn", <<1, 0, 2, 7, 7, 0, 0, 1, 3, 2, 1, 9, 5>>>>,
   <<"ogrnip", <<3, 0, 4, 5, 0, 0, 1, 1, 6, 0, 0, 0, 1, 5, 7>>>>}

Spaced(s) == SubSeq(s, 1, 4) \o <<Space>> \o SubSeq(s, 5, Len(s))

\* One digit is another, or two neighbours have changed places.
Misread(s) ==
  {[s EXCEPT ![i] = d] : i \in {i \in DOMAIN s : s[i] \in 0..9}, d \in 0..9} \ {s}

Swapped(s) ==
  {[s EXCEPT ![i] = s[i + 1], ![i + 1] = s[i]] :
     i \in {i \in 1..(Len(s) - 1) : /\ s[i] \in 0..9 /\ s[i + 1] \in 0..9 /\ s[i] # s[i + 1]
                                    /\ {s[i], s[i + 1]} # {0, 9}}}

\* The last check digit is another.
Miscopied(s) == {[s EXCEPT ![Len(s)] = d] : d \in 0..9} \ {s}

\* The schemes that detect every error of the first two kinds; all detect the last.
Detecting == {"luhn", "payment_card", "iban_mod97"}

\* The rule on its own, and four that the registry refuses: of a name that
\* is not one, with a validator or a capture group that there is not, and
\* declared twice.
Catalogs(validator) ==
  LET rule == Declared(1, "number", <<"\\", "d", "+">>, {}, <<validator>>)
  IN  {<<rule>>, <<[rule EXCEPT !.id_ok = FALSE]>>, <<[rule EXCEPT !.validators = <<"mod_7">> \o @]>>,
       <<[rule EXCEPT !.capture_groups = <<1>>]>>, <<rule, rule>>}

NumberCall(validator, text, sample) ==
  {[Call(Len(text), <<Scannable(cr, text, {Plain(0, Len(text))})>>, TRUE, 0, 2) EXCEPT !.sample = sample] :
     cr \in UNION {Range(build(c).rules) : c \in Catalogs(validator)}}

NumberCalls ==
  UNION {UNION {NumberCall(x[1], t, "number") : t \in {x[2], Spaced(x[2])}} : x \in Numbers \cup Issued}
  \cup UNION {UNION {NumberCall(x[1], t, "misread") :
                       t \in Miscopied(x[2]) \cup (IF x[1] \in Detecting
                                                  THEN Misread(x[2]) \cup Swapped(x[2]) ELSE {})}
                : x \in Numbers \cup Issued}

MCInputs == MatchCalls \cup PatternCalls \cup NumberCalls
-----------------------------------------------------------------------------
\* The pre-filter costs no recall: whatever the pattern and the keywords, a
\* rule that filter_by_keywords leaves out matches nothing in the text.
PrefilterSound ==
  phase # "filter" => \A r \in Range(in.rules) \ Range(active) : scan_one_rule(r, in.size) = {}

\* A number that was issued, or carries the check digits the code computes, is
\* reported by every rule the registry accepts, also when it is written in groups;
\* one with another check digit is not, nor, where the scheme detects it, one with
\* a misread digit or two neighbours swapped.
CheckDigitsDecide ==
  phase = "done" =>
    /\ in.sample = "number"  => resolved = <<[start |-> 0, end |-> in.size, id |-> 1]>>
    /\ in.sample = "misread" => resolved = <<>>
====
