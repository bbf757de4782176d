------------------------------ MODULE Registry ------------------------------
(***************************************************************************)
(* Guard::Registry (guard/Registry.hpp): the validation and compilation of *)
(* rules and the index over them.  A declared rule is a record: id,        *)
(* id_ok (its id has the shape of is_valid_rule_id), data_type, validators *)
(* (names), regex (a pattern), groups (the number of its capture groups,   *)
(* -1 when RE2 refuses it), capture_groups, keywords.  The recognizer of   *)
(* its placeholder is PlaceholderRegex's.                                  *)
(***************************************************************************)
EXTENDS Prefilter, Validators

\* The codes of RuleError, in the order of the checks of compile_rule.
FirstError(r) ==
  LET codes == <<"InvalidId", "UnknownValidator", "BadRegex", "BadCaptureGroup">>
      fails == <<~r.id_ok,
                 \E i \in DOMAIN r.validators : ~is_known_validator(r.validators[i]),
                 r.groups < 0,
                 \E i \in DOMAIN r.capture_groups : r.capture_groups[i] \notin 1..r.groups>>
      which == {i \in DOMAIN codes : fails[i]}
  IN  IF which = {} THEN "none" ELSE codes[Min(which)]

CompiledRule(r) ==
  [rule |-> r,
   prefilter_eligible |-> r.keywords # {} /\ regex_guarantees_keyword(r.regex, r.keywords),
   prefilter_keywords |-> {to_lower_utf8(k) : k \in r.keywords}]

\* Rules are added in order up to the first error; a duplicate id is reported
\* before anything else is looked at.
build(rules) ==
  LET dup(i)   == \E j \in 1..(i - 1) : rules[j].id = rules[i].id
      error(i) == IF dup(i) THEN "DuplicateId" ELSE FirstError(rules[i])
      bad      == {i \in DOMAIN rules : error(i) # "none"}
  IN  IF bad = {} THEN [error |-> "none", rules |-> [i \in DOMAIN rules |-> CompiledRule(rules[i])]]
      ELSE [error |-> error(Min(bad)), rules |-> <<>>]

\* In the order of the data types asked for, then of registration.
for_data_types(reg, data_types) ==
  FlattenSeq([i \in DOMAIN data_types |->
    SelectSeq(reg.rules, LAMBDA cr : cr.rule.data_type = data_types[i])])

\* The pre-filter's look at the text (guard/Scanner.hpp).
contains_any_keyword(cr, text) ==
  \E k \in cr.prefilter_keywords : k # <<>> /\ Includes(to_lower_utf8(text), k)
=============================================================================
