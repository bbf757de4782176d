------------------------------ MODULE Prefilter ------------------------------
(***************************************************************************)
(* Guard::regex_guarantees_keyword (guard/Prefilter.hpp): the parser of    *)
(* regular expressions that proves that every match contains a keyword, so *)
(* that the scanner may skip the rule when no keyword is in the text.      *)
(*                                                                         *)
(* A pattern, a keyword and a text are sequences of characters; KELVIN and *)
(* LONG_S are U+212A and U+017F, the folds of k and of s outside of ASCII. *)
(* The nodes above the literals carry their verdict in place of their      *)
(* children: a verdict depends on a node's children only through theirs.   *)
(***************************************************************************)
EXTENDS Integers, Sequences, SequencesExt, FiniteSetsExt, TLC

CONSTANT kMaxGroupDepth

ASSUME PrefilterAssumption == kMaxGroupDepth \in Nat

Letters  == {"k", "K", "s", "S", "d", "n", "p", "x", "i", "m", "U", "P", "Q", "E", "N", "b"}
Numerals == {"0", "1", "2", "6"}
HexDigits == Numerals \cup {"b", "d", "E"}
NonAscii == {"KELVIN", "LONG_S"}

Text    == Seq(STRING)
NoMatch == 0

ToLower(c) ==
  CASE c \in {"K", "KELVIN"} -> "k" [] c = "S" -> "s" [] c = "U" -> "u"
    [] c = "P" -> "p" [] c = "Q" -> "q" [] c = "E" -> "e" [] c = "N" -> "n" [] OTHER -> c

to_lower_utf8(s) == [i \in DOMAIN s |-> ToLower(s[i])]

Includes(s, part) == \E i \in 1..(Len(s) + 1) : IsPrefix(part, SubSeq(s, i, Len(s)))

CharAt(s, p) == IF p \in DOMAIN s THEN s[p] ELSE "end"

FirstFrom(S, s, p) == Min({q \in p..(Len(s) + 1) : CharAt(s, q) \in S \cup {"end"}})
-----------------------------------------------------------------------------
(* Nodes.                                                                  *)

Node == [kind : {"Literal", "Composite"}, literal : Text, fold_case : BOOLEAN,
         sure : BOOLEAN]

make_literal(s, fold) ==
  [kind |-> "Literal", literal |-> s, fold_case |-> fold, sure |-> FALSE]

Composite(sure) ==
  [kind |-> "Composite", literal |-> <<>>, fold_case |-> FALSE, sure |-> sure]

make_unsupported == Composite(FALSE)

\* Under (?i) a match may hold LONG_S for s, which is not lowered to s.
literal_is_fold_safe(literal, fold) ==
  fold => ToSet(literal) \cap (NonAscii \cup {"s", "S"}) = {}

guarantees_keyword(n, keywords) ==
  IF n.kind = "Literal"
  THEN /\ literal_is_fold_safe(n.literal, n.fold_case)
       /\ \E k \in keywords : k # <<>> /\ Includes(to_lower_utf8(n.literal), k)
  ELSE n.sure

make_repeat(min, child, keywords) ==
  Composite(min >= 1 /\ guarantees_keyword(child, keywords))

\* An empty concatenation is an empty literal, one of a single child is that
\* child; otherwise one sure child suffices.
Concat(children, keywords) ==
  CASE Len(children) = 0 -> make_literal(<<>>, FALSE)
    [] Len(children) = 1 -> children[1]
    [] OTHER -> Composite(\E i \in DOMAIN children : guarantees_keyword(children[i], keywords))

\* A bug: one sure branch suffices.
AnyBranch(branches, keywords) ==
  IF Len(branches) = 1 THEN branches[1]
  ELSE Composite(\E i \in DOMAIN branches : guarantees_keyword(branches[i], keywords))

\* A match takes one branch: all of them must be sure.
Alternate(branches, keywords) ==
  IF Len(branches) = 1 THEN branches[1]
  ELSE Composite(\A i \in DOMAIN branches : guarantees_keyword(branches[i], keywords))

\* A literal extends the run of literals before it when both fold alike.
AddPiece(children, piece) ==
  IF /\ children # <<>> /\ piece.kind = "Literal"
     /\ Last(children).kind = "Literal" /\ Last(children).fold_case = piece.fold_case
  THEN [children EXCEPT ![Len(children)].literal = @ \o piece.literal]
  ELSE Append(children, piece)
-----------------------------------------------------------------------------
(* Atoms.  Each yields a node and the position after it, NoMatch for a     *)
(* PrefilterParseFailure.                                                  *)

Parsed  == [node : Node, pos : Nat]
Failure == [node |-> make_unsupported, pos |-> NoMatch]
Result(node, pos) == [node |-> node, pos |-> pos]

\* Up to n characters of S from p on.
Upto(S, s, p, n) == Min({p + n, Min({q \in p..(Len(s) + 1) : CharAt(s, q) \notin S})})

\* {...} from p on, or what stands in its place.
Braced(s, p, otherwise) ==
  IF CharAt(s, p) # "{" THEN otherwise
  ELSE LET close == FirstFrom({"}"}, s, p)
       IN  IF close \in DOMAIN s THEN close + 1 ELSE NoMatch

\* The escape whose backslash is at p.
parse_escape(s, p, fold) ==
  LET c == CharAt(s, p + 1)
  IN  CASE c \in {"d", "s", "S", "b"} -> Result(make_unsupported, p + 2)
        [] c = "n" -> Result(make_literal(<<"LF">>, fold), p + 2)
        [] c \in {"p", "P"} ->
             Result(make_unsupported,
                    Braced(s, p + 2, IF p + 2 \in DOMAIN s THEN p + 3 ELSE p + 2))
        [] c = "x" -> Result(make_unsupported, Braced(s, p + 2, Upto(HexDigits, s, p + 2, 2)))
        [] c \in {"0", "1", "2", "6"} ->
             Result(make_unsupported, Upto(Numerals, s, p + 1, 3))
        [] c \in (Letters \ {"d", "s", "S", "b", "n", "p", "P", "x"}) \cup {"end"} -> Failure
        [] OTHER -> Result(make_literal(<<c>>, fold), p + 2)

\* One end of a range in a class.
ClassMember(s, p) ==
  IF CharAt(s, p) = "\\" THEN parse_escape(s, p, FALSE).pos
  ELSE IF p \in DOMAIN s THEN p + 1 ELSE NoMatch

\* The end of a class, p being where its next member, or its bracket, is.
ClassEnd[s \in Text, p \in Nat, any_member \in BOOLEAN] ==
  LET after[q \in Nat] ==
        IF q = NoMatch THEN NoMatch
        ELSE IF CharAt(s, q) = "-" /\ CharAt(s, q + 1) \notin {"]", "end"}
        THEN LET r == ClassMember(s, q + 1)
             IN  IF r = NoMatch THEN NoMatch ELSE ClassEnd[s, r, TRUE]
        ELSE ClassEnd[s, q, TRUE]
  IN  CASE CharAt(s, p) = "end" -> NoMatch
        [] CharAt(s, p) = "]" -> IF any_member THEN p + 1 ELSE NoMatch
        [] OTHER -> after[ClassMember(s, p)]

parse_char_class(s, p) ==
  Result(make_unsupported, ClassEnd[s, IF CharAt(s, p + 1) = "^" THEN p + 2 ELSE p + 1, FALSE])

parse_atom(s, p, fold) ==
  LET c == CharAt(s, p)
  IN  CASE c = "[" -> parse_char_class(s, p)
        [] c = "\\" -> parse_escape(s, p, fold)
        [] c \in {"^", "$", "."} -> Result(make_unsupported, p + 1)
        [] c \in {"|", ")", "*", "+", "?", "{", "}", "]", "end"} -> Failure
        [] OTHER -> Result(make_literal(<<c>>, fold), p + 1)

\* What "(" at p opens: a capture, a transparent group, or (?flags).  Once i
\* has been seen, also after "-", folding stays on.
GroupKind == {"Capture", "Transparent", "Flags", "Failure"}
Header(kind, pos, fold) == [kind |-> kind, pos |-> pos, fold_case |-> fold]

GroupHeader(s, p, fold) ==
  LET flags == Upto({"i", "s", "m", "U", "-"}, s, p + 2, Len(s))
      on    == fold \/ \E q \in (p + 2)..(flags - 1) : s[q] = "i"
      name  == FirstFrom({">"}, s, p + 4)
  IN  CASE CharAt(s, p + 1) # "?" -> Header("Capture", p + 1, fold)
        [] CharAt(s, p + 2) = ":" -> Header("Transparent", p + 3, fold)
        [] CharAt(s, p + 2) = "P" /\ CharAt(s, p + 3) = "<" ->
             IF name \in DOMAIN s THEN Header("Capture", name + 1, fold)
             ELSE Header("Failure", p, fold)
        [] flags > p + 2 /\ CharAt(s, flags) = ")" -> Header("Flags", flags + 1, on)
        [] flags > p + 2 /\ CharAt(s, flags) = ":" -> Header("Transparent", flags + 1, on)
        [] OTHER -> Header("Failure", p, fold)

Lazy(s, p) == IF CharAt(s, p) = "?" THEN p + 1 ELSE p

DigitValue == "0" :> 0 @@ "1" :> 1 @@ "2" :> 2 @@ "6" :> 6

\* {m}, {m,} or {m,n}; anything else is not a quantifier.
parse_brace_quantifier(s, p, atom, keywords) ==
  LET digits == Upto(Numerals, s, p + 1, Len(s))
      comma  == IF CharAt(s, digits) = "," THEN Upto(Numerals, s, digits + 1, Len(s)) ELSE digits
      min    == FoldLeft(LAMBDA n, d : n * 10 + DigitValue[d], 0, SubSeq(s, p + 1, digits - 1))
  IN  IF digits = p + 1 \/ CharAt(s, comma) # "}" THEN Result(atom, p)
      ELSE Result(make_repeat(min, atom, keywords), Lazy(s, comma + 1))

parse_quantifier(s, p, atom, keywords) ==
  LET c == CharAt(s, p)
  IN  CASE c \in {"*", "?"} -> Result(make_repeat(0, atom, keywords), Lazy(s, p + 1))
        [] c = "+" -> Result(make_repeat(1, atom, keywords), Lazy(s, p + 1))
        [] c = "{" -> parse_brace_quantifier(s, p, atom, keywords)
        [] OTHER -> Result(atom, p)
-----------------------------------------------------------------------------
(* parse_alternation, parse_concat and parse_group: one walk, which calls  *)
(* itself for a group.  branches are the concatenations that are complete, *)
(* children the pieces of the one it is in.                                *)

State == [pos : Nat, fold_case : BOOLEAN, branches : Seq(Node), children : Seq(Node)]
Start(pos, fold) == [pos |-> pos, fold_case |-> fold, branches |-> <<>>, children |-> <<>>]

Group(result, fold) == [node |-> result.node, pos |-> result.pos, fold_case |-> fold]
Grouped == [node : Node, pos : Nat, fold_case : BOOLEAN]

Alternation[s \in Text, keywords \in SUBSET Text, depth \in Nat, st \in State] ==
  LET close == Append(st.branches, Concat(st.children, keywords))
      next[piece \in Parsed, fold \in BOOLEAN] ==
        Alternation[s, keywords, depth,
          [st EXCEPT !.pos = piece.pos, !.fold_case = fold,
                     !.children = AddPiece(@, piece.node)]]
      atom[a \in Grouped] ==
        IF a.pos = NoMatch THEN Group(Failure, FALSE)
        ELSE next[parse_quantifier(s, a.pos, a.node, keywords), a.fold_case]
      inner[kind \in GroupKind, r \in Grouped] ==
        IF r.pos = NoMatch \/ CharAt(s, r.pos) # ")" THEN Group(Failure, FALSE)
        ELSE atom[Group(Result(IF kind = "Transparent" THEN r.node
                               ELSE Composite(guarantees_keyword(r.node, keywords)),
                               r.pos + 1), r.fold_case)]
      group[h \in [kind : GroupKind, pos : Nat, fold_case : BOOLEAN]] ==
        CASE h.kind = "Failure" \/ depth >= kMaxGroupDepth -> Group(Failure, FALSE)
          [] h.kind = "Flags" /\ depth < kMaxGroupDepth ->
               atom[Group(Result(make_unsupported, h.pos), h.fold_case)]
          [] OTHER -> inner[h.kind, Alternation[s, keywords, depth + 1, Start(h.pos, h.fold_case)]]
  IN  CASE CharAt(s, st.pos) \in {")", "end"} ->
             Group(Result(Alternate(close, keywords), st.pos), st.fold_case)
        [] CharAt(s, st.pos) = "|" ->
             Alternation[s, keywords, depth,
               [st EXCEPT !.pos = @ + 1, !.branches = close, !.children = <<>>]]
        [] CharAt(s, st.pos) = "(" -> group[GroupHeader(s, st.pos, st.fold_case)]
        [] OTHER -> atom[Group(parse_atom(s, st.pos, st.fold_case), st.fold_case)]

\* The whole pattern must be consumed.
regex_guarantees_keyword(pattern, keywords) ==
  LET lowered == {to_lower_utf8(k) : k \in keywords}
      proved[r \in Grouped] == r.pos = Len(pattern) + 1 /\ guarantees_keyword(r.node, lowered)
  IN  keywords # {} /\ proved[Alternation[pattern, lowered, 0, Start(1, FALSE)]]
=============================================================================
