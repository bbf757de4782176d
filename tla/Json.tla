-------------------------------- MODULE Json --------------------------------
(***************************************************************************)
(* Guard::Json (guard/json/Json.hpp): the strict JSON scanner that finds   *)
(* values as spans of the raw document, the splicer that patches them, and *)
(* the string codec.                                                       *)
(*                                                                         *)
(* A document is a sequence of characters.  Structure, quote, backslash,   *)
(* white space, control characters and the parts of a number are           *)
(* characters of their own; true, false, null, a word that means nothing   *)
(* to the scanner and the four digits of a \u escape are one each.         *)
(* Positions count from 1; a span is [start, end), as in the source.       *)
(***************************************************************************)
EXTENDS Integers, Sequences, SequencesExt, FiniteSetsExt, TLC

Quote     == "\""
Backslash == "\\"
Literals  == {"true", "false", "null"}
Digits    == {"0", "1"}
Ws        == {" ", "TAB", "LF", "CR"}

\* Bytes below 0x20, SOH standing for those without an escape letter.
Controls == {"TAB", "LF", "CR", "BS", "FF", "SOH"}

\* The character after a backslash, and what it stands for.
Unescape ==
  Quote :> Quote @@ Backslash :> Backslash @@ "/" :> "/" @@ "b" :> "BS"
  @@ "f" :> "FF" @@ "n" :> "LF" @@ "r" :> "CR" @@ "t" :> "TAB"

\* Four hex digits: a code point of the basic plane, or half of a pair.
High == "D83D"
Low  == "DE00"
CodePoint == "0001" :> "SOH" @@ "2028" :> "U+2028"
Hex4 == DOMAIN CodePoint \cup {High, Low}

Document == Seq(STRING)

NotFound == 0
NoSpan   == [start |-> 0, end |-> 0, is_string |-> FALSE]

PathSeg    == [key : Seq(STRING), index : Nat, is_index : BOOLEAN]
KeySeg(t)  == [key |-> t, index |-> 0, is_index |-> FALSE]
key_seg(k) == KeySeg(<<k>>)
idx_seg(i) == [key |-> <<>>, index |-> i, is_index |-> TRUE]

\* The character at p, and "end" outside of the document.
At(doc, p) == IF p \in DOMAIN doc THEN doc[p] ELSE "end"

Slice(doc, span) == SubSeq(doc, span.start, span.end - 1)
-----------------------------------------------------------------------------
(* The scanner.  Every operator returns the position after what it read,   *)
(* or NotFound.                                                            *)

FirstOutside(S, doc, p) == Min({q \in p..(Len(doc) + 1) : At(doc, q) \notin S})

skip_ws(doc, p) == FirstOutside(Ws, doc, p)

\* The rest of a string, p being inside of it.
InString[doc \in Document, p \in Nat] ==
  CASE At(doc, p) = Quote -> p + 1
    [] At(doc, p) = Backslash ->
         IF At(doc, p + 1) \in DOMAIN Unescape THEN InString[doc, p + 2]
         ELSE IF At(doc, p + 1) = "u" /\ At(doc, p + 2) \in Hex4
              THEN InString[doc, p + 3] ELSE NotFound
    [] At(doc, p) \in Controls \cup {"end"} -> NotFound
    [] OTHER -> InString[doc, p + 1]

skip_string(doc, pos) ==
  IF At(doc, pos) = Quote THEN InString[doc, pos + 1] ELSE NotFound

\* -?(0|[1-9]\d*)(\.\d+)?([eE][+-]?\d+)?  A part that is refused is position
\* 0, where the parts that follow read nothing.
SomeDigits(doc, p) ==
  IF At(doc, p) \in Digits THEN FirstOutside(Digits, doc, p) ELSE NotFound

Integer[doc \in Document, p \in Nat] ==
  IF At(doc, p) = "0" THEN p + 1 ELSE SomeDigits(doc, p)

Fraction[doc \in Document, p \in Nat] ==
  IF At(doc, p) = "." THEN SomeDigits(doc, p + 1) ELSE p

Exponent[doc \in Document, p \in Nat] ==
  IF At(doc, p) # "e" THEN p
  ELSE SomeDigits(doc, p + IF At(doc, p + 1) \in {"+", "-"} THEN 2 ELSE 1)

skip_number(doc, pos) ==
  Exponent[doc, Fraction[doc, Integer[doc, IF At(doc, pos) = "-" THEN pos + 1 ELSE pos]]]

ArrayStates  == {"ArrayStart", "ArrayAfterValue", "ArrayAfterComma"}
ObjectStates == {"ObjectStart", "ObjectAfterKey", "ObjectAfterColon",
                 "ObjectAfterValue", "ObjectAfterComma"}
WalkState    == ArrayStates \cup ObjectStates

\* Where the scalar, or the bracket, at p ends.
open_or_scalar(doc, p) ==
  CASE At(doc, p) = Quote -> skip_string(doc, p)
    [] At(doc, p) \in Digits \cup {"-"} -> skip_number(doc, p)
    [] At(doc, p) \in Literals \cup {"{", "["} -> p + 1
    [] OTHER -> NotFound

\* The frame a bracket opens.
Opened(c) ==
  CASE c = "{" -> <<"ObjectStart">> [] c = "[" -> <<"ArrayStart">> [] OTHER -> <<>>

Top(frames, state) == [frames EXCEPT ![Len(frames)] = state]

complete_value_in_parent(frames) ==
  IF frames = <<>> THEN frames
  ELSE Top(frames, IF Last(frames) \in ArrayStates THEN "ArrayAfterValue"
                   ELSE "ObjectAfterValue")

\* A bug: a comma may be followed by the closing bracket.
TrailingComma(c, state) ==
  \/ c = "]" /\ state \in ArrayStates
  \/ c = "}" /\ state \in {"ObjectStart", "ObjectAfterValue", "ObjectAfterComma"}

Closes(c, state) ==
  \/ c = "]" /\ state \in {"ArrayStart", "ArrayAfterValue"}
  \/ c = "}" /\ state \in {"ObjectStart", "ObjectAfterValue"}

\* The rest of a value, with the stack of the containers that are open.
Walk[doc \in Document, p \in Nat, frames \in Seq(WalkState)] ==
  IF p = NotFound \/ frames = <<>> THEN p
  ELSE IF At(doc, p) \in Ws THEN Walk[doc, p + 1, frames]
  ELSE IF Closes(At(doc, p), Last(frames))
  THEN Walk[doc, p + 1, complete_value_in_parent(Front(frames))]
  ELSE LET c     == At(doc, p)
           state == Last(frames)
       IN  CASE state \in {"ArrayStart", "ArrayAfterComma", "ObjectAfterColon"} ->
                  Walk[doc, open_or_scalar(doc, p),
                       IF Opened(c) = <<>> THEN complete_value_in_parent(frames)
                       ELSE frames \o Opened(c)]
             [] state \in {"ObjectStart", "ObjectAfterComma"} ->
                  Walk[doc, skip_string(doc, p), Top(frames, "ObjectAfterKey")]
             [] state = "ObjectAfterKey" /\ c = ":" ->
                  Walk[doc, p + 1, Top(frames, "ObjectAfterColon")]
             [] state = "ArrayAfterValue" /\ c = "," ->
                  Walk[doc, p + 1, Top(frames, "ArrayAfterComma")]
             [] state = "ObjectAfterValue" /\ c = "," ->
                  Walk[doc, p + 1, Top(frames, "ObjectAfterComma")]
             [] OTHER -> NotFound

skip_value[doc \in Document, pos \in Nat] ==
  IF At(doc, pos) \in Ws THEN skip_value[doc, pos + 1]
  ELSE Walk[doc, open_or_scalar(doc, pos), Opened(At(doc, pos))]

\* Exactly one value and white space around it.
valid(doc) ==
  LET ends[p \in Nat] == p # NotFound /\ skip_ws(doc, p) = Len(doc) + 1
  IN  ends[skip_value[doc, 1]]
-----------------------------------------------------------------------------
(* The string codec.                                                       *)

HexAt(body, i)    == IF At(body, i) = "u" THEN At(body, i + 1) ELSE "none"
PairedAt(body, i) == /\ HexAt(body, i) = High
                     /\ At(body, i + 2) = Backslash /\ HexAt(body, i + 3) = Low

\* What the escape at i stands for, and its length.  A lone surrogate and \u
\* without its digits are U+FFFD; any other letter stands for itself.
Escape(body, i) ==
  LET hex == HexAt(body, i + 1)
  IN  CASE At(body, i + 1) = "end" -> <<<<>>, 1>>
        [] At(body, i + 1) \in DOMAIN Unescape -> <<<<Unescape[body[i + 1]]>>, 2>>
        [] hex \in DOMAIN CodePoint -> <<<<CodePoint[hex]>>, 3>>
        [] hex \in {High, Low} ->
             IF PairedAt(body, i + 1) THEN <<<<"U+1F600">>, 6>> ELSE <<<<"U+FFFD">>, 3>>
        [] OTHER -> <<<<IF body[i + 1] = "u" THEN "U+FFFD" ELSE body[i + 1]>>, 2>>

Decoded[body \in Document, i \in Nat] ==
  LET escape[e \in Document \X Nat] == e[1] \o Decoded[body, i + e[2]]
  IN  IF i > Len(body) THEN <<>>
      ELSE escape[IF body[i] = Backslash THEN Escape(body, i) ELSE <<<<body[i]>>, 1>>]

decode_string(quoted) ==
  IF Len(quoted) < 2 \/ Head(quoted) # Quote \/ Last(quoted) # Quote THEN quoted
  ELSE Decoded[SubSeq(quoted, 2, Len(quoted) - 1), 1]

\* Quote, backslash, controls and U+2028 are escaped; <, >, & and / are not.
encode_string(raw, with_quotes) ==
  LET letter(c) == CHOOSE e \in DOMAIN Unescape \ {"/"} : Unescape[e] = c
      escaped(c) ==
        IF \E e \in DOMAIN Unescape \ {"/"} : Unescape[e] = c
        THEN <<Backslash, letter(c)>>
        ELSE IF \E h \in DOMAIN CodePoint : CodePoint[h] = c
             THEN <<Backslash, "u", CHOOSE h \in DOMAIN CodePoint : CodePoint[h] = c>>
             ELSE <<c>>
      body == FlattenSeq([i \in DOMAIN raw |-> escaped(raw[i])])
  IN  IF with_quotes THEN <<Quote>> \o body \o <<Quote>> ELSE body
-----------------------------------------------------------------------------
(* Lookup.                                                                 *)

SpanAt(doc, start, end) ==
  [start |-> start, end |-> end, is_string |-> At(doc, start) = Quote]

Span   == [start : Nat, end : Nat, is_string : BOOLEAN]
Member == [key : Seq(STRING), span : Span]

\* The span of the value at v.
ValueAt(doc, v) ==
  LET upto[end \in Nat] == IF end = NotFound THEN NoSpan ELSE SpanAt(doc, v, end)
  IN  upto[skip_value[doc, v]]

AfterColon[doc \in Document, colon \in Nat] ==
  IF At(doc, colon) # ":" THEN NoSpan ELSE ValueAt(doc, skip_ws(doc, colon + 1))

\* The member whose key is at [k, end).
MemberAt[doc \in Document, k \in Nat, end \in Nat] ==
  IF end = NotFound THEN [key |-> <<>>, span |-> NoSpan]
  ELSE [key  |-> decode_string(SubSeq(doc, k, end - 1)),
        span |-> AfterColon[doc, skip_ws(doc, end)]]

\* The members of an object from p on, up to the first that is malformed; ok
\* says that the end of the object was reached.
MembersFrom[doc \in Document, p \in Nat, list \in Seq(Member)] ==
  LET separated[q \in Nat, upto \in Seq(Member)] ==
        IF At(doc, q) = "," THEN MembersFrom[doc, skip_ws(doc, q + 1), upto]
        ELSE [ok |-> At(doc, q) = "}", list |-> upto]
      add[m \in Member] ==
        IF m.span = NoSpan THEN [ok |-> FALSE, list |-> list]
        ELSE separated[skip_ws(doc, m.span.end), Append(list, m)]
  IN  IF At(doc, p) = "}" THEN [ok |-> TRUE, list |-> list]
      ELSE add[MemberAt[doc, p, skip_string(doc, p)]]

Members(doc, pos) == MembersFrom[doc, skip_ws(doc, pos + 1), <<>>]

\* The elements of an array, in the same way.
ElementsFrom[doc \in Document, p \in Nat, list \in Seq(Span)] ==
  LET separated[q \in Nat, upto \in Seq(Span)] ==
        IF At(doc, q) = "," THEN ElementsFrom[doc, skip_ws(doc, q + 1), upto]
        ELSE [ok |-> At(doc, q) = "]", list |-> upto]
      add[v \in Span] ==
        IF v = NoSpan THEN [ok |-> At(doc, p) = "]" /\ list = <<>>, list |-> list]
        ELSE separated[skip_ws(doc, v.end), Append(list, v)]
  IN  add[ValueAt(doc, p)]

Elements(doc, pos) == ElementsFrom[doc, skip_ws(doc, pos + 1), <<>>]

\* A bug: the last of several members with the same key is taken.
LastWins(list, key) == Max({i \in DOMAIN list : list[i].key = key} \cup {0})

\* The first of several members with the same key; 0 for none.
KeyIndex(list, key) ==
  LET hits == {i \in DOMAIN list : list[i].key = key}
  IN  IF hits = {} THEN 0 ELSE Min(hits)

\* find_value, one segment down from the value at pos: where the member or
\* the element starts.
Descend(doc, pos, seg) ==
  LET member[list \in Seq(Member)] ==
        LET start[i \in Nat] == IF i = 0 THEN NotFound ELSE list[i].span.start
        IN  start[KeyIndex(list, seg.key)]
      element[list \in Seq(Span)] ==
        IF seg.index < Len(list) THEN list[seg.index + 1].start ELSE NotFound
  IN  IF At(doc, pos) # (IF seg.is_index THEN "[" ELSE "{") THEN NotFound
      ELSE IF seg.is_index THEN element[Elements(doc, pos).list]
      ELSE member[Members(doc, pos).list]

Follow[doc \in Document, path \in Seq(PathSeg), pos \in Nat] ==
  IF pos = NotFound THEN NoSpan
  ELSE IF path = <<>> THEN ValueAt(doc, pos)
  ELSE Follow[doc, Tail(path), Descend(doc, pos, Head(path))]

find_value(doc, path) == Follow[doc, path, skip_ws(doc, 1)]

Shift(span, by) == [span EXCEPT !.start = @ + by, !.end = @ + by]

InBounds(doc, span) == span.start <= span.end /\ span.end <= Len(doc) + 1

find_value_in(doc, container, path) ==
  LET shifted[s \in Span] == IF s = NoSpan THEN NoSpan ELSE Shift(s, container.start - 1)
  IN  IF ~InBounds(doc, container) THEN NoSpan
      ELSE shifted[find_value(Slice(doc, container), path)]

\* White space is skipped in front of the first element only: the span of a
\* later one begins with it and is then not marked as a string.
ArrayFrom[doc \in Document, p \in Nat, list \in Seq(Span)] ==
  LET separated[q \in Nat, upto \in Seq(Span)] ==
        IF At(doc, q) = "," THEN ArrayFrom[doc, q + 1, upto] ELSE upto
      add[v \in Span] ==
        IF v = NoSpan THEN list ELSE separated[skip_ws(doc, v.end), Append(list, v)]
  IN  add[ValueAt(doc, p)]

array_elements(doc, span) ==
  IF \/ ~InBounds(doc, span) \/ span.is_string \/ span.start = span.end
     \/ At(doc, span.start) # "["
  THEN <<>> ELSE ArrayFrom[doc, skip_ws(doc, span.start + 1), <<>>]

Place == [path : Seq(PathSeg), span : Span]

\* Every string below a value, in document order; a container that is
\* malformed contributes nothing.
Leaves[doc \in Document, at \in Place] ==
  LET below[children \in [ok : BOOLEAN, list : Seq(Place)]] ==
        IF ~children.ok THEN <<>>
        ELSE FlattenSeq([i \in DOMAIN children.list |-> Leaves[doc, children.list[i]]])
      members[r \in [ok : BOOLEAN, list : Seq(Member)]] ==
        [ok |-> r.ok, list |-> [i \in DOMAIN r.list |->
           [path |-> Append(at.path, KeySeg(r.list[i].key)), span |-> r.list[i].span]]]
      elements[r \in [ok : BOOLEAN, list : Seq(Span)]] ==
        [ok |-> r.ok, list |-> [i \in DOMAIN r.list |->
           [path |-> Append(at.path, idx_seg(i - 1)), span |-> r.list[i]]]]
  IN  CASE At(doc, at.span.start) = Quote -> <<at>>
        [] At(doc, at.span.start) = "{" -> below[members[Members(doc, at.span.start)]]
        [] At(doc, at.span.start) = "[" -> below[elements[Elements(doc, at.span.start)]]
        [] OTHER -> <<>>

string_leaves(doc, root) == Leaves[doc, [path |-> root, span |-> find_value(doc, root)]]

string_leaves_in(doc, container, root) ==
  LET shifted[leaves \in Seq(Place)] ==
        [i \in DOMAIN leaves |->
           [leaves[i] EXCEPT !.span = Shift(@, container.start - 1)]]
  IN  IF ~InBounds(doc, container) THEN <<>>
      ELSE shifted[string_leaves(Slice(doc, container), root)]
-----------------------------------------------------------------------------
(* The splicer.                                                            *)

splice(doc, span, replacement) ==
  SubSeq(doc, 1, span.start - 1) \o replacement \o SubSeq(doc, span.end, Len(doc))

\* A bug: edits are applied from left to right, over offsets that moved.
SpliceForward(doc, edits) ==
  FoldLeft(LAMBDA out, e : splice(out, e.span, e.text), doc, edits)

Threw == <<"threw">>

\* Out of bounds and overlapping edits throw; the others are applied from
\* the last to the first, so that no offset moves before it is used.
splice_all(doc, edits) ==
  LET sorted == SortSeq(edits, LAMBDA a, b : a.span.start < b.span.start)
      clash  == \E i \in DOMAIN sorted :
                  \/ ~InBounds(doc, sorted[i].span)
                  \/ i > 1 /\ sorted[i].span.start < sorted[i - 1].span.end
  IN  IF clash THEN Threw
      ELSE FoldRight(LAMBDA e, out : splice(out, e.span, e.text), sorted, doc)
=============================================================================
