---------------------------- MODULE ExtractTypes ----------------------------
(***************************************************************************)
(* What the extractors of the three wire formats share                     *)
(* (guard/extract/Types.hpp, and the helpers each of them repeats).        *)
(***************************************************************************)
EXTENDS Json

Unsupported    == [supported |-> FALSE, fields |-> <<>>]
Fields(fields) == [supported |-> TRUE, fields |-> fields]

ContentField(path, span, text, is_raw_object) ==
  [path |-> path, span |-> span, text |-> text, is_raw_object |-> is_raw_object]

is_array_span(body, span) ==
  ~span.is_string /\ span.start < span.end /\ At(body, span.start) = "["

\* The "type" of an object (block_type, type_of), empty when it is absent or
\* not a string.
type_of(body, span) ==
  LET text[t \in Span] == IF t.is_string THEN decode_string(Slice(body, t)) ELSE <<>>
  IN  text[find_value_in(body, span, <<key_seg("type")>>)]

(* The walk of an extractor is a query: each step takes the places found   *)
(* so far, values with their paths, to the places one step further, in     *)
(* document order.                                                         *)

Found[path \in Seq(PathSeg), v \in Span] ==
  IF v = NoSpan THEN <<>> ELSE <<[path |-> path, span |-> v]>>

AtRoot(body, path) == Found[path, find_value(body, path)]

Keys(keys) == [i \in DOMAIN keys |-> key_seg(keys[i])]

\* find_value_in below each place.
Below[body \in Document, places \in Seq(Place), keys \in Seq(STRING)] ==
  FlattenSeq([i \in DOMAIN places |->
    Found[places[i].path \o Keys(keys), find_value_in(body, places[i].span, Keys(keys))]])

ElementsAt[path \in Seq(PathSeg), elements \in Seq(Span)] ==
  [i \in DOMAIN elements |-> [path |-> Append(path, idx_seg(i - 1)), span |-> elements[i]]]

\* One array_elements call for each place that is an array.
ElementsOf[body \in Document, places \in Seq(Place)] ==
  FlattenSeq([i \in DOMAIN places |->
    ElementsAt[places[i].path, array_elements(body, places[i].span)]])

OfType[body \in Document, places \in Seq(Place), types \in SUBSET Seq(STRING)] ==
  SelectSeq(places, LAMBDA p : type_of(body, p.span) \in types)

TextField[at \in Place, text \in Seq(STRING)] ==
  IF text = <<>> THEN <<>> ELSE <<ContentField(at.path, at.span, text, FALSE)>>

\* A field for a string that is not empty, and nothing for anything else.
push_if_nonempty_string[body \in Document, places \in Seq(Place)] ==
  FlattenSeq([i \in DOMAIN places |->
    IF ~places[i].span.is_string THEN <<>>
    ELSE TextField[places[i], decode_string(Slice(body, places[i].span))]])

\* "text" of the elements of a type.
TextParts[body \in Document, places \in Seq(Place), types \in SUBSET Seq(STRING)] ==
  push_if_nonempty_string[body,
    Below[body, OfType[body, ElementsOf[body, places], types], <<"text">>]]

\* A string, or the text parts of an array.
StringOrParts[body \in Document, places \in Seq(Place), types \in SUBSET Seq(STRING)] ==
  push_if_nonempty_string[body, places] \o TextParts[body, places, types]
=============================================================================
