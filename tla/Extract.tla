------------------------------- MODULE Extract -------------------------------
(***************************************************************************)
(* Guard::Extract (guard/extract/Extract.hpp): the dispatch to the         *)
(* extractor of a wire format, and the test whether a request asks for a   *)
(* stream.                                                                 *)
(***************************************************************************)
EXTENDS ExtractTypes

CC == INSTANCE ChatCompletions
MS == INSTANCE Messages
RS == INSTANCE Responses

ApiFormat == {"ChatCompletions", "Messages", "Responses"}

extract_request(body, format) ==
  CASE format = "ChatCompletions" -> CC!extract_request(body)
    [] format = "Messages" -> MS!extract_request(body)
    [] format = "Responses" -> RS!extract_request(body)

extract_response(body, format) ==
  CASE format = "ChatCompletions" -> CC!extract_response(body)
    [] format = "Messages" -> MS!extract_response(body)
    [] format = "Responses" -> Fields(RS!extract_response_output_fields(body, <<>>))

\* true, a string that strconv.ParseBool takes for true (words are compared
\* without case), or a number that is not zero, i.e. has a digit 1 in front
\* of its exponent.
wants_stream(body) ==
  LET truthy[v \in Span] ==
        LET raw      == Slice(body, v)
            mantissa == {i \in DOMAIN raw : \A j \in 1..i : raw[j] # "e"}
        IN  CASE v = NoSpan -> FALSE
              [] v.is_string -> decode_string(raw) \in {<<"1">>, <<"t">>, <<"true">>, <<"TRUE">>}
              [] v # NoSpan /\ ~v.is_string ->
                   \/ raw = <<"true">>
                   \/ /\ Head(raw) \in Digits \cup {"-"}
                      /\ \E i \in mantissa : raw[i] = "1"
  IN  truthy[find_value(body, <<key_seg("stream")>>)]
=============================================================================
