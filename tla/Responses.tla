------------------------------ MODULE Responses ------------------------------
(***************************************************************************)
(* Guard::Extract::Responses (guard/extract/Responses.hpp).                *)
(***************************************************************************)
EXTENDS ExtractTypes

TextTypes == {<<"output_text">>, <<"input_text">>, <<"text">>}

\* The text of a tool's result, the arguments of a call, or the content of
\* any other item.
InputItem[body \in Document, item \in Place, type \in Seq(STRING)] ==
  IF type = <<"function_call">>
  THEN push_if_nonempty_string[body, Below[body, <<item>>, <<"arguments">>]]
  ELSE StringOrParts[body,
         Below[body, <<item>>, IF type = <<"function_call_output">> THEN <<"output">>
                               ELSE <<"content">>], TextTypes]

collect_input_item_fields(body, item) == InputItem[body, item, type_of(body, item.span)]

\* The text parts of one type below a key of an item.
collect_typed_text_parts(body, item, key, type) ==
  TextParts[body, Below[body, <<item>>, <<key>>], {<<type>>}]

OutputItem[body \in Document, item \in Place, type \in Seq(STRING)] ==
  CASE type = <<"message">> -> collect_typed_text_parts(body, item, "content", "output_text")
    [] type = <<"function_call">> ->
         push_if_nonempty_string[body, Below[body, <<item>>, <<"arguments">>]]
    [] type = <<"reasoning">> ->
         collect_typed_text_parts(body, item, "summary", "summary_text")
         \o collect_typed_text_parts(body, item, "content", "reasoning_text")
    [] OTHER -> <<>>

collect_item_fields[body \in Document, items \in Seq(Place)] ==
  FlattenSeq([i \in DOMAIN items |->
    OutputItem[body, items[i], type_of(body, items[i].span)]])

RequestFields[body \in Document, instructions \in Seq(Place), input \in Seq(Place)] ==
  LET items[ps \in Seq(Place)] ==
        FlattenSeq([i \in DOMAIN ps |-> collect_input_item_fields(body, ps[i])])
  IN  IF instructions = <<>> /\ input = <<>> THEN Unsupported
      ELSE Fields(push_if_nonempty_string[body, instructions \o input]
                  \o items[ElementsOf[body, input]])

\* "instructions" if it is a string, then "input".
extract_request(body) ==
  RequestFields[body, AtRoot(body, <<key_seg("instructions")>>),
                AtRoot(body, <<key_seg("input")>>)]

\* The items of an answer, or one item of a stream.
extract_response_item_fields(body, path) == collect_item_fields[body, AtRoot(body, path)]

extract_response_output_fields(body, base) ==
  collect_item_fields[body, ElementsOf[body, AtRoot(body, Append(base, key_seg("output")))]]
=============================================================================
