--------------------------- MODULE ChatCompletions ---------------------------
(***************************************************************************)
(* Guard::Extract::ChatCompletions (guard/extract/ChatCompletions.hpp).    *)
(***************************************************************************)
EXTENDS ExtractTypes

\* "content": a string, or the parts of an array that are text.
collect_message_content(body, msg) ==
  StringOrParts[body, Below[body, <<msg>>, <<"content">>], {<<"text">>}]

collect_function_call(body, container) ==
  push_if_nonempty_string[body, Below[body, <<container>>, <<"function_call", "arguments">>]]

collect_tool_calls(body, container) ==
  push_if_nonempty_string[body,
    Below[body, ElementsOf[body, Below[body, <<container>>, <<"tool_calls">>]],
          <<"function", "arguments">>]]

MessageFields[body \in Document, messages \in Seq(Place)] ==
  FlattenSeq([i \in DOMAIN messages |->
    collect_message_content(body, messages[i]) \o collect_function_call(body, messages[i])
    \o collect_tool_calls(body, messages[i])])

RequestFields[body \in Document, messages \in Seq(Place)] ==
  IF messages = <<>> \/ ~is_array_span(body, Head(messages).span) THEN Unsupported
  ELSE Fields(MessageFields[body, ElementsOf[body, messages]])

extract_request(body) == RequestFields[body, AtRoot(body, <<key_seg("messages")>>)]

kPlainResponseFields == <<"content", "reasoning", "reasoning_content", "refusal">>

AnswerFields[body \in Document, messages \in Seq(Place)] ==
  FlattenSeq([i \in DOMAIN messages |->
    FlattenSeq([k \in DOMAIN kPlainResponseFields |->
      push_if_nonempty_string[body, Below[body, <<messages[i]>>, <<kPlainResponseFields[k]>>]]])
    \o collect_function_call(body, messages[i]) \o collect_tool_calls(body, messages[i])])

\* Every choice has a message.
extract_response(body) ==
  Fields(AnswerFields[body,
    Below[body, ElementsOf[body, AtRoot(body, <<key_seg("choices")>>)], <<"message">>]])
=============================================================================
