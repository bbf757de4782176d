------------------------------ MODULE Messages ------------------------------
(***************************************************************************)
(* Guard::Extract::Messages (guard/extract/Messages.hpp).                  *)
(***************************************************************************)
EXTENDS ExtractTypes

RootedAt[path \in Seq(PathSeg), leaves \in Seq(Place)] ==
  [i \in DOMAIN leaves |-> [leaves[i] EXCEPT !.path = path \o @]]

\* Every string of the input of a tool call, whatever its shape.
InputLeaves(body, places) ==
  push_if_nonempty_string[body, FlattenSeq([i \in DOMAIN places |->
    RootedAt[places[i].path, string_leaves_in(body, places[i].span, <<>>)]])]

\* The block of one type: text, tool_use or tool_result.
BlockFields[body \in Document, block \in Place, type \in Seq(STRING)] ==
  CASE type = <<"text">> -> push_if_nonempty_string[body, Below[body, <<block>>, <<"text">>]]
    [] type = <<"tool_use">> -> InputLeaves(body, Below[body, <<block>>, <<"input">>])
    [] type = <<"tool_result">> ->
         StringOrParts[body, Below[body, <<block>>, <<"content">>], {<<"text">>}]
    [] OTHER -> <<>>

collect_messages_content_blocks[body \in Document, blocks \in Seq(Place)] ==
  FlattenSeq([i \in DOMAIN blocks |->
    BlockFields[body, blocks[i], type_of(body, blocks[i].span)]])

ContentFields[body \in Document, contents \in Seq(Place)] ==
  FlattenSeq([i \in DOMAIN contents |->
    push_if_nonempty_string[body, <<contents[i]>>]
    \o collect_messages_content_blocks[body, ElementsOf[body, <<contents[i]>>]]])

\* "system", then "content" of each message.
extract_request(body) ==
  Fields(StringOrParts[body, AtRoot(body, <<key_seg("system")>>), {<<"text">>}]
         \o ContentFields[body,
              Below[body, ElementsOf[body, AtRoot(body, <<key_seg("messages")>>)],
                    <<"content">>]])

\* The input of a tool call is one field with its raw text, unless it is {}.
RawField[at \in Place, raw \in Document] ==
  IF Head(raw) # "{" \/ raw = <<"{", "}">> THEN <<>>
  ELSE <<ContentField(at.path, at.span, raw, TRUE)>>

RawInput[body \in Document, places \in Seq(Place)] ==
  FlattenSeq([i \in DOMAIN places |-> RawField[places[i], Slice(body, places[i].span)]])

AnswerBlock[body \in Document, block \in Place, type \in Seq(STRING)] ==
  CASE type \in {<<"text">>, <<"thinking">>} ->
         push_if_nonempty_string[body, Below[body, <<block>>, type]]
    [] type = <<"tool_use">> -> RawInput[body, Below[body, <<block>>, <<"input">>]]
    [] OTHER -> <<>>

AnswerBlocks[body \in Document, blocks \in Seq(Place)] ==
  FlattenSeq([i \in DOMAIN blocks |->
    AnswerBlock[body, blocks[i], type_of(body, blocks[i].span)]])

extract_response(body) ==
  Fields(AnswerBlocks[body, ElementsOf[body, AtRoot(body, <<key_seg("content")>>)]])
=============================================================================
