------------------------------- MODULE MCWire -------------------------------
(***************************************************************************)
(* Bodies are written from small trees, with and without white space; what *)
(* is scannable in them is read off the tree with one pattern per place    *)
(* that the wire formats document.  Malformed bodies differ from a valid   *)
(* one in one character.                                                   *)
(***************************************************************************)
EXTENDS Wire

Str(t)    == [kind |-> "str", text |-> t]
Word(w)   == Str(<<w>>)
Raw(cs)   == [kind |-> "raw", text |-> cs]
Arr(els)  == [kind |-> "arr", els |-> els]
Obj(ms)   == [kind |-> "obj", els |-> ms]
M(k, v)   == [key |-> <<k>>, value |-> v]

\* A text as an encoder writes it, one character outside of the basic plane
\* as a pair of escapes.
WriteText(t) ==
  <<Quote>> \o FlattenSeq([i \in DOMAIN t |->
     IF t[i] = "U+1F600" THEN <<Backslash, "u", High, Backslash, "u", Low>>
     ELSE encode_string(<<t[i]>>, FALSE)]) \o <<Quote>>

\* The document of a tree, ws following each comma and each colon.
RECURSIVE Write(_, _)
Write(t, ws) ==
  LET commas(parts) == FlattenSeq([i \in DOMAIN parts |->
                         (IF i = 1 THEN <<>> ELSE <<",">> \o ws) \o parts[i]])
  IN  CASE t.kind = "str" -> WriteText(t.text)
        [] t.kind = "raw" -> t.text
        [] t.kind = "arr" ->
             <<"[">> \o commas([i \in DOMAIN t.els |-> Write(t.els[i], ws)]) \o <<"]">>
        [] t.kind = "obj" ->
             <<"{">> \o commas([i \in DOMAIN t.els |->
                          WriteText(t.els[i].key) \o <<":">> \o ws
                          \o Write(t.els[i].value, ws)]) \o <<"}">>

\* The first member of each key.
Firsts(t) == {i \in DOMAIN t.els : \A j \in 1..(i - 1) : t.els[j].key # t.els[i].key}

TypeOf(t) ==
  LET at == {i \in Firsts(t) : t.els[i].key = <<"type">> /\ t.els[i].value.kind = "str"}
  IN  IF at = {} THEN <<>> ELSE t.els[Min(at)].value.text

\* Every node of a tree with its path and, for each step of the path, the
\* type of the object it is taken in and whether it is the first of its key.
RECURSIVE Nodes(_, _, _, _)
Nodes(t, path, types, firsts) ==
  {[path |-> path, types |-> types, firsts |-> firsts, node |-> t]} \cup
  CASE t.kind = "obj" -> UNION {Nodes(t.els[i].value, Append(path, KeySeg(t.els[i].key)),
                                      Append(types, TypeOf(t)), Append(firsts, i \in Firsts(t)))
                                : i \in DOMAIN t.els}
    [] t.kind = "arr" -> UNION {Nodes(t.els[i], Append(path, idx_seg(i - 1)),
                                      Append(types, <<>>), Append(firsts, TRUE))
                                : i \in DOMAIN t.els}
    [] OTHER -> {}

-----------------------------------------------------------------------------
(* Where the formats carry text.  A pattern is a sequence of keys, "*" for *)
(* an element; of restricts the type of the object a key is taken in, deep *)
(* takes everything below, raw takes an object.  Where a key occurs twice  *)
(* in an object, a pattern means the first member, as json/Json.hpp says   *)
(* of lookups; what is below a deep pattern has no such rule.              *)

AnyType == {<<>>} \cup {<<w>> : w \in {"text", "image", "tool_use", "tool_result",
  "thinking", "redacted_thinking", "function_call", "function_call_output", "message", "reasoning",
  "output_text", "input_text", "summary_text", "reasoning_text"}}

Pat(keys, of, deep, raw) == [keys |-> keys, of |-> of, deep |-> deep, raw |-> raw]
Text(keys, at, types) ==
  Pat(keys, [i \in DOMAIN keys |-> IF i = at THEN {<<w>> : w \in types} ELSE AnyType],
      FALSE, FALSE)
Plain(keys) == Text(keys, 0, {})

Patterns(format, side) ==
  CASE format = "ChatCompletions" /\ side = "request" ->
         {Plain(<<"messages", "*", "content">>),
          Text(<<"messages", "*", "content", "*", "text">>, 5, {"text"}),
          Plain(<<"messages", "*", "function_call", "arguments">>),
          Plain(<<"messages", "*", "tool_calls", "*", "function", "arguments">>)}
    [] format = "ChatCompletions" /\ side = "response" ->
         {Plain(<<"choices", "*", "message", k>>) :
            k \in {"content", "reasoning", "reasoning_content", "refusal"}}
         \cup {Plain(<<"choices", "*", "message", "function_call", "arguments">>),
               Plain(<<"choices", "*", "message", "tool_calls", "*", "function", "arguments">>)}
    [] format = "Messages" /\ side = "request" ->
         {Plain(<<"system">>), Text(<<"system", "*", "text">>, 3, {"text"}),
          Plain(<<"messages", "*", "content">>),
          Text(<<"messages", "*", "content", "*", "text">>, 5, {"text"}),
          [Text(<<"messages", "*", "content", "*", "input">>, 5, {"tool_use"})
             EXCEPT !.deep = TRUE],
          Text(<<"messages", "*", "content", "*", "content">>, 5, {"tool_result"}),
          LET p == Text(<<"messages", "*", "content", "*", "content", "*", "text">>, 7, {"text"})
          IN  [p EXCEPT !.of[5] = {<<"tool_result">>}]}
    [] format = "Messages" /\ side = "response" ->
         {Text(<<"content", "*", "text">>, 3, {"text"}),
          Text(<<"content", "*", "thinking">>, 3, {"thinking"}),
          [Text(<<"content", "*", "input">>, 3, {"tool_use"}) EXCEPT !.raw = TRUE]}
    [] format = "Responses" /\ side = "request" ->
         LET parts == {"output_text", "input_text", "text"}
             items == AnyType \ {<<"function_call">>, <<"function_call_output">>}
             in(keys, types) == [Text(keys, 5, parts) EXCEPT !.of[3] = types]
         IN  {Plain(<<"instructions">>), Plain(<<"input">>),
              Text(<<"input", "*", "arguments">>, 3, {"function_call"}),
              Text(<<"input", "*", "output">>, 3, {"function_call_output"}),
              [Plain(<<"input", "*", "content">>) EXCEPT !.of[3] = items],
              in(<<"input", "*", "output", "*", "text">>, {<<"function_call_output">>}),
              in(<<"input", "*", "content", "*", "text">>, items)}
    [] format = "Responses" /\ side = "response" ->
         LET in(key, type, part) ==
               [Text(<<"output", "*", key, "*", "text">>, 5, {part}) EXCEPT !.of[3] = {<<type>>}]
         IN  {Text(<<"output", "*", "arguments">>, 3, {"function_call"}),
              in("content", "message", "output_text"),
              in("summary", "reasoning", "summary_text"),
              in("content", "reasoning", "reasoning_text")}

Matches(n, p) ==
  /\ Len(n.path) = Len(p.keys) \/ (p.deep /\ Len(n.path) > Len(p.keys))
  /\ \A i \in DOMAIN p.keys :
       /\ n.firsts[i]
       /\ n.path[i].is_index <=> p.keys[i] = "*"
       /\ ~n.path[i].is_index => n.path[i].key = <<p.keys[i]>> /\ n.types[i] \in p.of[i]
  /\ IF p.raw THEN n.node.kind = "obj" /\ n.node.els # <<>>
     ELSE n.node.kind = "str" /\ n.node.text # <<>>

Message(format, side, tree, ws) ==
  [format |-> format, side |-> side, body |-> Write(tree, ws), well_formed |-> TRUE,
   scannable |-> {<<n.path, IF n.node.kind = "str" THEN n.node.text ELSE Write(n.node, ws)>> :
                    n \in {n \in Nodes(tree, <<>>, <<>>, <<>>) :
                             \E p \in Patterns(format, side) : Matches(n, p)}}]
-----------------------------------------------------------------------------
(* The bodies.  "s" is what the guard replaces.                            *)

T1 == <<"s">>
T2 == <<Quote, "s", "LF", "U+1F600", "U+2028">>

TextPart(ty) == Obj(<<M("type", Word(ty)), M("text", Str(T2))>>)

\* A part of type ty, one with two texts, and parts of other types.
Parts(ty) ==
  {TextPart(ty),
   Obj(<<M("text", Str(T1)), M("type", Word(ty)), M("text", Str(T2))>>),
   Obj(<<M("type", Word("image")), M("text", Str(T1))>>),
   Obj(<<M("type", Raw(<<"1">>)), M("text", Str(T1))>>),
   Str(T1)}

Contents(ty) ==
  {Str(T2), Str(<<>>), Raw(<<"null">>), Obj(<<M("text", Str(T1))>>), Arr(<<>>)}
  \cup {Arr(<<p, q>>) : p, q \in Parts(ty)}

Args(t)  == Obj(<<M("name", Word("f")), M("arguments", Str(t))>>)
Calls    == <<M("function_call", Args(T1)),
              M("tool_calls", Arr(<<Obj(<<M("function", Args(T2))>>), Raw(<<"null">>),
                                    Obj(<<M("function", Args(T1))>>)>>))>>
Msg(c)   == Obj(<<M("role", Word("user")), M("content", c)>>)
One(k, v) == Obj(<<M(k, v)>>)

ChatRequests ==
  {One("messages", Arr(<<Msg(c), Obj(Calls)>>)) : c \in Contents("text")}
  \cup {One("messages", Msg(Str(T1))), One("model", Str(T1)), Arr(<<Str(T1)>>)}
  \cup {Obj(<<M("stream", f), M("messages", Arr(<<Msg(Str(T1))>>))>>) :
          f \in {Raw(<<"true">>), Raw(<<"false">>), Raw(<<"null">>), Word("TRUE"), Word("s"),
                 Raw(<<"-", "0", ".", "1">>), Raw(<<"0", "e", "1">>)}}

ChatAnswers ==
  {One("choices", Arr(<<One("message", Obj(<<M("content", Str(T2)), M("refusal", c),
                                             M("reasoning", Str(T1))>> \o Calls)),
                        One("index", Raw(<<"0">>)), One("message", Msg(Str(T1)))>>)) :
     c \in {Str(T1), Str(<<>>), Raw(<<"null">>)}}
  \cup {One("choices", One("message", Msg(Str(T1))))}

Nested == Obj(<<M("a", Arr(<<Str(T2), Raw(<<"1">>), One("b", Str(T1))>>)), M("c", Str(<<>>))>>)

Doubled == Obj(<<M("a", Str(T1)), M("b", Obj(<<M("a", Str(T2))>>)), M("a", Str(T2)),
                 M("b", Obj(<<M("a", Str(T1)), M("a", Raw(<<"1">>))>>))>>)

Blocks ==
  Parts("text") \cup
  {Obj(<<M("type", Word("tool_use")), M("input", v)>>) :
     v \in {Nested, Doubled, Str(T1), Obj(<<>>), Raw(<<"null">>)}}
  \cup {Obj(<<M("content", c), M("type", Word("tool_result"))>>) :
          c \in {Str(T2), Arr(<<TextPart("text"), Str(T1)>>)}}
  \cup {Obj(<<M("type", Word("thinking")), M("thinking", Str(T1)), M("signature", Str(T1))>>),
        Obj(<<M("type", Word("redacted_thinking")), M("data", Str(T1))>>)}

MessagesRequests ==
  {Obj(<<M("system", c), M("messages", Arr(<<Msg(Str(T1))>>))>>) : c \in Contents("text")}
  \cup {One("messages", Arr(<<Msg(Arr(<<b, d>>))>>)) : b, d \in Blocks}
  \cup {One("messages", Str(T1)), One("prompt", Str(T1))}

MessagesAnswers ==
  {One("content", Arr(<<b, d>>)) : b \in Blocks, d \in {Str(T1), Nested}}
  \cup {One("content", Str(T1))}

Item(ty, k, v) == Obj(<<M("type", Word(ty)), M(k, v)>>)

ResponsesRequests ==
  {Obj(<<M("input", Arr(<<i, Msg(Str(T1))>>)), M("instructions", Str(T2))>>) :
     i \in {Item(ty, k, v) : ty \in {"function_call_output", "function_call", "message"},
                             k \in {"output", "arguments", "content"},
                             v \in Contents("input_text")}}
  \cup {One("input", c) : c \in Contents("output_text")}
  \cup {One("instructions", Raw(<<"null">>)), One("model", Str(T1))}

ResponsesAnswers ==
  {One("output", Arr(<<Item(ty, k, Arr(<<p>>)), Item("function_call", "arguments", Str(T2))>>)) :
     ty \in {"message", "reasoning", "web_search_call"}, k \in {"content", "summary"},
     p \in Parts("output_text") \cup Parts("summary_text") \cup Parts("reasoning_text")}
  \cup {One("output", Str(T1))}

Styles == {<<>>, <<" ">>}

WellFormed(format, side, trees) ==
  {Message(format, side, t, ws) : t \in trees, ws \in Styles}

\* Every document one character away from a valid one.
Alphabet == {"{", "}", "[", "]", ",", ":", Quote, Backslash, "s", "n", "u", High, "0", "1",
             "-", ".", "e", "true", " ", "LF"}
Corrupt(doc) ==
  UNION {{SubSeq(doc, 1, p - 1) \o <<c>> \o SubSeq(doc, p, Len(doc)),
          SubSeq(doc, 1, p - 1) \o <<c>> \o SubSeq(doc, p + 1, Len(doc)),
          SubSeq(doc, 1, p - 1)} : p \in 1..(Len(doc) + 1), c \in Alphabet}

Bases ==
  {Write(One("messages", Arr(<<One("content", Str(<<"s", "LF", "SOH">>)),
                               Raw(<<"-", "1", "0", ".", "0", "e", "+", "1">>)>>)), <<" ">>),
   Write(Arr(<<Arr(<<>>), Obj(<<>>), Raw(<<"null">>)>>), <<"LF">>)}

Malformed ==
  {[format |-> "ChatCompletions", side |-> "request", body |-> d, well_formed |-> FALSE,
    scannable |-> {}] : d \in UNION {Corrupt(b) : b \in Bases}}

MCRequests ==
  WellFormed("ChatCompletions", "request", ChatRequests)
  \cup WellFormed("Messages", "request", MessagesRequests)
  \cup WellFormed("Responses", "request", ResponsesRequests)
  \cup {Message(f, "request", Obj(<<>>), <<>>) : f \in ApiFormat}
  \cup Malformed

AnswersIn(format) ==
  CASE format = "ChatCompletions" -> WellFormed(format, "response", ChatAnswers)
    [] format = "Messages" -> WellFormed(format, "response", MessagesAnswers)
    [] format = "Responses" -> WellFormed(format, "response", ResponsesAnswers)

AllAnswers == [f \in ApiFormat |-> AnswersIn(f)]
NoText     == [f \in ApiFormat |-> {Message(f, "response", Obj(<<>>), <<>>)}]

\* How an answer is treated depends on its format and on nothing else of the
\* request: one request of each format gets all the answers.
MCAnswersTo(request) ==
  IF request.body = <<"{", "}">> THEN AllAnswers[request.format]
  ELSE NoText[request.format]

\* A placeholder goes out, the original comes back.
MCSubstitute(side, c) ==
  IF c # "s" THEN <<c>>
  ELSE IF side = "request" THEN <<"<E_1>">> ELSE <<Quote, "v", "LF">>
-----------------------------------------------------------------------------
(* The streams: an object with braces, quotes and backslashes in its       *)
(* strings, cut in two or three events, among other frames.                *)

Streamed == <<"{", Quote, "k", Quote, ":", Quote, "}", Backslash, Quote, "}", Backslash,
              Backslash, Quote, ",", Quote, "n", Quote, ":", "{", "}", "}">>

Frame(data, sep) == kDataPrefix \o data \o sep
Comment          == <<":", "s", "LF", "LF">>
Done             == kDataLinePrefix \o kDoneSentinel \o kFrameSepCRLF

Cut(i, j, a, b) ==
  Frame(SubSeq(Streamed, 1, i), a) \o Comment \o Frame(SubSeq(Streamed, i + 1, j), b)
  \o (IF j = Len(Streamed) THEN <<>> ELSE Frame(Drop(Streamed, j), a)) \o Done

MCStreams ==
  {Cut(i, Len(Streamed), a, b) : i \in 1..(Len(Streamed) - 1),
     a, b \in {kFrameSepLF, kFrameSepCRLF}}
  \cup {Cut(i, j, kFrameSepCRLF, kFrameSepLF) : i \in {6, 8}, j \in {11, 12, 19}}
  \* one event of two data lines, an event without data, and no end
  \cup {Frame(SubSeq(Streamed, 1, 5), <<"CR", "LF">>) \o Frame(Drop(Streamed, 5), kFrameSepLF)
        \o kDataLinePrefix \o kFrameSepLF \o <<"LF">> \o kDataLinePrefix}

MCKeyOf(data) == Head(data)
-----------------------------------------------------------------------------
(* The grammar of RFC 8259, rule by rule.                                  *)

AllDigits(s) == s # <<>> /\ ToSet(s) \subseteq Digits

\* [ minus ] int [ frac ] [ exp ]
IsNumber(s) ==
  \E i, f, e \in 0..Len(s) :
    LET minus == SubSeq(s, 1, i)
        int   == SubSeq(s, i + 1, f)
        frac  == SubSeq(s, f + 1, e)
        exp   == SubSeq(s, e + 1, Len(s))
        digits == IF Len(exp) > 1 /\ exp[2] \in {"+", "-"} THEN Drop(exp, 2) ELSE Drop(exp, 1)
    IN  /\ i <= f /\ f <= e /\ minus \in {<<>>, <<"-">>}
        /\ int = <<"0">> \/ (AllDigits(int) /\ int[1] # "0")
        /\ frac = <<>> \/ (frac[1] = "." /\ AllDigits(Tail(frac)))
        /\ exp = <<>> \/ (exp[1] = "e" /\ AllDigits(digits))

RECURSIVE IsChars(_)
IsChars(s) ==
  \/ s = <<>>
  \/ /\ Head(s) \notin Controls \cup {Quote, Backslash} /\ IsChars(Tail(s))
  \/ /\ Len(s) >= 2 /\ s[1] = Backslash /\ s[2] \in DOMAIN Unescape /\ IsChars(Drop(s, 2))
  \/ /\ Len(s) >= 3 /\ s[1] = Backslash /\ s[2] = "u" /\ s[3] \in Hex4 /\ IsChars(Drop(s, 3))

IsString(s) ==
  Len(s) >= 2 /\ Head(s) = Quote /\ Last(s) = Quote /\ IsChars(SubSeq(s, 2, Len(s) - 1))

Strip(s) ==
  LET ink == {i \in DOMAIN s : s[i] \notin Ws}
  IN  IF ink = {} THEN <<>> ELSE SubSeq(s, Min(ink), Max(ink))

RECURSIVE IsJson(_), IsItem(_, _), IsList(_, _)

\* An element of an array, or a member of an object.
IsItem(bracket, s) ==
  \/ bracket = "[" /\ IsJson(s)
  \/ /\ bracket = "{"
     /\ \E k \in DOMAIN s : /\ s[k] = ":" /\ IsString(Strip(SubSeq(s, 1, k - 1)))
                            /\ IsJson(Drop(s, k))

\* One or more items, with a comma between two.
IsList(bracket, s) ==
  \/ IsItem(bracket, s)
  \/ \E k \in DOMAIN s : /\ s[k] = "," /\ IsItem(bracket, SubSeq(s, 1, k - 1))
                         /\ IsList(bracket, Drop(s, k))

IsJson(doc) ==
  LET s      == Strip(doc)
      inside == SubSeq(s, 2, Len(s) - 1)
  IN  /\ s # <<>>
      /\ \/ Len(s) = 1 /\ s[1] \in Literals
         \/ IsNumber(s) \/ IsString(s)
         \/ /\ Len(s) >= 2 /\ <<s[1], Last(s)>> \in {<<"[", "]">>, <<"{", "}">>}
            /\ Strip(inside) = <<>> \/ IsList(s[1], inside)

\* The scanner accepts what the grammar of RFC 8259 derives and nothing else:
\* not a trailing comma, a leading zero, a lone escape, a raw control
\* character or anything after the value.
ValidIsJson ==
  phase = "arrived" => (valid(msg.body) <=> msg.well_formed \/ IsJson(msg.body))
=============================================================================
