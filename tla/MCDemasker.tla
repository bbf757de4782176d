----------------------------- MODULE MCDemasker -----------------------------
(***************************************************************************)
(* Two rules, S_K (two tokens whose letters fold to a 2-byte and a 3-byte  *)
(* rune) and E.  A response is put together from fragments that each have  *)
(* a meaning of their own, so that what the client should read is known    *)
(* without running the demasker.                                           *)
(***************************************************************************)
EXTENDS Demasker, PlaceholderRegex

CONSTANT MaxFragments  \* fragments in a response

\* "L" and "W" start a 2-byte and a 3-byte rune, "T" continues one.
MCLetter    == {"S", "K", "E"}
MCBytes     == [c \in MCLetter |-> <<c>>]
MCFolds     == [c \in MCLetter |->
                  CASE c = "S" -> {<<"S">>, <<"s">>, <<"L", "T">>}
                    [] c = "K" -> {<<"K">>, <<"k">>, <<"W", "T", "T">>}
                    [] c = "E" -> {<<"E">>, <<"e">>}]
MCWideFold  == {"S", "K"}
MCDigit     == 0..2
MCDigitByte == [d \in MCDigit |-> CASE d = 0 -> "0" [] d = 1 -> "1" [] d = 2 -> "2"]

MCRuneBytes ==
  [b \in {"<", ">", " ", "_", "-", "S", "s", "K", "k", "E", "e", "0", "1", "2",
          "x", "q", "b", "L", "W", "T"} |->
     CASE b = "L" -> 2 [] b = "W" -> 3 [] b = "T" -> 0 [] OTHER -> 1]

MCRule      == {1, 2}
MCName      == <<<<"S", "_", "K">>, <<"E">>>>
MCCanonical == [r \in MCRule |-> [n \in MCDigit |->
                  <<"<">> \o MCName[r] \o <<"_", MCDigitByte[n], ">">>]]
MCRecognize == [r \in MCRule |-> Recognizer(MCName[r])]
MCPlaceholderLen ==
  [r \in MCRule |-> regex_max_len(build_placeholder_pattern(MCName[r]))]

\* "q" stands for a quote, "b" for the backslash that escapes it.
MCJsonEscape(s) ==
  FlattenSeq([i \in 1..Len(s) |-> IF s[i] = "q" THEN <<"b", "q">> ELSE <<s[i]>>])

SK1 == MCCanonical[1][1]
E1  == MCCanonical[2][1]
Rep(p, o) == [placeholder |-> p, original |-> o]

\* A repeated and a blank placeholder are among the replacements.
Reps == <<Rep(SK1, <<"x", "L", "T">>), Rep(<<>>, <<"x">>),
          Rep(E1, <<"q">>), Rep(E1, <<"x", "x">>)>>

\* The tables a response is demasked with: all rules; for a single fragment
\* also rule 2 only, and no snapshot.
Table(rules, pin) == [replacements |-> Reps, triggered |-> rules, pinned |-> pin]
Tables(n) == {Table({1, 2}, TRUE)}
               \cup (IF n = 1 THEN {Table({2}, TRUE), Table({1, 2}, FALSE)} ELSE {})

\* The originals of these tables are apart from the placeholders and the forms.
ASSUME MCTables == \A t \in Tables(1) : TableApart(t)

\* A fragment: its bytes, the placeholder it spells (<<>> for plain text), and
\* the rule whose recognizer it takes (0 when it is the literal itself).
Frag(w, p, r) == [bytes |-> w, spells |-> p, via |-> r]

Pool == {
  Frag(<<"x">>, <<>>, 0),
  Frag(<<"L", "T">>, <<>>, 0),
  Frag(<<"<">>, <<>>, 0),
  Frag(SK1, SK1, 0),
  Frag(E1, E1, 0),
  Frag(<<"<", " ", "L", "T", "-", "W", "T", "T", "_", "1", " ", ">">>, SK1, 1),
  Frag(<<"<", "s", "K", "1", ">">>, SK1, 1),
  Frag(<<"<", "e", " ", "1", ">">>, E1, 2),
  Frag(<<"<", "E", "_", "2", ">">>, <<>>, 0),
  Frag(<<"<", "e", "0", ">">>, <<>>, 0)
}

Responses == UNION {[1..n -> Pool] : n \in 1..MaxFragments}

MCStreams ==
  UNION {{[bytes |-> FlattenSeq([i \in 1..Len(f) |-> f[i].bytes]), fragments |-> f,
    replacements |-> t.replacements, triggered |-> t.triggered, pinned |-> t.pinned] :
   t \in Tables(Len(f))} : f \in Responses}

Shown(o) == IF json_ctx THEN MCJsonEscape(o) ELSE o

\* What the client should read for a fragment.
Meaning(f) ==
  IF f.spells = <<>> \/ (f.via # 0 /\ f.via \notin cfg.rules) THEN f.bytes
  ELSE IF f.spells = SK1 THEN Shown(<<"x", "L", "T">>) ELSE Shown(<<"q">>)

\* However the response is cut into chunks, the client reads every minted
\* placeholder, literal or paraphrased, as its original, and everything else
\* untouched (the hold-back of demask_chunk, utf8 trimming included).
StreamRestored ==
  closed /\ ~faulted =>
    emitted = FlattenSeq([i \in 1..Len(stream.fragments) |->
                            Meaning(stream.fragments[i])])
=============================================================================
