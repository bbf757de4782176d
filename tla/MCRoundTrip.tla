---------------------------- MODULE MCRoundTrip -----------------------------
(***************************************************************************)
(* RoundTrip with two rules, S and E.  Users write characters, values the  *)
(* rules match, and placeholder-shaped tokens.                             *)
(***************************************************************************)
EXTENDS RoundTrip

CONSTANTS a, x        \* characters of a text

CONSTANT MaxTexts     \* texts in a request

MCLetter    == {"S", "E"}
MCFolds     == [c \in MCLetter |-> IF c = "S" THEN {<<"S">>, <<"s">>, <<"L", "T">>}
                                             ELSE {<<"E">>, <<"e">>}]
MCIndex     == 0..4
MCDigitByte == [d \in MCIndex |-> <<"0", "1", "2", "3", "4">>[d+1]]

R == INSTANCE PlaceholderRegex WITH
       Letter <- MCLetter, Bytes <- [c \in MCLetter |-> <<c>>], Folds <- MCFolds,
       WideFold <- {"S"}, Digit <- MCIndex, DigitByte <- MCDigitByte,
       MaxDrift <- 1, IndexLen <- 1

MCChar        == {a, x}
MCLiteralType == {"S", "E", "e"}
MCRule        == {1, 2}
MCPlaceholder == <<"S", "E">>
MCDataType    == [r \in MCRule |-> r]

MCCanonical      == [r \in MCRule |-> [n \in MCIndex |->
                       <<"<", MCPlaceholder[r], "_", MCDigitByte[n], ">">>]]
MCRecognize      == [r \in MCRule |-> R!Recognizer(<<MCPlaceholder[r]>>)]
MCPlaceholderLen == [r \in MCRule |->
                       R!regex_max_len(R!build_placeholder_pattern(<<MCPlaceholder[r]>>))]
MCJsonEscape(s)  == s
MCRender(u)      == IF u = a THEN <<"a">> ELSE IF u = x THEN <<"x">>
                    ELSE <<"<", u[1], "_", MCDigitByte[u[2]], ">">>
MCRuneBytes      == [b \in {"<", ">", "_", "S", "E", "e", "0", "1", "2", "3", "4",
                            "x", "a"} |-> 1]

\* No form that a rule's recognizer takes is longer than its bound.
ASSUME MCForms == D!FormsFit([triggered |-> Rule, pinned |-> TRUE])

Hit(s, e, r) == [start |-> s, end |-> e, rule |-> r]
Doc(t, ms)   == [text |-> t, matches |-> ms, throws |-> FALSE]

\* Values; a literal beside a value, before and after; a literal that a rule
\* matches; adjacent values.
Pool == {
  Doc(<<x, a>>, <<Hit(1, 2, 2)>>),
  Doc(<<a, <<"E", 1>>>>, <<Hit(0, 1, 2)>>),
  Doc(<<<<"E", 2>>, x, a>>, <<Hit(0, 1, 1), Hit(1, 2, 1), Hit(2, 3, 2)>>),
  Doc(<<<<"S", 1>>, a, x>>, <<Hit(1, 2, 1), Hit(2, 3, 2)>>)
}

MCInputs == UNION {[1..n -> Pool] : n \in 1..MaxTexts}

\* A user writes <e_1> beside a value that becomes <E_1>.
LookalikeInputs == {<<Doc(<<<<"e", 1>>, a>>, <<Hit(1, 2, 2)>>)>>}
=============================================================================
