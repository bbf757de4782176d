------------------------------ MODULE MCMasker ------------------------------
(***************************************************************************)
(* A small instance of Masker: up to three texts out of a pool that holds  *)
(* the cases the masker tells apart (repeated originals, several matches,  *)
(* user-written literals before and after the match they collide with, a   *)
(* literal that a rule matches, a blank placeholder, a failing scan).      *)
(***************************************************************************)
EXTENDS Masker

CONSTANTS a, b, x     \* characters

CONSTANTS MaxTexts,   \* texts in a request drawn from the whole pool
          MaxChunked  \* texts in a request that is chunked unevenly

MCChar        == {a, b, x}
MCLiteralType == {"E", "P"}
MCRule        == {"email", "phone", "blank"}
MCPlaceholder == [r \in MCRule |-> CASE r = "email" -> "E"
                                     [] r = "phone" -> "P"
                                     [] r = "blank" -> Blank]
MCDataType    == [r \in MCRule |-> CASE r = "email" -> 5
                                     [] r = "phone" -> 0
                                     [] r = "blank" -> 1]

E1 == <<"E", 1>>
E2 == <<"E", 2>>

Hit(s, e, r) == [start |-> s, end |-> e, rule |-> r]
Doc(t, ms)   == [text |-> t, matches |-> ms, throws |-> FALSE]

Plain == Doc(<<x, a>>, <<Hit(1, 2, "email")>>)
Fails == [text |-> <<x>>, matches |-> <<>>, throws |-> TRUE]

Pool == {
  Plain,
  Doc(<<b, x, a>>, <<Hit(0, 1, "email"), Hit(2, 3, "phone")>>),
  Doc(<<E1, x>>, <<>>),
  Doc(<<E1, E2, b>>, <<Hit(2, 3, "email")>>),
  Doc(<<E2, a, b>>, <<Hit(0, 1, "phone"), Hit(1, 3, "email")>>),
  Doc(<<a, b>>, <<Hit(0, 1, "blank"), Hit(1, 2, "email")>>),
  Fails
}

\* MaxChunked texts on fewer tasks: ranges of several texts, a short last one,
\* and a task whose range is empty.
MCInputs == UNION {[1..n -> Pool] : n \in 0..MaxTexts}
              \cup [1..MaxChunked -> {Plain, Fails}]
=============================================================================
