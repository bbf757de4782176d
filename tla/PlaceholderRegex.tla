-------------------------- MODULE PlaceholderRegex --------------------------
(***************************************************************************)
(* guard/PlaceholderRegex.hpp: the tolerant recognizer of one placeholder  *)
(* type, and the upper bound on the length of what it matches, which the   *)
(* Demasker holds back.                                                    *)
(*                                                                         *)
(* A pattern is a sequence of pieces.  A piece repeats an atom between     *)
(* `min' and `max' times; `strings' is what one copy of the atom matches   *)
(* under (?i), `width' what BoundedLengthParser charges for one copy.      *)
(***************************************************************************)
EXTENDS Naturals, SequencesExt

CONSTANTS
  Letter,    \* the letters of a placeholder name
  Bytes,     \* Letter -> the bytes of the letter as written
  Folds,     \* Letter -> every byte string the letter matches under (?i)
  WideFold,  \* the letters s, S, k and K
  Digit,     \* the digits a spelling may use, out of 0..9
  DigitByte, \* Digit -> its byte
  MaxDrift,  \* kMaxDrift
  IndexLen   \* kIndexLen

ASSUME RegexAssumption ==
  /\ \A c \in Letter : Bytes[c] \in Folds[c]
  /\ WideFold \subseteq Letter /\ Digit \subseteq 0..9
  /\ MaxDrift \in Nat /\ IndexLen \in Nat \ {0}

Space == {" "}
Sep   == {" ", "_", "-"}

\* Runs of "_" separate tokens; a name without a token is its own token.
split_on_underscore(name) ==
  LET finish(acc)  == IF acc.current = <<>> THEN acc.tokens ELSE Append(acc.tokens, acc.current)
      step(acc, c) == IF c = "_" THEN [tokens |-> finish(acc), current |-> <<>>]
                      ELSE [acc EXCEPT !.current = Append(@, c)]
      orWhole(tokens) == IF tokens = <<>> THEN <<name>> ELSE tokens
  IN  orWhole(finish(FoldLeft(step, [tokens |-> <<>>, current |-> <<>>], name)))

\* A bug: a letter is charged the bytes it is written with, folded or not.
rune_len_as_written(c) == Len(Bytes[c])

\* The charge for a literal letter: 3 when a wide rune folds to it.
consume_rune_len(c) == IF c \in WideFold THEN 3 ELSE Len(Bytes[c])

OneByte(c)          == [strings |-> {<<c>>}, width |-> 1, min |-> 1, max |-> 1]
Class(S, low, high) == [strings |-> {<<c>> : c \in S}, width |-> 1,
                        min |-> low, max |-> high]
LetterPiece(c)      == [strings |-> Folds[c], width |-> consume_rune_len(c),
                        min |-> 1, max |-> 1]
SepPiece            == Class(Sep, 0, MaxDrift)
SpacePiece          == Class(Space, 0, MaxDrift)
TokenPieces(token)  == [i \in 1..Len(token) |-> LetterPiece(token[i])]

\* The template: "<", the tokens with drift between them, the index, ">".
build_placeholder_pattern(name) ==
  LET joined(tokens) == [i \in 1..Len(tokens) |->
        (IF i > 1 THEN <<SepPiece>> ELSE <<>>) \o TokenPieces(tokens[i])]
      index == Class({DigitByte[d] : d \in Digit}, 1, IndexLen)
  IN  <<OneByte("<"), SpacePiece>> \o FlattenSeq(joined(split_on_underscore(name)))
        \o <<SepPiece, index, SpacePiece, OneByte(">")>>

\* BoundedLengthParser over the template: the sum of the pieces' bounds.
regex_max_len(pattern) ==
  FoldLeft(LAMBDA n, piece : n + piece.max * piece.width, 0, pattern)

Joins(A, B) == {a \o b : a \in A, b \in B}

\* Every byte string a sequence of pieces matches (RE2's part).
Language(pattern) ==
  LET copies(piece) ==
        LET power[n \in 0..piece.max] ==
              IF n = 0 THEN {<<>>} ELSE Joins(power[n-1], piece.strings)
        IN  UNION {power[n] : n \in piece.min..piece.max}
      upto[k \in 0..Len(pattern)] ==
        IF k = 0 THEN {<<>>} ELSE Joins(upto[k-1], copies(pattern[k]))
  IN  upto[Len(pattern)]

\* The value of a run of digits, leading zeros included.
DigitValue(b)   == CHOOSE d \in Digit : DigitByte[d] = b
IndexValue(run) == FoldLeft(LAMBDA n, b : 10 * n + DigitValue(b), 0, run)

IsDigit(b) == b \in {DigitByte[d] : d \in Digit}

\* The recognizer of `name': every form it matches, with the captured index.
\* The names of the model hold no digit, so the capture is all the digits.
Recognizer(name) ==
  [t \in Language(build_placeholder_pattern(name)) |-> IndexValue(SelectSeq(t, IsDigit))]
=============================================================================
