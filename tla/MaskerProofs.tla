---------------------------- MODULE MaskerProofs ----------------------------
(***************************************************************************)
(* Proofs about Masker, for every set of rules, request and number of      *)
(* tasks.                                                                  *)
(***************************************************************************)
EXTENDS Masker, SequenceTheorems, WellFoundedInduction, TLAPS

-----------------------------------------------------------------------------
(* Facts about the input and the chunking.                                 *)

\* The texts and matches of a request have their types, and a match lies
\* inside its text.
LEMMA InputTypes ==
  ASSUME NEW in \in Inputs, NEW i \in 1..Len(in)
  PROVE  /\ in[i].text \in Seq(Unit) /\ Len(in[i].text) \in Nat
         /\ in[i].matches \in Seq(Match) /\ Len(in[i].matches) \in Nat
         /\ in[i].throws \in BOOLEAN
         /\ \A k \in 1..Len(in[i].matches) :
              LET m == in[i].matches[k]
              IN  /\ m.start \in Nat /\ m.end \in Nat /\ m.rule \in Rule
                  /\ m.start <= m.end /\ m.end <= Len(in[i].text)
  <1>1. in \in Request
    BY MaskerAssumption
  <1>2. in[i] \in [text : Text, matches : Seq(Match), throws : BOOLEAN]
    BY <1>1, ElementOfSeq DEF Request
  <1>3. /\ in[i].text \in Seq(Unit)
        /\ in[i].matches \in Seq(Match)
        /\ in[i].throws \in BOOLEAN
    BY <1>2 DEF Text
  <1>4. \A k \in 1..Len(in[i].matches) : in[i].matches[k] \in Match
    BY <1>3, ElementOfSeq
  <1>5. InBounds(in[i])
    BY MaskerAssumption
  <1> QED
    BY <1>3, <1>4, <1>5, LenProperties DEF Match, InBounds

\* Division of naturals.
LEMMA DivNat ==
  ASSUME NEW m \in Nat, NEW n \in Nat \ {0}
  PROVE  m \div n \in Nat /\ n * (m \div n) <= m /\ m < n * (m \div n) + n
  <1>1. m \div n \in Int
    OBVIOUS
  <1>2. m = n * (m \div n) + (m % n) /\ m % n \in 0..(n-1)
    OBVIOUS
  <1> QED
    BY <1>1, <1>2

\* text_scan_worker_count is at least 1 and at most hardware_concurrency.
LEMMA WorkerCount ==
  ASSUME NEW in \in Inputs
  PROVE  /\ Len(in) \in Nat
         /\ text_scan_worker_count(in) \in 1..Hardware
         /\ ChunkSize(in) \in Nat
  <1>1. Len(in) \in Nat
    BY MaskerAssumption, LenProperties DEF Request
  <1>2. text_scan_worker_count(in) \in 1..Hardware
    BY <1>1, MaskerAssumption DEF text_scan_worker_count, Least
  <1>3. Len(in) + text_scan_worker_count(in) - 1 \in Nat
    BY <1>1, <1>2, MaskerAssumption
  <1>4. ChunkSize(in) \in Nat
    BY <1>2, <1>3, DivNat DEF ChunkSize
  <1> QED
    BY <1>1, <1>2, <1>4
-----------------------------------------------------------------------------
(* Type correctness.                                                       *)

\* mask_text's cursor stays inside the text, so substr never throws.
CursorInText == text_no <= Len(input) => pos <= Len(input[text_no].text)

TInv == TypeOK /\ CursorInText

\* What a step that handles a match knows about it.
LEMMA MatchFacts ==
  ASSUME TInv, AtMatch
  PROVE  /\ text_no \in 1..Len(input)
         /\ ThisText \in Seq(Unit) /\ Len(ThisText) \in Nat
         /\ ThisMatch.start \in Nat /\ ThisMatch.end \in Nat
         /\ ThisMatch.rule \in Rule
         /\ ThisMatch.start <= ThisMatch.end /\ ThisMatch.end <= Len(ThisText)
         /\ Original \in Text
         /\ ~Skipped => /\ pos <= ThisMatch.start
                        /\ TypeName \in LiteralType
                        /\ Candidate \in Literal
                        /\ SubSeq(ThisText, pos + 1, ThisMatch.start) \in Seq(Unit)
  <1>1. input \in Inputs /\ Len(input) \in Nat
    BY WorkerCount DEF TInv, TypeOK
  <1>2. text_no \in 1..Len(input)
    BY <1>1 DEF TInv, TypeOK, AtMatch
  <1>3. /\ match_no \in 1..Len(input[text_no].matches)
        /\ ThisMatch = input[text_no].matches[match_no]
    <2>1. CASE results[text_no] = "ok"
      BY <1>1, <1>2, <2>1, InputTypes DEF TInv, TypeOK, AtMatch, Matches, ThisMatch
    <2>2. CASE results[text_no] # "ok"
      BY <2>2 DEF TInv, TypeOK, AtMatch, Matches
    <2> QED
      BY <2>1, <2>2
  <1>4. /\ ThisText \in Seq(Unit) /\ Len(ThisText) \in Nat
        /\ ThisMatch.start \in Nat /\ ThisMatch.end \in Nat
        /\ ThisMatch.rule \in Rule
        /\ ThisMatch.start <= ThisMatch.end /\ ThisMatch.end <= Len(ThisText)
    BY <1>1, <1>2, <1>3, InputTypes DEF ThisText
  <1>5. Original \in Text
    <2>1. ThisMatch.start + 1 \in 1..(Len(ThisText) + 1)
      BY <1>4
    <2>2. ThisMatch.end \in ((ThisMatch.start + 1) - 1)..Len(ThisText)
      BY <1>4
    <2> QED
      BY <1>4, <2>1, <2>2, SubSeqProperties DEF Original, Text
  <1>6. ASSUME ~Skipped
        PROVE  /\ pos <= ThisMatch.start
               /\ TypeName \in LiteralType
               /\ Candidate \in Literal
               /\ SubSeq(ThisText, pos + 1, ThisMatch.start) \in Seq(Unit)
    <2>1. pos \in Nat /\ pos <= ThisMatch.start
      BY <1>4, <1>6 DEF Skipped, TInv, TypeOK
    <2>2. TypeName \in LiteralType
      BY <1>4, <1>6, MaskerAssumption DEF Skipped, TypeName
    <2>3. Candidate \in Literal
      BY <2>2 DEF Candidate, Literal, TInv, TypeOK
    <2>4. pos + 1 \in 1..(Len(ThisText) + 1)
      BY <1>4, <2>1
    <2>5. ThisMatch.start \in ((pos + 1) - 1)..Len(ThisText)
      BY <1>4, <2>1
    <2>6. SubSeq(ThisText, pos + 1, ThisMatch.start) \in Seq(Unit)
      BY <1>4, <2>4, <2>5, SubSeqProperties
    <2> QED
      BY <2>1, <2>2, <2>3, <2>6
  <1> QED
    BY <1>2, <1>4, <1>5, <1>6

\* Splicing any literal keeps the types of what it assigns.
LEMMA SpliceTypes ==
  ASSUME TInv, AtMatch, ~Skipped, NEW p \in Literal, Splice(p)
  PROVE  /\ seen_rules' \subseteq Rule
         /\ seen_data_types' \subseteq 1..6
         /\ out' \in Text
         /\ pos' \in Nat /\ pos' <= Len(ThisText)
         /\ match_no' \in Nat \ {0}
  <1>1. p \in Unit /\ out \in Seq(Unit)
    BY DEF Unit, TInv, TypeOK, Text
  <1>2. out \o SubSeq(ThisText, pos + 1, ThisMatch.start) \in Seq(Unit)
    BY <1>1, MatchFacts, ConcatProperties
  <1>3. out' \in Text
    BY <1>1, <1>2, AppendProperties DEF Splice, Text
  <1>4. /\ seen_rules' \subseteq Rule
        /\ seen_data_types' \subseteq 1..6
    BY MatchFacts DEF Splice, TInv, TypeOK, is_triggerable_data_type
  <1>5. pos' \in Nat /\ pos' <= Len(ThisText)
    BY MatchFacts DEF Splice
  <1>6. match_no' \in Nat \ {0}
    BY SMTT(60) DEF Splice, TInv, TypeOK
  <1> QED
    BY <1>3, <1>4, <1>5, <1>6

\* A call starts with every variable typed and the cursor at the start.
LEMMA InitTypes == Init => TInv
  <1> SUFFICES ASSUME Init PROVE TInv
    OBVIOUS
  <1>1. input \in Inputs /\ Len(input) \in Nat /\ ChunkSize(input) \in Nat
    BY WorkerCount DEF Init
  <1>2. next \in [1..Hardware -> Nat]
    <2>1. \A w \in 1..Hardware : (w - 1) * ChunkSize(input) + 1 \in Nat
      BY <1>1, MaskerAssumption
    <2> QED
      BY <2>1 DEF Init, ChunkBegin
  <1>3. /\ results \in [1..Len(input) -> {"none", "ok", "error"}]
        /\ placeholder_counters \in [LiteralType -> Nat]
    BY DEF Init
  <1>4. /\ out \in Text /\ replacements \in Seq(Replacement)
        /\ masked_texts \in Seq(Text)
    BY EmptySeq DEF Init, Text
  <1>5. /\ DOMAIN original_to_placeholder \subseteq Text
        /\ original_to_placeholder \in [DOMAIN original_to_placeholder -> Literal]
    BY DEF Init
  <1>6. CursorInText
    <2> SUFFICES ASSUME text_no <= Len(input) PROVE pos <= Len(input[text_no].text)
      BY DEF CursorInText
    <2>1. 1 \in 1..Len(input)
      BY <1>1 DEF Init
    <2> QED
      BY <1>1, <2>1, InputTypes DEF Init
  <1> QED
    BY <1>1, <1>2, <1>3, <1>4, <1>5, <1>6 DEF Init, TypeOK, TInv

\* The scan steps touch nothing of Phase B.
LEMMA ScanTypes ==
  ASSUME TInv, Scan \/ \E w \in 1..Hardware : ScanTask(w)
  PROVE  TInv'
  <1>1. input \in Inputs /\ Len(input) \in Nat
    BY WorkerCount DEF TInv, TypeOK
  <1>2. /\ UNCHANGED <<input, stateVars, textVars>>
        /\ phase' \in {"scan", "unwind", "mask", "done", "failed"}
        /\ launched' \in Nat /\ failed_at' \in Nat
        /\ next' \in [1..Hardware -> Nat]
        /\ results' \in [1..Len(input) -> {"none", "ok", "error"}]
    <2>1. CASE ScanSerial
      <3>1. /\ UNCHANGED <<input, phase, launched, failed_at, stateVars, textVars>>
            /\ results' \in [1..Len(input) -> {"none", "ok", "error"}]
        BY <1>1, <2>1 DEF ScanSerial, Outcome, TInv, TypeOK
      <3>2. next' \in [1..Hardware -> Nat]
        <4>1. next \in [1..Hardware -> Nat] /\ 1 \in 1..Hardware /\ next[1] \in Nat
          <5>1. next \in [1..Hardware -> Nat]
            BY DEF TInv, TypeOK
          <5>2. 1 \in 1..Hardware
            BY MaskerAssumption
          <5> QED
            BY <5>1, <5>2
        <4>2. (IF input[next[1]].throws THEN Len(input) + 1 ELSE next[1] + 1) \in Nat
          BY <1>1, <4>1
        <4>3. next' = [next EXCEPT ![1] =
                 IF input[@].throws THEN Len(input) + 1 ELSE @ + 1]
          BY <2>1 DEF ScanSerial
        <4> QED
          BY <4>1, <4>2, <4>3
      <3> QED
        BY <3>1, <3>2 DEF TInv, TypeOK
    <2>2. CASE LaunchTask
      BY <2>2 DEF LaunchTask, TInv, TypeOK, stateVars, textVars
    <2>3. CASE LaunchFails \/ UnwindLaunch \/ BeginMasking
      BY <2>3 DEF LaunchFails, UnwindLaunch, BeginMasking, TInv, TypeOK,
                  scanVars, stateVars, textVars
    <2>4. CASE propagate_first_scan_error
      BY <1>1, <2>4 DEF propagate_first_scan_error, TInv, TypeOK, stateVars, textVars
    <2>5. CASE \E w \in 1..Hardware : ScanTask(w)
      <3>1. PICK w \in 1..Hardware : ScanTask(w)
        BY <2>5
      <3>2. /\ UNCHANGED <<input, phase, launched, failed_at, stateVars, textVars>>
            /\ results' \in [1..Len(input) -> {"none", "ok", "error"}]
        BY <1>1, <3>1 DEF ScanTask, Outcome, TInv, TypeOK
      <3>3. next' \in [1..Hardware -> Nat]
        BY <3>1, SMTT(60) DEF ScanTask, TInv, TypeOK
      <3> QED
        BY <3>2, <3>3 DEF TInv, TypeOK
    <2> QED
      BY <2>1, <2>2, <2>3, <2>4, <2>5 DEF Scan
  <1> QED
    BY <1>2 DEF TInv, TypeOK, CursorInText, stateVars, textVars

\* The masking steps touch nothing of Phase A.
LEMMA MaskTypes ==
  ASSUME TInv, Mask
  PROVE  TInv'
  <1>1. input \in Inputs /\ Len(input) \in Nat
    BY WorkerCount DEF TInv, TypeOK
  <1>2. CASE SkipMatch
    <2>1. match_no' \in Nat \ {0}
      <3>1. match_no' = match_no + 1
        BY <1>2 DEF SkipMatch
      <3>2. match_no \in Nat \ {0}
        BY DEF TInv, TypeOK
      <3> QED
        BY <3>1, <3>2
    <2>2. UNCHANGED <<input, phase, scanVars, stateVars, text_no, pos, out, masked_texts>>
      BY <1>2 DEF SkipMatch
    <2> QED
      BY <2>1, <2>2 DEF TInv, TypeOK, CursorInText, scanVars, stateVars
  <1>3. CASE ReusePlaceholder
    <2>1. AtMatch /\ ~Skipped /\ original_to_placeholder[Original] \in Literal
      BY <1>3 DEF ReusePlaceholder, TInv, TypeOK
    <2>2. /\ seen_rules' \subseteq Rule /\ seen_data_types' \subseteq 1..6
          /\ out' \in Text /\ pos' \in Nat /\ pos' <= Len(ThisText)
          /\ match_no' \in Nat \ {0}
      BY <1>3, <2>1, SpliceTypes DEF ReusePlaceholder
    <2> QED
      BY <1>3, <2>2 DEF ReusePlaceholder, TInv, TypeOK, CursorInText, scanVars, ThisText
  <1>4. CASE SkipReserved
    <2>1. AtMatch /\ ~Skipped
      BY <1>4 DEF SkipReserved
    <2>2. TypeName \in LiteralType
      BY <2>1, MatchFacts
    <2>3. placeholder_counters \in [LiteralType -> Nat]
      BY DEF TInv, TypeOK
    <2>4. placeholder_counters' = [placeholder_counters EXCEPT ![TypeName] = @ + 1]
      BY <1>4 DEF SkipReserved
    <2>5. placeholder_counters' \in [LiteralType -> Nat]
      BY <2>2, <2>3, <2>4
    <2>6. UNCHANGED <<input, phase, scanVars, original_to_placeholder, seen_rules,
                      seen_data_types, replacements, textVars>>
      BY <1>4 DEF SkipReserved
    <2>7. TypeOK' /\ CursorInText'
      BY <2>5, <2>6 DEF TInv, TypeOK, CursorInText, scanVars, textVars
    <2> QED
      BY <2>7 DEF TInv
  <1>5. CASE MintPlaceholder
    <2>1. AtMatch /\ ~Skipped /\ Candidate \in Literal /\ Original \in Text
          /\ TypeName \in LiteralType /\ ThisMatch.rule \in Rule
      BY <1>5, MatchFacts DEF MintPlaceholder
    <2>2. /\ seen_rules' \subseteq Rule /\ seen_data_types' \subseteq 1..6
          /\ out' \in Text /\ pos' \in Nat /\ pos' <= Len(ThisText)
          /\ match_no' \in Nat \ {0}
      BY <1>5, <2>1, SpliceTypes DEF MintPlaceholder
    <2>3. /\ DOMAIN original_to_placeholder' \subseteq Text
          /\ original_to_placeholder' \in [DOMAIN original_to_placeholder' -> Literal]
      BY <1>5, <2>1 DEF MintPlaceholder, TInv, TypeOK
    <2>4. replacements' \in Seq(Replacement)
      <3>1. [rule |-> ThisMatch.rule, original |-> Original, placeholder |-> Candidate]
              \in Replacement
        BY <2>1 DEF Replacement
      <3> QED
        BY <1>5, <3>1, AppendProperties DEF MintPlaceholder, TInv, TypeOK
    <2>5. placeholder_counters' \in [LiteralType -> Nat]
      BY <1>5, <2>1, SMTT(60) DEF MintPlaceholder, TInv, TypeOK
    <2> QED
      BY <1>5, <2>2, <2>3, <2>4, <2>5
         DEF MintPlaceholder, TInv, TypeOK, CursorInText, scanVars, ThisText
  <1>6. CASE FinishText
    <2>1. text_no \in 1..Len(input)
      BY <1>1, <1>6 DEF FinishText, TInv, TypeOK
    <2>2. ThisText \in Seq(Unit) /\ Len(ThisText) \in Nat /\ pos <= Len(ThisText)
      BY <1>1, <2>1, InputTypes DEF ThisText, TInv, CursorInText
    <2>3. SubSeq(ThisText, pos + 1, Len(ThisText)) \in Seq(Unit)
      <3>1. \A k \in (pos + 1)..Len(ThisText) : ThisText[k] \in Unit
        BY <2>2, ElementOfSeq DEF TInv, TypeOK
      <3> QED
        BY <2>2, <3>1, SubSeqProperties DEF TInv, TypeOK
    <2>4. out \o SubSeq(ThisText, pos + 1, Len(ThisText)) \in Text
      BY <2>3, ConcatProperties DEF TInv, TypeOK, Text
    <2>5. masked_texts' \in Seq(Text)
      BY <1>6, <2>4, AppendProperties DEF FinishText, TInv, TypeOK
    <2>6. out' \in Text
      BY <1>6, EmptySeq DEF FinishText, Text
    <2>7. CursorInText'
      <3>1. input' = input /\ pos' = 0 /\ text_no' = text_no + 1
        BY <1>6 DEF FinishText
      <3>2. ASSUME text_no + 1 <= Len(input) PROVE 0 <= Len(input[text_no + 1].text)
        <4>1. text_no + 1 \in 1..Len(input)
          BY <1>1, <2>1, <3>2
        <4> QED
          BY <1>1, <4>1, InputTypes
      <3> QED
        BY <3>1, <3>2 DEF CursorInText
    <2> QED
      <3>1. text_no' \in Nat \ {0} /\ match_no' \in Nat \ {0} /\ pos' \in Nat
        <4>1. text_no' = text_no + 1 /\ match_no' = 1 /\ pos' = 0
          BY <1>6 DEF FinishText
        <4> QED
          BY <1>1, <2>1, <4>1
      <3>2. UNCHANGED <<input, phase, scanVars, stateVars>>
        BY <1>6 DEF FinishText
      <3>3. TypeOK'
        BY <2>5, <2>6, <3>1, <3>2 DEF TInv, TypeOK, scanVars, stateVars
      <3> QED
        BY <2>7, <3>3 DEF TInv
  <1>7. CASE Return
    BY <1>7 DEF Return, TInv, TypeOK, CursorInText, scanVars, stateVars, textVars
  <1> QED
    BY <1>2, <1>3, <1>4, <1>5, <1>6, <1>7 DEF Mask

\* TypeOK, and with it the cursor bound, holds in every reachable state.
THEOREM TypeCorrect == Spec => [](TypeOK /\ CursorInText)
  <1>1. Init => TInv
    BY InitTypes
  <1>2. TInv /\ [Next]_vars => TInv'
    <2> SUFFICES ASSUME TInv, [Next]_vars PROVE TInv'
      OBVIOUS
    <2>1. CASE UNCHANGED vars
      BY <2>1 DEF vars, TInv, TypeOK, CursorInText, scanVars, stateVars, textVars
    <2>2. CASE Finished
      BY <2>1, <2>2 DEF Finished
    <2> QED
      BY <2>1, <2>2, ScanTypes, MaskTypes DEF Next
  <1>3. TInv => TypeOK /\ CursorInText
    BY DEF TInv
  <1> QED
    BY <1>1, <1>2, <1>3, PTL DEF Spec
-----------------------------------------------------------------------------
(* The dedup map can be inverted.                                          *)

\* No placeholder of the map has an index the counter of its TYPE has not
\* reached: what makes the next candidate fresh.
CountersAhead ==
  \A o \in DOMAIN original_to_placeholder :
    original_to_placeholder[o][2] <= placeholder_counters[original_to_placeholder[o][1]]

MapInv == CountersAhead /\ PlaceholdersInjective /\ NeverReserved /\ ReplacementsAreTheMap

mapVars == <<input, original_to_placeholder, placeholder_counters, replacements>>

\* Only two steps touch the map, the counters or the replacements.
LEMMA MapSteps ==
  ASSUME [Next]_vars
  PROVE  UNCHANGED mapVars \/ SkipReserved \/ MintPlaceholder
  <1>1. CASE UNCHANGED vars \/ Finished
    BY <1>1 DEF vars, Finished, stateVars, mapVars
  <1>2. CASE Scan
    BY <1>2 DEF Scan, ScanSerial, LaunchTask, LaunchFails, UnwindLaunch,
                propagate_first_scan_error, BeginMasking, stateVars, mapVars
  <1>3. CASE \E w \in 1..Hardware : ScanTask(w)
    BY <1>3 DEF ScanTask, stateVars, mapVars
  <1>4. CASE Mask
    BY <1>4 DEF Mask, SkipMatch, ReusePlaceholder, FinishText, Return, stateVars, mapVars
  <1> QED
    BY <1>1, <1>2, <1>3, <1>4 DEF Next

\* Counting one TYPE on leaves every counter where it was or above.
LEMMA CountersGrow ==
  ASSUME NEW S, NEW c \in [S -> Nat], NEW t \in S, NEW u \in S
  PROVE  /\ [c EXCEPT ![t] = @ + 1][u] \in Nat
         /\ c[u] \in Nat /\ c[u] <= [c EXCEPT ![t] = @ + 1][u]
  OBVIOUS

\* A candidate is different from every placeholder of the map.
LEMMA CandidateFresh ==
  ASSUME TInv, CountersAhead, TypeName \in LiteralType,
         NEW o \in DOMAIN original_to_placeholder
  PROVE  original_to_placeholder[o] # Candidate
  <1>1. placeholder_counters[TypeName] \in Nat
    BY DEF TInv, TypeOK
  <1>2. original_to_placeholder[o] = Candidate
          => placeholder_counters[TypeName] + 1 <= placeholder_counters[TypeName]
    BY DEF CountersAhead, Candidate
  <1> QED
    BY <1>1, <1>2

\* Skipping a reserved value moves one counter on and keeps MapInv.
LEMMA SkipKeepsMap ==
  ASSUME TInv, MapInv, SkipReserved
  PROVE  MapInv'
  <1>1. AtMatch /\ ~Skipped /\ TypeName \in LiteralType
    BY MatchFacts DEF SkipReserved
  <1>2. /\ UNCHANGED <<input, original_to_placeholder, replacements>>
        /\ placeholder_counters' = [placeholder_counters EXCEPT ![TypeName] = @ + 1]
    BY DEF SkipReserved
  <1>3. CountersAhead'
    <2> SUFFICES ASSUME NEW o \in DOMAIN original_to_placeholder
                 PROVE  original_to_placeholder[o][2]
                          <= placeholder_counters'[original_to_placeholder[o][1]]
      BY <1>2 DEF CountersAhead
    <2>1. original_to_placeholder[o] \in Literal
      BY DEF TInv, TypeOK
    <2>2. /\ original_to_placeholder[o][1] \in LiteralType
          /\ original_to_placeholder[o][2] \in Nat
      BY <2>1 DEF Literal
    <2>3. original_to_placeholder[o][2] <= placeholder_counters[original_to_placeholder[o][1]]
      BY DEF MapInv, CountersAhead
    <2>4. placeholder_counters \in [LiteralType -> Nat]
      BY DEF TInv, TypeOK
    <2>5. /\ placeholder_counters[original_to_placeholder[o][1]] \in Nat
          /\ placeholder_counters'[original_to_placeholder[o][1]] \in Nat
          /\ placeholder_counters[original_to_placeholder[o][1]]
               <= placeholder_counters'[original_to_placeholder[o][1]]
      BY <1>1, <1>2, <2>2, <2>4, CountersGrow
    <2> QED
      BY <2>2, <2>3, <2>5
  <1>4. PlaceholdersInjective'
    BY <1>2 DEF MapInv, PlaceholdersInjective
  <1>5. NeverReserved'
    <2>1. reserved_placeholders' = reserved_placeholders
      BY <1>2 DEF reserved_placeholders, LiteralsIn
    <2> QED
      BY <1>2, <2>1 DEF MapInv, NeverReserved
  <1>6. ReplacementsAreTheMap'
    BY <1>2 DEF MapInv, ReplacementsAreTheMap
  <1> QED
    BY <1>3, <1>4, <1>5, <1>6 DEF MapInv

\* Minting a placeholder keeps MapInv: the candidate is fresh, not reserved,
\* and recorded with its original.
LEMMA MintKeepsMap ==
  ASSUME TInv, MapInv, MintPlaceholder
  PROVE  MapInv'
  <1> DEFINE f == original_to_placeholder
             D == DOMAIN original_to_placeholder
             r == [rule |-> ThisMatch.rule, original |-> Original,
                   placeholder |-> Candidate]
  <1>1. /\ AtMatch /\ ~Skipped /\ TypeName \in LiteralType /\ Candidate \in Literal
        /\ Original \in Text /\ ThisMatch.rule \in Rule
    BY MatchFacts DEF MintPlaceholder
  <1>2. /\ Original \notin D /\ Candidate \notin reserved_placeholders
        /\ input' = input
        /\ placeholder_counters' = [placeholder_counters EXCEPT ![TypeName] = @ + 1]
        /\ f' = [o \in D \cup {Original} |-> IF o = Original THEN Candidate ELSE f[o]]
        /\ replacements' = Append(replacements, r)
    BY DEF MintPlaceholder
  <1>3. /\ DOMAIN f' = D \cup {Original}
        /\ f'[Original] = Candidate
        /\ \A o \in D : f'[o] = f[o]
    BY <1>2
  <1>4. \A o \in D : f[o] # Candidate
    BY <1>1, CandidateFresh DEF MapInv
  <1>5. CountersAhead'
    <2> SUFFICES ASSUME NEW o \in D \cup {Original}
                 PROVE  f'[o][2] <= placeholder_counters'[f'[o][1]]
      BY <1>3 DEF CountersAhead
    <2>1. placeholder_counters \in [LiteralType -> Nat]
      BY DEF TInv, TypeOK
    <2>2. CASE o = Original
      <3>1. f'[o][1] = TypeName /\ f'[o][2] = placeholder_counters[TypeName] + 1
        BY <1>3, <2>2 DEF Candidate
      <3>2. placeholder_counters'[TypeName] = placeholder_counters[TypeName] + 1
        BY <1>1, <1>2, <2>1
      <3>3. placeholder_counters[TypeName] \in Nat
        BY <1>1, <2>1
      <3> QED
        BY <3>1, <3>2, <3>3
    <2>3. CASE o \in D
      <3>1. f[o] \in Literal
        BY <2>3 DEF TInv, TypeOK
      <3>2. f[o][1] \in LiteralType /\ f[o][2] \in Nat
        BY <3>1 DEF Literal
      <3>3. f[o][2] <= placeholder_counters[f[o][1]]
        BY <2>3 DEF MapInv, CountersAhead
      <3>4. f'[o] = f[o]
        BY <1>3, <2>3
      <3>5. /\ placeholder_counters[f[o][1]] \in Nat
            /\ placeholder_counters'[f[o][1]] \in Nat
            /\ placeholder_counters[f[o][1]] <= placeholder_counters'[f[o][1]]
        BY <1>1, <1>2, <2>1, <3>2, CountersGrow
      <3> QED
        BY <3>2, <3>3, <3>4, <3>5
    <2> QED
      BY <2>2, <2>3
  <1>6. PlaceholdersInjective'
    BY <1>3, <1>4 DEF MapInv, PlaceholdersInjective
  <1>7. NeverReserved'
    <2>1. reserved_placeholders' = reserved_placeholders
      BY <1>2 DEF reserved_placeholders, LiteralsIn
    <2> QED
      BY <1>2, <1>3, <2>1 DEF MapInv, NeverReserved
  <1>8. ReplacementsAreTheMap'
    <2>1. r \in Replacement /\ replacements \in Seq(Replacement)
      BY <1>1 DEF Replacement, TInv, TypeOK
    <2>2. /\ Len(replacements) \in Nat
          /\ Len(replacements') = Len(replacements) + 1
          /\ \A k \in 1..Len(replacements) : replacements'[k] = replacements[k]
          /\ replacements'[Len(replacements) + 1] = r
      BY <1>2, <2>1, AppendProperties, LenProperties
    <2>3. /\ \A k \in 1..Len(replacements) :
                 /\ replacements[k].original \in D
                 /\ replacements[k].placeholder = f[replacements[k].original]
          /\ \A k, l \in 1..Len(replacements) :
                 replacements[k].original = replacements[l].original => k = l
          /\ \A o \in D : \E k \in 1..Len(replacements) : replacements[k].original = o
      BY DEF MapInv, ReplacementsAreTheMap
    <2>4. \A k \in 1..Len(replacements') :
            /\ replacements'[k].original \in DOMAIN f'
            /\ replacements'[k].placeholder = f'[replacements'[k].original]
      BY <1>3, <2>2, <2>3
    <2>5. \A k, l \in 1..Len(replacements') :
            replacements'[k].original = replacements'[l].original => k = l
      BY <1>2, <2>2, <2>3
    <2>6. \A o \in DOMAIN f' :
            \E k \in 1..Len(replacements') : replacements'[k].original = o
      <3> SUFFICES ASSUME NEW o \in D \cup {Original}
                   PROVE  \E k \in 1..Len(replacements') : replacements'[k].original = o
        BY <1>3
      <3>1. CASE o = Original
        <4>1. Len(replacements) + 1 \in 1..Len(replacements')
          BY <2>2
        <4> QED
          BY <2>2, <3>1, <4>1
      <3>2. CASE o \in D
        <4>1. PICK k \in 1..Len(replacements) : replacements[k].original = o
          BY <2>3, <3>2
        <4>2. k \in 1..Len(replacements')
          BY <2>2
        <4> QED
          BY <2>2, <4>1, <4>2
      <3> QED
        BY <3>1, <3>2
    <2> QED
      BY <2>4, <2>5, <2>6 DEF ReplacementsAreTheMap
  <1> QED
    BY <1>5, <1>6, <1>7, <1>8 DEF MapInv

\* No placeholder whose TYPE is made of word characters occurs anywhere in the
\* texts of the request, before or after the text it is minted in.  Of a TYPE
\* with other characters the collision guard sees no literal.
MintedAbsent ==
  \A o \in DOMAIN original_to_placeholder :
    original_to_placeholder[o][1] \in WordType =>
      \A i \in 1..Len(input) : \A k \in 1..Len(input[i].text) :
        input[i].text[k] # original_to_placeholder[o]

\* A literal of such a TYPE that occurs in a text is among the reserved ones.
LEMMA ReservedUnseen ==
  ASSUME TypeOK, NeverReserved
  PROVE  MintedAbsent
  <1> SUFFICES ASSUME NEW o \in DOMAIN original_to_placeholder,
                      original_to_placeholder[o][1] \in WordType,
                      NEW i \in 1..Len(input), NEW k \in 1..Len(input[i].text),
                      input[i].text[k] = original_to_placeholder[o]
               PROVE  FALSE
    BY DEF MintedAbsent
  <1>1. original_to_placeholder[o] \in LiteralType \X Nat
    BY DEF TypeOK, Literal
  <1>2. original_to_placeholder[o] \in WordType \X Nat
    BY <1>1
  <1>3. original_to_placeholder[o] \in LiteralsIn(input[i].text)
    BY <1>2 DEF LiteralsIn
  <1> QED
    BY <1>3 DEF NeverReserved, reserved_placeholders

\* For every request: distinct originals have distinct placeholders, none that
\* the collision guard can see occurs in a text of the request, and the
\* replacement list is the map.
THEOREM MapInvertible ==
  Spec => [](PlaceholdersInjective /\ MintedAbsent /\ ReplacementsAreTheMap)
  <1>1. Init => MapInv
    BY DEF Init, MapInv, CountersAhead, PlaceholdersInjective, NeverReserved,
           ReplacementsAreTheMap
  <1>2. TInv /\ MapInv /\ [Next]_vars => MapInv'
    <2> SUFFICES ASSUME TInv, MapInv, [Next]_vars PROVE MapInv'
      OBVIOUS
    <2>1. CASE UNCHANGED mapVars
      BY <2>1, SMTT(60) DEF mapVars, MapInv, CountersAhead, PlaceholdersInjective, NeverReserved,
                  ReplacementsAreTheMap, reserved_placeholders, LiteralsIn
    <2> QED
      BY <2>1, MapSteps, SkipKeepsMap, MintKeepsMap
  <1>3. TInv /\ MapInv => PlaceholdersInjective /\ MintedAbsent /\ ReplacementsAreTheMap
    BY ReservedUnseen DEF MapInv, TInv
  <1>4. Spec => []TInv
    BY TypeCorrect, PTL DEF TInv
  <1> QED
    BY <1>1, <1>2, <1>3, <1>4, PTL DEF Spec
-----------------------------------------------------------------------------
(* Every text is scanned, by exactly the tasks that are joined.            *)

\* Multiplication by a positive number reflects the order.
LEMMA TimesOrder ==
  ASSUME NEW m \in Nat, NEW n \in Nat, NEW c \in Nat \ {0}, m * c < n * c
  PROVE  m < n
  <1> SUFFICES ASSUME n <= m PROVE FALSE
    OBVIOUS
  <1>1. PICK d \in Nat : m = n + d
    <2>1. m - n \in Nat /\ m = n + (m - n)
      OBVIOUS
    <2> QED
      BY <2>1
  <1>2. m * c = n * c + d * c
    BY <1>1
  <1>3. d * c \in Nat /\ n * c \in Nat
    BY <1>1
  <1> QED
    BY <1>2, <1>3

\* scan_texts' ranges: when the launch loop ends, every text belongs to the
\* range of a task that was started.
LEMMA ChunksCover ==
  ASSUME NEW in \in Inputs, ~Serial(in), NEW k \in Nat, k + 1 \notin Tasks(in),
         NEW i \in 1..Len(in)
  PROVE  \E w \in 1..k : i \in ChunkBegin(in, w)..ChunkEnd(in, w)
  <1> DEFINE n == Len(in)
             W == text_scan_worker_count(in)
             C == ChunkSize(in)
             w == ((i - 1) \div C) + 1
  <1>1. n \in Nat /\ W \in Nat \ {0} /\ C \in Nat /\ i \in Nat \ {0} /\ i <= n
    BY WorkerCount, MaskerAssumption
  <1>2. C \in Nat \ {0} /\ n <= W * C
    <2>1. n + W - 1 \in Nat /\ n + W - 1 < W * C + W
      <3>1. n + W - 1 \in Nat
        BY <1>1
      <3>2. C = (n + W - 1) \div W
        BY DEF ChunkSize
      <3> HIDE DEF n, W, C
      <3> QED
        BY <1>1, <3>1, <3>2, DivNat
    <2>2. W * C \in Nat
      BY <1>1
    <2>3. n <= W * C
      BY <1>1, <2>1, <2>2, SMTT(60)
    <2>4. C # 0
      BY <1>1, <2>3
    <2> QED
      BY <1>1, <2>3, <2>4
  <1>3. /\ w \in Nat \ {0}
        /\ (w - 1) * C <= i - 1
        /\ i - 1 < (w - 1) * C + C
    <2>1. i - 1 \in Nat
      BY <1>1
    <2>2. /\ (i - 1) \div C \in Nat
          /\ C * ((i - 1) \div C) <= i - 1
          /\ i - 1 < C * ((i - 1) \div C) + C
      BY <1>2, <2>1, DivNat
    <2>3. w - 1 = (i - 1) \div C
      BY <2>2
    <2>4. C * (w - 1) = (w - 1) * C
      BY <1>2, <2>2, <2>3
    <2> QED
      BY <2>2, <2>3, <2>4
  <1> HIDE DEF w, C, W, n
  <1>4. /\ (w - 1) * C \in Nat
        /\ w * C = (w - 1) * C + C
    BY <1>2, <1>3
  <1>5. i \in ChunkBegin(in, w)..ChunkEnd(in, w)
    <2>1. ChunkBegin(in, w) = (w - 1) * C + 1 /\ ChunkEnd(in, w) = Least(n, w * C)
      BY DEF ChunkBegin, ChunkEnd, C, n
    <2>2. i <= w * C /\ w * C \in Nat
      BY <1>1, <1>2, <1>3, <1>4
    <2>3. i <= Least(n, w * C) /\ Least(n, w * C) \in Nat
      BY <1>1, <2>2 DEF Least
    <2> QED
      BY <1>1, <1>3, <1>4, <2>1, <2>3
  <1>6. w - 1 < W
    <2>1. (w - 1) * C < W * C
      BY <1>1, <1>2, <1>3, <1>4
    <2>2. w - 1 \in Nat
      BY <1>3
    <2> QED
      BY <1>1, <1>2, <2>1, <2>2, TimesOrder
  <1>7. w \in 1..k
    <2>1. CASE k + 1 > W
      BY <1>1, <1>3, <1>6, <2>1
    <2>2. CASE k + 1 <= W
      <3>1. ChunkBegin(in, k + 1) > ChunkEnd(in, k + 1)
        <4>1. k + 1 \in 1..W
          BY <1>1, <2>2
        <4>2. /\ ChunkBegin(in, k + 1) \in Nat /\ ChunkEnd(in, k + 1) \in Nat
          <5>1. /\ ((k + 1) - 1) * C + 1 \in Nat /\ (k + 1) * C \in Nat
            BY <1>2
          <5> QED
            BY <1>1, <5>1 DEF ChunkBegin, ChunkEnd, Least, C, n
        <4>3. ~(ChunkBegin(in, k + 1) <= ChunkEnd(in, k + 1))
          BY <4>1 DEF Tasks, W
        <4> QED
          BY <4>2, <4>3
      <3>2. ChunkBegin(in, k + 1) = k * C + 1 /\ ChunkEnd(in, k + 1) = Least(n, (k + 1) * C)
        <4>1. (k + 1) - 1 = k
          OBVIOUS
        <4> QED
          BY <4>1 DEF ChunkBegin, ChunkEnd, C, n
      <3>3. k * C \in Nat /\ (k + 1) * C = k * C + C
        BY <1>2
      <3>4. k * C + 1 > n
        BY <1>1, <1>2, <3>1, <3>2, <3>3 DEF Least
      <3>5. (w - 1) * C < k * C
        BY <1>1, <1>3, <1>4, <3>3, <3>4
      <3>6. w - 1 < k
        BY <1>2, <1>3, <3>5, TimesOrder
      <3> QED
        BY <1>3, <3>6
    <2> QED
      BY <1>1, <2>1, <2>2
  <1> QED
    BY <1>5, <1>7

\* The results a task or the serial loop has written so far, and what they say.
ScanProgress ==
  /\ next[1] > 0
  /\ launched <= Hardware
  /\ Serial(input) => launched = 0
  /\ ~Serial(input) =>
       \A w \in 1..Hardware : w > launched => next[w] = ChunkBegin(input, w)
  /\ \A i \in 1..Len(input) :
       /\ results[i] = "error" => input[i].throws
       /\ results[i] = "ok" => ~input[i].throws
  /\ \A w \in 1..launched : \A i \in 1..Len(input) :
       i \in ChunkBegin(input, w)..ChunkEnd(input, w) /\ i < next[w]
         => results[i] # "none"
  /\ Serial(input) =>
       \A i \in 1..Len(input) :
         i < next[1] /\ results[i] = "none"
           => \E j \in 1..(i-1) : results[j] = "error"

ScanInv == ScanProgress /\ EveryTextScanned /\ NoTaskOutlivesScan /\ LowestErrorWins

\* ScanTask(w) writes the result of the text its task is at.
LEMMA TaskScans ==
  ASSUME TInv, ScanInv, NEW v \in 1..Hardware, ScanTask(v)
  PROVE  ScanInv'
  <1>1. input \in Inputs /\ Len(input) \in Nat
    BY WorkerCount DEF TInv, TypeOK
  <1>2. /\ v \in 1..launched /\ ~TaskDone(v) /\ next[v] \in Nat
        /\ results' = [results EXCEPT ![next[v]] = Outcome(next[v])]
        /\ next' = [next EXCEPT ![v] = @ + 1]
        /\ UNCHANGED <<input, phase, launched, failed_at>>
    BY DEF ScanTask, TInv, TypeOK
  <1>3. /\ results \in [1..Len(input) -> {"none", "ok", "error"}]
        /\ next \in [1..Hardware -> Nat] /\ launched \in Nat
    BY DEF TInv, TypeOK
  <1>4. ~Serial(input) /\ phase \notin {"mask", "done", "failed"}
    <2>1. ~AllJoined
      BY <1>2 DEF AllJoined
    <2> QED
      BY <1>2, <1>3, <2>1 DEF ScanInv, ScanProgress, NoTaskOutlivesScan
  <1>5. \A i \in 1..Len(input) :
          results'[i] = IF i = next[v] THEN Outcome(i) ELSE results[i]
    BY <1>2, <1>3
  <1>6. ScanProgress'
    <2>1. \A i \in 1..Len(input) :
            /\ results'[i] = "error" => input[i].throws
            /\ results'[i] = "ok" => ~input[i].throws
      BY <1>5 DEF ScanInv, ScanProgress, Outcome
    <2>2. ASSUME NEW w \in 1..launched, NEW i \in 1..Len(input),
                 i \in ChunkBegin(input, w)..ChunkEnd(input, w), i < next'[w]
          PROVE  results'[i] # "none"
      <3>1. CASE i = next[v]
        BY <1>5, <3>1 DEF Outcome
      <3>2. CASE i # next[v]
        <4>1. i < next[w]
          BY <1>1, <1>2, <1>3, <2>2, <3>2
        <4>2. results[i] # "none"
          BY <2>2, <4>1 DEF ScanInv, ScanProgress
        <4> QED
          BY <1>5, <3>2, <4>2
      <3> QED
        BY <3>1, <3>2
    <2>3. next'[1] > 0
      <3>1. 1 \in 1..Hardware /\ next[1] \in Nat /\ next[1] > 0
        BY <1>3, MaskerAssumption DEF ScanInv, ScanProgress
      <3> QED
        BY <1>2, <1>3, <3>1
    <2>4. \A w \in 1..Hardware : w > launched => next'[w] = ChunkBegin(input, w)
      <3> SUFFICES ASSUME NEW w \in 1..Hardware, w > launched
                   PROVE  next'[w] = ChunkBegin(input, w)
        OBVIOUS
      <3>1. w # v
        BY <1>2, <1>3
      <3> QED
        BY <1>2, <1>3, <1>4, <3>1 DEF ScanInv, ScanProgress
    <2>5. input' = input /\ launched' = launched /\ Serial(input)' = Serial(input)
      BY <1>2 DEF Serial, text_scan_worker_count, TotalSize
    <2>6. /\ ~Serial(input)'
          /\ \A w : /\ ChunkBegin(input, w)' = ChunkBegin(input, w)
                    /\ ChunkEnd(input, w)' = ChunkEnd(input, w)
      BY <1>2, <1>4, <2>5 DEF ChunkBegin, ChunkEnd, ChunkSize, text_scan_worker_count, TotalSize
    <2> QED
      BY <1>4, <2>1, <2>2, <2>3, <2>4, <2>5, <2>6 DEF ScanInv, ScanProgress
  <1>7. (EveryTextScanned /\ NoTaskOutlivesScan)'
    BY <1>2, <1>4 DEF EveryTextScanned, NoTaskOutlivesScan
  <1>8. LowestErrorWins'
    BY <1>2 DEF ScanInv, LowestErrorWins
  <1> QED
    BY <1>6, <1>7, <1>8 DEF ScanInv

\* The serial loop writes the result of the next text, and stops at a failure.
LEMMA SerialScans ==
  ASSUME TInv, ScanInv, ScanSerial
  PROVE  ScanInv'
  <1>1. input \in Inputs /\ Len(input) \in Nat /\ 1 \in 1..Hardware
    BY WorkerCount, MaskerAssumption DEF TInv, TypeOK
  <1>2. /\ phase = "scan" /\ Serial(input) /\ next[1] <= Len(input)
        /\ results' = [results EXCEPT ![next[1]] = Outcome(next[1])]
        /\ next' = [next EXCEPT ![1] = IF input[@].throws THEN Len(input) + 1 ELSE @ + 1]
        /\ UNCHANGED <<input, phase, launched, failed_at>>
    BY DEF ScanSerial
  <1>3. /\ results \in [1..Len(input) -> {"none", "ok", "error"}]
        /\ next \in [1..Hardware -> Nat] /\ launched = 0
    BY <1>2 DEF TInv, TypeOK, ScanInv, ScanProgress
  <1> DEFINE t == next[1]
  <1>4. /\ t \in Nat
        /\ next'[1] = IF input[t].throws THEN Len(input) + 1 ELSE t + 1
        /\ \A i \in 1..Len(input) :
             results'[i] = IF i = t THEN Outcome(i) ELSE results[i]
    BY <1>1, <1>2, <1>3
  <1>5. \A i \in 1..Len(input) :
          /\ results'[i] = "error" => input[i].throws
          /\ results'[i] = "ok" => ~input[i].throws
    BY <1>4 DEF ScanInv, ScanProgress, Outcome
  <1>6. ASSUME NEW i \in 1..Len(input), i < next'[1], results'[i] = "none"
        PROVE  \E j \in 1..(i-1) : results'[j] = "error"
    <2>1. i # t /\ results[i] = "none"
      BY <1>4, <1>6 DEF Outcome
    <2>2. CASE i < t
      <3>1. PICK j \in 1..(i-1) : results[j] = "error"
        BY <1>2, <2>1, <2>2 DEF ScanInv, ScanProgress
      <3>2. j \in 1..Len(input) /\ j # t
        BY <1>1, <1>4, <2>2
      <3> QED
        BY <1>4, <3>1, <3>2
    <2>3. CASE t < i
      <3>1. input[t].throws
        BY <1>4, <1>6, <2>3
      <3>2. t \in 1..(i-1) /\ t \in 1..Len(input)
        BY <1>1, <1>4, <2>3 DEF ScanInv, ScanProgress
      <3>3. results'[t] = "error"
        BY <1>4, <3>1, <3>2 DEF Outcome
      <3> QED
        BY <3>2, <3>3
    <2> QED
      BY <1>4, <2>1, <2>2, <2>3
  <1>7. ScanProgress'
    <2>1. next'[1] > 0
      BY <1>1, <1>4
    <2> QED
      BY <1>2, <1>3, <1>5, <1>6, <2>1, MaskerAssumption
         DEF ScanProgress, Serial
  <1>8. (EveryTextScanned /\ NoTaskOutlivesScan /\ LowestErrorWins)'
    BY <1>2 DEF ScanInv, EveryTextScanned, NoTaskOutlivesScan, LowestErrorWins
  <1> QED
    BY <1>7, <1>8 DEF ScanInv

\* The launch loop starts the next task, which has scanned nothing yet.
LEMMA LaunchScans ==
  ASSUME TInv, ScanInv, LaunchTask
  PROVE  ScanInv'
  <1> DEFINE v == launched + 1
  <1>1. input \in Inputs /\ Len(input) \in Nat /\ text_scan_worker_count(input) \in 1..Hardware
    BY WorkerCount DEF TInv, TypeOK
  <1>2. /\ phase = "scan" /\ ~Serial(input) /\ v \in Tasks(input) /\ launched' = v
        /\ UNCHANGED <<input, phase, next, results, failed_at>>
    BY DEF LaunchTask
  <1>3. launched \in Nat /\ v \in 1..Hardware
    BY <1>1, <1>2, MaskerAssumption, SMTT(60) DEF Tasks, TInv, TypeOK
  <1>4. next[v] = ChunkBegin(input, v)
    BY <1>2, <1>3 DEF ScanInv, ScanProgress
  <1>5. ASSUME NEW w \in 1..v, NEW i \in 1..Len(input),
               i \in ChunkBegin(input, w)..ChunkEnd(input, w), i < next[w]
        PROVE  results[i] # "none"
    <2>1. w # v
      <3>1. next \in [1..Hardware -> Nat]
        BY DEF TInv, TypeOK
      <3> QED
        BY <1>3, <1>4, <1>5, <3>1
    <2>2. w \in 1..launched
      BY <1>3, <2>1
    <2> QED
      BY <1>5, <2>2 DEF ScanInv, ScanProgress
  <1>6. ScanProgress'
    BY <1>2, <1>3, <1>5
       DEF ScanInv, ScanProgress, Serial, text_scan_worker_count, TotalSize,
           ChunkBegin, ChunkEnd, ChunkSize
  <1> QED
    BY <1>2, <1>6 DEF ScanInv, EveryTextScanned, NoTaskOutlivesScan, LowestErrorWins

\* When scan_texts returns, a text without a result follows a failing one.
LEMMA ScannedResults ==
  ASSUME TInv, ScanInv, Scanned, NEW i \in 1..Len(input), results[i] = "none"
  PROVE  \E j \in 1..(i-1) : results[j] = "error"
  <1>1. input \in Inputs /\ Len(input) \in Nat /\ launched \in Nat
    BY WorkerCount DEF TInv, TypeOK
  <1>2. CASE Serial(input)
    <2>1. next[1] \in Nat /\ next[1] > Len(input)
      BY <1>2, MaskerAssumption, SMTT(60) DEF Scanned, TInv, TypeOK
    <2>2. i < next[1]
      BY <1>1, <2>1
    <2> QED
      BY <1>2, <2>2 DEF ScanInv, ScanProgress
  <1>3. CASE ~Serial(input)
    <2>1. launched + 1 \notin Tasks(input) /\ AllJoined
      BY <1>3 DEF Scanned
    <2>2. PICK w \in 1..launched : i \in ChunkBegin(input, w)..ChunkEnd(input, w)
      BY <1>1, <1>3, <2>1, ChunksCover
    <2>3. next[w] > ChunkEnd(input, w)
      BY <2>1 DEF AllJoined, TaskDone
    <2>4. w \in 1..Hardware
      <3>1. launched <= Hardware
        BY <1>1 DEF ScanInv, ScanProgress
      <3> QED
        BY <1>1, <3>1, MaskerAssumption
    <2>5. next[w] \in Nat
      BY <2>4 DEF TInv, TypeOK
    <2>6. ChunkEnd(input, w) \in Nat
      <3>1. w * ChunkSize(input) \in Nat
        BY <1>1, WorkerCount
      <3> QED
        BY <1>1, <3>1 DEF ChunkEnd, Least
    <2>7. i < next[w]
      BY <1>1, <2>2, <2>3, <2>5, <2>6
    <2> QED
      BY <2>2, <2>7 DEF ScanInv, ScanProgress
  <1> QED
    BY <1>2, <1>3

\* The steps that end Phase A.
LEMMA ScanEnds ==
  ASSUME TInv, ScanInv,
         LaunchFails \/ UnwindLaunch \/ propagate_first_scan_error \/ BeginMasking
  PROVE  ScanInv'
  <1>1. input \in Inputs /\ Len(input) \in Nat
        /\ results \in [1..Len(input) -> {"none", "ok", "error"}]
    BY WorkerCount DEF TInv, TypeOK
  <1>2. UNCHANGED <<input, launched, next, results>>
    BY DEF LaunchFails, UnwindLaunch, propagate_first_scan_error, BeginMasking, scanVars
  <1>3. ScanProgress' /\ (AllJoined <=> AllJoined')
    BY <1>2 DEF ScanInv, ScanProgress, AllJoined, TaskDone, Serial,
                text_scan_worker_count, TotalSize, ChunkBegin, ChunkEnd, ChunkSize
  <1>4. CASE LaunchFails
    BY <1>2, <1>3, <1>4 DEF LaunchFails, scanVars, ScanInv, EveryTextScanned,
                            NoTaskOutlivesScan, LowestErrorWins
  <1>5. CASE UnwindLaunch
    BY <1>2, <1>3, <1>5 DEF UnwindLaunch, scanVars, ScanInv, EveryTextScanned,
                            NoTaskOutlivesScan, LowestErrorWins
  <1>6. ASSUME Scanned PROVE AllJoined
    BY <1>6 DEF ScanInv, ScanProgress, Scanned, AllJoined
  <1>7. CASE propagate_first_scan_error
    <2>1. /\ Scanned /\ phase' = "failed"
          /\ \E i \in 1..Len(input) : IsFirstError(i) /\ failed_at' = i
      BY <1>7 DEF propagate_first_scan_error
    <2>2. PICK i \in 1..Len(input) : IsFirstError(i) /\ failed_at' = i
      BY <2>1
    <2>3. input[i].throws
      BY <2>2 DEF IsFirstError, ScanInv, ScanProgress
    <2>4. ASSUME NEW j \in 1..(i-1) PROVE ~input[j].throws
      <3>1. j \in 1..Len(input) /\ results[j] # "error"
        BY <1>1, <2>2, <2>4 DEF IsFirstError
      <3>2. results[j] # "none"
        <4> SUFFICES ASSUME results[j] = "none" PROVE FALSE
          OBVIOUS
        <4>1. PICK h \in 1..(j-1) : results[h] = "error"
          BY <2>1, <3>1, ScannedResults
        <4>2. h \in 1..(i-1)
          BY <1>1, <3>1
        <4> QED
          BY <2>2, <4>1, <4>2 DEF IsFirstError
      <3> QED
        BY <1>1, <3>1, <3>2 DEF ScanInv, ScanProgress
    <2>5. LowestErrorWins'
      BY <1>1, <1>2, <2>2, <2>3, <2>4 DEF LowestErrorWins
    <2> QED
      BY <1>3, <1>6, <2>1, <2>5 DEF ScanInv, EveryTextScanned, NoTaskOutlivesScan
  <1>8. CASE BeginMasking
    <2>1. /\ Scanned /\ phase' = "mask" /\ failed_at' = failed_at
          /\ \A i \in 1..Len(input) : results[i] # "error"
      BY <1>8 DEF BeginMasking, scanVars
    <2>2. \A i \in 1..Len(input) : results[i] = "ok"
      <3> SUFFICES ASSUME NEW i \in 1..Len(input), results[i] = "none" PROVE FALSE
        BY <1>1, <2>1
      <3>1. PICK j \in 1..(i-1) : results[j] = "error"
        BY <2>1, ScannedResults
      <3>2. j \in 1..Len(input)
        BY <1>1
      <3> QED
        BY <2>1, <3>1, <3>2
    <2> QED
      BY <1>2, <1>3, <1>6, <2>1, <2>2 DEF ScanInv, EveryTextScanned,
                                          NoTaskOutlivesScan, LowestErrorWins
  <1> QED
    BY <1>4, <1>5, <1>7, <1>8

\* The invariant of Phase A holds in every reachable state.
LEMMA ScanInvariant == Spec => []ScanInv
  <1>1. Init => ScanInv
    <2> SUFFICES ASSUME Init PROVE ScanInv
      OBVIOUS
    <2>1. /\ 1 \in 1..Hardware /\ Len(input) \in Nat /\ ChunkSize(input) \in Nat
          /\ next[1] = (1 - 1) * ChunkSize(input) + 1
      BY WorkerCount, MaskerAssumption DEF Init, ChunkBegin
    <2>2. next[1] = 1
      BY <2>1
    <2>3. ScanProgress
      BY <2>1, <2>2, MaskerAssumption DEF Init, ScanProgress
    <2> QED
      BY <2>3 DEF Init, ScanInv, EveryTextScanned, NoTaskOutlivesScan, LowestErrorWins
  <1>2. TInv /\ ScanInv /\ [Next]_vars => ScanInv'
    <2> SUFFICES ASSUME TInv, ScanInv, [Next]_vars PROVE ScanInv'
      OBVIOUS
    <2>1. CASE /\ UNCHANGED <<input, scanVars>>
               /\ phase' = phase \/ (phase = "mask" /\ phase' = "done")
      BY <2>1 DEF ScanInv, ScanProgress, EveryTextScanned, NoTaskOutlivesScan,
                  LowestErrorWins, AllJoined, TaskDone, Serial, scanVars,
                  text_scan_worker_count, TotalSize, ChunkBegin, ChunkEnd, ChunkSize
    <2>2. CASE UNCHANGED vars \/ Finished \/ Mask
      BY <2>1, <2>2 DEF vars, Finished, Mask, SkipMatch, ReusePlaceholder, SkipReserved,
                        MintPlaceholder, FinishText, Return
    <2> QED
      BY <2>2, TaskScans, SerialScans, LaunchScans, ScanEnds DEF Next, Scan
  <1>3. Spec => []TInv
    BY TypeCorrect, PTL DEF TInv
  <1> QED
    BY <1>1, <1>2, <1>3, PTL DEF Spec

\* Phase B never starts with a text that no task has scanned, however many
\* texts and hardware threads there are (the rounding of scan_texts' chunks).
THEOREM ScanComplete == Spec => []EveryTextScanned
  <1>1. ScanInv => EveryTextScanned
    BY DEF ScanInv
  <1> QED
    BY <1>1, ScanInvariant, PTL

\* No scan task is left running once mask_texts has moved on or returned, the
\* unwinding of a launch loop whose std::async threw included.
THEOREM TasksJoined == Spec => []NoTaskOutlivesScan
  <1>1. ScanInv => NoTaskOutlivesScan
    BY DEF ScanInv
  <1> QED
    BY <1>1, ScanInvariant, PTL

\* The reported scan error is the one of the lowest failing text, in whatever
\* order the tasks of scan_texts ended (propagate_first_scan_error).
THEOREM FirstErrorReported == Spec => []LowestErrorWins
  <1>1. ScanInv => LowestErrorWins
    BY DEF ScanInv
  <1> QED
    BY <1>1, ScanInvariant, PTL
-----------------------------------------------------------------------------
(* Induction, with the property as a set: the provers cannot instantiate   *)
(* the library's theorems over operators, but they can this one.           *)

\* A set of naturals that is not empty has a least element.
LEMMA LeastNat ==
  ASSUME NEW T, T \subseteq Nat, T # {}
  PROVE  \E x \in T : \A y \in T : x <= y
  <1> DEFINE R == OpToRel(<, Nat)
  <1>1. IsWellFoundedOn(R, Nat)
    BY NatLessThanWellFounded, Zenon
  <1>2. PICK x \in T : \A y \in T : ~(<<y, x>> \in R)
    <2> HIDE DEF R
    <2> QED
      BY <1>1, WFMin
  <1>3. ASSUME NEW y \in T PROVE x <= y
    <2>1. y < x => <<y, x>> \in R
      BY Zenon DEF OpToRel
    <2>2. ~(y < x)
      BY <1>2, <2>1, Zenon
    <2> QED
      BY <2>2
  <1> QED
    BY <1>3

\* What holds of x when it holds of everything ranked below x, holds.
LEMMA RankInduction ==
  ASSUME NEW S, NEW rank \in [S -> Nat], NEW Good,
         \A x \in S : (\A y \in S : rank[y] < rank[x] => y \in Good) => x \in Good
  PROVE  S \subseteq Good
  <1> DEFINE Bad == {rank[x] : x \in {y \in S : y \notin Good}}
  <1> SUFFICES ASSUME Bad # {} PROVE FALSE
    OBVIOUS
  <1>1. PICK n \in Bad : \A m \in Bad : n <= m
    <2>1. Bad \subseteq Nat
      OBVIOUS
    <2> HIDE DEF Bad
    <2> QED
      BY <2>1, LeastNat
  <1>2. PICK x \in S : x \notin Good /\ rank[x] = n
    <2>1. n \in {rank[x] : x \in {y \in S : y \notin Good}}
      BY <1>1
    <2>2. \E x \in {y \in S : y \notin Good} : n = rank[x]
      BY ONLY <2>1
    <2> QED
      BY <2>2
  <1>3. ASSUME NEW y \in S, rank[y] < rank[x] PROVE y \in Good
    <2> SUFFICES ASSUME y \notin Good PROVE FALSE
      OBVIOUS
    <2>1. rank[y] \in Bad
      OBVIOUS
    <2>2. n <= rank[y] /\ n \in Nat /\ rank[y] \in Nat
      <3> HIDE DEF Bad
      <3> QED
        BY <1>1, <1>2, <2>1
    <2> QED
      BY <1>2, <1>3, <2>2
  <1> QED
    BY <1>2, <1>3

\* F makes of a function from S to T another, whose value at x depends on the
\* values of the first below x only.
Recursion(S, T, N, rank, F) ==
  /\ T # {} /\ N \in Nat /\ rank \in [S -> 0..N]
  /\ F \in [[S -> T] -> [S -> T]]
  /\ \A g, h \in [S -> T], x \in S :
       (\A y \in S : rank[y] < rank[x] => g[y] = h[y]) => F[g][x] = F[h][x]

\* A function that is defined by recursion to lower ranks exists.
LEMMA RecursiveFunction ==
  ASSUME NEW S, NEW T, NEW N, NEW rank, NEW F, Recursion(S, T, N, rank, F)
  PROVE  \E g \in [S -> T] : g = F[g]
  <1>0. /\ T # {} /\ N \in Nat /\ rank \in [S -> 0..N]
        /\ F \in [[S -> T] -> [S -> T]]
        /\ \A g, h \in [S -> T], x \in S :
             (\A y \in S : rank[y] < rank[x] => g[y] = h[y]) => F[g][x] = F[h][x]
    BY DEF Recursion
  <1> PICK t0 \in T : TRUE
    BY <1>0
  <1> DEFINE Upto(n) == \E g \in [S -> T] : \A x \in S : rank[x] < n => g[x] = F[g][x]
             Good == {n \in Nat : Upto(n)}
             id == [n \in Nat |-> n]
  <1>1. ASSUME NEW n \in Nat, \A m \in Nat : id[m] < id[n] => m \in Good
        PROVE  n \in Good
    <2>1. CASE n = 0
      <3>1. [x \in S |-> t0] \in [S -> T] /\ \A x \in S : ~(rank[x] < 0)
        BY <1>0
      <3>2. Upto(0)
        BY <3>1
      <3> QED
        BY <2>1, <3>2
    <2>2. CASE n # 0
      <3>1. n - 1 \in Nat /\ n - 1 \in Good
        BY <1>1, <2>2
      <3>2. PICK g \in [S -> T] : \A x \in S : rank[x] < n - 1 => g[x] = F[g][x]
        BY <3>1
      <3>3. F[g] \in [S -> T]
        BY <1>0
      <3>4. ASSUME NEW x \in S, rank[x] < n PROVE F[g][x] = F[F[g]][x]
        <4>1. ASSUME NEW y \in S, rank[y] < rank[x] PROVE F[g][y] = g[y]
          <5>1. rank[y] < n - 1
            BY <1>0, <3>4, <4>1
          <5> QED
            BY <3>2, <5>1
        <4> QED
          BY <1>0, <3>3, <4>1
      <3>5. Upto(n)
        BY <3>3, <3>4
      <3> QED
        BY <3>5
    <2> QED
      BY <2>1, <2>2
  <1>2. Nat \subseteq Good
    <2>1. id \in [Nat -> Nat]
      OBVIOUS
    <2> HIDE DEF Good, id
    <2> QED
      BY <1>1, <2>1, RankInduction
  <1>3. PICK g \in [S -> T] : \A x \in S : rank[x] < N + 1 => g[x] = F[g][x]
    <2>1. N + 1 \in Good
      <3> HIDE DEF Good
      <3> QED
        BY <1>0, <1>2
    <2> QED
      BY <2>1
  <1>4. \A x \in S : rank[x] < N + 1
    BY <1>0
  <1>5. \A x \in S : g[x] = F[g][x]
    BY <1>3, <1>4
  <1>6. g = F[g]
    BY <1>0, <1>5
  <1> QED
    BY <1>6
-----------------------------------------------------------------------------
(* Flattening a sequence of sequences.                                     *)

\* A function on 1..n is a sequence of length n.
LEMMA SeqOfFunction ==
  ASSUME NEW n \in Nat, NEW T, NEW s, s \in [1..n -> T]
  PROVE  s \in Seq(T) /\ Len(s) = n
  <1>1. s \in Seq(T)
    BY SeqDef
  <1>2. DOMAIN s = 1..Len(s) /\ Len(s) \in Nat
    BY <1>1, LenProperties
  <1>3. DOMAIN s = 1..n
    OBVIOUS
  <1>4. 1..n = 1..Len(s)
    BY <1>2, <1>3
  <1>5. n <= Len(s)
    <2>1. n # 0 => n \in 1..n
      OBVIOUS
    <2>2. n # 0 => n \in 1..Len(s)
      BY <1>4, <2>1
    <2> QED
      BY <1>2, <2>2
  <1>6. Len(s) <= n
    <2>1. Len(s) # 0 => Len(s) \in 1..Len(s)
      BY <1>2
    <2>2. Len(s) # 0 => Len(s) \in 1..n
      BY <1>4, <2>1
    <2> QED
      BY <1>2, <2>2
  <1> QED
    BY <1>1, <1>2, <1>5, <1>6

FlattenStep(s, i, g) == IF i = 1 THEN s[i] ELSE g[i-1] \o s[i]

Rows(s, n, U) == s \in [1..n -> Seq(U)]

\* f flattens s step by step.
Flattens(f, s, n, U) ==
  /\ Rows(f, n, U)
  /\ FlattenSeq(s) = f[n]
  /\ \A i \in 1..n : f[i] = FlattenStep(s, i, f)

\* FlattenSeq is the last value of a function that obeys its recursion.
LEMMA FlattenEquation ==
  ASSUME NEW U, NEW n \in Nat \ {0}, NEW s, Rows(s, n, U)
  PROVE  \E f : Flattens(f, s, n, U)
  <1> DEFINE S == 1..n
             T == Seq(U)
             F == [g \in [S -> T] |-> [i \in S |-> FlattenStep(s, i, g)]]
             rank == [i \in S |-> i]
  <1>1. T # {} /\ n \in Nat /\ rank \in [S -> 0..n]
    <2>1. <<>> \in T
      BY EmptySeq
    <2>2. rank \in [S -> 0..n]
      OBVIOUS
    <2> QED
      BY <2>1, <2>2
  <1>2. ASSUME NEW i \in S, NEW g, i # 1 => g[i-1] \in T PROVE FlattenStep(s, i, g) \in T
    <2>1. s[i] \in T
      BY DEF Rows
    <2> QED
      BY <1>2, <2>1, ConcatProperties DEF FlattenStep
  <1>3. F \in [[S -> T] -> [S -> T]]
    <2> SUFFICES ASSUME NEW g \in [S -> T], NEW i \in S PROVE FlattenStep(s, i, g) \in T
      OBVIOUS
    <2>1. i # 1 => i - 1 \in S
      OBVIOUS
    <2>2. i # 1 => g[i-1] \in T
      <3> HIDE DEF S, T
      <3> QED
        BY <2>1
    <2> QED
      BY <1>2, <2>2
  <1>4. ASSUME NEW g \in [S -> T], NEW h \in [S -> T], NEW i \in S,
               \A y \in S : rank[y] < rank[i] => g[y] = h[y]
        PROVE  F[g][i] = F[h][i]
    <2>1. i # 1 => g[i-1] = h[i-1]
      BY <1>4
    <2>2. FlattenStep(s, i, g) = FlattenStep(s, i, h)
      BY <2>1 DEF FlattenStep
    <2> QED
      BY <2>2
  <1>5. Recursion(S, T, n, rank, F)
    <2> HIDE DEF S, T, F, rank
    <2> QED
      BY <1>1, <1>3, <1>4 DEF Recursion
  <1>6. \E g : g = [i \in S |-> FlattenStep(s, i, g)]
    <2>1. PICK g \in [S -> T] : g = F[g]
      <3> HIDE DEF S, T, F, rank
      <3> QED
        BY <1>5, RecursiveFunction
    <2> QED
      BY <2>1
  <1> DEFINE flatten[i \in 1..n] == IF i = 1 THEN s[i] ELSE flatten[i-1] \o s[i]
  <1>7. s \in Seq(T) /\ Len(s) = n
    <2>1. s \in [1..n -> T]
      BY DEF Rows
    <2> HIDE DEF T
    <2> QED
      BY <2>1, SeqOfFunction
  <1>8. FlattenSeq(s) = flatten[n]
    BY <1>7 DEF FlattenSeq
  <1>9. flatten = CHOOSE g : g = [i \in S |-> FlattenStep(s, i, g)]
    BY DEF FlattenStep
  <1>10. flatten = [i \in S |-> FlattenStep(s, i, flatten)]
    <2> HIDE DEF flatten
    <2> QED
      BY <1>6, <1>9
  <1> HIDE DEF flatten
  <1>11. \A i \in S : flatten[i] = FlattenStep(s, i, flatten)
    BY <1>10
  <1> DEFINE Good == {i \in S : flatten[i] \in T}
  <1>12. ASSUME NEW i \in S, \A j \in S : rank[j] < rank[i] => j \in Good
         PROVE  i \in Good
    <2>1. i # 1 => i - 1 \in S /\ rank[i - 1] < rank[i]
      OBVIOUS
    <2>2. i # 1 => flatten[i-1] \in T
      BY <1>12, <2>1
    <2> QED
      BY <1>2, <1>11, <2>2
  <1>13. S \subseteq Good
    <2>1. rank \in [S -> Nat]
      OBVIOUS
    <2> HIDE DEF S, Good, rank
    <2> QED
      BY <1>12, <2>1, RankInduction
  <1>14. flatten \in [S -> T]
    BY <1>10, <1>13
  <1>15. Flattens(flatten, s, n, U)
    BY <1>8, <1>11, <1>14 DEF Flattens, Rows
  <1> QED
    BY <1>15

\* One sequence more.
LEMMA FlattenGrows ==
  ASSUME NEW U, NEW n \in Nat, NEW s, Rows(s, n + 1, U), NEW t, Rows(t, n, U),
         \A i \in 1..n : t[i] = s[i]
  PROVE  /\ FlattenSeq(t) \in Seq(U)
         /\ FlattenSeq(s) = FlattenSeq(t) \o s[n+1]
  <1>1. PICK f : Flattens(f, s, n + 1, U)
    BY FlattenEquation
  <1>2. /\ FlattenSeq(s) = f[n+1]
        /\ \A i \in 1..(n+1) : f[i] = FlattenStep(s, i, f)
    BY <1>1 DEF Flattens
  <1>3. s[n+1] \in Seq(U)
    BY DEF Rows
  <1>4. CASE n = 0
    <2>1. t = <<>>
      BY <1>4 DEF Rows
    <2>2. FlattenSeq(<<>>) = <<>>
      BY DEF FlattenSeq
    <2>3. f[n+1] = s[n+1]
      BY <1>2, <1>4 DEF FlattenStep
    <2> QED
      BY <1>2, <1>3, <2>1, <2>2, <2>3, EmptySeq, ConcatEmptySeq
  <1>5. CASE n # 0
    <2>1. PICK g : Flattens(g, t, n, U)
      BY <1>5, FlattenEquation
    <2>2. /\ FlattenSeq(t) = g[n] /\ g[n] \in Seq(U)
          /\ \A i \in 1..n : g[i] = FlattenStep(t, i, g)
      BY <1>5, <2>1 DEF Flattens, Rows
    <2> DEFINE S == 1..n
               Good == {i \in S : f[i] = g[i]}
               rank == [i \in S |-> i]
    <2>3. ASSUME NEW i \in S, \A j \in S : rank[j] < rank[i] => j \in Good
          PROVE  i \in Good
      <3>1. i \in 1..(n+1) /\ s[i] = t[i]
        OBVIOUS
      <3>2. f[i] = FlattenStep(s, i, f) /\ g[i] = FlattenStep(t, i, g)
        BY <1>2, <2>2, <3>1
      <3>3. i # 1 => f[i-1] = g[i-1]
        <4>1. i # 1 => i - 1 \in S /\ rank[i - 1] < rank[i]
          OBVIOUS
        <4> QED
          BY <2>3, <4>1
      <3>4. f[i] = g[i]
        BY <3>1, <3>2, <3>3 DEF FlattenStep
      <3> QED
        BY <3>4
    <2>4. S \subseteq Good
      <3>1. rank \in [S -> Nat]
        OBVIOUS
      <3> HIDE DEF S, Good, rank
      <3> QED
        BY <2>3, <3>1, RankInduction
    <2>5. f[n] = g[n]
      BY <1>5, <2>4
    <2>6. f[n+1] = f[n] \o s[n+1]
      <3>1. (n + 1) - 1 = n /\ n + 1 # 1 /\ n + 1 \in 1..(n+1)
        BY <1>5
      <3>2. f[n+1] = FlattenStep(s, n + 1, f)
        BY <1>2, <3>1
      <3>3. FlattenStep(s, n + 1, f) = f[(n+1)-1] \o s[n+1]
        BY <3>1 DEF FlattenStep
      <3> QED
        BY <3>1, <3>2, <3>3
    <2> QED
      BY <1>2, <2>2, <2>5, <2>6
  <1> QED
    BY <1>4, <1>5
-----------------------------------------------------------------------------
(* What mask_text makes of a text.                                         *)

\* A text of a request, with the matches scan_rules reports for it.
Scannable(d) ==
  /\ d.text \in Seq(Unit) /\ d.matches \in Seq(Match)
  /\ InBounds(d) /\ InOrder(d)

\* Every match of text d that starts before unit n has its placeholder.
Settled(d, f, n) ==
  \A m \in Effective(d) :
    m.start < n => SubSeq(d.text, m.start + 1, m.end) \in DOMAIN f

Placeholders(f) == \A o \in DOMAIN f : f[o] \in Literal

\* The texts of a request are Scannable.
LEMMA InputScannable ==
  ASSUME NEW in \in Inputs, NEW i \in 1..Len(in)
  PROVE  Scannable(in[i])
  BY InputTypes, MaskerAssumption, ScannerContract DEF Scannable

\* What is known of a match that is replaced.
LEMMA EffectiveFacts ==
  ASSUME NEW d, Scannable(d), NEW m \in Effective(d)
  PROVE  /\ m.start \in Nat /\ m.end \in Nat /\ m.start < m.end
         /\ m.end <= Len(d.text) /\ Len(d.text) \in Nat
         /\ \E k \in 1..Len(d.matches) : m = d.matches[k]
  <1>1. m \in ToSet(d.matches) /\ m.start < m.end
    BY DEF Effective
  <1>2. PICK k \in DOMAIN d.matches : m = d.matches[k]
    BY <1>1 DEF ToSet
  <1>3. d.matches \in Seq(Match) /\ d.text \in Seq(Unit)
    BY DEF Scannable
  <1>4. k \in 1..Len(d.matches)
    BY <1>2, <1>3, LenProperties
  <1>5. m \in Match
    BY <1>2, <1>3, <1>4, ElementOfSeq
  <1>6. m.end <= Len(d.text)
    BY <1>2, <1>4 DEF Scannable, InBounds
  <1> QED
    BY <1>1, <1>2, <1>3, <1>4, <1>5, <1>6, LenProperties DEF Match

\* No two of them cover the same unit.
LEMMA EffectiveDisjoint ==
  ASSUME NEW d, Scannable(d), NEW m \in Effective(d), NEW q \in Effective(d), NEW u \in Nat,
         m.start < u, u <= m.end, q.start < u, u <= q.end
  PROVE  m = q
  <1>1. PICK k \in 1..Len(d.matches) : m = d.matches[k]
    BY EffectiveFacts
  <1>2. PICK l \in 1..Len(d.matches) : q = d.matches[l]
    BY EffectiveFacts
  <1>3. /\ m.start \in Nat /\ m.end \in Nat
        /\ q.start \in Nat /\ q.end \in Nat
    BY EffectiveFacts
  <1>4. k < l => m.end <= q.start
    BY <1>1, <1>2 DEF Scannable, InOrder
  <1>5. l < k => q.end <= m.start
    BY <1>1, <1>2 DEF Scannable, InOrder
  <1>6. k = l
    BY <1>3, <1>4, <1>5
  <1> QED
    BY <1>1, <1>2, <1>6

\* The pieces of a match: its placeholder and nothing more.
LEMMA PieceOfMatch ==
  ASSUME NEW d, Scannable(d), NEW m \in Effective(d), NEW f, NEW u \in Nat,
         m.start < u, u <= m.end
  PROVE  Piece(d, f, u) = IF u = m.start + 1
                          THEN <<f[SubSeq(d.text, m.start + 1, m.end)]>> ELSE <<>>
  <1> DEFINE Covers(q) == q.start < u /\ u <= q.end
             c == CHOOSE q \in Effective(d) : Covers(q)
  <1>1. c \in Effective(d) /\ Covers(c)
    OBVIOUS
  <1>2. c = m
    <2> HIDE DEF c
    <2> QED
      BY <1>1, EffectiveDisjoint
  <1>3. Piece(d, f, u) = IF u = c.start + 1
                         THEN <<f[SubSeq(d.text, c.start + 1, c.end)]>> ELSE <<>>
    BY DEF Piece
  <1> HIDE DEF c
  <1> QED
    BY <1>2, <1>3

\* A unit outside of them is left alone.
LEMMA PieceOutside ==
  ASSUME NEW d, NEW f, NEW u, \A m \in Effective(d) : ~(m.start < u /\ u <= m.end)
  PROVE  Piece(d, f, u) = <<d.text[u]>>
  BY DEF Piece

\* A slice of a text is a text.
LEMMA SliceType ==
  ASSUME NEW t \in Seq(Unit), NEW a \in Nat, NEW b \in Nat, b <= Len(t)
  PROVE  SubSeq(t, a + 1, b) \in Seq(Unit)
  <1>1. Len(t) \in Nat
    BY LenProperties
  <1>2. ASSUME NEW i \in (a+1)..b PROVE t[i] \in Unit
    <2>1. i \in 1..Len(t)
      BY <1>1
    <2> QED
      BY <2>1, ElementOfSeq
  <1>3. a + 1 \in Int /\ b \in Int
    OBVIOUS
  <1> QED
    BY <1>2, <1>3, SubSeqProperties

\* A slice has the length of its span.
LEMMA SliceLength ==
  ASSUME NEW t \in Seq(Unit), NEW a \in Nat, NEW b \in Nat, a < b, b <= Len(t)
  PROVE  Len(SubSeq(t, a + 1, b)) = b - a
  <1>1. Len(t) \in Nat
    BY LenProperties
  <1>2. ASSUME NEW i \in (a+1)..b PROVE t[i] \in Unit
    <2>1. i \in 1..Len(t)
      BY <1>1
    <2> QED
      BY <2>1, ElementOfSeq
  <1>3. a + 1 \in Int /\ b \in Int /\ a + 1 <= b
    OBVIOUS
  <1>4. Len(SubSeq(t, a + 1, b)) = IF a + 1 <= b THEN b - (a + 1) + 1 ELSE 0
    BY <1>2, <1>3, SubSeqProperties
  <1> QED
    BY <1>3, <1>4

\* The pieces of a text whose matches have their placeholders are units of text.
LEMMA PieceType ==
  ASSUME NEW d, Scannable(d), NEW f, Placeholders(f), NEW n \in Nat, n <= Len(d.text),
         Settled(d, f, n), NEW u \in 1..n
  PROVE  Piece(d, f, u) \in Seq(Unit)
  <1>1. CASE \E m \in Effective(d) : m.start < u /\ u <= m.end
    <2>1. PICK m \in Effective(d) : m.start < u /\ u <= m.end
      BY <1>1
    <2> DEFINE o == SubSeq(d.text, m.start + 1, m.end)
    <2>2. m.start \in Nat /\ m.start < n
      BY <2>1, EffectiveFacts
    <2>3. f[o] \in Unit
      BY <2>2 DEF Settled, Placeholders, Unit
    <2>4. Piece(d, f, u) = IF u = m.start + 1 THEN <<f[o]>> ELSE <<>>
      BY <2>1, PieceOfMatch
    <2> HIDE DEF o
    <2>5. <<f[o]>> \in Seq(Unit) /\ <<>> \in Seq(Unit)
      BY <2>3
    <2> QED
      BY <2>4, <2>5
  <1>2. CASE ~ \E m \in Effective(d) : m.start < u /\ u <= m.end
    <2>1. Piece(d, f, u) = <<d.text[u]>>
      BY <1>2, PieceOutside
    <2>2. d.text \in Seq(Unit) /\ Len(d.text) \in Nat
      BY LenProperties DEF Scannable
    <2>3. u \in 1..Len(d.text)
      BY <2>2
    <2>4. d.text[u] \in Unit
      BY <2>2, <2>3, ElementOfSeq
    <2> QED
      BY <2>1, <2>4
  <1> QED
    BY <1>1, <1>2

\* The image of a text grows by the piece of each unit.
LEMMA ImageGrows ==
  ASSUME NEW d, Scannable(d), NEW f, Placeholders(f), NEW n \in Nat, n + 1 <= Len(d.text),
         Settled(d, f, n + 1)
  PROVE  /\ Image(d, f, n) \in Seq(Unit)
         /\ Image(d, f, n + 1) = Image(d, f, n) \o Piece(d, f, n + 1)
  <1> DEFINE s == [u \in 1..(n+1) |-> Piece(d, f, u)]
             t == [u \in 1..n |-> Piece(d, f, u)]
  <1>1. ASSUME NEW u \in 1..(n+1) PROVE Piece(d, f, u) \in Seq(Unit)
    BY PieceType
  <1>2. Rows(s, n + 1, Unit) /\ Rows(t, n, Unit)
    BY <1>1 DEF Rows
  <1>3. \A u \in 1..n : t[u] = s[u]
    OBVIOUS
  <1>4. Image(d, f, n) = FlattenSeq(t) /\ Image(d, f, n + 1) = FlattenSeq(s)
    BY DEF Image
  <1>5. s[n+1] = Piece(d, f, n + 1)
    OBVIOUS
  <1> HIDE DEF s, t
  <1>6. FlattenSeq(t) \in Seq(Unit) /\ FlattenSeq(s) = FlattenSeq(t) \o s[n+1]
    BY ONLY n \in Nat, <1>2, <1>3, FlattenGrows
  <1> QED
    BY <1>4, <1>5, <1>6

\* Nothing turns into nothing.
LEMMA ImageOfNothing ==
  ASSUME NEW d, NEW f
  PROVE  Image(d, f, 0) = <<>>
  <1>1. [u \in 1..0 |-> Piece(d, f, u)] = <<>>
    OBVIOUS
  <1>2. FlattenSeq(<<>>) = <<>>
    BY DEF FlattenSeq
  <1> QED
    BY <1>1, <1>2 DEF Image

\* The image of a prefix is a text.
LEMMA ImageType ==
  ASSUME NEW d, Scannable(d), NEW f, Placeholders(f), NEW n \in Nat, n <= Len(d.text),
         Settled(d, f, n)
  PROVE  Image(d, f, n) \in Seq(Unit)
  <1>1. CASE n = 0
    BY <1>1, ImageOfNothing, EmptySeq
  <1>2. CASE n # 0
    <2>1. n - 1 \in Nat /\ (n - 1) + 1 = n /\ n \in 1..n
      BY <1>2
    <2>2. /\ Image(d, f, n - 1) \in Seq(Unit)
          /\ Image(d, f, n) = Image(d, f, n - 1) \o Piece(d, f, n)
      BY <2>1, ImageGrows
    <2>3. Piece(d, f, n) \in Seq(Unit)
      BY <2>1, PieceType
    <2> QED
      BY <2>2, <2>3, ConcatProperties
  <1> QED
    BY <1>1, <1>2

\* Concatenation of texts is associative.
LEMMA ThreeTexts ==
  ASSUME NEW A \in Seq(Unit), NEW B \in Seq(Unit), NEW C \in Seq(Unit)
  PROVE  (A \o B) \o C = A \o (B \o C)
  BY ConcatAssociative, SMTT(60)

\* A gap between matches is copied.
LEMMA ImageOfGap ==
  ASSUME NEW d, Scannable(d), NEW f, Placeholders(f),
         NEW a \in Nat, NEW b \in Nat, a <= b, b <= Len(d.text), Settled(d, f, b),
         \A m \in Effective(d) : m.end <= a \/ b <= m.start
  PROVE  Image(d, f, b) = Image(d, f, a) \o SubSeq(d.text, a + 1, b)
  <1> DEFINE S == a..b
             Copied(n) == Image(d, f, n) = Image(d, f, a) \o SubSeq(d.text, a + 1, n)
             Good == {n \in S : Copied(n)}
             rank == [n \in S |-> n]
  <1>0. d.text \in Seq(Unit) /\ Len(d.text) \in Nat
    BY LenProperties DEF Scannable
  <1>1. ASSUME NEW n \in Nat, n <= b PROVE Settled(d, f, n)
    BY <1>1, EffectiveFacts DEF Settled
  <1>2. Image(d, f, a) \in Seq(Unit)
    BY <1>0, <1>1, ImageType
  <1>3. ASSUME NEW n \in S, \A k \in S : rank[k] < rank[n] => k \in Good
        PROVE  n \in Good
    <2>1. CASE n = a
      <3>1. SubSeq(d.text, a + 1, a) = <<>>
        BY SubSeqEmpty
      <3>2. Copied(a)
        BY <1>2, <3>1, ConcatEmptySeq
      <3> QED
        BY <2>1, <3>2
    <2>2. CASE n # a
      <3>1. /\ n - 1 \in S /\ n - 1 \in Nat /\ (n - 1) + 1 = n /\ n \in Nat
            /\ n - 1 < n /\ n <= Len(d.text) /\ n - 1 <= Len(d.text) /\ n <= b
        BY <1>0, <2>2
      <3>2. Copied(n - 1)
        BY <1>3, <3>1
      <3>3. Image(d, f, n) = Image(d, f, n - 1) \o Piece(d, f, n)
        BY <1>1, <3>1, ImageGrows
      <3>4. ASSUME NEW m \in Effective(d) PROVE ~(m.start < n /\ n <= m.end)
        BY <2>2, EffectiveFacts
      <3>5. Piece(d, f, n) = <<d.text[n]>>
        BY <3>4, PieceOutside
      <3>6. /\ a + 1 \in 1..Len(d.text) /\ n \in (a+1)..Len(d.text)
            /\ n \in 1..Len(d.text)
        BY <1>0, <2>2, <3>1
      <3>7. /\ SubSeq(d.text, a + 1, n) = SubSeq(d.text, a + 1, n - 1) \o <<d.text[n]>>
            /\ d.text[n] \in Unit
        BY <1>0, <3>6, SubSeqRecursiveSecond, ElementOfSeq
      <3>8. SubSeq(d.text, a + 1, n - 1) \in Seq(Unit) /\ <<d.text[n]>> \in Seq(Unit)
        <4>1. SubSeq(d.text, a + 1, n - 1) \in Seq(Unit)
          BY <1>0, <3>1, SliceType
        <4> QED
          BY <3>7, <4>1
      <3>9. Copied(n)
        <4> DEFINE A == Image(d, f, a)
                   B == SubSeq(d.text, a + 1, n - 1)
                   x == <<d.text[n]>>
        <4>1. Image(d, f, n) = (A \o B) \o x
          BY <3>2, <3>3, <3>5
        <4>2. A \in Seq(Unit) /\ B \in Seq(Unit) /\ x \in Seq(Unit)
          BY <1>2, <3>8
        <4>3. SubSeq(d.text, a + 1, n) = B \o x
          BY <3>7
        <4> HIDE DEF A, B, x
        <4>4. (A \o B) \o x = A \o (B \o x)
          BY <4>2, ThreeTexts
        <4>5. Image(d, f, n) = A \o SubSeq(d.text, a + 1, n)
          BY <4>1, <4>3, <4>4
        <4> QED
          BY <4>5 DEF A
      <3> QED
        BY <3>9
    <2> QED
      BY <2>1, <2>2
  <1>4. S \subseteq Good
    <2>1. rank \in [S -> Nat]
      OBVIOUS
    <2> HIDE DEF S, Good, rank
    <2> QED
      BY <1>3, <2>1, RankInduction
  <1>5. b \in S
    OBVIOUS
  <1> QED
    BY <1>4, <1>5

\* A match turns into its placeholder.
LEMMA ImageOfMatch ==
  ASSUME NEW d, Scannable(d), NEW f, Placeholders(f), NEW m \in Effective(d),
         Settled(d, f, m.end)
  PROVE  LET p == f[SubSeq(d.text, m.start + 1, m.end)]
         IN  p \in Unit /\ Image(d, f, m.end) = Append(Image(d, f, m.start), p)
  <1> DEFINE S == (m.start + 1)..m.end
             p == f[SubSeq(d.text, m.start + 1, m.end)]
             Ended(n) == Image(d, f, n) = Image(d, f, m.start) \o <<p>>
             Good == {n \in S : Ended(n)}
             rank == [n \in S |-> n]
  <1>0. /\ m.start \in Nat /\ m.end \in Nat /\ m.start < m.end
        /\ m.end <= Len(d.text) /\ Len(d.text) \in Nat
    BY EffectiveFacts
  <1>1. ASSUME NEW n \in Nat, n <= m.end PROVE Settled(d, f, n)
    BY <1>0, <1>1, EffectiveFacts DEF Settled
  <1>2. Image(d, f, m.start) \in Seq(Unit)
    BY <1>0, <1>1, ImageType
  <1>3. p \in Unit
    BY <1>0 DEF Settled, Placeholders, Unit
  <1>4. Image(d, f, m.start) \o <<p>> \in Seq(Unit)
    <2> HIDE DEF p
    <2>1. <<p>> \in Seq(Unit)
      BY <1>3
    <2> QED
      BY <1>2, <2>1, ConcatProperties
  <1>5. ASSUME NEW n \in S, \A k \in S : rank[k] < rank[n] => k \in Good
        PROVE  n \in Good
    <2>1. /\ n - 1 \in Nat /\ (n - 1) + 1 = n /\ n \in Nat
          /\ n <= Len(d.text) /\ n <= m.end /\ m.start < n
      BY <1>0
    <2>2. Image(d, f, n) = Image(d, f, n - 1) \o Piece(d, f, n)
      BY <1>1, <2>1, ImageGrows
    <2>3. Piece(d, f, n) = IF n = m.start + 1 THEN <<p>> ELSE <<>>
      BY <2>1, PieceOfMatch
    <2>4. CASE n = m.start + 1
      <3>1. n - 1 = m.start
        BY <1>0, <2>4
      <3>2. Ended(n)
        BY <2>2, <2>3, <2>4, <3>1
      <3> QED
        BY <3>2
    <2>5. CASE n # m.start + 1
      <3>1. n - 1 \in S /\ rank[n - 1] < rank[n]
        BY <1>0, <2>5
      <3>2. Ended(n - 1)
        BY <1>5, <3>1
      <3>3. Ended(n)
        BY <1>4, <2>2, <2>3, <2>5, <3>2, ConcatEmptySeq
      <3> QED
        BY <3>3
    <2> QED
      BY <2>4, <2>5
  <1>6. S \subseteq Good
    <2>1. rank \in [S -> Nat]
      BY <1>0
    <2> HIDE DEF S, Good, rank
    <2> QED
      BY <1>5, <2>1, RankInduction
  <1>7. Ended(m.end)
    <2>1. m.end \in S
      BY <1>0
    <2> QED
      BY <1>6, <2>1
  <1>8. Append(Image(d, f, m.start), p) = Image(d, f, m.start) \o <<p>>
    <2> HIDE DEF p
    <2> QED
      BY <1>2, <1>3, AppendIsConcat
  <1> QED
    BY <1>3, <1>7, <1>8

\* g has the placeholders of f, and perhaps more.
Extends(g, f) == \A o \in DOMAIN f : o \in DOMAIN g /\ g[o] = f[o]

\* A new placeholder changes nothing of what has been masked.
LEMMA ImageStable ==
  ASSUME NEW d, Scannable(d), NEW f, NEW g, Extends(g, f), NEW n \in Nat,
         Settled(d, f, n)
  PROVE  Settled(d, g, n) /\ Image(d, g, n) = Image(d, f, n)
  <1>1. Settled(d, g, n)
    BY DEF Settled, Extends
  <1>2. ASSUME NEW u \in 1..n PROVE Piece(d, g, u) = Piece(d, f, u)
    <2>1. CASE \E m \in Effective(d) : m.start < u /\ u <= m.end
      <3>1. PICK m \in Effective(d) : m.start < u /\ u <= m.end
        BY <2>1
      <3> DEFINE o == SubSeq(d.text, m.start + 1, m.end)
      <3>2. m.start \in Nat /\ m.start < n
        BY <3>1, EffectiveFacts
      <3>3. g[o] = f[o]
        BY <3>2 DEF Settled, Extends
      <3>4. /\ Piece(d, f, u) = IF u = m.start + 1 THEN <<f[o]>> ELSE <<>>
            /\ Piece(d, g, u) = IF u = m.start + 1 THEN <<g[o]>> ELSE <<>>
        BY <3>1, PieceOfMatch
      <3> QED
        BY <3>3, <3>4
    <2>2. CASE ~ \E m \in Effective(d) : m.start < u /\ u <= m.end
      BY <2>2, PieceOutside
    <2> QED
      BY <2>1, <2>2
  <1>3. [u \in 1..n |-> Piece(d, g, u)] = [u \in 1..n |-> Piece(d, f, u)]
    BY <1>2
  <1> QED
    BY <1>1, <1>3 DEF Image
-----------------------------------------------------------------------------
(* mask_text's cursor.                                                     *)

\* The matches before the k-th are behind the cursor p, the others ahead of it.
CursorBetween(d, k, p) ==
  \A l \in 1..Len(d.matches) :
    /\ l < k => d.matches[l] \notin Effective(d) \/ d.matches[l].end <= p
    /\ l >= k => p <= d.matches[l].start

\* The k-th match lies inside its text, and ends before the later ones start.
LEMMA MatchOrder ==
  ASSUME NEW d, Scannable(d), NEW k \in 1..Len(d.matches)
  PROVE  /\ Len(d.matches) \in Nat /\ Len(d.text) \in Nat /\ d.matches[k].rule \in Rule
         /\ d.matches[k].start \in Nat /\ d.matches[k].end \in Nat
         /\ d.matches[k].start <= d.matches[k].end /\ d.matches[k].end <= Len(d.text)
         /\ \A l \in 1..Len(d.matches) : k < l => d.matches[k].end <= d.matches[l].start
  <1>1. d.matches \in Seq(Match) /\ d.text \in Seq(Unit)
    BY DEF Scannable
  <1>2. d.matches[k] \in Match
    BY <1>1, ElementOfSeq
  <1>3. /\ d.matches[k].start <= d.matches[k].end /\ d.matches[k].end <= Len(d.text)
        /\ \A l \in 1..Len(d.matches) : k < l => d.matches[k].end <= d.matches[l].start
    BY DEF Scannable, InBounds, InOrder
  <1> QED
    BY <1>1, <1>2, <1>3, LenProperties DEF Match

\* A match that is not replaced is passed without moving the cursor.
LEMMA CursorSkips ==
  ASSUME NEW d, Scannable(d), NEW k \in 1..Len(d.matches), NEW p \in Nat,
         CursorBetween(d, k, p), d.matches[k] \notin Effective(d)
  PROVE  CursorBetween(d, k + 1, p)
  <1>1. Len(d.matches) \in Nat
    BY MatchOrder
  <1> QED
    BY <1>1 DEF CursorBetween

\* The cursor moves to the end of a match that is.
LEMMA CursorMoves ==
  ASSUME NEW d, Scannable(d), NEW k \in 1..Len(d.matches), NEW p \in Nat,
         CursorBetween(d, k, p)
  PROVE  CursorBetween(d, k + 1, d.matches[k].end)
  <1> DEFINE e == d.matches[k].end
  <1>1. Len(d.matches) \in Nat /\ p <= e /\ e \in Nat
    <2>1. p <= d.matches[k].start
      BY MatchOrder DEF CursorBetween
    <2> QED
      BY <2>1, MatchOrder
  <1>2. ASSUME NEW l \in 1..Len(d.matches), l < k + 1
        PROVE  d.matches[l] \notin Effective(d) \/ d.matches[l].end <= e
    <2>1. l < k \/ l = k
      BY <1>1, <1>2
    <2>2. l < k => d.matches[l] \notin Effective(d) \/ d.matches[l].end <= p
      BY DEF CursorBetween
    <2>3. d.matches[l].end \in Nat
      BY MatchOrder
    <2>4. d.matches[l].end <= p => d.matches[l].end <= e
      BY <1>1, <2>3
    <2>5. l = k => d.matches[l].end <= e
      BY <1>1
    <2> QED
      BY <2>1, <2>2, <2>4, <2>5
  <1>3. ASSUME NEW l \in 1..Len(d.matches), l >= k + 1
        PROVE  e <= d.matches[l].start
    <2>1. k < l
      BY <1>1, <1>3
    <2> QED
      BY <2>1, MatchOrder
  <1> QED
    BY <1>2, <1>3 DEF CursorBetween

\* Nothing is replaced between the cursor and the next match.
LEMMA GapClear ==
  ASSUME NEW d, Scannable(d), NEW k \in 1..Len(d.matches), NEW p \in Nat,
         CursorBetween(d, k, p), NEW q \in Effective(d)
  PROVE  q.end <= p \/ d.matches[k].start <= q.start
  <1>1. PICK l \in 1..Len(d.matches) : q = d.matches[l]
    BY EffectiveFacts
  <1>2. l < k => q.end <= p
    BY <1>1 DEF CursorBetween
  <1>3. ASSUME k < l PROVE d.matches[k].start <= q.start
    <2>1. d.matches[k].end <= q.start
      BY <1>1, <1>3, MatchOrder
    <2>2. /\ d.matches[k].start \in Nat /\ d.matches[k].end \in Nat
          /\ d.matches[k].start <= d.matches[k].end
      BY MatchOrder
    <2>3. q.start \in Nat
      BY EffectiveFacts
    <2> QED
      BY <2>1, <2>2, <2>3
  <1>4. k = l => d.matches[k].start <= q.start
    BY <1>1, MatchOrder
  <1> QED
    BY <1>2, <1>3, <1>4

\* Nothing is replaced after the last match.
LEMMA TailClear ==
  ASSUME NEW d, Scannable(d), NEW k \in Nat, k > Len(d.matches), NEW p \in Nat,
         CursorBetween(d, k, p), NEW q \in Effective(d)
  PROVE  q.end <= p
  <1>1. PICK l \in 1..Len(d.matches) : q = d.matches[l]
    BY EffectiveFacts
  <1>2. l < k
    BY MatchOrder
  <1> QED
    BY <1>1, <1>2 DEF CursorBetween

\* The k-th match's original.
Span(d, k) == SubSeq(d.text, d.matches[k].start + 1, d.matches[k].end)

\* The image up to the end of the k-th match, from the image up to the cursor p.
Spliced(d, f, g, k, p) ==
  Image(d, g, d.matches[k].end) =
    Append(Image(d, f, p) \o SubSeq(d.text, p + 1, d.matches[k].start), g[Span(d, k)])

\* Splicing the placeholder of the next match in extends the image to its end.
LEMMA ImageSpliced ==
  ASSUME NEW d, Scannable(d), NEW f, Placeholders(f), NEW g, Placeholders(g), Extends(g, f),
         NEW k \in 1..Len(d.matches), NEW p \in Nat,
         CursorBetween(d, k, p), Settled(d, f, p), d.matches[k] \in Effective(d),
         Span(d, k) \in DOMAIN g
  PROVE  Settled(d, g, d.matches[k].end) /\ Spliced(d, f, g, k, p)
  <1> DEFINE m == d.matches[k]
             o == SubSeq(d.text, m.start + 1, m.end)
  <1>0. m \in Effective(d) /\ o \in DOMAIN g
    BY DEF Span
  <1>1. /\ m.start \in Nat /\ m.end \in Nat /\ m.start < m.end
        /\ m.end <= Len(d.text) /\ Len(d.text) \in Nat
    BY EffectiveFacts
  <1>2. p <= m.start
    BY MatchOrder DEF CursorBetween
  <1>3. ASSUME NEW q \in Effective(d) PROVE q.end <= p \/ m.start <= q.start
    BY GapClear
  <1> HIDE DEF m
  <1>4. Settled(d, g, m.end)
    <2> SUFFICES ASSUME NEW q \in Effective(d), q.start < m.end
                 PROVE  SubSeq(d.text, q.start + 1, q.end) \in DOMAIN g
      BY DEF Settled
    <2>1. q.start \in Nat /\ q.end \in Nat /\ q.start < q.end
      BY EffectiveFacts
    <2>2. CASE q.end <= p
      <3>1. q.start < p
        BY <2>1, <2>2
      <3> QED
        BY <3>1 DEF Settled, Extends
    <2>3. CASE m.start <= q.start
      <3>1. /\ q.start + 1 \in Nat /\ m.start < q.start + 1 /\ q.start + 1 <= m.end
            /\ q.start < q.start + 1 /\ q.start + 1 <= q.end
        <4>1. q.start + 1 \in Nat /\ q.start < q.start + 1 /\ q.start + 1 <= q.end
          BY ONLY <2>1
        <4>2. m.start < q.start + 1
          BY ONLY <1>1, <2>1, <2>3
        <4>3. q.start + 1 <= m.end
          BY ONLY <1>1, <2>1, q.start < m.end
        <4> QED
          BY ONLY <4>1, <4>2, <4>3
      <3>2. q = m
        BY <1>0, <3>1, EffectiveDisjoint
      <3> QED
        BY <1>0, <3>2
    <2> QED
      BY <1>3, <2>2, <2>3
  <1>5. Settled(d, g, m.start)
    <2> SUFFICES ASSUME NEW q \in Effective(d), q.start < m.start
                 PROVE  SubSeq(d.text, q.start + 1, q.end) \in DOMAIN g
      BY DEF Settled
    <2>1. q.start \in Nat
      BY EffectiveFacts
    <2>2. q.start < m.end
      BY <1>1, <2>1
    <2> QED
      BY <1>4, <2>2 DEF Settled
  <1>6. Image(d, g, p) = Image(d, f, p)
    BY ImageStable
  <1>7. Image(d, g, m.start) = Image(d, g, p) \o SubSeq(d.text, p + 1, m.start)
    <2>1. m.start <= Len(d.text)
      BY <1>1
    <2> QED
      BY <1>1, <1>2, <1>3, <1>5, <2>1, ImageOfGap
  <1>8. Image(d, g, m.end) = Append(Image(d, g, m.start), g[o])
    BY <1>0, <1>4, ImageOfMatch
  <1> QED
    BY <1>4, <1>6, <1>7, <1>8 DEF m, Spliced, Span

\* The first texts are masked and their matches have their placeholders; the
\* output of the current one is the image of what the cursor has passed.
TextMasked(i) ==
  LET d == input[i]
  IN  /\ masked_texts[i] = Image(d, original_to_placeholder, Len(d.text))
      /\ Settled(d, original_to_placeholder, Len(d.text))

TextUnderway ==
  LET d == input[text_no]
  IN  /\ out = Image(d, original_to_placeholder, pos)
      /\ Settled(d, original_to_placeholder, pos)
      /\ CursorBetween(d, match_no, pos)

WalkInv ==
  /\ Len(masked_texts) = text_no - 1
  /\ text_no <= Len(input) + 1
  /\ \A i \in 1..(text_no - 1) : TextMasked(i)
  /\ text_no <= Len(input) => TextUnderway

\* A call starts at the first match of the first text, with nothing written.
LEMMA InitWalk == Init => WalkInv
  <1> SUFFICES ASSUME Init PROVE WalkInv
    OBVIOUS
  <1>1. /\ input \in Inputs /\ Len(input) \in Nat
        /\ text_no = 1 /\ match_no = 1 /\ pos = 0 /\ out = <<>> /\ masked_texts = <<>>
    BY WorkerCount DEF Init
  <1>2. Len(masked_texts) = text_no - 1 /\ text_no <= Len(input) + 1
    BY <1>1
  <1>3. ASSUME 1 <= Len(input) PROVE TextUnderway
    <2> DEFINE d == input[1]
    <2>1. Scannable(d)
      BY <1>1, <1>3, InputScannable
    <2> HIDE DEF d
    <2>2. Settled(d, original_to_placeholder, 0)
      BY <2>1, EffectiveFacts DEF Settled
    <2>3. CursorBetween(d, 1, 0)
      BY <2>1, MatchOrder DEF CursorBetween
    <2>4. Image(d, original_to_placeholder, 0) = <<>>
      BY ImageOfNothing
    <2> QED
      BY <1>1, <2>2, <2>3, <2>4 DEF TextUnderway, d
  <1> QED
    BY <1>1, <1>2, <1>3 DEF WalkInv

\* What Phase B knows of the match it is at.
LEMMA WalkFacts ==
  ASSUME TInv, EveryTextScanned, WalkInv, phase = "mask", text_no <= Len(input)
  PROVE  /\ text_no \in 1..Len(input) /\ Scannable(input[text_no])
         /\ Matches(text_no) = input[text_no].matches
         /\ TextUnderway
         /\ Placeholders(original_to_placeholder)
  <1>1. text_no \in 1..Len(input) /\ input \in Inputs
    BY WorkerCount DEF TInv, TypeOK
  <1>2. results[text_no] = "ok"
    BY <1>1 DEF EveryTextScanned
  <1>3. Matches(text_no) = input[text_no].matches
    BY <1>2 DEF Matches
  <1>4. Scannable(input[text_no])
    BY <1>1, InputScannable
  <1>5. Placeholders(original_to_placeholder)
    BY DEF TInv, TypeOK, Placeholders
  <1> QED
    BY <1>1, <1>3, <1>4, <1>5 DEF WalkInv

\* The same, for a step that is at a match.
LEMMA AtMatchFacts ==
  ASSUME TInv, EveryTextScanned, WalkInv, AtMatch
  PROVE  LET d == input[text_no]
         IN  /\ text_no <= Len(input)
             /\ match_no \in 1..Len(d.matches) /\ ThisMatch = d.matches[match_no]
             /\ ThisText = d.text
             /\ pos <= ThisMatch.start
  <1> DEFINE d == input[text_no]
  <1>1. phase = "mask" /\ text_no <= Len(input) /\ match_no <= Len(Matches(text_no))
    BY DEF AtMatch
  <1>2. Scannable(d) /\ Matches(text_no) = d.matches /\ TextUnderway
    BY <1>1, WalkFacts
  <1>3. match_no \in Nat \ {0}
    BY DEF TInv, TypeOK
  <1>4. d.matches \in Seq(Match)
    BY <1>2 DEF Scannable
  <1>5. match_no \in 1..Len(d.matches)
    BY <1>1, <1>2, <1>3, <1>4, LenProperties
  <1>6. pos <= d.matches[match_no].start
    BY <1>2, <1>5, <1>3 DEF TextUnderway, CursorBetween
  <1> QED
    BY <1>1, <1>2, <1>5, <1>6 DEF ThisMatch, ThisText

\* The masked texts stay what they are when placeholders are added.
LEMMA MaskedStay ==
  ASSUME TInv, WalkInv, input' = input, masked_texts' = masked_texts, text_no' = text_no,
         Extends(original_to_placeholder', original_to_placeholder)
  PROVE  \A i \in 1..(text_no' - 1) : TextMasked(i)'
  <1> SUFFICES ASSUME NEW i \in 1..(text_no - 1) PROVE TextMasked(i)'
    OBVIOUS
  <1> DEFINE d == input[i]
             f == original_to_placeholder
  <1>1. i \in 1..Len(input) /\ input \in Inputs
    BY WorkerCount DEF TInv, TypeOK, WalkInv
  <1>2. Scannable(d)
    BY <1>1, InputScannable
  <1>3. Len(d.text) \in Nat
    BY <1>2, LenProperties DEF Scannable
  <1>4. masked_texts[i] = Image(d, f, Len(d.text)) /\ Settled(d, f, Len(d.text))
    BY DEF WalkInv, TextMasked
  <1>5. Settled(d, f', Len(d.text)) /\ Image(d, f', Len(d.text)) = Image(d, f, Len(d.text))
    BY <1>2, <1>3, <1>4, ImageStable
  <1> QED
    BY <1>4, <1>5 DEF TextMasked

\* A step that leaves the texts and the placeholders alone.
LEMMA WalkStays ==
  ASSUME WalkInv, UNCHANGED <<input, original_to_placeholder, textVars>>
  PROVE  WalkInv'
  BY DEF WalkInv, TextMasked, TextUnderway, textVars

\* A skipped match is not replaced: the cursor cannot be past its start.
LEMMA SkipWalks ==
  ASSUME TInv, EveryTextScanned, WalkInv, SkipMatch
  PROVE  WalkInv'
  <1> DEFINE d == input[text_no]
  <1>1. /\ AtMatch /\ Skipped /\ match_no' = match_no + 1
        /\ UNCHANGED <<input, original_to_placeholder, text_no, pos, out, masked_texts>>
    BY DEF SkipMatch, stateVars
  <1>2. /\ text_no <= Len(input)
        /\ match_no \in 1..Len(d.matches) /\ ThisMatch = d.matches[match_no]
        /\ ThisText = d.text /\ pos <= ThisMatch.start
    BY <1>1, AtMatchFacts
  <1>3. Scannable(d) /\ TextUnderway
    BY <1>1, <1>2, WalkFacts DEF AtMatch
  <1>4. pos \in Nat /\ ThisMatch.start \in Nat
    BY <1>2, <1>3, MatchOrder DEF TInv, TypeOK
  <1>5. ThisMatch \notin Effective(d)
    <2> SUFFICES ASSUME ThisMatch \in Effective(d) PROVE FALSE
      OBVIOUS
    <2>1. Placeholder[ThisMatch.rule] # Blank
      BY DEF Effective
    <2>2. /\ ThisMatch.end \in Nat /\ ThisMatch.start < ThisMatch.end
          /\ ThisMatch.end <= Len(d.text) /\ d.text \in Seq(Unit)
      BY <1>3, EffectiveFacts DEF Scannable
    <2>3. Len(Original) = ThisMatch.end - ThisMatch.start
      BY <1>2, <1>4, <2>2, SliceLength DEF Original
    <2>4. Original # <<>>
      BY <1>4, <2>2, <2>3, EmptySeq
    <2>5. ~(ThisMatch.start < pos)
      BY <1>2, <1>4
    <2> QED
      BY <1>1, <2>1, <2>4, <2>5 DEF Skipped, TypeName
  <1>6. CursorBetween(d, match_no + 1, pos)
    BY <1>2, <1>3, <1>4, <1>5, CursorSkips DEF TextUnderway
  <1>7. TextUnderway'
    BY <1>1, <1>3, <1>6 DEF TextUnderway
  <1>8. \A i \in 1..(text_no' - 1) : TextMasked(i)'
    BY <1>1 DEF WalkInv, TextMasked
  <1> QED
    BY <1>1, <1>7, <1>8 DEF WalkInv

\* Splicing a placeholder in, an old or a new one.
LEMMA SpliceWalks ==
  ASSUME TInv, EveryTextScanned, WalkInv, AtMatch, ~Skipped, NEW p, Splice(p),
         UNCHANGED <<input, text_no, masked_texts>>,
         Placeholders(original_to_placeholder'),
         Extends(original_to_placeholder', original_to_placeholder),
         Original \in DOMAIN original_to_placeholder',
         p = original_to_placeholder'[Original]
  PROVE  WalkInv'
  <1> DEFINE d == input[text_no]
             f == original_to_placeholder
             m == d.matches[match_no]
  <1>1. /\ text_no <= Len(input)
        /\ match_no \in 1..Len(d.matches) /\ ThisMatch = m /\ ThisText = d.text
    BY AtMatchFacts
  <1>2. Scannable(d) /\ TextUnderway /\ Placeholders(f)
    BY <1>1, WalkFacts DEF AtMatch
  <1>3. /\ out = Image(d, f, pos) /\ Settled(d, f, pos)
        /\ CursorBetween(d, match_no, pos) /\ pos \in Nat
    BY <1>2, SMTT(60) DEF TextUnderway, TInv, TypeOK
  <1>4. /\ out' = Append(out \o SubSeq(d.text, pos + 1, m.start), p)
        /\ pos' = m.end /\ match_no' = match_no + 1
    BY <1>1 DEF Splice
  <1>5. Original = Span(d, match_no)
    BY <1>1 DEF Original, Span
  <1>6. m \in Effective(d)
    <2>1. m \in ToSet(d.matches)
      <3>1. match_no \in DOMAIN d.matches
        BY <1>1, <1>2, LenProperties DEF Scannable
      <3> QED
        BY <3>1 DEF ToSet
    <2>2. Placeholder[m.rule] # Blank
      BY <1>1 DEF Skipped, TypeName
    <2>3. m.start < m.end
      <3>1. m.start \in Nat /\ m.end \in Nat /\ m.start <= m.end
        BY <1>1, <1>2, MatchOrder
      <3>2. ~(m.start + 1 > m.end)
        <4> SUFFICES ASSUME m.end < m.start + 1 PROVE FALSE
          BY <3>1
        <4>1. m.start + 1 \in Int /\ m.end \in Int
          BY <3>1
        <4>2. Original = SubSeq(d.text, m.start + 1, m.end)
          BY <1>1 DEF Original
        <4> HIDE DEF m, d
        <4>3. Original = <<>>
          BY ONLY m.end < m.start + 1, <4>1, <4>2, SubSeqEmpty
        <4> QED
          BY <4>3 DEF Skipped
      <3> QED
        BY <3>1, <3>2
    <2> QED
      BY <2>1, <2>2, <2>3 DEF Effective
  <1>7. Settled(d, f', m.end) /\ Spliced(d, f, f', match_no, pos)
    <2>1. Span(d, match_no) \in DOMAIN f'
      BY <1>5
    <2> HIDE DEF d, f
    <2>2. Placeholders(f') /\ Extends(f', f)
      BY DEF f
    <2> QED
      BY ONLY <1>1, <1>2, <1>3, <1>6, <2>1, <2>2, ImageSpliced DEF m
  <1>8. CursorBetween(d, match_no + 1, m.end)
    <2> HIDE DEF d, f
    <2>1. /\ match_no \in 1..Len(d.matches) /\ Scannable(d) /\ pos \in Nat
          /\ CursorBetween(d, match_no, pos)
      BY <1>1, <1>2, <1>3, SMTT(60)
    <2> QED
      BY ONLY <2>1, CursorMoves, Zenon DEF m
  <1>9. TextUnderway'
    <2>1. out' = Append(Image(d, f, pos) \o SubSeq(d.text, pos + 1, m.start),
                        f'[Span(d, match_no)])
      BY <1>3, <1>4, <1>5
    <2>2. out' = Image(d, f', m.end)
      BY <1>7, <2>1, Zenon DEF Spliced
    <2> QED
      BY <1>4, <1>7, <1>8, <2>2 DEF TextUnderway
  <1>10. \A i \in 1..(text_no' - 1) : TextMasked(i)'
    BY MaskedStay
  <1> QED
    BY <1>9, <1>10 DEF WalkInv

\* A match whose original has a placeholder, and one that gets it.
LEMMA ReuseWalks ==
  ASSUME TInv, EveryTextScanned, WalkInv, ReusePlaceholder
  PROVE  WalkInv'
  <1>1. /\ AtMatch /\ ~Skipped /\ Original \in DOMAIN original_to_placeholder
        /\ Splice(original_to_placeholder[Original])
        /\ UNCHANGED <<input, original_to_placeholder, text_no, masked_texts>>
    BY DEF ReusePlaceholder
  <1>2. Placeholders(original_to_placeholder)
    BY DEF TInv, TypeOK, Placeholders
  <1>3. Extends(original_to_placeholder, original_to_placeholder)
    BY DEF Extends
  <1> QED
    BY <1>1, <1>2, <1>3, SpliceWalks

LEMMA MintWalks ==
  ASSUME TInv, EveryTextScanned, WalkInv, MintPlaceholder
  PROVE  WalkInv'
  <1> DEFINE f == original_to_placeholder
             g == [o \in DOMAIN f \cup {Original} |-> IF o = Original THEN Candidate ELSE f[o]]
  <1>1. /\ AtMatch /\ ~Skipped /\ Original \notin DOMAIN f
        /\ f' = g /\ Splice(Candidate)
        /\ UNCHANGED <<input, text_no, masked_texts>>
    BY DEF MintPlaceholder
  <1>2. Candidate \in Literal
    <2>1. TypeName \in LiteralType
      BY <1>1, MatchFacts
    <2>2. placeholder_counters[TypeName] + 1 \in Nat
      BY <2>1, SMTT(60) DEF TInv, TypeOK
    <2> QED
      BY <2>1, <2>2 DEF Candidate, Literal
  <1>3. Placeholders(f)
    BY DEF TInv, TypeOK, Placeholders
  <1>4. Placeholders(g)
    BY <1>2, <1>3 DEF Placeholders
  <1>5. Extends(g, f)
    BY <1>1 DEF Extends
  <1>6. Original \in DOMAIN g /\ g[Original] = Candidate
    OBVIOUS
  <1> HIDE DEF g
  <1> QED
    BY <1>1, <1>4, <1>5, <1>6, SpliceWalks

\* The end of a text.
LEMMA FinishWalks ==
  ASSUME TInv, EveryTextScanned, WalkInv, FinishText
  PROVE  WalkInv'
  <1> DEFINE d == input[text_no]
             f == original_to_placeholder
             n == Len(d.text)
             r == out \o SubSeq(d.text, pos + 1, n)
  <1>1. /\ phase = "mask" /\ text_no <= Len(input) /\ match_no > Len(Matches(text_no))
        /\ masked_texts' = Append(masked_texts, r)
        /\ text_no' = text_no + 1 /\ match_no' = 1 /\ pos' = 0 /\ out' = <<>>
        /\ UNCHANGED <<input, original_to_placeholder>>
    BY DEF FinishText, ThisText, stateVars
  <1>2. /\ text_no \in 1..Len(input) /\ Scannable(d) /\ Matches(text_no) = d.matches
        /\ TextUnderway /\ Placeholders(f)
    BY <1>1, WalkFacts
  <1>3. /\ out = Image(d, f, pos) /\ Settled(d, f, pos) /\ CursorBetween(d, match_no, pos)
        /\ pos \in Nat /\ pos <= n /\ match_no \in Nat /\ match_no > Len(d.matches)
    BY <1>1, <1>2 DEF TextUnderway, TInv, TypeOK, CursorInText
  <1>4. n \in Nat
    BY <1>2, LenProperties DEF Scannable
  <1>5. ASSUME NEW q \in Effective(d) PROVE q.end <= pos
    BY <1>2, <1>3, TailClear
  <1>6. Settled(d, f, n)
    <2> SUFFICES ASSUME NEW q \in Effective(d)
                 PROVE  SubSeq(d.text, q.start + 1, q.end) \in DOMAIN f
      BY DEF Settled
    <2>1. q.start < pos
      <3>1. q.start \in Nat /\ q.end \in Nat /\ q.start < q.end
        BY <1>2, EffectiveFacts
      <3> QED
        BY <1>3, <1>5, <3>1
    <2> QED
      BY <1>3, <2>1 DEF Settled
  <1>7. Image(d, f, n) = r
    <2>1. \A q \in Effective(d) : q.end <= pos \/ n <= q.start
      BY <1>5
    <2>2. n <= n
      BY <1>4
    <2>3. Image(d, f, n) = Image(d, f, pos) \o SubSeq(d.text, pos + 1, n)
      BY <1>2, <1>3, <1>4, <1>6, <2>1, <2>2, ImageOfGap, Zenon
    <2> QED
      BY <1>3, <2>3
  <1>8. masked_texts \in Seq(Text) /\ r \in Text /\ Len(masked_texts) = text_no - 1
    <2>1. Image(d, f, n) \in Seq(Unit)
      BY <1>2, <1>4, <1>6, ImageType
    <2> QED
      BY <1>7, <2>1 DEF TInv, TypeOK, WalkInv, Text
  <1> HIDE DEF r
  <1>9. /\ Len(masked_texts') = text_no' - 1
        /\ \A i \in 1..(text_no - 1) : masked_texts'[i] = masked_texts[i]
        /\ masked_texts'[text_no] = r
    BY <1>1, <1>2, <1>8, AppendProperties
  <1>10. ASSUME NEW i \in 1..(text_no' - 1) PROVE TextMasked(i)'
    <2>1. CASE i = text_no
      BY <1>1, <1>6, <1>7, <1>9, <2>1, SMTT(60) DEF TextMasked
    <2>2. CASE i # text_no
      <3>1. i \in 1..(text_no - 1)
        BY <1>1, <1>2, <2>2
      <3>2. TextMasked(i) /\ masked_texts'[i] = masked_texts[i]
        BY <1>9, <3>1 DEF WalkInv
      <3> QED
        BY <1>1, <3>2 DEF TextMasked
    <2> QED
      BY <2>1, <2>2
  <1>11. ASSUME text_no' <= Len(input) PROVE TextUnderway'
    <2> DEFINE e == input[text_no + 1]
    <2>1. text_no + 1 \in 1..Len(input) /\ input \in Inputs
      BY <1>1, <1>2, <1>11, SMTT(60) DEF TInv, TypeOK
    <2>2. Scannable(e)
      BY <2>1, InputScannable
    <2> HIDE DEF e
    <2>3. Settled(e, f, 0)
      BY <2>2, EffectiveFacts DEF Settled
    <2>4. CursorBetween(e, 1, 0)
      BY <2>2, MatchOrder DEF CursorBetween
    <2>5. Image(e, f, 0) = <<>>
      BY ImageOfNothing
    <2> QED
      BY <1>1, <2>3, <2>4, <2>5 DEF TextUnderway, e
  <1>12. text_no' <= Len(input') + 1
    BY <1>1, <1>2
  <1> QED
    BY <1>1, <1>9, <1>10, <1>11, <1>12 DEF WalkInv

\* mask_text walks every text of the request from its start to its end.
LEMMA WalkInvariant == Spec => []WalkInv
  <1>1. Init => WalkInv
    BY InitWalk
  <1>2. TInv /\ EveryTextScanned /\ WalkInv /\ [Next]_vars => WalkInv'
    <2> SUFFICES ASSUME TInv, EveryTextScanned, WalkInv, [Next]_vars PROVE WalkInv'
      OBVIOUS
    <2>1. CASE UNCHANGED vars \/ Finished
      BY <2>1, WalkStays DEF vars, Finished, stateVars
    <2>2. CASE Scan
      BY <2>2, WalkStays DEF Scan, ScanSerial, LaunchTask, LaunchFails, UnwindLaunch,
           propagate_first_scan_error, BeginMasking, stateVars
    <2>3. ASSUME NEW w \in 1..Hardware, ScanTask(w) PROVE WalkInv'
      BY <2>3, WalkStays DEF ScanTask, stateVars
    <2>4. CASE SkipMatch
      BY <2>4, SkipWalks
    <2>5. CASE ReusePlaceholder
      BY <2>5, ReuseWalks
    <2>6. CASE SkipReserved
      BY <2>6, WalkStays DEF SkipReserved
    <2>7. CASE MintPlaceholder
      BY <2>7, MintWalks
    <2>8. CASE FinishText
      BY <2>8, FinishWalks
    <2>9. CASE Return
      BY <2>9, WalkStays DEF Return, stateVars
    <2> QED
      BY <2>1, <2>2, <2>3, <2>4, <2>5, <2>6, <2>7, <2>8, <2>9 DEF Next, Mask
  <1> QED
    BY <1>1, <1>2, TypeCorrect, ScanComplete, PTL DEF Spec, TInv

\* Every text mask_texts has masked is, unit by unit, the text it was given with
\* each matched span replaced by its placeholder, whatever the earlier and the
\* later texts of the request share with it (mask_text, MaskerState).
THEOREM SplicesExact == Spec => []SplicedExactly
  <1>1. WalkInv => SplicedExactly
    BY DEF WalkInv, TextMasked, SplicedExactly
  <1> QED
    BY <1>1, WalkInvariant, PTL
=============================================================================
