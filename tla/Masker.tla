------------------------------- MODULE Masker -------------------------------
(***************************************************************************)
(* Guard::mask_texts (guard/Masker.hpp): one request's texts are scanned   *)
(* (Phase A, serially or by a bounded set of std::async tasks) and then    *)
(* masked in text order through one shared MaskerState (Phase B).          *)
(*                                                                         *)
(* A text is a sequence of units.  A unit is a character or a literal      *)
(* <TYPE_N>, kept as one unit <<TYPE, N>>: rendering "<" TYPE "_" N ">" is *)
(* injective, because the digits after the last "_" are N.  The matches of *)
(* each text are what scan_rules returns for it (the Scanner's contract:   *)
(* sorted by start and disjoint); here they are part of the input.         *)
(***************************************************************************)
EXTENDS Naturals, SequencesExt

CONSTANTS
  Char,             \* characters of a text that belong to no literal
  LiteralType,      \* TYPE parts of the literals a text may hold
  WordType,         \* the TYPEs over [A-Za-z0-9_], all the collision guard sees
  Rule,             \* the compiled rules in force
  Blank,            \* the empty masking.placeholder
  Placeholder,      \* Rule -> masking.placeholder, a TYPE or Blank
  RuleDataType,     \* Rule -> data_type, as an integer
  Inputs,           \* requests: sequences of [text, matches, throws]
  Hardware,         \* std::thread::hardware_concurrency()
  ParallelMinBytes  \* MaskOptions::parallel_min_bytes, 0 replaced by its default

Literal == LiteralType \X Nat
Unit    == Char \cup Literal
Text    == Seq(Unit)
Match   == [start : Nat, end : Nat, rule : Rule]
Request == Seq([text : Text, matches : Seq(Match), throws : BOOLEAN])

\* scan_rules reports spans inside the text it was given.
InBounds(doc) ==
  \A k \in 1..Len(doc.matches) :
    doc.matches[k].start <= doc.matches[k].end /\ doc.matches[k].end <= Len(doc.text)

\* They are sorted and do not overlap.
InOrder(doc) ==
  \A k, l \in 1..Len(doc.matches) :
    k < l => doc.matches[k].end <= doc.matches[l].start

ASSUME MaskerAssumption ==
  /\ Placeholder \in [Rule -> LiteralType \cup {Blank}]
  /\ Blank \notin LiteralType
  /\ WordType \subseteq LiteralType
  /\ RuleDataType \in [Rule -> Nat]
  /\ Inputs \subseteq Request
  /\ \A in \in Inputs : \A i \in 1..Len(in) : InBounds(in[i])
  /\ Hardware \in Nat \ {0}
  /\ ParallelMinBytes \in Nat

ASSUME ScannerContract == \A in \in Inputs : \A i \in 1..Len(in) : InOrder(in[i])

VARIABLES
  input,                    \* the request being masked
  phase,                    \* "scan", "unwind", "mask", "done" or "failed"
  launched,                 \* std::async tasks started so far
  next,                     \* next[w]: the text task w scans next
  results,                  \* results[i]: "none", "ok" or "error"
  failed_at,                \* index named by the error, 0 for std::system_error
  text_no, match_no,        \* the text and the match Phase B is at
  pos, out,                 \* mask_text's cursor and output
  original_to_placeholder,  \* MaskerState: original -> literal
  placeholder_counters,     \* MaskerState: TYPE -> last counter value
  seen_rules, seen_data_types,
  replacements,             \* MaskerState: in first-encounter order
  masked_texts

scanVars  == <<launched, next, results, failed_at>>
stateVars == <<original_to_placeholder, placeholder_counters, seen_rules,
               seen_data_types, replacements>>
textVars  == <<text_no, match_no, pos, out, masked_texts>>
vars      == <<input, phase, scanVars, stateVars, textVars>>
-----------------------------------------------------------------------------
(* Phase A: how texts are dealt to tasks.                                  *)

Least(a, b) == IF a < b THEN a ELSE b

\* The combined size of the texts, in units.
TotalSize(in) ==
  LET upto[i \in 0..Len(in)] == IF i = 0 THEN 0 ELSE upto[i-1] + Len(in[i].text)
  IN  upto[Len(in)]

text_scan_worker_count(in) ==
  IF Len(in) < 2 \/ TotalSize(in) < ParallelMinBytes THEN 1
  ELSE Least(Len(in), Hardware)

Serial(in) == text_scan_worker_count(in) <= 1

\* A bug: the division rounds down.
ChunkSizeFloor(in) == Len(in) \div text_scan_worker_count(in)

ChunkSize(in) ==
  (Len(in) + text_scan_worker_count(in) - 1) \div text_scan_worker_count(in)

ChunkBegin(in, w) == (w - 1) * ChunkSize(in) + 1
ChunkEnd(in, w)   == Least(Len(in), w * ChunkSize(in))

\* The tasks the launch loop starts: it breaks at the first empty range.
Tasks(in) ==
  {w \in 1..text_scan_worker_count(in) : ChunkBegin(in, w) <= ChunkEnd(in, w)}

\* Task w has scanned the whole of its range.
TaskDone(w) == next[w] > ChunkEnd(input, w)

\* Every started task has ended: what f.get() and a future's destructor wait for.
AllJoined == \A w \in 1..launched : TaskDone(w)

Outcome(i) == IF input[i].throws THEN "error" ELSE "ok"

ScanSerial ==
  /\ phase = "scan" /\ Serial(input)
  /\ next[1] <= Len(input)
  /\ results' = [results EXCEPT ![next[1]] = Outcome(next[1])]
  /\ next' = [next EXCEPT ![1] = IF input[@].throws THEN Len(input) + 1 ELSE @ + 1]
  /\ UNCHANGED <<input, phase, launched, failed_at, stateVars, textVars>>

LaunchTask ==
  /\ phase = "scan" /\ ~Serial(input)
  /\ launched + 1 \in Tasks(input)
  /\ launched' = launched + 1
  /\ UNCHANGED <<input, phase, next, results, failed_at, stateVars, textVars>>

\* std::async cannot start a thread: std::system_error unwinds the launch loop,
\* and the destructors of the futures already started block until their tasks end.
LaunchFails ==
  /\ phase = "scan" /\ ~Serial(input)
  /\ launched + 1 \in Tasks(input)
  /\ phase' = "unwind"
  /\ UNCHANGED <<input, scanVars, stateVars, textVars>>

ScanTask(w) ==
  /\ w \in 1..launched /\ ~TaskDone(w)
  /\ results' = [results EXCEPT ![next[w]] = Outcome(next[w])]
  /\ next' = [next EXCEPT ![w] = @ + 1]
  /\ UNCHANGED <<input, phase, launched, failed_at, stateVars, textVars>>

\* A bug: the caller does not wait for the tasks.
ScannedNoWait ==
  \/ Serial(input) /\ next[1] > Len(input)
  \/ ~Serial(input) /\ launched + 1 \notin Tasks(input)

\* scan_texts has returned to mask_texts.
Scanned ==
  \/ Serial(input) /\ next[1] > Len(input)
  \/ ~Serial(input) /\ launched + 1 \notin Tasks(input) /\ AllJoined

\* A bug: the error found last, rather than the one of the lowest text.
IsLastError(i) ==
  /\ results[i] = "error"
  /\ \A j \in 1..Len(input) : results[j] = "error" => j <= i

IsFirstError(i) ==
  /\ results[i] = "error"
  /\ \A j \in 1..(i-1) : results[j] # "error"

propagate_first_scan_error ==
  /\ phase = "scan" /\ Scanned
  /\ \E i \in 1..Len(input) : IsFirstError(i) /\ failed_at' = i
  /\ phase' = "failed"
  /\ UNCHANGED <<input, launched, next, results, stateVars, textVars>>

UnwindLaunch ==
  /\ phase = "unwind" /\ AllJoined
  /\ phase' = "failed"
  /\ UNCHANGED <<input, scanVars, stateVars, textVars>>

BeginMasking ==
  /\ phase = "scan" /\ Scanned
  /\ \A i \in 1..Len(input) : results[i] # "error"
  /\ phase' = "mask"
  /\ UNCHANGED <<input, scanVars, stateVars, textVars>>
-----------------------------------------------------------------------------
(* Phase B: MaskerState.                                                   *)

\* What reserved_placeholder_regex finds in a text.
LiteralsIn(t) == {t[k] : k \in 1..Len(t)} \cap (WordType \X Nat)

\* A bug: only the text being masked is searched for literals.
reserved_in_current_text ==
  IF text_no <= Len(input) THEN LiteralsIn(input[text_no].text) ELSE {}

reserved_placeholders == UNION {LiteralsIn(input[i].text) : i \in 1..Len(input)}

is_triggerable_data_type(dt) == dt \in 1..6

\* scan_results[i].matches: empty for a text that no task has scanned.
Matches(i) == IF results[i] = "ok" THEN input[i].matches ELSE <<>>

ThisText  == input[text_no].text
ThisMatch == Matches(text_no)[match_no]
AtMatch   == /\ phase = "mask"
             /\ text_no <= Len(input)
             /\ match_no <= Len(Matches(text_no))

Original  == SubSeq(ThisText, ThisMatch.start + 1, ThisMatch.end)
TypeName  == Placeholder[ThisMatch.rule]

Skipped == ThisMatch.start < pos \/ Original = <<>> \/ TypeName = Blank

SkipMatch ==
  /\ AtMatch /\ Skipped
  /\ match_no' = match_no + 1
  /\ UNCHANGED <<input, phase, scanVars, stateVars, text_no, pos, out, masked_texts>>

\* A bug: the gap before the match is dropped.
SpliceWithoutGap(p) ==
  /\ seen_rules' = seen_rules \cup {ThisMatch.rule}
  /\ seen_data_types' = seen_data_types \cup
       {dt \in {RuleDataType[ThisMatch.rule]} : is_triggerable_data_type(dt)}
  /\ out' = Append(out, p)
  /\ pos' = ThisMatch.end
  /\ match_no' = match_no + 1

\* The tail of mask_text's loop body, once the placeholder is known.
Splice(p) ==
  /\ seen_rules' = seen_rules \cup {ThisMatch.rule}
  /\ seen_data_types' = seen_data_types \cup
       {dt \in {RuleDataType[ThisMatch.rule]} : is_triggerable_data_type(dt)}
  /\ out' = Append(out \o SubSeq(ThisText, pos + 1, ThisMatch.start), p)
  /\ pos' = ThisMatch.end
  /\ match_no' = match_no + 1

ReusePlaceholder ==
  /\ AtMatch /\ ~Skipped
  /\ Original \in DOMAIN original_to_placeholder
  /\ Splice(original_to_placeholder[Original])
  /\ UNCHANGED <<input, phase, scanVars, original_to_placeholder,
                 placeholder_counters, replacements, text_no, masked_texts>>

\* The value next_placeholder's loop renders in its next iteration.
Candidate == <<TypeName, placeholder_counters[TypeName] + 1>>

\* A bug: the loop tries the same value again.
SkipWithoutCounting ==
  /\ AtMatch /\ ~Skipped
  /\ Original \notin DOMAIN original_to_placeholder
  /\ Candidate \in reserved_placeholders
  /\ UNCHANGED vars

\* next_placeholder's loop, an iteration whose candidate is reserved: the
\* counter moves on and is never rolled back.
SkipReserved ==
  /\ AtMatch /\ ~Skipped
  /\ Original \notin DOMAIN original_to_placeholder
  /\ Candidate \in reserved_placeholders
  /\ placeholder_counters' = [placeholder_counters EXCEPT ![TypeName] = @ + 1]
  /\ UNCHANGED <<input, phase, scanVars, original_to_placeholder, seen_rules,
                 seen_data_types, replacements, textVars>>

\* A bug: the counter is left alone when a placeholder is minted.
MintWithoutCounting ==
  /\ AtMatch /\ ~Skipped
  /\ Original \notin DOMAIN original_to_placeholder
  /\ Candidate \notin reserved_placeholders
  /\ original_to_placeholder' =
       [o \in DOMAIN original_to_placeholder \cup {Original} |->
          IF o = Original THEN Candidate ELSE original_to_placeholder[o]]
  /\ replacements' = Append(replacements,
       [rule |-> ThisMatch.rule, original |-> Original, placeholder |-> Candidate])
  /\ Splice(Candidate)
  /\ UNCHANGED <<input, phase, scanVars, placeholder_counters, text_no, masked_texts>>

\* The iteration that finds a free value: the original gets its placeholder.
MintPlaceholder ==
  /\ AtMatch /\ ~Skipped
  /\ Original \notin DOMAIN original_to_placeholder
  /\ Candidate \notin reserved_placeholders
  /\ placeholder_counters' = [placeholder_counters EXCEPT ![TypeName] = @ + 1]
  /\ original_to_placeholder' =
       [o \in DOMAIN original_to_placeholder \cup {Original} |->
          IF o = Original THEN Candidate ELSE original_to_placeholder[o]]
  /\ replacements' = Append(replacements,
       [rule |-> ThisMatch.rule, original |-> Original, placeholder |-> Candidate])
  /\ Splice(Candidate)
  /\ UNCHANGED <<input, phase, scanVars, text_no, masked_texts>>

\* mask_text returns, or a text without matches is copied.
FinishText ==
  /\ phase = "mask"
  /\ text_no <= Len(input) /\ match_no > Len(Matches(text_no))
  /\ masked_texts' =
       Append(masked_texts, out \o SubSeq(ThisText, pos + 1, Len(ThisText)))
  /\ text_no' = text_no + 1
  /\ match_no' = 1 /\ pos' = 0 /\ out' = <<>>
  /\ UNCHANGED <<input, phase, scanVars, stateVars>>

Return ==
  /\ phase = "mask" /\ text_no > Len(input)
  /\ phase' = "done"
  /\ UNCHANGED <<input, scanVars, stateVars, textVars>>
-----------------------------------------------------------------------------
Init ==
  /\ input \in Inputs
  /\ phase = "scan" /\ launched = 0 /\ failed_at = 0
  /\ next = [w \in 1..Hardware |-> ChunkBegin(input, w)]
  /\ results = [i \in 1..Len(input) |-> "none"]
  /\ text_no = 1 /\ match_no = 1 /\ pos = 0 /\ out = <<>>
  /\ original_to_placeholder = [o \in {} |-> <<>>]
  /\ placeholder_counters = [t \in LiteralType |-> 0]
  /\ seen_rules = {} /\ seen_data_types = {}
  /\ replacements = <<>> /\ masked_texts = <<>>

Returned == phase \in {"done", "failed"}

\* The call is over; nothing of it runs any more.
Finished == Returned /\ AllJoined /\ UNCHANGED vars

Scan == ScanSerial \/ LaunchTask \/ LaunchFails \/ UnwindLaunch
        \/ propagate_first_scan_error \/ BeginMasking
Mask == SkipMatch \/ ReusePlaceholder \/ SkipReserved \/ MintPlaceholder
        \/ FinishText \/ Return

Next ==
  \/ Scan
  \/ \E w \in 1..Hardware : ScanTask(w)
  \/ Mask
  \/ Finished

\* The calling thread and every task thread run until they are done.
Fairness ==
  /\ WF_vars(Scan \/ Mask)
  /\ \A w \in 1..Hardware : WF_vars(ScanTask(w))

Spec == Init /\ [][Next]_vars
FairSpec == Spec /\ Fairness
-----------------------------------------------------------------------------
(* Properties.                                                             *)

Replacement == [rule : Rule, original : Text, placeholder : Literal]

\* Every variable of the call has its type.
TypeOK ==
  /\ input \in Inputs
  /\ phase \in {"scan", "unwind", "mask", "done", "failed"}
  /\ launched \in Nat
  /\ next \in [1..Hardware -> Nat]
  /\ results \in [1..Len(input) -> {"none", "ok", "error"}]
  /\ failed_at \in Nat
  /\ text_no \in Nat \ {0} /\ match_no \in Nat \ {0} /\ pos \in Nat
  /\ out \in Text
  /\ DOMAIN original_to_placeholder \subseteq Text
  /\ original_to_placeholder \in [DOMAIN original_to_placeholder -> Literal]
  /\ placeholder_counters \in [LiteralType -> Nat]
  /\ seen_rules \subseteq Rule
  /\ seen_data_types \subseteq 1..6
  /\ replacements \in Seq(Replacement)
  /\ masked_texts \in Seq(Text)

\* Two different originals never share a placeholder (placeholder_for_original
\* and the per-TYPE counters): demasking can tell every value apart.
PlaceholdersInjective ==
  \A o1, o2 \in DOMAIN original_to_placeholder :
    original_to_placeholder[o1] = original_to_placeholder[o2] => o1 = o2

\* next_placeholder never mints a literal that some text of the request, an
\* earlier or a later one, already contained.
NeverReserved ==
  \A o \in DOMAIN original_to_placeholder :
    original_to_placeholder[o] \notin reserved_placeholders

\* The replacement list handed to the demasker lists each original once, with
\* its placeholder of the dedup map, and leaves none out.
ReplacementsAreTheMap ==
  /\ \A k \in 1..Len(replacements) :
       /\ replacements[k].original \in DOMAIN original_to_placeholder
       /\ replacements[k].placeholder = original_to_placeholder[replacements[k].original]
  /\ \A k, l \in 1..Len(replacements) :
       replacements[k].original = replacements[l].original => k = l
  /\ \A o \in DOMAIN original_to_placeholder :
       \E k \in 1..Len(replacements) : replacements[k].original = o

\* Whatever order the tasks finish in, the reported scan error is the one of
\* the lowest failing text.
LowestErrorWins ==
  failed_at > 0 =>
    /\ failed_at <= Len(input)
    /\ input[failed_at].throws
    /\ \A j \in 1..(failed_at - 1) : ~input[j].throws

\* No task is still running, and so none writes to the results vector it holds
\* by reference, once mask_texts has moved on to Phase B or returned.
NoTaskOutlivesScan == phase \in {"mask", "done", "failed"} => AllJoined

\* Phase B never starts with a text that no task has scanned: its matches would
\* be empty and the text would leave the guard unmasked.  This is what the
\* rounding of scan_texts' chunk size is for.
EveryTextScanned ==
  phase \in {"mask", "done"} => \A i \in 1..Len(input) : results[i] = "ok"

\* The matches of a text that mask_text replaces.
Effective(doc) ==
  {m \in ToSet(doc.matches) : m.start < m.end /\ Placeholder[m.rule] # Blank}

\* What unit u of a text turns into, given the placeholders.
Piece(doc, placeholders, u) ==
  IF \E m \in Effective(doc) : m.start < u /\ u <= m.end
  THEN LET m == CHOOSE m \in Effective(doc) : m.start < u /\ u <= m.end
       IN  IF u = m.start + 1
           THEN <<placeholders[SubSeq(doc.text, m.start + 1, m.end)]>>
           ELSE <<>>
  ELSE <<doc.text[u]>>

\* What the first n units of a text turn into.
Image(doc, placeholders, n) ==
  FlattenSeq([u \in 1..n |-> Piece(doc, placeholders, u)])

\* Every matched span of a masked text is exactly its placeholder and every
\* other unit is untouched (mask_text's cursor walk, told unit by unit).
SplicedExactly ==
  \A i \in 1..Len(masked_texts) :
    masked_texts[i] = Image(input[i], original_to_placeholder, Len(input[i].text))

\* mask_texts returns or throws.
Terminates == <>Returned
=============================================================================
