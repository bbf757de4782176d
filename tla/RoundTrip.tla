----------------------------- MODULE RoundTrip ------------------------------
(***************************************************************************)
(* The masker and the demasker of one request: the texts are masked, the   *)
(* model echoes one masked text, and the echo is demasked as a stream with *)
(* the MaskingState of the masking phase and the same registry snapshot.   *)
(***************************************************************************)
EXTENDS Naturals, SequencesExt

CONSTANTS Char, LiteralType, WordType, Rule, Blank, Placeholder, RuleDataType,
          Inputs, Hardware, ParallelMinBytes          \* of Masker
CONSTANTS Streams, Canonical, Recognize, PlaceholderLen, JsonEscape(_), RuneBytes,
          MaxChunk                                    \* of Demasker
CONSTANT  Render(_)   \* a unit of a text as bytes: a character, or "<TYPE_N>"

VARIABLES input, phase, launched, next, results, failed_at, text_no, match_no,
          pos, out, original_to_placeholder, placeholder_counters, seen_rules,
          seen_data_types, replacements, masked_texts
VARIABLES stream, cfg, json_ctx, sent, pending, emitted, faulted, closed

M == INSTANCE Masker
D == INSTANCE Demasker WITH Known <- Rule

maskVars == <<input, phase, launched, next, results, failed_at, text_no, match_no,
              pos, out, original_to_placeholder, placeholder_counters, seen_rules,
              seen_data_types, replacements, masked_texts>>
demaskVars == <<stream, cfg, json_ctx, sent, pending, emitted, faulted, closed>>

RenderText(text) == FlattenSeq([u \in 1..Len(text) |-> Render(text[u])])

\* No response yet.
Idle == stream.text = 0

Init ==
  /\ M!Init
  /\ stream = [text |-> 0] /\ cfg = [entries |-> <<>>, rules |-> {}, max_pending |-> 0]
  /\ json_ctx = FALSE /\ sent = 0 /\ pending = <<>> /\ emitted = <<>>
  /\ faulted = FALSE /\ closed = TRUE

MaskStep == Idle /\ M!Next /\ UNCHANGED demaskVars

\* The response to text k arrives: make_config from what mask_texts returned.
Respond(k) ==
  /\ Idle /\ phase = "done"
  /\ stream' = [text |-> k, bytes |-> RenderText(masked_texts[k]),
                replacements |-> [i \in 1..Len(replacements) |->
                   [placeholder |-> Render(replacements[i].placeholder),
                    original |-> RenderText(replacements[i].original)]],
                triggered |-> seen_rules, pinned |-> TRUE]
  /\ cfg' = D!make_config(stream')
  /\ closed' = FALSE
  /\ UNCHANGED <<maskVars, json_ctx, sent, pending, emitted, faulted>>

DemaskStep == ~Idle /\ D!Next /\ UNCHANGED maskVars

Next == MaskStep \/ (\E k \in 1..Len(masked_texts) : Respond(k)) \/ DemaskStep

vars == <<maskVars, demaskVars>>

Spec == Init /\ [][Next]_vars
-----------------------------------------------------------------------------
\* A masked text that the model repeats verbatim reaches the client as the
\* text the user wrote, also when the user's text holds placeholder-shaped
\* tokens of its own (the collision guard of mask_texts and the demasker).
EchoRestored ==
  ~Idle /\ closed /\ ~faulted => emitted = RenderText(input[stream.text].text)
=============================================================================
