------------------------------ MODULE Demasker ------------------------------
(***************************************************************************)
(* guard/demask/Demasker.hpp: one response stream is demasked chunk by     *)
(* chunk.  Every call appends a chunk to the held-back bytes, restores     *)
(* placeholders with an exact and then a tolerant pass, emits a prefix and *)
(* holds the rest back.  A text is a sequence of bytes.                    *)
(***************************************************************************)
EXTENDS Naturals, SequencesExt

CONSTANTS
  Streams,        \* what a stream can be: [bytes, replacements, triggered, pinned]
  Rule,           \* rule ids, numbered in the order of their strings
  Known,          \* the rules the pinned registry snapshot resolves
  Canonical,      \* Rule -> index -> the literal <TYPE_N>
  Recognize,      \* Rule -> function from a recognized form to its index
  PlaceholderLen, \* Rule -> CompiledRule::placeholder_len
  JsonEscape(_),  \* Json::encode_string(original, false)
  RuneBytes,      \* byte -> bytes of the rune it starts, 0 for a continuation
  MaxChunk        \* bytes in a chunk that does not end the stream

Byte == DOMAIN RuneBytes

is_rune_start(b) == RuneBytes[b] # 0

WidestRune == Max({RuneBytes[b] : b \in Byte})

\* A text of whole runes: each start is followed by the rest of its rune, and
\* every other byte belongs to one.
Utf8(s) ==
  /\ s \in Seq(Byte)
  /\ \A i \in 1..Len(s) :
       IF is_rune_start(s[i])
       THEN /\ i + RuneBytes[s[i]] - 1 <= Len(s)
            /\ \A k \in (i+1)..(i + RuneBytes[s[i]] - 1) : ~is_rune_start(s[k])
       ELSE \E h \in 1..i : is_rune_start(s[h]) /\ i < h + RuneBytes[s[h]]

\* Responses, originals and placeholders are UTF-8, and so is what a recognizer
\* takes.  A placeholder has its delimiters, a TYPE, "_" and an index: it is
\* longer than a rune.  A rule without a recognizer has the bound 0.
ASSUME DemaskerAssumption ==
  /\ RuneBytes \in [Byte -> 0..4] /\ \E b \in Byte : is_rune_start(b)
  /\ MaxChunk \in Nat
  /\ Known \subseteq Rule /\ Rule \subseteq Nat /\ IsFiniteSet(Known)
  /\ \A r \in Known : /\ PlaceholderLen[r] \in Nat
                      /\ PlaceholderLen[r] = 0 \/ PlaceholderLen[r] >= WidestRune
                      /\ \A w \in DOMAIN Recognize[r] : Utf8(w)
  /\ \A in \in Streams :
       /\ Utf8(in.bytes) /\ in.pinned \in BOOLEAN
       /\ in.replacements \in Seq(Range(in.replacements))
       /\ \A rep \in Range(in.replacements) :
            /\ Utf8(rep.original) /\ Utf8(JsonEscape(rep.original))
            /\ Utf8(rep.placeholder)
            /\ rep.placeholder # <<>> => Len(rep.placeholder) >= WidestRune

VARIABLES
  stream,   \* the response and what the masking phase left for it
  cfg,      \* Config, built once and never changed
  json_ctx, \* json_escape_originals
  sent,     \* bytes of the response handed to demask_chunk so far
  pending,  \* pending_
  emitted,  \* what the caller has written to the client
  faulted,  \* some call threw DemaskError
  closed    \* the flushing call was made

vars == <<stream, cfg, json_ctx, sent, pending, emitted, faulted, closed>>
-----------------------------------------------------------------------------
(* make_config: entries, hold-back bound and rules of the tolerant pass.   *)

\* Blank placeholders are skipped and the first entry of a placeholder wins.
EntriesOf(replacements) ==
  LET skipped(es, rep) ==
        rep.placeholder = <<>> \/ \E k \in 1..Len(es) : es[k].placeholder = rep.placeholder
      upto[i \in 0..Len(replacements)] ==
        IF i = 0 THEN <<>>
        ELSE IF skipped(upto[i-1], replacements[i]) THEN upto[i-1]
        ELSE Append(upto[i-1], replacements[i])
  IN  upto[Len(replacements)]

\* The triggered rules the snapshot resolves; none without a snapshot.
RulesOf(in) == IF in.pinned THEN in.triggered \cap Known ELSE {}

\* A bug: only the literals bound what is held back.
LiteralBound(entries, rules) == Max({0} \cup {Len(e.placeholder) : e \in ToSet(entries)})

PendingBound(entries, rules) ==
  Max({0} \cup {Len(e.placeholder) : e \in ToSet(entries)}
          \cup {PlaceholderLen[r] : r \in rules})

make_config(in) ==
  LET entries == EntriesOf(in.replacements)
      rules   == RulesOf(in)
  IN  [entries |-> entries, rules |-> rules, max_pending |-> PendingBound(entries, rules)]

\* Config::lookup: the entries with that placeholder (at most one).
Lookup(p) == {k \in 1..Len(cfg.entries) : cfg.entries[k].placeholder = p}

\* The original as it is written to the stream.
Restored(k) ==
  IF json_ctx THEN JsonEscape(cfg.entries[k].original) ELSE cfg.entries[k].original
-----------------------------------------------------------------------------
(* The exact pass.                                                         *)

StartsAt(text, i, p) ==
  i + Len(p) - 1 <= Len(text) /\ SubSeq(text, i, i + Len(p) - 1) = p

\* At each position the earliest entry that matches wins; the cursor jumps past
\* the placeholder and never looks at the inserted original.
apply_exact(text) ==
  LET hits(i) == {k \in 1..Len(cfg.entries) : StartsAt(text, i, cfg.entries[k].placeholder)}
      from[i \in 1..(Len(text) + 1)] ==
        IF i > Len(text) THEN <<>>
        ELSE IF hits(i) = {} THEN <<text[i]>> \o from[i+1]
        ELSE Restored(Min(hits(i))) \o from[i + Len(cfg.entries[Min(hits(i))].placeholder)]
  IN  from[1]
-----------------------------------------------------------------------------
(* The tolerant pass.  Offsets are start (first byte) and end (past last). *)

\* The matches of one rule, left to right; one without a usable index is
\* consumed and not reported.  Every form starts with "<" and ends with ">".
scan_rule(text, r) ==
  LET ends(i) == {j \in i..Len(text) : /\ text[i] = "<" /\ text[j] = ">"
                                       /\ SubSeq(text, i, j) \in DOMAIN Recognize[r]}
      from[i \in 1..(Len(text) + 1)] ==
        IF i > Len(text) THEN {}
        ELSE IF ends(i) = {} THEN from[i+1]
        ELSE LET j == Min(ends(i))
                 n == Recognize[r][SubSeq(text, i, j)]
             IN  {[rule |-> r, start |-> i, end |-> j + 1,
                   placeholder |-> Canonical[r][m]] : m \in {n} \ {0}} \cup from[j+1]
  IN  from[1]

MatchBefore(a, b) ==
  \/ a.start < b.start
  \/ a.start = b.start /\ a.end > b.end
  \/ a.start = b.start /\ a.end = b.end /\ a.rule < b.rule

\* The sweep over the matches in that order: the first one stays, and those that
\* start before its end are dropped.
resolve_conflicts(matches) ==
  LET first(ms) == CHOOSE m \in ms : \A o \in ms \ {m} : MatchBefore(m, o)
      sweep[ms \in SUBSET matches] ==
        IF ms = {} THEN {}
        ELSE {first(ms)} \cup sweep[{m \in ms : m.start >= first(ms).end}]
  IN  sweep[matches]

\* The resolved matches that have an entry are spliced in; the others stay.
apply_placeholder_regex(text) ==
  LET matches == resolve_conflicts(UNION {scan_rule(text, r) : r \in cfg.rules})
      from[i \in 1..(Len(text) + 1)] ==
        IF i > Len(text) THEN <<>>
        ELSE IF text[i] = "<" /\ \E m \in matches : m.start = i /\ Lookup(m.placeholder) # {}
        THEN LET m == CHOOSE m \in matches : m.start = i
             IN  Restored(Min(Lookup(m.placeholder))) \o from[m.end]
        ELSE <<text[i]>> \o from[i+1]
  IN  from[1]
-----------------------------------------------------------------------------
(* The hold-back.                                                          *)

rune_len_at(s, i) ==
  LET want == RuneBytes[s[i]]
  IN  IF i + want - 1 <= Len(s) /\ \A k \in (i+1)..(i+want-1) : ~is_rune_start(s[k])
      THEN want ELSE 1

\* A bug: the boundary is not trimmed.
untrimmed_prefix_end(s, end) == end

\* The largest prefix of at most `end' bytes that splits no rune.
utf8_safe_prefix_end(s, end) ==
  IF end = 0 THEN 0
  ELSE IF end >= Len(s) THEN Len(s)
  ELSE LET starts == {i \in 1..end : is_rune_start(s[i])}
       IN  IF starts = {} THEN 0
           ELSE LET i == Max(starts)
                IN  IF i - 1 + rune_len_at(s, i) <= end THEN end ELSE i - 1

SafeEnd(text) ==
  IF Len(text) <= cfg.max_pending THEN 0
  ELSE utf8_safe_prefix_end(text, Len(text) - cfg.max_pending)
-----------------------------------------------------------------------------
Take(n) == SubSeq(stream.bytes, sent + 1, sent + n)
Chunks  == 0..Min({MaxChunk, Len(stream.bytes) - sent})

\* What demask_chunk makes of a text: the exact and then the tolerant pass.
Demasked(text) == {apply_placeholder_regex(t) : t \in {apply_exact(text)}}

\* demask_chunk(chunk, false).
DemaskChunk(n) ==
  /\ ~closed /\ n \in Chunks
  /\ \E text \in Demasked(pending \o Take(n)) : \E end \in {SafeEnd(text)} :
       /\ emitted' = emitted \o SubSeq(text, 1, end)
       /\ pending' = SubSeq(text, end + 1, Len(text))
  /\ sent' = sent + n
  /\ UNCHANGED <<stream, cfg, json_ctx, faulted, closed>>

\* demask_chunk(chunk, true): nothing is held back.
Flush ==
  /\ ~closed /\ Len(stream.bytes) - sent <= MaxChunk
  /\ \E text \in Demasked(pending \o Take(Len(stream.bytes) - sent)) :
       emitted' = emitted \o text
  /\ pending' = <<>> /\ sent' = Len(stream.bytes) /\ closed' = TRUE
  /\ UNCHANGED <<stream, cfg, json_ctx, faulted>>

\* A bug: the chunk is handed back without the bytes that were pending.
ErrorCarriesChunkOnly(n) ==
  /\ ~closed /\ n \in Chunks /\ cfg.rules # {} /\ pending \o Take(n) # <<>>
  /\ emitted' = emitted \o apply_exact(Take(n))
  /\ pending' = <<>> /\ sent' = sent + n /\ faulted' = TRUE
  /\ UNCHANGED <<stream, cfg, json_ctx, closed>>

\* The tolerant pass throws (an allocation fails): DemaskError carries every
\* byte that is not emitted, and the caller emits them.
DemaskError(n) ==
  /\ ~closed /\ n \in Chunks /\ cfg.rules # {} /\ pending \o Take(n) # <<>>
  /\ emitted' = emitted \o apply_exact(pending \o Take(n))
  /\ pending' = <<>> /\ sent' = sent + n /\ faulted' = TRUE
  /\ UNCHANGED <<stream, cfg, json_ctx, closed>>

Init ==
  /\ stream \in Streams /\ cfg = make_config(stream) /\ json_ctx \in BOOLEAN
  /\ sent = 0 /\ pending = <<>> /\ emitted = <<>>
  /\ faulted = FALSE /\ closed = FALSE

Closed == closed /\ UNCHANGED vars

Next ==
  \/ \E n \in Chunks : DemaskChunk(n) \/ DemaskError(n)
  \/ Flush
  \/ Closed

Spec == Init /\ [][Next]_vars
-----------------------------------------------------------------------------
(* Tables in which what is looked for and what is written stay apart.      *)

\* Laid over each other in any way, two texts differ where they meet.
Apart(v, w) ==
  \A i \in 1..Len(v), j \in 1..Len(w) :
    \E k \in 1..Len(v), l \in 1..Len(w) : k + j = l + i /\ v[k] # w[l]

Bracketed(w) ==
  /\ Len(w) >= 2 /\ w[1] = "<" /\ w[Len(w)] = ">"
  /\ \A i \in 2..(Len(w) - 1) : w[i] \notin {"<", ">"}

\* What the passes over a stream look for.
Tokens(in) ==
  ({rep.placeholder : rep \in Range(in.replacements)} \ {<<>>})
    \cup UNION {DOMAIN Recognize[r] : r \in RulesOf(in)}

\* What they look for is delimited, and no original is part of it or meets it.
TableApart(in) ==
  /\ \A w \in Tokens(in) : Bracketed(w)
  /\ \A rep \in Range(in.replacements) : \A v \in {rep.original, JsonEscape(rep.original)} :
       v # <<>> /\ \A w \in Tokens(in) : Apart(v, w)

\* The bound of a recognizer is one: it takes nothing longer.
FormsFit(in) == \A r \in RulesOf(in) : \A w \in DOMAIN Recognize[r] : Len(w) <= PlaceholderLen[r]
-----------------------------------------------------------------------------
(* Properties.                                                             *)

Received == SubSeq(stream.bytes, 1, sent)

\* However the response was cut and wherever the tolerant pass failed, what is
\* emitted and held back is the received text, each placeholder restored or
\* still there: no byte is lost, duplicated or moved (demask_chunk clears
\* pending_ first, DemaskError carries the unemitted bytes).
Lossless ==
  \A u, v \in UNION {Demasked(text) : text \in {emitted \o pending, Received}} : u = v

\* However the response was cut, the client has read what demask_chunk makes of
\* the response in one piece: no placeholder, literal or paraphrased, was written
\* out in part before the rest of it arrived (max_pending, "both halves matter").
AsOnePiece == closed /\ ~faulted => {emitted} = Demasked(stream.bytes)

\* demask_chunk never emits the first bytes of a rune whose rest it holds back.
RunesWhole ==
  emitted # <<>> /\ pending # <<>> /\ ~faulted
    => is_rune_start(Head(pending)) /\ RuneBytes[Last(emitted)] <= 1

\* The buffer of a stream is bounded: max_pending, and less than one rune more.
HoldBackBounded == Len(pending) < cfg.max_pending + WidestRune

\* utf8_safe_prefix_end cuts a stream early enough and not too early, in front of a
\* rune and less than one before the bound.
HoldBackExact == RunesWhole /\ HoldBackBounded
=============================================================================
