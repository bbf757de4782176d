--------------------------------- MODULE Sse ---------------------------------
(***************************************************************************)
(* Guard::Sse (guard/sse/Common.hpp): cutting the bytes of an upstream     *)
(* response into event frames, reading a frame, and the two accumulators   *)
(* fed with what the frames carry.  Bytes are the characters of Json and   *)
(* the halves of "data:" and "[DONE]", so that a read can end inside them. *)
(***************************************************************************)
EXTENDS Integers, Sequences, SequencesExt, FiniteSetsExt, TLC

kFrameSepLF     == <<"LF", "LF">>
kFrameSepCRLF   == <<"CR", "LF", "CR", "LF">>
kDataLinePrefix == <<"da", "ta:">>
kDataPrefix     == kDataLinePrefix \o <<" ">>
kDoneSentinel   == <<"[DO", "NE]">>

Drop(s, n) == SubSeq(s, n + 1, Len(s))

\* std::string_view::find, counted from 1, and 0 for npos.
Find(data, sep) ==
  LET at == {i \in DOMAIN data : IsPrefix(sep, Drop(data, i - 1))}
  IN  IF at = {} THEN 0 ELSE Min(at)

\* The length of the first frame, its separator included; 0 for no frame.
find_frame_separator(data) ==
  LET end(lf, crlf) == IF crlf # 0 /\ (lf = 0 \/ crlf < lf)
                       THEN crlf - 1 + Len(kFrameSepCRLF)
                       ELSE IF lf # 0 THEN lf - 1 + Len(kFrameSepLF) ELSE 0
  IN  end(Find(data, kFrameSepLF), Find(data, kFrameSepCRLF))

\* A bug: a buffer that ends with a line is taken for a whole frame.
EagerSplit(buf) ==
  IF buf # <<>> /\ Last(buf) = "LF" THEN [frames |-> <<buf>>, tail |-> <<>>]
  ELSE [frames |-> <<>>, tail |-> buf]

split_frames(buf) ==
  LET cut[rest \in Seq(STRING), frames \in Seq(Seq(STRING)), end \in Nat] ==
        IF end = 0 THEN [frames |-> frames, tail |-> rest]
        ELSE cut[Drop(rest, end), Append(frames, SubSeq(rest, 1, end)),
                 find_frame_separator(Drop(rest, end))]
  IN  cut[buf, <<>>, find_frame_separator(buf)]

\* next_line and trim_trailing_cr: the lines of a frame.
Lines(frame) ==
  LET ends == Append(SelectSeq([i \in DOMAIN frame |-> i], LAMBDA i : frame[i] = "LF"),
                     Len(frame) + 1)
      trim_trailing_cr(line) ==
        IF line # <<>> /\ Last(line) = "CR" THEN Front(line) ELSE line
  IN  [k \in DOMAIN ends |->
         trim_trailing_cr(SubSeq(frame, IF k = 1 THEN 1 ELSE ends[k - 1] + 1, ends[k] - 1))]

\* The payload of a data line, without the one optional space.
Payload(line) ==
  LET rest == Drop(line, Len(kDataLinePrefix))
  IN  IF rest # <<>> /\ Head(rest) = " " THEN Tail(rest) ELSE rest

\* Data lines are joined by a line feed; [DONE] ends the frame at once; a
\* frame with no data, or with empty data, is passed through.
classify_frame(frame) ==
  LET lines    == SelectSeq(Lines(frame), LAMBDA l : IsPrefix(kDataLinePrefix, l))
      payloads == [i \in DOMAIN lines |-> Payload(lines[i])]
      data     == FlattenSeq([i \in DOMAIN payloads |->
                    (IF i = 1 THEN <<>> ELSE <<"LF">>) \o payloads[i]])
  IN  IF kDoneSentinel \in ToSet(payloads)
      THEN [kind |-> "Done", data |-> <<>>, raw |-> frame]
      ELSE [kind |-> IF data = <<>> THEN "Passthrough" ELSE "Event",
            data |-> data, raw |-> frame]

build_event_frame(data) == kDataPrefix \o data \o kFrameSepLF
-----------------------------------------------------------------------------
(* JsonCloseTracker                                                        *)

NewTracker == [depth |-> 0, in_string |-> FALSE, escaped |-> FALSE,
               opened |-> FALSE, closed |-> FALSE]

\* One byte.
Consume(t, c) ==
  CASE t.escaped -> [t EXCEPT !.escaped = FALSE]
    [] ~t.escaped /\ c = "\\" -> [t EXCEPT !.escaped = TRUE]
    [] ~t.escaped /\ c = "\"" -> [t EXCEPT !.in_string = ~@]
    [] ~t.escaped /\ ~t.in_string /\ c = "{" ->
         [t EXCEPT !.depth = @ + 1, !.opened = TRUE]
    [] ~t.escaped /\ ~t.in_string /\ c = "}" ->
         [t EXCEPT !.depth = @ - 1, !.closed = @ \/ (t.opened /\ t.depth = 1)]
    [] OTHER -> t

\* A bug: an escape is forgotten at the end of a fragment.
FeedForgetful(tracker, fragment) ==
  FoldLeft(Consume, [tracker EXCEPT !.escaped = FALSE], fragment)

feed(tracker, fragment) == FoldLeft(Consume, tracker, fragment)
-----------------------------------------------------------------------------
(* MaskedTextRecorder                                                      *)

NewRecorder == [order |-> <<>>, by_key |-> <<>>]

\* Nothing for an empty text; the first text of a key fixes its place.
record(rec, key, text) ==
  IF text = <<>> THEN rec
  ELSE IF key \in DOMAIN rec.by_key
  THEN [rec EXCEPT !.by_key[key] = @ \o text]
  ELSE [order |-> Append(rec.order, key), by_key |-> rec.by_key @@ (key :> text)]

texts(rec) == [i \in DOMAIN rec.order |-> rec.by_key[rec.order[i]]]
=============================================================================
