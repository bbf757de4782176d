-------------------------------- MODULE Wire --------------------------------
(***************************************************************************)
(* One exchange through the guard: the texts of the request body are       *)
(* extracted, rewritten and spliced back; the upstream answers with a body *)
(* that is treated in the same way, or, when the request asked for it,     *)
(* with an event stream that arrives in reads of any size.  The handler    *)
(* that drives these headers is not part of the repository: it is modelled *)
(* from their contracts.                                                   *)
(***************************************************************************)
EXTENDS Extract, Sse

CONSTANTS
  Requests,        \* the messages that may arrive, described below
  AnswersTo(_),    \* the messages the upstream may answer a request with
  Streams,         \* the bytes of the event streams that may arrive
  Substitute(_, _),\* what the masker, or the demasker, makes of a character
  KeyOf(_)         \* the stream key a dialect gives to the data of an event

(* A message is a record: format, side ("request" or "response"), body,    *)
(* well_formed (the body was written by a JSON encoder) and, if so,        *)
(* scannable: the pairs <<path, text>> that the format says carry text.    *)

VARIABLES
  phase,     \* "arrived", "extracted", "rewritten", "stream", "done"
  msg,       \* the message being treated
  result,    \* its ExtractResult
  sent,      \* its body, rewritten
  unread,    \* bytes of the stream still to come
  got,       \* bytes read so far
  tail,      \* FrameSplit::tail of the last read
  frames,    \* every frame so far, classified
  tracker,   \* JsonCloseTracker over the data of the events
  recorder   \* MaskedTextRecorder over the data of the events

messageVars == <<msg, result, sent>>
streamVars  == <<unread, got, tail, frames, tracker, recorder>>
vars        == <<phase, messageVars, streamVars>>

Init ==
  /\ phase = "arrived" /\ msg \in Requests
  /\ result = Unsupported /\ sent = <<>>
  /\ unread = <<>> /\ got = <<>> /\ tail = <<>> /\ frames = <<>>
  /\ tracker = NewTracker /\ recorder = NewRecorder
-----------------------------------------------------------------------------
extract(m, body) ==
  IF m.side = "request" THEN extract_request(body, m.format)
  ELSE extract_response(body, m.format)

\* The new text of a field: decoded, or the raw text of an object.
NewText(f) ==
  IF f.is_raw_object
  THEN FlattenSeq([i \in DOMAIN f.text |->
         IF Substitute(msg.side, f.text[i]) = <<f.text[i]>> THEN <<f.text[i]>>
         ELSE encode_string(Substitute(msg.side, f.text[i]), FALSE)])
  ELSE FlattenSeq([i \in DOMAIN f.text |-> Substitute(msg.side, f.text[i])])

Edit(f) == [span |-> f.span,
            text |-> IF f.is_raw_object THEN NewText(f)
                     ELSE encode_string(NewText(f), TRUE)]

ExtractFields ==
  /\ phase = "arrived" /\ phase' = "extracted"
  /\ result' = extract(msg, msg.body)
  /\ UNCHANGED <<msg, sent, streamVars>>

\* A body of another schema is passed on as it is.
Rewrite ==
  /\ phase = "extracted" /\ phase' = "rewritten"
  /\ sent' = IF ~result.supported THEN msg.body
             ELSE splice_all(msg.body,
                    [i \in DOMAIN result.fields |-> Edit(result.fields[i])])
  /\ UNCHANGED <<msg, result, streamVars>>

AnswerBody ==
  /\ phase = "rewritten" /\ msg.side = "request" /\ ~wants_stream(sent)
  /\ msg' \in AnswersTo(msg)
  /\ phase' = "arrived" /\ result' = Unsupported /\ sent' = <<>>
  /\ UNCHANGED streamVars

AnswerStream ==
  /\ phase = "rewritten" /\ msg.side = "request" /\ wants_stream(sent)
  /\ phase' = "stream" /\ unread' \in Streams
  /\ msg' = [msg EXCEPT !.body = <<>>, !.well_formed = FALSE, !.scannable = {}]
  /\ result' = Unsupported /\ sent' = <<>>
  /\ UNCHANGED <<got, tail, frames, tracker, recorder>>

Data(fs) == [i \in DOMAIN fs |-> fs[i].data]

RecordAll(rec, fs) ==
  FoldLeft(LAMBDA r, f : IF f.kind = "Event" THEN record(r, KeyOf(f.data), f.data) ELSE r,
           rec, fs)

\* A read of n bytes: the tail of the read before comes first.
Read(n) ==
  /\ phase = "stream" /\ n <= Len(unread)
  /\ unread' = Drop(unread, n)
  /\ got' = got \o SubSeq(unread, 1, n)
  /\ \E split \in {split_frames(tail \o SubSeq(unread, 1, n))} :
     \E fs \in {[i \in DOMAIN split.frames |-> classify_frame(split.frames[i])]} :
       /\ tail' = split.tail
       /\ frames' = frames \o fs
       /\ tracker' = FoldLeft(feed, tracker, Data(fs))
       /\ recorder' = RecordAll(recorder, fs)
  /\ UNCHANGED <<phase, messageVars>>

Finish ==
  /\ \/ phase = "rewritten" /\ msg.side = "response"
     \/ phase = "stream" /\ unread = <<>>
  /\ phase' = "done"
  /\ UNCHANGED <<messageVars, streamVars>>

Finished == phase = "done" /\ UNCHANGED vars

Next ==
  \/ ExtractFields \/ Rewrite \/ AnswerBody \/ AnswerStream
  \/ \E n \in 1..Len(unread) : Read(n)
  \/ Finish \/ Finished

Spec == Init /\ [][Next]_vars
-----------------------------------------------------------------------------
\* Of a well formed body the extractors return exactly the texts its format
\* says are scannable, each once, with a span of its own, which is the one its
\* path resolves to: no text goes out unscanned behind white space, an escape
\* or a part of another type, none is refused with its whole body, and nothing
\* else is touched.  Of the members of a key that occurs twice, the first is
\* scanned and the others go out as they are, except in the input of a tool
\* call, where each is a field of the same path and a path resolves to the
\* first of them.
ExtractsScannable ==
  phase = "extracted" /\ msg.well_formed =>
    LET fs == result.fields
    IN  /\ {<<fs[i].path, fs[i].text>> : i \in DOMAIN fs} = msg.scannable
        /\ Cardinality(msg.scannable) = Len(fs)
        /\ \A i \in DOMAIN fs :
             \/ fs[i].span = find_value(msg.body, fs[i].path)
             \/ \E j \in 1..(i - 1) : fs[j].path = fs[i].path
        /\ \A i \in DOMAIN fs : \A j \in 1..(i - 1) :
             fs[i].span.end <= fs[j].span.start \/ fs[j].span.end <= fs[i].span.start

\* The characters of a document outside the spans of the fields.
Outside(body, fs) ==
  LET at == SelectSeq([p \in DOMAIN body |-> p], LAMBDA p :
              \A i \in DOMAIN fs : p < fs[i].span.start \/ fs[i].span.end <= p)
  IN  [k \in DOMAIN at |-> body[at[k]]]

\* Splicing the new texts in never throws, changes those texts and not one
\* byte more: the same fields are found again with the new texts, and what
\* lies outside of them is the same.  A valid document stays valid, and none
\* becomes valid.
PatchIsSurgical ==
  phase = "rewritten" =>
    \A again \in {extract(msg, sent)} :
      /\ valid(sent) <=> valid(msg.body)
      /\ again.supported = result.supported
      /\ Len(again.fields) = Len(result.fields)
      /\ \A i \in DOMAIN result.fields :
           /\ again.fields[i].path = result.fields[i].path
           /\ again.fields[i].text = NewText(result.fields[i])
      /\ Outside(sent, again.fields) = Outside(msg.body, result.fields)

EventsOf(key) == SelectSeq(frames, LAMBDA f : f.kind = "Event" /\ KeyOf(f.data) = key)

\* However the stream is cut into reads, inside a separator, a prefix or an
\* escape, the frames, what they are taken for and what was accumulated are
\* those of one read of all the bytes, and no byte is lost.  The frame built
\* anew for an event of one line is read as the same event.
StreamAsIfWhole ==
  phase = "stream" =>
    \A whole \in {split_frames(got)} :
      /\ frames = [i \in DOMAIN whole.frames |-> classify_frame(whole.frames[i])]
      /\ tail = whole.tail
      /\ got = FlattenSeq([i \in DOMAIN frames |-> frames[i].raw]) \o tail
      /\ tracker = feed(NewTracker, FlattenSeq(Data(frames)))
      /\ \A f \in ToSet(frames) :
           f.kind = "Event" /\ ToSet(f.data) \cap {"LF", "CR"} = {} =>
             \A again \in {classify_frame(build_event_frame(f.data))} :
               again.kind = "Event" /\ again.data = f.data
      /\ Len(texts(recorder)) = Cardinality({KeyOf(f.data) :
                                   f \in {f \in ToSet(frames) : f.kind = "Event"}})
      /\ \A i \in DOMAIN texts(recorder) :
           texts(recorder)[i] = FlattenSeq(Data(EventsOf(KeyOf(texts(recorder)[i]))))

\* The streams carry a JSON object, cut anywhere: the tracker calls it closed
\* exactly when the fragments so far hold a whole value for the strict
\* scanner, never early on a brace inside a string, and never late.
TrackerAgrees ==
  phase = "stream" =>
    \A joined \in {FlattenSeq(Data(frames))} :
      tracker.closed <=> \E k \in DOMAIN joined :
                            skip_value[SubSeq(joined, 1, k), 1] # NotFound
=============================================================================
