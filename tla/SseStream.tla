------------------------------ MODULE SseStream ------------------------------
(***************************************************************************)
(* A response body on its way through complete_stream's decoding loop      *)
(* (src/llm/openai.rs) and SseParser::feed (src/llm/sse.rs).  The network  *)
(* cuts the body into chunks wherever it likes.                            *)
(*                                                                         *)
(* A byte is "nl", one that is a character, or the first ("hi") or second  *)
(* ("lo") byte of a two-byte character "wide".  The bytes of a field name  *)
(* are one unit, "data" or "event"; a line that begins with anything else  *)
(* stands for comments and unknown fields.  The buffer joins chunks before *)
(* feed looks at them, so nothing can tell a cut inside a field name from  *)
(* one before or after it.                                                 *)
(***************************************************************************)
EXTENDS Naturals, Sequences, SequencesExt

CONSTANT Bodies   \* the bodies a provider may send

VARIABLES
  body,    \* what has not arrived yet
  seen,    \* what has
  buffer,  \* SseParser.buffer
  events,  \* the events that feed has returned so far
  torn,    \* history: a chunk has ended inside a character
  pc       \* waiting for a chunk, or draining the buffer

vars == <<body, seen, buffer, events, torn, pc>>

Bytes == {"nl", "data", "event", "x", "y", "hi", "lo"}
Chars == (Bytes \ {"hi", "lo"}) \cup {"wide", "bad"}

ASSUME BodiesAssumption == Bodies \subseteq Seq(Bytes)

Init ==
  /\ body \in Bodies
  /\ seen = <<>> /\ buffer = <<>> /\ events = <<>>
  /\ torn = FALSE
  /\ pc = "waiting"

-----------------------------------------------------------------------------

(* String::from_utf8_lossy: what byte k adds to the text.  A character is  *)
(* there with its second byte; half a character becomes U+FFFD.            *)
Decoded(bytes, k) ==
  CASE bytes[k] = "hi" /\ k < Len(bytes) /\ bytes[k + 1] = "lo" -> <<>>
    [] bytes[k] = "lo" /\ k > 1 /\ bytes[k - 1] = "hi" -> <<"wide">>
    [] OTHER -> IF bytes[k] \in {"hi", "lo"} THEN <<"bad">> ELSE <<bytes[k]>>

Decode(bytes) == FlattenSeq([k \in DOMAIN bytes |-> Decoded(bytes, k)])

(* Mutant: the parser forgets what it had buffered.                        *)
MutDeliver ==
  /\ pc = "waiting"
  /\ \E n \in 1..Len(body) :
       LET chunk == SubSeq(body, 1, n) IN
         /\ body' = SubSeq(body, n + 1, Len(body))
         /\ seen' = seen \o chunk
         /\ buffer' = Decode(chunk)
         /\ torn' = (torn \/ chunk[n] = "hi")
  /\ pc' = "draining"
  /\ UNCHANGED events

(* A chunk arrives, is decoded by itself, and joins the buffer.            *)
Deliver ==
  /\ pc = "waiting"
  /\ \E n \in 1..Len(body) :
       LET chunk == SubSeq(body, 1, n) IN
         /\ body' = SubSeq(body, n + 1, Len(body))
         /\ seen' = seen \o chunk
         /\ buffer' = buffer \o Decode(chunk)
         /\ torn' = (torn \/ chunk[n] = "hi")
  /\ pc' = "draining"
  /\ UNCHANGED events

(* Where "\n\n" begins in the buffer.                                      *)
Boundary(p) == p + 1 \in DOMAIN buffer /\ buffer[p] = "nl" /\ buffer[p + 1] = "nl"

IsField(line, name) == line # <<>> /\ line[1] = name

(* The body of the loop over block.split('\n'): the last event line        *)
(* counts, and every data line.                                            *)
TakeField(r) ==
  [line |-> <<>>,
   type |-> IF IsField(r.line, "event") THEN Tail(r.line) ELSE r.type,
   data |-> IF IsField(r.line, "data") THEN Append(r.data, Tail(r.line)) ELSE r.data]

Scan(r, c) == IF c = "nl" THEN TakeField(r) ELSE [r EXCEPT !.line = Append(@, c)]

NoFields == [line |-> <<>>, type |-> <<>>, data |-> <<>>]

(* data_lines.join("\n")                                                   *)
Join(lines) ==
  FlattenSeq([k \in DOMAIN lines |-> IF k = 1 THEN lines[1] ELSE <<"nl">> \o lines[k]])

(* A block without data, be it empty or nothing but comments, is no event. *)
ParseBlock(block) ==
  LET scanned[k \in 0..Len(block)] ==
        IF k = 0 THEN NoFields ELSE Scan(scanned[k - 1], block[k])
      r == TakeField(scanned[Len(block)]) IN
    IF r.data = <<>> THEN <<>> ELSE <<[event_type |-> r.type, data |-> Join(r.data)]>>

(* One turn of the loop: the block before the first blank line.            *)
CutBlock ==
  /\ pc = "draining"
  /\ \E p \in DOMAIN buffer :
       /\ Boundary(p) /\ \A q \in 1..(p - 1) : ~Boundary(q)
       /\ events' = events \o ParseBlock(SubSeq(buffer, 1, p - 1))
       /\ buffer' = SubSeq(buffer, p + 2, Len(buffer))
  /\ UNCHANGED <<body, seen, torn, pc>>

(* Mutant: feed returns after one block.                                   *)
MutFeedReturns ==
  /\ pc = "draining"
  /\ pc' = "waiting"
  /\ UNCHANGED <<body, seen, buffer, events, torn>>

(* No complete block is left: feed returns.                                *)
FeedReturns ==
  /\ pc = "draining"
  /\ \A p \in DOMAIN buffer : ~Boundary(p)
  /\ pc' = "waiting"
  /\ UNCHANGED <<body, seen, buffer, events, torn>>

Next == Deliver \/ CutBlock \/ FeedReturns

Spec == Init /\ [][Next]_vars

-----------------------------------------------------------------------------
(* Properties                                                              *)

(* Everything is made of what it should be, and a complete block never     *)
(* waits for the next chunk.                                               *)
SseTypeOK ==
  /\ \A s \in {body, seen} : \A k \in DOMAIN s : s[k] \in Bytes
  /\ \A k \in DOMAIN buffer : buffer[k] \in Chars
  /\ \A k \in DOMAIN events : events[k].event_type \in Seq(Chars)
  /\ pc \in {"waiting", "draining"}
  /\ pc = "waiting" => \A p \in DOMAIN buffer : ~Boundary(p)

(* How an event stream is read line by line, the reference definition: a   *)
(* field line adds to the event under way, a blank line dispatches it.     *)
FreshWith(es) == [out |-> es, type |-> <<>>, data |-> <<>>, some |-> FALSE, line |-> <<>>]
Fresh == FreshWith(<<>>)
Dispatch(r) ==
  IF ~r.some THEN [r EXCEPT !.type = <<>>]
  ELSE FreshWith(Append(r.out, [event_type |-> r.type, data |-> r.data]))
TakeLine(r) ==
  CASE r.line = <<>> -> Dispatch(r)
    [] IsField(r.line, "event") -> [r EXCEPT !.type = Tail(r.line)]
    [] IsField(r.line, "data") ->
         [r EXCEPT !.data = IF r.some THEN @ \o <<"nl">> \o Tail(r.line) ELSE Tail(r.line),
                   !.some = TRUE]
    [] OTHER -> r
ReadChar(r, c) ==
  IF c = "nl" THEN [TakeLine(r) EXCEPT !.line = <<>>] ELSE [r EXCEPT !.line = Append(@, c)]
ReadLines(s) ==
  LET reading[k \in 0..Len(s)] ==
        IF k = 0 THEN Fresh ELSE ReadChar(reading[k - 1], s[k]) IN
    reading[Len(s)].out

(* Every character of two bytes as the two U+FFFD it becomes when it is    *)
(* cut.                                                                    *)
Broken(s) ==
  FlattenSeq([k \in DOMAIN s |-> IF s[k] = "wide" THEN <<"bad", "bad">> ELSE <<s[k]>>])
BrokenEvents(es) ==
  [k \in DOMAIN es |->
    [event_type |-> Broken(es[k].event_type), data |-> Broken(es[k].data)]]

(* "Buffers incoming bytes and emits complete events as they arrive": the  *)
(* events returned so far are those of the bytes that have arrived, no     *)
(* matter how the network cut them, neither early nor late nor altered.    *)
(* A chunk that ends inside a character costs that character, since chunks *)
(* are decoded one by one, and nothing else.                               *)
EventsFollowBytes ==
  pc = "waiting" =>
    LET due == ReadLines(Decode(seen)) IN
      IF torn THEN BrokenEvents(events) = BrokenEvents(due) ELSE events = due
=============================================================================
