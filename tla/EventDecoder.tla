---------------------------- MODULE EventDecoder ----------------------------
(***************************************************************************)
(* The incremental decoder of Wyoming events (satellite_event_decoder.c),  *)
(* driven by the read loop of wsat_server_run.  A header is a JSON object  *)
(* on a line of its own; it announces the lengths of a data object and a   *)
(* payload that follow it.                                                 *)
(*                                                                         *)
(* The decoder only ever drops a prefix of its buffer, so the buffer is a  *)
(* window on the bytes of the connection: buffer[0] is stream[base + 1],   *)
(* buffer_length is fill - base, processed_bytes is at - base.  JSON is    *)
(* cut down to objects {"B..} where B stands for all the fields: cJSON     *)
(* stops at the closing brace or at the first byte that does not fit.      *)
(***************************************************************************)
EXTENDS Integers, Sequences

CONSTANTS
  BufferSize, (* EVENT_DECODER_BUFFER_SIZE                                 *)
  MaxPayload, (* the largest payload_length accepted                       *)
  Uint32,     (* 2^32, the first number a uint32_t cannot hold             *)
  Bodies,     (* the fields of an object, as one byte                      *)
  Fields,     (* per body: is there a type, data_length, payload_length    *)
  Streams,    (* the bytes a peer may send on one connection               *)
  Carried     (* per stream, the bodies of the events its sender put there *)

Structural == {"{", "quote", "}", "nl"}
Bytes      == Structural \cup {"x"} \cup Bodies

(* A length in a header may be negative, or no number at all, and it may   *)
(* be beyond Uint32.  A fraction is cut off.                               *)
Negative   == -1
NotANumber == -2
Lengths    == Nat \cup {Negative, NotANumber}

ASSUME DecoderAssumption ==
  /\ BufferSize \in Nat \ {0}
  /\ MaxPayload \in Nat
  /\ Uint32 \in Nat /\ BufferSize < Uint32 /\ MaxPayload < Uint32
  /\ Bodies \cap (Structural \cup {"x"}) = {}
  /\ Fields \in [Bodies -> [typed : BOOLEAN, data_length : Lengths,
                            payload_length : Lengths]]
  /\ Streams \subseteq Seq(Bytes)
  /\ Carried \in [Streams -> Seq(Bodies)]

VARIABLES
  stream,   (* the bytes of the present connection                         *)
  fill,     (* how many of them were read into the buffer                  *)
  base,     (* how many of those were dropped from it again                *)
  at,       (* how many the current call has gone past                     *)
  pc,       (* read: in the read loop; next: in wsat_event_decoder_next;   *)
            (* handle: an event was output; closed: no connection          *)
  state,    (* dec->state                                                  *)
  wip,      (* dec->wip_evt.header                                         *)
  received, (* dec->payload_received                                       *)
  begin,    (* WSAT_DECODED_EVENT_FLAG_BEGIN in the local flags            *)
  evt,      (* *out_event                                                  *)
  owned,    (* the JSON trees of the event in progress not yet freed       *)
  leaked,   (* history: where a tree was lost without being freed          *)
  done      (* history: events completed on this connection                *)

window  == <<stream, fill, base, at>>
event   == <<state, wip, received, begin>>
memory  == <<owned, leaked>>
vars    == <<window, pc, event, evt, memory, done>>

NoHeader == [body |-> "none", data_length |-> 0, payload_length |-> 0]
NoOutput == [body |-> "none", offset |-> 0, size |-> 0,
             begin |-> FALSE, end |-> FALSE]

Headers == [body : Bodies \cup {"none"}, data_length : 0..BufferSize,
            payload_length : 0..MaxPayload]
Outputs == [body : Bodies \cup {"none"}, offset : 0..MaxPayload,
            size : 0..BufferSize, begin : BOOLEAN, end : BOOLEAN]

TypeOK ==
  /\ stream \in Streams
  /\ fill \in 0..Len(stream) /\ base \in 0..fill /\ at \in base..fill
  /\ pc \in {"read", "next", "handle", "closed"}
  /\ state \in {"header", "data", "payload"}
  /\ wip \in Headers
  /\ received \in 0..MaxPayload
  /\ begin \in BOOLEAN
  /\ evt \in Outputs
  /\ owned \subseteq {"header", "data"}
  /\ leaked \subseteq {"reset", "data", "overwrite"}
  /\ done \in Nat

(* A fresh connection, after wsat_event_decoder_reset.                     *)
Init ==
  /\ stream \in Streams
  /\ fill = 0 /\ base = 0 /\ at = 0
  /\ pc = "read"
  /\ state = "header" /\ wip = NoHeader /\ received = 0 /\ begin = FALSE
  /\ evt = NoOutput /\ done = 0
  /\ owned = {} /\ leaked = {}

-----------------------------------------------------------------------------
(* The bytes in the buffer.                                                *)

IsFirst(i, S) == i \in S /\ \A j \in S : i <= j

(* memmem for the two bytes that start and end a header.                   *)
Starts  == {i \in at + 1 .. fill - 1 : stream[i] = "{" /\ stream[i + 1] = "quote"}
Ends(s) == {i \in s + 1 .. fill : stream[i - 1] = "}" /\ stream[i] = "nl"}

(* cJSON_ParseWithLengthOpts on the bytes s..e: the places that do not     *)
(* continue an object, of which the parser reports the first.  It is happy *)
(* there if the object may close, whatever follows.                        *)
Breaks(s, e) ==
  {i \in s + 1 .. e :
     CASE i = s + 1 -> stream[i] # "quote"
       [] i = s + 2 -> stream[i] \notin Bodies
       [] OTHER     -> stream[i] # "x"}
Closes(s, i) == stream[i] = "}" /\ i # s + 2

(* A double cast to uint32_t: out of its range, on either side, the result *)
(* is undefined, and may well be an acceptable length.                     *)
Word(length, limit) ==
  IF length \in 0..(Uint32 - 1) THEN {length} ELSE 0..(limit + 1)

-----------------------------------------------------------------------------
(* How a call of wsat_event_decoder_next goes on or ends.                  *)

Continue(p) == at' = p /\ pc' = "next" /\ UNCHANGED base
Compact(p)  == at' = p /\ base' = p /\ pc' = "read"
ReturnZero  == at' = base /\ pc' = "read" /\ UNCHANGED base

(* wip_evt is copied out.                                                  *)
Emit(p, header, offset, size, first, last) ==
  /\ at' = p /\ base' = p /\ pc' = "handle"
  /\ evt' = [body |-> header.body, offset |-> offset, size |-> size,
             begin |-> first, end |-> last]
  /\ done' = IF last THEN done + 1 ELSE done

(* The loop of wsat_event_decoder_next runs in state s.                    *)
InLoop(s) == pc = "next" /\ at < fill /\ state = s

(* The bytes s..e look like a header, and cJSON stops at p.                *)
Candidate(s, e, p) ==
  /\ InLoop("header")
  /\ IsFirst(s, Starts) /\ IsFirst(e, Ends(s)) /\ IsFirst(p, Breaks(s, e))

-----------------------------------------------------------------------------
(* Plausible slips in the code, used to test the properties.               *)

(* buffer_length is not reduced when processed bytes are dropped.          *)
CapacityNeverRestored == BufferSize - fill

(* The limit on payload_length is forgotten.                               *)
AcceptableWithoutLimit(fields, data_length, payload_length) ==
  /\ fields.typed
  /\ data_length <= BufferSize
  /\ fields.payload_length # Negative

(* A last { is scrapped like the rest.                                     *)
HeaderNoStartScrappingAll ==
  /\ InLoop("header") /\ at + 1 < fill /\ Starts = {}
  /\ Compact(fill)
  /\ UNCHANGED <<stream, fill, event, evt, memory, done>>

(* A candidate that does not parse is skipped to its end.                  *)
HeaderUnparsedSkipped ==
  /\ \E s \in Starts : \E e \in Ends(s) : \E p \in Breaks(s, e) :
       /\ Candidate(s, e, p)
       /\ ~(Closes(s, p) /\ p + 1 = e)
       /\ Continue(e)
  /\ UNCHANGED <<stream, fill, event, evt, memory, done>>

(* The header is not freed with the buffer.                                *)
DataRefusedKeepingHeader ==
  /\ InLoop("data")
  /\ \/ stream[at + 1] # "{"
     \/ at + wip.data_length <= fill /\ stream[at + wip.data_length] # "}"
  /\ Compact(fill)
  /\ state' = "header"
  /\ UNCHANGED <<stream, fill, wip, received, begin, evt, memory, done>>

(* Incomplete data is left where it is.                                    *)
DataShortInPlace ==
  /\ InLoop("data") /\ stream[at + 1] = "{"
  /\ at + wip.data_length > fill
  /\ ReturnZero
  /\ UNCHANGED <<stream, fill, event, evt, memory, done>>

(* The next event counts on from this one's payload.                       *)
PayloadKeepingReceived ==
  LET left == wip.payload_length - received
      size == IF left < fill - at THEN left ELSE fill - at
      end  == received + size = wip.payload_length
  IN  /\ InLoop("payload")
      /\ Emit(at + size, wip, received, size, begin \/ received = 0, end)
      /\ received' = received + size
      /\ state' = IF end THEN "header" ELSE "payload"
      /\ UNCHANGED <<stream, fill, wip, begin, memory>>

(* The offset of a chunk is taken after it was counted.                    *)
PayloadOffsetAfter ==
  LET left == wip.payload_length - received
      size == IF left < fill - at THEN left ELSE fill - at
      end  == received + size = wip.payload_length
  IN  /\ InLoop("payload")
      /\ Emit(at + size, wip, received + size, size, begin \/ received = 0, end)
      /\ received' = IF end THEN 0 ELSE received + size
      /\ state' = IF end THEN "header" ELSE "payload"
      /\ UNCHANGED <<stream, fill, wip, begin, memory>>

-----------------------------------------------------------------------------
(* The read loop of wsat_server_run.                                       *)

(* wsat_event_decoder_buffer_get: what is left of the buffer.              *)
Capacity == BufferSize - (fill - base)

Read(n) ==
  /\ pc = "read" /\ n \in 1..Capacity /\ fill + n <= Len(stream)
  /\ fill' = fill + n
  /\ at' = base /\ begin' = FALSE /\ pc' = "next"
  /\ UNCHANGED <<stream, base, state, wip, received, evt, memory, done>>

(* read() with room for no byte returns 0, like a peer that closed: the    *)
(* connection is dropped.                                                  *)
ReadNothing ==
  /\ pc = "read" /\ Capacity = 0
  /\ pc' = "closed"
  /\ UNCHANGED <<window, event, evt, memory, done>>

PeerClose ==
  /\ pc = "read"
  /\ pc' = "closed"
  /\ UNCHANGED <<window, event, evt, memory, done>>

(* The next connection: the reset forgets an event in progress, and with   *)
(* it whatever JSON it owned.                                              *)
Accept ==
  /\ pc = "closed"
  /\ stream' \in Streams
  /\ fill' = 0 /\ base' = 0 /\ at' = 0
  /\ pc' = "read"
  /\ state' = "header" /\ wip' = NoHeader /\ received' = 0 /\ begin' = FALSE
  /\ evt' = NoOutput /\ done' = 0
  /\ leaked' = IF owned = {} THEN leaked ELSE leaked \cup {"reset"}
  /\ owned' = {}

(* The event is handled, freed if it is over, and the decoder is called    *)
(* again.                                                                  *)
Handle ==
  /\ pc = "handle"
  /\ owned' = IF evt.end THEN {} ELSE owned
  /\ begin' = FALSE /\ pc' = "next"
  /\ UNCHANGED <<window, state, wip, received, evt, leaked, done>>

-----------------------------------------------------------------------------
(* wsat_event_decoder_next: one iteration of its loop in each state.       *)

Exhausted ==
  /\ pc = "next" /\ at = fill
  /\ Compact(at)
  /\ UNCHANGED <<stream, fill, event, evt, memory, done>>

(* A single byte cannot be judged: it stays, and so does all before it.    *)
HeaderShort ==
  /\ InLoop("header") /\ at + 1 = fill
  /\ ReturnZero
  /\ UNCHANGED <<stream, fill, event, evt, memory, done>>

(* No header starts here; a last { may be the first half of a start.       *)
HeaderNoStart ==
  /\ InLoop("header") /\ at + 1 < fill /\ Starts = {}
  /\ Compact(IF stream[fill] = "{" THEN fill - 1 ELSE fill)
  /\ UNCHANGED <<stream, fill, event, evt, memory, done>>

(* A header has started and does not end yet: too long to ever fit, moved  *)
(* to the front of the buffer, or left where it is.                        *)
HeaderNoEnd ==
  /\ InLoop("header")
  /\ \E s \in Starts :
       /\ IsFirst(s, Starts) /\ Ends(s) = {}
       /\ IF fill - s + 3 > BufferSize THEN Compact(fill)
          ELSE IF s # at + 1 THEN Compact(s - 1)
          ELSE ReturnZero
  /\ UNCHANGED <<stream, fill, event, evt, memory, done>>

HeaderUnparsed ==
  /\ \E s \in Starts : \E e \in Ends(s) : \E p \in Breaks(s, e) :
       /\ Candidate(s, e, p)
       /\ ~(Closes(s, p) /\ p + 1 = e)
       /\ Continue(IF Closes(s, p) THEN p ELSE p - 1)
  /\ UNCHANGED <<stream, fill, event, evt, memory, done>>

(* From here on wip_evt is overwritten: a tree it still owned is lost.     *)
Overwrite ==
  leaked' = IF owned = {} THEN leaked ELSE leaked \cup {"overwrite"}

Acceptable(fields, data_length, payload_length) ==
  /\ fields.typed
  /\ data_length <= BufferSize
  /\ fields.payload_length # Negative
  /\ payload_length <= MaxPayload

HeaderRejected ==
  /\ \E s \in Starts : \E e \in Ends(s) : \E p \in Breaks(s, e) :
       LET fields == Fields[stream[s + 2]]
       IN  /\ Candidate(s, e, p) /\ Closes(s, p) /\ p + 1 = e
           /\ \E d \in Word(fields.data_length, BufferSize),
                 l \in Word(fields.payload_length, MaxPayload) :
                ~Acceptable(fields, d, l)
           /\ Continue(e)
  /\ wip' = NoHeader
  /\ Overwrite /\ owned' = {}
  /\ UNCHANGED <<stream, fill, state, received, begin, evt, done>>

HeaderAccepted ==
  /\ \E s \in Starts : \E e \in Ends(s) : \E p \in Breaks(s, e) :
       LET fields == Fields[stream[s + 2]]
       IN  /\ Candidate(s, e, p) /\ Closes(s, p) /\ p + 1 = e
           /\ \E d \in Word(fields.data_length, BufferSize),
                 l \in Word(fields.payload_length, MaxPayload) :
                /\ Acceptable(fields, d, l)
                /\ wip' = [body |-> stream[s + 2], data_length |-> d,
                           payload_length |-> l]
                /\ state' = CASE d > 0 -> "data"
                              [] d = 0 /\ l > 0 -> "payload"
                              [] OTHER -> "header"
                /\ IF d > 0 \/ l > 0
                     THEN Continue(e) /\ UNCHANGED <<evt, done>>
                     ELSE Emit(e, wip', 0, 0, TRUE, TRUE)
  /\ begin' = TRUE
  /\ Overwrite /\ owned' = {"header"}
  /\ UNCHANGED <<stream, fill, received>>

(* The data is not an object: the whole buffer goes, and the header.       *)
DataRefused ==
  /\ InLoop("data")
  /\ \/ stream[at + 1] # "{"
     \/ at + wip.data_length <= fill /\ stream[at + wip.data_length] # "}"
  /\ Compact(fill)
  /\ state' = "header" /\ owned' = owned \ {"header"}
  /\ UNCHANGED <<stream, fill, wip, received, begin, evt, leaked, done>>

(* The data is not complete: what was processed before it goes.            *)
DataShort ==
  /\ InLoop("data") /\ stream[at + 1] = "{"
  /\ at + wip.data_length > fill
  /\ Compact(at)
  /\ UNCHANGED <<stream, fill, event, evt, memory, done>>

(* The data is complete, and cJSON stops at p.                             *)
DataStops(p) ==
  LET e == at + wip.data_length
  IN  /\ InLoop("data") /\ stream[at + 1] = "{"
      /\ e <= fill /\ stream[e] = "}"
      /\ IsFirst(p, Breaks(at + 1, e))

(* What follows the place is searched for a header; nothing frees the one  *)
(* in progress any more.                                                   *)
DataUnparsed ==
  /\ \E p \in at + 1 .. fill :
       /\ DataStops(p)
       /\ ~(Closes(at + 1, p) /\ p = at + wip.data_length)
       /\ Continue(IF Closes(at + 1, p) THEN p ELSE p - 1)
  /\ state' = "header"
  /\ owned' = {} /\ leaked' = leaked \cup {"data"}
  /\ UNCHANGED <<stream, fill, wip, received, begin, evt, done>>

DataParsed ==
  LET e == at + wip.data_length
  IN  /\ DataStops(e) /\ Closes(at + 1, e)
      /\ owned' = owned \cup {"data"} /\ begin' = TRUE
      /\ IF wip.payload_length > 0
           THEN state' = "payload" /\ Continue(e) /\ UNCHANGED <<evt, done>>
           ELSE state' = "header" /\ Emit(e, wip, 0, 0, TRUE, TRUE)
      /\ UNCHANGED <<stream, fill, wip, received, leaked>>

(* As much of the payload as the buffer holds is copied out.               *)
Payload ==
  LET left == wip.payload_length - received
      size == IF left < fill - at THEN left ELSE fill - at
      end  == received + size = wip.payload_length
  IN  /\ InLoop("payload")
      /\ Emit(at + size, wip, received, size, begin \/ received = 0, end)
      /\ received' = IF end THEN 0 ELSE received + size
      /\ state' = IF end THEN "header" ELSE "payload"
      /\ UNCHANGED <<stream, fill, wip, begin, memory>>

-----------------------------------------------------------------------------
Decoding ==
  \/ Exhausted
  \/ HeaderShort \/ HeaderNoStart \/ HeaderNoEnd
  \/ HeaderUnparsed \/ HeaderRejected \/ HeaderAccepted
  \/ DataRefused \/ DataShort \/ DataUnparsed \/ DataParsed
  \/ Payload
  \/ Handle

Next ==
  \/ \E n \in 1..BufferSize : Read(n)
  \/ ReadNothing
  \/ PeerClose
  \/ Accept
  \/ Decoding

Spec == Init /\ [][Next]_vars

(* The server thread runs on, and the bytes a peer has sent arrive.        *)
FairSpec ==
  Spec /\ WF_vars(Decoding) /\ WF_vars(\E n \in 1..BufferSize : Read(n))

-----------------------------------------------------------------------------
(* Safety, whatever the peer sends.                                        *)

(* The buffer never holds more than EVENT_DECODER_BUFFER_SIZE bytes, and   *)
(* an announced data object always fits: the decoder is never left waiting *)
(* for bytes it has no room to read.                                       *)
BufferBounded ==
  /\ fill - base <= BufferSize
  /\ pc = "read" /\ state = "data" => fill - base < wip.data_length
  /\ pc = "read" /\ state = "payload" => fill = base

(* The payload counters agree with the header in progress across calls,    *)
(* rejected headers and scrapped data: a chunk never reaches past the      *)
(* payload, and an event ends exactly when its payload is complete.        *)
PayloadAccounted ==
  /\ state = "payload" => received < wip.payload_length
  /\ state # "payload" => received = 0
  /\ pc = "handle" =>
       /\ evt.offset + evt.size <= wip.payload_length
       /\ evt.end <=> evt.offset + evt.size = wip.payload_length
       /\ ~evt.end => state = "payload" /\ received = evt.offset + evt.size

(* Every JSON tree is freed once: the states that free one own it, and a   *)
(* tree is lost only where a data object fails to parse and where a        *)
(* connection ends within an event.                                        *)
HeldBy(header) ==
  {"header"} \cup IF header.data_length > 0 THEN {"data"} ELSE {}

FreedOnce ==
  /\ state = "data" => owned = {"header"}
  /\ state = "payload" \/ (pc = "handle" /\ evt.end) => owned = HeldBy(wip)
  /\ state = "header" /\ pc # "handle" => owned = {}
  /\ "overwrite" \notin leaked

(* What goes to the handlers follows what went to them before: the first   *)
(* output of a connection, and the one after the END of an event, is a     *)
(* BEGIN, and every other continues the chunk before it without a gap,     *)
(* whatever was read, refused or scrapped between the two.                 *)
ChunksContiguous ==
  [][pc # "handle" /\ pc' = "handle" =>
       IF evt = NoOutput \/ evt.end
         THEN evt'.begin /\ evt'.offset = 0
         ELSE /\ ~evt'.begin /\ evt'.body = evt.body
              /\ evt'.offset = evt.offset + evt.size]_vars

(* After a call the decoder has room for more bytes.  It has not when a    *)
(* rejected header is followed at once by the start of another object:     *)
(* the function then returns without dropping what it has processed.       *)
RoomToRead == pc = "read" => Capacity > 0

-----------------------------------------------------------------------------
(* On streams of well-formed events the decoder implements EventStream.    *)
Promise == INSTANCE EventStream WITH
  Messages   <- {Carried[s] : s \in Streams},
  PayloadLen <- [b \in Bodies |-> Fields[b].payload_length],
  events     <- Carried[stream],
  got        <- received,
  out        <- evt

(* The events of every connection come out in order, each once, however    *)
(* read() cuts their bytes.                                                *)
ImplementsEventStream == Promise!Spec

(* Every event of a connection that stays open is delivered, whatever      *)
(* stands between the events.                                              *)
AllDelivered ==
  pc = "read" ~> (done = Len(Carried[stream]) \/ pc = "closed")

=============================================================================
