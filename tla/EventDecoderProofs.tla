------------------------- MODULE EventDecoderProofs -------------------------
(***************************************************************************)
(* Proofs about EventDecoder for every buffer size, payload limit and set  *)
(* of streams: the bytes may be anything.                                  *)
(***************************************************************************)
EXTENDS EventDecoder, TLAPS

(* Between two calls nothing is half processed.                            *)
Window == (pc # "next" => at = base) /\ BufferBounded

(* The event in progress, its counters and the last output agree.          *)
Progress ==
  /\ PayloadAccounted
  /\ state = "data" => wip.data_length > 0
  /\ pc = "handle" /\ evt.end => state = "header"
  /\ received = 0 => evt = NoOutput \/ evt.end = TRUE
  /\ received > 0 => /\ evt.body = wip.body /\ evt.end = FALSE
                     /\ evt.offset + evt.size = received
  /\ received > 0 /\ pc = "next" => ~begin

IInv == TypeOK /\ Window /\ Progress /\ FreedOnce

-----------------------------------------------------------------------------
(* The initial states satisfy the invariant.                               *)
LEMMA InitIInv == Init => IInv
<1> SUFFICES ASSUME Init PROVE IInv
  OBVIOUS
<1> USE DecoderAssumption DEF Init
<1>1. TypeOK
  <2>1. stream \in Seq(Bytes) /\ Len(stream) \in Nat
    OBVIOUS
  <2>2. wip \in Headers /\ evt \in Outputs
    BY DEF Headers, Outputs, NoHeader, NoOutput
  <2>3. /\ fill \in 0..Len(stream) /\ base \in 0..fill /\ at \in base..fill
        /\ received \in 0..MaxPayload /\ done \in Nat
    BY <2>1
  <2>4. begin \in BOOLEAN /\ stream \in Streams
    OBVIOUS
  <2>5. /\ pc \in {"read", "next", "handle", "closed"}
        /\ state \in {"header", "data", "payload"}
        /\ owned \subseteq {"header", "data"}
        /\ leaked \subseteq {"reset", "data", "overwrite"}
    OBVIOUS
  <2> QED
    BY <2>2, <2>3, <2>4, <2>5 DEF TypeOK
<1>2. Window
  BY DEF Window, BufferBounded
<1>3. Progress
  BY DEF Progress, PayloadAccounted
<1>4. FreedOnce
  BY DEF FreedOnce
<1> QED
  BY <1>1, <1>2, <1>3, <1>4 DEF IInv

(* Where the first header candidate and the parser's stop lie.             *)
LEMMA CandidateRange ==
  ASSUME TypeOK, NEW s \in Starts, NEW e \in Ends(s), NEW p \in Breaks(s, e)
  PROVE  /\ s \in Int /\ e \in Int /\ p \in Int
         /\ at < s /\ s < p /\ p <= e /\ e <= fill
<1>1. Len(stream) \in Nat
  BY DecoderAssumption DEF TypeOK
<1>2. fill \in Int /\ base \in Int /\ at \in Int
  BY <1>1 DEF TypeOK
<1>3. s \in at + 1 .. fill - 1
  BY DEF Starts
<1>4. e \in s + 1 .. fill
  BY DEF Ends
<1>5. p \in s + 1 .. e
  BY DEF Breaks
<1> QED
  BY <1>2, <1>3, <1>4, <1>5

(* A candidate that parses has its fields between its braces.              *)
LEMMA ParsedBody ==
  ASSUME TypeOK, NEW s \in Starts, NEW e \in Ends(s), NEW p \in Breaks(s, e),
         Candidate(s, e, p), Closes(s, p)
  PROVE  stream[s + 2] \in Bodies
<1>1. /\ s \in Int /\ e \in Int /\ p \in Int /\ s < p /\ p <= e
  BY CandidateRange
<1>2. p # s + 1
  BY DEF Closes, Starts
<1>3. p # s + 2
  BY DEF Closes
<1>4. s + 2 \in s + 1 .. e /\ ~(p <= s + 2)
  BY <1>1, <1>2, <1>3
<1>5. s + 2 \notin Breaks(s, e)
  BY <1>4 DEF Candidate, IsFirst
<1> QED
  BY <1>1, <1>4, <1>5 DEF Breaks

(* What the conversion to uint32_t yields for a length that is accepted.   *)
LEMMA AcceptedLengths ==
  ASSUME NEW b \in Bodies,
         NEW d \in Word(Fields[b].data_length, BufferSize),
         NEW l \in Word(Fields[b].payload_length, MaxPayload),
         Acceptable(Fields[b], d, l)
  PROVE  d \in 0..BufferSize /\ l \in 0..MaxPayload
<1>1. Fields[b].data_length \in Lengths /\ Fields[b].payload_length \in Lengths
  BY DecoderAssumption
<1>2. d \in Nat /\ l \in Nat
  BY <1>1, DecoderAssumption DEF Word, Lengths
<1> QED
  BY <1>2, DecoderAssumption DEF Acceptable

(* The window on the stream, in numbers.                                   *)
LEMMA Numbers ==
  ASSUME TypeOK
  PROVE  /\ Len(stream) \in Nat /\ fill \in Nat /\ base \in Nat /\ at \in Nat
         /\ base <= at /\ at <= fill /\ fill <= Len(stream)
         /\ BufferSize \in Nat /\ MaxPayload \in Nat
         /\ wip.data_length \in 0..BufferSize
         /\ wip.payload_length \in 0..MaxPayload
         /\ received \in 0..MaxPayload
<1>1. Len(stream) \in Nat
  BY DecoderAssumption DEF TypeOK
<1> QED
  BY <1>1, DecoderAssumption DEF TypeOK, Headers

(* The size of the chunk Payload outputs, and what it leaves.              *)
LEMMA ChunkSize ==
  ASSUME TypeOK, BufferBounded, state = "payload" => received < wip.payload_length,
         InLoop("payload"), NEW left, NEW size,
         left = wip.payload_length - received,
         size = IF left < fill - at THEN left ELSE fill - at
  PROVE  /\ size \in 1..BufferSize /\ at + size \in base..fill
         /\ received + size \in 1..wip.payload_length
<1>1. fill - base <= BufferSize /\ at < fill /\ received < wip.payload_length
  BY DEF BufferBounded, InLoop
<1>2. /\ fill \in Nat /\ base \in Nat /\ at \in Nat /\ base <= at
      /\ received \in Nat /\ wip.payload_length \in Nat /\ BufferSize \in Nat
  BY Numbers
<1>3. left \in Nat /\ left > 0
  BY <1>1, <1>2
<1>4. size \in Nat /\ size > 0 /\ size <= left /\ size <= fill - at
  BY <1>1, <1>2, <1>3
<1> QED
  BY <1>1, <1>2, <1>3, <1>4

(* A step of the decoder only moves forward in its window.                 *)
LEMMA Forward ==
  ASSUME IInv, Decoding
  PROVE  /\ fill' = fill /\ stream' = stream
         /\ at' \in base' .. fill /\ base' \in base .. fill
<1> USE DEF IInv, Continue, Compact, ReturnZero, Emit, InLoop, window, event, memory
<1>0. /\ fill \in Nat /\ base \in Nat /\ at \in Nat /\ base <= at /\ at <= fill
  BY Numbers
<1>1. fill' = fill /\ stream' = stream
  BY DEF Decoding, Exhausted, HeaderShort, HeaderNoStart, HeaderNoEnd,
         HeaderUnparsed, HeaderRejected, HeaderAccepted, DataRefused, DataShort,
         DataUnparsed, DataParsed, Payload, Handle
<1>2. base' \in {base, at'}
  BY DEF Decoding, Exhausted, HeaderShort, HeaderNoStart, HeaderNoEnd,
         HeaderUnparsed, HeaderRejected, HeaderAccepted, DataRefused, DataShort,
         DataUnparsed, DataParsed, Payload, Handle
<1>3. at' \in base .. fill
  <2>1. CASE Exhausted \/ HeaderShort \/ Handle \/ DataRefused \/ DataShort
    <3>1. at' \in {at, base, fill}
      BY <2>1 DEF Exhausted, HeaderShort, Handle, DataRefused, DataShort
    <3> QED
      BY <1>0, <3>1
  <2>2. CASE HeaderNoStart
    <3>1. at' \in {fill - 1, fill} /\ at + 1 < fill
      BY <2>2 DEF HeaderNoStart
    <3> QED
      BY <1>0, <3>1
  <2>3. CASE HeaderNoEnd
    <3>1. PICK s \in Starts : at' \in {fill, s - 1, base}
      BY <2>3 DEF HeaderNoEnd
    <3>2. s \in at + 1 .. fill - 1
      BY DEF Starts
    <3> QED
      BY <1>0, <3>1, <3>2
  <2>4. CASE HeaderUnparsed \/ HeaderRejected \/ HeaderAccepted
    <3>1. PICK s, e, p :
            /\ s \in Starts /\ e \in Ends(s) /\ p \in Breaks(s, e)
            /\ at' \in {e, p, p - 1}
      BY <2>4 DEF HeaderUnparsed, HeaderRejected, HeaderAccepted
    <3>2. /\ s \in Int /\ e \in Int /\ p \in Int
          /\ at < s /\ s < p /\ p <= e /\ e <= fill
      BY <3>1, CandidateRange
    <3> QED
      BY <1>0, <3>1, <3>2
  <2>5. CASE DataUnparsed
    <3>1. PICK p \in at + 1 .. fill : at' \in {p, p - 1}
      BY <2>5 DEF DataUnparsed
    <3> QED
      BY <1>0, <3>1
  <2>6. CASE DataParsed
    <3>1. at' = at + wip.data_length /\ at' <= fill
      BY <2>6 DEF DataParsed, DataStops
    <3>2. wip.data_length \in Nat
      BY Numbers
    <3> QED
      BY <1>0, <3>1, <3>2
  <2>7. CASE Payload
    <3> DEFINE left == wip.payload_length - received
               size == IF left < fill - at THEN left ELSE fill - at
    <3>1. at' = at + size
      BY <2>7 DEF Payload
    <3>2. at + size \in base .. fill
      BY <2>7, ChunkSize DEF Payload, Window, Progress, PayloadAccounted
    <3> QED
      BY <3>1, <3>2
  <2> QED
    BY <2>1, <2>2, <2>3, <2>4, <2>5, <2>6, <2>7 DEF Decoding
<1> QED
  BY <1>0, <1>1, <1>2, <1>3

(* Every step keeps the types.                                             *)
LEMMA TypeStep == IInv /\ [Next]_vars => TypeOK'
<1> SUFFICES ASSUME IInv, [Next]_vars PROVE TypeOK'
  OBVIOUS
<1> USE DecoderAssumption
    DEF IInv, Continue, Compact, ReturnZero, Emit, InLoop, window, event, memory
<1>0. TypeOK /\ fill \in Nat /\ base \in Nat /\ Len(stream) \in Nat /\ fill <= Len(stream)
  BY Numbers
<1>1. ASSUME NEW n \in 1..BufferSize, Read(n) PROVE TypeOK'
  <2>1. n \in Nat /\ fill' = fill + n /\ fill' <= Len(stream)
    BY <1>1 DEF Read
  <2>2. /\ at' = base /\ begin' = FALSE /\ pc' = "next"
        /\ UNCHANGED <<stream, base, state, wip, received, evt, owned, leaked, done>>
    BY <1>1 DEF Read
  <2>3. fill' \in 0..Len(stream) /\ base' \in 0..fill' /\ at' \in base'..fill'
    BY <1>0, <2>1, <2>2, Numbers
  <2> QED
    BY <2>2, <2>3 DEF TypeOK
<1>2. CASE ReadNothing \/ PeerClose
  BY <1>2 DEF ReadNothing, PeerClose, TypeOK
<1>3. CASE Accept
  <2>1. stream' \in Streams /\ Len(stream') \in Nat
    BY <1>3 DEF Accept
  <2>2. wip' \in Headers /\ evt' \in Outputs
    BY <1>3 DEF Accept, Headers, Outputs, NoHeader, NoOutput
  <2>3. leaked' \subseteq {"reset", "data", "overwrite"} /\ owned' = {}
    BY <1>3 DEF Accept, TypeOK
  <2>4. /\ fill' \in 0..Len(stream') /\ base' \in 0..fill' /\ at' \in base'..fill'
        /\ received' \in 0..MaxPayload /\ done' \in Nat
    BY <1>3, <2>1 DEF Accept
  <2> QED
    BY <1>3, <2>1, <2>2, <2>3, <2>4 DEF Accept, TypeOK
<1> DEFINE Moved == /\ stream' \in Streams /\ fill' \in 0..Len(stream)'
                    /\ base' \in 0..fill' /\ at' \in base'..fill'
<1>4. ASSUME Decoding PROVE Moved
  BY <1>0, <1>4, Forward DEF TypeOK
<1> HIDE DEF Moved
<1>5. CASE Exhausted \/ HeaderShort \/ HeaderNoStart \/ HeaderNoEnd \/ HeaderUnparsed
  <2>1. Moved
    BY <1>4, <1>5 DEF Decoding
  <2>2. UNCHANGED <<state, wip, received, begin, evt, owned, leaked, done>>
    BY <1>5 DEF Exhausted, HeaderShort, HeaderNoStart, HeaderNoEnd, HeaderUnparsed
  <2>3. pc' \in {"read", "next"}
    BY <1>5 DEF Exhausted, HeaderShort, HeaderNoStart, HeaderNoEnd, HeaderUnparsed
  <2> QED
    BY <2>1, <2>2, <2>3 DEF TypeOK, Moved
<1>6. CASE HeaderRejected
  <2>1. Moved
    BY <1>4, <1>6 DEF Decoding
  <2>2. wip' \in Headers
    BY <1>6 DEF HeaderRejected, Headers, NoHeader
  <2>3. leaked' \subseteq {"reset", "data", "overwrite"} /\ owned' = {} /\ pc' = "next"
    BY <1>6 DEF HeaderRejected, Overwrite, TypeOK
  <2>4. UNCHANGED <<state, received, begin, evt, done>>
    BY <1>6 DEF HeaderRejected
  <2> QED
    BY <2>1, <2>2, <2>3, <2>4 DEF TypeOK, Moved
<1>7. CASE HeaderAccepted
  <2>1. PICK s, e, p, d, l :
          /\ s \in Starts /\ e \in Ends(s) /\ p \in Breaks(s, e)
          /\ d \in Word(Fields[stream[s + 2]].data_length, BufferSize)
          /\ l \in Word(Fields[stream[s + 2]].payload_length, MaxPayload)
          /\ Candidate(s, e, p) /\ Closes(s, p) /\ p + 1 = e
          /\ Acceptable(Fields[stream[s + 2]], d, l)
          /\ wip' = [body |-> stream[s + 2], data_length |-> d,
                     payload_length |-> l]
          /\ state' = CASE d > 0 -> "data"
                        [] d = 0 /\ l > 0 -> "payload"
                        [] OTHER -> "header"
          /\ IF d > 0 \/ l > 0
               THEN Continue(e) /\ UNCHANGED <<evt, done>>
               ELSE Emit(e, wip', 0, 0, TRUE, TRUE)
    BY <1>7 DEF HeaderAccepted
  <2>2. stream[s + 2] \in Bodies
    BY <2>1, ParsedBody
  <2>3. d \in 0..BufferSize /\ l \in 0..MaxPayload
    BY <2>1, <2>2, AcceptedLengths
  <2>4. wip' \in Headers
    BY <2>1, <2>2, <2>3 DEF Headers
  <2>5. Moved
    BY <1>4, <1>7 DEF Decoding
  <2>6. pc' \in {"next", "handle"}
    BY <2>1
  <2>7. evt' \in Outputs /\ done' \in Nat
    <3>1. [body |-> wip'.body, offset |-> 0, size |-> 0,
           begin |-> TRUE, end |-> TRUE] \in Outputs
      BY <2>4 DEF Headers, Outputs
    <3>2. evt \in Outputs /\ done \in Nat
      BY DEF TypeOK
    <3>3. CASE d > 0 \/ l > 0
      BY <2>1, <3>2, <3>3
    <3>4. CASE ~(d > 0 \/ l > 0)
      <4>1. /\ evt' = [body |-> wip'.body, offset |-> 0, size |-> 0,
                       begin |-> TRUE, end |-> TRUE]
            /\ done' = done + 1
        BY <2>1, <3>4
      <4>2. done' \in Nat
        BY <3>2, <4>1
      <4> QED
        BY <3>1, <4>1, <4>2
    <3> QED
      BY <3>3, <3>4
  <2>8. state' \in {"header", "data", "payload"}
    BY <2>1
  <2>9. /\ leaked' \subseteq {"reset", "data", "overwrite"}
        /\ owned' = {"header"} /\ begin' = TRUE
        /\ UNCHANGED <<stream, fill, received>>
    BY <1>7 DEF HeaderAccepted, Overwrite, TypeOK
  <2> QED
    BY <2>4, <2>5, <2>6, <2>7, <2>8, <2>9 DEF TypeOK, Moved
<1>8. CASE DataRefused \/ DataShort \/ DataUnparsed
  <2>1. Moved
    BY <1>4, <1>8 DEF Decoding
  <2>2. /\ pc' \in {"read", "next"} /\ state' \in {"header", "data"}
        /\ owned' \subseteq {"header", "data"}
        /\ leaked' \subseteq {"reset", "data", "overwrite"}
    BY <1>8 DEF DataRefused, DataShort, DataUnparsed, TypeOK
  <2>3. UNCHANGED <<wip, received, begin, evt, done>>
    BY <1>8 DEF DataRefused, DataShort, DataUnparsed
  <2> QED
    BY <2>1, <2>2, <2>3 DEF TypeOK, Moved
<1>9. CASE DataParsed
  <2>1. Moved
    BY <1>4, <1>9 DEF Decoding
  <2>2. pc' \in {"next", "handle"}
    BY <1>9 DEF DataParsed
  <2>3. evt' \in Outputs /\ done' \in Nat
    <3>1. [body |-> wip.body, offset |-> 0, size |-> 0,
           begin |-> TRUE, end |-> TRUE] \in Outputs
      BY DEF TypeOK, Headers, Outputs
    <3>2. evt \in Outputs /\ done \in Nat
      BY DEF TypeOK
    <3>3. \/ UNCHANGED <<evt, done>>
          \/ /\ evt' = [body |-> wip.body, offset |-> 0, size |-> 0,
                        begin |-> TRUE, end |-> TRUE]
             /\ done' = done + 1
      BY <1>9 DEF DataParsed
    <3>4. evt' \in Outputs
      BY <3>1, <3>2, <3>3
    <3>5. done' \in Nat
      BY <3>2, <3>3
    <3> QED
      BY <3>4, <3>5
  <2>4. /\ state' \in {"header", "payload"} /\ begin' = TRUE
        /\ owned' \subseteq {"header", "data"}
        /\ UNCHANGED <<stream, fill, wip, received, leaked>>
    BY <1>9 DEF DataParsed, TypeOK
  <2> QED
    BY <2>1, <2>2, <2>3, <2>4 DEF TypeOK, Moved
<1>10. CASE Payload
  <2> DEFINE left == wip.payload_length - received
             size == IF left < fill - at THEN left ELSE fill - at
             end  == received + size = wip.payload_length
  <2>1. /\ size \in 1..BufferSize /\ at + size \in base..fill
        /\ received + size \in 1..wip.payload_length
    BY <1>10, ChunkSize DEF Payload, Window, Progress, PayloadAccounted
  <2>2. /\ at' = at + size /\ base' = at + size /\ pc' = "handle"
        /\ evt' = [body |-> wip.body, offset |-> received, size |-> size,
                   begin |-> (begin \/ received = 0), end |-> end]
        /\ done' = IF end THEN done + 1 ELSE done
        /\ received' = IF end THEN 0 ELSE received + size
        /\ state' = IF end THEN "header" ELSE "payload"
        /\ UNCHANGED <<stream, fill, wip, begin, owned, leaked>>
    BY <1>10 DEF Payload
  <2> HIDE DEF size, end
  <2>3. evt' \in Outputs
    <3>1. (begin \/ received = 0) \in BOOLEAN /\ end \in BOOLEAN
      BY DEF end
    <3>2. wip.body \in Bodies \cup {"none"} /\ received \in 0..MaxPayload
      BY DEF TypeOK, Headers
    <3>3. size \in 0..BufferSize
      BY <2>1
    <3> QED
      BY <2>2, <3>1, <3>2, <3>3 DEF Outputs
  <2>4. received' \in 0..MaxPayload /\ done' \in Nat
    <3>1. done \in Nat /\ received' \in {0, received + size}
      BY <2>2 DEF TypeOK
    <3>2. done' \in Nat
      BY <2>2, <3>1
    <3>3. /\ received + size \in 1..wip.payload_length /\ MaxPayload \in Nat
          /\ wip.payload_length \in 0..MaxPayload
      BY <2>1, Numbers
    <3> QED
      BY <3>1, <3>2, <3>3
  <2>5. Moved
    BY <1>4, <1>10 DEF Decoding
  <2> QED
    BY <2>2, <2>3, <2>4, <2>5 DEF TypeOK, Moved
<1>11. CASE Handle
  BY <1>11 DEF Handle, TypeOK
<1>12. CASE UNCHANGED vars
  BY <1>12 DEF vars, TypeOK
<1> QED
  BY <1>1, <1>2, <1>3, <1>5, <1>6, <1>7, <1>8, <1>9, <1>10, <1>11, <1>12
  DEF Next, Decoding

(* The buffer stays within its size, and has room for what is awaited.     *)
LEMMA WindowStep == IInv /\ [Next]_vars => Window'
<1> SUFFICES ASSUME IInv, [Next]_vars PROVE Window'
  OBVIOUS
<1> USE DEF IInv, Continue, Compact, ReturnZero, Emit, InLoop, window, event,
        memory, Window, BufferBounded
<1>0. /\ fill \in Nat /\ base \in Nat /\ at \in Nat /\ base <= at /\ at <= fill
      /\ BufferSize \in Nat /\ wip.data_length \in Nat
      /\ fill - base <= BufferSize
  BY Numbers
<1>1. ASSUME NEW n \in 1..BufferSize, Read(n) PROVE Window'
  BY <1>0, <1>1 DEF Read, Capacity
<1>2. CASE ReadNothing \/ PeerClose
  BY <1>2 DEF ReadNothing, PeerClose
<1>3. CASE Accept
  BY <1>0, <1>3 DEF Accept
<1>4. CASE Decoding
  <2>1. fill' - base' <= BufferSize
    BY <1>0, <1>4, Forward
  <2>2. pc' # "next" => at' = base'
    <3>1. CASE HeaderNoStart
      BY <3>1 DEF HeaderNoStart
    <3>2. CASE Exhausted \/ HeaderShort
      BY <3>2 DEF Exhausted, HeaderShort
    <3>3. CASE DataRefused \/ DataShort
      BY <3>3 DEF DataRefused, DataShort
    <3>4. CASE HeaderNoEnd \/ HeaderAccepted \/ DataParsed \/ Payload
      BY <3>4 DEF HeaderNoEnd, HeaderAccepted, DataParsed, Payload
    <3>5. CASE HeaderUnparsed \/ HeaderRejected \/ DataUnparsed \/ Handle
      BY <3>5 DEF HeaderUnparsed, HeaderRejected, DataUnparsed, Handle
    <3> QED
      BY <1>4, <3>1, <3>2, <3>3, <3>4, <3>5 DEF Decoding
  <2>3. ASSUME pc' = "read", state' # "header"
        PROVE  Exhausted \/ DataShort
    BY <1>4, <2>3 DEF Decoding, HeaderShort, HeaderNoStart, HeaderNoEnd,
         HeaderUnparsed, HeaderRejected, HeaderAccepted, DataRefused,
         DataUnparsed, DataParsed, Payload, Handle
  <2>4. CASE Exhausted
    <3>1. /\ fill' = fill /\ base' = fill /\ UNCHANGED <<state, wip>>
      BY <2>4 DEF Exhausted
    <3>2. state = "data" => fill' - base' < wip.data_length
      BY <1>0, <3>1, Numbers DEF Progress
    <3> QED
      BY <2>1, <2>2, <3>1, <3>2
  <2>5. CASE DataShort
    <3>1. /\ fill' = fill /\ base' = at /\ UNCHANGED <<state, wip>>
          /\ state = "data" /\ at + wip.data_length > fill
      BY <2>5 DEF DataShort
    <3> QED
      BY <1>0, <2>1, <2>2, <3>1
  <2> QED
    BY <2>1, <2>2, <2>3, <2>4, <2>5
<1>5. CASE UNCHANGED vars
  BY <1>5 DEF vars
<1> QED
  BY <1>1, <1>2, <1>3, <1>4, <1>5 DEF Next

(* The outcomes of an accepted header: data follows, a payload follows, or *)
(* the event is complete.                                                  *)
LEMMA AcceptedOutcome ==
  ASSUME TypeOK, HeaderAccepted
  PROVE  \/ wip'.data_length > 0 /\ state' = "data" /\ pc' = "next" /\ evt' = evt
         \/ /\ wip'.data_length = 0 /\ wip'.payload_length > 0
            /\ state' = "payload" /\ pc' = "next" /\ evt' = evt
         \/ /\ wip'.data_length = 0 /\ wip'.payload_length = 0
            /\ state' = "header" /\ pc' = "handle"
            /\ evt' = [body |-> wip'.body, offset |-> 0, size |-> 0,
                       begin |-> TRUE, end |-> TRUE]
<1>1. PICK s, e, p, d, l :
        /\ s \in Starts /\ e \in Ends(s) /\ p \in Breaks(s, e)
        /\ d \in Word(Fields[stream[s + 2]].data_length, BufferSize)
        /\ l \in Word(Fields[stream[s + 2]].payload_length, MaxPayload)
        /\ Candidate(s, e, p) /\ Closes(s, p)
        /\ Acceptable(Fields[stream[s + 2]], d, l)
        /\ wip' = [body |-> stream[s + 2], data_length |-> d,
                   payload_length |-> l]
        /\ state' = CASE d > 0 -> "data"
                      [] d = 0 /\ l > 0 -> "payload"
                      [] OTHER -> "header"
        /\ IF d > 0 \/ l > 0
             THEN Continue(e) /\ UNCHANGED <<evt, done>>
             ELSE Emit(e, wip', 0, 0, TRUE, TRUE)
  BY DEF HeaderAccepted
<1>2. stream[s + 2] \in Bodies
  BY <1>1, ParsedBody
<1>3. d \in 0..BufferSize /\ l \in 0..MaxPayload
  BY <1>1, <1>2, AcceptedLengths
<1>4. wip'.data_length = d /\ wip'.payload_length = l
  BY <1>1
<1>5. CASE d > 0
  BY <1>1, <1>4, <1>5 DEF Continue
<1>6. CASE d = 0 /\ l > 0
  BY <1>1, <1>4, <1>6 DEF Continue
<1>7. CASE d = 0 /\ l = 0
  BY <1>1, <1>4, <1>7 DEF Emit
<1> QED
  BY <1>3, <1>5, <1>6, <1>7, DecoderAssumption

(* The outcomes of a step in the payload.                                  *)
LEMMA PayloadOutcome ==
  ASSUME IInv, Payload
  PROVE  /\ pc' = "handle" /\ UNCHANGED <<wip, begin, owned, leaked>>
         /\ state = "payload" /\ pc = "next"
         /\ evt'.body = wip.body /\ evt'.offset = received
         /\ received = 0 => evt'.begin = TRUE
         /\ received # 0 /\ begin = FALSE => evt'.begin = FALSE
         /\ evt'.size \in Nat \ {0}
         /\ \/ /\ received + evt'.size = wip.payload_length
               /\ evt'.end = TRUE /\ received' = 0 /\ state' = "header"
            \/ /\ received + evt'.size < wip.payload_length
               /\ evt'.end = FALSE /\ received' = received + evt'.size
               /\ state' = "payload"
<1> DEFINE left == wip.payload_length - received
           size == IF left < fill - at THEN left ELSE fill - at
           end  == received + size = wip.payload_length
<1>1. /\ size \in 1..BufferSize /\ received + size \in 1..wip.payload_length
  BY ChunkSize DEF IInv, Payload, Window, Progress, PayloadAccounted
<1>2. /\ pc' = "handle" /\ state = "payload" /\ pc = "next"
      /\ evt' = [body |-> wip.body, offset |-> received, size |-> size,
                 begin |-> (begin \/ received = 0), end |-> end]
      /\ received' = IF end THEN 0 ELSE received + size
      /\ state' = IF end THEN "header" ELSE "payload"
      /\ UNCHANGED <<wip, begin, owned, leaked>>
  BY DEF Payload, Emit, InLoop, memory
<1> HIDE DEF size, end
<1>3. BufferSize \in Nat /\ wip.payload_length \in Nat /\ received \in Nat
  BY Numbers DEF IInv
<1>4. size \in Nat \ {0} /\ received + size <= wip.payload_length
  BY <1>1, <1>3
<1>5. /\ evt'.body = wip.body /\ evt'.offset = received /\ evt'.size = size
      /\ evt'.begin = (begin \/ received = 0) /\ evt'.end = end
  BY <1>2
<1>6. received = 0 => evt'.begin = TRUE
  BY <1>5
<1>7. received # 0 /\ begin = FALSE => evt'.begin = FALSE
  BY <1>5
<1>8. CASE end
  BY <1>2, <1>4, <1>5, <1>8 DEF end
<1>9. CASE ~end
  <2>1. received + size < wip.payload_length
    BY <1>3, <1>4, <1>9 DEF end
  <2>2. evt'.end = FALSE
    BY <1>5, <1>9 DEF end
  <2> QED
    BY <1>2, <1>4, <1>5, <1>9, <2>1, <2>2
<1> QED
  BY <1>8, <1>9

(* The counters keep agreeing with the event in progress.                  *)
LEMMA ProgressStep == IInv /\ [Next]_vars => Progress'
<1> SUFFICES ASSUME IInv, [Next]_vars PROVE Progress'
  OBVIOUS
<1> USE DEF IInv, Continue, Compact, ReturnZero, Emit, InLoop, window, event,
        memory, Progress, PayloadAccounted
<1>0. /\ received \in Nat /\ wip.data_length \in Nat /\ wip.payload_length \in Nat
  BY Numbers
<1>1. CASE ReadNothing \/ PeerClose \/ \E n \in 1..BufferSize : Read(n)
  BY <1>1 DEF ReadNothing, PeerClose, Read
<1>2. CASE Accept
  BY <1>2 DEF Accept
<1>3. CASE Handle
  BY <1>3 DEF Handle
<1>4. CASE Exhausted \/ HeaderShort \/ DataShort
  BY <1>4 DEF Exhausted, HeaderShort, DataShort
<1>5. CASE HeaderNoStart \/ HeaderNoEnd \/ HeaderUnparsed
  <2>1. UNCHANGED <<state, wip, received, begin, evt>> /\ pc' \in {"read", "next"}
    BY <1>5 DEF HeaderNoStart, HeaderNoEnd, HeaderUnparsed
  <2>2. pc = "next"
    BY <1>5 DEF HeaderNoStart, HeaderNoEnd, HeaderUnparsed, Candidate
  <2> QED
    BY <2>1, <2>2
<1>6. CASE HeaderRejected
  <2>1. UNCHANGED <<state, received, begin, evt>> /\ pc' = "next" /\ state = "header"
    BY <1>6 DEF HeaderRejected, Candidate
  <2> QED
    BY <1>0, <2>1
<1>7. CASE HeaderAccepted
  <2>1. received = 0 /\ received' = 0
    BY <1>7 DEF HeaderAccepted, Candidate
  <2>2. \/ wip'.data_length > 0 /\ state' = "data" /\ pc' = "next" /\ evt' = evt
        \/ /\ wip'.data_length = 0 /\ wip'.payload_length > 0
           /\ state' = "payload" /\ pc' = "next" /\ evt' = evt
        \/ /\ wip'.data_length = 0 /\ wip'.payload_length = 0
           /\ state' = "header" /\ pc' = "handle"
           /\ evt' = [body |-> wip'.body, offset |-> 0, size |-> 0,
                      begin |-> TRUE, end |-> TRUE]
    BY <1>7, AcceptedOutcome
  <2> QED
    BY <2>1, <2>2
<1>8. CASE DataRefused \/ DataUnparsed
  <2>1. /\ UNCHANGED <<wip, received, begin, evt>> /\ state' = "header"
        /\ pc' \in {"read", "next"} /\ state = "data"
    BY <1>8 DEF DataRefused, DataUnparsed, DataStops
  <2> QED
    BY <1>0, <2>1
<1>9. CASE DataParsed
  <2>1. received = 0 /\ UNCHANGED <<received, wip>>
    BY <1>9 DEF DataParsed, DataStops
  <2>2. \/ /\ wip.payload_length > 0 /\ state' = "payload" /\ pc' = "next"
           /\ evt' = evt
        \/ /\ ~(wip.payload_length > 0) /\ state' = "header" /\ pc' = "handle"
           /\ evt' = [body |-> wip.body, offset |-> 0, size |-> 0,
                      begin |-> TRUE, end |-> TRUE]
    BY <1>9 DEF DataParsed
  <2> QED
    BY <1>0, <2>1, <2>2
<1>10. CASE Payload
  <2>1. /\ pc' = "handle" /\ wip' = wip /\ state' # "data"
        /\ evt'.body = wip.body /\ evt'.offset = received
        /\ evt'.size \in Nat \ {0}
        /\ \/ /\ received + evt'.size = wip.payload_length
              /\ evt'.end = TRUE /\ received' = 0 /\ state' = "header"
           \/ /\ received + evt'.size < wip.payload_length
              /\ evt'.end = FALSE /\ received' = received + evt'.size
              /\ state' = "payload"
    BY <1>10, PayloadOutcome
  <2> HIDE DEF IInv, Progress, PayloadAccounted
  <2>2. PayloadAccounted'
    BY <1>0, <2>1 DEF PayloadAccounted
  <2>3. /\ received' = 0 => evt'.end = TRUE
        /\ received' > 0 => evt'.end = FALSE /\ evt'.offset + evt'.size = received'
    BY <1>0, <2>1
  <2> QED
    BY <2>1, <2>2, <2>3 DEF Progress
<1>11. CASE UNCHANGED vars
  BY <1>11 DEF vars
<1> QED
  BY <1>1, <1>2, <1>3, <1>4, <1>5, <1>6, <1>7, <1>8, <1>9, <1>10, <1>11
  DEF Next, Decoding

(* Ownership of the JSON trees follows the state.                          *)
LEMMA FreedStep == IInv /\ [Next]_vars => FreedOnce'
<1> SUFFICES ASSUME IInv, [Next]_vars PROVE FreedOnce'
  OBVIOUS
<1> USE DEF IInv, Continue, Compact, ReturnZero, Emit, InLoop, window, event,
        memory, FreedOnce, HeldBy
<1>1. CASE ReadNothing \/ PeerClose \/ \E n \in 1..BufferSize : Read(n)
  BY <1>1 DEF ReadNothing, PeerClose, Read
<1>2. CASE Accept
  BY <1>2 DEF Accept
<1>3. CASE Handle
  BY <1>3 DEF Handle, Progress, PayloadAccounted
<1>4. CASE Exhausted \/ HeaderShort \/ DataShort
  BY <1>4 DEF Exhausted, HeaderShort, DataShort
<1>5. CASE HeaderNoStart \/ HeaderNoEnd \/ HeaderUnparsed
  <2>1. UNCHANGED <<state, wip, evt, owned, leaked>> /\ pc' \in {"read", "next"}
    BY <1>5 DEF HeaderNoStart, HeaderNoEnd, HeaderUnparsed
  <2>2. pc = "next"
    BY <1>5 DEF HeaderNoStart, HeaderNoEnd, HeaderUnparsed, Candidate
  <2> QED
    BY <2>1, <2>2
<1>6. CASE HeaderRejected
  <2>1. /\ owned' = {} /\ pc' = "next" /\ state' = "header"
        /\ state = "header" /\ pc = "next"
        /\ leaked' = IF owned = {} THEN leaked ELSE leaked \cup {"overwrite"}
    BY <1>6 DEF HeaderRejected, Candidate, Overwrite
  <2> QED
    BY <2>1
<1>7. CASE HeaderAccepted
  <2>1. /\ owned' = {"header"} /\ state = "header" /\ pc = "next"
        /\ leaked' = IF owned = {} THEN leaked ELSE leaked \cup {"overwrite"}
    BY <1>7 DEF HeaderAccepted, Candidate, Overwrite
  <2>2. \/ state' = "data" /\ pc' = "next"
        \/ wip'.data_length = 0 /\ state' = "payload" /\ pc' = "next"
        \/ wip'.data_length = 0 /\ state' = "header" /\ pc' = "handle"
    BY <1>7, AcceptedOutcome
  <2>3. "overwrite" \notin leaked'
    BY <2>1
  <2> QED
    BY <2>1, <2>2, <2>3
<1>8. CASE DataRefused \/ DataUnparsed
  <2>1. /\ state' = "header" /\ pc' \in {"read", "next"} /\ state = "data"
        /\ owned' \in {{}, owned \ {"header"}}
        /\ leaked' \in {leaked, leaked \cup {"data"}}
    BY <1>8 DEF DataRefused, DataUnparsed, DataStops
  <2> QED
    BY <2>1
<1>9. CASE DataParsed
  <2>1. /\ owned' = owned \cup {"data"} /\ state = "data"
        /\ UNCHANGED <<wip, leaked>>
        /\ state' \in {"payload", "header"}
        /\ state' = "header" => pc' = "handle"
    BY <1>9 DEF DataParsed, DataStops
  <2>2. wip.data_length > 0
    BY <2>1 DEF Progress
  <2> QED
    BY <2>1, <2>2
<1>10. CASE Payload
  BY <1>10, PayloadOutcome
<1>11. CASE UNCHANGED vars
  BY <1>11 DEF vars
<1> QED
  BY <1>1, <1>2, <1>3, <1>4, <1>5, <1>6, <1>7, <1>8, <1>9, <1>10, <1>11
  DEF Next, Decoding

-----------------------------------------------------------------------------
(* The invariant holds in every reachable state.                           *)
THEOREM Invariance == Spec => []IInv
<1>1. IInv /\ [Next]_vars => IInv'
  BY TypeStep, WindowStep, ProgressStep, FreedStep DEF IInv
<1> QED
  BY InitIInv, <1>1, PTL DEF Spec

(* Every variable stays in its type: lengths and positions in range.       *)
THEOREM TypeCorrect == Spec => []TypeOK
<1>1. IInv => TypeOK
  BY DEF IInv
<1> QED
  BY Invariance, <1>1, PTL

(* The buffer is never overrun, and a decoder that waits for data has room *)
(* for it.                                                                 *)
THEOREM Bounded == Spec => []BufferBounded
<1>1. IInv => BufferBounded
  BY DEF IInv, Window
<1> QED
  BY Invariance, <1>1, PTL

(* Chunks stay within their payload and the last one completes it.         *)
THEOREM Accounted == Spec => []PayloadAccounted
<1>1. IInv => PayloadAccounted
  BY DEF IInv, Progress
<1> QED
  BY Invariance, <1>1, PTL

(* No JSON tree is freed twice or overwritten.                             *)
THEOREM Freed == Spec => []FreedOnce
<1>1. IInv => FreedOnce
  BY DEF IInv
<1> QED
  BY Invariance, <1>1, PTL

(* The chunks of an event follow one another without gap or overlap.       *)
THEOREM Contiguous == Spec => ChunksContiguous
<1> DEFINE Follows ==
      pc # "handle" /\ pc' = "handle" =>
        IF evt = NoOutput \/ evt.end
          THEN evt'.begin /\ evt'.offset = 0
          ELSE /\ ~evt'.begin /\ evt'.body = evt.body
               /\ evt'.offset = evt.offset + evt.size
<1>1. ASSUME IInv, Next, pc # "handle", pc' = "handle" PROVE Follows
  <2>0. /\ received \in Nat
        /\ received = 0 => evt = NoOutput \/ evt.end = TRUE
        /\ received > 0 => evt.body = wip.body /\ evt.end = FALSE /\ evt # NoOutput
                           /\ evt.offset + evt.size = received
    BY <1>1, Numbers DEF IInv, Progress, NoOutput
  <2>1. HeaderAccepted \/ DataParsed \/ Payload
    BY <1>1
    DEF Next, Decoding, Read, ReadNothing, PeerClose, Accept, Handle, Exhausted,
        HeaderShort, HeaderNoStart, HeaderNoEnd, HeaderUnparsed, HeaderRejected,
        DataRefused, DataShort, DataUnparsed, Continue, Compact, ReturnZero
  <2>2. CASE HeaderAccepted
    <3>1. received = 0
      BY <1>1, <2>2
      DEF HeaderAccepted, Candidate, InLoop, IInv, Progress, PayloadAccounted
    <3>2. evt'.offset = 0 /\ evt'.begin = TRUE
      BY <1>1, <2>2, AcceptedOutcome DEF IInv
    <3> QED
      BY <2>0, <3>1, <3>2
  <2>3. CASE DataParsed
    <3>1. received = 0
      BY <1>1, <2>3
      DEF DataParsed, DataStops, InLoop, IInv, Progress, PayloadAccounted
    <3>2. evt' = [body |-> wip.body, offset |-> 0, size |-> 0,
                  begin |-> TRUE, end |-> TRUE]
      BY <1>1, <2>3 DEF DataParsed, Continue, Emit
    <3> QED
      BY <2>0, <3>1, <3>2
  <2>4. CASE Payload
    <3>1. /\ evt'.body = wip.body /\ evt'.offset = received /\ pc = "next"
          /\ received = 0 => evt'.begin = TRUE
          /\ received # 0 /\ begin = FALSE => evt'.begin = FALSE
      BY <1>1, <2>4, PayloadOutcome
    <3>2. received > 0 => begin = FALSE
      BY <1>1, <3>1 DEF IInv, Progress, TypeOK
    <3>3. CASE received = 0
      BY <2>0, <3>1, <3>3
    <3>4. CASE received > 0
      BY <2>0, <3>1, <3>2, <3>4
    <3> QED
      BY <2>0, <3>3, <3>4
  <2> QED
    BY <2>1, <2>2, <2>3, <2>4
<1>2. IInv /\ [Next]_vars => [Follows]_vars
  BY <1>1
<1> HIDE DEF Follows
<1>3. Spec => [][Follows]_vars
  BY Invariance, <1>2, PTL DEF Spec
<1> QED
  BY <1>3 DEF ChunksContiguous, Follows

=============================================================================
