-------------------------- MODULE EventSenderProofs --------------------------
(***************************************************************************)
(* On streams of whole events the decoder keeps the promise of EventStream *)
(* and has room whenever it waits for bytes, for every buffer size, every  *)
(* payload limit and every way read() cuts the bytes.                      *)
(***************************************************************************)
EXTENDS EventSender, EventDecoderProofs

(* The events of the present connection, in words of the stream.           *)
Count   == Len(Lines[stream])
From(i) == Lines[stream][i].from
To(i)   == Lines[stream][i].to
Body(i) == Carried[stream][i]
Data(i) == Fields[Body(i)].data_length
Load(i) == Fields[Body(i)].payload_length

(* The decoder is between the events that have come out and the next one,  *)
(* or within the next one, at its data or its payload.                     *)
Placement ==
  /\ done \in 0..Count
  /\ End(stream, done) <= base
  /\ state = "header" /\ done < Count => at < From(done + 1)
  /\ state # "header" =>
       /\ done < Count
       /\ wip = [body |-> Body(done + 1), data_length |-> Data(done + 1),
                 payload_length |-> Load(done + 1)]
  /\ state = "data" => at = To(done + 1)
  /\ state = "payload" => at = To(done + 1) + Data(done + 1) + received

(* A header may end here.                                                  *)
LineEnd(e) == stream[e - 1] = "}" /\ stream[e] = "nl"

(* Where a call has gone past bytes without dropping them, an end of a     *)
(* line is still ahead, or they and the next header fit in the buffer.     *)
Unhurried ==
  pc = "next" /\ state = "header" /\ base < at /\ at < fill =>
    \/ \E e \in at + 2 .. fill : LineEnd(e)
    \/ done < Count /\ To(done + 1) - base <= BufferSize

SInv == IInv /\ Placement /\ Unhurried /\ RoomToRead

-----------------------------------------------------------------------------
(* What it takes to be the start of a header, its end, or a place where    *)
(* the parser stops.                                                       *)
LEMMA InStarts ==
  ASSUME NEW s
  PROVE  s \in Starts <=> /\ s \in at + 1 .. fill - 1
                          /\ stream[s] = "{" /\ stream[s + 1] = "quote"
BY DEF Starts

LEMMA InEnds ==
  ASSUME NEW s, NEW e
  PROVE  e \in Ends(s) <=> e \in s + 1 .. fill /\ LineEnd(e)
BY DEF Ends, LineEnd

LEMMA InBreaks ==
  ASSUME NEW s \in Int, NEW e \in Int, NEW i \in s + 1 .. e
  PROVE  i \in Breaks(s, e) <=>
           \/ i = s + 1 /\ stream[i] # "quote"
           \/ i = s + 2 /\ stream[i] \notin Bodies
           \/ i # s + 1 /\ i # s + 2 /\ stream[i] # "x"
<1>1. s + 1 # s + 2
  OBVIOUS
<1> DEFINE Bad == CASE i = s + 1 -> stream[i] # "quote"
                    [] i = s + 2 -> stream[i] \notin Bodies
                    [] OTHER     -> stream[i] # "x"
<1>2. i \in Breaks(s, e) <=> Bad
  BY Zenon DEF Breaks
<1>3. CASE i = s + 1
  <2>1. i # s + 2
    BY <1>1, <1>3
  <2>2. Bad <=> stream[i] # "quote"
    BY <1>3, <2>1, Zenon
  <2> QED
    BY <1>2, <1>3, <2>1, <2>2, Zenon
<1>4. CASE i = s + 2
  <2>1. i # s + 1
    BY <1>1, <1>4
  <2>2. Bad <=> stream[i] \notin Bodies
    BY <1>4, <2>1, Zenon
  <2> QED
    BY <1>2, <1>4, <2>1, <2>2, Zenon
<1>5. CASE i # s + 1 /\ i # s + 2
  <2>1. Bad <=> stream[i] # "x"
    BY <1>5, Zenon
  <2> QED
    BY <1>2, <1>5, <2>1, Zenon
<1> QED
  BY <1>3, <1>4, <1>5

(* The items of a sequence.                                                *)
LEMMA Item ==
  ASSUME NEW S, NEW q \in Seq(S), NEW i \in 1 .. Len(q)
  PROVE  q[i] \in S
OBVIOUS

LEMMA CountInNat ==
  ASSUME TypeOK
  PROVE  Count \in Nat
<1>1. Lines[stream] \in Seq([from : Nat, to : Nat])
  BY SenderAssumption DEF TypeOK
<1> QED
  BY <1>1 DEF Count

(* An event ends somewhere.                                                *)
LEMMA EndInNat ==
  ASSUME TypeOK, NEW i \in 0..Count
  PROVE  End(stream, i) \in Nat
<1>1. CASE i = 0
  BY <1>1 DEF End
<1>2. CASE i # 0
  <2>1. i \in 1..Count
    BY CountInNat, <1>2
  <2>2. /\ stream \in Streams /\ WellFormed(stream)
        /\ Lines[stream] \in Seq([from : Nat, to : Nat])
    BY SenderAssumption DEF TypeOK
  <2>3. /\ Data(i) \in 0..BufferSize /\ Load(i) \in 0..MaxPayload
    BY <2>1, <2>2 DEF WellFormed, WholeEvent, Count, Data, Load, Body
  <2>4. End(stream, i) = To(i) + Data(i) + Load(i)
    BY <1>2 DEF End, To, Data, Load, Body
  <2>5. Lines[stream][i] \in [from : Nat, to : Nat]
    BY <2>1, <2>2, Item, Zenon DEF Count
  <2>6. To(i) \in Nat
    BY <2>5 DEF To
  <2> QED
    BY <2>3, <2>4, <2>6, DecoderAssumption
<1> QED
  BY <1>1, <1>2

(* The conditions on the event to come, in numbers.                        *)
LEMMA NextEvent ==
  ASSUME TypeOK, done \in 0..Count, done < Count
  PROVE  /\ done + 1 \in 1..Count
         /\ End(stream, done) \in Nat /\ End(stream, done) < From(done + 1)
         /\ From(done + 1) \in Nat /\ To(done + 1) \in Nat
         /\ From(done + 1) + 4 <= To(done + 1)
         /\ Data(done + 1) \in 0..BufferSize /\ Load(done + 1) \in 0..MaxPayload
         /\ End(stream, done + 1) =
              To(done + 1) + Data(done + 1) + Load(done + 1)
         /\ End(stream, done + 1) <= Len(stream)
         /\ stream \in Streams /\ Body(done + 1) \in Bodies
         /\ IsLine(stream, From(done + 1), To(done + 1))
         /\ stream[From(done + 1) + 2] = Body(done + 1)
         /\ Fields[Body(done + 1)].typed
         /\ Data(done + 1) > 0 =>
              IsObject(stream, To(done + 1) + 1, To(done + 1) + Data(done + 1))
         /\ EndsInTime(stream, done + 1) /\ LinesRefused(stream, done + 1)
<1> DEFINE i == done + 1
<1>1. /\ stream \in Streams /\ WellFormed(stream)
      /\ Lines[stream] \in Seq([from : Nat, to : Nat])
      /\ Carried[stream] \in Seq(Bodies)
  BY SenderAssumption, DecoderAssumption DEF TypeOK
<1>2. Count \in Nat /\ i \in 1..Count /\ i - 1 = done
  BY CountInNat
<1>3. Lines[stream][i] \in [from : Nat, to : Nat]
  BY <1>1, <1>2, Item, Zenon DEF Count
<1>4. Body(i) \in Bodies
  <2>1. Len(Carried[stream]) = Count
    BY <1>1 DEF WellFormed, Count
  <2> QED
    BY <1>1, <1>2, <2>1, Item, Zenon DEF Body
<1>5. /\ End(stream, i - 1) < From(i)
      /\ WholeEvent(stream, i) /\ EndsInTime(stream, i) /\ LinesRefused(stream, i)
  BY <1>1, <1>2 DEF WellFormed, Count, From
<1>6. End(stream, done) \in Nat
  BY EndInNat
<1>7. From(i) \in Nat /\ To(i) \in Nat
  BY <1>3 DEF From, To
<1>8. End(stream, i) = To(i) + Data(i) + Load(i)
  BY <1>2 DEF End, To, Data, Load, Body
<1>9. /\ IsLine(stream, From(i), To(i)) /\ stream[From(i) + 2] = Body(i)
      /\ Fields[Body(i)].typed
      /\ Data(i) \in 0..BufferSize /\ Load(i) \in 0..MaxPayload
      /\ Data(i) > 0 => IsObject(stream, To(i) + 1, To(i) + Data(i))
      /\ End(stream, i) <= Len(stream)
  BY <1>5 DEF WholeEvent, From, To, Body, Data, Load
<1>10. From(i) + 4 <= To(i)
  <2>1. From(i) + 3 <= To(i) - 1
    BY <1>9, Zenon DEF IsLine, IsObject
  <2> QED
    BY <1>7, <2>1
<1> QED
  BY <1>1, <1>2, <1>4, <1>5, <1>6, <1>7, <1>8, <1>9, <1>10

(* What its sender sees to ahead of the next event, in those numbers.      *)
LEMMA InTime ==
  ASSUME NEW i, EndsInTime(stream, i),
         NEW a, a \in End(stream, i - 1) + 1 .. From(i),
         stream[a] = "{", stream[a + 1] = "quote"
  PROVE  \/ To(i) - a + 2 <= BufferSize
         \/ \E e \in a + 1 .. From(i) - 1 : LineEnd(e)
BY Zenon DEF EndsInTime, LineEnd, From, To

LEMMA Refused ==
  ASSUME NEW i, LinesRefused(stream, i),
         NEW a, a \in End(stream, i - 1) + 1 .. From(i) - 1,
         NEW b, b \in End(stream, i - 1) + 1 .. From(i) - 1,
         IsLine(stream, a, b)
  PROVE  /\ \A d \in Word(Fields[stream[a + 2]].data_length, BufferSize),
               l \in Word(Fields[stream[a + 2]].payload_length, MaxPayload) :
              ~Acceptable(Fields[stream[a + 2]], d, l)
         /\ To(i) - End(stream, i - 1) <= BufferSize
BY Zenon DEF LinesRefused, From, To

(* Behind the last event nothing is left.                                  *)
LEMMA NoMore ==
  ASSUME TypeOK, Placement, done = Count
  PROVE  at = fill /\ base = fill
<1>1. stream \in Streams /\ WellFormed(stream)
  BY SenderAssumption DEF TypeOK
<1>2. End(stream, done) = Len(stream)
  BY <1>1 DEF WellFormed, Count
<1>3. Len(stream) <= base
  BY <1>2 DEF Placement
<1> QED
  BY <1>3, Numbers

(* The parser goes through an object and stops at its closing brace.       *)
LEMMA ObjectParses ==
  ASSUME NEW s \in Int, NEW b \in Int, NEW e \in Int, b <= e,
         IsObject(stream, s, b), NEW p, IsFirst(p, Breaks(s, e))
  PROVE  p = b /\ Closes(s, p)
<1>1. /\ stream[s] = "{" /\ stream[s + 1] = "quote" /\ stream[s + 2] \in Bodies
      /\ \A k \in s + 3 .. b - 1 : stream[k] = "x"
      /\ stream[b] = "}"
  BY Zenon DEF IsObject
<1>2. s + 3 <= b
  BY Zenon DEF IsObject
<1>3. p \in s + 1 .. e /\ \A j \in Breaks(s, e) : p <= j
  BY Zenon DEF IsFirst, Breaks
<1>4. b \in Breaks(s, e)
  <2>1. b \in s + 1 .. e /\ b # s + 1 /\ b # s + 2
    BY <1>2
  <2> QED
    BY <1>1, <2>1, InBreaks
<1>5. ASSUME NEW k \in s + 1 .. b - 1 PROVE k \notin Breaks(s, e)
  <2>1. k \in s + 1 .. e
    OBVIOUS
  <2>2. CASE k = s + 1
    <3>1. k # s + 2
      BY <2>2
    <3>2. stream[k] = "quote"
      BY <1>1, <2>2
    <3> QED
      BY <2>1, <2>2, <3>1, <3>2, InBreaks
  <2>3. CASE k = s + 2
    <3>1. k # s + 1
      BY <2>3
    <3>2. stream[k] \in Bodies
      BY <1>1, <2>3
    <3> QED
      BY <2>1, <2>3, <3>1, <3>2, InBreaks
  <2>4. CASE k # s + 1 /\ k # s + 2
    <3>1. k \in s + 3 .. b - 1
      BY <2>4
    <3>2. stream[k] = "x"
      BY <1>1, <3>1
    <3> QED
      BY <2>1, <2>4, <3>2, InBreaks
  <2> QED
    BY <2>2, <2>3, <2>4
<1>6. p \in Breaks(s, e)
  BY DEF IsFirst
<1>7. p = b
  <2>1. p <= b /\ p \notin s + 1 .. b - 1
    BY <1>3, <1>4, <1>5, <1>6
  <2> QED
    BY <1>3, <2>1
<1>8. Closes(s, p)
  <2>1. p # s + 2
    BY <1>2, <1>7
  <2> QED
    BY <1>1, <1>7, <2>1 DEF Closes
<1> QED
  BY <1>7, <1>8

(* A search for a header meets that of the next event or something before  *)
(* it.                                                                     *)
LEMMA SearchRange ==
  ASSUME TypeOK, Placement, InLoop("header")
  PROVE  /\ done < Count
         /\ at < From(done + 1)
         /\ From(done + 1) < fill => From(done + 1) \in Starts
         /\ \A s \in Starts : IsFirst(s, Starts) => s <= From(done + 1)
<1>1. done < Count
  <2>1. done \in 0..Count /\ Count \in Nat
    BY SenderAssumption DEF Placement, Count, TypeOK
  <2>2. done # Count
    BY NoMore, Numbers DEF InLoop
  <2> QED
    BY <2>1, <2>2
<1> DEFINE F == From(done + 1)
<1>2. F \in Nat /\ at < F
  BY <1>1, NextEvent DEF Placement, InLoop
<1>3. ASSUME F < fill PROVE F \in Starts
  <2>1. F \in at + 1 .. fill - 1
    BY <1>2, <1>3, Numbers
  <2>2. IsLine(stream, F, To(done + 1))
    BY <1>1, NextEvent DEF Placement
  <2>3. stream[F] = "{" /\ stream[F + 1] = "quote"
    BY <2>2, Zenon DEF IsLine, IsObject
  <2> QED
    BY <2>1, <2>3, InStarts
<1>4. ASSUME NEW s \in Starts, IsFirst(s, Starts) PROVE s <= F
  <2>1. s \in at + 1 .. fill - 1
    BY InStarts
  <2>2. F \in Starts => s <= F
    BY <1>4 DEF IsFirst
  <2>3. F < fill \/ s <= F
    BY <1>2, <2>1, Numbers
  <2> QED
    BY <1>3, <2>2, <2>3
<1> QED
  BY <1>1, <1>2, <1>3, <1>4

(* A candidate is the next header, which parses, or it begins between the  *)
(* events: then the parser stops before the next header, and if it has met *)
(* a line, that is one of those the sender may leave there.                *)
LEMMA CandidateMeets ==
  ASSUME TypeOK, Placement,
         NEW s \in Starts, NEW e \in Ends(s), NEW p \in Breaks(s, e),
         Candidate(s, e, p)
  PROVE  \/ /\ s = From(done + 1) /\ e = To(done + 1)
            /\ Closes(s, p) /\ p + 1 = e
         \/ /\ End(stream, done) < s /\ s < From(done + 1)
            /\ p <= From(done + 1)
            /\ Closes(s, p) => p < From(done + 1)
            /\ Closes(s, p) /\ p + 1 = e =>
                 e < From(done + 1) /\ IsLine(stream, s, e)
<1> DEFINE F == From(done + 1)
           T == To(done + 1)
<1>1. /\ done < Count /\ s <= F /\ at < F
      /\ \A j \in Breaks(s, e) : p <= j
      /\ \A j \in Ends(s) : e <= j
  BY SearchRange DEF Candidate, IsFirst
<1>2. /\ F \in Nat /\ T \in Nat /\ F + 4 <= T
      /\ End(stream, done) \in Nat /\ End(stream, done) <= at
  BY <1>1, NextEvent, Numbers DEF Placement
<1>3. /\ s \in Int /\ e \in Int /\ p \in Int
      /\ at < s /\ s < p /\ p <= e /\ e <= fill
      /\ fill \in Nat /\ at \in Nat
  BY CandidateRange, Numbers
<1>4. /\ stream[F] = "{" /\ stream[F + 1] = "quote" /\ stream[F + 2] \in Bodies
      /\ \A k \in F + 3 .. T - 1 - 1 : stream[k] = "x"
      /\ stream[T - 1] = "}" /\ stream[T] = "nl"
  <2>1. IsLine(stream, F, T)
    BY <1>1, NextEvent DEF Placement
  <2> QED
    BY <2>1, Zenon DEF IsLine, IsObject
<1>5. /\ stream[s] = "{" /\ stream[s + 1] = "quote"
      /\ stream[e - 1] = "}" /\ stream[e] = "nl"
  BY InStarts, InEnds, Zenon DEF LineEnd
<1>6. /\ "}" \notin Bodies /\ "{" \notin Bodies /\ "x" \notin Bodies
      /\ "quote" \notin Bodies
  BY DecoderAssumption DEF Structural
<1>7. CASE s = F
  <2>1. ASSUME NEW k \in F + 1 .. T - 2 PROVE stream[k] # "}"
    <3>1. CASE k = F + 1
      BY <1>4, <3>1
    <3>2. CASE k = F + 2
      BY <1>4, <1>6, <3>2
    <3>3. CASE k # F + 1 /\ k # F + 2
      <4>1. k \in F + 3 .. T - 1 - 1
        BY <1>2, <3>3
      <4>2. stream[k] = "x"
        BY <1>4, <4>1
      <4> QED
        BY <4>2
    <3> QED
      BY <3>1, <3>2, <3>3
  <2>2. e >= T
    <3>1. e - 1 # F
      BY <1>4, <1>5
    <3>2. e - 1 \notin F + 1 .. T - 2
      BY <1>5, <2>1
    <3> QED
      BY <1>2, <1>3, <1>7, <3>1, <3>2
  <2>3. T \in Ends(s)
    <3>1. T \in s + 1 .. fill
      BY <1>2, <1>3, <1>7, <2>2
    <3> QED
      BY <1>4, <3>1, InEnds DEF LineEnd
  <2>4. e = T
    BY <1>1, <1>2, <1>3, <2>2, <2>3
  <2>5. IsObject(stream, F, T - 1)
    BY <1>1, NextEvent DEF Placement, IsLine
  <2>6. T - 1 \in Int /\ T - 1 <= e
    BY <1>2, <2>4
  <2>7. p = T - 1 /\ Closes(s, p)
    BY <1>2, <1>3, <1>7, <2>5, <2>6, ObjectParses DEF Candidate
  <2>8. p + 1 = e
    BY <1>2, <2>4, <2>7
  <2> QED
    BY <1>7, <2>4, <2>7, <2>8
<1>8. CASE s < F
  <2>1. End(stream, done) < s
    BY <1>2, <1>3
  <2>2. ASSUME F <= e PROVE p <= F
    <3>1. F \in s + 1 .. e
      BY <1>2, <1>3, <1>8, <2>2
    <3>2. F \in Breaks(s, e)
      <4>1. stream[F] # "quote" /\ stream[F] \notin Bodies /\ stream[F] # "x"
        BY <1>4, <1>6
      <4> QED
        BY <1>3, <3>1, <4>1, InBreaks
    <3> QED
      BY <1>1, <3>2
  <2>3. p <= F
    BY <1>2, <1>3, <2>2
  <2>4. ASSUME Closes(s, p) PROVE p < F
    <3>1. stream[p] = "}"
      BY <2>4 DEF Closes
    <3>2. p # F
      BY <1>4, <3>1
    <3> QED
      BY <1>2, <1>3, <2>3, <3>2
  <2>5. ASSUME Closes(s, p), p + 1 = e PROVE e < F /\ IsLine(stream, s, e)
    <3>1. e < F
      <4>1. e # F
        BY <1>4, <1>5
      <4> QED
        BY <1>2, <1>3, <2>4, <2>5, <4>1
    <3>2. stream[s + 2] \in Bodies
      BY ParsedBody, <2>5
    <3>3. p # s + 2
      BY <2>5 DEF Closes
    <3>4. p # s + 1
      <4>1. stream[p] = "}"
        BY <2>5 DEF Closes
      <4> QED
        BY <1>5, <4>1
    <3>5. s + 3 <= e - 1 /\ p = e - 1
      <4>1. p + 1 = e
        BY <2>5
      <4> QED
        BY <1>3, <3>3, <3>4, <4>1
    <3>6. \A k \in s + 3 .. e - 1 - 1 : stream[k] = "x"
      <4> SUFFICES ASSUME NEW k \in s + 3 .. e - 1 - 1 PROVE stream[k] = "x"
        OBVIOUS
      <4>1. k \in s + 1 .. e /\ ~(p <= k) /\ k # s + 1 /\ k # s + 2
        BY <1>3, <3>5
      <4>2. k \notin Breaks(s, e)
        BY <1>1, <4>1
      <4> QED
        BY <1>3, <4>1, <4>2, InBreaks
    <3>7. IsObject(stream, s, e - 1)
      BY <1>5, <3>2, <3>5, <3>6, Zenon DEF IsObject
    <3> QED
      BY <1>5, <3>1, <3>7 DEF IsLine
  <2> QED
    BY <1>8, <2>1, <2>3, <2>4, <2>5
<1> QED
  BY <1>1, <1>2, <1>3, <1>7, <1>8

-----------------------------------------------------------------------------
(* How a step keeps its place: it leaves the event to come alone, it goes  *)
(* past bytes between the events, or it goes past the end of the event.    *)
LEMMA SamePlace ==
  ASSUME TypeOK, Placement,
         UNCHANGED <<stream, done, state, wip, received, at>>,
         base' \in Int, base <= base'
  PROVE  Placement'
<1>1. End(stream, done) <= base'
  <2>1. /\ stream \in Streams /\ done \in 0..Count /\ End(stream, done) <= base
    BY DEF Placement, TypeOK
  <2> QED
    BY <2>1, EndInNat, Numbers
<1> QED
  BY <1>1 DEF Placement, Count, From, To, Body, Data, Load

LEMMA Between ==
  ASSUME TypeOK, Placement, UNCHANGED <<stream, done>>, state' = "header",
         base' \in Int, base <= base',
         done < Count => at' < From(done + 1)
  PROVE  Placement'
<1>1. End(stream, done) <= base'
  <2>1. /\ stream \in Streams /\ done \in 0..Count /\ End(stream, done) <= base
    BY DEF Placement, TypeOK
  <2> QED
    BY <2>1, EndInNat, Numbers
<1> QED
  BY <1>1 DEF Placement, Count, From, To, Body, Data, Load

LEMMA Within ==
  ASSUME TypeOK, Placement, done < Count, UNCHANGED <<stream, done>>,
         base' \in Int, base <= base',
         state' \in {"data", "payload"},
         wip' = [body |-> Body(done + 1), data_length |-> Data(done + 1),
                 payload_length |-> Load(done + 1)],
         state' = "data" => at' = To(done + 1),
         state' = "payload" => at' = To(done + 1) + Data(done + 1) + received'
  PROVE  Placement'
<1>1. End(stream, done) <= base'
  <2>1. /\ stream \in Streams /\ done \in 0..Count /\ End(stream, done) <= base
    BY DEF Placement, TypeOK
  <2> QED
    BY <2>1, EndInNat, Numbers
<1> QED
  BY <1>1 DEF Placement, Count, From, To, Body, Data, Load

LEMMA EventOver ==
  ASSUME TypeOK, Placement, done < Count,
         stream' = stream, done' = done + 1, state' = "header",
         at' = End(stream, done + 1), base' = at'
  PROVE  Placement'
<1>1. Count \in Nat /\ done \in Nat /\ done' \in 0..Count
  BY CountInNat DEF Placement
<1>2. End(stream, done') <= base'
  <2>1. End(stream, done') \in Nat
    BY <1>1, EndInNat DEF TypeOK
  <2> QED
    BY <2>1
<1>3. ASSUME done' < Count PROVE at' < From(done' + 1)
  <2>1. WellFormed(stream)
    BY SenderAssumption DEF TypeOK
  <2>2. done' + 1 \in 1..Count /\ done' + 1 - 1 = done'
    BY <1>1, <1>3
  <2>3. End(stream, done' + 1 - 1) < From(done' + 1)
    BY <2>1, <2>2 DEF WellFormed, Count, From
  <2> QED
    BY <2>2, <2>3
<1> QED
  BY <1>1, <1>2, <1>3 DEF Placement, Count, From, To, Body, Data, Load

-----------------------------------------------------------------------------
(* What the steps of the decoder do to the place, one lemma for each.      *)
Kept == Placement' /\ Unhurried' /\ RoomToRead'

(* A buffer takes more than the start of a header.                         *)
LEMMA HeaderFits ==
  ASSUME TypeOK, done \in 0..Count, done < Count
  PROVE  To(done + 1) - From(done + 1) + 2 <= BufferSize
<1>1. PICK i : i = done + 1
  OBVIOUS
<1>2. /\ End(stream, i - 1) \in Nat /\ End(stream, i - 1) < From(i)
      /\ From(i) \in Nat /\ IsLine(stream, From(i), To(i))
      /\ EndsInTime(stream, i)
  <2>1. done = i - 1
    BY <1>1, CountInNat
  <2> QED
    BY <1>1, <2>1, NextEvent
<1>3. From(i) \in End(stream, i - 1) + 1 .. From(i)
  BY <1>2
<1>4. stream[From(i)] = "{" /\ stream[From(i) + 1] = "quote"
  BY <1>2, Zenon DEF IsLine, IsObject
<1>5. \/ To(i) - From(i) + 2 <= BufferSize
      \/ \E e \in From(i) + 1 .. From(i) - 1 : LineEnd(e)
  BY <1>2, <1>3, <1>4, InTime, Zenon
<1>6. From(i) + 1 .. From(i) - 1 = {}
  BY <1>2
<1> QED
  BY <1>1, <1>5, <1>6, Zenon

LEMMA HeaderShortKeeps ==
  ASSUME SInv, HeaderShort
  PROVE  Kept
<1>0. TypeOK /\ Placement /\ Unhurried
  BY DEF SInv, IInv
<1>1. /\ at + 1 = fill /\ at' = base /\ base' = base /\ pc' = "read"
      /\ UNCHANGED <<stream, fill, done>>
      /\ pc = "next" /\ state = "header" /\ state' = "header"
      /\ InLoop("header")
  BY DEF HeaderShort, InLoop, ReturnZero, event
<1>2. done < Count /\ at < From(done + 1) /\ done \in 0..Count
  BY <1>0, <1>1, SearchRange DEF Placement
<1>3. /\ From(done + 1) \in Nat /\ To(done + 1) \in Nat
      /\ From(done + 1) + 4 <= To(done + 1)
      /\ To(done + 1) - From(done + 1) + 2 <= BufferSize
  BY <1>0, <1>2, NextEvent, HeaderFits
<1>4. /\ fill \in Nat /\ base \in Nat /\ at \in Nat /\ base <= at
      /\ BufferSize \in Nat
  BY <1>0, Numbers
<1>5. Placement'
  <2>1. at' < From(done + 1) /\ base' \in Int /\ base <= base'
    BY <1>1, <1>2, <1>3, <1>4
  <2> QED
    BY <1>0, <1>1, <2>1, Between
<1>6. fill - base < BufferSize
  <2>1. CASE at = base
    BY <1>1, <1>3, <1>4, <2>1
  <2>2. CASE at # base
    <3>1. at + 2 .. fill = {}
      BY <1>1, <1>4
    <3>2. base < at /\ at < fill
      BY <1>1, <1>4, <2>2
    <3>3. To(done + 1) - base <= BufferSize
      BY <1>0, <1>1, <3>1, <3>2, Zenon DEF Unhurried
    <3>4. fill < To(done + 1)
      BY <1>1, <1>2, <1>3, <1>4
    <3> QED
      BY <1>3, <1>4, <3>3, <3>4
  <2> QED
    BY <2>1, <2>2
<1>7. BufferSize - (fill - base) > 0
  BY <1>4, <1>6
<1> QED
  BY <1>1, <1>5, <1>7 DEF Kept, Unhurried, RoomToRead, Capacity

LEMMA HeaderNoStartKeeps ==
  ASSUME SInv, HeaderNoStart
  PROVE  Kept
<1> DEFINE F == From(done + 1)
<1>0. TypeOK /\ Placement
  BY DEF SInv, IInv
<1>1. /\ at + 1 < fill /\ base' = at' /\ pc' = "read"
      /\ UNCHANGED <<stream, fill, done>> /\ state' = "header"
      /\ InLoop("header")
  BY DEF HeaderNoStart, InLoop, Compact, event
<1>2. at' = (IF stream[fill] = "{" THEN fill - 1 ELSE fill) /\ Starts = {}
  BY DEF HeaderNoStart, Compact
<1>3. /\ done < Count /\ at < F /\ done \in 0..Count
      /\ F < fill => F \in Starts
  BY <1>0, <1>1, SearchRange DEF Placement
<1>4. /\ F \in Nat /\ To(done + 1) \in Nat /\ F + 4 <= To(done + 1)
      /\ To(done + 1) - F + 2 <= BufferSize
      /\ IsLine(stream, F, To(done + 1))
  BY <1>0, <1>3, NextEvent, HeaderFits
<1>5. /\ fill \in Nat /\ base \in Nat /\ at \in Nat /\ base <= at
      /\ BufferSize \in Nat
  BY <1>0, Numbers
<1>6. fill <= F
  <2>1. ~(F < fill)
    BY <1>2, <1>3
  <2> QED
    BY <1>4, <1>5, <2>1
<1>7. fill = F => at' = fill - 1
  <2>1. stream[F] = "{"
    BY <1>4, Zenon DEF IsLine, IsObject
  <2> QED
    BY <1>2, <2>1
<1>8. at' \in {fill - 1, fill}
  BY <1>2
<1>9. /\ at' < F /\ at' \in Int /\ base <= at'
      /\ BufferSize - (fill - at') > 0
  <2>1. at + 1 < fill /\ 6 <= BufferSize
    BY <1>1, <1>4, <1>5
  <2>2. CASE at' = fill - 1
    BY <1>4, <1>5, <1>6, <2>1, <2>2
  <2>3. CASE at' = fill /\ fill # F
    BY <1>4, <1>5, <1>6, <2>1, <2>3
  <2> QED
    BY <1>5, <1>7, <1>8, <2>2, <2>3
<1>10. Placement'
  BY <1>0, <1>1, <1>9, Between
<1> QED
  BY <1>1, <1>9, <1>10 DEF Kept, Unhurried, RoomToRead, Capacity

(* A header that has started and whose end is not in the buffer ends past  *)
(* it, the next one included.                                              *)
LEMMA EndAhead ==
  ASSUME TypeOK, NEW s \in Starts, Ends(s) = {}, NEW e \in Int, s < e, LineEnd(e)
  PROVE  fill < e
<1>1. e \notin s + 1 .. fill
  BY InEnds
<1>2. s \in at + 1 .. fill - 1
  BY InStarts
<1> QED
  BY <1>1, <1>2, Numbers

LEMMA HeaderNoEndKeeps ==
  ASSUME SInv, HeaderNoEnd
  PROVE  Kept
<1>0. TypeOK /\ Placement /\ Unhurried
  BY DEF SInv, IInv
<1>1. PICK s \in Starts :
        /\ IsFirst(s, Starts) /\ Ends(s) = {}
        /\ IF fill - s + 3 > BufferSize THEN Compact(fill)
           ELSE IF s # at + 1 THEN Compact(s - 1)
           ELSE ReturnZero
  BY DEF HeaderNoEnd
<1>2. /\ UNCHANGED <<stream, fill, done>> /\ state' = "header"
      /\ InLoop("header")
  BY DEF HeaderNoEnd, InLoop, event
<1>3. pc' = "read"
  BY <1>1 DEF Compact, ReturnZero
<1>4. PICK i : i = done + 1
  OBVIOUS
<1>5. /\ done < Count /\ at < From(i) /\ s <= From(i) /\ done \in 0..Count
  BY <1>0, <1>1, <1>2, <1>4, SearchRange DEF Placement
<1>6. /\ From(i) \in Nat /\ To(i) \in Nat /\ From(i) + 4 <= To(i)
      /\ End(stream, i - 1) \in Nat /\ End(stream, i - 1) <= base
      /\ IsLine(stream, From(i), To(i)) /\ EndsInTime(stream, i)
  <2>1. done = i - 1
    BY <1>0, <1>4, <1>5, CountInNat
  <2> QED
    BY <1>0, <1>4, <1>5, <2>1, NextEvent DEF Placement
<1>7. /\ fill \in Nat /\ base \in Nat /\ at \in Nat /\ base <= at
      /\ BufferSize \in Nat /\ BufferSize > 0
  BY <1>0, Numbers, DecoderAssumption
<1>8. s \in Int /\ at < s /\ s < fill
  <2>1. s \in at + 1 .. fill - 1
    BY InStarts
  <2> QED
    BY <1>7, <2>1
<1>9. fill < To(i)
  <2>1. LineEnd(To(i))
    BY <1>6, Zenon DEF IsLine, IsObject, LineEnd
  <2>2. s < To(i)
    BY <1>5, <1>6, <1>8
  <2> QED
    BY <1>0, <1>1, <1>6, <2>1, <2>2, EndAhead
<1>10. ASSUME fill - s + 3 > BufferSize PROVE fill < From(i)
  <2>1. \/ To(i) - s + 2 <= BufferSize
        \/ \E e \in s + 1 .. From(i) - 1 : LineEnd(e)
    <3>1. s \in End(stream, i - 1) + 1 .. From(i)
      BY <1>5, <1>6, <1>7, <1>8
    <3>2. stream[s] = "{" /\ stream[s + 1] = "quote"
      BY InStarts
    <3> QED
      BY <1>6, <3>1, <3>2, InTime, Zenon
  <2>2. ~(To(i) - s + 2 <= BufferSize)
    BY <1>6, <1>7, <1>8, <1>9, <1>10
  <2>3. PICK e \in s + 1 .. From(i) - 1 : LineEnd(e)
    BY <2>1, <2>2
  <2>4. e \in Int /\ s < e /\ e < From(i)
    BY <1>6, <1>8
  <2>5. fill < e
    BY <1>0, <1>1, <2>3, <2>4, EndAhead
  <2> QED
    BY <1>6, <1>7, <2>4, <2>5
<1>11. /\ base' \in Int /\ base <= base' /\ at' < From(i)
       /\ BufferSize - (fill - base') > 0
  <2>1. CASE fill - s + 3 > BufferSize
    <3>1. base' = fill /\ at' = fill
      BY <1>1, <2>1 DEF Compact
    <3> QED
      BY <1>7, <1>8, <1>10, <2>1, <3>1
  <2>2. CASE ~(fill - s + 3 > BufferSize) /\ s # at + 1
    <3>1. base' = s - 1 /\ at' = s - 1
      BY <1>1, <2>2 DEF Compact
    <3> QED
      BY <1>5, <1>6, <1>7, <1>8, <2>2, <3>1
  <2>3. CASE ~(fill - s + 3 > BufferSize) /\ s = at + 1
    <3>1. base' = base /\ at' = base
      BY <1>1, <2>3 DEF ReturnZero
    <3>2. fill - base < BufferSize
      <4>1. CASE at = base
        BY <1>7, <1>8, <2>3, <4>1
      <4>2. CASE at # base
        <5>1. ~ \E e \in at + 2 .. fill : LineEnd(e)
          <6> SUFFICES ASSUME NEW e \in at + 2 .. fill, LineEnd(e)
                       PROVE  FALSE
            OBVIOUS
          <6>1. e \in Int /\ s < e /\ e <= fill
            BY <1>7, <2>3
          <6>2. fill < e
            BY <1>0, <1>1, <6>1, EndAhead
          <6> QED
            BY <1>7, <6>1, <6>2
        <5>2. base < at /\ at < fill
          BY <1>7, <1>8, <4>2
        <5>3. To(i) - base <= BufferSize
          BY <1>0, <1>2, <1>4, <5>1, <5>2, Zenon DEF Unhurried, InLoop
        <5> QED
          BY <1>6, <1>7, <1>9, <5>3
      <4> QED
        BY <4>1, <4>2
    <3> QED
      BY <1>5, <1>6, <1>7, <3>1, <3>2
  <2> QED
    BY <2>1, <2>2, <2>3
<1>12. Placement'
  BY <1>0, <1>2, <1>4, <1>11, Between
<1> QED
  BY <1>2, <1>3, <1>11, <1>12 DEF Kept, Unhurried, RoomToRead, Capacity

(* The parser does not stop past the brace of the line it was given.       *)
LEMMA StopsInLine ==
  ASSUME TypeOK, NEW s \in Starts, NEW e \in Ends(s), NEW p \in Breaks(s, e),
         IsFirst(p, Breaks(s, e))
  PROVE  p <= e - 1
<1>1. /\ s \in Int /\ e \in Int /\ p \in Int
      /\ at < s /\ s < p /\ p <= e /\ e <= fill
  BY CandidateRange
<1>2. e - 1 # s
  <2>1. stream[s] = "{"
    BY InStarts
  <2>2. stream[e - 1] = "}"
    BY InEnds DEF LineEnd
  <2> QED
    BY <2>1, <2>2
<1>3. e - 1 \in s + 1 .. e
  BY <1>1, <1>2
<1>4. e - 1 \in Breaks(s, e)
  <2>1. stream[e - 1] # "quote" /\ stream[e - 1] \notin Bodies /\ stream[e - 1] # "x"
    <3>1. stream[e - 1] = "}"
      BY InEnds DEF LineEnd
    <3>2. "}" \notin Bodies
      BY DecoderAssumption DEF Structural
    <3> QED
      BY <3>1, <3>2
  <2> QED
    BY <1>1, <1>3, <2>1, InBreaks
<1> QED
  BY <1>4 DEF IsFirst

LEMMA HeaderUnparsedKeeps ==
  ASSUME SInv, HeaderUnparsed
  PROVE  Kept
<1>0. TypeOK /\ Placement
  BY DEF SInv, IInv
<1>1. PICK s, e, p :
        /\ s \in Starts /\ e \in Ends(s) /\ p \in Breaks(s, e)
        /\ Candidate(s, e, p)
        /\ ~(Closes(s, p) /\ p + 1 = e)
        /\ at' = IF Closes(s, p) THEN p ELSE p - 1
        /\ pc' = "next" /\ base' = base
  BY DEF HeaderUnparsed, Continue
<1>2. /\ UNCHANGED <<stream, fill, done>> /\ state' = "header"
      /\ InLoop("header")
  BY <1>1 DEF HeaderUnparsed, Candidate, InLoop, event
<1>3. /\ s \in Int /\ e \in Int /\ p \in Int
      /\ at < s /\ s < p /\ p <= e /\ e <= fill
  BY <1>0, <1>1, CandidateRange
<1>4. /\ fill \in Nat /\ base \in Nat /\ at \in Nat /\ base <= at
  BY <1>0, Numbers
<1>5. done < Count /\ done \in 0..Count
  BY <1>0, <1>2, SearchRange DEF Placement
<1>6. PICK i : i = done + 1
  OBVIOUS
<1>7. From(i) \in Nat
  BY <1>0, <1>5, <1>6, NextEvent
<1>8. p <= From(i) /\ (Closes(s, p) => p < From(i))
  BY <1>0, <1>1, <1>6, CandidateMeets
<1>9. at' < From(i)
  BY <1>1, <1>3, <1>7, <1>8
<1>10. Placement'
  BY <1>0, <1>1, <1>2, <1>4, <1>6, <1>9, Between
<1>11. e \in at' + 2 .. fill
  <2>1. p <= e - 1
    BY <1>0, <1>1, StopsInLine DEF Candidate
  <2>2. CASE Closes(s, p)
    <3>1. at' = p /\ p + 1 # e
      BY <1>1, <2>2
    <3> QED
      BY <1>3, <1>4, <2>1, <3>1
  <2>3. CASE ~Closes(s, p)
    <3>1. at' = p - 1
      BY <1>1, <2>3
    <3> QED
      BY <1>3, <1>4, <2>1, <3>1
  <2> QED
    BY <2>2, <2>3
<1>12. LineEnd(e)' /\ e \in at' + 2 .. fill'
  <2>1. LineEnd(e)
    BY <1>1, InEnds
  <2> QED
    BY <1>2, <1>11, <2>1 DEF LineEnd
<1>13. Unhurried'
  BY <1>12, Zenon DEF Unhurried
<1> QED
  BY <1>1, <1>10, <1>13 DEF Kept, RoomToRead

(* The lengths of the next header are taken for what they are.             *)
LEMMA NextAcceptable ==
  ASSUME TypeOK, done \in 0..Count, done < Count, NEW b, b = Body(done + 1),
         NEW d \in Word(Fields[b].data_length, BufferSize),
         NEW l \in Word(Fields[b].payload_length, MaxPayload)
  PROVE  d = Data(done + 1) /\ l = Load(done + 1) /\ Acceptable(Fields[b], d, l)
<1>1. /\ Fields[b].typed
      /\ Fields[b].data_length \in 0..BufferSize
      /\ Fields[b].payload_length \in 0..MaxPayload
  BY NextEvent DEF Data, Load
<1>2. /\ BufferSize \in Nat /\ MaxPayload \in Nat /\ Uint32 \in Nat
      /\ BufferSize < Uint32 /\ MaxPayload < Uint32
  BY DecoderAssumption
<1>3. d = Fields[b].data_length /\ l = Fields[b].payload_length
  BY <1>1, <1>2 DEF Word
<1>4. Acceptable(Fields[b], d, l)
  BY <1>1, <1>2, <1>3 DEF Acceptable, Negative
<1> QED
  BY <1>3, <1>4 DEF Data, Load

LEMMA HeaderRejectedKeeps ==
  ASSUME SInv, HeaderRejected
  PROVE  Kept
<1>0. TypeOK /\ Placement
  BY DEF SInv, IInv
<1>1. PICK s, e, p :
        /\ s \in Starts /\ e \in Ends(s) /\ p \in Breaks(s, e)
        /\ Candidate(s, e, p) /\ Closes(s, p) /\ p + 1 = e
        /\ \E d \in Word(Fields[stream[s + 2]].data_length, BufferSize),
              l \in Word(Fields[stream[s + 2]].payload_length, MaxPayload) :
             ~Acceptable(Fields[stream[s + 2]], d, l)
        /\ at' = e /\ pc' = "next" /\ base' = base
  BY DEF HeaderRejected, Continue
<1>2. /\ UNCHANGED <<stream, fill, done>> /\ state' = "header"
      /\ InLoop("header")
  BY <1>1 DEF HeaderRejected, Candidate, InLoop
<1>3. /\ fill \in Nat /\ base \in Nat /\ at \in Nat /\ base <= at
      /\ BufferSize \in Nat
  BY <1>0, Numbers
<1>4. /\ s \in Int /\ e \in Int /\ at < s /\ s < e
  BY <1>0, <1>1, CandidateRange
<1>5. done < Count /\ done \in 0..Count
  BY <1>0, <1>2, SearchRange DEF Placement
<1>6. PICK i : i = done + 1
  OBVIOUS
<1>7. /\ From(i) \in Nat /\ To(i) \in Nat /\ End(stream, i - 1) \in Nat
      /\ End(stream, i - 1) <= base
      /\ LinesRefused(stream, i) /\ stream[From(i) + 2] = Body(i)
  <2>1. done = i - 1
    BY <1>0, <1>5, <1>6, CountInNat
  <2> QED
    BY <1>0, <1>5, <1>6, <2>1, NextEvent DEF Placement
<1>8. s # From(i)
  <2> SUFFICES ASSUME s = From(i) PROVE FALSE
    OBVIOUS
  <2>1. stream[s + 2] = Body(done + 1)
    BY <1>6, <1>7
  <2> QED
    BY <1>0, <1>1, <1>5, <2>1, NextAcceptable
<1>9. /\ End(stream, i - 1) < s /\ s < From(i)
      /\ e < From(i) /\ IsLine(stream, s, e)
  <2>1. End(stream, i - 1) < s
    BY <1>3, <1>4, <1>7
  <2> QED
    BY <1>0, <1>1, <1>6, <1>8, <2>1, CandidateMeets
<1>10. Placement'
  BY <1>0, <1>1, <1>2, <1>3, <1>6, <1>9, Between
<1>11. To(i) - base <= BufferSize
  <2>1. /\ s \in End(stream, i - 1) + 1 .. From(i) - 1
        /\ e \in End(stream, i - 1) + 1 .. From(i) - 1
    BY <1>4, <1>7, <1>9
  <2>2. To(i) - End(stream, i - 1) <= BufferSize
    BY <1>7, <1>9, <2>1, Refused, Zenon
  <2> QED
    BY <1>3, <1>7, <2>2
<1>12. Unhurried'
  BY <1>1, <1>2, <1>5, <1>6, <1>11 DEF Unhurried, Count, To
<1> QED
  BY <1>1, <1>10, <1>12 DEF Kept, RoomToRead

(* A header that is accepted is the next one: its event is what the        *)
(* decoder is in then, or what has come out if it is over already.         *)
LEMMA AcceptedIsNext ==
  ASSUME SInv, HeaderAccepted
  PROVE  /\ done < Count /\ done \in 0..Count
         /\ wip' = [body |-> Body(done + 1), data_length |-> Data(done + 1),
                    payload_length |-> Load(done + 1)]
         /\ at' = To(done + 1)
         /\ UNCHANGED <<stream, fill, received>> /\ received = 0 /\ begin' = TRUE
         /\ \/ /\ Data(done + 1) > 0 /\ state' = "data"
               /\ pc' = "next" /\ UNCHANGED <<base, evt, done>>
            \/ /\ Data(done + 1) = 0 /\ Load(done + 1) > 0 /\ state' = "payload"
               /\ pc' = "next" /\ UNCHANGED <<base, evt, done>>
            \/ /\ Data(done + 1) = 0 /\ Load(done + 1) = 0 /\ state' = "header"
               /\ base' = at' /\ pc' = "handle" /\ done' = done + 1
               /\ evt' = [body |-> Body(done + 1), offset |-> 0, size |-> 0,
                          begin |-> TRUE, end |-> TRUE]
<1>0. TypeOK /\ Placement /\ PayloadAccounted
  BY DEF SInv, IInv, Progress
<1>1. PICK s, e, p, d, l :
        /\ s \in Starts /\ e \in Ends(s) /\ p \in Breaks(s, e)
        /\ d \in Word(Fields[stream[s + 2]].data_length, BufferSize)
        /\ l \in Word(Fields[stream[s + 2]].payload_length, MaxPayload)
        /\ Candidate(s, e, p) /\ Closes(s, p) /\ p + 1 = e
        /\ Acceptable(Fields[stream[s + 2]], d, l)
        /\ wip' = [body |-> stream[s + 2], data_length |-> d,
                   payload_length |-> l]
        /\ state' = CASE d > 0 -> "data"
                      [] d = 0 /\ l > 0 -> "payload"
                      [] OTHER -> "header"
        /\ IF d > 0 \/ l > 0
             THEN Continue(e) /\ UNCHANGED <<evt, done>>
             ELSE Emit(e, wip', 0, 0, TRUE, TRUE)
  BY DEF HeaderAccepted
<1>2. /\ UNCHANGED <<stream, fill, received>> /\ received = 0 /\ begin' = TRUE
      /\ InLoop("header")
  BY <1>0, <1>1 DEF HeaderAccepted, Candidate, InLoop, PayloadAccounted
<1>3. done < Count /\ done \in 0..Count
  BY <1>0, <1>2, SearchRange DEF Placement
<1>4. PICK i : i = done + 1
  OBVIOUS
<1>5. /\ From(i) \in Nat /\ To(i) \in Nat /\ End(stream, i - 1) \in Nat
      /\ End(stream, i - 1) <= base
      /\ LinesRefused(stream, i) /\ stream[From(i) + 2] = Body(i)
      /\ Data(i) \in 0..BufferSize /\ Load(i) \in 0..MaxPayload
  <2>1. done = i - 1
    BY <1>0, <1>3, <1>4, CountInNat
  <2> QED
    BY <1>0, <1>3, <1>4, <2>1, NextEvent DEF Placement
<1>6. s = From(i) /\ e = To(i)
  <2>1. ASSUME End(stream, i - 1) < s, s < From(i), e < From(i), IsLine(stream, s, e)
        PROVE  FALSE
    <3>1. s \in Int /\ e \in Int /\ s < e
      BY <1>0, <1>1, CandidateRange
    <3>2. /\ s \in End(stream, i - 1) + 1 .. From(i) - 1
          /\ e \in End(stream, i - 1) + 1 .. From(i) - 1
      BY <1>5, <2>1, <3>1
    <3> QED
      BY <1>1, <1>5, <2>1, <3>2, Refused, Zenon
  <2>2. done = i - 1
    BY <1>0, <1>3, <1>4, CountInNat
  <2> QED
    BY <1>0, <1>1, <1>4, <2>1, <2>2, CandidateMeets
<1>7. stream[s + 2] = Body(i)
  BY <1>5, <1>6
<1>8. d = Data(i) /\ l = Load(i)
  BY <1>0, <1>1, <1>3, <1>4, <1>7, NextAcceptable
<1>9. /\ wip' = [body |-> Body(i), data_length |-> Data(i), payload_length |-> Load(i)]
      /\ wip'.body = Body(i)
  BY <1>1, <1>7, <1>8
<1>10. at' = To(i)
  BY <1>1, <1>6 DEF Continue, Emit
<1>11. \/ /\ Data(i) > 0 /\ state' = "data"
          /\ pc' = "next" /\ UNCHANGED <<base, evt, done>>
       \/ /\ Data(i) = 0 /\ Load(i) > 0 /\ state' = "payload"
          /\ pc' = "next" /\ UNCHANGED <<base, evt, done>>
       \/ /\ Data(i) = 0 /\ Load(i) = 0 /\ state' = "header"
          /\ base' = at' /\ pc' = "handle" /\ done' = done + 1
          /\ evt' = [body |-> Body(i), offset |-> 0, size |-> 0,
                     begin |-> TRUE, end |-> TRUE]
  <2>1. CASE d > 0
    BY <1>1, <1>8, <2>1 DEF Continue
  <2>2. CASE d = 0 /\ l > 0
    BY <1>1, <1>8, <2>2 DEF Continue
  <2>3. CASE d = 0 /\ l = 0
    BY <1>1, <1>8, <1>9, <2>3 DEF Emit
  <2> QED
    BY <1>5, <1>8, <2>1, <2>2, <2>3, DecoderAssumption
<1> QED
  BY <1>2, <1>3, <1>4, <1>9, <1>10, <1>11

LEMMA HeaderAcceptedKeeps ==
  ASSUME SInv, HeaderAccepted
  PROVE  Kept
<1>0. TypeOK /\ Placement
  BY DEF SInv, IInv
<1>1. PICK i : i = done + 1
  OBVIOUS
<1>2. /\ done < Count /\ done \in 0..Count /\ stream' = stream
      /\ wip' = [body |-> Body(i), data_length |-> Data(i), payload_length |-> Load(i)]
      /\ at' = To(i) /\ received' = 0
  BY <1>1, AcceptedIsNext
<1>3. /\ To(i) \in Nat
      /\ End(stream, i) = To(i) + Data(i) + Load(i)
  BY <1>0, <1>1, <1>2, NextEvent
<1>4. \/ state' = "data" /\ done' = done /\ base' = base /\ pc' = "next"
      \/ Data(i) = 0 /\ state' = "payload" /\ done' = done /\ base' = base /\ pc' = "next"
      \/ /\ Data(i) = 0 /\ Load(i) = 0 /\ state' = "header" /\ done' = done + 1
         /\ base' = at' /\ pc' = "handle"
  BY <1>1, AcceptedIsNext
<1>5. Placement'
  <2>1. CASE done' = done /\ state' \in {"data", "payload"} /\ base' = base
    <3>1. state' = "payload" => at' = To(i) + Data(i) + received'
      BY <1>2, <1>3, <1>4, <2>1
    <3>2. base' \in Int /\ base <= base'
      BY <1>0, <2>1, Numbers
    <3> QED
      BY <1>0, <1>1, <1>2, <2>1, <3>1, <3>2, Within
  <2>2. CASE done' = done + 1 /\ state' = "header" /\ base' = at'
    <3>1. at' = End(stream, i)
      BY <1>0, <1>2, <1>3, <1>4, <2>2
    <3> QED
      BY <1>0, <1>1, <1>2, <2>2, <3>1, EventOver
  <2> QED
    BY <1>4, <2>1, <2>2
<1> QED
  BY <1>4, <1>5 DEF Kept, Unhurried, RoomToRead

(* The data of the next event is the object its sender put there.          *)
LEMMA DataIsObject ==
  ASSUME SInv, InLoop("data")
  PROVE  /\ done < Count /\ done \in 0..Count /\ received = 0
         /\ wip = [body |-> Body(done + 1), data_length |-> Data(done + 1),
                   payload_length |-> Load(done + 1)]
         /\ wip.data_length = Data(done + 1) /\ wip.payload_length = Load(done + 1)
         /\ at = To(done + 1)
         /\ IsObject(stream, at + 1, at + wip.data_length)
<1>1. TypeOK /\ Placement /\ state = "data" /\ wip.data_length > 0 /\ received = 0
  BY DEF SInv, IInv, InLoop, Progress, PayloadAccounted
<1>2. /\ done < Count /\ done \in 0..Count /\ at = To(done + 1)
      /\ wip = [body |-> Body(done + 1), data_length |-> Data(done + 1),
                payload_length |-> Load(done + 1)]
  BY <1>1 DEF Placement
<1>3. wip.data_length = Data(done + 1) /\ wip.payload_length = Load(done + 1)
  BY <1>2
<1>4. IsObject(stream, at + 1, at + wip.data_length)
  BY <1>1, <1>2, <1>3, NextEvent
<1> QED
  BY <1>1, <1>2, <1>3, <1>4

LEMMA DataNeverRefused == SInv => ~DataRefused
<1> SUFFICES ASSUME SInv, DataRefused PROVE FALSE
  OBVIOUS
<1>1. /\ InLoop("data")
      /\ stream[at + 1] # "{" \/ stream[at + wip.data_length] # "}"
  BY DEF DataRefused
<1>2. IsObject(stream, at + 1, at + wip.data_length)
  BY <1>1, DataIsObject
<1> QED
  BY <1>1, <1>2, Zenon DEF IsObject

LEMMA DataAlwaysParsed == SInv => ~DataUnparsed
<1> SUFFICES ASSUME SInv, DataUnparsed PROVE FALSE
  OBVIOUS
<1> DEFINE e == at + wip.data_length
<1>1. PICK p : DataStops(p) /\ ~(Closes(at + 1, p) /\ p = e)
  BY DEF DataUnparsed
<1>2. InLoop("data") /\ IsFirst(p, Breaks(at + 1, e))
  BY <1>1 DEF DataStops
<1>3. IsObject(stream, at + 1, e)
  BY <1>2, DataIsObject
<1>4. at + 1 \in Int /\ e \in Int /\ e <= e
  BY Numbers DEF SInv, IInv
<1> QED
  BY <1>1, <1>2, <1>3, <1>4, ObjectParses

LEMMA DataShortKeeps ==
  ASSUME SInv, DataShort
  PROVE  Kept
<1>1. TypeOK /\ Placement
  BY DEF SInv, IInv
<1>2. /\ at' = at /\ base' = at /\ pc' = "read"
      /\ UNCHANGED <<stream, fill, done, state, wip, received>>
      /\ at + wip.data_length > fill
  BY DEF DataShort, Compact, event
<1>3. /\ fill \in Nat /\ at \in Nat /\ base \in Nat /\ base <= at
      /\ BufferSize \in Nat /\ wip.data_length \in 0..BufferSize
  BY <1>1, Numbers
<1>4. base' \in Int /\ base <= base' /\ BufferSize - (fill - base') > 0
  BY <1>2, <1>3
<1>5. Placement'
  BY <1>1, <1>2, <1>4, SamePlace
<1> QED
  BY <1>2, <1>4, <1>5 DEF Kept, Unhurried, RoomToRead, Capacity

(* What the end of the data leads to.                                      *)
LEMMA ParsedOutcome ==
  ASSUME SInv, DataParsed
  PROVE  /\ done < Count /\ done \in 0..Count /\ received = 0
         /\ UNCHANGED <<stream, fill, wip, received>> /\ begin' = TRUE
         /\ at' = To(done + 1) + Data(done + 1)
         /\ \/ /\ Load(done + 1) > 0 /\ state' = "payload" /\ pc' = "next"
               /\ UNCHANGED <<base, evt, done>>
            \/ /\ Load(done + 1) = 0 /\ state' = "header" /\ pc' = "handle"
               /\ base' = at' /\ done' = done + 1
               /\ evt' = [body |-> Body(done + 1), offset |-> 0, size |-> 0,
                          begin |-> TRUE, end |-> TRUE]
<1>1. InLoop("data") /\ UNCHANGED <<stream, fill, wip, received>> /\ begin' = TRUE
  BY DEF DataParsed, DataStops
<1>2. /\ done < Count /\ done \in 0..Count /\ received = 0
      /\ wip.body = Body(done + 1)
      /\ wip.data_length = Data(done + 1) /\ wip.payload_length = Load(done + 1)
      /\ at = To(done + 1)
  BY <1>1, DataIsObject
<1>3. wip.payload_length \in Nat
  BY Numbers DEF SInv, IInv
<1>4. at' = at + wip.data_length
  BY DEF DataParsed, Continue, Emit
<1>5. \/ /\ wip.payload_length > 0 /\ state' = "payload" /\ pc' = "next"
         /\ UNCHANGED <<base, evt, done>>
      \/ /\ ~(wip.payload_length > 0) /\ state' = "header" /\ pc' = "handle"
         /\ base' = at' /\ done' = done + 1
         /\ evt' = [body |-> wip.body, offset |-> 0, size |-> 0,
                    begin |-> TRUE, end |-> TRUE]
  BY DEF DataParsed, Continue, Emit
<1>6. wip.payload_length > 0 \/ wip.payload_length = 0
  BY <1>3
<1> QED
  BY <1>1, <1>2, <1>4, <1>5, <1>6

LEMMA DataParsedKeeps ==
  ASSUME SInv, DataParsed
  PROVE  Kept
<1>0. TypeOK /\ Placement
  BY DEF SInv, IInv
<1>1. PICK i : i = done + 1
  OBVIOUS
<1>2. /\ done < Count /\ done \in 0..Count /\ stream' = stream
      /\ wip' = [body |-> Body(i), data_length |-> Data(i), payload_length |-> Load(i)]
      /\ at' = To(i) + Data(i) /\ received' = 0
  BY <1>1, ParsedOutcome, DataIsObject DEF DataParsed, DataStops
<1>3. /\ To(i) \in Nat /\ Data(i) \in Nat
      /\ End(stream, i) = To(i) + Data(i) + Load(i)
  BY <1>0, <1>1, <1>2, NextEvent
<1>4. \/ state' = "payload" /\ done' = done /\ base' = base /\ pc' = "next"
      \/ /\ Load(i) = 0 /\ state' = "header" /\ done' = done + 1
         /\ base' = at' /\ pc' = "handle"
  BY <1>1, ParsedOutcome
<1>5. Placement'
  <2>1. CASE state' = "payload" /\ done' = done /\ base' = base
    <3>1. at' = To(i) + Data(i) + received'
      BY <1>2, <1>3
    <3>2. base' \in Int /\ base <= base'
      BY <1>0, <2>1, Numbers
    <3> QED
      BY <1>0, <1>1, <1>2, <2>1, <3>1, <3>2, Within
  <2>2. CASE Load(i) = 0 /\ state' = "header" /\ done' = done + 1 /\ base' = at'
    <3>1. at' = End(stream, i)
      BY <1>2, <1>3, <2>2
    <3> QED
      BY <1>0, <1>1, <1>2, <2>2, <3>1, EventOver
  <2> QED
    BY <1>4, <2>1, <2>2
<1> QED
  BY <1>4, <1>5 DEF Kept, Unhurried, RoomToRead

LEMMA PayloadKeeps ==
  ASSUME SInv, Payload
  PROVE  Kept
<1>0. IInv /\ TypeOK /\ Placement
  BY DEF SInv, IInv
<1>1. PICK i : i = done + 1
  OBVIOUS
<1>2. /\ done < Count /\ done \in 0..Count
      /\ wip = [body |-> Body(i), data_length |-> Data(i), payload_length |-> Load(i)]
      /\ at = To(i) + Data(i) + received
  BY <1>0, <1>1, PayloadOutcome DEF Placement
<1>3. wip.payload_length = Load(i)
  BY <1>2
<1>4. /\ stream' = stream /\ pc' = "handle" /\ base' = at'
      /\ at' = at + evt'.size
      /\ done' = IF evt'.end THEN done + 1 ELSE done
  BY DEF Payload, Emit
<1>5. /\ wip' = wip /\ evt'.size \in Nat \ {0}
      /\ \/ /\ received + evt'.size = wip.payload_length
            /\ evt'.end = TRUE /\ received' = 0 /\ state' = "header"
         \/ /\ evt'.end = FALSE /\ received' = received + evt'.size
            /\ state' = "payload"
  BY <1>0, PayloadOutcome
<1>6. /\ at \in Nat /\ base \in Nat /\ base <= at /\ received \in Nat
  BY <1>0, Numbers
<1>7. /\ To(i) \in Nat /\ Data(i) \in Nat
      /\ End(stream, i) = To(i) + Data(i) + Load(i)
  BY <1>0, <1>1, <1>2, NextEvent
<1>8. Placement'
  <2>1. CASE evt'.end = TRUE
    <3>1. received + evt'.size = Load(i) /\ state' = "header"
      BY <1>3, <1>5, <2>1
    <3>2. at' = End(stream, i)
      BY <1>2, <1>4, <1>5, <1>6, <1>7, <3>1
    <3>3. done' = done + 1
      BY <1>4, <2>1
    <3> QED
      BY <1>0, <1>1, <1>2, <1>4, <3>1, <3>2, <3>3, EventOver
  <2>2. CASE evt'.end = FALSE
    <3>1. received' = received + evt'.size /\ state' = "payload" /\ done' = done
      BY <1>4, <1>5, <2>2
    <3>2. at' = To(i) + Data(i) + received'
      BY <1>2, <1>4, <1>5, <1>6, <1>7, <3>1
    <3>3. base' \in Int /\ base <= base'
      BY <1>4, <1>5, <1>6
    <3> QED
      BY <1>0, <1>1, <1>2, <1>4, <1>5, <3>1, <3>2, <3>3, Within
  <2> QED
    BY <1>5, <2>1, <2>2
<1> QED
  BY <1>4, <1>8 DEF Kept, Unhurried, RoomToRead

(* The steps around the decoder leave the place alone, and a new           *)
(* connection starts before its first event.                               *)
LEMMA OthersKeep ==
  ASSUME SInv,
         \/ \E n \in 1..BufferSize : Read(n)
         \/ ReadNothing \/ PeerClose \/ Exhausted \/ Handle
         \/ UNCHANGED vars
  PROVE  Kept
<1>0. TypeOK /\ Placement /\ Unhurried /\ RoomToRead
  BY DEF SInv, IInv
<1>1. /\ fill \in Nat /\ at \in Nat /\ base \in Nat /\ base <= at
      /\ BufferSize \in Nat /\ BufferSize > 0
  BY <1>0, Numbers, DecoderAssumption
<1>2. pc # "next" => at = base
  BY DEF SInv, IInv, Window
<1>3. CASE \E n \in 1..BufferSize : Read(n)
  <2>1. /\ UNCHANGED <<stream, done, state, wip, received, base>>
        /\ at' = base /\ pc' = "next" /\ pc = "read"
    BY <1>3 DEF Read
  <2>2. at' = at /\ base' \in Int /\ base <= base' /\ at' = base'
    BY <1>1, <1>2, <2>1
  <2>3. Placement'
    BY <1>0, <2>1, <2>2, SamePlace
  <2>4. ~(base' < at')
    BY <1>1, <2>1
  <2> QED
    BY <2>1, <2>3, <2>4 DEF Kept, Unhurried, RoomToRead
<1>4. CASE ReadNothing \/ PeerClose
  <2>1. UNCHANGED <<stream, done, state, wip, received, base, at>> /\ pc' = "closed"
    BY <1>4 DEF ReadNothing, PeerClose, window, event
  <2>2. base' \in Int /\ base <= base'
    BY <1>1, <2>1
  <2>3. Placement'
    BY <1>0, <2>1, <2>2, SamePlace
  <2> QED
    BY <2>1, <2>3 DEF Kept, Unhurried, RoomToRead
<1>5. CASE Exhausted
  <2>1. /\ UNCHANGED <<stream, done, state, wip, received, fill>>
        /\ at' = at /\ base' = at /\ at = fill /\ pc' = "read"
    BY <1>5 DEF Exhausted, Compact, event
  <2>2. base' \in Int /\ base <= base' /\ BufferSize - (fill - base') > 0
    BY <1>1, <2>1
  <2>3. Placement'
    BY <1>0, <2>1, <2>2, SamePlace
  <2> QED
    BY <2>1, <2>2, <2>3 DEF Kept, Unhurried, RoomToRead, Capacity
<1>6. CASE Handle
  <2>1. /\ UNCHANGED <<stream, done, state, wip, received, base, at>>
        /\ pc = "handle" /\ pc' = "next"
    BY <1>6 DEF Handle, window
  <2>2. base' \in Int /\ base <= base' /\ ~(base' < at')
    BY <1>1, <1>2, <2>1
  <2>3. Placement'
    BY <1>0, <2>1, <2>2, SamePlace
  <2> QED
    BY <2>1, <2>2, <2>3 DEF Kept, Unhurried, RoomToRead
<1>7. CASE UNCHANGED vars
  <2>1. /\ UNCHANGED <<stream, done, state, wip, received, base, at, fill, pc>>
    BY <1>7 DEF vars, window, event
  <2>2. Placement'
    BY <1>0, <1>1, <2>1, SamePlace
  <2>3. Unhurried'
    BY <1>0, <2>1 DEF Unhurried, LineEnd, Count, To
  <2>4. RoomToRead'
    BY <1>0, <2>1 DEF RoomToRead, Capacity
  <2> QED
    BY <2>2, <2>3, <2>4 DEF Kept
<1> QED
  BY <1>3, <1>4, <1>5, <1>6, <1>7

LEMMA Start ==
  ASSUME NEW s \in Streams
  PROVE  /\ Len(Lines[s]) \in Nat /\ End(s, 0) = 0
         /\ 0 < Len(Lines[s]) => 0 < Lines[s][1].from
<1>1. WellFormed(s) /\ Lines[s] \in Seq([from : Nat, to : Nat])
  BY SenderAssumption
<1>2. Len(Lines[s]) \in Nat
  BY <1>1
<1>3. End(s, 0) = 0
  BY DEF End
<1>4. ASSUME 0 < Len(Lines[s]) PROVE 0 < Lines[s][1].from
  <2>1. 1 \in 1..Len(Lines[s]) /\ 1 - 1 = 0
    BY <1>2, <1>4
  <2>2. End(s, 1 - 1) < Lines[s][1].from
    BY <1>1, <2>1 DEF WellFormed
  <2> QED
    BY <1>3, <2>1, <2>2
<1> QED
  BY <1>2, <1>3, <1>4

LEMMA AcceptKeeps ==
  ASSUME SInv, Accept
  PROVE  Kept
<1>1. /\ stream' \in Streams /\ fill' = 0 /\ base' = 0 /\ at' = 0
      /\ pc' = "read" /\ state' = "header" /\ done' = 0
  BY DEF Accept
<1>2. /\ Len(Lines[stream']) \in Nat /\ End(stream', 0) = 0
      /\ 0 < Len(Lines[stream']) => 0 < Lines[stream'][1].from
  BY <1>1, Start
<1>3. Placement'
  <2>1. done' \in 0..Count' /\ Count' = Len(Lines[stream'])
    BY <1>1, <1>2 DEF Count
  <2>2. done' < Count' => at' < Lines[stream'][done' + 1].from
    BY <1>1, <1>2, <2>1
  <2>3. End(stream', done') <= base'
    BY <1>1, <1>2
  <2> QED
    BY <1>1, <2>1, <2>2, <2>3 DEF Placement, From
<1>4. BufferSize - (fill' - base') > 0
  BY <1>1, DecoderAssumption
<1> QED
  BY <1>1, <1>3, <1>4 DEF Kept, Unhurried, RoomToRead, Capacity

LEMMA InitSInv == Init => SInv
<1> SUFFICES ASSUME Init PROVE SInv
  OBVIOUS
<1>1. /\ stream \in Streams /\ fill = 0 /\ base = 0 /\ at = 0
      /\ pc = "read" /\ state = "header" /\ done = 0
  BY DEF Init
<1>2. /\ Len(Lines[stream]) \in Nat /\ End(stream, 0) = 0
      /\ 0 < Len(Lines[stream]) => 0 < Lines[stream][1].from
  BY <1>1, Start
<1>3. Placement
  <2>1. done \in 0..Count /\ Count = Len(Lines[stream])
    BY <1>1, <1>2 DEF Count
  <2>2. done < Count => at < Lines[stream][done + 1].from
    BY <1>1, <1>2, <2>1
  <2>3. End(stream, done) <= base
    BY <1>1, <1>2
  <2> QED
    BY <1>1, <2>1, <2>2, <2>3 DEF Placement, From
<1>4. BufferSize - (fill - base) > 0
  BY <1>1, DecoderAssumption
<1> QED
  BY <1>1, <1>3, <1>4, InitIInv DEF SInv, Unhurried, RoomToRead, Capacity

LEMMA SInvStep == SInv /\ [Next]_vars => SInv'
<1> SUFFICES ASSUME SInv, [Next]_vars PROVE SInv'
  OBVIOUS
<1>1. IInv'
  BY TypeStep, WindowStep, ProgressStep, FreedStep DEF IInv, SInv
<1>2. Kept
  <2>1. ~DataRefused /\ ~DataUnparsed
    BY DataNeverRefused, DataAlwaysParsed
  <2> QED
    BY <2>1, OthersKeep, AcceptKeeps, HeaderShortKeeps, HeaderNoStartKeeps,
       HeaderNoEndKeeps, HeaderUnparsedKeeps, HeaderRejectedKeeps,
       HeaderAcceptedKeeps, DataShortKeeps, DataParsedKeeps, PayloadKeeps
    DEF Next, Decoding
<1> QED
  BY <1>1, <1>2 DEF SInv, Kept

-----------------------------------------------------------------------------
(* On streams of whole events the decoder is where it should be.           *)
THEOREM Keeping == Spec => []SInv
BY InitSInv, SInvStep, PTL DEF Spec

(* Whenever a call is over there is room for more bytes: read() is never   *)
(* asked for none, and a peer that sends whole events is not cut off.      *)
THEOREM Roomy == Spec => []RoomToRead
<1>1. SInv => RoomToRead
  BY DEF SInv
<1> QED
  BY Keeping, <1>1, PTL

-----------------------------------------------------------------------------
(* Every step is one of the promise, or nothing it speaks of changes.      *)
LEMMA Delivers ==
  ASSUME TypeOK, done \in 0..Count, done < Count, stream' = stream,
         NEW i, i = done + 1, NEW size \in Nat,
         received + size <= Load(i), size = 0 => Load(i) = 0,
         evt' = [body |-> Body(i), offset |-> received, size |-> size,
                 begin |-> received = 0, end |-> received + size = Load(i)],
         done' = IF received + size = Load(i) THEN done + 1 ELSE done,
         received' = IF received + size = Load(i) THEN 0 ELSE received + size
  PROVE  Promise!Next
<1> DEFINE lens == [b \in Bodies |-> Fields[b].payload_length]
<1>1. /\ Len(Carried[stream]) = Count /\ Body(i) \in Bodies /\ Load(i) \in Nat
  BY NextEvent, SenderAssumption, DecoderAssumption DEF WellFormed, Count, TypeOK
<1>2. lens[Carried[stream][done + 1]] = Load(i)
  BY <1>1 DEF Load, Body
<1>3. Promise!Output(size)
  BY <1>2, Zenon DEF Promise!Output, Body
<1>4. size \in 0..Load(i)
  <2>1. received \in Nat
    BY Numbers
  <2> QED
    BY <1>1, <2>1
<1>5. done < Len(Carried[stream]) /\ size \in 0..lens[Carried[stream][done + 1]]
  BY <1>1, <1>2, <1>4
<1> QED
  BY <1>3, <1>5, Zenon DEF Promise!Next

LEMMA StepPromised == SInv /\ [Next]_vars => [Promise!Next]_(Promise!vars)
<1> SUFFICES ASSUME SInv, [Next]_vars PROVE [Promise!Next]_(Promise!vars)
  OBVIOUS
<1>0. IInv /\ TypeOK /\ Placement /\ PayloadAccounted /\ received \in Nat
  BY Numbers DEF SInv, IInv, Progress
<1> DEFINE Still == UNCHANGED <<stream, done, received, evt>>
<1>1. ASSUME Still PROVE UNCHANGED Promise!vars
  BY <1>1 DEF Promise!vars
<1>2. CASE (\E n \in 1..BufferSize : Read(n)) \/ ReadNothing \/ PeerClose \/ Handle
           \/ UNCHANGED vars
  BY <1>1, <1>2 DEF Read, ReadNothing, PeerClose, Handle, vars, window, event
<1>3. CASE Exhausted \/ HeaderShort \/ HeaderNoStart \/ HeaderNoEnd
           \/ HeaderUnparsed \/ HeaderRejected
  BY <1>1, <1>3 DEF Exhausted, HeaderShort, HeaderNoStart, HeaderNoEnd,
                    HeaderUnparsed, HeaderRejected, event
<1>4. CASE DataRefused \/ DataShort \/ DataUnparsed
  BY <1>1, <1>4 DEF DataRefused, DataShort, DataUnparsed, event
<1>5. CASE Accept
  <2>1. stream' \in Streams /\ done' = 0 /\ received' = 0 /\ evt' = NoOutput
    BY <1>5 DEF Accept
  <2>2. Promise!Connect
    BY <2>1 DEF Promise!Connect
  <2> QED
    BY <2>2 DEF Promise!Next
<1>6. CASE HeaderAccepted
  <2>1. PICK i : i = done + 1
    OBVIOUS
  <2>2. \/ Still
        \/ /\ Load(i) = 0 /\ stream' = stream /\ received = 0 /\ received' = 0
           /\ done' = done + 1 /\ done < Count /\ done \in 0..Count
           /\ evt' = [body |-> Body(i), offset |-> 0, size |-> 0,
                      begin |-> TRUE, end |-> TRUE]
    BY <1>6, <2>1, AcceptedIsNext
  <2>3. CASE ~Still
    <3>1. received + 0 = Load(i) /\ received + 0 <= Load(i) /\ 0 \in Nat
      BY <2>2, <2>3
    <3>2. evt' = [body |-> Body(i), offset |-> received, size |-> 0,
                  begin |-> received = 0, end |-> received + 0 = Load(i)]
      BY <2>2, <2>3, <3>1
    <3> QED
      BY <1>0, <2>1, <2>2, <2>3, <3>1, <3>2, Delivers
  <2> QED
    BY <1>1, <2>3
<1>7. CASE DataParsed
  <2>1. PICK i : i = done + 1
    OBVIOUS
  <2>2. \/ Still
        \/ /\ Load(i) = 0 /\ stream' = stream /\ received = 0 /\ received' = 0
           /\ done' = done + 1 /\ done < Count /\ done \in 0..Count
           /\ evt' = [body |-> Body(i), offset |-> 0, size |-> 0,
                      begin |-> TRUE, end |-> TRUE]
    BY <1>7, <2>1, ParsedOutcome
  <2>3. CASE ~Still
    <3>1. received + 0 = Load(i) /\ received + 0 <= Load(i) /\ 0 \in Nat
      BY <2>2, <2>3
    <3>2. evt' = [body |-> Body(i), offset |-> received, size |-> 0,
                  begin |-> received = 0, end |-> received + 0 = Load(i)]
      BY <2>2, <2>3, <3>1
    <3> QED
      BY <1>0, <2>1, <2>2, <2>3, <3>1, <3>2, Delivers
  <2> QED
    BY <1>1, <2>3
<1>8. CASE Payload
  <2>1. PICK i : i = done + 1
    OBVIOUS
  <2> DEFINE left == wip.payload_length - received
             size == IF left < fill - at THEN left ELSE fill - at
  <2>2. /\ size \in 1..BufferSize /\ received + size \in 1..wip.payload_length
        /\ InLoop("payload")
    BY <1>0, <1>8, ChunkSize DEF Payload, IInv, Window, PayloadAccounted
  <2>3. /\ stream' = stream
        /\ evt' = [body |-> wip.body, offset |-> received, size |-> size,
                   begin |-> (begin \/ received = 0),
                   end |-> received + size = wip.payload_length]
        /\ done' = IF received + size = wip.payload_length THEN done + 1 ELSE done
        /\ received' = IF received + size = wip.payload_length THEN 0
                       ELSE received + size
    BY <1>8 DEF Payload, Emit
  <2> HIDE DEF size
  <2>4. /\ done < Count /\ done \in 0..Count
        /\ wip.body = Body(i) /\ wip.payload_length = Load(i)
    BY <1>0, <2>1, <2>2 DEF Placement, InLoop
  <2>5. (begin \/ received = 0) = (received = 0)
    <3>1. received > 0 => begin = FALSE
      BY <2>2 DEF SInv, IInv, Progress, InLoop, TypeOK
    <3>2. received > 0 \/ received = 0
      BY <1>0
    <3> QED
      BY <3>1, <3>2
  <2>6. /\ size \in Nat /\ size # 0 /\ received + size <= Load(i)
    <3>1. BufferSize \in Nat /\ wip.payload_length \in Nat
      BY <1>0, Numbers
    <3> QED
      BY <2>2, <2>4, <3>1
  <2> QED
    BY <1>0, <2>1, <2>3, <2>4, <2>5, <2>6, Delivers
<1> QED
  BY <1>2, <1>3, <1>4, <1>5, <1>6, <1>7, <1>8 DEF Next, Decoding

LEMMA InitPromised == Init => Promise!Init
BY DEF Init, Promise!Init

(* The decoder implements EventStream: the events of every connection come *)
(* out in order, each once and whole, however read() cuts their bytes.     *)
THEOREM Implements == Spec => ImplementsEventStream
<1>1. Init => Promise!Init
  BY InitPromised
<1>2. SInv /\ [Next]_vars => [Promise!Next]_(Promise!vars)
  BY StepPromised
<1>3. Spec => Promise!Spec
  BY Keeping, <1>1, <1>2, PTL DEF Spec, Promise!Spec
<1> QED
  BY <1>3 DEF ImplementsEventStream

=============================================================================
