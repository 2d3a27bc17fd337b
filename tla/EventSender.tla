----------------------------- MODULE EventSender -----------------------------
(***************************************************************************)
(* What a sender of whole events puts on a connection, and what it may     *)
(* leave between them.  On such streams EventDecoder keeps the promise of  *)
(* EventStream; each condition on what lies between two events stands for  *)
(* a place where the decoder would otherwise lose the next one.            *)
(***************************************************************************)
EXTENDS EventDecoder

CONSTANT Lines (* per stream, the first and last byte of each header line  *)

(* Where event i ends: its data and its payload follow the header line.    *)
End(s, i) ==
  IF i = 0 THEN 0
  ELSE LET fields == Fields[Carried[s][i]]
       IN  Lines[s][i].to + fields.data_length + fields.payload_length

(* The bytes a..b are an object, or they are one on a line of its own.     *)
IsObject(s, a, b) ==
  /\ a + 3 <= b
  /\ s[a] = "{" /\ s[a + 1] = "quote" /\ s[a + 2] \in Bodies /\ s[b] = "}"
  /\ \A i \in a + 3 .. b - 1 : s[i] = "x"
IsLine(s, a, b) == IsObject(s, a, b - 1) /\ s[b] = "nl"

(* Event i is one the decoder takes.                                       *)
WholeEvent(s, i) ==
  LET line   == Lines[s][i]
      fields == Fields[Carried[s][i]]
  IN  /\ IsLine(s, line.from, line.to) /\ s[line.from + 2] = Carried[s][i]
      /\ fields.typed
      /\ fields.data_length \in 0..BufferSize
      /\ fields.payload_length \in 0..MaxPayload
      /\ fields.data_length > 0 =>
           IsObject(s, line.to + 1, line.to + fields.data_length)
      /\ End(s, i) <= Len(s)

(* Where an object starts, be it between the events or the header of event *)
(* i itself, an end of line is found before the buffer counts as full:     *)
(* the decoder does not scratch the start of event i with it.              *)
EndsInTime(s, i) ==
  \A a \in End(s, i - 1) + 1 .. Lines[s][i].from :
    s[a] = "{" /\ s[a + 1] = "quote" =>
      \/ Lines[s][i].to - a + 2 <= BufferSize
      \/ \E e \in a + 1 .. Lines[s][i].from - 1 : s[e - 1] = "}" /\ s[e] = "nl"

(* A line between the events is refused as a header, and it fits in the    *)
(* buffer together with the header after it: the decoder goes past a       *)
(* refused header without dropping it.                                     *)
LinesRefused(s, i) ==
  \A a, b \in End(s, i - 1) + 1 .. Lines[s][i].from - 1 :
    IsLine(s, a, b) =>
      /\ \A d \in Word(Fields[s[a + 2]].data_length, BufferSize),
            l \in Word(Fields[s[a + 2]].payload_length, MaxPayload) :
           ~Acceptable(Fields[s[a + 2]], d, l)
      /\ Lines[s][i].to - End(s, i - 1) <= BufferSize

WellFormed(s) ==
  /\ Len(Carried[s]) = Len(Lines[s])
  /\ \A i \in 1..Len(Lines[s]) :
       /\ End(s, i - 1) < Lines[s][i].from
       /\ WholeEvent(s, i) /\ EndsInTime(s, i) /\ LinesRefused(s, i)
  /\ End(s, Len(Lines[s])) = Len(s)

ASSUME SenderAssumption ==
  /\ Lines \in [Streams -> Seq([from : Nat, to : Nat])]
  /\ \A s \in Streams : WellFormed(s)

=============================================================================
