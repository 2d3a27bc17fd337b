--------------------------- MODULE MCEventDecoder ---------------------------
(***************************************************************************)
(* Pieces of streams for EventDecoder, and streams that break off, lie     *)
(* about their lengths or carry data that is no object.                    *)
(***************************************************************************)
EXTENDS EventDecoder

(* An object of one body byte, and the same as a header line.              *)
Object(b) == <<"{", "quote", b, "}">>
Line(b)   == Object(b) \o <<"nl">>

MCBodies == {"plain", "data", "payload", "full", "fake", "long", "huge",
             "minus", "nan", "wrap", "lost", "object"}

Shape(typed, d, p) == [typed |-> typed, data_length |-> d, payload_length |-> p]

(* object has no type; huge announces more data than the buffer can hold;  *)
(* wrap announces lengths that would be 5 and 3 if the cast kept the low   *)
(* bits.                                                                   *)
MCFields ==
  [b \in MCBodies |->
     CASE b \in {"plain", "fake"} -> Shape(TRUE, 0, 0)
       [] b = "data"    -> Shape(TRUE, 4, 0)
       [] b = "payload" -> Shape(TRUE, 0, 13)
       [] b = "full"    -> Shape(TRUE, 5, 3)
       [] b = "long"    -> Shape(TRUE, 6, 0)
       [] b = "huge"    -> Shape(TRUE, 13, 0)
       [] b = "minus"   -> Shape(TRUE, Negative, Negative)
       [] b = "nan"     -> Shape(TRUE, NotANumber, NotANumber)
       [] b = "wrap"    -> Shape(TRUE, Uint32 + 5, Uint32 + 3)
       [] b = "lost"    -> Shape(TRUE, 4, 14)
       [] b = "object"  -> Shape(FALSE, 0, 0)]

(* Well-formed events; the payloads look like headers.                     *)
Event(b) ==
  CASE b = "plain"   -> <<"{", "quote", "plain", "x", "}", "nl">>
    [] b = "data"    -> Line(b) \o Object("object")
    [] b = "payload" -> Line(b) \o Line("fake") \o Line("fake") \o <<"{", "quote", "x">>
    [] b = "full"    -> Line(b) \o <<"{", "quote", "object", "x", "}">>
                          \o <<"nl", "x", "{">>

GoodEvents == {"plain", "data", "payload", "full"}

(* A header without a type, to be skipped, and at once the next header     *)
(* (lib/satellite_event_decoder.c:517).                                    *)
SkipStreams == {Line("object") \o Event(b) : b \in GoodEvents}
SkipCarried ==
  [s \in SkipStreams |-> SelectSeq(s, LAMBDA b : b \in GoodEvents)]

(* A header as long as the buffer, its end included.                       *)
LimitStreams ==
  {<<"{", "quote", "plain", "x", "x", "x", "x", "x", "x", "x", "}", "nl">>}
LimitCarried == [s \in LimitStreams |-> <<"plain">>]

(* Streams a decoder should survive.                                       *)
BadPieces ==
  { Event("payload"), Event("full"),
    Line("data") \o <<"x", "x">>,                       (* no object       *)
    Line("data") \o <<"{", "quote", "x", "}">>,         (* does not parse  *)
    Line("full") \o <<"{", "quote", "object", "x", "x">>, (* does not end  *)
    Line("long") \o Object("object") \o <<"x", "}">>,   (* ends early      *)
    Line("huge") \o <<"{", "quote", "object", "x", "x", "x", "x", "x", "x">>,
    Line("minus") \o Object("object"),
    Line("nan"),
    Line("wrap") \o <<"{", "quote", "object", "x", "}">>,
    Line("lost") \o Object("object") \o <<"x", "x">> }

(* What comes after them: whole events, and a header in wait for its data. *)
Followers == {Event("payload"), Event("full"), Line("data") \o <<"{", "quote", "x", "}">>,
              Line("lost") \o Object("object") \o <<"x", "x">>}

BadStreams == {a \o b : a \in BadPieces, b \in Followers}
BadCarried == [s \in BadStreams |-> <<>>]

=============================================================================
