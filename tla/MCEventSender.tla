---------------------------- MODULE MCEventSender ----------------------------
(***************************************************************************)
(* Streams for EventDecoder that are well-formed in the sense of           *)
(* EventSender: every event shape behind every kind of junk that a sender  *)
(* may leave between events.                                               *)
(***************************************************************************)
EXTENDS EventSender, MCEventDecoder

(* What may stand between events: noise, half a header start, an object    *)
(* that breaks off, one that is no line, a header that announces too much  *)
(* data, and one without a type, with and without noise before the next.   *)
Junk == {<<>>, <<"x">>, <<"{">>, <<"{", "quote", "x">>, Object("object"),
         Line("huge"), Line("object"), Line("object") \o <<"x">>}

GoodStreams ==
  {Event(a) \o junk \o Event(b) \o Event("plain") :
     a \in {"data", "payload", "full"}, junk \in Junk, b \in {"plain", "full"}}
GoodCarried ==
  [s \in GoodStreams |-> SelectSeq(s, LAMBDA b : b \in GoodEvents)]

(* A header line has the name of its event as its third byte, and ends at  *)
(* the next end of a line.                                                 *)
GoodLines ==
  [s \in GoodStreams |->
     LET names == SelectSeq([i \in 1..Len(s) |-> i], LAMBDA i : s[i] \in GoodEvents)
     IN  [k \in 1..Len(names) |->
            [from |-> names[k] - 2,
             to |-> CHOOSE e \in names[k]..Len(s) :
                      s[e] = "nl" /\ \A j \in names[k]..(e - 1) : s[j] # "nl"]]]

=============================================================================
