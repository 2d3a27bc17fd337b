----------------------------- MODULE EventStream -----------------------------
(***************************************************************************)
(* What the event decoder promises the rest of the satellite: the events   *)
(* a peer put on its connection come out in order, each exactly once, an   *)
(* event with a payload in contiguous chunks of which the first is marked  *)
(* BEGIN and the last END.  How the bytes arrive does not show.            *)
(***************************************************************************)
EXTENDS Integers, Sequences

CONSTANTS
  Messages,   (* what a peer may put on a connection: sequences of events  *)
  PayloadLen, (* payload length of each event                              *)
  NoOutput    (* before the first event of a connection                    *)

VARIABLES
  events,  (* the events of the present connection                         *)
  done,    (* how many of them have come out                               *)
  got,     (* payload bytes of the next one that have come out             *)
  out      (* the last output                                              *)

vars == <<events, done, got, out>>

Init ==
  /\ events \in Messages
  /\ done = 0 /\ got = 0 /\ out = NoOutput

(* A new connection: what was left of the old one is lost.                 *)
Connect ==
  /\ events' \in Messages
  /\ done' = 0 /\ got' = 0 /\ out' = NoOutput

Output(size) ==
  LET body == events[done + 1]
      end  == got + size = PayloadLen[body]
  IN  /\ got + size <= PayloadLen[body]
      /\ size = 0 => PayloadLen[body] = 0
      /\ out' = [body |-> body, offset |-> got, size |-> size,
                 begin |-> got = 0, end |-> end]
      /\ done' = IF end THEN done + 1 ELSE done
      /\ got' = IF end THEN 0 ELSE got + size
      /\ UNCHANGED events

Next ==
  \/ Connect
  \/ /\ done < Len(events)
     /\ \E size \in 0..PayloadLen[events[done + 1]] : Output(size)

Spec == Init /\ [][Next]_vars

=============================================================================
