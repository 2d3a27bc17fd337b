------------------------------ MODULE Connection ------------------------------
(***************************************************************************)
(* What the server and wsat_event_send promise the threads that send and   *)
(* the peer that listens.  There is one connection at a time.  A thread    *)
(* takes it, later its event has arrived or is lost, and no event arrives  *)
(* that nobody took the connection for.  The peer keeps its place in the   *)
(* stream of events, unless a thread that took an earlier connection       *)
(* writes to this one, or an event was lost on the way.                    *)
(***************************************************************************)

CONSTANTS
  Threads,  (* the threads that send                                       *)
  Events    (* what they may send                                          *)

VARIABLES
  link,     (* none: no connection; up; gone: the peer has closed it       *)
  taken,    (* per thread: none; held: the present connection; stale: an   *)
            (* earlier one                                                 *)
  heard,    (* while it is up, the events whose end the peer has received  *)
  lost,     (* and: one that was sent to it was lost                       *)
  clean     (* and: what it has received are whole events, one may go on   *)

vars == <<link, taken, heard, lost, clean>>

Init ==
  /\ link = "none" /\ taken = [t \in Threads |-> "none"]
  /\ heard = {} /\ lost = FALSE /\ clean = TRUE

(* The peer may have left before it is accepted.                           *)
Accept ==
  /\ link = "none"
  /\ link' \in {"up", "gone"}
  /\ UNCHANGED <<taken, heard, lost, clean>>

(* Nothing is known of what a peer that is gone has received.              *)
Forget == heard' = {} /\ lost' = FALSE /\ clean' = TRUE

PeerClose ==
  /\ link = "up"
  /\ link' = "gone"
  /\ Forget
  /\ UNCHANGED taken

(* Whoever has taken the connection is left with a stale descriptor.       *)
Disconnect ==
  /\ link # "none"
  /\ link' = "none"
  /\ taken' = [t \in Threads |-> IF taken[t] = "held" THEN "stale" ELSE taken[t]]
  /\ Forget

Take(t) ==
  /\ taken[t] = "none" /\ link # "none"
  /\ taken' = [taken EXCEPT ![t] = "held"]
  /\ UNCHANGED <<link, heard, lost, clean>>

(* What makes the peer lose its place: the end of an event it has not seen *)
(* the start of, a new event after one that broke off, or one whose header *)
(* does not say how long it is.                                            *)
MayTear(t) == taken[t] = "stale" \/ lost

Tear(t) ==
  /\ taken[t] # "none" /\ link = "up"
  /\ MayTear(t)
  /\ clean' = FALSE
  /\ UNCHANGED <<link, taken, heard, lost>>

Deliver(t, e) ==
  /\ taken[t] # "none" /\ link = "up"
  /\ heard' = heard \cup {e}
  /\ taken' = [taken EXCEPT ![t] = "none"]
  /\ clean' = clean \/ (MayTear(t) /\ clean' = FALSE)
  /\ UNCHANGED <<link, lost>>

(* The event is lost, but its bytes are still to come.                     *)
Spoil(t) ==
  /\ taken[t] # "none"
  /\ lost' = (lost \/ link = "up")
  /\ UNCHANGED <<link, taken, heard, clean>>

Lose(t) ==
  /\ taken[t] # "none"
  /\ taken' = [taken EXCEPT ![t] = "none"]
  /\ lost' = (lost \/ link = "up")
  /\ UNCHANGED <<link, heard, clean>>

Next ==
  \/ Accept \/ PeerClose \/ Disconnect
  \/ \E t \in Threads : Take(t) \/ Tear(t) \/ Spoil(t) \/ Lose(t)
  \/ \E t \in Threads, e \in Events : Deliver(t, e)

Spec == Init /\ [][Next]_vars

=============================================================================
