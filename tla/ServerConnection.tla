--------------------------- MODULE ServerConnection ---------------------------
(***************************************************************************)
(* SatelliteServer implements Connection.  What a peer has received of     *)
(* whole events, and whose descriptor is from an earlier connection, the   *)
(* code nowhere records: history variables do, which follow each step and  *)
(* hinder none.                                                            *)
(***************************************************************************)
EXTENDS SatelliteServer

VARIABLES
  stale,  (* the threads inside wsat_event_send with a descriptor from     *)
          (* before the present connection                                 *)
  heard,  (* the threads whose event's end its peer received               *)
  lost,   (* an event was given up or spoilt while its peer was there      *)
  clean   (* every piece its peer received was the one it had to expect    *)

history == <<stale, heard, lost, clean>>

(* The present connection, to its peer.                                    *)
Link ==
  IF fd = None THEN "none"
  ELSE IF peer[fdtab[fd]] = "gone" THEN "gone" ELSE "up"

(* A thread that has taken a descriptor and not yet sent or given up.      *)
Inside(t) == spc[t] \in {"serialize", "lock", "check", "send"}

Taken(t) ==
  IF ~Inside(t) THEN "none" ELSE IF t \in stale THEN "stale" ELSE "held"

(* A piece reaches the peer; it should follow the sender's own last piece, *)
(* if the header has announced it, or a whole event.                       *)
Arrives(t)  == sent'[t] > sent[t] /\ sfd[t] = fd /\ Link = "up"
Expected(t) ==
  IF sent[t] = 0 THEN Between(fdtab[fd])
  ELSE last[fdtab[fd]] = [by |-> t, piece |-> sent[t]] /\ ~bare

GivesUp(t) == Inside(t) /\ ~Inside(t)' /\ sent'[t] # MsgLen
Spoils     == bare' /\ ~bare

(* Of a peer that is gone nothing is remembered, and a change of the       *)
(* descriptor leaves those inside behind.                                  *)
Remember ==
  /\ stale' = {t \in Threads : Inside(t)' /\ (t \in stale \/ fd' # fd)}
  /\ heard' = IF Link' = "up"
                THEN heard \cup {t \in Threads : Arrives(t) /\ sent'[t] = MsgLen}
                ELSE {}
  /\ lost' = (Link' = "up" /\ (lost \/ Spoils \/ \E t \in Threads : GivesUp(t)))
  /\ clean' = (Link' = "up" =>
                 clean /\ \A t \in Threads : Arrives(t) => Expected(t))

HInit == Init /\ stale = {} /\ heard = {} /\ lost = FALSE /\ clean = TRUE
HNext == Next /\ Remember
HSpec == HInit /\ [][HNext]_<<vars, history>>

-----------------------------------------------------------------------------
(* wsat_event_send and the server keep the promise that Streaming is built *)
(* on: only a thread that took the connection is heard, once each time;    *)
(* whoever took it before close() is stale, although its descriptor may be *)
(* good again; and the peer loses its place in the stream of events only   *)
(* through a stale thread, or after an event that was given up or spoilt.  *)
Promise == INSTANCE Connection
  WITH link <- Link, taken <- [t \in Threads |-> Taken(t)], Events <- Threads

ImplementsConnection == Promise!Spec

=============================================================================
