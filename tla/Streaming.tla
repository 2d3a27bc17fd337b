------------------------------ MODULE Streaming ------------------------------
(***************************************************************************)
(* The two modes of the satellite (satellite_mode_always_stream.c and      *)
(* satellite_mode_wake_stream.c): when microphone audio is streamed to the *)
(* peer.  Three kinds of threads meet here: microphone threads call        *)
(* wsat_mic_write_data, wake-word threads call wsat_wake_detection, and    *)
(* the server thread handles the events of the peer.                       *)
(*                                                                         *)
(* A region under the mutex of the mode is one step.  What wsat_event_send *)
(* does to an event, and what the peer gets of it, is what Connection      *)
(* promises: its actions are the steps of the connection here.             *)
(***************************************************************************)
EXTENDS Naturals

CONSTANTS
  Mics,    (* threads calling wsat_mic_write_data                          *)
  Wakes,   (* threads calling wsat_wake_detection                          *)
  Server   (* the thread inside wsat_run                                   *)

ASSUME StreamingAssumption ==
  /\ Mics \cap Wakes = {}
  /\ Server \notin Mics \cup Wakes

Threads == Mics \cup Wakes \cup {Server}

VARIABLES
  mode,         (* inst->mode->type, chosen by wsat_run                    *)
  is_streaming, (* mode_inst->is_streaming                                 *)
  is_paused,    (* mode_inst->is_paused, wake-stream mode only             *)
  link, taken, heard, lost, clean,  (* the connection: see Connection      *)
  starting,     (* the server thread is handling run-satellite             *)
  sending,      (* the event each thread is sending, or none               *)
  open,         (* history: a stream was begun and not ended since         *)
  starter,      (* history: the threads that began it                      *)
  announced,    (* history: its run-pipeline was sent, or failed           *)
  late,         (* history: chunks each thread sent after it ended         *)
  fresh         (* history: nothing was going on when the connection was   *)
                (* accepted, and no event was refused since                *)

flags      == <<is_streaming, is_paused>>
connection == <<link, taken, heard, lost, clean>>
stream     == <<open, starter, announced>>
vars == <<mode, flags, connection, starting, sending, stream, late, fresh>>

Events == {"audio-chunk", "detection", "run-pipeline"}

Link == INSTANCE Connection

(* Which thread sends what.                                                *)
Sendable(t) ==
  CASE t \in Mics  -> {"audio-chunk"}
    [] t \in Wakes -> {"detection", "run-pipeline"}
    [] OTHER       -> {"run-pipeline"}

TypeOK ==
  /\ mode \in {"wake_stream", "always_stream"}
  /\ is_streaming \in BOOLEAN /\ is_paused \in BOOLEAN
  /\ link \in {"none", "up", "gone"}
  /\ taken \in [Threads -> {"none", "held", "stale"}]
  /\ heard \subseteq Events
  /\ lost \in BOOLEAN /\ clean \in BOOLEAN
  /\ starting \in BOOLEAN
  /\ sending \in [Threads -> Events \cup {"none"}]
  /\ \A t \in Threads : sending[t] \in Sendable(t) \cup {"none"}
  /\ open \in BOOLEAN
  /\ starter \subseteq Wakes \cup {Server}
  /\ announced \in BOOLEAN
  /\ late \in [Mics -> Nat]
  /\ fresh \in BOOLEAN

(* wsat_run has chosen the mode and initialised it.                        *)
Init ==
  /\ mode \in {"wake_stream", "always_stream"}
  /\ is_streaming = FALSE /\ is_paused = FALSE
  /\ Link!Init
  /\ starting = FALSE
  /\ sending = [t \in Threads |-> "none"]
  /\ open = FALSE /\ starter = {} /\ announced = FALSE
  /\ late = [m \in Mics |-> 0]
  /\ fresh = FALSE

Idle(t) == sending[t] = "none"

(* The flags a microphone thread reads.                                    *)
Streaming == is_streaming /\ ~is_paused

(* The server thread handles an event of the peer, which may have left.    *)
Handling == link # "none" /\ ~starting

(* What is remembered of a stream that ends.                               *)
EndStream ==
  /\ open' = FALSE /\ starter' = {} /\ announced' = FALSE
  /\ late' = [m \in Mics |-> 0]

-----------------------------------------------------------------------------
(* Plausible slips in the code, used to test the properties.               *)

(* A missing break: microphone data that is not streamed falls through to  *)
(* the wake word.                                                          *)
MicDataFallingThrough(m) ==
  /\ Idle(m)
  /\ Streaming \/ (mode = "wake_stream" /\ ~is_streaming /\ ~is_paused)
  /\ is_streaming' = TRUE /\ open' = TRUE
  /\ sending' = [sending EXCEPT ![m] =
                   IF Streaming THEN "audio-chunk" ELSE "detection"]
  /\ UNCHANGED <<mode, is_paused, connection, starting, starter, announced>>
  /\ UNCHANGED <<late, fresh>>

(* The wake word does not look at is_paused, or not at is_streaming.       *)
WakeDetectionWhilePaused(w) ==
  /\ mode = "wake_stream" /\ Idle(w)
  /\ ~is_streaming
  /\ is_streaming' = TRUE
  /\ sending' = [sending EXCEPT ![w] = "detection"]
  /\ open' = TRUE /\ starter' = starter \cup {w}
  /\ UNCHANGED <<mode, is_paused, connection, starting, announced, late, fresh>>

WakeDetectionWhileStreaming(w) ==
  /\ mode = "wake_stream" /\ Idle(w)
  /\ ~is_paused
  /\ is_streaming' = TRUE
  /\ sending' = [sending EXCEPT ![w] = "detection"]
  /\ open' = TRUE /\ starter' = starter \cup {w}
  /\ UNCHANGED <<mode, is_paused, connection, starting, announced, late, fresh>>

(* transcript and error leave the flag as it is.                           *)
EndOfSpeechStreamingOn ==
  /\ Handling /\ mode = "wake_stream"
  /\ EndStream
  /\ UNCHANGED <<mode, flags, connection, starting, sending, fresh>>

(* The wake word returns when its detection cannot be sent.                *)
RefuseGivingUp(t) ==
  /\ ~Idle(t) /\ taken[t] = "none"
  /\ sending' = [sending EXCEPT ![t] = "none"]
  /\ fresh' = FALSE
  /\ UNCHANGED <<mode, flags, connection, starting, stream, late>>

(* The flag is set before run-pipeline is sent.                            *)
RunSatelliteFlagFirst ==
  /\ Handling /\ mode = "always_stream"
  /\ is_streaming' = TRUE /\ open' = TRUE
  /\ starting' = TRUE
  /\ sending' = [sending EXCEPT ![Server] = "run-pipeline"]
  /\ starter' = starter \cup {Server}
  /\ UNCHANGED <<mode, is_paused, connection, announced, late, fresh>>

-----------------------------------------------------------------------------
(* The connection.                                                         *)

(* It is there from accept() on, a moment before it can be taken.          *)
Accept ==
  /\ Link!Accept
  /\ fresh' = (~is_streaming /\ \A t \in Threads : Idle(t))
  /\ UNCHANGED <<mode, flags, starting, sending, stream, late>>

PeerClose ==
  /\ Link!PeerClose
  /\ UNCHANGED <<mode, flags, starting, sending, stream, late, fresh>>

(* The server closes it between two events; the mode is not told.          *)
Disconnect ==
  /\ ~starting
  /\ Link!Disconnect
  /\ UNCHANGED <<mode, flags, starting, sending, stream, late, fresh>>

-----------------------------------------------------------------------------
(* wsat_event_send, by any thread.                                         *)

(* What a thread does after an event: run-pipeline follows detection.      *)
Finish(t) ==
  /\ sending' = [sending EXCEPT ![t] =
                   IF @ = "detection" THEN "run-pipeline" ELSE "none"]
  /\ announced' = (announced \/ (sending[t] = "run-pipeline" /\ t \in starter))
  /\ UNCHANGED <<mode, flags, starting, open, starter>>

Take(t) ==
  /\ ~Idle(t)
  /\ Link!Take(t)
  /\ UNCHANGED <<mode, flags, starting, sending, stream, late, fresh>>

(* Nobody is connected, or a stop is requested.                            *)
Refuse(t) ==
  /\ ~Idle(t) /\ taken[t] = "none"
  /\ fresh' = FALSE
  /\ Finish(t)
  /\ UNCHANGED <<connection, late>>

Tear(t) ==
  /\ Link!Tear(t)
  /\ UNCHANGED <<mode, flags, starting, sending, stream, late, fresh>>

Deliver(t) ==
  /\ Link!Deliver(t, sending[t])
  /\ late' = IF sending[t] = "audio-chunk" /\ ~open
               THEN [late EXCEPT ![t] = @ + 1] ELSE late
  /\ Finish(t)
  /\ UNCHANGED fresh

(* The length of its data is missing from the header.                      *)
Spoil(t) ==
  /\ Link!Spoil(t)
  /\ UNCHANGED <<mode, flags, starting, sending, stream, late, fresh>>

(* The peer is gone, memory or buffers run out, or a stop is requested.    *)
Lose(t) ==
  /\ Link!Lose(t)
  /\ Finish(t)
  /\ UNCHANGED <<late, fresh>>

-----------------------------------------------------------------------------
(* The modes: what starts and ends a stream.                               *)

(* WSAT_SYS_EVENT_MIC_DATA: the flags are read, and the chunk sent later.  *)
MicData(m) ==
  /\ Idle(m) /\ Streaming
  /\ sending' = [sending EXCEPT ![m] = "audio-chunk"]
  /\ UNCHANGED <<mode, flags, connection, starting, stream, late, fresh>>

(* WSAT_SYS_EVENT_WAKE_DETECTION: test and set, then two events.           *)
WakeDetection(w) ==
  /\ mode = "wake_stream" /\ Idle(w)
  /\ ~is_streaming /\ ~is_paused
  /\ is_streaming' = TRUE
  /\ sending' = [sending EXCEPT ![w] = "detection"]
  /\ open' = TRUE /\ starter' = starter \cup {w}
  /\ UNCHANGED <<mode, is_paused, connection, starting, announced, late, fresh>>

(* run-satellite, in always-stream mode: first the pipeline, ...           *)
RunSatellite ==
  /\ Handling /\ mode = "always_stream"
  /\ starting' = TRUE
  /\ sending' = [sending EXCEPT ![Server] = "run-pipeline"]
  /\ starter' = starter \cup {Server}
  /\ UNCHANGED <<mode, flags, connection, open, announced, late, fresh>>

(* ... then the flag.                                                      *)
StartStreaming ==
  /\ starting /\ Idle(Server)
  /\ starting' = FALSE
  /\ is_streaming' = TRUE /\ open' = TRUE
  /\ UNCHANGED <<mode, is_paused, connection, sending, starter, announced>>
  /\ UNCHANGED <<late, fresh>>

(* run-satellite, in wake-stream mode: wait for the wake word.             *)
Resume ==
  /\ Handling /\ mode = "wake_stream"
  /\ is_streaming' = FALSE /\ is_paused' = FALSE
  /\ EndStream
  /\ UNCHANGED <<mode, connection, starting, sending, fresh>>

PauseSatellite ==
  /\ Handling
  /\ is_streaming' = FALSE /\ is_paused' = (mode = "wake_stream")
  /\ EndStream
  /\ UNCHANGED <<mode, connection, starting, sending, fresh>>

(* transcript or error, in wake-stream mode.                               *)
EndOfSpeech ==
  /\ Handling /\ mode = "wake_stream"
  /\ is_streaming' = FALSE
  /\ EndStream
  /\ UNCHANGED <<mode, is_paused, connection, starting, sending, fresh>>

-----------------------------------------------------------------------------
Sending(t) ==
  \/ Take(t) \/ Refuse(t)
  \/ Spoil(t) \/ Tear(t) \/ Deliver(t) \/ Lose(t)

Next ==
  \/ Accept \/ PeerClose \/ Disconnect
  \/ \E t \in Threads : Sending(t)
  \/ \E m \in Mics : MicData(m)
  \/ \E w \in Wakes : WakeDetection(w)
  \/ RunSatellite \/ StartStreaming \/ Resume
  \/ PauseSatellite \/ EndOfSpeech

Spec == Init /\ [][Next]_vars

-----------------------------------------------------------------------------
(* Safety.                                                                 *)

(* A paused satellite never streams, whichever way a wake word, a pause    *)
(* and a resume meet: the wake word tests and sets under one lock.         *)
PausedIsSilent == ~(is_streaming /\ is_paused)

(* Once the handler of pause-satellite, transcript, error or (waiting for  *)
(* the wake word) run-satellite has ended a stream, a microphone thread    *)
(* that had already read the flags sends its chunk, and nothing after it.  *)
AtMostOneLateChunk == \A m \in Mics : late[m] <= 1

(* Wake words heard at the same time begin one stream, so that the peer    *)
(* gets one run-pipeline for it.                                           *)
OneStarter == \A s, t \in starter : s = t

(* Audio is only let through for a stream whose run-pipeline was tried to  *)
(* be sent or, in wake-stream mode, is about to be by the thread that      *)
(* began the stream.                                                       *)
AudioIsAnnounced ==
  is_streaming =>
    \/ announced
    \/ mode = "wake_stream" /\ \E t \in starter : ~Idle(t)

(* What a peer sees that connected while nothing was going on, as long as  *)
(* no event was lost: its stream of events is never torn, in wake-stream   *)
(* mode detection comes before run-pipeline, in always-stream mode         *)
(* run-pipeline comes before audio, and in wake-stream mode audio may only *)
(* overtake a run-pipeline that is on its way.                             *)
EventsInOrder ==
  fresh /\ ~lost /\ link = "up" =>
    /\ clean
    /\ mode = "wake_stream" /\ "run-pipeline" \in heard => "detection" \in heard
    /\ "audio-chunk" \in heard =>
         \/ "run-pipeline" \in heard
         \/ mode = "wake_stream" /\ \E w \in Wakes : ~Idle(w)

(* A stream ends with its connection: the next peer is not sent audio it   *)
(* did not ask for by run-satellite.  The modes clear their flags on       *)
(* WSAT_SYS_EVENT_SAT_DISCONNECT, which the public header declares and     *)
(* nothing raises, so the code does not keep this.                         *)
StreamEndsWithConnection ==
  [][link = "none" /\ link' # "none" /\ mode = "always_stream"
       => ~is_streaming]_vars

=============================================================================
