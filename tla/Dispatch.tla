------------------------------ MODULE Dispatch ------------------------------
(***************************************************************************)
(* The conversation with a peer: what comes out of the decoder             *)
(* (EventStream) is handled on the server thread by wsat_event_handle, the *)
(* mode and the default handlers (lib/satellite_event_handler.c), which    *)
(* answer the peer and drive the sound component; microphone threads send  *)
(* their chunks.  The sound component is the one of example/main.c: it     *)
(* writes each audio to a file.  A handler runs once per output, so once   *)
(* per chunk of an event with a payload.                                   *)
(***************************************************************************)
EXTENDS Integers, Sequences

CONSTANTS
  Bodies,     (* events a peer may send                                    *)
  Type,       (* the type of each                                          *)
  Data,       (* where its data is: after the header, in it, or nowhere    *)
  PayloadLen, (* the length of its payload                                 *)
  Messages,   (* what a peer may put on a connection: sequences of Bodies  *)
  NoOutput,   (* before the first event of a connection                    *)
  Lengths,    (* of the buffers given to wsat_mic_write_data               *)
  Width       (* 2^16: struct wsat_event's payload_length has 16 bits      *)

Types == {"describe", "ping", "run-satellite", "pause-satellite",
          "audio-start", "audio-chunk", "audio-stop", "error", "other"}

ASSUME DispatchAssumption ==
  /\ Type \in [Bodies -> Types]
  /\ Data \in [Bodies -> {"after", "header", "none"}]
  /\ PayloadLen \in [Bodies -> Nat]
  /\ Messages \subseteq Seq(Bodies)
  /\ Lengths \subseteq Nat /\ Width \in Nat \ {0}

VARIABLES
  events, done, got, out, (* the decoder's outputs: see EventStream        *)
  mode,    (* inst->mode->type                                             *)
  snd,     (* inst->snd is not NULL                                        *)
  answers, (* history: per event, the answers given or tried               *)
  played,  (* history: per event, the bytes the sound component was given  *)
  file,    (* snd_out_file: NULL ("none"; "failed" after fopen) or "open"  *)
  left,    (* history: the open file is of an earlier connection           *)
  spoilt,  (* history: fopen over an open file of the same connection      *)
  up,      (* the program has not crashed                                  *)
  chunk    (* history: the last microphone chunk as asked for and as sent  *)

Stream == INSTANCE EventStream

stream == <<events, done, got, out>>
inst   == <<mode, snd>>
sound  == <<file, left, spoilt, up>>
vars   == <<stream, inst, answers, played, sound, chunk>>

TypeOK ==
  /\ events \in Messages
  /\ done \in 0..Len(events) /\ got \in Nat
  /\ mode \in {"wake_stream", "always_stream"} /\ snd \in BOOLEAN
  /\ answers \in [1..Len(events) -> Nat]
  /\ played \in [1..Len(events) -> Seq(Nat)]
  /\ file \in {"none", "failed", "open"}
  /\ left \in BOOLEAN /\ spoilt \in BOOLEAN /\ up \in BOOLEAN
  /\ chunk \in [asked : Lengths \cup {0}, sent : 0..(Width - 1)]

(* wsat_run has chosen the mode; a first peer is connected.                *)
Init ==
  /\ Stream!Init
  /\ mode \in {"wake_stream", "always_stream"} /\ snd \in BOOLEAN
  /\ answers = [i \in 1..Len(events) |-> 0]
  /\ played = [i \in 1..Len(events) |-> <<>>]
  /\ file = "none" /\ left = FALSE /\ spoilt = FALSE /\ up = TRUE
  /\ chunk = [asked |-> 0, sent |-> 0]

-----------------------------------------------------------------------------
(* Plausible slips in the code, used to test the properties.               *)

(* wsat_event_handle also calls the default handler, which the mode called.*)
RepliesTwice(body) ==
  CASE Type[body] \in {"describe", "ping"} -> 2
    [] Type[body] = "run-satellite" /\ mode = "always_stream" -> 1
    [] OTHER -> 0

(* Only the output marked BEGIN is forwarded, or audio-stop is not, or     *)
(* audio-chunk falls through to the end of the audio.                      *)
ForwardedAtBegin(body, size) ==
  IF snd /\ Type[body] = "audio-chunk" /\ out'.begin THEN size ELSE 0

SndEndMissing == UNCHANGED sound

SndDataFallingThrough(size) ==
  /\ up' = (file = "open" \/ size = 0)
  /\ file' = "none" /\ left' = FALSE
  /\ UNCHANGED spoilt

(* The decoder is not reset for a new connection.                          *)
ReconnectWithoutReset ==
  /\ up
  /\ events' \in Messages
  /\ answers' = [i \in 1..Len(events') |-> 0]
  /\ played' = [i \in 1..Len(events') |-> <<>>]
  /\ left' = (file = "open") /\ spoilt' = FALSE
  /\ UNCHANGED <<done, got, out, inst, file, up, chunk>>

-----------------------------------------------------------------------------
(* The sound component of the example.                                     *)

SndStart ==
  /\ file' \in {"open", "failed"}
  /\ spoilt' = (spoilt \/ (file = "open" /\ ~left))
  /\ left' = FALSE
  /\ UNCHANGED up

(* fwrite on NULL ends the program, unless there is nothing to write.      *)
SndData(size) ==
  /\ up' = (file = "open" \/ size = 0)
  /\ UNCHANGED <<file, left, spoilt>>

SndEnd ==
  /\ file' = "none" /\ left' = FALSE
  /\ UNCHANGED <<spoilt, up>>

-----------------------------------------------------------------------------
(* The handlers.                                                           *)

(* How many answers a call of the mode's handler sends: info, pong or      *)
(* run-pipeline.                                                           *)
Replies(body) ==
  CASE Type[body] \in {"describe", "ping"} -> 1
    [] Type[body] = "run-satellite" /\ mode = "always_stream" -> 1
    [] OTHER -> 0

(* The bytes of a chunk that go to the sound component.                    *)
Forwarded(body, size) ==
  IF snd /\ Type[body] = "audio-chunk" THEN size ELSE 0

(* audio-start is forwarded when it has data after its header.             *)
Starts(body) == Type[body] = "audio-start" /\ Data[body] = "after"

Sound(body, size) ==
  \/ snd /\ Starts(body) /\ SndStart
  \/ snd /\ Type[body] = "audio-chunk" /\ SndData(size)
  \/ snd /\ Type[body] = "audio-stop" /\ SndEnd
  \/ /\ ~(snd /\ (Starts(body) \/ Type[body] \in {"audio-chunk", "audio-stop"}))
     /\ UNCHANGED sound

(* wsat_event_handle, with the next output of the decoder.                 *)
Handle(size) ==
  LET i == done + 1
      body == events[i]
  IN  /\ up /\ done < Len(events)
      /\ Stream!Output(size)
      /\ answers' = [answers EXCEPT ![i] = @ + Replies(body)]
      /\ played' = [played EXCEPT ![i] =
                      @ \o [k \in 1..Forwarded(body, size) |-> out'.offset + k - 1]]
      /\ Sound(body, size)
      /\ UNCHANGED <<inst, chunk>>

(* The connection ends anywhere, and another peer connects: neither the    *)
(* mode nor the sound component is told.                                   *)
Reconnect ==
  /\ up
  /\ Stream!Connect
  /\ answers' = [i \in 1..Len(events') |-> 0]
  /\ played' = [i \in 1..Len(events') |-> <<>>]
  /\ left' = (file = "open") /\ spoilt' = FALSE
  /\ UNCHANGED <<inst, file, up, chunk>>

(* wsat_audio_chunk_send, for a mode that streams: the length is cut to    *)
(* the 16 bits of payload_length, and so many bytes are announced and sent. *)
AudioChunkSend(length) ==
  /\ up
  /\ chunk' = [asked |-> length, sent |-> length % Width]
  /\ UNCHANGED <<stream, inst, answers, played, sound>>

Next ==
  \/ Reconnect
  \/ done < Len(events) /\ \E size \in 0..PayloadLen[events[done + 1]] : Handle(size)
  \/ \E length \in Lengths : AudioChunkSend(length)

Spec == Init /\ [][Next]_vars

-----------------------------------------------------------------------------
(* Safety.                                                                 *)

(* How much of the payload of event i has come out.                        *)
Came(i) ==
  IF i <= done THEN PayloadLen[events[i]] ELSE IF i = done + 1 THEN got ELSE 0

(* Every describe and ping, and in always-stream mode every run-satellite, *)
(* is answered exactly once; one with a payload is answered for each of    *)
(* its chunks, so at least once and at most once per byte.  Nothing else   *)
(* is answered.                                                            *)
RequestsAnswered ==
  \A i \in 1..Len(events) :
    /\ i <= done /\ Replies(events[i]) > 0 => answers[i] >= 1
    /\ answers[i] <= 1 \/ answers[i] <= Came(i)
    /\ answers[i] > 0 => Replies(events[i]) > 0

(* The sound component is given every byte of every audio-chunk that has   *)
(* come out, once and in order, in however many outputs it came.           *)
SoundGetsAudio ==
  up /\ snd => \A i \in 1..Len(events) :
    Type[events[i]] = "audio-chunk" => played[i] = [k \in 1..Came(i) |-> k - 1]

(* An audio is open before event i of a connection.                        *)
Talking(i) ==
  \E s \in 1..(i - 1) :
    /\ Starts(events[s])
    /\ \A k \in (s + 1)..(i - 1) : Type[events[k]] # "audio-stop"

(* A peer that brackets its chunks: each audio is begun with data after    *)
(* the header, has its chunks, and is ended before the next.               *)
Polite ==
  \A i \in 1..Len(events) :
    /\ Type[events[i]] = "audio-start" => Starts(events[i]) /\ ~Talking(i)
    /\ Type[events[i]] = "audio-chunk" => Talking(i)
    /\ Type[events[i]] \in {"audio-start", "audio-stop"} => PayloadLen[events[i]] = 0

(* Such a peer never makes the example write to a file that it does not    *)
(* have, whatever earlier connections left behind, unless fopen failed,    *)
(* which the example does not look at.                                     *)
WritesToAFile == Polite /\ ~up => file = "failed"

(* Nor is a file of its own lost without fclose: only an audio cut off by  *)
(* the end of its connection leaves one behind.                            *)
OwnFilesClosed == Polite => ~spoilt

(* A microphone buffer of any length is sent whole: the API takes 32 bits. *)
(* The length is copied to 16 bits, so the code does not keep this.        *)
ChunksWhole == chunk.sent = chunk.asked

=============================================================================
