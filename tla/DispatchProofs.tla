---------------------------- MODULE DispatchProofs ----------------------------
(***************************************************************************)
(* Proofs about Dispatch, for any events and connections and both modes.   *)
(* The inductive invariant says how far the answers, the sound component   *)
(* and its file are with the event in progress.                            *)
(***************************************************************************)
EXTENDS Dispatch, TLAPS

(* The payload in progress is not finished.                                *)
Progress ==
  /\ done < Len(events) => got = 0 \/ got < PayloadLen[events[done + 1]]
  /\ done = Len(events) => got = 0

(* The events to come have no answers; the one in progress at most one for *)
(* each byte that came.                                                    *)
Answered ==
  /\ RequestsAnswered
  /\ \A i \in 1..Len(events) :
       i > done => answers[i] <= IF i = done + 1 THEN got ELSE 0

(* Between audio-start and audio-stop a bracketing peer has a file, or one *)
(* that could not be opened; a file of its own is open only then.          *)
Files ==
  /\ file = "open" => snd
  /\ Polite /\ up /\ snd /\ Talking(done + 1) => file # "none"
  /\ Polite /\ file = "open" /\ ~left => Talking(done + 1)
  /\ WritesToAFile
  /\ OwnFilesClosed

IInv == TypeOK /\ Progress /\ Answered /\ SoundGetsAudio /\ Files

-----------------------------------------------------------------------------
(* What an output of the decoder does to the place in the stream.          *)
LEMMA Place ==
  ASSUME TypeOK, Progress, NEW size \in Nat, Handle(size)
  PROVE  LET i == done + 1
             len == PayloadLen[events[i]]
         IN  /\ i \in 1..Len(events) /\ events[i] \in Bodies /\ len \in Nat
             /\ events' = events /\ got + size <= len
             /\ size = 0 => len = 0
             /\ \/ got + size = len /\ done' = i /\ got' = 0
                \/ got + size < len /\ done' = done /\ got' = got + size
             /\ out'.offset = got
<1>1. /\ done + 1 \in 1..Len(events) /\ done \in Nat /\ got \in Nat
      /\ events \in Seq(Bodies)
  BY DispatchAssumption DEF TypeOK, Handle
<1>2. events[done + 1] \in Bodies
  BY <1>1
<1>3. PayloadLen[events[done + 1]] \in Nat
  BY <1>2, DispatchAssumption
<1>4. /\ out'.offset = got /\ events' = events
      /\ got + size <= PayloadLen[events[done + 1]]
      /\ size = 0 => PayloadLen[events[done + 1]] = 0
      /\ done' = IF got + size = PayloadLen[events[done + 1]]
                   THEN done + 1 ELSE done
      /\ got' = IF got + size = PayloadLen[events[done + 1]]
                  THEN 0 ELSE got + size
  BY DEF Handle, Stream!Output
<1>5. \/ /\ got + size = PayloadLen[events[done + 1]]
         /\ done' = done + 1 /\ got' = 0
      \/ /\ got + size < PayloadLen[events[done + 1]]
         /\ done' = done /\ got' = got + size
  BY <1>1, <1>3, <1>4
<1>6. QED
  BY <1>1, <1>2, <1>3, <1>4, <1>5

(* The part of a payload that has come out moves on with the output.       *)
LEMMA CameNext ==
  ASSUME TypeOK, Progress, NEW size \in Nat, Handle(size),
         NEW j \in 1..Len(events)
  PROVE  /\ Came(j) \in Nat /\ Came(j)' \in Nat
         /\ j # done + 1 => Came(j)' = Came(j)
         /\ j = done + 1 => Came(j) = got /\ Came(j)' = got + size
<1> DEFINE i == done + 1
           len == PayloadLen[events[i]]
<1>1. /\ i \in 1..Len(events) /\ len \in Nat /\ events' = events
      /\ got + size <= len /\ got \in Nat /\ done \in Nat
      /\ \/ got + size = len /\ done' = i /\ got' = 0
         \/ got + size < len /\ done' = done /\ got' = got + size
  BY Place DEF TypeOK
<1>2. PayloadLen[events[j]] \in Nat
  BY DispatchAssumption DEF TypeOK
<1>3. QED
  BY <1>1, <1>2 DEF Came

-----------------------------------------------------------------------------
(* The bytes of a chunk, numbered, after those that came before.           *)
LEMMA Numbered ==
  ASSUME NEW s \in Seq(Nat), NEW m \in Nat, NEW n \in Nat
  PROVE  s \o [k \in 1..n |-> m + k - 1] \in Seq(Nat)
<1>1. \A k \in 1..n : m + k - 1 \in Nat
  OBVIOUS
<1>2. [k \in 1..n |-> m + k - 1] \in Seq(Nat)
  BY <1>1
<1>3. QED
  BY <1>2

(* Each part of the invariant is preserved by an output.                   *)
LEMMA HandleTypeOK ==
  ASSUME TypeOK, Progress, NEW size \in Nat, Handle(size)
  PROVE  TypeOK' /\ Progress'
<1> DEFINE i == done + 1
           body == events[i]
<1>1. /\ i \in 1..Len(events) /\ body \in Bodies /\ PayloadLen[body] \in Nat
      /\ events' = events /\ got + size <= PayloadLen[body]
      /\ \/ got + size = PayloadLen[body] /\ done' = i /\ got' = 0
         \/ got + size < PayloadLen[body] /\ done' = done /\ got' = got + size
      /\ out'.offset = got
  BY Place
<1>2. answers' \in [1..Len(events) -> Nat]
  <2>1. Replies(body) \in Nat
    BY DEF Replies
  <2>2. QED
    BY <1>1, <2>1 DEF TypeOK, Handle
<1>3. played' \in [1..Len(events) -> Seq(Nat)]
  <2>1. Forwarded(body, size) \in Nat
    BY DEF Forwarded
  <2>2. played[i] \in Seq(Nat) /\ got \in Nat
    BY <1>1 DEF TypeOK
  <2>3. played[i] \o [k \in 1..Forwarded(body, size) |-> got + k - 1] \in Seq(Nat)
    BY <2>1, <2>2, Numbered
  <2>4. played' = [played EXCEPT ![i] =
          @ \o [k \in 1..Forwarded(body, size) |-> got + k - 1]]
    BY <1>1 DEF Handle
  <2>5. QED
    BY <2>3, <2>4 DEF TypeOK
<1>4. /\ file' \in {"none", "failed", "open"} /\ left' \in BOOLEAN
      /\ spoilt' \in BOOLEAN /\ up' \in BOOLEAN
  BY DEF TypeOK, Handle, Sound, SndStart, SndData, SndEnd, sound
<1>5. TypeOK'
  BY <1>1, <1>2, <1>3, <1>4 DEF TypeOK, Handle, inst
<1>6. Progress'
  BY <1>1, <1>5, DispatchAssumption DEF TypeOK, Progress
<1>7. QED
  BY <1>5, <1>6

LEMMA HandleAnswered ==
  ASSUME TypeOK, Progress, Answered, NEW size \in Nat, Handle(size)
  PROVE  Answered'
<1> DEFINE i == done + 1
           body == events[i]
<1>1. /\ i \in 1..Len(events) /\ body \in Bodies /\ PayloadLen[body] \in Nat
      /\ events' = events /\ got + size <= PayloadLen[body]
      /\ size = 0 => PayloadLen[body] = 0
      /\ \/ got + size = PayloadLen[body] /\ done' = i /\ got' = 0
         \/ got + size < PayloadLen[body] /\ done' = done /\ got' = got + size
  BY Place
<1>2. /\ answers \in [1..Len(events) -> Nat] /\ got \in Nat /\ done \in Nat
      /\ answers' = [answers EXCEPT ![i] = @ + Replies(body)]
      /\ mode' = mode
  BY DEF TypeOK, Handle, inst
<1>3. Replies(body) \in {0, 1}
  BY DEF Replies
<1>4. answers[i] <= got
  BY <1>1, <1>2 DEF Answered
<1>5. \A j \in 1..Len(events) : Replies(events[j])' = Replies(events[j])
  BY <1>1, <1>2 DEF Replies
<1>6. ASSUME NEW j \in 1..Len(events)
      PROVE  /\ j <= done' /\ Replies(events[j])' > 0 => answers'[j] >= 1
             /\ answers'[j] <= 1 \/ answers'[j] <= Came(j)'
             /\ answers'[j] > 0 => Replies(events[j])' > 0
             /\ j > done' => answers'[j] <= IF j = done' + 1 THEN got' ELSE 0
  <2>1. /\ Came(j) \in Nat /\ Came(j)' \in Nat
        /\ j # i => Came(j)' = Came(j)
        /\ j = i => Came(j) = got /\ Came(j)' = got + size
    BY CameNext
  <2>2. /\ j <= done /\ Replies(events[j]) > 0 => answers[j] >= 1
        /\ answers[j] <= 1 \/ answers[j] <= Came(j)
        /\ answers[j] > 0 => Replies(events[j]) > 0
        /\ j > done => answers[j] <= IF j = done + 1 THEN got ELSE 0
    BY DEF Answered, RequestsAnswered
  <2>3. CASE j # i
    BY <1>1, <1>2, <1>5, <2>1, <2>2, <2>3
  <2>4. CASE j = i
    <3>1. answers'[j] = answers[i] + Replies(body)
      BY <1>1, <1>2, <2>4
    <3>2. answers[i] + Replies(body) <= IF size = 0 THEN 1 ELSE got + size
      BY <1>1, <1>2, <1>3, <1>4
    <3>3. answers[i] > 0 => Replies(body) > 0
      BY <2>2, <2>4
    <3>4. QED
      BY <1>1, <1>2, <1>3, <1>5, <2>1, <2>4, <3>1, <3>2, <3>3
  <2>5. QED
    BY <2>3, <2>4
<1>7. QED
  BY <1>1, <1>6 DEF Answered, RequestsAnswered

(* Bytes that continue a sequence of numbered bytes.                       *)
LEMMA Continue ==
  ASSUME NEW m \in Nat, NEW n \in Nat
  PROVE  [k \in 1..m |-> k - 1] \o [k \in 1..n |-> m + k - 1]
           = [k \in 1..(m + n) |-> k - 1]
<1> DEFINE s == [k \in 1..m |-> k - 1]
           t == [k \in 1..n |-> m + k - 1]
           u == [k \in 1..(m + n) |-> k - 1]
<1>1. s \in Seq(Int) /\ Len(s) = m
  OBVIOUS
<1>2. t \in Seq(Int) /\ Len(t) = n
  OBVIOUS
<1>3. u \in Seq(Int) /\ Len(u) = m + n
  OBVIOUS
<1>4. s \o t \in Seq(Int) /\ Len(s \o t) = m + n
  BY <1>1, <1>2
<1>5. ASSUME NEW k \in 1..(m + n) PROVE (s \o t)[k] = u[k]
  BY <1>1, <1>2
<1>6. QED
  BY <1>3, <1>4, <1>5

LEMMA HandleSound ==
  ASSUME TypeOK, Progress, SoundGetsAudio, NEW size \in Nat, Handle(size)
  PROVE  SoundGetsAudio'
<1> DEFINE i == done + 1
<1>1. /\ i \in 1..Len(events) /\ events' = events /\ out'.offset = got
      /\ got \in Nat /\ played \in [1..Len(events) -> Seq(Nat)]
  BY Place DEF TypeOK
<1>2. up /\ snd' = snd
  BY DEF Handle, inst
<1>3. played' = [played EXCEPT ![i] = @ \o
        [k \in 1..Forwarded(events[i], size) |-> out'.offset + k - 1]]
  BY DEF Handle
<1>4. ASSUME snd, NEW j \in 1..Len(events), Type[events[j]] = "audio-chunk"
      PROVE  played'[j] = [k \in 1..Came(j)' |-> k - 1]
  <2>1. played[j] = [k \in 1..Came(j) |-> k - 1]
    BY <1>2, <1>4 DEF SoundGetsAudio
  <2>2. /\ j # i => Came(j)' = Came(j)
        /\ j = i => Came(j) = got /\ Came(j)' = got + size
    BY CameNext
  <2>3. CASE j # i
    BY <1>1, <1>3, <2>1, <2>2, <2>3
  <2>4. CASE j = i
    <3>1. Forwarded(events[i], size) = size
      BY <1>4, <2>4 DEF Forwarded
    <3>2. played'[i] = played[i] \o [k \in 1..size |-> got + k - 1]
      BY <1>1, <1>3, <3>1
    <3>3. played[i] = [k \in 1..got |-> k - 1]
      BY <2>1, <2>2, <2>4
    <3>4. QED
      BY <1>1, <2>2, <2>4, <3>2, <3>3, Continue
  <2>5. QED
    BY <2>3, <2>4
<1>5. QED
  BY <1>1, <1>2, <1>4 DEF SoundGetsAudio

(* How an event changes whether an audio is open.                          *)
LEMMA TalkingNext ==
  ASSUME TypeOK, NEW i \in 1..Len(events)
  PROVE  Talking(i + 1) <=>
           \/ Starts(events[i])
           \/ Talking(i) /\ Type[events[i]] # "audio-stop"
<1>1. i \in Nat /\ Len(events) \in Nat
  BY DispatchAssumption DEF TypeOK
<1>2. ASSUME Talking(i + 1)
      PROVE  Starts(events[i]) \/ (Talking(i) /\ Type[events[i]] # "audio-stop")
  <2>1. PICK s \in 1..((i + 1) - 1) :
          /\ Starts(events[s])
          /\ \A k \in (s + 1)..((i + 1) - 1) : Type[events[k]] # "audio-stop"
    BY <1>2 DEF Talking
  <2>2. CASE s = i
    BY <2>1, <2>2
  <2>3. CASE s # i
    <3>1. s \in 1..(i - 1) /\ i \in (s + 1)..((i + 1) - 1)
      BY <1>1, <2>3
    <3>2. \A k \in (s + 1)..(i - 1) : k \in (s + 1)..((i + 1) - 1)
      BY <1>1
    <3>3. QED
      BY <2>1, <3>1, <3>2 DEF Talking
  <2>4. QED
    BY <2>2, <2>3
<1>3. ASSUME Starts(events[i]) PROVE Talking(i + 1)
  <2>1. i \in 1..((i + 1) - 1) /\ (i + 1)..((i + 1) - 1) = {}
    BY <1>1
  <2>2. QED
    BY <1>3, <2>1 DEF Talking
<1>4. ASSUME Talking(i), Type[events[i]] # "audio-stop" PROVE Talking(i + 1)
  <2>1. PICK s \in 1..(i - 1) :
          /\ Starts(events[s])
          /\ \A k \in (s + 1)..(i - 1) : Type[events[k]] # "audio-stop"
    BY <1>4 DEF Talking
  <2>2. s \in 1..((i + 1) - 1)
    BY <1>1
  <2>3. \A k \in (s + 1)..((i + 1) - 1) : k = i \/ k \in (s + 1)..(i - 1)
    BY <1>1
  <2>4. QED
    BY <1>4, <2>1, <2>2, <2>3 DEF Talking
<1>5. QED
  BY <1>2, <1>3, <1>4

LEMMA HandleFiles ==
  ASSUME TypeOK, Progress, Files, NEW size \in Nat, Handle(size)
  PROVE  Files'
<1> DEFINE i == done + 1
           type == Type[events[i]]
<1>1. /\ i \in 1..Len(events) /\ events' = events
      /\ done' = i \/ done' = done
      /\ done' = done => PayloadLen[events[i]] # 0
      /\ done \in Nat
  BY Place DEF TypeOK
<1>2. up /\ snd' = snd /\ snd \in BOOLEAN
  BY DEF Handle, inst, TypeOK
<1>3. Polite' = Polite /\ \A j : Talking(j)' = Talking(j)
  BY <1>1 DEF Polite, Talking, Starts
<1>4. Talking(i + 1) <=> Starts(events[i]) \/ (Talking(i) /\ type # "audio-stop")
  BY <1>1, TalkingNext
<1>5. Polite => /\ type = "audio-start" => Starts(events[i]) /\ ~Talking(i)
                /\ type = "audio-chunk" => Talking(i)
                /\ type \in {"audio-start", "audio-stop"} => done' = i
  BY <1>1 DEF Polite
<1>6. Talking(done' + 1) <=> IF done' = i THEN Talking(i + 1) ELSE Talking(i)
  BY <1>1
<1>7. Starts(events[i]) => type = "audio-start"
  BY DEF Starts
<1>8. /\ file = "open" => snd
      /\ Polite /\ snd /\ Talking(i) => file # "none"
      /\ Polite /\ file = "open" /\ ~left => Talking(i)
      /\ Polite => ~spoilt
      /\ file \in {"none", "failed", "open"} /\ left \in BOOLEAN
  BY <1>2 DEF Files, OwnFilesClosed, TypeOK
<1> DEFINE Goal == /\ file' = "open" => snd
                   /\ Polite /\ up' /\ snd /\ Talking(done' + 1) => file' # "none"
                   /\ Polite /\ file' = "open" /\ ~left' => Talking(done' + 1)
                   /\ Polite /\ ~up' => file' = "failed"
                   /\ Polite => ~spoilt'
<1>9. SUFFICES Goal
  BY <1>2, <1>3 DEF Files, WritesToAFile, OwnFilesClosed
<1> HIDE DEF i, type
<1>10. CASE snd /\ Starts(events[i]) /\ SndStart
  BY <1>1, <1>2, <1>4, <1>5, <1>6, <1>7, <1>8, <1>10 DEF SndStart
<1>11. CASE snd /\ type = "audio-chunk" /\ SndData(size)
  BY <1>1, <1>2, <1>4, <1>5, <1>6, <1>7, <1>8, <1>11 DEF SndData
<1>12. CASE snd /\ type = "audio-stop" /\ SndEnd
  BY <1>1, <1>2, <1>4, <1>5, <1>6, <1>7, <1>8, <1>12 DEF SndEnd
<1>13. CASE /\ ~(snd /\ (Starts(events[i]) \/ type \in {"audio-chunk", "audio-stop"}))
            /\ UNCHANGED sound
  BY <1>1, <1>2, <1>4, <1>5, <1>6, <1>7, <1>8, <1>13 DEF sound
<1>14. QED
  BY <1>10, <1>11, <1>12, <1>13 DEF Handle, Sound, i, type

-----------------------------------------------------------------------------
(* At the start of a connection nothing has come out, and no audio is open. *)
LEMMA FirstIsSilent == ASSUME done = 0 PROVE ~Talking(done + 1)
  BY DEF Talking

LEMMA InitIInv == Init => IInv
<1> SUFFICES ASSUME Init PROVE IInv
  OBVIOUS
<1> USE DispatchAssumption DEF Init, Stream!Init
<1>1. events \in Seq(Bodies) /\ Len(events) \in Nat
  OBVIOUS
<1>2. TypeOK
  <2>1. chunk \in [asked : Lengths \cup {0}, sent : 0..(Width - 1)]
    OBVIOUS
  <2>2. answers \in [1..Len(events) -> Nat] /\ played \in [1..Len(events) -> Seq(Nat)]
    OBVIOUS
  <2>3. /\ done \in 0..Len(events) /\ got \in Nat /\ events \in Messages
        /\ mode \in {"wake_stream", "always_stream"} /\ snd \in BOOLEAN
    BY <1>1
  <2>4. /\ file \in {"none", "failed", "open"}
        /\ left \in BOOLEAN /\ spoilt \in BOOLEAN /\ up \in BOOLEAN
    OBVIOUS
  <2> HIDE DEF Init
  <2>5. QED
    BY <2>1, <2>2, <2>3, <2>4 DEF TypeOK
<1>3. Progress /\ Answered
  BY <1>1 DEF Progress, Answered, RequestsAnswered
<1>4. SoundGetsAudio
  BY <1>1 DEF SoundGetsAudio, Came
<1>5. Files
  BY FirstIsSilent DEF Files, WritesToAFile, OwnFilesClosed
<1>6. QED
  BY <1>2, <1>3, <1>4, <1>5 DEF IInv

LEMMA ReconnectIInv == IInv /\ Reconnect => IInv'
<1> SUFFICES ASSUME IInv, Reconnect PROVE IInv'
  OBVIOUS
<1> USE DispatchAssumption DEF IInv, Reconnect, Stream!Connect, inst
<1>1. events' \in Seq(Bodies) /\ Len(events') \in Nat /\ done' = 0 /\ got' = 0
  OBVIOUS
<1>2. TypeOK'
  <2>1. /\ answers' \in [1..Len(events') -> Nat]
        /\ played' \in [1..Len(events') -> Seq(Nat)]
    OBVIOUS
  <2>2. /\ done' \in 0..Len(events') /\ got' \in Nat /\ events' \in Messages
    BY <1>1
  <2>3. /\ mode' \in {"wake_stream", "always_stream"} /\ snd' \in BOOLEAN
        /\ file' \in {"none", "failed", "open"} /\ up' \in BOOLEAN
        /\ chunk' \in [asked : Lengths \cup {0}, sent : 0..(Width - 1)]
    BY DEF TypeOK
  <2>4. left' \in BOOLEAN /\ spoilt' \in BOOLEAN
    OBVIOUS
  <2> HIDE DEF Reconnect, IInv
  <2>5. QED
    BY <2>1, <2>2, <2>3, <2>4 DEF TypeOK
<1>3. Progress' /\ Answered'
  BY <1>1 DEF Progress, Answered, RequestsAnswered
<1>4. SoundGetsAudio'
  BY <1>1 DEF SoundGetsAudio, Came
<1>5. Files'
  <2>1. ~Talking(done + 1)'
    BY <1>1 DEF Talking
  <2>2. QED
    BY <2>1 DEF Files, WritesToAFile, OwnFilesClosed
<1>6. QED
  BY <1>2, <1>3, <1>4, <1>5

LEMMA NextIInv == IInv /\ [Next]_vars => IInv'
<1> SUFFICES ASSUME IInv, [Next]_vars PROVE IInv'
  OBVIOUS
<1>1. ASSUME NEW size \in Nat, Handle(size) PROVE IInv'
  BY <1>1, HandleTypeOK, HandleAnswered, HandleSound, HandleFiles DEF IInv
<1>2. ASSUME UNCHANGED <<stream, inst, answers, played, sound>>, TypeOK'
      PROVE  IInv'
  BY <1>2 DEF IInv, Progress, Answered, RequestsAnswered, SoundGetsAudio, Files,
     WritesToAFile, OwnFilesClosed, Came, Talking, Starts, Polite, Replies,
     stream, inst, sound
<1>3. ASSUME NEW length \in Lengths, AudioChunkSend(length) PROVE IInv'
  <2>1. length % Width \in 0..(Width - 1)
    BY DispatchAssumption
  <2>2. TypeOK'
    BY <1>3, <2>1 DEF IInv, TypeOK, AudioChunkSend, stream, inst, sound
  <2>3. QED
    BY <1>2, <1>3, <2>2 DEF AudioChunkSend
<1>4. CASE UNCHANGED vars
  BY <1>2, <1>4 DEF IInv, TypeOK, vars, stream, inst, sound
<1>5. CASE Next
  <2>1. done < Len(events) => 0..PayloadLen[events[done + 1]] \subseteq Nat
    BY DispatchAssumption DEF IInv, TypeOK
  <2>2. QED
    BY <1>1, <1>3, <1>5, <2>1, ReconnectIInv DEF Next
<1>6. QED
  BY <1>4, <1>5

-----------------------------------------------------------------------------
(* The invariant holds in every reachable state.                           *)
THEOREM Invariance == Spec => []IInv
  BY InitIInv, NextIInv, PTL DEF Spec

(* Every variable keeps its type, in both modes.                           *)
THEOREM TypeCorrect == Spec => []TypeOK
<1>1. IInv => TypeOK
  BY DEF IInv
<1>2. QED
  BY <1>1, Invariance, PTL

(* A request is answered once, or for each chunk of its payload.           *)
THEOREM Requests == Spec => []RequestsAnswered
<1>1. IInv => RequestsAnswered
  BY DEF IInv, Answered
<1>2. QED
  BY <1>1, Invariance, PTL

(* The sound component is given every byte of the audio once, in order.    *)
THEOREM Audio == Spec => []SoundGetsAudio
<1>1. IInv => SoundGetsAudio
  BY DEF IInv
<1>2. QED
  BY <1>1, Invariance, PTL

(* A peer that brackets its chunks is only let down by fopen.              *)
THEOREM Writes == Spec => []WritesToAFile
<1>1. IInv => WritesToAFile
  BY DEF IInv, Files
<1>2. QED
  BY <1>1, Invariance, PTL

(* The files of such a peer's own connection are closed.                   *)
THEOREM Closed == Spec => []OwnFilesClosed
<1>1. IInv => OwnFilesClosed
  BY DEF IInv, Files
<1>2. QED
  BY <1>1, Invariance, PTL

=============================================================================
