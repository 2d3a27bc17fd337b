--------------------------- MODULE StreamingProofs ---------------------------
(***************************************************************************)
(* Proofs about Streaming, for any number of microphone and wake-word      *)
(* threads and for both modes.  The inductive invariant ties the flags to  *)
(* the stream the peer asked for, and every event on its way to the stream *)
(* it belongs to.                                                          *)
(***************************************************************************)
EXTENDS Streaming, TLAPS

(* The flag says whether a stream is on, and the threads that began it     *)
(* belong to the mode.                                                     *)
Control ==
  /\ open = is_streaming
  /\ PausedIsSilent
  /\ mode = "always_stream" => ~is_paused
  /\ mode = "always_stream" => starter \subseteq {Server}
  /\ mode = "wake_stream" => starter \subseteq Wakes
  /\ mode = "wake_stream" /\ ~is_streaming => starter = {}
  /\ OneStarter

(* What the server thread and the senders hold of the connection.          *)
Links ==
  /\ starting => mode = "always_stream" /\ link # "none" /\ Server \in starter
  /\ ~Idle(Server) => starting
  /\ \A t \in Threads : Idle(t) => taken[t] = "none"
  /\ link = "none" => \A t \in Threads : taken[t] # "held"
  /\ link # "up" => heard = {} /\ lost = FALSE /\ clean = TRUE

(* A microphone thread with a chunk in its hands has sent none since the   *)
(* stream ended.                                                           *)
Tickets ==
  /\ AtMostOneLateChunk
  /\ ~open => \A m \in Mics : ~Idle(m) => late[m] = 0

Announcing ==
  /\ AudioIsAnnounced
  /\ starting /\ Idle(Server) => announced

(* On a connection that began in silence and lost nothing, nobody can tear *)
(* the stream of events, and each event on its way has its forerunner      *)
(* delivered or on its way.                                                *)
PipelineComes ==
  \/ "run-pipeline" \in heard
  \/ mode = "wake_stream" /\ \E w \in Wakes : ~Idle(w)

Order ==
  fresh /\ ~lost /\ link = "up" =>
    /\ clean
    /\ \A t \in Threads : taken[t] # "stale"
    /\ \A w \in Wakes : sending[w] = "run-pipeline" => "detection" \in heard
    /\ mode = "wake_stream" /\ "run-pipeline" \in heard => "detection" \in heard
    /\ is_streaming \/ "audio-chunk" \in heard => PipelineComes
    /\ \A m \in Mics : ~Idle(m) => PipelineComes
    /\ starting /\ Idle(Server) => "run-pipeline" \in heard

IInv == TypeOK /\ Control /\ Links /\ Tickets /\ Announcing /\ Order

-----------------------------------------------------------------------------
(* The initial states satisfy the invariant.                               *)
LEMMA InitIInv == Init => IInv
<1> SUFFICES ASSUME Init PROVE IInv
  OBVIOUS
<1> USE StreamingAssumption DEF Init, Link!Init, Idle
<1>1. TypeOK
  BY DEF TypeOK, Threads, Events, Sendable
<1>2. Control
  BY DEF Control, PausedIsSilent, OneStarter
<1>3. Links
  BY DEF Links, Threads
<1>4. Tickets
  BY DEF Tickets, AtMostOneLateChunk
<1>5. Announcing
  BY DEF Announcing, AudioIsAnnounced
<1>6. Order
  BY DEF Order
<1>7. QED
  BY <1>1, <1>2, <1>3, <1>4, <1>5, <1>6 DEF IInv

-----------------------------------------------------------------------------
(* Each part of the invariant is preserved.  The kinds of thread are       *)
(* disjoint, and each sends its own events.                                *)
LEMMA Senders ==
  ASSUME TypeOK
  PROVE  /\ \A m \in Mics : m \in Threads /\ sending[m] \in {"none", "audio-chunk"}
         /\ \A w \in Wakes : /\ w \in Threads
                             /\ sending[w] \in {"none", "detection", "run-pipeline"}
         /\ Server \in Threads /\ sending[Server] \in {"none", "run-pipeline"}
  BY StreamingAssumption DEF TypeOK, Threads, Sendable

LEMMA NextTypeOK == TypeOK /\ Links /\ Next => TypeOK'
<1> SUFFICES ASSUME TypeOK, Links, Next PROVE TypeOK'
  OBVIOUS
<1> USE StreamingAssumption DEF TypeOK, Links, Idle, Threads, Events, Sendable, flags, connection, stream
<1>1. CASE Accept
  BY <1>1 DEF Accept, Link!Accept
<1>2. CASE PeerClose
  BY <1>2 DEF PeerClose, Link!PeerClose, Link!Forget
<1>3. CASE Disconnect
  BY <1>3 DEF Disconnect, Link!Disconnect, Link!Forget
<1>4. ASSUME NEW t \in Threads, Take(t) PROVE TypeOK'
  BY <1>4 DEF Take, Link!Take
<1>5. ASSUME NEW t \in Threads, Refuse(t) PROVE TypeOK'
  BY <1>5 DEF Refuse, Finish
<1>6. ASSUME NEW t \in Threads, Deliver(t) PROVE TypeOK'
  <2>1. sending[t] \in Events
    BY <1>6 DEF Deliver, Link!Deliver
  <2>2. clean' \in BOOLEAN /\ heard' \subseteq Events
    BY <1>6, <2>1 DEF Deliver, Link!Deliver
  <2>3. late' \in [Mics -> Nat]
    BY <1>6 DEF Deliver
  <2>4. QED
    BY <1>6, <2>2, <2>3 DEF Deliver, Link!Deliver, Finish
<1>7. ASSUME NEW t \in Threads, Lose(t) PROVE TypeOK'
  BY <1>7 DEF Lose, Link!Lose, Finish
<1>8. ASSUME NEW t \in Threads, Tear(t) PROVE TypeOK'
  BY <1>8 DEF Tear, Link!Tear, Link!MayTear
<1>9. ASSUME NEW t \in Threads, Spoil(t) PROVE TypeOK'
  BY <1>9 DEF Spoil, Link!Spoil
<1>10. ASSUME NEW m \in Mics, MicData(m) PROVE TypeOK'
  BY <1>10 DEF MicData, Streaming
<1>11. ASSUME NEW w \in Wakes, WakeDetection(w) PROVE TypeOK'
  BY <1>11 DEF WakeDetection
<1>12. CASE RunSatellite
  BY <1>12 DEF RunSatellite, Handling
<1>13. CASE StartStreaming
  BY <1>13 DEF StartStreaming
<1>14. CASE Resume
  BY <1>14 DEF Resume, EndStream, Handling
<1>15. CASE PauseSatellite
  BY <1>15 DEF PauseSatellite, EndStream, Handling
<1>16. CASE EndOfSpeech
  BY <1>16 DEF EndOfSpeech, EndStream, Handling
<1>17. QED
  BY <1>1, <1>2, <1>3, <1>4, <1>5, <1>6, <1>7, <1>8,
     <1>9, <1>10, <1>11, <1>12, <1>13, <1>14, <1>15, <1>16 DEF Next, Sending

LEMMA NextControl == TypeOK /\ Control /\ Links /\ Next => Control'
<1> SUFFICES ASSUME TypeOK, Control, Links, Next PROVE Control'
  OBVIOUS
<1> USE StreamingAssumption DEF TypeOK, Control, Links, PausedIsSilent, OneStarter, flags, connection, stream
<1>1. CASE Accept
  BY <1>1 DEF Accept, Link!Accept
<1>2. CASE PeerClose
  BY <1>2 DEF PeerClose, Link!PeerClose, Link!Forget
<1>3. CASE Disconnect
  BY <1>3 DEF Disconnect, Link!Disconnect, Link!Forget
<1>4. ASSUME NEW t \in Threads, Take(t) PROVE Control'
  BY <1>4 DEF Take, Link!Take
<1>5. ASSUME NEW t \in Threads, Refuse(t) PROVE Control'
  BY <1>5 DEF Refuse, Finish
<1>6. ASSUME NEW t \in Threads, Deliver(t) PROVE Control'
  BY <1>6 DEF Deliver, Link!Deliver, Link!MayTear, Finish
<1>7. ASSUME NEW t \in Threads, Lose(t) PROVE Control'
  BY <1>7 DEF Lose, Link!Lose, Finish
<1>8. ASSUME NEW t \in Threads, Tear(t) PROVE Control'
  BY <1>8 DEF Tear, Link!Tear, Link!MayTear
<1>9. ASSUME NEW t \in Threads, Spoil(t) PROVE Control'
  BY <1>9 DEF Spoil, Link!Spoil
<1>10. ASSUME NEW m \in Mics, MicData(m) PROVE Control'
  BY <1>10 DEF MicData, Streaming
<1>11. ASSUME NEW w \in Wakes, WakeDetection(w) PROVE Control'
  BY <1>11 DEF WakeDetection
<1>12. CASE RunSatellite
  BY <1>12 DEF RunSatellite, Handling
<1>13. CASE StartStreaming
  BY <1>13 DEF StartStreaming
<1>14. CASE Resume
  BY <1>14 DEF Resume, EndStream, Handling
<1>15. CASE PauseSatellite
  BY <1>15 DEF PauseSatellite, EndStream, Handling
<1>16. CASE EndOfSpeech
  BY <1>16 DEF EndOfSpeech, EndStream, Handling
<1>17. QED
  BY <1>1, <1>2, <1>3, <1>4, <1>5, <1>6, <1>7, <1>8,
     <1>9, <1>10, <1>11, <1>12, <1>13, <1>14, <1>15, <1>16 DEF Next, Sending

LEMMA NextLinks == TypeOK /\ Links /\ Next => Links'
<1> SUFFICES ASSUME TypeOK, Links, Next PROVE Links'
  OBVIOUS
<1> USE StreamingAssumption, Senders DEF TypeOK, Links, Idle, Threads, flags, connection, stream
<1>1. CASE Accept
  BY <1>1 DEF Accept, Link!Accept
<1>2. CASE PeerClose
  BY <1>2 DEF PeerClose, Link!PeerClose, Link!Forget
<1>3. CASE Disconnect
  BY <1>3 DEF Disconnect, Link!Disconnect, Link!Forget
<1>4. ASSUME NEW t \in Threads, Take(t) PROVE Links'
  BY <1>4 DEF Take, Link!Take
<1>5. ASSUME NEW t \in Threads, Refuse(t) PROVE Links'
  BY <1>5 DEF Refuse, Finish
<1>6. ASSUME NEW t \in Threads, Deliver(t) PROVE Links'
  BY <1>6 DEF Deliver, Link!Deliver, Link!MayTear, Finish
<1>7. ASSUME NEW t \in Threads, Lose(t) PROVE Links'
  BY <1>7 DEF Lose, Link!Lose, Finish
<1>8. ASSUME NEW t \in Threads, Tear(t) PROVE Links'
  BY <1>8 DEF Tear, Link!Tear, Link!MayTear
<1>9. ASSUME NEW t \in Threads, Spoil(t) PROVE Links'
  BY <1>9 DEF Spoil, Link!Spoil
<1>10. ASSUME NEW m \in Mics, MicData(m) PROVE Links'
  BY <1>10 DEF MicData, Streaming
<1>11. ASSUME NEW w \in Wakes, WakeDetection(w) PROVE Links'
  BY <1>11 DEF WakeDetection
<1>12. CASE RunSatellite
  BY <1>12 DEF RunSatellite, Handling
<1>13. CASE StartStreaming
  BY <1>13 DEF StartStreaming
<1>14. CASE Resume
  BY <1>14 DEF Resume, EndStream, Handling
<1>15. CASE PauseSatellite
  BY <1>15 DEF PauseSatellite, EndStream, Handling
<1>16. CASE EndOfSpeech
  BY <1>16 DEF EndOfSpeech, EndStream, Handling
<1>17. QED
  BY <1>1, <1>2, <1>3, <1>4, <1>5, <1>6, <1>7, <1>8,
     <1>9, <1>10, <1>11, <1>12, <1>13, <1>14, <1>15, <1>16 DEF Next, Sending

LEMMA NextTickets == TypeOK /\ Control /\ Tickets /\ Next => Tickets'
<1> SUFFICES ASSUME TypeOK, Control, Tickets, Next PROVE Tickets'
  OBVIOUS
<1> USE StreamingAssumption, Senders DEF TypeOK, Control, Tickets, AtMostOneLateChunk, Idle, flags, connection, stream
<1>1. CASE Accept
  BY <1>1 DEF Accept, Link!Accept
<1>2. CASE PeerClose
  BY <1>2 DEF PeerClose, Link!PeerClose, Link!Forget
<1>3. CASE Disconnect
  BY <1>3 DEF Disconnect, Link!Disconnect, Link!Forget
<1>4. ASSUME NEW t \in Threads, Take(t) PROVE Tickets'
  BY <1>4 DEF Take, Link!Take
<1>5. ASSUME NEW t \in Threads, Refuse(t) PROVE Tickets'
  BY <1>5 DEF Refuse, Finish
<1>6. ASSUME NEW t \in Threads, Deliver(t) PROVE Tickets'
  BY <1>6 DEF Deliver, Link!Deliver, Link!MayTear, Finish
<1>7. ASSUME NEW t \in Threads, Lose(t) PROVE Tickets'
  BY <1>7 DEF Lose, Link!Lose, Finish
<1>8. ASSUME NEW t \in Threads, Tear(t) PROVE Tickets'
  BY <1>8 DEF Tear, Link!Tear, Link!MayTear
<1>9. ASSUME NEW t \in Threads, Spoil(t) PROVE Tickets'
  BY <1>9 DEF Spoil, Link!Spoil
<1>10. ASSUME NEW m \in Mics, MicData(m) PROVE Tickets'
  BY <1>10 DEF MicData, Streaming
<1>11. ASSUME NEW w \in Wakes, WakeDetection(w) PROVE Tickets'
  BY <1>11 DEF WakeDetection
<1>12. CASE RunSatellite
  BY <1>12 DEF RunSatellite, Handling
<1>13. CASE StartStreaming
  BY <1>13 DEF StartStreaming
<1>14. CASE Resume
  BY <1>14 DEF Resume, EndStream, Handling
<1>15. CASE PauseSatellite
  BY <1>15 DEF PauseSatellite, EndStream, Handling
<1>16. CASE EndOfSpeech
  BY <1>16 DEF EndOfSpeech, EndStream, Handling
<1>17. QED
  BY <1>1, <1>2, <1>3, <1>4, <1>5, <1>6, <1>7, <1>8,
     <1>9, <1>10, <1>11, <1>12, <1>13, <1>14, <1>15, <1>16 DEF Next, Sending

LEMMA NextAnnouncing ==
  TypeOK /\ Control /\ Links /\ Announcing /\ Next => Announcing'
<1> SUFFICES ASSUME TypeOK, Control, Links, Announcing, Next PROVE Announcing'
  OBVIOUS
<1> USE StreamingAssumption, Senders DEF TypeOK, Control, Links, Announcing, AudioIsAnnounced, Idle, Threads, flags, connection, stream
<1>1. CASE Accept
  BY <1>1 DEF Accept, Link!Accept
<1>2. CASE PeerClose
  BY <1>2 DEF PeerClose, Link!PeerClose, Link!Forget
<1>3. CASE Disconnect
  BY <1>3 DEF Disconnect, Link!Disconnect, Link!Forget
<1>4. ASSUME NEW t \in Threads, Take(t) PROVE Announcing'
  BY <1>4 DEF Take, Link!Take
<1>5. ASSUME NEW t \in Threads, Refuse(t) PROVE Announcing'
  BY <1>5 DEF Refuse, Finish
<1>6. ASSUME NEW t \in Threads, Deliver(t) PROVE Announcing'
  BY <1>6 DEF Deliver, Link!Deliver, Link!MayTear, Finish
<1>7. ASSUME NEW t \in Threads, Lose(t) PROVE Announcing'
  BY <1>7 DEF Lose, Link!Lose, Finish
<1>8. ASSUME NEW t \in Threads, Tear(t) PROVE Announcing'
  BY <1>8 DEF Tear, Link!Tear, Link!MayTear
<1>9. ASSUME NEW t \in Threads, Spoil(t) PROVE Announcing'
  BY <1>9 DEF Spoil, Link!Spoil
<1>10. ASSUME NEW m \in Mics, MicData(m) PROVE Announcing'
  BY <1>10 DEF MicData, Streaming
<1>11. ASSUME NEW w \in Wakes, WakeDetection(w) PROVE Announcing'
  BY <1>11 DEF WakeDetection
<1>12. CASE RunSatellite
  BY <1>12 DEF RunSatellite, Handling
<1>13. CASE StartStreaming
  BY <1>13 DEF StartStreaming
<1>14. CASE Resume
  BY <1>14 DEF Resume, EndStream, Handling
<1>15. CASE PauseSatellite
  BY <1>15 DEF PauseSatellite, EndStream, Handling
<1>16. CASE EndOfSpeech
  BY <1>16 DEF EndOfSpeech, EndStream, Handling
<1>17. QED
  BY <1>1, <1>2, <1>3, <1>4, <1>5, <1>6, <1>7, <1>8,
     <1>9, <1>10, <1>11, <1>12, <1>13, <1>14, <1>15, <1>16 DEF Next, Sending

LEMMA NextOrder == TypeOK /\ Control /\ Links /\ Order /\ Next => Order'
<1> SUFFICES ASSUME TypeOK, Control, Links, Order, Next PROVE Order'
  OBVIOUS
<1> USE StreamingAssumption, Senders DEF TypeOK, Links, Order, PipelineComes, Idle, Threads, flags, connection, stream
<1>1. CASE Accept
  BY <1>1 DEF Accept, Link!Accept
<1>2. CASE PeerClose
  BY <1>2 DEF PeerClose, Link!PeerClose, Link!Forget
<1>3. CASE Disconnect
  BY <1>3 DEF Disconnect, Link!Disconnect, Link!Forget
<1>4. ASSUME NEW t \in Threads, Take(t) PROVE Order'
  <2>1. \A u \in Threads : taken'[u] = "stale" => taken[u] = "stale"
    BY <1>4 DEF Take, Link!Take
  <2>2. QED
    BY <1>4, <2>1 DEF Take, Link!Take
<1>5. ASSUME NEW t \in Threads, Refuse(t) PROVE Order'
  BY <1>5 DEF Refuse, Finish
<1>6. ASSUME NEW t \in Threads, Deliver(t) PROVE Order'
  <2>1. \A u \in Threads : taken'[u] = "stale" => taken[u] = "stale"
    BY <1>6 DEF Deliver, Link!Deliver
  <2>2. fresh /\ ~lost => clean' = TRUE
    BY <1>6 DEF Deliver, Link!Deliver, Link!MayTear
  <2>3. CASE t \in Mics
    BY <1>6, <2>1, <2>2, <2>3 DEF Deliver, Link!Deliver, Finish
  <2>4. CASE t \in Wakes
    BY <1>6, <2>1, <2>2, <2>4 DEF Deliver, Link!Deliver, Finish
  <2>5. CASE t = Server
    BY <1>6, <2>1, <2>2, <2>5 DEF Deliver, Link!Deliver, Finish
  <2>6. QED
    BY <2>3, <2>4, <2>5
<1>7. ASSUME NEW t \in Threads, Lose(t) PROVE Order'
  BY <1>7 DEF Lose, Link!Lose, Finish
<1>8. ASSUME NEW t \in Threads, Tear(t) PROVE Order'
  BY <1>8 DEF Tear, Link!Tear, Link!MayTear
<1>9. ASSUME NEW t \in Threads, Spoil(t) PROVE Order'
  BY <1>9 DEF Spoil, Link!Spoil
<1>10. ASSUME NEW m \in Mics, MicData(m) PROVE Order'
  BY <1>10 DEF MicData, Streaming
<1>11. ASSUME NEW w \in Wakes, WakeDetection(w) PROVE Order'
  BY <1>11 DEF WakeDetection
<1>12. CASE RunSatellite
  BY <1>12 DEF RunSatellite, Handling
<1>13. CASE StartStreaming
  BY <1>13 DEF StartStreaming
<1>14. CASE Resume
  BY <1>14 DEF Resume, EndStream, Handling
<1>15. CASE PauseSatellite
  BY <1>15 DEF PauseSatellite, EndStream, Handling
<1>16. CASE EndOfSpeech
  BY <1>16 DEF EndOfSpeech, EndStream, Handling
<1>17. QED
  BY <1>1, <1>2, <1>3, <1>4, <1>5, <1>6, <1>7, <1>8,
     <1>9, <1>10, <1>11, <1>12, <1>13, <1>14, <1>15, <1>16 DEF Next, Sending

-----------------------------------------------------------------------------
(* The invariant holds in every reachable state, in both modes.            *)
THEOREM Invariance == Spec => []IInv
<1>1. IInv /\ [Next]_vars => IInv'
  <2> SUFFICES ASSUME IInv, [Next]_vars PROVE IInv'
    OBVIOUS
  <2>1. CASE Next
    BY <2>1, NextTypeOK, NextControl, NextLinks, NextTickets, NextAnnouncing,
       NextOrder DEF IInv
  <2>2. CASE UNCHANGED vars
    BY <2>2 DEF IInv, TypeOK, Control, Links, Tickets, Announcing, Order,
       PausedIsSilent, OneStarter, AtMostOneLateChunk, AudioIsAnnounced,
       PipelineComes, Idle, Sendable, vars, flags, connection, stream
  <2>3. QED
    BY <2>1, <2>2
<1>2. QED
  BY <1>1, InitIInv, PTL DEF Spec

(* Every variable keeps its type, and each thread sends its own events.    *)
THEOREM TypeCorrect == Spec => []TypeOK
<1>1. IInv => TypeOK
  BY DEF IInv
<1>2. QED
  BY <1>1, Invariance, PTL

(* A paused satellite never streams.                                       *)
THEOREM Silent == Spec => []PausedIsSilent
<1>1. IInv => PausedIsSilent
  BY DEF IInv, Control
<1>2. QED
  BY <1>1, Invariance, PTL

(* A microphone thread sends at most one chunk after the end of a stream.  *)
THEOREM LateChunks == Spec => []AtMostOneLateChunk
<1>1. IInv => AtMostOneLateChunk
  BY DEF IInv, Tickets
<1>2. QED
  BY <1>1, Invariance, PTL

(* A stream is begun by one thread.                                        *)
THEOREM Starter == Spec => []OneStarter
<1>1. IInv => OneStarter
  BY DEF IInv, Control
<1>2. QED
  BY <1>1, Invariance, PTL

(* No audio without a run-pipeline that was tried, or soon will be.        *)
THEOREM Announced == Spec => []AudioIsAnnounced
<1>1. IInv => AudioIsAnnounced
  BY DEF IInv, Announcing
<1>2. QED
  BY <1>1, Invariance, PTL

(* As long as no event was lost, a peer that connected in silence gets     *)
(* detection, run-pipeline and audio in the order of the mode.             *)
THEOREM Ordered == Spec => []EventsInOrder
<1>1. IInv => EventsInOrder
  BY DEF IInv, Order, PipelineComes, EventsInOrder
<1>2. QED
  BY <1>1, Invariance, PTL

=============================================================================
