------------------------ MODULE SatelliteServerProofs ------------------------
(***************************************************************************)
(* Proofs about SatelliteServer, for any number of callers, connections,   *)
(* descriptors and pieces per event.  The inductive invariant relates the  *)
(* three views of a connection: the server thread's pc and fd, the         *)
(* senders' snapshot of it, and what its peer has received.                *)
(***************************************************************************)
EXTENDS SatelliteServer, TLAPS

(* The descriptor of the server thread is the one open descriptor, and the *)
(* only one ever published.                                                *)
Control ==
  /\ pc \in {"publish", "read", "handle", "close"} <=> fd # None
  /\ fd # None => fdtab[fd] # None
  /\ \A f \in Fds : fdtab[f] # None => f = fd
  /\ connfd # None => connfd = fd
  /\ pc \in {"idle", "init", "setup"} => ~listening
  /\ spc[Server] # "idle" => pc = "handle" /\ sfd[Server] = fd

(* Who is in the section between taking and releasing send_mutex, and what *)
(* a thread outside it has left to say.                                    *)
InSection(t) == spc[t] \in {"check", "send", "unlock"}
MidEvent(t)  == spc[t] \in {"check", "send"}

Mutex ==
  \A t \in Threads :
    /\ InSection(t) <=> send_mutex = t
    /\ spc[t] = "idle" => sfd[t] = None
    /\ spc[t] # "idle" => sfd[t] \in Fds
    /\ ~InSection(t) => sent[t] = 0
    /\ MidEvent(t) => sent[t] < MsgLen

(* A connection nobody has accepted has received nothing.                  *)
Fresh ==
  /\ \A c \in Conns : peer[c] = "none" => c \notin backlog /\ last[c] = Nothing
  /\ \A c \in backlog : last[c] = Nothing
  /\ \A f \in Fds : fdtab[f] # None =>
       peer[fdtab[f]] # "none" /\ fdtab[f] \notin backlog

(* A sender in the middle of an event finds its own last piece on the      *)
(* connection it writes to, or a connection that received nothing.         *)
SenderMatches ==
  \A t \in Threads :
    LET c == fdtab[sfd[t]]
    IN  MidEvent(t) /\ sent[t] > 0 /\ c # None /\ peer[c] = "up" =>
          last[c] = Nothing \/ last[c] = [by |-> t, piece |-> sent[t]]

(* An event left unfinished on an open connection is being continued, or   *)
(* was given up because a send failed, or for wsat_stop, after which       *)
(* nobody reaches send() again before the connection is closed.            *)
HeldOn(f) ==
  LET c == fdtab[f]
      t == last[c].by
  IN  c # None /\ peer[c] = "up" /\ last[c].piece \in 1..(MsgLen - 1) =>
        \/ MidEvent(t) /\ sfd[t] = f /\ sent[t] = last[c].piece
        \/ stop_requested /\ \A u \in Threads : spc[u] # "send"
        \/ c \in cut

UnfinishedIsHeld == \A f \in Fds : HeldOn(f)

IInv ==
  TypeOK /\ Control /\ Mutex /\ Fresh /\ SenderMatches /\ UnfinishedIsHeld


-----------------------------------------------------------------------------
(* The initial states satisfy the invariant.                               *)
LEMMA InitIInv == Init => IInv
<1> SUFFICES ASSUME Init PROVE IInv
  OBVIOUS
<1> USE ServerAssumption DEF Init, Threads
<1>1. TypeOK
  <2>1. last \in [Conns -> Pieces]
    BY DEF Pieces
  <2>2. /\ spc \in [Threads -> SendStates]
        /\ sfd \in [Threads -> Fds \cup {None}]
        /\ sent \in [Threads -> 0..MsgLen]
    BY DEF SendStates
  <2>3. peer \in [Conns -> {"none", "up", "gone"}] /\ backlog \in SUBSET Conns
    OBVIOUS
  <2>4. fdtab \in [Fds -> Conns \cup {None}]
    OBVIOUS
  <2>5. /\ stop_requested \in BOOLEAN
        /\ listening \in BOOLEAN /\ cut \in SUBSET Conns
    OBVIOUS
  <2>6. todo \in 0..MaxEvents
    OBVIOUS
  <2>7. /\ connfd \in Fds \cup {None} /\ fd \in Fds \cup {None}
        /\ pc \in ServerStates /\ ret \in {"ok", "error"}
        /\ send_mutex \in Threads \cup {None}
    BY DEF ServerStates
  <2> QED
    BY <2>1, <2>2, <2>3, <2>4, <2>5, <2>6, <2>7 DEF TypeOK
<1>2. Control
  BY DEF Control
<1>3. Mutex
  BY DEF Mutex, InSection, MidEvent
<1>4. Fresh
  BY Zenon DEF Fresh
<1>5. SenderMatches
  BY DEF SenderMatches, MidEvent
<1>6. UnfinishedIsHeld
  BY DEF UnfinishedIsHeld, HeldOn
<1> QED
  BY <1>1, <1>2, <1>3, <1>4, <1>5, <1>6 DEF IInv

(* Every step of the system is a step of a peer, of the API, of the server *)
(* thread or of a sender: the case split the lemmas below share.           *)
LEMMA StepCases ==
  ASSUME Next, NEW ACTION P,
         \A c \in Conns : Connect(c) \/ PeerClose(c) => P,
         Run \/ InitFail \/ Stop \/ Start => P,
         Setup \/ AcceptStop \/ AcceptFail \/ Publish => P,
         \A c \in Conns, f \in Fds : Accept(c, f) => P,
         \A c \in Conns : AcceptTransient(c) => P,
         ReadStop \/ ReadData \/ ReadEnd \/ Close \/ Cleanup => P,
         Handle => P,
         \A t \in Callers : CallerSend(t) => P,
         \A t \in Threads :
           Serialize(t) \/ SerializeFail(t) \/ Lock(t) \/ Unlock(t) => P,
         \A t \in Threads : Check(t) \/ SendRetry(t) \/ SendFail(t) => P,
         \A t \in Threads : Send(t) => P
  PROVE  P
  BY DEF Next, Peers, Serving, Sending

(* Every step keeps the types.                                             *)
LEMMA TypeStep == IInv /\ [Next]_vars => TypeOK'
<1> SUFFICES ASSUME IInv, [Next]_vars PROVE TypeOK'
  OBVIOUS
<1> USE ServerAssumption DEF IInv, TypeOK, Threads, SendStates, ServerStates,
        stopVars, runVars, netVars, fdVars, wireVars, sendVars
<1>1. ASSUME NEW c \in Conns, Connect(c) \/ PeerClose(c) PROVE TypeOK'
  BY <1>1 DEF Connect, PeerClose
<1>2. CASE Run \/ InitFail \/ Stop \/ Start
  BY <1>2 DEF Run, InitFail, Stop, Start
<1>3. CASE Setup \/ AcceptStop \/ AcceptFail \/ Publish
  BY <1>3 DEF Setup, AcceptStop, AcceptFail, Publish
<1>4. ASSUME NEW c \in Conns, NEW f \in Fds, Accept(c, f) PROVE TypeOK'
  BY <1>4 DEF Accept
<1>5. ASSUME NEW c \in Conns, AcceptTransient(c) PROVE TypeOK'
  BY <1>5 DEF AcceptTransient
<1>6. CASE ReadStop \/ ReadData \/ ReadEnd \/ Close \/ Cleanup
  BY <1>6 DEF ReadStop, ReadData, ReadEnd, Close, Cleanup
<1>7. CASE Handle
  BY <1>7 DEF Handle, EventSend
<1>8. ASSUME NEW t \in Callers, CallerSend(t) PROVE TypeOK'
  BY <1>8 DEF CallerSend, EventSend
<1>9. ASSUME NEW t \in Threads,
             Serialize(t) \/ SerializeFail(t) \/ Lock(t) \/ Unlock(t)
      PROVE TypeOK'
  <2>1. CASE Serialize(t) \/ SerializeFail(t)
    BY <2>1 DEF Serialize, SerializeFail
  <2>2. CASE Lock(t)
    BY <2>2 DEF Lock
  <2>3. CASE Unlock(t)
    <3>1. sent' \in [Threads -> 0..MsgLen]
      BY <2>3 DEF Unlock
    <3> QED
      BY <2>3, <3>1 DEF Unlock
  <2> QED
    BY <1>9, <2>1, <2>2, <2>3
<1>10. ASSUME NEW t \in Threads, Check(t) \/ SendRetry(t) \/ SendFail(t)
       PROVE TypeOK'
  <2>1. CASE Check(t) \/ SendRetry(t)
    BY <2>1 DEF Check, SendRetry
  <2>2. CASE SendFail(t)
    <3>1. sfd[t] \in Fds
      BY <2>2 DEF SendFail, Mutex
    <3>2. cut' \in SUBSET Conns
      BY <2>2, <3>1 DEF SendFail, Broken
    <3> QED
      BY <2>2, <3>2 DEF SendFail
  <2> QED
    BY <1>10, <2>1, <2>2
<1>11. ASSUME NEW t \in Threads, Send(t) PROVE TypeOK'
  BY <1>11 DEF Send, Mutex, MidEvent, InSection, Pieces, Nothing
<1>12. CASE UNCHANGED vars
  BY <1>12 DEF vars
<1> QED
  BY <1>1, <1>2, <1>3, <1>4, <1>5, <1>6, <1>7, <1>8, <1>9, <1>10, <1>11,
     <1>12, StepCases

(* The server thread keeps one descriptor and publishes no other.          *)
LEMMA ControlStep == IInv /\ [Next]_vars => Control'
<1> SUFFICES ASSUME IInv, [Next]_vars, TypeOK' PROVE Control'
  BY TypeStep
<1> USE ServerAssumption DEF IInv, TypeOK, Control, Threads,
        stopVars, runVars, netVars, fdVars, wireVars, sendVars
<1>1. ASSUME NEW c \in Conns, Connect(c) \/ PeerClose(c) PROVE Control'
  BY <1>1 DEF Connect, PeerClose
<1>2. CASE Run \/ InitFail \/ Stop \/ Start
  BY <1>2 DEF Run, InitFail, Stop, Start
<1>3. CASE Setup \/ AcceptStop \/ AcceptFail \/ Publish
  BY <1>3 DEF Setup, AcceptStop, AcceptFail, Publish
<1>4. ASSUME NEW c \in Conns, NEW f \in Fds, Accept(c, f) PROVE Control'
  BY <1>4 DEF Accept
<1>5. ASSUME NEW c \in Conns, AcceptTransient(c) PROVE Control'
  BY <1>5 DEF AcceptTransient
<1>6. CASE ReadStop \/ ReadData \/ ReadEnd \/ Close \/ Cleanup
  BY <1>6 DEF ReadStop, ReadData, ReadEnd, Close, Cleanup
<1>7. CASE Handle
  BY <1>7 DEF Handle, EventSend
<1>8. ASSUME NEW t \in Callers, CallerSend(t) PROVE Control'
  BY <1>8 DEF CallerSend, EventSend
<1>9. ASSUME NEW t \in Threads,
             Serialize(t) \/ SerializeFail(t) \/ Lock(t) \/ Unlock(t)
      PROVE Control'
  BY <1>9 DEF Serialize, SerializeFail, Lock, Unlock
<1>10. ASSUME NEW t \in Threads, Check(t) \/ SendRetry(t) \/ SendFail(t)
       PROVE Control'
  BY <1>10 DEF Check, SendRetry, SendFail
<1>11. ASSUME NEW t \in Threads, Send(t) PROVE Control'
  BY <1>11 DEF Send
<1>12. CASE UNCHANGED vars
  BY <1>12 DEF vars
<1> QED
  BY <1>1, <1>2, <1>3, <1>4, <1>5, <1>6, <1>7, <1>8, <1>9, <1>10, <1>11,
     <1>12, StepCases

(* send_mutex keeps the section of wsat_event_send to one thread.          *)
LEMMA MutexStep == IInv /\ [Next]_vars => Mutex'
<1> SUFFICES ASSUME IInv, [Next]_vars, TypeOK' PROVE Mutex'
  BY TypeStep
<1> USE ServerAssumption DEF IInv, TypeOK, Mutex, Threads,
        stopVars, runVars, netVars, fdVars, wireVars, sendVars,
        InSection, MidEvent, SendStates, Control
<1>1. ASSUME NEW c \in Conns, Connect(c) \/ PeerClose(c) PROVE Mutex'
  BY <1>1 DEF Connect, PeerClose
<1>2. CASE Run \/ InitFail \/ Stop \/ Start
  BY <1>2 DEF Run, InitFail, Stop, Start
<1>3. CASE Setup \/ AcceptStop \/ AcceptFail \/ Publish
  BY <1>3 DEF Setup, AcceptStop, AcceptFail, Publish
<1>4. ASSUME NEW c \in Conns, NEW f \in Fds, Accept(c, f) PROVE Mutex'
  BY <1>4 DEF Accept
<1>5. ASSUME NEW c \in Conns, AcceptTransient(c) PROVE Mutex'
  BY <1>5 DEF AcceptTransient
<1>6. CASE ReadStop \/ ReadData \/ ReadEnd \/ Close \/ Cleanup
  BY <1>6 DEF ReadStop, ReadData, ReadEnd, Close, Cleanup
<1>7. CASE Handle
  BY <1>7 DEF Handle, EventSend
<1>8. ASSUME NEW t \in Callers, CallerSend(t) PROVE Mutex'
  BY <1>8 DEF CallerSend, EventSend
<1>9. ASSUME NEW t \in Threads,
             Serialize(t) \/ SerializeFail(t) \/ Lock(t) \/ Unlock(t)
      PROVE Mutex'
  BY <1>9 DEF Serialize, SerializeFail, Lock, Unlock
<1>10. ASSUME NEW t \in Threads, Check(t) \/ SendRetry(t) \/ SendFail(t)
       PROVE Mutex'
  BY <1>10 DEF Check, SendRetry, SendFail
<1>11. ASSUME NEW t \in Threads, Send(t) PROVE Mutex'
  BY <1>11 DEF Send
<1>12. CASE UNCHANGED vars
  BY <1>12 DEF vars
<1> QED
  BY <1>1, <1>2, <1>3, <1>4, <1>5, <1>6, <1>7, <1>8, <1>9, <1>10, <1>11,
     <1>12, StepCases

(* Nothing is sent to a connection before it is accepted.                  *)
LEMMA FreshStep == IInv /\ [Next]_vars => Fresh'
<1> SUFFICES ASSUME IInv, [Next]_vars, TypeOK' PROVE Fresh'
  BY TypeStep
<1> USE ServerAssumption DEF IInv, TypeOK, Fresh, Threads,
        stopVars, runVars, netVars, fdVars, wireVars, sendVars
<1>1. ASSUME NEW c \in Conns, Connect(c) \/ PeerClose(c) PROVE Fresh'
  BY <1>1 DEF Connect, PeerClose
<1>2. CASE Run \/ InitFail \/ Stop \/ Start
  BY <1>2 DEF Run, InitFail, Stop, Start
<1>3. CASE Setup \/ AcceptStop \/ AcceptFail \/ Publish
  BY <1>3 DEF Setup, AcceptStop, AcceptFail, Publish
<1>4. ASSUME NEW c \in Conns, NEW f \in Fds, Accept(c, f) PROVE Fresh'
  BY <1>4 DEF Accept
<1>5. ASSUME NEW c \in Conns, AcceptTransient(c) PROVE Fresh'
  BY <1>5 DEF AcceptTransient
<1>6. CASE ReadStop \/ ReadData \/ ReadEnd \/ Close \/ Cleanup
  BY <1>6 DEF ReadStop, ReadData, ReadEnd, Close, Cleanup
<1>7. CASE Handle
  BY <1>7 DEF Handle, EventSend
<1>8. ASSUME NEW t \in Callers, CallerSend(t) PROVE Fresh'
  BY <1>8 DEF CallerSend, EventSend
<1>9. ASSUME NEW t \in Threads,
             Serialize(t) \/ SerializeFail(t) \/ Lock(t) \/ Unlock(t)
      PROVE Fresh'
  BY <1>9 DEF Serialize, SerializeFail, Lock, Unlock
<1>10. ASSUME NEW t \in Threads, Check(t) \/ SendRetry(t) \/ SendFail(t)
       PROVE Fresh'
  BY <1>10 DEF Check, SendRetry, SendFail
<1>11. ASSUME NEW t \in Threads, Send(t) PROVE Fresh'
  BY <1>11 DEF Send, Mutex, InSection
<1>12. CASE UNCHANGED vars
  BY <1>12 DEF vars
<1> QED
  BY <1>1, <1>2, <1>3, <1>4, <1>5, <1>6, <1>7, <1>8, <1>9, <1>10, <1>11,
     <1>12, StepCases

(* A sender's own last piece stays the last one its peer received.         *)
LEMMA SenderMatchesStep == IInv /\ [Next]_vars => SenderMatches'
<1> SUFFICES ASSUME IInv, [Next]_vars, TypeOK' PROVE SenderMatches'
  BY TypeStep
<1> USE ServerAssumption DEF IInv, TypeOK, SenderMatches, Threads,
        stopVars, runVars, netVars, fdVars, wireVars, sendVars,
        MidEvent, InSection, Mutex, Fresh, Control, SendStates
<1>1. ASSUME NEW c \in Conns, Connect(c) \/ PeerClose(c) PROVE SenderMatches'
  BY <1>1 DEF Connect, PeerClose
<1>2. CASE Run \/ InitFail \/ Stop \/ Start
  BY <1>2 DEF Run, InitFail, Stop, Start
<1>3. CASE Setup \/ AcceptStop \/ AcceptFail \/ Publish
  BY <1>3 DEF Setup, AcceptStop, AcceptFail, Publish
<1>4. ASSUME NEW c \in Conns, NEW f \in Fds, Accept(c, f) PROVE SenderMatches'
  BY <1>4 DEF Accept
<1>5. ASSUME NEW c \in Conns, AcceptTransient(c) PROVE SenderMatches'
  BY <1>5 DEF AcceptTransient
<1>6. CASE ReadStop \/ ReadData \/ ReadEnd \/ Close \/ Cleanup
  BY <1>6 DEF ReadStop, ReadData, ReadEnd, Close, Cleanup
<1>7. CASE Handle
  BY <1>7 DEF Handle, EventSend
<1>8. ASSUME NEW t \in Callers, CallerSend(t) PROVE SenderMatches'
  BY <1>8 DEF CallerSend, EventSend
<1>9. ASSUME NEW t \in Threads,
             Serialize(t) \/ SerializeFail(t) \/ Lock(t) \/ Unlock(t)
      PROVE SenderMatches'
  BY <1>9 DEF Serialize, SerializeFail, Lock, Unlock
<1>10. ASSUME NEW t \in Threads, Check(t) \/ SendRetry(t) \/ SendFail(t)
       PROVE SenderMatches'
  BY <1>10 DEF Check, SendRetry, SendFail
<1>11. ASSUME NEW t \in Threads, Send(t) PROVE SenderMatches'
  BY <1>11 DEF Send
<1>12. CASE UNCHANGED vars
  BY <1>12 DEF vars
<1> QED
  BY <1>1, <1>2, <1>3, <1>4, <1>5, <1>6, <1>7, <1>8, <1>9, <1>10, <1>11,
     <1>12, StepCases

(* The thread that left an event unfinished is one of the threads.         *)
LEMMA LastIsByThread ==
  ASSUME TypeOK, NEW c \in Conns, last[c].piece # 0
  PROVE  last[c].by \in Threads
  BY DEF TypeOK, Pieces, Nothing

(* An unfinished event stays held, or stays given up.                      *)
LEMMA UnfinishedIsHeldStep == IInv /\ [Next]_vars => UnfinishedIsHeld'
<1> SUFFICES ASSUME IInv, [Next]_vars, TypeOK',
                NEW f \in Fds
         PROVE  HeldOn(f)'
  BY TypeStep DEF UnfinishedIsHeld
<1> USE ServerAssumption DEF IInv, TypeOK, UnfinishedIsHeld, HeldOn, Threads,
        stopVars, runVars, netVars, fdVars, wireVars, sendVars,
        MidEvent, InSection, Mutex, Fresh, Control, SendStates
<1> DEFINE c0 == fdtab[f]
           Unfinished == c0 # None /\ peer[c0] = "up" /\
                         last[c0].piece \in 1..(MsgLen - 1)
<1>0. ASSUME UNCHANGED <<peer, fdtab, last>>, cut \subseteq cut', ~HeldOn(f)'
      PROVE  /\ Unfinished /\ HeldOn(f) /\ last[c0].by \in Threads
             /\ ~(stop_requested' /\ \A u \in Threads : spc'[u] # "send")
             /\ ~(/\ MidEvent(last[c0].by)' /\ sfd'[last[c0].by] = f
                  /\ sent'[last[c0].by] = last[c0].piece)
  BY <1>0, LastIsByThread
<1>1. ASSUME NEW c \in Conns, Connect(c) \/ PeerClose(c) PROVE HeldOn(f)'
  BY <1>1 DEF Connect, PeerClose
<1>2. CASE Run \/ InitFail \/ Stop \/ Start
  BY <1>2 DEF Run, InitFail, Stop, Start
<1>3. CASE Setup \/ AcceptStop \/ AcceptFail \/ Publish
  BY <1>3 DEF Setup, AcceptStop, AcceptFail, Publish
<1>4. ASSUME NEW c \in Conns, NEW g \in Fds, Accept(c, g) PROVE HeldOn(f)'
  BY <1>4 DEF Accept, Nothing
<1>5. ASSUME NEW c \in Conns, AcceptTransient(c) PROVE HeldOn(f)'
  BY <1>5 DEF AcceptTransient
<1>6. CASE ReadStop \/ ReadData \/ ReadEnd \/ Close \/ Cleanup
  BY <1>6 DEF ReadStop, ReadData, ReadEnd, Close, Cleanup
<1>7. CASE Handle
  BY <1>0, <1>7 DEF Handle, EventSend
<1>8. ASSUME NEW t \in Callers, CallerSend(t) PROVE HeldOn(f)'
  BY <1>0, <1>8 DEF CallerSend, EventSend
<1>9. ASSUME NEW t \in Threads,
             Serialize(t) \/ SerializeFail(t) \/ Lock(t) \/ Unlock(t)
      PROVE HeldOn(f)'
  BY <1>0, <1>9 DEF Serialize, SerializeFail, Lock, Unlock
<1>10. ASSUME NEW t \in Threads, Check(t) \/ SendRetry(t) \/ SendFail(t)
       PROVE HeldOn(f)'
  <2>1. CASE Check(t)
    BY <1>0, <2>1 DEF Check
  <2>2. CASE SendRetry(t)
    BY <1>0, <2>2 DEF SendRetry
  <2>3. CASE SendFail(t)
    <3>1. sfd[t] \in Fds
      BY <2>3 DEF SendFail
    <3>2. cut \subseteq cut' /\ (~Broken(sfd[t]) => fdtab[sfd[t]] \in cut')
      BY <2>3 DEF SendFail
    <3> QED
      BY <1>0, <2>3, <3>1, <3>2 DEF SendFail, Broken
  <2> QED
    BY <1>10, <2>1, <2>2, <2>3
<1>11. ASSUME NEW t \in Threads, Send(t) PROVE HeldOn(f)'
  BY <1>11 DEF Send
<1>12. CASE UNCHANGED vars
  BY <1>12 DEF vars
<1> QED
  BY <1>1, <1>2, <1>3, <1>4, <1>5, <1>6, <1>7, <1>8, <1>9, <1>10, <1>11,
     <1>12, StepCases

-----------------------------------------------------------------------------
(* The invariant holds in every reachable state, for every value of the    *)
(* constants.                                                              *)
LEMMA IInvStep == IInv /\ [Next]_vars => IInv'
  BY TypeStep, ControlStep, MutexStep, FreshStep, SenderMatchesStep,
     UnfinishedIsHeldStep DEF IInv

THEOREM Invariance == Spec => []IInv
  BY InitIInv, IInvStep, PTL DEF Spec

(* Every variable stays in its type.                                       *)
THEOREM TypeCorrect == Spec => []TypeOK
<1>1. IInv => TypeOK
  BY DEF IInv
<1> QED
  BY Invariance, <1>1, PTL

(* What wsat_event_send reads from server->connfd is always an open        *)
(* descriptor, the one wsat_server_run serves.                             *)
THEOREM PublishedOpen == Spec => []PublishedIsOpen
<1>1. IInv => PublishedIsOpen
  BY DEF IInv, Control, PublishedIsOpen
<1> QED
  BY Invariance, <1>1, PTL

(* wsat_server_run closes every descriptor accept() gave it.               *)
THEOREM NoLeak == Spec => []NoDescriptorLeak
<1>1. IInv => NoDescriptorLeak
  BY DEF IInv, Control, NoDescriptorLeak
<1> QED
  BY Invariance, <1>1, PTL

(* The server thread's answers go to the connection being served.          *)
THEOREM AnswersStay == Spec => []AnswerStaysOnConnection
<1>1. IInv => AnswerStaysOnConnection
  BY DEF IInv, Control, AnswerStaysOnConnection
<1> QED
  BY Invariance, <1>1, PTL

(* A peer receives a piece only when a thread holding send_mutex sends one *)
(* on the descriptor of its connection.                                    *)
LEMMA OnlySendWrites ==
  ASSUME IInv, [Next]_vars, NEW c \in Conns, last'[c] # last[c]
  PROVE  \E t \in Threads :
           /\ spc[t] = "send" /\ send_mutex = t /\ sent[t] < MsgLen
           /\ sfd[t] \in Fds /\ fdtab[sfd[t]] = c /\ c # None
           /\ peer[c] = "up"
           /\ last'[c] = [by |-> t, piece |-> sent[t] + 1]
<1> DEFINE Wrote == \E t \in Threads : Send(t)
<1>1. ~UNCHANGED last
  OBVIOUS
<1>2. Next
  BY <1>1 DEF vars, wireVars
<1>3. Wrote
  BY <1>1, <1>2
  DEF wireVars, Next, Peers, Serving, Sending, Connect, PeerClose, Run, InitFail, Stop,
      Start, Setup, AcceptStop, Accept, AcceptTransient, AcceptFail, Publish,
      ReadStop, ReadData, ReadEnd, Close, Cleanup, Handle, CallerSend,
      Serialize, SerializeFail, Lock, Check, SendRetry, SendFail, Unlock
<1>4. PICK t \in Threads : Send(t)
  BY <1>3
<1>5. /\ spc[t] = "send" /\ send_mutex = t /\ sent[t] < MsgLen
      /\ sfd[t] \in Fds
  BY <1>4 DEF Send, IInv, Mutex, InSection, MidEvent
<1>6. /\ fdtab[sfd[t]] = c /\ c # None /\ peer[c] = "up"
      /\ last'[c] = [by |-> t, piece |-> sent[t] + 1]
  BY <1>4, <1>5, ServerAssumption DEF Send, IInv, TypeOK
<1> QED
  BY <1>5, <1>6

(* A thread that has sent part of its event adds the next piece of it, or  *)
(* writes on a connection that received nothing.                           *)
LEMMA LaterPiece ==
  ASSUME IInv, NEW t \in Threads, NEW c \in Conns, spc[t] = "send",
         sent[t] # 0, sfd[t] \in Fds, fdtab[sfd[t]] = c, c # None,
         peer[c] = "up", last'[c] = [by |-> t, piece |-> sent[t] + 1]
  PROVE  Continues(c) \/ last[c] = Nothing
<1>1. sent[t] > 0
  BY DEF IInv, TypeOK
<1>2. last[c] = Nothing \/ last[c] = [by |-> t, piece |-> sent[t]]
  BY <1>1 DEF IInv, SenderMatches, MidEvent
<1> QED
  BY <1>2 DEF Continues

(* No two threads interleave the bytes of their events, even when sends    *)
(* fail on healthy connections.                                            *)
THEOREM Interleaving == Spec => NoInterleaving
<1> DEFINE Allowed(c) ==
      \/ Continues(c)
      \/ StartsEvent(c) /\ (Between(c) \/ sent[last[c].by] = 0)
      \/ last[c] = Nothing
<1>1. ASSUME IInv, [Next]_vars, NEW c \in Conns, last'[c] # last[c]
      PROVE  Allowed(c)
  <2>1. PICK t \in Threads :
          /\ spc[t] = "send" /\ send_mutex = t /\ sent[t] < MsgLen
          /\ sfd[t] \in Fds /\ fdtab[sfd[t]] = c /\ c # None
          /\ peer[c] = "up"
          /\ last'[c] = [by |-> t, piece |-> sent[t] + 1]
    BY <1>1, OnlySendWrites
  <2>2. CASE sent[t] # 0
    BY <1>1, <2>1, <2>2, LaterPiece
  <2>3. CASE sent[t] = 0
    <3>1. StartsEvent(c)
      BY <2>1, <2>3 DEF StartsEvent
    <3>2. CASE Between(c)
      BY <3>1, <3>2
    <3>3. CASE ~Between(c)
      <4>1. last[c].by \in Threads
        BY <1>1, <3>3, LastIsByThread DEF Between, IInv
      <4>2. sent[last[c].by] = 0
        BY <1>1, <2>1, <2>3, <4>1 DEF IInv, Mutex
      <4> QED
        BY <3>1, <4>2
    <3> QED
      BY <3>2, <3>3
  <2> QED
    BY <2>2, <2>3
<1>2. IInv /\ [Next]_vars =>
        [\A c \in Conns : last'[c] # last[c] => Allowed(c)]_vars
  BY <1>1
<1> HIDE DEF Allowed
<1>3. Spec => [][\A c \in Conns : last'[c] # last[c] => Allowed(c)]_vars
  BY Invariance, <1>2, PTL DEF Spec
<1> QED
  BY <1>3 DEF NoInterleaving, Allowed

(* As long as sends fail only with their connection, a peer receives whole *)
(* events in sequence, except what a sender overtaken by a reconnection    *)
(* leaves at the start of the next connection.                             *)
THEOREM Whole == Spec => WholeEvents
<1> DEFINE Allowed(c) ==
      \/ Continues(c)
      \/ StartsEvent(c) /\ (Between(c) \/ c \in cut)
      \/ last[c] = Nothing
<1>1. ASSUME IInv, [Next]_vars, NEW c \in Conns, last'[c] # last[c]
      PROVE  Allowed(c)
  <2>1. PICK t \in Threads :
          /\ spc[t] = "send" /\ send_mutex = t /\ sent[t] < MsgLen
          /\ sfd[t] \in Fds /\ fdtab[sfd[t]] = c /\ c # None
          /\ peer[c] = "up"
          /\ last'[c] = [by |-> t, piece |-> sent[t] + 1]
    BY <1>1, OnlySendWrites
  <2>2. CASE sent[t] # 0
    BY <1>1, <2>1, <2>2, LaterPiece
  <2>3. CASE sent[t] = 0
    <3>1. StartsEvent(c)
      BY <2>1, <2>3 DEF StartsEvent
    <3>2. HeldOn(sfd[t])
      BY <1>1, <2>1 DEF IInv, UnfinishedIsHeld
    <3>3. ASSUME ~Between(c), c \notin cut PROVE FALSE
      <4>1. last[c].by \in Threads
        BY <1>1, <3>3, LastIsByThread DEF Between, IInv
      <4>2. last[c].piece \in 1..(MsgLen - 1)
        BY <1>1, <3>3, ServerAssumption
        DEF Between, IInv, TypeOK, Pieces, Nothing
      <4>3. MidEvent(last[c].by) /\ sent[last[c].by] = last[c].piece
        BY <2>1, <3>2, <3>3, <4>2 DEF HeldOn
      <4>4. last[c].by = t
        BY <1>1, <2>1, <4>1, <4>3 DEF IInv, Mutex, InSection, MidEvent
      <4> QED
        BY <2>3, <4>2, <4>3, <4>4
    <3> QED
      BY <3>1, <3>3
  <2> QED
    BY <2>2, <2>3
<1>2. IInv /\ [Next]_vars =>
        [\A c \in Conns : last'[c] # last[c] => Allowed(c)]_vars
  BY <1>1
<1> HIDE DEF Allowed
<1>3. Spec => [][\A c \in Conns : last'[c] # last[c] => Allowed(c)]_vars
  BY Invariance, <1>2, PTL DEF Spec
<1> QED
  BY <1>3 DEF WholeEvents, Allowed

=============================================================================
