------------------------ MODULE ServerConnectionProofs ------------------------
(***************************************************************************)
(* SatelliteServer keeps the promise of Connection, for any number of      *)
(* callers, connections, descriptors and pieces per event.  The invariant  *)
(* relates the history to the descriptors of the senders and to what the   *)
(* peer of the present connection received last.                           *)
(***************************************************************************)
EXTENDS ServerConnection, SatelliteServerProofs

HistoryType ==
  /\ stale \subseteq Threads /\ heard \subseteq Threads
  /\ lost \in BOOLEAN /\ clean \in BOOLEAN
  /\ \A t \in stale : Inside(t)

(* A descriptor that is not stale is the server thread's own.              *)
HeldIsPresent ==
  \A t \in Threads : Inside(t) /\ t \notin stale => fd # None /\ sfd[t] = fd

(* A sender that is not stale finds its own last piece: nothing came       *)
(* between its pieces, and its event began on this connection.             *)
HeldContinues ==
  \A t \in Threads :
    Inside(t) /\ t \notin stale /\ sent[t] > 0 /\ Link = "up" =>
      last[fdtab[fd]] = [by |-> t, piece |-> sent[t]]

(* A send fails on accepted connections only, and where it failed although *)
(* the connection was healthy, its event is lost.                          *)
CutAccepted == \A c \in cut : c \notin backlog /\ peer[c] # "none"
CutIsLost   == Link = "up" /\ fdtab[fd] \in cut => lost

(* A header may lack a length only while somebody sends it, and who does so *)
(* on the connection it took has spoilt its event.                         *)
BareIsLost ==
  /\ bare => send_mutex # None
  /\ \A t \in Threads :
       bare /\ send_mutex = t /\ Inside(t) /\ t \notin stale /\ Link = "up" => lost

Forgotten == Link # "up" => heard = {} /\ ~lost /\ clean

HistoryInv ==
  /\ HistoryType /\ HeldIsPresent /\ HeldContinues
  /\ CutIsLost /\ BareIsLost /\ Forgotten

HInv == IInv /\ CutAccepted /\ HistoryInv

-----------------------------------------------------------------------------
(* What the views of the present connection have to do with each other.    *)
LEMMA LinkValues ==
  ASSUME IInv
  PROVE  /\ Link \in {"none", "up", "gone"}
         /\ Link = "none" <=> fd = None
         /\ fd # None => /\ fd \in Fds /\ fdtab[fd] \in Conns
                         /\ Link = peer[fdtab[fd]]
  BY ServerAssumption DEF IInv, TypeOK, Control, Fresh, Link

(* A thread before or in the middle of its event has pieces left.          *)
LEMMA PiecesLeft ==
  ASSUME IInv, NEW t \in Threads
  PROVE  /\ sent[t] \in 0..MsgLen /\ MsgLen \in Nat /\ MsgLen > 0
         /\ Inside(t) => sfd[t] \in Fds /\ sent[t] < MsgLen
         /\ spc[t] = "idle" => ~Inside(t)
         /\ spc[t] \in {"serialize", "lock"} => sent[t] = 0
  BY ServerAssumption DEF IInv, TypeOK, Mutex, InSection, MidEvent, Inside

(* Steps that neither touch the connection nor a thread inside             *)
(* wsat_event_send.                                                        *)
Still ==
  /\ fd' = fd /\ Link' = Link
  /\ Link = "up" => /\ fdtab'[fd] = fdtab[fd] /\ cut' = cut
                   /\ last'[fdtab[fd]] = last[fdtab[fd]]
  /\ \A t \in Threads :
       /\ Inside(t)' = Inside(t)
       /\ Inside(t) => sfd'[t] = sfd[t] /\ sent'[t] = sent[t]
       /\ sent'[t] <= sent[t]
  /\ bare' => bare /\ send_mutex' = send_mutex

LEMMA StillRemembers ==
  ASSUME HInv, IInv', Remember, Still
  PROVE  UNCHANGED history
<1>1. \A t \in Threads : ~Arrives(t) /\ ~GivesUp(t)
  <2> SUFFICES ASSUME NEW t \in Threads PROVE ~Arrives(t) /\ ~GivesUp(t)
    OBVIOUS
  <2>1. sent[t] \in Nat /\ sent'[t] \in Nat
    BY DEF HInv, IInv, TypeOK
  <2> QED
    BY <2>1 DEF Still, Arrives, GivesUp
<1>2. stale' = stale
  BY DEF Remember, Still, HInv, HistoryInv, HistoryType
<1>3. heard' = heard
  BY <1>1 DEF Remember, Still, HInv, HistoryInv, HistoryType, Forgotten
<1>4. lost' = lost
  BY <1>1 DEF Remember, Still, Spoils, HInv, HistoryInv, HistoryType, Forgotten
<1>5. clean' = clean
  BY <1>1 DEF Remember, Still, HInv, HistoryInv, HistoryType, Forgotten
<1> QED
  BY <1>2, <1>3, <1>4, <1>5 DEF history

LEMMA StillKeeps ==
  ASSUME HInv, IInv', Remember, Still
  PROVE  HistoryInv' /\ UNCHANGED Promise!vars
<1>1. UNCHANGED <<stale, heard, lost, clean>>
  BY StillRemembers DEF history
<1>2. HistoryType'
  BY <1>1 DEF HInv, HistoryInv, HistoryType, Still
<1>3. HeldIsPresent'
  BY <1>1 DEF HInv, HistoryInv, HeldIsPresent, Still
<1>4. HeldContinues'
  BY <1>1 DEF HInv, HistoryInv, HeldContinues, Still
<1>5. CutIsLost'
  BY <1>1 DEF HInv, HistoryInv, CutIsLost, Still
<1>6. BareIsLost' /\ Forgotten'
  BY <1>1 DEF HInv, HistoryInv, BareIsLost, Forgotten, Still
<1>7. \A t \in Threads : Taken(t)' = Taken(t)
  BY <1>1 DEF Taken, Still
<1>8. UNCHANGED Promise!vars
  BY <1>1, <1>7 DEF Promise!vars, Still
<1> QED
  BY <1>2, <1>3, <1>4, <1>5, <1>6, <1>8 DEF HistoryInv

-----------------------------------------------------------------------------
(* The actions that are still: most of the server's, and some of a         *)
(* sender's.                                                               *)
LEMMA ServerIsStill ==
  ASSUME IInv,
         \/ Run \/ InitFail \/ Stop \/ Start \/ Setup \/ AcceptStop
         \/ AcceptFail \/ Publish \/ ReadStop \/ ReadData \/ ReadEnd
         \/ \E c \in Conns : AcceptTransient(c)
  PROVE  Still
<1>1. UNCHANGED <<fd, peer, fdtab, last, cut, send_mutex, bare, spc, sfd, sent>>
  BY DEF Run, InitFail, Stop, Start, Setup, AcceptStop, AcceptFail, Publish,
     ReadStop, ReadData, ReadEnd, AcceptTransient, IInv, Control,
     fdVars, wireVars, sendVars, netVars
<1> QED
  BY <1>1 DEF Still, Link, Inside, IInv, TypeOK

LEMMA OtherPeersAreStill ==
  ASSUME IInv, NEW c \in Conns, fd # None => c # fdtab[fd],
         Connect(c) \/ PeerClose(c)
  PROVE  Still
<1>1. UNCHANGED <<fd, fdtab, last, cut, send_mutex, bare, spc, sfd, sent>>
  BY DEF Connect, PeerClose, fdVars, wireVars, sendVars
<1>2. fd # None => peer'[fdtab[fd]] = peer[fdtab[fd]]
  BY LinkValues DEF Connect, PeerClose, IInv, TypeOK
<1> QED
  BY <1>1, <1>2 DEF Still, Link, Inside, IInv, TypeOK

LEMMA CleanupIsStill ==
  ASSUME IInv, Cleanup
  PROVE  Still
<1>1. fd = None
  BY DEF IInv, Control, Cleanup
<1> QED
  BY <1>1 DEF Cleanup, Still, Link, Inside, IInv, TypeOK, fdVars, wireVars, sendVars

LEMMA SenderIsStill ==
  ASSUME IInv, NEW t \in Threads,
         \/ Serialize(t) \/ SendRetry(t) \/ Unlock(t)
         \/ Check(t) /\ ~stop_requested
  PROVE  Still
<1>1. UNCHANGED <<fd, peer, fdtab, last, cut>>
  BY DEF Serialize, SendRetry, Unlock, Check, fdVars, wireVars, netVars
<1>2. \A u \in Threads : Inside(u)' = Inside(u)
  BY DEF Serialize, SendRetry, Unlock, Check, Inside, IInv, TypeOK
<1>3. \A u \in Threads : /\ Inside(u) => sfd'[u] = sfd[u] /\ sent'[u] = sent[u]
                         /\ sent'[u] <= sent[u]
  BY PiecesLeft DEF Serialize, SendRetry, Unlock, Check, Inside, IInv, TypeOK
<1>4. bare' => bare /\ send_mutex' = send_mutex
  BY DEF Serialize, SendRetry, Unlock, Check
<1> QED
  BY <1>1, <1>2, <1>3, <1>4 DEF Still, Link

-----------------------------------------------------------------------------
(* A send has failed only on a connection that had been accepted.          *)
LEMMA CutAcceptedStep == IInv /\ CutAccepted /\ [Next]_vars => CutAccepted'
<1> SUFFICES ASSUME IInv, CutAccepted, [Next]_vars PROVE CutAccepted'
  OBVIOUS
<1> USE ServerAssumption DEF IInv, TypeOK, CutAccepted, Threads,
        stopVars, runVars, netVars, fdVars, wireVars, sendVars
<1>1. ASSUME NEW c \in Conns, Connect(c) \/ PeerClose(c) PROVE CutAccepted'
  BY <1>1 DEF Connect, PeerClose
<1>2. CASE Run \/ InitFail \/ Stop \/ Start
  BY <1>2 DEF Run, InitFail, Stop, Start
<1>3. CASE Setup \/ AcceptStop \/ AcceptFail \/ Publish
  BY <1>3 DEF Setup, AcceptStop, AcceptFail, Publish
<1>4. ASSUME NEW c \in Conns, NEW f \in Fds, Accept(c, f) PROVE CutAccepted'
  BY <1>4 DEF Accept
<1>5. ASSUME NEW c \in Conns, AcceptTransient(c) PROVE CutAccepted'
  BY <1>5 DEF AcceptTransient
<1>6. CASE ReadStop \/ ReadData \/ ReadEnd \/ Close \/ Cleanup
  BY <1>6 DEF ReadStop, ReadData, ReadEnd, Close, Cleanup
<1>7. CASE Handle
  BY <1>7 DEF Handle
<1>8. ASSUME NEW t \in Callers, CallerSend(t) PROVE CutAccepted'
  BY <1>8 DEF CallerSend
<1>9. ASSUME NEW t \in Threads,
             Serialize(t) \/ SerializeFail(t) \/ Lock(t) \/ Unlock(t)
      PROVE CutAccepted'
  BY <1>9 DEF Serialize, SerializeFail, Lock, Unlock
<1>10. ASSUME NEW t \in Threads, Check(t) \/ SendRetry(t) \/ SendFail(t)
       PROVE CutAccepted'
  <2>1. CASE Check(t) \/ SendRetry(t)
    BY <2>1 DEF Check, SendRetry
  <2>2. CASE SendFail(t)
    <3>1. sfd[t] \in Fds
      BY <2>2, PiecesLeft DEF SendFail, Inside
    <3>2. \A c \in cut' : c \in cut \/ (c = fdtab[sfd[t]] /\ c # None)
      BY <2>2 DEF SendFail, Broken
    <3>3. backlog' = backlog /\ peer' = peer
      BY <2>2 DEF SendFail
    <3> QED
      BY <3>1, <3>2, <3>3 DEF Fresh
  <2> QED
    BY <1>10, <2>1, <2>2
<1>11. ASSUME NEW t \in Threads, Send(t) PROVE CutAccepted'
  BY <1>11 DEF Send
<1>12. CASE UNCHANGED vars
  BY <1>12 DEF vars
<1> QED
  BY <1>1, <1>2, <1>3, <1>4, <1>5, <1>6, <1>7, <1>8, <1>9, <1>10, <1>11,
     <1>12, StepCases

-----------------------------------------------------------------------------
(* The connection changes: nobody inside wsat_event_send moves.            *)
LEMMA NobodyMoves ==
  ASSUME HInv, IInv', Remember, UNCHANGED sendVars
  PROVE  /\ \A t \in Threads : Inside(t)' = Inside(t) /\ ~Arrives(t) /\ ~GivesUp(t)
         /\ heard' = IF Link' = "up" THEN heard ELSE {}
         /\ lost' = (Link' = "up" /\ lost)
         /\ clean' = (Link' = "up" => clean)
<1>1. \A t \in Threads : Inside(t)' = Inside(t) /\ ~Arrives(t) /\ ~GivesUp(t)
  <2> SUFFICES ASSUME NEW t \in Threads
               PROVE  Inside(t)' = Inside(t) /\ ~Arrives(t) /\ ~GivesUp(t)
    OBVIOUS
  <2>1. sent[t] \in Nat /\ sent' = sent /\ spc' = spc
    BY DEF HInv, IInv, TypeOK, sendVars
  <2> QED
    BY <2>1 DEF Arrives, GivesUp, Inside
<1>2. heard' = IF Link' = "up" THEN heard ELSE {}
  BY <1>1 DEF Remember
<1>3. lost' = (Link' = "up" /\ lost)
  BY <1>1 DEF Remember, Spoils, sendVars
<1>4. clean' = (Link' = "up" => clean)
  BY <1>1 DEF Remember
<1> QED
  BY <1>1, <1>2, <1>3, <1>4

LEMMA PeerCloseKeeps ==
  ASSUME HInv, IInv', Remember, NEW c \in Conns, PeerClose(c),
         fd # None, c = fdtab[fd]
  PROVE  HistoryInv' /\ Promise!PeerClose
<1>1. UNCHANGED sendVars /\ fd' = fd /\ fdtab' = fdtab
  BY DEF PeerClose, fdVars
<1>2. Link = "up" /\ Link' = "gone"
  BY <1>1, LinkValues DEF PeerClose, HInv, IInv, TypeOK, Link
<1>3. /\ heard' = {} /\ lost' = FALSE /\ clean' = TRUE /\ stale' = stale
      /\ \A t \in Threads : Inside(t)' = Inside(t)
  BY <1>1, <1>2, NobodyMoves DEF Remember, HInv, HistoryInv, HistoryType
<1>4. \A t \in Threads : Taken(t)' = Taken(t)
  BY <1>3 DEF Taken
<1>5. Promise!PeerClose
  BY <1>2, <1>3, <1>4 DEF Promise!PeerClose, Promise!Forget
<1>6. HistoryType' /\ HeldIsPresent'
  BY <1>1, <1>3 DEF HInv, HistoryInv, HistoryType, HeldIsPresent, sendVars
<1>7. HeldContinues' /\ CutIsLost' /\ BareIsLost' /\ Forgotten'
  BY <1>1, <1>2, <1>3
  DEF HInv, HistoryInv, HeldContinues, CutIsLost, BareIsLost, Forgotten, sendVars
<1> QED
  BY <1>5, <1>6, <1>7 DEF HistoryInv

(* Before accept() everybody inside is left over from an earlier           *)
(* connection, and the new one has received nothing.                       *)
LEMMA AcceptKeeps ==
  ASSUME HInv, IInv', Remember, NEW c \in Conns, NEW f \in Fds, Accept(c, f)
  PROVE  HistoryInv' /\ Promise!Accept
<1>1. UNCHANGED <<sendVars, last, peer, cut>> /\ fd = None /\ fd' = f
  BY DEF Accept, HInv, IInv, Control, wireVars
<1>2. fdtab'[f] = c /\ peer[c] \in {"up", "gone"} /\ c \notin cut
  BY DEF Accept, HInv, IInv, TypeOK, Fresh, CutAccepted
<1>3. Link = "none" /\ Link' \in {"up", "gone"} /\ fd' # None
  BY <1>1, <1>2, ServerAssumption DEF Link
<1>4. heard = {} /\ lost = FALSE /\ clean = TRUE
  BY <1>3 DEF HInv, HistoryInv, HistoryType, Forgotten
<1>5. heard' = {} /\ lost' = FALSE /\ clean' = TRUE
  BY <1>1, <1>4, NobodyMoves
<1>6. /\ \A t \in Threads : Inside(t)' = Inside(t)
      /\ \A t \in Threads : Inside(t) => t \in stale
  BY <1>1, NobodyMoves DEF HInv, HistoryInv, HeldIsPresent
<1>7. stale' = stale
  BY <1>6 DEF Remember, HInv, HistoryInv, HistoryType
<1>8. \A t \in Threads : Taken(t)' = Taken(t)
  BY <1>6, <1>7 DEF Taken
<1>9. Promise!Accept
  BY <1>3, <1>4, <1>5, <1>8 DEF Promise!Accept
<1>10. HistoryType' /\ HeldIsPresent' /\ HeldContinues'
  BY <1>5, <1>6, <1>7 DEF HInv, HistoryInv, HistoryType, HeldIsPresent, HeldContinues
<1>11. CutIsLost' /\ Forgotten'
  BY <1>1, <1>2, <1>5 DEF CutIsLost, Forgotten
<1>12. BareIsLost'
  BY <1>1, <1>6, <1>7 DEF HInv, HistoryInv, BareIsLost, sendVars
<1> QED
  BY <1>9, <1>10, <1>11, <1>12 DEF HistoryInv

LEMMA CloseKeeps ==
  ASSUME HInv, IInv', Remember, Close
  PROVE  HistoryInv' /\ Promise!Disconnect
<1>1. UNCHANGED sendVars /\ fd # None /\ fd' = None
  BY DEF Close, HInv, IInv, Control
<1>2. Link # "none" /\ Link' = "none"
  BY <1>1, LinkValues DEF Link, HInv
<1>3. /\ heard' = {} /\ lost' = FALSE /\ clean' = TRUE
      /\ \A t \in Threads : Inside(t)' = Inside(t)
  BY <1>1, <1>2, NobodyMoves
<1>4. stale' = {t \in Threads : Inside(t)}
  BY <1>1, <1>3 DEF Remember
<1>5. \A t \in Threads : Taken(t)' = IF Taken(t) = "held" THEN "stale" ELSE Taken(t)
  BY <1>3, <1>4 DEF Taken
<1>6. Promise!Disconnect
  BY <1>2, <1>3, <1>5 DEF Promise!Disconnect, Promise!Forget
<1>7. HistoryType' /\ HeldIsPresent' /\ HeldContinues' /\ CutIsLost' /\ Forgotten'
  BY <1>2, <1>3, <1>4
  DEF HistoryType, HeldIsPresent, HeldContinues, CutIsLost, Forgotten
<1>8. BareIsLost'
  BY <1>1, <1>2 DEF HInv, HistoryInv, BareIsLost, sendVars
<1> QED
  BY <1>6, <1>7, <1>8 DEF HistoryInv

-----------------------------------------------------------------------------
(* A thread takes the connection, or does not.                             *)
LEMMA TakeKeeps ==
  ASSUME HInv, IInv', Remember, NEW t \in Threads, EventSend(t),
         UNCHANGED <<fdVars, wireVars, netVars>>
  PROVE  HistoryInv' /\ (Promise!Take(t) \/ UNCHANGED Promise!vars)
<1>1. UNCHANGED <<fd, fdtab, last, cut, peer>> /\ Link' = Link
  BY DEF fdVars, wireVars, netVars, Link
<1>2. CASE connfd = None \/ stop_requested
  <2>1. UNCHANGED <<send_mutex, bare, spc, sfd, sent>>
    BY <1>2 DEF EventSend, sendVars
  <2>2. Still
    BY <1>1, <2>1 DEF Still, Inside, HInv, IInv, TypeOK
  <2> QED
    BY <2>2, StillKeeps
<1>3. CASE connfd # None /\ ~stop_requested
  <2>1. /\ spc[t] = "idle" /\ UNCHANGED <<send_mutex, bare, sent>>
        /\ spc' = [spc EXCEPT ![t] = "serialize"]
        /\ sfd' = [sfd EXCEPT ![t] = connfd]
        /\ connfd = fd /\ fd # None
    BY <1>3 DEF EventSend, HInv, IInv, Control
  <2>2. /\ ~Inside(t) /\ Inside(t)' /\ sfd'[t] = fd /\ sent'[t] = 0
        /\ \A u \in Threads : u # t => Inside(u)' = Inside(u) /\ sfd'[u] = sfd[u]
    BY <2>1 DEF Inside, HInv, IInv, TypeOK, Mutex, InSection
  <2>3. \A u \in Threads : ~Arrives(u) /\ ~GivesUp(u)
    <3> SUFFICES ASSUME NEW u \in Threads PROVE ~Arrives(u) /\ ~GivesUp(u)
      OBVIOUS
    <3>1. sent[u] \in Nat
      BY DEF HInv, IInv, TypeOK
    <3> QED
      BY <2>1, <2>2, <3>1 DEF Arrives, GivesUp
  <2>4. stale' = stale /\ t \notin stale
    BY <1>1, <2>2 DEF Remember, HInv, HistoryInv, HistoryType
  <2>5. heard' = heard /\ lost' = lost /\ clean' = clean
    BY <1>1, <2>1, <2>3
    DEF Remember, Spoils, HInv, HistoryInv, HistoryType, Forgotten
  <2>6. \A u \in Threads : Taken(u)' = IF u = t THEN "held" ELSE Taken(u)
    BY <2>2, <2>4 DEF Taken
  <2>7. Taken(t) = "none" /\ Link # "none"
    BY <2>1, <2>2, LinkValues DEF Taken, HInv
  <2>8. Promise!Take(t)
    BY <1>1, <2>5, <2>6, <2>7 DEF Promise!Take
  <2>9. HistoryType' /\ HeldIsPresent'
    BY <1>1, <2>1, <2>2, <2>4, <2>5 DEF HInv, HistoryInv, HistoryType, HeldIsPresent
  <2>10. HeldContinues' /\ CutIsLost' /\ Forgotten'
    BY <1>1, <2>1, <2>2, <2>4, <2>5
    DEF HInv, HistoryInv, HeldContinues, CutIsLost, Forgotten
  <2>11. BareIsLost'
    <3>1. send_mutex # t
      BY <2>1 DEF HInv, IInv, Mutex, InSection
    <3> QED
      BY <1>1, <2>1, <2>2, <2>4, <2>5, <3>1 DEF HInv, HistoryInv, BareIsLost
  <2> QED
    BY <2>8, <2>9, <2>10, <2>11 DEF HistoryInv
<1> QED
  BY <1>2, <1>3

(* A thread gives its event up.                                            *)
LEMMA GiveUpKeeps ==
  ASSUME HInv, IInv', Remember, NEW t \in Threads,
         \/ SerializeFail(t) \/ SendFail(t)
         \/ Check(t) /\ stop_requested
  PROVE  HistoryInv' /\ Promise!Lose(t)
<1>1. UNCHANGED <<fd, fdtab, last, peer, send_mutex, bare, sent>> /\ Link' = Link
  BY DEF SerializeFail, SendFail, Check, fdVars, wireVars, netVars, Link
<1>2. /\ Inside(t) /\ ~Inside(t)'
      /\ \A u \in Threads : u # t => Inside(u)' = Inside(u) /\ sfd'[u] = sfd[u]
  BY DEF SerializeFail, SendFail, Check, Inside, HInv, IInv, TypeOK
<1>3. \A u \in Threads : ~Arrives(u)
  <2> SUFFICES ASSUME NEW u \in Threads PROVE ~Arrives(u)
    OBVIOUS
  <2>1. sent[u] \in Nat
    BY DEF HInv, IInv, TypeOK
  <2> QED
    BY <1>1, <2>1 DEF Arrives
<1>4. GivesUp(t)
  <2>1. sent[t] < MsgLen /\ sent[t] \in 0..MsgLen /\ MsgLen \in Nat
    BY <1>2, PiecesLeft DEF HInv
  <2> QED
    BY <1>1, <1>2, <2>1 DEF GivesUp
<1>5. heard' = heard /\ clean' = clean
  BY <1>1, <1>3 DEF Remember, HInv, HistoryInv, HistoryType, Forgotten
<1>6. lost' = (lost \/ Link = "up")
  BY <1>1, <1>4 DEF Remember, Spoils, HInv, HistoryInv, HistoryType, Forgotten
<1>7. stale' = stale \ {t}
  BY <1>1, <1>2 DEF Remember, HInv, HistoryInv, HistoryType
<1>8. \A u \in Threads : Taken(u)' = IF u = t THEN "none" ELSE Taken(u)
  BY <1>2, <1>7 DEF Taken
<1>9. Promise!Lose(t)
  BY <1>1, <1>2, <1>5, <1>6, <1>8 DEF Promise!Lose, Taken
<1>10. HistoryType' /\ HeldIsPresent'
  BY <1>1, <1>2, <1>5, <1>6, <1>7 DEF HInv, HistoryInv, HistoryType, HeldIsPresent
<1>11. HeldContinues' /\ CutIsLost' /\ Forgotten'
  BY <1>1, <1>2, <1>5, <1>6, <1>7
  DEF HInv, HistoryInv, HeldContinues, CutIsLost, Forgotten
<1>12. BareIsLost'
  BY <1>1, <1>2, <1>6, <1>7 DEF HInv, HistoryInv, BareIsLost
<1> QED
  BY <1>9, <1>10, <1>11, <1>12 DEF HistoryInv

(* A thread begins to send, perhaps with a header that lacks a length.     *)
LEMMA LockKeeps ==
  ASSUME HInv, IInv', Remember, NEW t \in Threads, Lock(t)
  PROVE  HistoryInv' /\ (Promise!Spoil(t) \/ UNCHANGED Promise!vars)
<1>1. UNCHANGED <<fd, fdtab, last, cut, peer, sfd, sent>> /\ Link' = Link
  BY DEF Lock, fdVars, wireVars, netVars, Link
<1>2. Inside(t) /\ \A u \in Threads : Inside(u)' = Inside(u)
  BY DEF Lock, Inside, HInv, IInv, TypeOK
<1>3. \A u \in Threads : ~Arrives(u) /\ ~GivesUp(u)
  <2> SUFFICES ASSUME NEW u \in Threads PROVE ~Arrives(u) /\ ~GivesUp(u)
    OBVIOUS
  <2>1. sent[u] \in Nat
    BY DEF HInv, IInv, TypeOK
  <2> QED
    BY <1>1, <1>2, <2>1 DEF Arrives, GivesUp
<1>4. ~bare /\ send_mutex' = t /\ bare' \in BOOLEAN
  BY DEF Lock, HInv, HistoryInv, BareIsLost
<1>5. UNCHANGED <<stale, heard, clean>>
  BY <1>1, <1>2, <1>3 DEF Remember, HInv, HistoryInv, HistoryType, Forgotten
<1>6. CASE bare'
  <2>1. lost' = (lost \/ Link = "up")
    BY <1>1, <1>4, <1>6 DEF Remember, Spoils, HInv, HistoryInv, HistoryType, Forgotten
  <2>2. Promise!Spoil(t)
    BY <1>1, <1>2, <1>5, <2>1 DEF Promise!Spoil, Taken
  <2>3. BareIsLost'
    BY <1>1, <1>4, <2>1, ServerAssumption DEF BareIsLost, Threads
  <2> QED
    BY <1>1, <1>2, <1>5, <2>1, <2>2, <2>3
    DEF HInv, HistoryInv, HistoryType, HeldIsPresent, HeldContinues, CutIsLost,
        Forgotten
<1>7. CASE ~bare'
  <2>1. lost' = lost
    BY <1>1, <1>3, <1>7 DEF Remember, Spoils, HInv, HistoryInv, HistoryType, Forgotten
  <2>2. UNCHANGED Promise!vars
    BY <1>1, <1>2, <1>5, <2>1 DEF Promise!vars, Taken
  <2>3. BareIsLost'
    BY <1>7 DEF BareIsLost
  <2> QED
    BY <1>1, <1>2, <1>5, <2>1, <2>2, <2>3
    DEF HInv, HistoryInv, HistoryType, HeldIsPresent, HeldContinues, CutIsLost,
        Forgotten
<1> QED
  BY <1>6, <1>7

-----------------------------------------------------------------------------
(* A thread sends a piece.  The descriptor is open, so it is the server    *)
(* thread's.                                                               *)
LEMMA SendsHere ==
  ASSUME HInv, NEW t \in Threads, Send(t)
  PROVE  /\ spc[t] = "send" /\ Inside(t) /\ sfd[t] = fd /\ fd # None
         /\ fd \in Fds /\ fdtab[fd] \in Conns /\ fdtab[fd] # None
         /\ UNCHANGED <<fd, fdtab, peer, cut, sfd, send_mutex, bare>>
         /\ Link' = Link
         /\ \A u \in Threads : u # t => spc'[u] = spc[u] /\ sent'[u] = sent[u]
         /\ sent'[t] = sent[t] + 1 /\ sent[t] \in Nat /\ sent[t] < MsgLen
         /\ Inside(t)' <=> sent'[t] # MsgLen
         /\ Link = "up" => last'[fdtab[fd]] = [by |-> t, piece |-> sent[t] + 1]
         /\ Link # "up" => last' = last
<1>1. spc[t] = "send" /\ Inside(t) /\ sfd[t] \in Fds
  BY PiecesLeft DEF Send, Inside, HInv
<1>2. sfd[t] = fd /\ fd # None /\ fdtab[fd] # None
  BY <1>1, ServerAssumption DEF Send, HInv, IInv, Control
<1>3. fd \in Fds /\ fdtab[fd] \in Conns /\ Link = peer[fdtab[fd]]
  BY <1>2, LinkValues DEF HInv
<1>4. UNCHANGED <<fd, fdtab, peer, cut, sfd, send_mutex, bare>> /\ Link' = Link
  BY DEF Send, fdVars, netVars, Link
<1>5. /\ \A u \in Threads : u # t => spc'[u] = spc[u] /\ sent'[u] = sent[u]
      /\ sent'[t] = sent[t] + 1 /\ sent[t] \in Nat /\ sent[t] < MsgLen
      /\ spc'[t] = IF sent[t] + 1 = MsgLen THEN "unlock" ELSE "check"
  BY <1>1, PiecesLeft DEF Send, HInv, IInv, TypeOK
<1>6. Inside(t)' <=> sent'[t] # MsgLen
  BY <1>5 DEF Inside
<1>7. /\ Link = "up" => last'[fdtab[fd]] = [by |-> t, piece |-> sent[t] + 1]
      /\ Link # "up" => last' = last
  BY <1>2, <1>3 DEF Send, HInv, IInv, TypeOK
<1> QED
  BY <1>1, <1>2, <1>3, <1>4, <1>5, <1>6, <1>7

(* A piece its peer does not expect comes from a thread that took an       *)
(* earlier connection, or follows an event that was given up: by mutual    *)
(* exclusion nobody else can have left an event unfinished.                *)
LEMMA UnexpectedIsExcused ==
  ASSUME HInv, NEW t \in Threads, Send(t), Link = "up", ~Expected(t)
  PROVE  t \in stale \/ lost
<1>1. /\ spc[t] = "send" /\ Inside(t) /\ sfd[t] = fd /\ fd # None
      /\ fd \in Fds /\ fdtab[fd] \in Conns /\ fdtab[fd] # None
      /\ sent[t] \in Nat
  BY SendsHere
<1>2. CASE sent[t] # 0
  <2>1. CASE bare
    <3>1. send_mutex = t
      BY <1>1 DEF HInv, IInv, Mutex, InSection
    <3> QED
      BY <1>1, <2>1, <3>1 DEF HInv, HistoryInv, BareIsLost
  <2>2. CASE ~bare
    <3>1. sent[t] > 0 /\ last[fdtab[fd]] # [by |-> t, piece |-> sent[t]]
      BY <1>1, <1>2, <2>2 DEF Expected
    <3> QED
      BY <1>1, <3>1 DEF HInv, HistoryInv, HeldContinues
  <2> QED
    BY <2>1, <2>2
<1>3. CASE sent[t] = 0
  <2> DEFINE c == fdtab[fd]
             u == last[c].by
  <2>1. ~Between(c)
    BY <1>3 DEF Expected
  <2>2. u \in Threads
    BY <1>1, <2>1, LastIsByThread DEF Between, HInv, IInv
  <2>3. last[c].piece \in 1..(MsgLen - 1)
    BY <1>1, <2>1, ServerAssumption DEF Between, HInv, IInv, TypeOK, Pieces, Nothing
  <2>4. HeldOn(fd) /\ peer[c] = "up"
    BY <1>1, LinkValues DEF HInv, IInv, UnfinishedIsHeld
  <2>5. \/ MidEvent(u) /\ sent[u] = last[c].piece
        \/ c \in cut
    BY <1>1, <2>3, <2>4 DEF HeldOn
  <2>6. ASSUME MidEvent(u) PROVE u = t
    BY <1>1, <2>2, <2>6 DEF HInv, IInv, Mutex, InSection, MidEvent
  <2>7. c \in cut
    BY <1>3, <2>3, <2>5, <2>6
  <2> QED
    BY <2>7 DEF HInv, HistoryInv, CutIsLost
<1> QED
  BY <1>2, <1>3

LEMMA SendRemembers ==
  ASSUME HInv, IInv', Remember, NEW t \in Threads, Send(t)
  PROVE  /\ heard' = IF Link = "up" /\ sent'[t] = MsgLen THEN heard \cup {t} ELSE heard
         /\ lost' = lost
         /\ clean' = (clean /\ (Link = "up" => Expected(t)))
         /\ stale' = IF sent'[t] = MsgLen THEN stale \ {t} ELSE stale
<1>1. \A u \in Threads : Arrives(u) <=> u = t /\ Link = "up"
  <2> SUFFICES ASSUME NEW u \in Threads PROVE Arrives(u) <=> u = t /\ Link = "up"
    OBVIOUS
  <2>1. sent[u] \in Nat
    BY DEF HInv, IInv, TypeOK
  <2>2. /\ u # t => sent'[u] = sent[u]
        /\ sent'[t] = sent[t] + 1 /\ sent[t] \in Nat /\ sfd[t] = fd
    BY SendsHere
  <2>3. CASE u = t
    <3>1. sent'[u] > sent[u]
      BY <2>2, <2>3
    <3> QED
      BY <2>2, <2>3, <3>1, Zenon DEF Arrives
  <2>4. CASE u # t
    BY <2>1, <2>2, <2>4 DEF Arrives
  <2> QED
    BY <2>3, <2>4
<1>2. \A u \in Threads : Inside(u)' <=> Inside(u) /\ (u = t => sent'[t] # MsgLen)
  BY SendsHere DEF Inside
<1>3. \A u \in Threads : ~GivesUp(u)
  BY <1>2 DEF GivesUp
<1>4. Link' = Link /\ fd' = fd /\ Inside(t)
  BY SendsHere
<1>5. heard' = IF Link = "up" /\ sent'[t] = MsgLen THEN heard \cup {t} ELSE heard
  BY <1>1, <1>4 DEF Remember, HInv, HistoryInv, Forgotten
<1>6. lost' = lost
  <2>1. ~Spoils
    BY SendsHere DEF Spoils
  <2> QED
    BY <1>3, <1>4, <2>1 DEF Remember, HInv, HistoryInv, HistoryType, Forgotten
<1>7. clean' = (clean /\ (Link = "up" => Expected(t)))
  BY <1>1, <1>4 DEF Remember, HInv, HistoryInv, HistoryType, Forgotten
<1>8. stale' = IF sent'[t] = MsgLen THEN stale \ {t} ELSE stale
  BY <1>2, <1>4 DEF Remember, HInv, HistoryInv, HistoryType
<1> QED
  BY <1>5, <1>6, <1>7, <1>8

LEMMA SendPromised ==
  ASSUME HInv, IInv', Remember, NEW t \in Threads, Send(t)
  PROVE  Promise!Deliver(t, t) \/ Promise!Lose(t) \/ Promise!Tear(t)
           \/ UNCHANGED Promise!vars
<1>1. /\ Inside(t) /\ Link' = Link /\ Taken(t) # "none"
      /\ Inside(t)' <=> sent'[t] # MsgLen
      /\ \A u \in Threads : u # t => Inside(u)' = Inside(u)
  BY SendsHere DEF Inside, Taken
<1>2. lost' = lost /\ lost \in BOOLEAN /\ clean \in BOOLEAN
  BY SendRemembers DEF HInv, HistoryInv, HistoryType
<1>3. Link = "up" /\ ~Expected(t) => Taken(t) = "stale" \/ lost
  BY <1>1, UnexpectedIsExcused DEF Taken
<1>4. CASE sent'[t] = MsgLen
  <2>1. stale' = stale \ {t}
    BY <1>4, SendRemembers
  <2>2. \A u \in Threads : Taken(u)' = IF u = t THEN "none" ELSE Taken(u)
    BY <1>1, <1>4, <2>1 DEF Taken
  <2>3. CASE Link = "up"
    <3>1. heard' = heard \cup {t} /\ clean' = (clean /\ Expected(t))
      BY <1>4, <2>3, SendRemembers
    <3>2. clean' = clean \/ ((Taken(t) = "stale" \/ lost) /\ clean' = FALSE)
      BY <1>2, <1>3, <2>3, <3>1
    <3>3. Promise!Deliver(t, t)
      BY <1>1, <1>2, <2>2, <2>3, <3>1, <3>2 DEF Promise!Deliver, Promise!MayTear
    <3> QED
      BY <3>3
  <2>4. CASE Link # "up"
    <3>1. heard' = heard /\ clean' = clean
      BY <1>2, <2>4, SendRemembers
    <3>2. Promise!Lose(t)
      BY <1>1, <1>2, <2>2, <2>4, <3>1 DEF Promise!Lose
    <3> QED
      BY <3>2
  <2> QED
    BY <2>3, <2>4
<1>5. CASE sent'[t] # MsgLen
  <2>1. heard' = heard /\ stale' = stale
    BY <1>5, SendRemembers
  <2>2. \A u \in Threads : Taken(u)' = Taken(u)
    BY <1>1, <1>5, <2>1 DEF Taken
  <2>3. CASE Link = "up" /\ ~Expected(t)
    <3>1. clean' = FALSE
      BY <2>3, SendRemembers
    <3>2. Promise!Tear(t)
      BY <1>1, <1>2, <1>3, <2>1, <2>2, <2>3, <3>1 DEF Promise!Tear, Promise!MayTear
    <3> QED
      BY <3>2
  <2>4. CASE ~(Link = "up" /\ ~Expected(t))
    <3>1. clean' = clean
      BY <1>2, <2>4, SendRemembers
    <3>2. UNCHANGED Promise!vars
      BY <1>1, <1>2, <2>1, <2>2, <3>1 DEF Promise!vars
    <3> QED
      BY <3>2
  <2> QED
    BY <2>3, <2>4
<1> QED
  BY <1>4, <1>5

LEMMA SendKeeps ==
  ASSUME HInv, IInv', Remember, NEW t \in Threads, Send(t)
  PROVE  HistoryInv'
<1> DEFINE c == fdtab[fd]
<1>1. /\ Inside(t) /\ Link' = Link /\ fd' = fd /\ c' = c /\ cut' = cut /\ sfd' = sfd
      /\ Inside(t)' <=> sent'[t] # MsgLen
      /\ \A u \in Threads : u # t => Inside(u)' = Inside(u) /\ sent'[u] = sent[u]
  BY SendsHere DEF Inside
<1>2. /\ lost' = lost
      /\ stale' = IF sent'[t] = MsgLen THEN stale \ {t} ELSE stale
      /\ heard' = IF Link = "up" /\ sent'[t] = MsgLen THEN heard \cup {t} ELSE heard
      /\ clean' = (clean /\ (Link = "up" => Expected(t)))
  BY SendRemembers
<1>3. HistoryType'
  <2>1. clean' \in BOOLEAN /\ lost' \in BOOLEAN /\ heard' \subseteq Threads
    BY <1>2 DEF HInv, HistoryInv, HistoryType
  <2> QED
    BY <1>1, <1>2, <2>1 DEF HInv, HistoryInv, HistoryType
<1>4. HeldIsPresent'
  BY <1>1, <1>2 DEF HInv, HistoryInv, HeldIsPresent
<1>5. HeldContinues'
  <2> SUFFICES ASSUME NEW u \in Threads, Inside(u)', u \notin stale', sent'[u] > 0,
                      Link = "up"
               PROVE  last'[c] = [by |-> u, piece |-> sent'[u]]
    BY <1>1 DEF HeldContinues
  <2>1. CASE u = t
    BY <2>1, SendsHere
  <2>2. CASE u # t
    <3>1. sent[u] > 0 /\ Inside(u)
      BY <1>1, <2>2
    <3>2. spc[u] \in {"serialize", "lock"} \/ send_mutex = u
      BY <3>1 DEF Inside, HInv, IInv, Mutex, InSection
    <3>3. send_mutex = t
      BY SendsHere DEF HInv, IInv, Mutex, InSection
    <3>4. sent[u] = 0
      BY <2>2, <3>2, <3>3, PiecesLeft DEF HInv
    <3> QED
      BY <3>1, <3>4
  <2> QED
    BY <2>1, <2>2
<1>6. CutIsLost' /\ BareIsLost' /\ Forgotten'
  BY <1>1, <1>2, SendsHere
  DEF HInv, HistoryInv, CutIsLost, BareIsLost, Forgotten
<1> QED
  BY <1>3, <1>4, <1>5, <1>6 DEF HistoryInv

-----------------------------------------------------------------------------
(* Every step keeps the invariant and is a step of the promise.            *)
LEMMA StepPromised ==
  ASSUME HInv, IInv', HNext
  PROVE  HistoryInv' /\ (Promise!Next \/ UNCHANGED Promise!vars)
<1> DEFINE Kept == HistoryInv' /\ (Promise!Next \/ UNCHANGED Promise!vars)
<1>0. Next /\ Remember /\ IInv
  BY DEF HNext, HInv
<1>still. Still => Kept
  BY <1>0, StillKeeps
<1>1. ASSUME NEW c \in Conns, Connect(c) \/ PeerClose(c) PROVE Kept
  <2>1. CASE PeerClose(c) /\ fd # None /\ c = fdtab[fd]
    BY <1>0, <2>1, PeerCloseKeeps DEF Promise!Next
  <2>2. CASE fd # None => c # fdtab[fd]
    BY <1>0, <1>1, <1>still, <2>2, OtherPeersAreStill
  <2>3. CASE Connect(c) /\ fd # None /\ c = fdtab[fd]
    <3>1. Link = "none" \/ peer[c] # "none"
      BY <1>0, <2>3, LinkValues DEF IInv, Fresh
    <3> QED
      BY <1>0, <2>3, <3>1, LinkValues DEF Connect
  <2> QED
    BY <1>1, <2>1, <2>2, <2>3
<1>2. ASSUME Run \/ InitFail \/ Stop \/ Start PROVE Kept
  BY <1>0, <1>2, <1>still, ServerIsStill
<1>3. ASSUME Setup \/ AcceptStop \/ AcceptFail \/ Publish PROVE Kept
  BY <1>0, <1>3, <1>still, ServerIsStill
<1>4. ASSUME NEW c \in Conns, NEW f \in Fds, Accept(c, f) PROVE Kept
  BY <1>0, <1>4, AcceptKeeps DEF Promise!Next
<1>5. ASSUME NEW c \in Conns, AcceptTransient(c) PROVE Kept
  BY <1>0, <1>5, <1>still, ServerIsStill
<1>6. ASSUME ReadStop \/ ReadData \/ ReadEnd \/ Close \/ Cleanup PROVE Kept
  <2>1. CASE ReadStop \/ ReadData \/ ReadEnd
    BY <1>0, <1>still, <2>1, ServerIsStill
  <2>2. CASE Close
    BY <1>0, <2>2, CloseKeeps DEF Promise!Next
  <2>3. CASE Cleanup
    BY <1>0, <1>still, <2>3, CleanupIsStill
  <2> QED
    BY <1>6, <2>1, <2>2, <2>3
<1>7. ASSUME Handle PROVE Kept
  <2>1. Server \in Threads
    BY DEF Threads
  <2>2. UNCHANGED <<fdVars, wireVars, netVars>>
    BY <1>7 DEF Handle
  <2>3. CASE EventSend(Server)
    BY <1>0, <2>1, <2>2, <2>3, TakeKeeps DEF Promise!Next
  <2>4. CASE UNCHANGED sendVars
    <3>1. Still
      BY <1>0, <2>2, <2>4
      DEF Still, Link, Inside, IInv, TypeOK, fdVars, wireVars, netVars, sendVars
    <3> QED
      BY <1>still, <3>1
  <2> QED
    BY <1>7, <2>3, <2>4 DEF Handle, sendVars
<1>8. ASSUME NEW t \in Callers, CallerSend(t) PROVE Kept
  <2>1. t \in Threads /\ EventSend(t) /\ UNCHANGED <<fdVars, wireVars, netVars>>
    BY <1>8 DEF CallerSend, Threads
  <2> QED
    BY <1>0, <2>1, TakeKeeps DEF Promise!Next
<1>9. ASSUME NEW t \in Threads,
             Serialize(t) \/ SerializeFail(t) \/ Lock(t) \/ Unlock(t)
      PROVE Kept
  <2>1. CASE SerializeFail(t)
    BY <1>0, <2>1, GiveUpKeeps DEF Promise!Next
  <2>2. CASE Lock(t)
    BY <1>0, <2>2, LockKeeps DEF Promise!Next
  <2>3. CASE Serialize(t) \/ Unlock(t)
    BY <1>0, <1>still, <2>3, SenderIsStill
  <2> QED
    BY <1>9, <2>1, <2>2, <2>3
<1>10. ASSUME NEW t \in Threads, Check(t) \/ SendRetry(t) \/ SendFail(t)
       PROVE Kept
  <2>1. CASE SendFail(t) \/ (Check(t) /\ stop_requested)
    BY <1>0, <2>1, GiveUpKeeps DEF Promise!Next
  <2>2. CASE SendRetry(t) \/ (Check(t) /\ ~stop_requested)
    BY <1>0, <1>still, <2>2, SenderIsStill
  <2> QED
    BY <1>10, <2>1, <2>2
<1>11. ASSUME NEW t \in Threads, Send(t) PROVE Kept
  BY <1>0, <1>11, SendKeeps, SendPromised DEF Promise!Next
<1> HIDE DEF Kept
<1>12. Kept
  BY <1>0, <1>1, <1>2, <1>3, <1>4, <1>5, <1>6, <1>7, <1>8, <1>9, <1>10, <1>11,
     StepCases
<1> QED
  BY <1>12 DEF Kept

LEMMA InitHInv == HInit => HInv /\ Promise!Init
<1> SUFFICES ASSUME HInit PROVE HInv /\ Promise!Init
  OBVIOUS
<1>1. IInv
  BY InitIInv DEF HInit
<1>2. /\ stale = {} /\ heard = {} /\ lost = FALSE /\ clean = TRUE /\ cut = {}
      /\ bare = FALSE
      /\ Link = "none" /\ \A t \in Threads : ~Inside(t)
  BY DEF HInit, Init, Link, Inside
<1>3. CutAccepted /\ HistoryInv
  BY <1>2 DEF CutAccepted, HistoryInv, HistoryType, HeldIsPresent, HeldContinues,
     CutIsLost, BareIsLost, Forgotten
<1>4. Promise!Init
  BY <1>2 DEF Promise!Init, Taken
<1> QED
  BY <1>1, <1>3, <1>4 DEF HInv

LEMMA HStep ==
  HInv /\ [HNext]_<<vars, history>> => HInv' /\ [Promise!Next]_(Promise!vars)
<1> SUFFICES ASSUME HInv, [HNext]_<<vars, history>>
             PROVE  HInv' /\ [Promise!Next]_(Promise!vars)
  OBVIOUS
<1>1. [Next]_vars
  BY DEF HNext
<1>2. IInv' /\ CutAccepted'
  BY <1>1, IInvStep, CutAcceptedStep DEF HInv
<1>3. CASE HNext
  BY <1>2, <1>3, StepPromised DEF HInv
<1>4. CASE UNCHANGED <<vars, history>>
  <2>1. /\ UNCHANGED <<fd, peer, fdtab, last, cut, send_mutex, bare, spc, sfd, sent>>
        /\ UNCHANGED <<stale, heard, lost, clean>>
    BY <1>4 DEF vars, history, fdVars, netVars, wireVars, sendVars
  <2>2. Link' = Link /\ \A t \in Threads : Inside(t)' = Inside(t)
    BY <2>1 DEF Link, Inside
  <2>3. HistoryInv'
    BY <2>1, <2>2 DEF HInv, HistoryInv, HistoryType, HeldIsPresent, HeldContinues,
       CutIsLost, BareIsLost, Forgotten
  <2>4. \A t \in Threads : Taken(t)' = Taken(t)
    BY <2>1, <2>2 DEF Taken
  <2>5. UNCHANGED Promise!vars
    BY <2>1, <2>2, <2>4 DEF Promise!vars
  <2> QED
    BY <1>2, <2>3, <2>5 DEF HInv
<1> QED
  BY <1>3, <1>4

(* The invariant holds in every reachable state.                           *)
THEOREM HInvariance == HSpec => []HInv
<1>1. HInit => HInv
  BY InitHInv
<1>2. HInv /\ [HNext]_<<vars, history>> => HInv'
  BY HStep
<1> QED
  BY <1>1, <1>2, PTL DEF HSpec

(* What wsat_event_send and the server do to a connection is what          *)
(* Connection promises the modes.                                          *)
THEOREM Keeps == HSpec => ImplementsConnection
<1>1. HInit => Promise!Init
  BY InitHInv
<1>2. HInv /\ [HNext]_<<vars, history>> => [Promise!Next]_(Promise!vars)
  BY HStep
<1>3. HSpec => Promise!Spec
  BY <1>1, <1>2, HInvariance, PTL DEF HSpec, Promise!Spec
<1> QED
  BY <1>3 DEF ImplementsConnection

=============================================================================
