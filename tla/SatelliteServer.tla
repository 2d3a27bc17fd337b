--------------------------- MODULE SatelliteServer ---------------------------
(***************************************************************************)
(* The TCP server of the satellite (lib/satellite_server.c) and the part   *)
(* of wsat_run/wsat_stop (lib/satellite.c) that starts and stops it: one   *)
(* thread runs wsat_server_run, any thread may call wsat_event_send and    *)
(* wsat_stop, and the peers connect, stall and vanish as they like.        *)
(*                                                                         *)
(* Every region under server->state_mutex is short, takes no other lock    *)
(* and is one step here; server->send_mutex is held across blocking calls  *)
(* and is modelled.  Descriptors are reused after close(), as by POSIX.    *)
(***************************************************************************)
EXTENDS Naturals

CONSTANTS
  Callers,    (* threads calling wsat_event_send: microphone, wake word     *)
  Server,     (* the thread inside wsat_run                                 *)
  Conns,      (* TCP connections the peers may open, each used once         *)
  Fds,        (* descriptor numbers accept() may return                     *)
  MsgLen,     (* send() calls one event takes: header, data, payload pieces *)
  MaxEvents,  (* bound on the events decoded from one read()                *)
  None        (* the code's -1                                              *)

ASSUME ServerAssumption ==
  /\ Server \notin Callers
  /\ MsgLen \in Nat \ {0}
  /\ MaxEvents \in Nat \ {0}
  /\ None \notin Callers \cup {Server} \cup Conns \cup Fds

Threads == Callers \cup {Server}

VARIABLES
  stop_requested, (* server->stop_requested                                *)
  connfd,         (* server->connfd, what wsat_event_send reads            *)
  pc,             (* where the server thread is                            *)
  fd,             (* wsat_server_run's local connfd                        *)
  ret,            (* wsat_server_run's local ret                           *)
  todo,           (* decoded events of the last read() not yet handled     *)
  listening,      (* sockfd is open                                        *)
  backlog,        (* connections waiting to be accepted                    *)
  peer,           (* each connection as its peer sees it                   *)
  fdtab,          (* the descriptor table: Fds -> Conns or None            *)
  last,           (* per connection, the last piece its peer received      *)
  cut,            (* history: the connections, not closed yet, a send has  *)
                  (* failed on although they were healthy                  *)
  send_mutex,     (* thread holding server->send_mutex                     *)
  bare,           (* the header of its event lacks a length                *)
  spc,            (* where each thread is inside wsat_event_send           *)
  sfd,            (* the descriptor it took from server->connfd            *)
  sent            (* pieces of its event sent so far                       *)

stopVars == <<stop_requested>>
runVars  == <<pc, ret, todo>>
netVars  == <<listening, backlog, peer>>
fdVars   == <<connfd, fd, fdtab>>
sendVars == <<send_mutex, bare, spc, sfd, sent>>
wireVars == <<last, cut>>
vars     == <<stopVars, runVars, netVars, fdVars, wireVars, sendVars>>

(* The states of wsat_event_send, and of wsat_run on the server thread.    *)
SendStates   == {"idle", "serialize", "lock", "check", "send", "unlock"}
ServerStates == {"idle", "init", "setup", "accept", "publish", "read",
                 "handle", "close", "cleanup"}

(* A piece of an event on the wire: which thread sent it, and its rank.    *)
Nothing == [by |-> None, piece |-> 0]
Pieces  == {Nothing} \cup [by : Threads, piece : 1..MsgLen]

TypeOK ==
  /\ stop_requested \in BOOLEAN
  /\ connfd \in Fds \cup {None} /\ fd \in Fds \cup {None}
  /\ pc \in ServerStates
  /\ ret \in {"ok", "error"}
  /\ todo \in 0..MaxEvents
  /\ listening \in BOOLEAN
  /\ backlog \in SUBSET Conns
  /\ peer \in [Conns -> {"none", "up", "gone"}]
  /\ fdtab \in [Fds -> Conns \cup {None}]
  /\ last \in [Conns -> Pieces]
  /\ cut \in SUBSET Conns
  /\ send_mutex \in Threads \cup {None} /\ bare \in BOOLEAN
  /\ spc \in [Threads -> SendStates]
  /\ sfd \in [Threads -> Fds \cup {None}]
  /\ sent \in [Threads -> 0..MsgLen]

(* wsat_init: everything zeroed, no descriptor open.                       *)
Init ==
  /\ stop_requested = FALSE
  /\ connfd = None /\ fd = None
  /\ pc = "idle" /\ ret = "ok" /\ todo = 0
  /\ listening = FALSE /\ backlog = {}
  /\ peer = [c \in Conns |-> "none"]
  /\ fdtab = [f \in Fds |-> None]
  /\ last = [c \in Conns |-> Nothing]
  /\ cut = {}
  /\ send_mutex = None /\ bare = FALSE
  /\ spc = [t \in Threads |-> "idle"]
  /\ sfd = [t \in Threads |-> None]
  /\ sent = [t \in Threads |-> 0]

-----------------------------------------------------------------------------
(* Plausible slips in the code, used to test the properties.               *)

(* wsat_event_send keeps its progress between two events.                  *)
UnlockKeepingSent(t) ==
  /\ spc[t] = "unlock"
  /\ send_mutex' = None
  /\ spc' = [spc EXCEPT ![t] = "idle"]
  /\ sfd' = [sfd EXCEPT ![t] = None]
  /\ UNCHANGED <<stopVars, runVars, netVars, fdVars, wireVars, bare, sent>>

(* server->connfd is not reset with close().                               *)
CloseStillPublished ==
  /\ pc = "close"
  /\ fdtab' = [fdtab EXCEPT ![fd] = None]
  /\ peer' = [peer EXCEPT ![fdtab[fd]] = "gone"]
  /\ cut' = cut \ {fdtab[fd]}
  /\ fd' = None
  /\ pc' = IF ret = "error" THEN "cleanup" ELSE "accept"
  /\ UNCHANGED <<stopVars, connfd, ret, todo, listening, backlog, last, sendVars>>

(* A failed read leaves by goto cleanup, past close().                     *)
ReadEndWithoutClose ==
  /\ pc = "read"
  /\ \/ ret' = "ok" /\ pc' = "close"
     \/ ret' = "error" /\ pc' = "cleanup"
  /\ UNCHANGED <<stopVars, todo, netVars, fdVars, wireVars, sendVars>>

(* The read loop is left while an event is still being answered, as if the *)
(* events were handled by another thread.                                  *)
ReadStopWhileHandling ==
  /\ pc \in {"read", "handle"} /\ stop_requested
  /\ pc' = "close"
  /\ UNCHANGED <<stopVars, ret, todo, netVars, fdVars, wireVars, sendVars>>

(* send_mutex is not taken.                                                *)
LockWithoutWaiting(t) ==
  /\ spc[t] = "lock"
  /\ send_mutex' = t /\ bare' \in BOOLEAN
  /\ spc' = [spc EXCEPT ![t] = "check"]
  /\ UNCHANGED <<stopVars, runVars, netVars, fdVars, wireVars, sfd, sent>>

(* A timeout makes wsat_send_all begin its event again.                    *)
SendRetryFromStart(t) ==
  /\ spc[t] = "send"
  /\ spc' = [spc EXCEPT ![t] = "check"]
  /\ sent' = [sent EXCEPT ![t] = 0]
  /\ UNCHANGED <<stopVars, runVars, netVars, fdVars, wireVars>>
  /\ UNCHANGED <<send_mutex, bare, sfd>>

(* The read loop does not look at stop_requested while no bytes arrive.    *)
ReadStopUnseen ==
  /\ pc = "read" /\ stop_requested
  /\ UNCHANGED vars

(* A path out of wsat_event_send forgets to release send_mutex.            *)
UnlockForgotten(t) ==
  /\ spc[t] = "unlock"
  /\ bare' = FALSE
  /\ spc' = [spc EXCEPT ![t] = "idle"]
  /\ sfd' = [sfd EXCEPT ![t] = None]
  /\ sent' = [sent EXCEPT ![t] = 0]
  /\ UNCHANGED <<stopVars, runVars, netVars, fdVars, wireVars, send_mutex>>

(* wsat_send_all tries again after every error.                            *)
SendFailRetried(t) ==
  /\ spc[t] = "send"
  /\ spc' = [spc EXCEPT ![t] = "check"]
  /\ UNCHANGED <<stopVars, runVars, netVars, fdVars, wireVars>>
  /\ UNCHANGED <<send_mutex, bare, sfd, sent>>

-----------------------------------------------------------------------------
(* The peers.                                                              *)

Connect(c) ==
  /\ listening /\ peer[c] = "none"
  /\ peer' = [peer EXCEPT ![c] = "up"]
  /\ backlog' = backlog \cup {c}
  /\ UNCHANGED <<stopVars, runVars, listening, fdVars, wireVars, sendVars>>

PeerClose(c) ==
  /\ peer[c] = "up"
  /\ peer' = [peer EXCEPT ![c] = "gone"]
  /\ UNCHANGED <<stopVars, runVars, listening, backlog, fdVars, wireVars, sendVars>>

-----------------------------------------------------------------------------
(* wsat_run and wsat_stop.                                                 *)

(* wsat_run chooses the mode and initialises the components, which may     *)
(* take long; a component that fails ends the run before the server starts. *)
Run ==
  /\ pc = "idle"
  /\ pc' = "init"
  /\ UNCHANGED <<stop_requested, ret, todo, netVars, fdVars, wireVars, sendVars>>

InitFail ==
  /\ pc = "init"
  /\ pc' = "idle"
  /\ UNCHANGED <<stopVars, ret, todo, netVars, fdVars, wireVars, sendVars>>

Stop ==
  /\ stop_requested' = TRUE
  /\ UNCHANGED <<runVars, netVars, fdVars, wireVars, sendVars>>

-----------------------------------------------------------------------------
(* wsat_server_run.                                                        *)

Start ==
  /\ pc = "init"
  /\ stop_requested' = FALSE
  /\ connfd' = None /\ fd' = None
  /\ pc' = "setup" /\ ret' = "ok"
  /\ UNCHANGED <<todo, netVars, fdtab, wireVars, sendVars>>

(* socket, setsockopt, bind and listen: any of them may fail.              *)
Setup ==
  /\ pc = "setup"
  /\ \/ listening' = TRUE /\ pc' = "accept" /\ UNCHANGED ret
     \/ pc' = "cleanup" /\ ret' = "error" /\ UNCHANGED listening
  /\ UNCHANGED <<stopVars, todo, backlog, peer, fdVars, wireVars, sendVars>>

(* The outer loop sees the request after at most one select timeout.       *)
AcceptStop ==
  /\ pc = "accept" /\ stop_requested
  /\ pc' = "cleanup"
  /\ UNCHANGED <<stopVars, ret, todo, netVars, fdVars, wireVars, sendVars>>

(* accept() returns a connection, maybe one whose peer already left.       *)
Accept(c, f) ==
  /\ pc = "accept" /\ ~stop_requested
  /\ c \in backlog /\ fdtab[f] = None
  /\ backlog' = backlog \ {c}
  /\ fdtab' = [fdtab EXCEPT ![f] = c]
  /\ fd' = f
  /\ pc' = "publish"
  /\ UNCHANGED <<stopVars, ret, todo, listening, peer, connfd, wireVars, sendVars>>

(* ECONNABORTED and the like: the connection is dropped from the queue and *)
(* the loop goes on.                                                       *)
AcceptTransient(c) ==
  /\ pc = "accept" /\ ~stop_requested
  /\ c \in backlog /\ peer[c] = "gone"
  /\ backlog' = backlog \ {c}
  /\ UNCHANGED <<stopVars, runVars, listening, peer, fdVars, wireVars, sendVars>>

(* select() or accept() fails for good.                                    *)
AcceptFail ==
  /\ pc = "accept"
  /\ pc' = "cleanup" /\ ret' = "error"
  /\ UNCHANGED <<stopVars, todo, netVars, fdVars, wireVars, sendVars>>

Publish ==
  /\ pc = "publish"
  /\ connfd' = fd
  /\ pc' = "read"
  /\ UNCHANGED <<stopVars, ret, todo, netVars, fd, fdtab, wireVars, sendVars>>

ReadStop ==
  /\ pc = "read" /\ stop_requested
  /\ pc' = "close"
  /\ UNCHANGED <<stopVars, ret, todo, netVars, fdVars, wireVars, sendVars>>

(* Bytes arrived and the decoder found some events in them.                *)
ReadData ==
  /\ pc = "read" /\ ~stop_requested
  /\ todo' \in 0..MaxEvents
  /\ pc' = "handle"
  /\ UNCHANGED <<stopVars, ret, netVars, fdVars, wireVars, sendVars>>

(* A zero read (end of file, or no room left in the decoder) or a dropped  *)
(* connection keeps the server; any other error ends it.                   *)
ReadEnd ==
  /\ pc = "read"
  /\ ret' \in {"ok", "error"}
  /\ pc' = "close"
  /\ UNCHANGED <<stopVars, todo, netVars, fdVars, wireVars, sendVars>>

(* close() and the reset of connfd happen under one lock.  It is the end   *)
(* of the connection for the peer too.                                     *)
Close ==
  /\ pc = "close"
  /\ fdtab' = [fdtab EXCEPT ![fd] = None]
  /\ peer' = [peer EXCEPT ![fdtab[fd]] = "gone"]
  /\ cut' = cut \ {fdtab[fd]}
  /\ connfd' = None /\ fd' = None
  /\ pc' = IF ret = "error" THEN "cleanup" ELSE "accept"
  /\ UNCHANGED <<stopVars, ret, todo, listening, backlog, last, sendVars>>

(* Closing the listener resets the connections still in its queue.         *)
Cleanup ==
  /\ pc = "cleanup"
  /\ listening' = FALSE /\ backlog' = {}
  /\ peer' = [c \in Conns |-> IF c \in backlog THEN "gone" ELSE peer[c]]
  /\ pc' = "idle"
  /\ UNCHANGED <<stopVars, ret, todo, fdVars, wireVars, sendVars>>

-----------------------------------------------------------------------------
(* wsat_event_send, by any thread.                                         *)

(* The descriptor is read under state_mutex and used after its release.    *)
EventSend(t) ==
  /\ spc[t] = "idle"
  /\ IF connfd = None \/ stop_requested
       THEN UNCHANGED sendVars
       ELSE /\ spc' = [spc EXCEPT ![t] = "serialize"]
            /\ sfd' = [sfd EXCEPT ![t] = connfd]
            /\ UNCHANGED <<send_mutex, bare, sent>>

CallerSend(t) ==
  /\ EventSend(t)
  /\ UNCHANGED <<stopVars, runVars, netVars, fdVars, wireVars>>

(* The server thread handles the decoded events in turn; describe, ping    *)
(* and run-satellite answer from it.                                       *)
Handle ==
  /\ pc = "handle" /\ spc[Server] = "idle"
  /\ IF todo = 0
       THEN pc' = "read" /\ UNCHANGED <<todo, sendVars>>
       ELSE /\ todo' = todo - 1
            /\ EventSend(Server) \/ UNCHANGED sendVars
            /\ UNCHANGED pc
  /\ UNCHANGED <<stopVars, ret, netVars, fdVars, wireVars>>

(* The event's data and header are printed; nothing is shared yet.         *)
Serialize(t) ==
  /\ spc[t] = "serialize"
  /\ spc' = [spc EXCEPT ![t] = "lock"]
  /\ UNCHANGED <<stopVars, runVars, netVars, fdVars, wireVars>>
  /\ UNCHANGED <<send_mutex, bare, sfd, sent>>

(* cJSON_PrintUnformatted finds no memory: nothing is sent.                *)
SerializeFail(t) ==
  /\ spc[t] = "serialize"
  /\ spc' = [spc EXCEPT ![t] = "idle"]
  /\ sfd' = [sfd EXCEPT ![t] = None]
  /\ UNCHANGED <<stopVars, runVars, netVars, fdVars, wireVars>>
  /\ UNCHANGED <<send_mutex, bare, sent>>

(* The thread waits for send_mutex.  If cJSON_CreateNumber found no memory for a *)
(* length, nobody looked: the header lacks it, and the peer will take what *)
(* follows for the next header.                                            *)
Lock(t) ==
  /\ spc[t] = "lock" /\ send_mutex = None
  /\ send_mutex' = t /\ bare' \in BOOLEAN
  /\ spc' = [spc EXCEPT ![t] = "check"]
  /\ UNCHANGED <<stopVars, runVars, netVars, fdVars, wireVars, sfd, sent>>

(* wsat_send_all looks at stop_requested before every select and send.     *)
Check(t) ==
  /\ spc[t] = "check"
  /\ spc' = [spc EXCEPT ![t] = IF stop_requested THEN "unlock" ELSE "send"]
  /\ UNCHANGED <<stopVars, runVars, netVars, fdVars, wireVars>>
  /\ UNCHANGED <<send_mutex, bare, sfd, sent>>

(* send() takes one more piece; a peer that is gone never receives it.     *)
Send(t) ==
  LET c == fdtab[sfd[t]]
  IN  /\ spc[t] = "send" /\ c # None
      /\ sent' = [sent EXCEPT ![t] = @ + 1]
      /\ last' = IF peer[c] = "up"
                   THEN [last EXCEPT ![c] = [by |-> t, piece |-> sent[t] + 1]]
                   ELSE last
      /\ spc' = [spc EXCEPT ![t] =
                   IF sent[t] + 1 = MsgLen THEN "unlock" ELSE "check"]
      /\ UNCHANGED <<stopVars, runVars, netVars, fdVars, cut, send_mutex, bare, sfd>>

(* The select timeout, EINTR, EAGAIN: the loop starts over.                *)
SendRetry(t) ==
  /\ spc[t] = "send"
  /\ spc' = [spc EXCEPT ![t] = "check"]
  /\ UNCHANGED <<stopVars, runVars, netVars, fdVars, wireVars>>
  /\ UNCHANGED <<send_mutex, bare, sfd, sent>>

(* The descriptor is closed (EBADF), the peer is gone, or the kernel is    *)
(* out of buffers: the rest of the event is abandoned.                     *)
Broken(f) == fdtab[f] # None => peer[fdtab[f]] = "gone"

SendFail(t) ==
  /\ spc[t] = "send"
  /\ spc' = [spc EXCEPT ![t] = "unlock"]
  /\ cut' = IF Broken(sfd[t]) THEN cut ELSE cut \cup {fdtab[sfd[t]]}
  /\ UNCHANGED <<stopVars, runVars, netVars, fdVars, last>>
  /\ UNCHANGED <<send_mutex, bare, sfd, sent>>

Unlock(t) ==
  /\ spc[t] = "unlock"
  /\ send_mutex' = None /\ bare' = FALSE
  /\ spc' = [spc EXCEPT ![t] = "idle"]
  /\ sfd' = [sfd EXCEPT ![t] = None]
  /\ sent' = [sent EXCEPT ![t] = 0]
  /\ UNCHANGED <<stopVars, runVars, netVars, fdVars, wireVars>>

-----------------------------------------------------------------------------
(* The steps of a thread that is inside wsat_event_send.                   *)
Sending(t) ==
  \/ Serialize(t) \/ SerializeFail(t) \/ Lock(t) \/ Check(t)
  \/ Send(t) \/ SendRetry(t) \/ SendFail(t) \/ Unlock(t)

(* The steps wsat_server_run takes on its own once it has started.         *)
Serving ==
  \/ Setup
  \/ AcceptStop
  \/ \E c \in Conns, f \in Fds : Accept(c, f)
  \/ \E c \in Conns : AcceptTransient(c)
  \/ AcceptFail
  \/ Publish
  \/ ReadStop \/ ReadData \/ ReadEnd
  \/ Handle \/ Close \/ Cleanup

Peers == \E c \in Conns : Connect(c) \/ PeerClose(c)

Next ==
  \/ Peers
  \/ Run \/ InitFail \/ Stop \/ Start
  \/ Serving
  \/ \E t \in Callers : CallerSend(t)
  \/ \E t \in Threads : Sending(t)

Spec == Init /\ [][Next]_vars

(***************************************************************************)
(* Fairness: every thread keeps running, so it takes each step that        *)
(* nothing holds up.  The select timeouts of accept and read loop let the  *)
(* server thread see a request to stop, that of wsat_send_all brings a     *)
(* blocked sender back to its check, and a select on a closed descriptor   *)
(* fails (at the latest when the one that was waiting has timed out).  A   *)
(* mutex that is free is taken in the end.  No other call has to fail, no  *)
(* peer has to connect, write, read or close, and nobody has to call the   *)
(* API.                                                                    *)
(***************************************************************************)
ServerFairness ==
  /\ WF_vars(Start \/ InitFail)
  /\ WF_vars(Setup)
  /\ WF_vars(AcceptStop)
  /\ WF_vars(Publish)
  /\ WF_vars(ReadStop)
  /\ WF_vars(Handle)
  /\ WF_vars(Close)
  /\ WF_vars(Cleanup)

SenderFairness(t) ==
  /\ WF_vars(Serialize(t))
  /\ WF_vars(Lock(t))
  /\ WF_vars(Check(t))
  /\ WF_vars(SendRetry(t))
  /\ SF_vars(SendFail(t) /\ fdtab[sfd[t]] = None)
  /\ WF_vars(Unlock(t))

FairSpec ==
  /\ Spec
  /\ ServerFairness
  /\ \A t \in Threads : SenderFairness(t)

-----------------------------------------------------------------------------
(* Safety.                                                                 *)

(* A thread that reads server->connfd under state_mutex gets a descriptor  *)
(* that is open: publishing, close() and the reset of connfd never let it  *)
(* see a closed or a reused one.                                           *)
PublishedIsOpen == connfd # None => connfd = fd /\ fdtab[connfd] # None

(* No descriptor is lost: the one open connection is the one               *)
(* wsat_server_run serves, on every path through its loops, and none is    *)
(* left open when wsat_run is not running.                                 *)
NoDescriptorLeak ==
  /\ \A f \in Fds : fdtab[f] # None => f = fd
  /\ pc \in {"idle", "init"} => fd = None /\ ~listening

(* An answer sent by the server thread itself (info, pong, run-pipeline)   *)
(* goes to the connection whose event it answers, whatever the other       *)
(* threads and the peers do meanwhile.                                     *)
AnswerStaysOnConnection ==
  spc[Server] # "idle" => sfd[Server] = fd /\ fd # None /\ fdtab[fd] # None

(* What a step may add to the bytes a peer receives.                       *)
Continues(c) == last'[c] = [last[c] EXCEPT !.piece = @ + 1]
StartsEvent(c) == last'[c].piece = 1
Between(c) == last[c].piece \in {0, MsgLen}

(* On every connection events are whole and in sequence: a piece continues *)
(* the event before it or starts an event where none is unfinished, unless *)
(* a send has failed on the connection although it was healthy.  The one   *)
(* exception is the start of a connection: wsat_event_send uses the        *)
(* descriptor after releasing state_mutex, so a sender overtaken by        *)
(* close() and accept() finishes its event on the connection that got the  *)
(* same descriptor number.                                                 *)
WholeEvents ==
  [][\A c \in Conns : last'[c] # last[c] =>
       \/ Continues(c)
       \/ StartsEvent(c) /\ (Between(c) \/ c \in cut)
       \/ last[c] = Nothing]_vars

(* Even when a send gives up in the middle of an event on a healthy        *)
(* connection, two threads never interleave their bytes: an event may then *)
(* start after a broken one, but only once the thread that sent the broken *)
(* one has left wsat_event_send's send section.                            *)
NoInterleaving ==
  [][\A c \in Conns : last'[c] # last[c] =>
       \/ Continues(c)
       \/ StartsEvent(c) /\ (Between(c) \/ sent[last[c].by] = 0)
       \/ last[c] = Nothing]_vars

-----------------------------------------------------------------------------
(* Liveness, under FairSpec.                                               *)

(* wsat_stop ends a server that has started, whatever the peers do: a      *)
(* stalled peer may block a send, but not past the request.                *)
StopEndsServer ==
  (stop_requested /\ pc \notin {"idle", "init"}) ~> pc = "idle"

(* wsat_stop also frees every thread inside wsat_event_send, whether it    *)
(* waits for its peer or for send_mutex, unless the server is started      *)
(* again before the thread looks.                                          *)
StopFreesSenders ==
  \A t \in Threads :
    (stop_requested /\ spc[t] # "idle") ~> (spc[t] = "idle" \/ ~stop_requested)

(* Nor does a server that ended by itself, with no request to stop, leave  *)
(* a thread behind in wsat_event_send: the descriptor it has is closed by  *)
(* then.                                                                   *)
EndFreesSenders ==
  \A t \in Threads :
    (pc = "idle" /\ spc[t] # "idle") ~> (spc[t] = "idle" \/ pc # "idle")

=============================================================================
