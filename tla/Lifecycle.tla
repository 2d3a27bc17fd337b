------------------------------ MODULE Lifecycle ------------------------------
(***************************************************************************)
(* The life of a satellite (lib/satellite.c) in a program like the         *)
(* example (example/main.c): wsat_init, the setters, any number of         *)
(* wsat_run, wsat_destroy.  wsat_run initialises a table of components,    *)
(* runs the server and destroys what was initialised, in the same order.   *)
(* A microphone's init starts a thread that calls wsat_mic_write_data and  *)
(* its destroy joins it; other threads of the program call                 *)
(* wsat_wake_detection and wsat_stop at any time, before wsat_init too.    *)
(***************************************************************************)
EXTENDS Integers

CONSTANTS
  Mics, Snds, Wakes, (* the components of the user                         *)
  WithInit,          (* those with an init_fn                              *)
  WithDestroy,       (* those with a destroy_fn                            *)
  Preset,            (* those whose is_init is set from the start          *)
  Callers,           (* threads calling wsat_wake_detection and wsat_stop  *)
  None               (* NULL                                               *)

Users == Mics \cup Snds \cup Wakes
Modes == {"wake_stream", "always_stream"}
Components == Modes \cup Users

ASSUME LifecycleAssumption ==
  /\ WithInit \cup WithDestroy \cup Preset \subseteq Users
  /\ Mics \cap WithInit \subseteq WithDestroy
  /\ Modes \cap Users = {} /\ Mics \cap (Snds \cup Wakes) = {}
  /\ Snds \cap Wakes = {}
  /\ Mics \cap Callers = {}
  /\ None \notin Components \cup Callers

HasInit(c)    == c \in Modes \cup WithInit
HasDestroy(c) == c \in Modes \cup WithDestroy

(* A microphone names the thread it starts.                                *)
Threads == Mics \cup Callers

VARIABLES
  pc,             (* where main is                                         *)
  next,           (* the loop counter of wsat_run                          *)
  mode,           (* inst->mode                                            *)
  slot,           (* inst->snd, inst->mic and inst->wake                   *)
  table,          (* inst->components                                      *)
  is_init,        (* per component, its is_init                            *)
  stop_requested, (* server->stop_requested                                *)
  enabled,        (* per microphone, mic_enabled                           *)
  alive,          (* the microphone threads that exist                     *)
  call,           (* per thread, the mode whose handler it is in           *)
  left,           (* the callers that have called wsat_stop and ended      *)
  held,           (* history: init_fn calls less destroy_fn calls, of the  *)
                  (* components that have a destroy_fn                     *)
  steady          (* history: no setter was called during this wsat_run    *)

inst    == <<mode, slot, table>>
comps   == <<is_init, held>>
mic     == <<enabled, alive>>
callers == <<call, left>>
vars    == <<pc, next, inst, comps, stop_requested, mic, callers, steady>>

Running == {"init", "serve", "cleanup"}
NoCall  == [t \in Threads |-> "none"]

TypeOK ==
  /\ pc \in {"new", "idle", "end", "crashed"} \cup Running
  /\ next \in 1..5
  /\ mode \in Modes \cup {None}
  /\ slot \in [snd : Snds \cup {None}, mic : Mics \cup {None},
               wake : Wakes \cup {None}]
  /\ table \in [1..4 -> Components \cup {None}]
  /\ is_init \in [Components -> BOOLEAN]
  /\ stop_requested \in BOOLEAN /\ steady \in BOOLEAN
  /\ enabled \in [Mics -> BOOLEAN] /\ alive \in SUBSET Mics
  /\ call \in [Threads -> Modes \cup {"none", "about"}]
  /\ left \in SUBSET Callers
  /\ held \in [Components -> Int]

Empty == [snd |-> None, mic |-> None, wake |-> None]

(* main has started the threads of the program, and nothing else.          *)
Init ==
  /\ pc = "new" /\ next = 1
  /\ mode = None /\ slot = Empty /\ table = [i \in 1..4 |-> None]
  /\ is_init = [c \in Components |-> c \in Preset]
  /\ held = [c \in Components |-> IF c \in Preset THEN 1 ELSE 0]
  /\ stop_requested = FALSE /\ steady = FALSE
  /\ enabled = [m \in Mics |-> FALSE] /\ alive = {}
  /\ call = NoCall /\ left = {}

-----------------------------------------------------------------------------
(* Plausible slips in the code, used to test the properties.               *)

(* wsat_mic_set writes the slot of the sound component.                    *)
SetMicAsSound(s) ==
  /\ pc \in {"idle"} \cup Running
  /\ slot' = [s EXCEPT !.snd = s.mic] /\ slot' # slot
  /\ steady' = FALSE
  /\ UNCHANGED <<pc, next, mode, table, comps, stop_requested, mic, callers>>

(* The mode is chosen by the presence of a microphone.                     *)
ChosenByMic == IF slot.mic # None THEN "wake_stream" ELSE "always_stream"

(* The microphone comes before the mode in the table.                      *)
RunMicFirst ==
  /\ pc = "idle"
  /\ pc' = "init" /\ next' = 1
  /\ LET m == IF slot.wake # None THEN "wake_stream" ELSE "always_stream"
     IN  mode' = m /\ table' = <<slot.mic, slot.snd, m, slot.wake>>
  /\ steady' = (call = NoCall)
  /\ UNCHANGED <<slot, comps, stop_requested, mic, callers>>

(* mic_stop_stream does not clear mic_enabled, or does not join.           *)
StopMicStillEnabled(m) ==
  /\ pc = "cleanup" /\ next < 5 /\ m = table[next]
  /\ enabled[m] /\ is_init[m]
  /\ UNCHANGED vars

NotJoined(c) == c \in Mics => ~enabled[c]

(* The loop over the table keeps is_init.                                  *)
DestroyKeepingIsInit(c) ==
  /\ pc = "cleanup" /\ next < 5 /\ c = table[next]
  /\ c \notin alive
  /\ held' = [held EXCEPT ![c] =
                IF is_init[c] /\ HasDestroy(c) THEN @ - 1 ELSE @]
  /\ next' = next + 1
  /\ UNCHANGED <<pc, inst, is_init, stop_requested, mic, callers, steady>>

-----------------------------------------------------------------------------
(* wsat_init, wsat_destroy and the setters.                                *)

(* The memset also forgets a stop requested before.                        *)
WsatInit ==
  /\ pc = "new"
  /\ pc' = "idle"
  /\ mode' = None /\ slot' = Empty /\ table' = [i \in 1..4 |-> None]
  /\ stop_requested' = FALSE
  /\ UNCHANGED <<next, comps, mic, callers, steady>>

(* main joins the other threads first.                                     *)
WsatDestroy ==
  /\ pc = "idle" /\ left = Callers
  /\ pc' = "end"
  /\ UNCHANGED <<next, inst, comps, stop_requested, mic, callers, steady>>

(* Nothing keeps a program from calling the setters during wsat_run, from  *)
(* the init_fn of a component say.                                         *)
Set(s) ==
  /\ pc \in {"idle"} \cup Running
  /\ slot' = s /\ slot' # slot
  /\ steady' = FALSE
  /\ UNCHANGED <<pc, next, mode, table, comps, stop_requested, mic, callers>>

WsatSet ==
  \/ \E c \in Snds \cup {None}  : Set([slot EXCEPT !.snd = c])
  \/ \E c \in Mics \cup {None}  : Set([slot EXCEPT !.mic = c])
  \/ \E c \in Wakes \cup {None} : Set([slot EXCEPT !.wake = c])

-----------------------------------------------------------------------------
(* wsat_run.                                                               *)

Chosen == IF slot.wake # None THEN "wake_stream" ELSE "always_stream"

Run ==
  /\ pc = "idle"
  /\ pc' = "init" /\ next' = 1
  /\ mode' = Chosen
  /\ table' = <<Chosen, slot.snd, slot.mic, slot.wake>>
  /\ steady' = (call = NoCall)
  /\ UNCHANGED <<slot, comps, stop_requested, mic, callers>>

ToInit(c) == c # None /\ HasInit(c) /\ ~is_init[c]

InitSkip ==
  /\ pc = "init" /\ next < 5 /\ ~ToInit(table[next])
  /\ next' = next + 1
  /\ UNCHANGED <<pc, inst, comps, stop_requested, mic, callers, steady>>

(* A microphone starts its thread.                                         *)
InitOk(c) ==
  /\ pc = "init" /\ next < 5 /\ c = table[next] /\ ToInit(c)
  /\ is_init' = [is_init EXCEPT ![c] = TRUE]
  /\ held' = [held EXCEPT ![c] = IF HasDestroy(c) THEN @ + 1 ELSE @]
  /\ next' = next + 1
  /\ enabled' = [m \in Mics |-> enabled[m] \/ m = c]
  /\ alive' = alive \cup ({c} \cap Mics)
  /\ UNCHANGED <<pc, inst, stop_requested, callers, steady>>

(* The modes never fail.                                                   *)
InitFail ==
  /\ pc = "init" /\ next < 5 /\ ToInit(table[next]) /\ table[next] \in Users
  /\ pc' = "cleanup" /\ next' = 1
  /\ UNCHANGED <<inst, comps, stop_requested, mic, callers, steady>>

Serve ==
  /\ pc = "init" /\ next = 5
  /\ pc' = "serve" /\ stop_requested' = FALSE
  /\ UNCHANGED <<next, inst, comps, mic, callers, steady>>

(* wsat_server_run returns: a stop was requested, or the network failed.   *)
ServeEnd ==
  /\ pc = "serve"
  /\ pc' = "cleanup" /\ next' = 1
  /\ UNCHANGED <<inst, comps, stop_requested, mic, callers, steady>>

ToDestroy(c) == HasDestroy(c) /\ is_init[c]

(* mic_stop_stream tells the thread of a microphone, then joins it.        *)
StopMic(m) ==
  /\ pc = "cleanup" /\ next < 5 /\ m = table[next] /\ ToDestroy(m)
  /\ enabled[m]
  /\ enabled' = [enabled EXCEPT ![m] = FALSE]
  /\ UNCHANGED <<pc, next, inst, comps, stop_requested, alive, callers, steady>>

Joined(c) == c \in Mics => ~enabled[c] /\ c \notin alive

Destroy(c) ==
  /\ pc = "cleanup" /\ next < 5 /\ c = table[next]
  /\ ToDestroy(c) => Joined(c)
  /\ held' = [held EXCEPT ![c] = IF ToDestroy(c) THEN @ - 1 ELSE @]
  /\ is_init' = [is_init EXCEPT ![c] = FALSE]
  /\ next' = next + 1
  /\ UNCHANGED <<pc, inst, stop_requested, mic, callers, steady>>

DestroySkip ==
  /\ pc = "cleanup" /\ next < 5 /\ table[next] = None
  /\ next' = next + 1
  /\ UNCHANGED <<pc, inst, comps, stop_requested, mic, callers, steady>>

RunEnd ==
  /\ pc = "cleanup" /\ next = 5
  /\ pc' = "idle"
  /\ UNCHANGED <<next, inst, comps, stop_requested, mic, callers, steady>>

-----------------------------------------------------------------------------
(* The other threads.                                                      *)

Alive(t) == t \in alive \cup (Callers \ left) /\ pc # "crashed"

(* The loop of a microphone thread looks at mic_enabled, then calls        *)
(* wsat_mic_write_data; a caller calls wsat_wake_detection.                *)
Begin(t) ==
  /\ Alive(t) /\ call[t] = "none"
  /\ t \in Mics => enabled[t]
  /\ call' = [call EXCEPT ![t] = "about"]
  /\ UNCHANGED <<pc, next, inst, comps, stop_requested, mic, left, steady>>

(* Both follow inst->mode without a look.                                  *)
Enter(t) ==
  /\ Alive(t) /\ call[t] = "about"
  /\ IF mode = None
       THEN pc' = "crashed" /\ UNCHANGED call
       ELSE call' = [call EXCEPT ![t] = mode] /\ UNCHANGED pc
  /\ UNCHANGED <<next, inst, comps, stop_requested, mic, left, steady>>

(* A chunk to send needs inst->mic, a wake word inst->wake.                *)
Needed(t) ==
  IF t \in Mics THEN slot.mic
  ELSE IF call[t] = "wake_stream" THEN slot.wake ELSE t

FollowNull(t) ==
  /\ Alive(t) /\ call[t] \in Modes /\ Needed(t) = None
  /\ pc' = "crashed"
  /\ UNCHANGED <<next, inst, comps, stop_requested, mic, callers, steady>>

Leave(t) ==
  /\ Alive(t) /\ call[t] \in Modes
  /\ call' = [call EXCEPT ![t] = "none"]
  /\ UNCHANGED <<pc, next, inst, comps, stop_requested, mic, left, steady>>

(* The loop of a microphone thread ends.                                   *)
Exit(m) ==
  /\ Alive(m) /\ call[m] = "none" /\ ~enabled[m]
  /\ alive' = alive \ {m}
  /\ UNCHANGED <<pc, next, inst, comps, stop_requested, enabled, callers, steady>>

(* 'q': wsat_stop, and the terminal thread ends.                           *)
Stop(t) ==
  /\ Alive(t) /\ call[t] = "none"
  /\ stop_requested' = TRUE
  /\ left' = left \cup {t}
  /\ UNCHANGED <<pc, next, inst, comps, mic, call, steady>>

-----------------------------------------------------------------------------
(* The steps wsat_run takes by itself.                                     *)
MainStep ==
  \/ InitSkip \/ InitFail \/ Serve
  \/ \E c \in Components : InitOk(c) \/ Destroy(c)
  \/ stop_requested /\ ServeEnd
  \/ \E m \in Mics : StopMic(m)
  \/ DestroySkip \/ RunEnd

Calls(t) == Enter(t) \/ FollowNull(t) \/ Leave(t)

Next ==
  \/ WsatInit \/ WsatDestroy \/ WsatSet \/ Run
  \/ ServeEnd \/ MainStep
  \/ \E t \in Threads : Begin(t) \/ Calls(t)
  \/ \E m \in Mics : Exit(m)
  \/ \E t \in Callers : Stop(t)

Spec == Init /\ [][Next]_vars

(* main and the threads keep running.  A handler may be held up by the     *)
(* peer for as long as the server runs; once wsat_server_run has returned  *)
(* it returns too (EndFreesSenders of SatelliteServer).                    *)
FairSpec ==
  /\ Spec
  /\ WF_vars(MainStep)
  /\ \A t \in Threads : WF_vars(Enter(t)) /\ WF_vars(pc = "cleanup" /\ Leave(t))
  /\ \A m \in Mics : WF_vars(Exit(m))

-----------------------------------------------------------------------------
(* Properties.                                                             *)

(* On every path through wsat_run, a failing component and setters called  *)
(* meanwhile included, whatever is up is destroyed once: is_init says      *)
(* whether a component is up, and none of the table is when wsat_run       *)
(* returns, so that it may be run again.                                   *)
DestroyedOnce ==
  /\ \A c \in Modes \cup WithDestroy : held[c] = (IF is_init[c] THEN 1 ELSE 0)
  /\ pc \in {"idle", "end"} =>
       \A i \in 1..4 : table[i] # None => ~is_init[table[i]]

(* A handler of a mode runs while the mode, and so its mutex, exists: for  *)
(* a microphone always, save between the destruction of the mode and the   *)
(* end of its thread, which wsat_run joins only later; for the other       *)
(* threads while the server runs.                                          *)
ModeOutlivesCalls ==
  \A t \in Threads : call[t] \in Modes /\ held[call[t]] = 0 =>
    IF t \in Mics THEN pc \in {"cleanup", "crashed"} /\ next \in {2, 3}
    ELSE pc # "serve" \/ call[t] # mode

(* No thread outlives the run that started it.                             *)
ThreadsJoined == pc \in {"new", "idle", "end"} => alive = {}

(* A program that calls wsat_wake_detection before its first wsat_run, or  *)
(* changes a component while wsat_run uses it, may follow a null pointer;  *)
(* a wsat_run left alone never does.                                       *)
NoNullWhileSteady == [][steady /\ pc \in Running => pc' # "crashed"]_vars

(* wsat_run returns: once the server was asked to stop, or a component has *)
(* failed, the threads are joined and everything is destroyed.             *)
RunReturns ==
  (pc = "cleanup" \/ (pc = "serve" /\ stop_requested)) ~>
    pc \in {"idle", "crashed"}

=============================================================================
