--------------------------- MODULE LifecycleProofs ---------------------------
(***************************************************************************)
(* Proofs about Lifecycle, for any components, hooks and threads.  The     *)
(* inductive invariant says where the loops of wsat_run are with the       *)
(* components, and with which run every microphone thread belongs.         *)
(***************************************************************************)
EXTENDS Lifecycle, TLAPS

(* What sits where in the table.                                           *)
Table ==
  /\ table[1] \in Modes \cup {None} /\ table[2] \in Snds \cup {None}
  /\ table[3] \in Mics \cup {None} /\ table[4] \in Wakes \cup {None}
  /\ pc \in Running => mode \in Modes /\ table[1] = mode

(* is_init says what is up.                                                *)
Held ==
  \A c \in Modes \cup WithDestroy : held[c] = (IF is_init[c] THEN 1 ELSE 0)

(* The mode is the first to be initialised and to be destroyed, and what   *)
(* the second loop has passed is down.                                     *)
Loops ==
  /\ \/ pc = "init" /\ next > 1
     \/ pc = "serve"
     \/ pc = "cleanup" /\ next = 1
     => is_init[mode]
  /\ pc = "cleanup" => \A i \in 1..4 :
       i < next /\ table[i] # None => ~is_init[table[i]]
  /\ pc \in {"idle", "end"} => \A i \in 1..4 :
       table[i] # None => ~is_init[table[i]]

(* A microphone thread belongs to the run that started it.                 *)
Mine(m) ==
  /\ pc \in Running \cup {"crashed"}
  /\ table[3] = m /\ is_init[m]
  /\ pc = "init" => next > 3
  /\ pc = "cleanup" => next <= 3

MicThreads ==
  \A m \in Mics :
    /\ m \in alive => Mine(m) /\ m \in WithInit
    /\ enabled[m] \/ call[m] # "none" => m \in alive
    /\ call[m] \in Modes /\ pc # "crashed" => call[m] = mode

(* A run that is left alone finds the components it was started with.      *)
Left ==
  pc \in Running /\ steady =>
    /\ slot.mic = table[3] /\ slot.wake = table[4]
    /\ mode = Chosen
    /\ \A t \in Callers : call[t] \in Modes => call[t] = mode

IInv ==
  TypeOK /\ Table /\ Held /\ Loops /\ MicThreads /\ Left /\ ModeOutlivesCalls

-----------------------------------------------------------------------------
(* The initial states satisfy the invariant.                               *)
LEMMA InitIInv == Init => IInv
<1> SUFFICES ASSUME Init PROVE IInv
  OBVIOUS
<1> USE LifecycleAssumption DEF Init
<1>1. TypeOK
  <2>1. slot \in [snd : Snds \cup {None}, mic : Mics \cup {None},
                 wake : Wakes \cup {None}]
    BY DEF Empty
  <2>2. /\ is_init \in [Components -> BOOLEAN]
        /\ held \in [Components -> Int]
        /\ table \in [1..4 -> Components \cup {None}]
    OBVIOUS
  <2>3. call \in [Threads -> Modes \cup {"none", "about"}]
    BY DEF NoCall
  <2>4. /\ enabled \in [Mics -> BOOLEAN] /\ alive \in SUBSET Mics
        /\ left \in SUBSET Callers
    OBVIOUS
  <2>5. pc \in {"new", "idle", "end", "crashed"} /\ next \in 1..5
    OBVIOUS
  <2>6. stop_requested \in BOOLEAN /\ steady \in BOOLEAN
    OBVIOUS
  <2> QED
    BY <2>1, <2>2, <2>3, <2>4, <2>5, <2>6 DEF TypeOK
<1>2. Table /\ Loops
  BY DEF Table, Loops, Running
<1>2a. Held
  BY DEF Held, Components, Users
<1>3. MicThreads /\ Left /\ ModeOutlivesCalls
  BY DEF MicThreads, Left, ModeOutlivesCalls, NoCall, Threads, Modes, Running
<1> QED
  BY <1>1, <1>2, <1>2a, <1>3 DEF IInv

(* The setters change one slot.                                            *)
LEMMA SetShape ==
  WsatSet => /\ steady' = FALSE
             /\ UNCHANGED <<pc, next, mode, table, is_init, held,
                            stop_requested, enabled, alive, call, left>>
  BY DEF WsatSet, Set, comps, mic, callers

LEMMA SetType ==
  ASSUME TypeOK, WsatSet
  PROVE  slot' \in [snd : Snds \cup {None}, mic : Mics \cup {None},
                    wake : Wakes \cup {None}]
  BY DEF WsatSet, Set, TypeOK

(* The steps, grouped by what they may disturb.                            *)
Quiet == InitSkip \/ DestroySkip \/ RunEnd \/ InitFail \/ ServeEnd \/ Serve

LEMMA StepCases ==
  ASSUME [Next]_vars, NEW ACTION P,
         UNCHANGED vars => P,
         WsatInit \/ WsatDestroy => P,
         WsatSet => P,
         Run => P,
         Quiet => P,
         \A c \in Components : InitOk(c) => P,
         \A c \in Components : Destroy(c) => P,
         \A m \in Mics : StopMic(m) \/ Exit(m) => P,
         \A t \in Threads : Begin(t) \/ Leave(t) \/ FollowNull(t) => P,
         \A t \in Threads : Enter(t) => P,
         \A t \in Callers : Stop(t) => P
  PROVE  P
  BY DEF Next, MainStep, Calls, Quiet

(* Every step keeps the types.                                             *)
LEMMA TypeStep == IInv /\ [Next]_vars => TypeOK'
<1> SUFFICES ASSUME IInv, [Next]_vars PROVE TypeOK'
  OBVIOUS
<1>a. TypeOK
  BY DEF IInv
<1> USE LifecycleAssumption, <1>a DEF TypeOK, inst, comps, mic, callers, Running
<1>1. CASE UNCHANGED vars
  BY <1>1 DEF vars
<1>2. CASE WsatInit \/ WsatDestroy
  <2>1. Empty \in [snd : Snds \cup {None}, mic : Mics \cup {None},
                  wake : Wakes \cup {None}]
    BY DEF Empty
  <2>2. CASE WsatInit
    BY <2>1, <2>2 DEF WsatInit
  <2>3. CASE WsatDestroy
    BY <2>3 DEF WsatDestroy
  <2> QED
    BY <1>2, <2>2, <2>3
<1>3. CASE WsatSet
  BY <1>3, SetShape, SetType
<1>4. CASE Run
  <2>1. Chosen \in Modes
    BY DEF Chosen, Modes
  <2>2. table' \in [1..4 -> Components \cup {None}]
    <3>1. /\ slot.snd \in Components \cup {None}
          /\ slot.mic \in Components \cup {None}
          /\ slot.wake \in Components \cup {None}
      BY DEF Components, Users
    <3> QED
      BY <1>4, <2>1, <3>1 DEF Run, Components
  <2> QED
    BY <1>4, <2>1, <2>2 DEF Run
<1>5. CASE Quiet
  <2>1. CASE InitSkip \/ DestroySkip
    BY <2>1 DEF InitSkip, DestroySkip
  <2>2. CASE RunEnd \/ Serve
    BY <2>2 DEF RunEnd, Serve
  <2>3. CASE InitFail
    BY <2>3 DEF InitFail
  <2>4. CASE ServeEnd
    BY <2>4 DEF ServeEnd
  <2> QED
    BY <1>5, <2>1, <2>2, <2>3, <2>4 DEF Quiet
<1>6. ASSUME NEW c \in Components, InitOk(c) PROVE TypeOK'
  BY <1>6 DEF InitOk
<1>7. ASSUME NEW c \in Components, Destroy(c) PROVE TypeOK'
  BY <1>7 DEF Destroy
<1>8. ASSUME NEW m \in Mics, StopMic(m) \/ Exit(m) PROVE TypeOK'
  BY <1>8 DEF StopMic, Exit
<1>9. ASSUME NEW t \in Threads, Begin(t) \/ Leave(t) \/ FollowNull(t)
      PROVE  TypeOK'
  BY <1>9 DEF Begin, Leave, FollowNull
<1>10. ASSUME NEW t \in Threads, Enter(t) PROVE TypeOK'
  BY <1>10 DEF Enter
<1>11. ASSUME NEW t \in Callers, Stop(t) PROVE TypeOK'
  BY <1>11 DEF Stop
<1> QED
  BY <1>1, <1>2, <1>3, <1>4, <1>5, <1>6, <1>7, <1>8, <1>9, <1>10, <1>11,
     StepCases

(* What sits where in the table stays as wsat_run wrote it.                *)
LEMMA TableStep == IInv /\ [Next]_vars => Table'
<1> SUFFICES ASSUME IInv, TypeOK, TypeOK', [Next]_vars PROVE Table'
  BY TypeStep DEF IInv
<1> USE LifecycleAssumption DEF IInv, Table, TypeOK, inst, comps, mic, callers, Running
<1>1. CASE UNCHANGED vars
  BY <1>1 DEF vars
<1>2. CASE WsatInit \/ WsatDestroy
  BY <1>2 DEF WsatInit, WsatDestroy, Empty
<1>3. CASE WsatSet
  BY <1>3, SetShape
<1>4. CASE Run
  BY <1>4 DEF Run, Chosen, Modes
<1>5. CASE Quiet
  BY <1>5 DEF Quiet, InitSkip, DestroySkip, RunEnd, InitFail, ServeEnd, Serve
<1>6. ASSUME NEW c \in Components, InitOk(c) PROVE Table'
  BY <1>6 DEF InitOk
<1>7. ASSUME NEW c \in Components, Destroy(c) PROVE Table'
  BY <1>7 DEF Destroy
<1>8. ASSUME NEW m \in Mics, StopMic(m) \/ Exit(m) PROVE Table'
  BY <1>8 DEF StopMic, Exit
<1>9. ASSUME NEW t \in Threads, Begin(t) \/ Leave(t) \/ FollowNull(t) PROVE Table'
  BY <1>9 DEF Begin, Leave, FollowNull
<1>10. ASSUME NEW t \in Threads, Enter(t) PROVE Table'
  BY <1>10 DEF Enter
<1>11. ASSUME NEW t \in Callers, Stop(t) PROVE Table'
  BY <1>11 DEF Stop
<1> QED
  BY <1>1, <1>2, <1>3, <1>4, <1>5, <1>6, <1>7, <1>8, <1>9, <1>10, <1>11,
     StepCases

(* is_init keeps saying what is up.                                        *)
LEMMA HeldStep == IInv /\ [Next]_vars => Held'
<1> SUFFICES ASSUME IInv, TypeOK, TypeOK', [Next]_vars PROVE Held'
  BY TypeStep DEF IInv
<1> USE LifecycleAssumption DEF IInv, Held, TypeOK, inst, comps, mic, callers, Running
<1>1. CASE UNCHANGED vars
  BY <1>1 DEF vars
<1>2. CASE WsatInit \/ WsatDestroy
  BY <1>2 DEF WsatInit, WsatDestroy, Empty
<1>3. CASE WsatSet
  BY <1>3, SetShape
<1>4. CASE Run
  BY <1>4 DEF Run
<1>5. CASE Quiet
  BY <1>5 DEF Quiet, InitSkip, DestroySkip, RunEnd, InitFail, ServeEnd, Serve
<1>6. ASSUME NEW c \in Components, InitOk(c) PROVE Held'
  BY <1>6 DEF InitOk, ToInit, HasInit, HasDestroy, Components, Users
<1>7. ASSUME NEW c \in Components, Destroy(c) PROVE Held'
  BY <1>7 DEF Destroy, ToDestroy, HasDestroy, Components, Users
<1>8. ASSUME NEW m \in Mics, StopMic(m) \/ Exit(m) PROVE Held'
  BY <1>8 DEF StopMic, Exit
<1>9. ASSUME NEW t \in Threads, Begin(t) \/ Leave(t) \/ FollowNull(t) PROVE Held'
  BY <1>9 DEF Begin, Leave, FollowNull
<1>10. ASSUME NEW t \in Threads, Enter(t) PROVE Held'
  BY <1>10 DEF Enter
<1>11. ASSUME NEW t \in Callers, Stop(t) PROVE Held'
  BY <1>11 DEF Stop
<1> QED
  BY <1>1, <1>2, <1>3, <1>4, <1>5, <1>6, <1>7, <1>8, <1>9, <1>10, <1>11,
     StepCases

(* The loops of wsat_run leave nothing out.                                *)
LEMMA LoopsStep == IInv /\ [Next]_vars => Loops'
<1> SUFFICES ASSUME IInv, TypeOK, TypeOK', [Next]_vars PROVE Loops'
  BY TypeStep DEF IInv
<1> USE LifecycleAssumption DEF IInv, Table, Loops, TypeOK, inst, comps, mic, callers, Running
<1>1. CASE UNCHANGED vars
  BY <1>1 DEF vars
<1>2. CASE WsatInit \/ WsatDestroy
  BY <1>2 DEF WsatInit, WsatDestroy, Empty
<1>3. CASE WsatSet
  BY <1>3, SetShape
<1>4. CASE Run
  BY <1>4 DEF Run
<1>5. CASE Quiet
  BY <1>5 DEF Quiet, InitSkip, DestroySkip, RunEnd, InitFail, ServeEnd, Serve, ToInit, HasInit, Components, Users
<1>6. ASSUME NEW c \in Components, InitOk(c) PROVE Loops'
  BY <1>6 DEF InitOk
<1>7. ASSUME NEW c \in Components, Destroy(c) PROVE Loops'
  BY <1>7 DEF Destroy
<1>8. ASSUME NEW m \in Mics, StopMic(m) \/ Exit(m) PROVE Loops'
  BY <1>8 DEF StopMic, Exit
<1>9. ASSUME NEW t \in Threads, Begin(t) \/ Leave(t) \/ FollowNull(t) PROVE Loops'
  BY <1>9 DEF Begin, Leave, FollowNull
<1>10. ASSUME NEW t \in Threads, Enter(t) PROVE Loops'
  BY <1>10 DEF Enter
<1>11. ASSUME NEW t \in Callers, Stop(t) PROVE Loops'
  BY <1>11 DEF Stop
<1> QED
  BY <1>1, <1>2, <1>3, <1>4, <1>5, <1>6, <1>7, <1>8, <1>9, <1>10, <1>11,
     StepCases

(* A microphone thread stays within the run that started it.               *)
LEMMA MicThreadsStep == IInv /\ [Next]_vars => MicThreads'
<1> SUFFICES ASSUME IInv, TypeOK, TypeOK', [Next]_vars PROVE MicThreads'
  BY TypeStep DEF IInv
<1> USE LifecycleAssumption DEF IInv, Table, Loops, MicThreads, Mine, Threads, TypeOK, inst, comps, mic, callers, Running
<1>1. CASE UNCHANGED vars
  BY <1>1 DEF vars
<1>2. CASE WsatInit \/ WsatDestroy
  BY <1>2 DEF WsatInit, WsatDestroy, Empty, Modes
<1>3. CASE WsatSet
  BY <1>3, SetShape
<1>4. CASE Run
  BY <1>4 DEF Run, Chosen, Modes
<1>5. CASE Quiet
  BY <1>5 DEF Quiet, InitSkip, DestroySkip, RunEnd, InitFail, ServeEnd, Serve, ToInit, Modes, Components, Users
<1>6. ASSUME NEW c \in Components, InitOk(c) PROVE MicThreads'
  BY <1>6 DEF InitOk, ToInit, HasInit, Components, Users, Modes
<1>7. ASSUME NEW c \in Components, Destroy(c) PROVE MicThreads'
  BY <1>7 DEF Destroy, ToDestroy, HasDestroy, Joined, Components, Users, Modes
<1>8. ASSUME NEW m \in Mics, StopMic(m) \/ Exit(m) PROVE MicThreads'
  BY <1>8 DEF StopMic, Exit, Alive
<1>9. ASSUME NEW t \in Threads, Begin(t) \/ Leave(t) \/ FollowNull(t) PROVE MicThreads'
  BY <1>9 DEF Begin, Leave, FollowNull, Alive, Modes
<1>10. ASSUME NEW t \in Threads, Enter(t) PROVE MicThreads'
  BY <1>10 DEF Enter, Alive, Modes
<1>11. ASSUME NEW t \in Callers, Stop(t) PROVE MicThreads'
  BY <1>11 DEF Stop, Alive
<1> QED
  BY <1>1, <1>2, <1>3, <1>4, <1>5, <1>6, <1>7, <1>8, <1>9, <1>10, <1>11,
     StepCases

(* A run left alone keeps the components it was started with.              *)
LEMMA LeftStep == IInv /\ [Next]_vars => Left'
<1> SUFFICES ASSUME IInv, TypeOK, TypeOK', [Next]_vars PROVE Left'
  BY TypeStep DEF IInv
<1> USE LifecycleAssumption DEF IInv, Table, Left, Chosen, Threads, TypeOK, inst, comps, mic, callers, Running
<1>1. CASE UNCHANGED vars
  BY <1>1 DEF vars
<1>2. CASE WsatInit \/ WsatDestroy
  BY <1>2 DEF WsatInit, WsatDestroy, Empty
<1>3. CASE WsatSet
  BY <1>3, SetShape
<1>4. CASE Run
  BY <1>4 DEF Run, NoCall, Modes
<1>5. CASE Quiet
  BY <1>5 DEF Quiet, InitSkip, DestroySkip, RunEnd, InitFail, ServeEnd, Serve
<1>6. ASSUME NEW c \in Components, InitOk(c) PROVE Left'
  BY <1>6 DEF InitOk
<1>7. ASSUME NEW c \in Components, Destroy(c) PROVE Left'
  BY <1>7 DEF Destroy
<1>8. ASSUME NEW m \in Mics, StopMic(m) \/ Exit(m) PROVE Left'
  BY <1>8 DEF StopMic, Exit
<1>9. ASSUME NEW t \in Threads, Begin(t) \/ Leave(t) \/ FollowNull(t) PROVE Left'
  BY <1>9 DEF Begin, Leave, FollowNull, Modes
<1>10. ASSUME NEW t \in Threads, Enter(t) PROVE Left'
  BY <1>10 DEF Enter, Modes
<1>11. ASSUME NEW t \in Callers, Stop(t) PROVE Left'
  BY <1>11 DEF Stop
<1> QED
  BY <1>1, <1>2, <1>3, <1>4, <1>5, <1>6, <1>7, <1>8, <1>9, <1>10, <1>11,
     StepCases

(* A call of a microphone finds its mode, save in the window of its end.   *)
LEMMA OutlivesStep == IInv /\ [Next]_vars => ModeOutlivesCalls'
<1> SUFFICES ASSUME IInv, TypeOK, TypeOK', [Next]_vars PROVE ModeOutlivesCalls'
  BY TypeStep DEF IInv
<1> USE LifecycleAssumption DEF IInv, Table, Held, Loops, MicThreads, Mine, ModeOutlivesCalls, Threads, TypeOK, inst, comps, mic, callers, Running
<1>1. CASE UNCHANGED vars
  BY <1>1 DEF vars
<1>2. CASE WsatInit \/ WsatDestroy
  BY <1>2 DEF WsatInit, WsatDestroy, Empty
<1>3. CASE WsatSet
  BY <1>3, SetShape
<1>4. CASE Run
  BY <1>4 DEF Run, Chosen
<1>5. CASE Quiet
  BY <1>5 DEF Quiet, InitSkip, DestroySkip, RunEnd, InitFail, ServeEnd, Serve, ToInit, HasInit, Modes, Components, Users
<1>6. ASSUME NEW c \in Components, InitOk(c) PROVE ModeOutlivesCalls'
  BY <1>6 DEF InitOk, ToInit, HasInit, HasDestroy, Components, Modes
<1>7. ASSUME NEW c \in Components, Destroy(c) PROVE ModeOutlivesCalls'
  BY <1>7 DEF Destroy, ToDestroy, HasDestroy, Joined, Components, Users, Modes
<1>8. ASSUME NEW m \in Mics, StopMic(m) \/ Exit(m) PROVE ModeOutlivesCalls'
  BY <1>8 DEF StopMic, Exit, Alive
<1>9. ASSUME NEW t \in Threads, Begin(t) \/ Leave(t) \/ FollowNull(t) PROVE ModeOutlivesCalls'
  BY <1>9 DEF Begin, Leave, FollowNull, Alive, Modes
<1>10. ASSUME NEW t \in Threads, Enter(t) PROVE ModeOutlivesCalls'
  BY <1>10 DEF Enter, Alive, Modes, Components, Users
<1>11. ASSUME NEW t \in Callers, Stop(t) PROVE ModeOutlivesCalls'
  BY <1>11 DEF Stop, Alive
<1> QED
  BY <1>1, <1>2, <1>3, <1>4, <1>5, <1>6, <1>7, <1>8, <1>9, <1>10, <1>11,
     StepCases

-----------------------------------------------------------------------------
(* The invariant is inductive: every step of the program keeps where the   *)
(* loops of wsat_run are and whom the threads belong to.                   *)
THEOREM Invariance == Spec => []IInv
<1>1. IInv /\ [Next]_vars => IInv'
  BY TypeStep, TableStep, HeldStep, LoopsStep, MicThreadsStep, LeftStep,
     OutlivesStep DEF IInv
<1> QED
  BY <1>1, InitIInv, PTL DEF Spec

(* The life cycle keeps its types, the table of components included.       *)
THEOREM TypeCorrect == Spec => []TypeOK
<1>1. IInv => TypeOK
  BY DEF IInv
<1> QED
  BY <1>1, Invariance, PTL

(* Whatever components a program registers, whichever of them fail and     *)
(* however often wsat_run is called: what is up is destroyed once.         *)
THEOREM Once == Spec => []DestroyedOnce
<1>1. IInv => DestroyedOnce
  BY DEF IInv, Held, Loops, DestroyedOnce
<1> QED
  BY <1>1, Invariance, PTL

(* The mode outlives the calls that use it, save in the window between its *)
(* destruction and the end of the microphone thread.                       *)
THEOREM Outlives == Spec => []ModeOutlivesCalls
<1>1. IInv => ModeOutlivesCalls
  BY DEF IInv
<1> QED
  BY <1>1, Invariance, PTL

(* No microphone thread outlives the run that started it.                  *)
THEOREM Joins == Spec => []ThreadsJoined
<1>1. IInv => ThreadsJoined
  BY DEF IInv, MicThreads, Mine, ThreadsJoined, TypeOK, Running
<1> QED
  BY <1>1, Invariance, PTL

(* A wsat_run whose components are left alone follows no null pointer: the *)
(* mode is chosen before any component may call, and a microphone or wake  *)
(* word can only call when it is there.                                    *)
THEOREM Steady == Spec => NoNullWhileSteady
<1>1. ASSUME IInv, [Next]_vars, steady, pc \in Running
      PROVE  pc' # "crashed"
  <2> USE <1>1, LifecycleAssumption DEF IInv, TypeOK, Running
  <2>1. ASSUME NEW t \in Threads, Enter(t) PROVE pc' # "crashed"
    BY <2>1 DEF Enter, Table, Components
  <2>2. ASSUME NEW t \in Threads, FollowNull(t) PROVE FALSE
    <3>1. CASE t \in Mics
      BY <2>2, <3>1 DEF FollowNull, Needed, MicThreads, Mine, Left, Alive,
                        Components, Users, Modes
    <3>2. CASE t \in Callers
      BY <2>2, <3>2 DEF FollowNull, Needed, Left, Chosen, Modes
    <3> QED
      BY <3>1, <3>2 DEF Threads
  <2>3. CASE UNCHANGED vars
    BY <2>3 DEF vars
  <2>4. CASE WsatSet
    BY <2>4, SetShape
  <2>5. CASE Quiet
    BY <2>5 DEF Quiet, InitSkip, DestroySkip, RunEnd, InitFail, ServeEnd, Serve
  <2>6. ASSUME NEW t \in Threads, Begin(t) \/ Leave(t) PROVE pc' # "crashed"
    BY <2>6 DEF Begin, Leave
  <2>7. CASE WsatInit \/ WsatDestroy \/ Run
    BY <2>7 DEF WsatInit, WsatDestroy, Run
  <2>8. ASSUME NEW c \in Components, InitOk(c) \/ Destroy(c)
        PROVE  pc' # "crashed"
    BY <2>8 DEF InitOk, Destroy
  <2>9. ASSUME NEW m \in Mics, StopMic(m) \/ Exit(m) PROVE pc' # "crashed"
    BY <2>9 DEF StopMic, Exit
  <2>10. ASSUME NEW t \in Callers, Stop(t) PROVE pc' # "crashed"
    BY <2>10 DEF Stop
  <2> QED
    BY <2>1, <2>2, <2>3, <2>4, <2>5, <2>6, <2>7, <2>8, <2>9, <2>10, StepCases
<1>2. IInv /\ [Next]_vars =>
        [steady /\ pc \in Running => pc' # "crashed"]_vars
  BY <1>1
<1> QED
  BY <1>2, Invariance, PTL DEF Spec, NoNullWhileSteady

=============================================================================
