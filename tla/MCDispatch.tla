----------------------------- MODULE MCDispatch -----------------------------
(* Events and connections for the runs of Dispatch: audio in chunks, cut   *)
(* and whole, with and without what the handlers ask for, and requests     *)
(* with and without a payload.                                             *)
EXTENDS Dispatch

MCBodies ==
  {"describe", "ping", "longPing", "run", "start", "inlineStart",
   "chunk", "emptyChunk", "stop", "error"}

MCType ==
  [b \in MCBodies |->
     CASE b = "longPing" -> "ping"
       [] b = "run" -> "run-satellite"
       [] b \in {"start", "inlineStart"} -> "audio-start"
       [] b \in {"chunk", "emptyChunk"} -> "audio-chunk"
       [] b = "stop" -> "audio-stop"
       [] OTHER -> b]

MCData ==
  [b \in MCBodies |->
     CASE b = "inlineStart" -> "header"
       [] b \in {"start", "chunk", "longPing", "error"} -> "after"
       [] OTHER -> "none"]

MCPayloadLen ==
  [b \in MCBodies |-> IF b \in {"chunk", "longPing"} THEN 3 ELSE 0]

MCMessages ==
  { <<"describe", "run", "ping">>,
    <<"longPing", "run", "error">>,
    <<"start", "chunk", "chunk", "stop">>,
    <<"start", "chunk", "ping", "stop", "start", "chunk", "stop">>,
    <<"start", "emptyChunk", "chunk">>,
    <<"start", "start", "chunk", "stop", "emptyChunk">>,
    <<"inlineStart", "chunk", "stop">>,
    <<"chunk", "stop">> }

=============================================================================
