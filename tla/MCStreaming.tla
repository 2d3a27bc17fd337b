----------------------------- MODULE MCStreaming -----------------------------
(* Symmetry for the runs of Streaming: microphone threads are              *)
(* interchangeable, and so are wake-word threads.                          *)
EXTENDS Streaming, TLC

Symmetry == Permutations(Mics) \cup Permutations(Wakes)

=============================================================================
