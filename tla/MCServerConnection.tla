------------------------- MODULE MCServerConnection -------------------------
(***************************************************************************)
(* Symmetry for the safety run of the server.  The callers, the            *)
(* connections and the descriptors are interchangeable.                    *)
(***************************************************************************)
EXTENDS ServerConnection, TLC

Symmetry ==
  Permutations(Callers) \cup Permutations(Conns) \cup Permutations(Fds)

=============================================================================
