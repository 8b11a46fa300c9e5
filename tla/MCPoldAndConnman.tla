--------------------------- MODULE MCPoldAndConnman ---------------------------
EXTENDS PoldAndConnman

CONSTANTS
  a,
  MaxFaults      \* bound: kinds of trouble (not how often) in one history

(* The policies as they are when the history begins: none is refused yet, as *)
(* to the plugin an answer it refuses is no more than an error.              *)
MCInit == Init /\ document \in [App -> {"valid", "missing"}]
MCSpec == MCInit /\ [][Next]_vars

FewFaults == Cardinality(faults) <= MaxFaults
=============================================================================
