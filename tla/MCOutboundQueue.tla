-------------------------- MODULE MCOutboundQueue --------------------------
(* Constant values for the runs of OutboundQueue.                          *)
EXTENDS OutboundQueue, TLC

CONSTANTS tab, worker, i1, i2

\* Both commands are about one item, so the second waits for the first.
OneItem == [c \in Cmds |-> i1]
Symmetry == Permutations(Engines)
=============================================================================
