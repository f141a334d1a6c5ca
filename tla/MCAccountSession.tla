--------------------------- MODULE MCAccountSession ---------------------------
(* The account of one computer in the surroundings its runs are about.       *)
EXTENDS AccountSession

EveryFault == {"unreachable", "lost answer", "server error", "killed", "unwritable"}

\* A server that keeps refresh tokens, with one adapter and every fault; one
\* that replaces them and may be unreachable; and a person who signs in twice
\* beside an adapter.
MCWorlds ==
    {[rotates |-> FALSE, faults |-> EveryFault, adapters |-> TRUE, signIns |-> 1],
     [rotates |-> TRUE, faults |-> {"unreachable"}, adapters |-> FALSE, signIns |-> 2],
     [rotates |-> FALSE, faults |-> {"unreachable"}, adapters |-> TRUE, signIns |-> 2]}

=============================================================================
