-------------------------- MODULE MCStorageManager --------------------------
(* The storage manager with its threads, for TLC. *)
EXTENDS StorageManager

CONSTANT MaxUnlocks    \* bound on the unlocks scheduled for one key of an adapter

Bounded == \A a \in Adapters, k \in Keys : l2_unlocks[a][k] <= MaxUnlocks

MCSpec == Init /\ [][Next /\ Bounded']_vars

MCFairSpec == MCSpec /\ PrefetchFairness

\* Two chunks of one prompt: clients ask for the first one or for both.
MCPrefixes == {{1}, {1, 2}}

\* Prompts of one chunk each.
MCSingles == {{1}, {2}}

\* The smallest configurations have one prompt.
MCWhole == {{1, 2}}

\* One chunk.
MCFirst == {{1}}

Symmetry ==
    Permutations(MemObjs) \cup Permutations(Requests) \cup Permutations(StoreTasks)
=============================================================================
