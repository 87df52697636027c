--------------------------- MODULE MCChunkScheduler ---------------------------
(***************************************************************************)
(* Instances of ChunkScheduler for TLC.  The peers' own events (bitfields, *)
(* HAVE, choking, leaving, channels opening and failing) are unlimited in  *)
(* ChunkScheduler; here a budget bounds how many of them happen.           *)
(***************************************************************************)
EXTENDS ChunkScheduler, TLC

CONSTANTS MaxPeerEvents    \* bound: peer events in a behaviour

VARIABLES events           \* peer events so far

mcVars == <<vars, events>>

MCInit == Init /\ events = 0

CountedPeerEvent ==
    /\ events < MaxPeerEvents
    /\ PeerEvent
    /\ events' = events + 1

MCNext ==
    \/ CountedPeerEvent
    \/ /\ Start \/ Stop \/ BlockArrives \/ (\E c \in Chunks : HandleTimeout(c)) \/ Settles
       /\ UNCHANGED events

MCSpec == MCInit /\ [][MCNext]_mcVars
MCFairSpec == MCSpec /\ Fairness

\* Peers, and the blocks of a chunk, are interchangeable.
Symmetric == Permutations(Peers) \cup Permutations(Blocks)
=============================================================================
