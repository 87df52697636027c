---------------------------- MODULE ChunkDeliveries ----------------------------
(***************************************************************************)
(* What the coordinator relies on of a scheduler                           *)
(* (apps/web/src/p2p/scheduler/ChunkScheduler.ts), and DownloadSession     *)
(* takes one for: deliveries of chunks, each from a peer or the origin,    *)
(* which end once, in the store or in nothing.  Whatever requests, timers, *)
(* blocks, digests and writes are behind them is ChunkScheduler's matter.  *)
(*                                                                         *)
(* A step is a callback: it ends one delivery at most and may begin        *)
(* several origin downloads, which are steps of their own, Begin, Land,    *)
(* Fail and Refetch, in DownloadSession.                                   *)
(***************************************************************************)
EXTENDS Naturals

CONSTANT Chunks

VARIABLES
    phase,       \* "new", "running", "stopped"
    have,        \* its localBitfield
    stored,      \* chunks whose verified bytes the store has
    announced,   \* chunks a HAVE was broadcast for
    deliveries   \* how many are in progress of each chunk, from each source

vars == <<phase, have, stored, announced, deliveries>>

Delivery == [chunk : Chunks, source : {"p2p", "origin"}]
From(source, C) == [chunk : C, source : {source}]

\* deliveries' is what was in progress, without those in E and with those in B, and with origin
\* downloads of chunks that a running scheduler misses and downloads from there no more than once.
Changes(E, B) ==
    LET rest == [d \in Delivery |-> deliveries[d] + (IF d \in B THEN 1 ELSE 0)
                                                  - (IF d \in E THEN 1 ELSE 0)]
    IN  \E C \in SUBSET (Chunks \ have') :
            /\ C # {} => phase' = "running"
            /\ \A d \in From("origin", C) : rest[d] = 0
            /\ deliveries' = [d \in Delivery |-> IF d \in From("origin", C) THEN 1 ELSE rest[d]]

-----------------------------------------------------------------------------
Init ==
    /\ phase = "new"
    /\ have \in SUBSET Chunks /\ stored = have
    /\ announced = {}
    /\ deliveries = [d \in Delivery |-> 0]

\* start(), and every callback that ends no delivery.
Begin ==
    /\ phase' \in {phase, "running"} /\ (phase' # phase => phase = "new")
    /\ UNCHANGED <<have, stored, announced>>
    /\ Changes({}, {})

\* The last block of a chunk comes from a peer.  The chunk may be held by now.
BeginFromPeer(c) ==
    /\ phase = "running"
    /\ UNCHANGED <<phase, have, stored, announced>>
    /\ deliveries' = [deliveries EXCEPT ![[chunk |-> c, source |-> "p2p"]] = @ + 1]

\* A delivery lands, after stop() too: its chunk is in the store, and announced.
Land(d) ==
    /\ deliveries[d] > 0
    /\ have' = have \cup {d.chunk}
    /\ stored' = stored \cup {d.chunk}
    /\ announced' = announced \cup {d.chunk}
    /\ UNCHANGED phase
    /\ Changes({d}, {})

Fail(d) ==
    /\ deliveries[d] > 0
    /\ UNCHANGED <<phase, have, stored, announced>>
    /\ Changes({d}, {})

\* A peer's chunk was corrupt and the origin is asked for it, by a stopped scheduler perhaps again.
Refetch(d) ==
    /\ deliveries[d] > 0 /\ d.source = "p2p" /\ d.chunk \notin have
    /\ \A o \in From("origin", {d.chunk}) : phase = "running" => deliveries[o] = 0
    /\ UNCHANGED <<phase, have, stored, announced>>
    /\ Changes({d}, From("origin", {d.chunk}))

Stop ==
    /\ phase = "running" /\ phase' = "stopped"
    /\ UNCHANGED <<have, stored, announced, deliveries>>

Next ==
    \/ Begin \/ Stop
    \/ \E c \in Chunks : BeginFromPeer(c)
    \/ \E d \in Delivery : Land(d) \/ Fail(d) \/ Refetch(d)

Spec == Init /\ [][Next]_vars
=============================================================================
