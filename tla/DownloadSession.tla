---------------------------- MODULE DownloadSession ----------------------------
(***************************************************************************)
(* One browser's downloads over the life of a class, as                    *)
(* apps/web/src/p2p/PeerMeshCoordinator.ts orchestrates them: startDownload*)
(* with the await in its middle, the schedulers it creates one after the   *)
(* other, what is told to peers and shown to the student, and stop.        *)
(*                                                                         *)
(* A download is the number of its call of startDownload.  Its scheduler   *)
(* is abstracted to what the coordinator sees of it: deliveries, each an   *)
(* origin fetch begun or a chunk of a peer being verified, that land in    *)
(* the store or come to nothing, whether or not the scheduler was stopped  *)
(* meanwhile (ChunkScheduler has the details).  Which chunks a peer holds  *)
(* is left out, for a scheduler that believes a wrong bitfield only loses  *)
(* time: whether a peer has a bitfield is kept.                            *)
(***************************************************************************)
EXTENDS Naturals, FiniteSets

CONSTANTS
    Resources,
    Peers,
    NoResource,
    ChunksOf,      \* the chunks of each resource
    MaxStarts,     \* bound: calls of startDownload, and deliveries of a chunk from a source after or
                   \* beside another one
    MaxConnects    \* bound: connections made with peers

ASSUME ResourcesAssumption == NoResource \notin Resources
ASSUME ChunksAssumption ==
    /\ DOMAIN ChunksOf = Resources
    /\ \A r \in Resources : IsFiniteSet(ChunksOf[r]) /\ ChunksOf[r] # {}
ASSUME BoundsAssumption == MaxStarts \in Nat /\ MaxConnects \in Nat

Downloads == 1..MaxStarts
NoDownload == 0
Sources == {"p2p", "origin"}
Chunks == UNION {ChunksOf[r] : r \in Resources}

VARIABLES
    starts,          \* how many times startDownload was called
    stage,           \* of each download: "unused", "loading" while it awaits the store,
                     \* "loaded", "running", "stopped", or, with no scheduler, "complete" or
                     \* "failed"
    resource,        \* what each download is of
    have,            \* its localBitfield
    knows,           \* the peers whose bitfield its scheduler has
    deliveries,      \* deliveries in progress, of all schedulers; one of a chunk and a source stands
                     \* for all of them
    repeats,         \* how many were begun after or beside another one
    manifest,        \* currentManifest
    scheduler,       \* the download whose scheduler is this.scheduler
    store,           \* the chunk store
    conn,            \* this.peers, and whether the channel is open
    connects,        \* how many connections were made
    peerBitfields,   \* the peers the coordinator has a bitfield of
    told,            \* claims of possession sent: the message, the resource, the chunk
    shown,           \* state.download
    telemetry,       \* its chunk counters
    stopped,         \* stop was called
    crossed,         \* startDownload or stop was called while a download was loading
    strayed          \* a delivery of a stopped scheduler landed

underway == <<deliveries, repeats>>
dlVars == <<starts, stage, resource, have, knows, scheduler, manifest, underway>>
peerVars == <<conn, connects, peerBitfields>>
viewVars == <<shown, telemetry>>
history == <<told, crossed, strayed>>
vars == <<dlVars, peerVars, viewVars, history, store, stopped>>

Counters == [Sources -> Nat]
Zero == [s \in Sources |-> 0]
Claim == [by : {"start", "have", "open"}, resource : Resources, chunk : Chunks]
Delivery == [download : Downloads, chunk : Chunks, source : Sources]

TypeOK ==
    /\ starts \in 0..MaxStarts
    /\ stage \in [Downloads -> {"unused", "loading", "loaded", "running", "stopped", "complete",
                               "failed"}]
    /\ resource \in [Downloads -> Resources \cup {NoResource}]
    /\ have \in [Downloads -> SUBSET Chunks]
    /\ knows \in [Downloads -> SUBSET Peers]
    /\ deliveries \subseteq Delivery /\ repeats \in 0..MaxStarts
    /\ manifest \in Resources \cup {NoResource}
    /\ scheduler \in Downloads \cup {NoDownload}
    /\ store \in [Resources -> SUBSET Chunks]
    /\ conn \in [Peers -> {"none", "connecting", "open"}]
    /\ connects \in 0..MaxConnects
    /\ peerBitfields \subseteq Peers
    /\ told \subseteq Claim
    /\ shown \in [resource : Resources \cup {NoResource}, done : Nat, counts : Counters,
                  status : {"idle", "downloading", "completed"}]
    /\ telemetry \in Counters
    /\ stopped \in BOOLEAN /\ crossed \in BOOLEAN /\ strayed \in BOOLEAN

Awaiting == {d \in Downloads : stage[d] \in {"loading", "loaded"}}
Complete(d, bits) == bits = ChunksOf[resource[d]]
Open == {p \in Peers : conn[p] = "open"}
Claims(by, r, chunks) == [by : {by}, resource : {r}, chunk : chunks]

-----------------------------------------------------------------------------
Init ==
    /\ starts = 0
    /\ stage = [d \in Downloads |-> "unused"]
    /\ resource = [d \in Downloads |-> NoResource]
    /\ have = [d \in Downloads |-> {}]
    /\ knows = [d \in Downloads |-> {}]
    /\ deliveries = {} /\ repeats = 0
    /\ manifest = NoResource
    /\ scheduler = NoDownload
    /\ store \in [Resources -> SUBSET Chunks]   \* of earlier visits
    /\ \A r \in Resources : store[r] \subseteq ChunksOf[r]
    /\ conn = [p \in Peers |-> "none"]
    /\ connects = 0
    /\ peerBitfields = {}
    /\ told = {}
    /\ shown = [resource |-> NoResource, done |-> 0, counts |-> Zero, status |-> "idle"]
    /\ telemetry = Zero
    /\ stopped = FALSE /\ crossed = FALSE /\ strayed = FALSE

(***************************************************************************)
(* Downloads                                                               *)
(***************************************************************************)
\* Broken Halted: the scheduler replaced goes on.
HaltedNothing(s) == s

\* this.scheduler.stop(): deliveries in progress go on.
Halted(s) ==
    IF scheduler # NoDownload /\ stage[scheduler] = "running"
    THEN [s EXCEPT ![scheduler] = "stopped"] ELSE s

\* scheduleNext of the scheduler of d, which reports a complete download again.
Reschedules(d) ==
    shown' = IF d # NoDownload /\ stage[d] = "running" /\ Complete(d, have[d])
             THEN [shown EXCEPT !.status = "completed"] ELSE shown

\* Broken StartDownload: telemetry is not reset.
StartDownloadKeepsTelemetry(r) ==
    /\ ~stopped
    /\ starts + repeats < MaxStarts
    /\ starts' = starts + 1
    /\ stage' = [Halted(stage) EXCEPT ![starts + 1] = "loading"]
    /\ resource' = [resource EXCEPT ![starts + 1] = r]
    /\ manifest' = r
    /\ crossed' = (crossed \/ Awaiting # {})
    /\ UNCHANGED <<have, knows, scheduler, underway, peerVars, viewVars, told, strayed, store,
                   stopped>>

\* startDownload up to its await.  The scheduler replaced stays this.scheduler for now.
StartDownload(r) ==
    /\ ~stopped
    /\ starts + repeats < MaxStarts
    /\ starts' = starts + 1
    /\ stage' = [Halted(stage) EXCEPT ![starts + 1] = "loading"]
    /\ resource' = [resource EXCEPT ![starts + 1] = r]
    /\ manifest' = r
    /\ telemetry' = Zero
    /\ crossed' = (crossed \/ Awaiting # {})
    /\ UNCHANGED <<have, knows, scheduler, underway, peerVars, shown, told, strayed, store,
                   stopped>>

\* The store's transaction answers getAvailableChunks.
ReadAvailable(d) ==
    /\ stage[d] = "loading"
    /\ stage' = [stage EXCEPT ![d] = "loaded"]
    /\ have' = [have EXCEPT ![d] = store[resource[d]]]
    /\ UNCHANGED <<starts, resource, knows, scheduler, manifest, underway, peerVars, viewVars,
                   history, store, stopped>>

\* getAvailableChunks rejects, and startDownload with it, between what it has reset and what it
\* was to show: manifest and telemetry are of this call, the page and the scheduler of the last.
ReadFails(d) ==
    /\ stage[d] = "loading"
    /\ stage' = [stage EXCEPT ![d] = "failed"]
    /\ UNCHANGED <<starts, resource, have, knows, scheduler, manifest, underway, peerVars, viewVars,
                   history, store, stopped>>

ShowStart(d) ==
    shown' = [resource |-> resource[d], done |-> Cardinality(have[d]), counts |-> Zero,
              status |-> IF Complete(d, have[d]) THEN "completed" ELSE "downloading"]

\* startDownload after its await, when chunks are missing.
ResumeStart(d) ==
    /\ stage[d] = "loaded"
    /\ ~Complete(d, have[d])
    /\ ShowStart(d)
    /\ scheduler' = d
    /\ knows' = [knows EXCEPT ![d] = peerBitfields]
    /\ told' = IF Open = {} THEN told ELSE told \cup Claims("start", resource[d], have[d])
    /\ stage' = [stage EXCEPT ![d] = "running"]
    /\ UNCHANGED <<starts, resource, have, manifest, underway, peerVars, telemetry, crossed,
                   strayed, store, stopped>>

\* startDownload after its await, when nothing is missing: this.scheduler stays as it was.
ResumeComplete(d) ==
    /\ stage[d] = "loaded"
    /\ Complete(d, have[d])
    /\ ShowStart(d)
    /\ stage' = [stage EXCEPT ![d] = "complete"]
    /\ UNCHANGED <<starts, resource, have, knows, scheduler, manifest, underway, peerVars,
                   telemetry, history, store, stopped>>

\* One more delivery of a chunk and a source of which there was one.
Again == starts + repeats < MaxStarts /\ repeats' = repeats + 1

\* A running scheduler begins a delivery.  Only this.scheduler is given PIECE messages, and a
\* request may still be out for a chunk that it has by now.
Begin(d, c, source) ==
    /\ stage[d] = "running"
    /\ c \in ChunksOf[resource[d]]
    /\ source = "origin" => c \notin have[d]
    /\ source = "p2p" => d = scheduler /\ knows[d] # {}
    /\ [download |-> d, chunk |-> c, source |-> source] \notin deliveries
    /\ deliveries' = deliveries \cup {[download |-> d, chunk |-> c, source |-> source]}
    /\ IF c \in have[d] THEN Again ELSE UNCHANGED repeats
    /\ UNCHANGED <<starts, stage, resource, have, knows, scheduler, manifest, peerVars, viewVars,
                   history, store, stopped>>

\* Delivery t ends, and D are left.  Another of the same chunk may be in progress: peers sent it
\* twice, or the origin was asked for it before stop and after.
Ends(t, D) ==
    /\ t \in deliveries
    /\ \/ D = deliveries \ {t} /\ UNCHANGED repeats
       \/ D = deliveries /\ Again /\ (t.source = "origin" => stage[t.download] # "running")

\* Broken Land: progress counts the deliveries that land.
LandCountsAgain(t) ==
    LET d == t.download
        bits == have[d] \cup {t.chunk} IN
    /\ Ends(t, deliveries')
    /\ store' = [store EXCEPT ![resource[d]] = @ \cup {t.chunk}]
    /\ have' = [have EXCEPT ![d] = bits]
    /\ told' = IF Open = {} THEN told ELSE told \cup Claims("have", resource[d], {t.chunk})
    /\ telemetry' = [telemetry EXCEPT ![t.source] = @ + 1]
    /\ shown' = [shown EXCEPT !.counts[t.source] = @ + 1,
                              !.done = @ + 1,
                              !.status = IF Complete(d, bits) THEN "completed" ELSE @]
    /\ strayed' = (strayed \/ stage[d] # "running")
    /\ UNCHANGED <<starts, stage, resource, knows, scheduler, manifest, peerVars, crossed, stopped>>

\* A delivery is verified and stored, and the callbacks of its scheduler run.
Land(t) ==
    LET d == t.download
        bits == have[d] \cup {t.chunk} IN
    /\ Ends(t, deliveries')
    /\ store' = [store EXCEPT ![resource[d]] = @ \cup {t.chunk}]
    /\ have' = [have EXCEPT ![d] = bits]
    /\ told' = IF Open = {} THEN told ELSE told \cup Claims("have", resource[d], {t.chunk})
    /\ telemetry' = [telemetry EXCEPT ![t.source] = @ + 1]
    /\ shown' = [shown EXCEPT !.counts[t.source] = @ + 1,
                              !.done = Cardinality(bits),
                              !.status = IF Complete(d, bits) THEN "completed" ELSE @]
    /\ strayed' = (strayed \/ stage[d] # "running")
    /\ UNCHANGED <<starts, stage, resource, knows, scheduler, manifest, peerVars, crossed, stopped>>

\* Broken Fail: HAVE is broadcast, or the bit set, before the put is awaited, which fails.
FailAnnounced(t) ==
    /\ Ends(t, deliveries')
    /\ told' = IF Open = {} THEN told
               ELSE told \cup Claims("have", resource[t.download], {t.chunk})
    /\ Reschedules(t.download)
    /\ UNCHANGED <<starts, stage, resource, have, knows, scheduler, manifest, peerVars, telemetry,
                   crossed, strayed, store, stopped>>

FailKeepsBit(t) ==
    LET d == t.download
        bits == have[d] \cup {t.chunk} IN
    /\ Ends(t, deliveries')
    /\ have' = [have EXCEPT ![d] = bits]
    /\ shown' = IF stage[d] = "running" /\ Complete(d, bits)
                THEN [shown EXCEPT !.status = "completed"] ELSE shown
    /\ UNCHANGED <<starts, stage, resource, knows, scheduler, manifest, peerVars, telemetry,
                   history, store, stopped>>

\* A delivery comes to nothing: corrupt, refused by the origin, or not stored.  If it is the put
\* of a peer's chunk that rejects, nothing is scheduled.
Fail(t) ==
    /\ Ends(t, deliveries')
    /\ Reschedules(t.download) \/ (t.source = "p2p" /\ UNCHANGED shown)
    /\ UNCHANGED <<starts, stage, resource, have, knows, scheduler, manifest, peerVars, telemetry,
                   history, store, stopped>>

\* A peer's chunk is corrupt and asked of the origin, by a stopped scheduler too.
Refetch(t) ==
    /\ t.source = "p2p"
    /\ t.chunk \notin have[t.download]
    /\ \E D \in {deliveries \ {t}, deliveries} :
           Ends(t, D) /\ deliveries' = D \cup {[t EXCEPT !.source = "origin"]}
    /\ UNCHANGED <<starts, stage, resource, have, knows, scheduler, manifest, peerVars, viewVars,
                   history, store, stopped>>

\* The student leaves or the session ends.  What awaits goes on awaiting.
Stop ==
    /\ ~stopped
    /\ stopped' = TRUE
    /\ stage' = Halted(stage)
    /\ scheduler' = NoDownload
    /\ conn' = [p \in Peers |-> "none"]
    /\ peerBitfields' = {}
    /\ shown' = [shown EXCEPT !.status = "idle"]
    /\ crossed' = (crossed \/ Awaiting # {})
    /\ UNCHANGED <<starts, resource, have, knows, manifest, underway, connects, telemetry, told,
                   strayed, store>>

(***************************************************************************)
(* Peers                                                                   *)
(***************************************************************************)
Connect(p) ==
    /\ ~stopped
    /\ conn[p] = "none"
    /\ connects < MaxConnects
    /\ connects' = connects + 1
    /\ conn' = [conn EXCEPT ![p] = "connecting"]
    /\ UNCHANGED <<dlVars, peerBitfields, viewVars, history, store, stopped>>

\* The bits are those of this.scheduler, the name and the size those of currentManifest; bits
\* beyond that size are not read.
ChannelOpen(p) ==
    /\ conn[p] = "connecting"
    /\ conn' = [conn EXCEPT ![p] = "open"]
    /\ told' = IF manifest # NoResource /\ scheduler # NoDownload
               THEN told \cup Claims("open", manifest, have[scheduler] \cap ChunksOf[manifest])
               ELSE told
    /\ UNCHANGED <<dlVars, connects, peerBitfields, viewVars, crossed, strayed, store, stopped>>

\* Broken PeerLeft: the coordinator keeps the bitfield.
PeerLeftKeepsBitfield(p) ==
    /\ conn[p] # "none"
    /\ conn' = [conn EXCEPT ![p] = "none"]
    /\ knows' = IF scheduler = NoDownload THEN knows ELSE [knows EXCEPT ![scheduler] = @ \ {p}]
    /\ Reschedules(scheduler)
    /\ UNCHANGED <<starts, stage, resource, have, scheduler, manifest, underway, connects,
                   peerBitfields, telemetry, history, store, stopped>>

\* PEER_LEFT, or the channel closes.
PeerLeft(p) ==
    /\ conn[p] # "none"
    /\ conn' = [conn EXCEPT ![p] = "none"]
    /\ peerBitfields' = peerBitfields \ {p}
    /\ knows' = IF scheduler = NoDownload THEN knows ELSE [knows EXCEPT ![scheduler] = @ \ {p}]
    /\ Reschedules(scheduler)
    /\ UNCHANGED <<starts, stage, resource, have, scheduler, manifest, underway, connects,
                   telemetry, history, store, stopped>>

\* What this.scheduler is told of p, if it is of resource r.
Learns(p, r) ==
    IF scheduler # NoDownload /\ resource[scheduler] = r
    THEN knows' = [knows EXCEPT ![scheduler] = @ \cup {p}] /\ Reschedules(scheduler)
    ELSE UNCHANGED <<knows, shown>>

Bitfield(p, r) ==
    /\ conn[p] = "open"
    /\ peerBitfields' = peerBitfields \cup {p}
    /\ Learns(p, r)
    /\ UNCHANGED <<starts, stage, resource, have, scheduler, manifest, underway, conn, connects,
                   telemetry, history, store, stopped>>

\* A HAVE whose index is beyond the bitfield kept of the peer throws before it gets to the
\* scheduler: the bitfield may be of another resource.
Have(p, r) ==
    /\ conn[p] = "open"
    /\ manifest # NoResource \/ p \in peerBitfields
    /\ peerBitfields' = peerBitfields \cup {p}
    /\ Learns(p, r) \/ UNCHANGED <<knows, shown>>
    /\ UNCHANGED <<starts, stage, resource, have, scheduler, manifest, underway, conn, connects,
                   telemetry, history, store, stopped>>

-----------------------------------------------------------------------------
Next ==
    \/ \E r \in Resources : StartDownload(r)
    \/ \E d \in Downloads : ReadAvailable(d) \/ ReadFails(d) \/ ResumeStart(d) \/ ResumeComplete(d)
    \/ \E d \in Downloads, c \in Chunks, s \in Sources : Begin(d, c, s)
    \/ \E t \in deliveries : Land(t) \/ Fail(t) \/ Refetch(t)
    \/ Stop
    \/ \E p \in Peers : Connect(p) \/ ChannelOpen(p) \/ PeerLeft(p)
    \/ \E p \in Peers, r \in Resources : Bitfield(p, r) \/ Have(p, r)

Spec == Init /\ [][Next]_vars

-----------------------------------------------------------------------------
\* A chunk announced by a HAVE or by the BITFIELD of startDownload is in the store, under the
\* resource it was announced for, whichever scheduler announced it and whatever replaced it
\* meanwhile (startDownload, line 540; broadcastToPeers, line 478).
AnnouncedIsStored ==
    \A claim \in told : claim.by # "open" => claim.chunk \in store[claim.resource]

\* README.md:380 says BITFIELD is "representing chunk availability".  That includes the one
\* sent when a channel opens (handleChannelOpen, line 318).
BitfieldsTruthful ==
    \A claim \in told : claim.by = "open" => claim.chunk \in store[claim.resource]

\* As long as downloads are started and stopped one after the other, at most one scheduler
\* runs: that of the manifest, of the resource shown, and none once stop was called
\* (startDownload, line 433; stop, line 593).
OneScheduler ==
    ~crossed => \A d \in Downloads : stage[d] = "running" =>
        /\ ~stopped
        /\ scheduler = d
        /\ manifest = resource[d] /\ shown.resource = resource[d]

\* A peer that left is forgotten, by the coordinator and by the scheduler in charge, also when
\* it left or came while startDownload awaited the store (handlePeerLeft, lines 295-298;
\* startDownload, line 535).
DepartedForgotten ==
    /\ peerBitfields \subseteq Open
    /\ scheduler # NoDownload => knows[scheduler] \subseteq peerBitfields

\* What is shown of a download is in the store, unless a scheduler that was replaced delivers late
\* (its callbacks, lines 518 and 523, write over those of the other) or starts cross: the progress
\* counts chunks, each once, however often peers and the origin delivered it and telemetry added
\* it up (P2PTelemetry.ts:105), and "completed" stands at a file that can be assembled.
ProgressIsStored ==
    ~strayed /\ ~crossed =>
        /\ shown.resource # NoResource => shown.done <= Cardinality(store[shown.resource])
        /\ shown.status = "completed" => store[shown.resource] = ChunksOf[shown.resource]

\* The last call of startDownload got past its await, or was given up at it because the store
\* could not be read.
LastResumed == starts = 0 \/ stage[starts] \in {"running", "stopped", "complete"}
LastFailed == starts # 0 /\ stage[starts] = "failed"

\* The counters of telemetry are reset before the await of startDownload and those shown after it
\* (lines 438, 447): once the last call has got past it, telemetry never falls behind what is
\* shown, and while calls do not cross and no replaced scheduler delivers, the two agree.  If
\* that call failed at its await, telemetry stays at zero, whatever is shown of the download
\* before.
CountersAgree ==
    /\ LastResumed => \A s \in Sources : shown.counts[s] <= telemetry[s]
    /\ Awaiting = {} /\ ~strayed /\ ~crossed =>
          telemetry = IF LastFailed THEN Zero ELSE shown.counts
=============================================================================
