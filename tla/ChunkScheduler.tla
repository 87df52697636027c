---------------------------- MODULE ChunkScheduler ----------------------------
(***************************************************************************)
(* The download engine of one student's browser                            *)
(* (apps/web/src/p2p/scheduler/ChunkScheduler.ts): it asks peers for the   *)
(* chunks it misses, rarest first, falls back to the HTTP origin, verifies *)
(* every chunk against the manifest, stores it, and only then sets its bit *)
(* and broadcasts HAVE.                                                    *)
(*                                                                         *)
(* JavaScript runs a callback to completion, so one action is one          *)
(* callback: a data-channel message, a timer, a settled promise.  What the *)
(* code awaits (the origin fetch, the SHA-256 digest, the store's put) is  *)
(* a task in a bag; the part of the function that follows the await is the *)
(* action that retires the task.                                           *)
(*                                                                         *)
(* Abstractions.  A chunk is its index, a block of a PIECE its offset, and *)
(* the bytes of a block are intact or not.  A block may come from any peer *)
(* at any time, as the code never looks at the sender.  Every chunk has a  *)
(* hash in the manifest, as ManifestGenerator writes one for each.         *)
(***************************************************************************)
EXTENDS Integers, FiniteSets

CONSTANTS
    Chunks,              \* chunk indices of the resource
    Peers,               \* remote peers
    Blocks,              \* offsets of the blocks a chunk is sent in
    Nobody,              \* stands for "no peer"
    MaxInFlightPerPeer,  \* maxInFlightPerPeer
    MaxTotalInFlight,    \* maxTotalInFlight
    P2P_REQUEST_RETRIES, \* retries before the origin is used
    CanFail,             \* what may throw in handlePiece: "overrun", "digest", "put"
    MaxP2PTasks          \* bound: deliveries of one chunk by peers being verified or stored

ASSUME ChunksAssumption == Chunks \subseteq Nat /\ Chunks # {} /\ IsFiniteSet(Chunks)
ASSUME PeersAssumption == IsFiniteSet(Peers) /\ Nobody \notin Peers
ASSUME BlocksAssumption == Blocks # {}
ASSUME CapsAssumption ==
    /\ MaxInFlightPerPeer \in Nat \ {0}
    /\ MaxTotalInFlight \in Nat \ {0}
    /\ P2P_REQUEST_RETRIES \in Nat
    /\ CanFail \subseteq {"overrun", "digest", "put"}
    /\ MaxP2PTasks \in Nat \ {0}

VARIABLES
    phase,          \* isRunning, with "new" and "stopped" told apart
    have,           \* localBitfield
    store,          \* what chunkStore holds for each chunk
    announced,      \* chunks a HAVE was broadcast for
    avail,          \* peerBitfields
    choked,         \* peers whose peerChoked entry is true
    open,           \* peers whose data channel accepts a send
    inFlight,       \* outstanding P2P request of each chunk
    reassembly,     \* blocks received for each chunk, with their quality
    originInFlight, \* chunks claimed by an origin download
    tasks,          \* bag of awaited fetches, digests and puts
    rejected        \* history: chunks whose handlePiece has rejected since scheduleNext last ran

vars == <<phase, have, store, announced, avail, choked, open, inFlight,
          reassembly, originInFlight, tasks, rejected>>

swarmVars == <<avail, choked, open>>   \* what is known of the peers
diskVars  == <<have, store, announced>>

NoRequest == [peer |-> Nobody, retries |-> 0]
Request   == [peer : Peers, retries : 0..P2P_REQUEST_RETRIES]

Task == [chunk  : Chunks,
         source : {"p2p", "origin"},
         stage  : {"fetch", "verify", "put"},
         intact : BOOLEAN]

FetchTask(c) == [chunk |-> c, source |-> "origin", stage |-> "fetch", intact |-> TRUE]
VerifyTask(c, src, ok) == [chunk |-> c, source |-> src, stage |-> "verify", intact |-> ok]
PutTask(t) == [t EXCEPT !.stage = "put"]

Pending(t)   == tasks[t] > 0
P2PTasks(c)  == tasks[VerifyTask(c, "p2p", TRUE)] + tasks[VerifyTask(c, "p2p", FALSE)]
                + tasks[PutTask(VerifyTask(c, "p2p", TRUE))]
Spawn(b, t)  == [b EXCEPT ![t] = @ + 1]
Retire(b, t) == [b EXCEPT ![t] = @ - 1]

Busy(inf) == {c \in Chunks : inf[c] # NoRequest}

TypeOK ==
    /\ phase \in {"new", "running", "stopped"}
    /\ have \subseteq Chunks
    /\ store \in [Chunks -> {"none", "good", "bad"}]
    /\ announced \subseteq Chunks
    /\ avail \in [Peers -> SUBSET Chunks]
    /\ choked \subseteq Peers
    /\ open \subseteq Peers
    /\ inFlight \in [Chunks -> Request \cup {NoRequest}]
    /\ reassembly \in [Chunks -> SUBSET (Blocks \X BOOLEAN)]
    /\ originInFlight \subseteq Chunks
    /\ tasks \in [Task -> Nat]
    /\ rejected \subseteq Chunks

(***************************************************************************)
(* Scheduling.  The synchronous loops of the scheduler are operators from  *)
(* a scheduling state s = [inf, org, work] to the set of states they may   *)
(* leave; the set has several members where the code follows the iteration *)
(* order of a Map.  They read the primed bitfields: a handler updates      *)
(* those first and then calls the loop.                                    *)
(***************************************************************************)
Sched(inf, org, work) == [inf |-> inf, org |-> org, work |-> work]

Eligible(c) == {p \in Peers : p \notin choked' /\ c \in avail'[p]}

Load(inf, p) == Cardinality({c \in Chunks : inf[c].peer = p})

Room(s) == MaxTotalInFlight - (Cardinality(Busy(s.inf)) + Cardinality(s.org))

\* Broken ToOrigin: does not look whether the chunk is held by now.
ToOriginAnyway(s, G) ==
    LET new == G \ s.org
    IN  Sched(s.inf, s.org \cup new,
              [t \in Task |-> IF \E c \in new : t = FetchTask(c) THEN s.work[t] + 1 ELSE s.work[t]])

\* dispatchOriginFallback for every chunk of G
ToOrigin(s, G) ==
    LET new == {c \in G : c \notin have' /\ c \notin s.org}
    IN  IF new = {} THEN s
        ELSE Sched(s.inf, s.org \cup new,
                   [t \in Task |-> IF \E c \in new : t = FetchTask(c) THEN s.work[t] + 1
                                                                     ELSE s.work[t]])

\* A plan maps chunks to the peer each is sent to first.  A channel's send may
\* throw, for one of them at most: the message that threw is queued, so that the
\* next are accepted.  (That an earlier callback may have left the queue filled,
\* and no send throws then, is not looked at.)
Throws(a) ==
    {T \in SUBSET {c \in DOMAIN a : a[c] \in open'} : \A c, d \in T : a[c] = a[d] => c = d}

\* Broken Attempt: what is sent again after a failed send is the same attempt.
AttemptUncounted(T, retries, c) == retries[c]

\* The attempt number of the request that is accepted: scheduleChunk sorts the
\* same peers by the same loads, and sends again to the peer whose send threw.
Attempt(T, retries, c) == IF c \in T THEN retries[c] + 1 ELSE retries[c]

\* The chunks whose request is accepted.
Asked(a, T, retries) ==
    {c \in DOMAIN a : a[c] \in open' /\ Attempt(T, retries, c) <= P2P_REQUEST_RETRIES}

\* The load of p when the loop reaches c counts the requests Q accepted earlier,
\* in the order ord.
PlannedLoad(s, a, Q, ord, c, p) ==
    Load(s.inf, p) + Cardinality({d \in Q : <<d, c>> \in ord /\ a[d] = p})

LeastLoaded(s, a, Q, ord, c, S) ==
    {p \in S : \A q \in S : PlannedLoad(s, a, Q, ord, c, p) <= PlannedLoad(s, a, Q, ord, c, q)}

\* dispatchP2PRequest for a whole plan; retries[c] is the attempt number.  Where
\* the channel is not open, scheduleChunk meets the same peer until the retries
\* run out, and ends at the origin.
Carry(s, a, T, retries) ==
    LET asked  == Asked(a, T, retries)
        failed == {c \in DOMAIN a : a[c] \in Peers} \ asked
    IN  ToOrigin([s EXCEPT !.inf = [c \in Chunks |->
                      IF c \in asked THEN [peer |-> a[c], retries |-> Attempt(T, retries, c)]
                                     ELSE s.inf[c]]],
                 failed)

\* Rarest first, then by index (the sort is stable).
RarestFirst(A) ==
    {e \in A \X A : LET r1 == Cardinality(Eligible(e[1]))
                        r2 == Cardinality(Eligible(e[2]))
                    IN  r1 < r2 \/ (r1 = r2 /\ e[1] < e[2])}

\* Broken GreedyPlans: only the total is capped, not the load of a peer.
GreedyPlansUncapped(s, A) ==
    LET ord == RarestFirst(A)
    IN  {plan \in [A -> Peers \cup {Nobody}] \X SUBSET A :
            LET a == plan[1]
                Q == Asked(a, plan[2], [c \in A |-> 0])
            IN  /\ plan[2] \in Throws(a)
                /\ \A c \in A :
                     IF Room(s) <= Cardinality({d \in A : <<d, c>> \in ord /\ a[d] # Nobody})
                     THEN a[c] = Nobody
                     ELSE a[c] \in LeastLoaded(s, a, Q, ord, c, Eligible(c))}

\* The first loop of scheduleNext: each chunk, in order, goes to the least
\* loaded peer that is below its cap, as long as there is room.
GreedyPlans(s, A) ==
    LET ord == RarestFirst(A)
    IN  {plan \in [A -> Peers \cup {Nobody}] \X SUBSET A :
            LET a == plan[1]
                Q == Asked(a, plan[2], [c \in A |-> 0])
            IN  /\ plan[2] \in Throws(a)
                /\ \A c \in A :
                     LET below == {p \in Eligible(c) :
                                      PlannedLoad(s, a, Q, ord, c, p) < MaxInFlightPerPeer}
                         taken == Cardinality({d \in A : <<d, c>> \in ord /\ a[d] # Nobody})
                     IN  IF below = {} \/ Room(s) <= taken
                         THEN a[c] = Nobody
                         ELSE a[c] \in LeastLoaded(s, a, Q, ord, c, below)}

\* The second loop: chunks no peer has go to the origin, by index, while there
\* is room.
SeedFromOrigin(s, Z) ==
    ToOrigin(s, {c \in Z : Cardinality({d \in Z : d < c}) < Room(s)})

ScheduleNext(s) ==
    LET missing == {c \in Chunks \ have' : s.inf[c] = NoRequest /\ c \notin s.org}
        held    == {c \in missing : Eligible(c) # {}}
    IN  IF phase' # "running" \/ have' = Chunks \/ Room(s) <= 0
        THEN {s}
        ELSE {SeedFromOrigin(Carry(s, plan[1], plan[2], [c \in held |-> 0]), missing \ held) :
                 plan \in GreedyPlans(s, held)}

\* The plans of scheduleChunk for every chunk of R, in the order ord: the least
\* loaded peer, or nobody when the retries are used up or no peer has the chunk.
RetryPlans(s, R, ord, retries) ==
    {plan \in [R -> Peers \cup {Nobody}] \X SUBSET R :
        LET a == plan[1]
            Q == Asked(a, plan[2], retries)
        IN  /\ plan[2] \in Throws(a)
            /\ \A c \in R :
                 IF c \in have' \/ retries[c] > P2P_REQUEST_RETRIES \/ Eligible(c) = {}
                 THEN a[c] = Nobody
                 ELSE a[c] \in LeastLoaded(s, a, Q, ord, c, Eligible(c))}

LinearOrders(R) ==
    {o \in SUBSET (R \X R) :
        /\ \A c \in R : <<c, c>> \notin o
        /\ \A c, d \in R : c # d => (<<c, d>> \in o <=> <<d, c>> \notin o)
        /\ \A c, d, e \in R : <<c, d>> \in o /\ <<d, e>> \in o => <<c, e>> \in o}

\* The order of the chunks is the insertion order of the map inFlight.
ScheduleChunks(s, R, retries) ==
    {ToOrigin(Carry(s, plan[1], plan[2], retries), {c \in R : plan[1][c] = Nobody}) :
        plan \in UNION {RetryPlans(s, R, o, retries) : o \in LinearOrders(R)}}

\* The scheduling variables take the value of one of the states in S, those that
\* scheduleNext may leave.
Settle(S) ==
    /\ rejected' = {}
    /\ \E s \in S :
        /\ inFlight' = s.inf
        /\ originInFlight' = s.org
        /\ tasks' = s.work

NoScheduling == UNCHANGED <<inFlight, originInFlight, tasks, rejected>>

Reschedule == Settle(ScheduleNext(Sched(inFlight, originInFlight, tasks)))

-----------------------------------------------------------------------------
\* The coordinator builds a scheduler only for an incomplete resource, with the
\* chunks it finds in the store.
Init ==
    /\ phase = "new"
    /\ have \in SUBSET Chunks \ {Chunks}
    /\ store = [c \in Chunks |-> IF c \in have THEN "good" ELSE "none"]
    /\ announced = {}
    /\ avail = [p \in Peers |-> {}]
    /\ choked = {}
    /\ open \in SUBSET Peers
    /\ inFlight = [c \in Chunks |-> NoRequest]
    /\ reassembly = [c \in Chunks |-> {}]
    /\ originInFlight = {}
    /\ tasks = [t \in Task |-> 0]
    /\ rejected = {}

Start ==
    /\ phase = "new"
    /\ phase' = "running"
    /\ UNCHANGED <<diskVars, swarmVars, reassembly>>
    /\ Reschedule

Stop ==
    /\ phase = "running"
    /\ phase' = "stopped"
    /\ inFlight' = [c \in Chunks |-> NoRequest]
    /\ reassembly' = [c \in Chunks |-> {}]
    /\ originInFlight' = {}
    /\ UNCHANGED <<diskVars, swarmVars, tasks, rejected>>

UpdatePeerBitfield(p, S) ==
    /\ avail' = [avail EXCEPT ![p] = S]
    /\ UNCHANGED <<phase, diskVars, choked, open, reassembly>>
    /\ Reschedule

UpdatePeerHave(p, c) ==
    /\ avail' = [avail EXCEPT ![p] = @ \cup {c}]
    /\ UNCHANGED <<phase, diskVars, choked, open, reassembly>>
    /\ Reschedule

SetPeerChoked(p, isChoked) ==
    /\ choked' = IF isChoked THEN choked \cup {p} ELSE choked \ {p}
    /\ UNCHANGED <<phase, diskVars, avail, open, reassembly>>
    /\ IF isChoked THEN NoScheduling ELSE Reschedule

\* The peer left or its channel closed: what it was asked for is asked elsewhere.
RemovePeer(p) ==
    LET lost    == {c \in Chunks : inFlight[c].peer = p}
        freed   == [c \in Chunks |-> IF c \in lost THEN NoRequest ELSE inFlight[c]]
        retries == [c \in lost |-> inFlight[c].retries + 1]
    IN  /\ avail' = [avail EXCEPT ![p] = {}]
        /\ choked' = choked \ {p}
        /\ open' = open \ {p}
        /\ reassembly' = [c \in Chunks |-> IF c \in lost THEN {} ELSE reassembly[c]]
        /\ UNCHANGED <<phase, diskVars>>
        /\ Settle(UNION {ScheduleNext(s) :
               s \in ScheduleChunks(Sched(freed, originInFlight, tasks), lost, retries)})

\* Broken HandleTimeout: leaves the chunk to scheduleNext, which starts the
\* attempts over,
HandleTimeoutStartsOver(c) ==
    /\ inFlight[c] # NoRequest
    /\ reassembly' = [reassembly EXCEPT ![c] = {}]
    /\ UNCHANGED <<phase, diskVars, swarmVars>>
    /\ Settle(ScheduleNext(Sched([inFlight EXCEPT ![c] = NoRequest], originInFlight, tasks)))

\* or keeps the blocks received so far.
HandleTimeoutKeepsBlocks(c) ==
    /\ inFlight[c] # NoRequest
    /\ UNCHANGED <<phase, diskVars, swarmVars, reassembly>>
    /\ LET freed == [inFlight EXCEPT ![c] = NoRequest]
       IN  Settle(UNION {ScheduleNext(s) :
               s \in ScheduleChunks(Sched(freed, originInFlight, tasks), {c},
                                    [d \in {c} |-> inFlight[d].retries + 1])})

HandleTimeout(c) ==
    /\ inFlight[c] # NoRequest
    /\ reassembly' = [reassembly EXCEPT ![c] = {}]
    /\ UNCHANGED <<phase, diskVars, swarmVars>>
    /\ LET freed == [inFlight EXCEPT ![c] = NoRequest]
       IN  Settle(UNION {ScheduleNext(s) :
               s \in ScheduleChunks(Sched(freed, originInFlight, tasks), {c},
                                    [d \in {c} |-> inFlight[d].retries + 1])})

\* A block of a chunk in flight that is not the last one missing.
HandleBlock(c, b, ok) ==
    /\ inFlight[c] # NoRequest
    /\ \A e \in reassembly[c] : e[1] # b
    /\ {e[1] : e \in reassembly[c]} \cup {b} # Blocks
    /\ reassembly' = [reassembly EXCEPT ![c] = @ \cup {<<b, ok>>}]
    /\ UNCHANGED <<phase, diskVars, swarmVars>>
    /\ NoScheduling

\* The last block: the request is forgotten before the digest is awaited.  Blocks
\* that overlap, or lie about the length of the chunk, add up to it early.
HandleLastBlock(c, b, ok) ==
    LET got   == reassembly[c] \cup {<<b, ok>>}
        whole == \A e \in got : e[2]
    IN  /\ inFlight[c] # NoRequest
        /\ \A e \in reassembly[c] : e[1] # b
        /\ {e[1] : e \in got} = Blocks \/ ~ok
        /\ P2PTasks(c) < MaxP2PTasks
        /\ inFlight' = [inFlight EXCEPT ![c] = NoRequest]
        /\ reassembly' = [reassembly EXCEPT ![c] = {}]
        /\ tasks' = Spawn(tasks, VerifyTask(c, "p2p", whole))
        /\ UNCHANGED <<phase, diskVars, swarmVars, originInFlight, rejected>>

\* The last block, where one reaches past the length of the chunk: copying it
\* throws a RangeError, when the request and its blocks are forgotten already.
HandleOverrun(c) ==
    /\ "overrun" \in CanFail
    /\ inFlight[c] # NoRequest
    /\ inFlight' = [inFlight EXCEPT ![c] = NoRequest]
    /\ reassembly' = [reassembly EXCEPT ![c] = {}]
    /\ rejected' = rejected \cup {c}
    /\ UNCHANGED <<phase, diskVars, swarmVars, originInFlight, tasks>>

\* The origin answers with the chunk's bytes, which go to verification.
FetchResolves(c, ok) ==
    /\ Pending(FetchTask(c))
    /\ tasks' = Spawn(Retire(tasks, FetchTask(c)), VerifyTask(c, "origin", ok))
    /\ UNCHANGED <<phase, diskVars, swarmVars, inFlight, reassembly, originInFlight, rejected>>

\* Broken Finish: does not give up the origin's claim, or does not call
\* scheduleNext.
FinishKeepsClaim(t, org, work) ==
    Settle(ScheduleNext(Sched(inFlight, org, Retire(work, t))))

FinishQuietly(t, org, work) ==
    /\ inFlight' = inFlight
    /\ originInFlight' = IF t.source = "origin" THEN org \ {t.chunk} ELSE org
    /\ tasks' = Retire(work, t)
    /\ UNCHANGED rejected

\* What follows the last await of a task.  An origin task ends in the finally
\* block that gives up its claim; a P2P task returns to handlePiece.
Finish(t, org, work) ==
    LET left == IF t.source = "origin" THEN org \ {t.chunk} ELSE org
    IN  Settle(ScheduleNext(Sched(inFlight, left, Retire(work, t))))

FetchRejects(c) ==
    /\ Pending(FetchTask(c))
    /\ UNCHANGED <<phase, diskVars, swarmVars, reassembly>>
    /\ Finish(FetchTask(c), originInFlight, tasks)

\* Broken VerifyAccepts: stores without comparing the digest.
VerifyAcceptsAll(t) ==
    /\ Pending(t) /\ t.stage = "verify"
    /\ tasks' = Spawn(Retire(tasks, t), PutTask(t))
    /\ UNCHANGED <<phase, diskVars, swarmVars, inFlight, reassembly, originInFlight, rejected>>

VerifyAccepts(t) ==
    /\ Pending(t) /\ t.stage = "verify" /\ t.intact
    /\ tasks' = Spawn(Retire(tasks, t), PutTask(t))
    /\ UNCHANGED <<phase, diskVars, swarmVars, inFlight, reassembly, originInFlight, rejected>>

\* A corrupt chunk goes to the origin, unless the origin already works on it.
VerifyRejects(t) ==
    /\ Pending(t) /\ t.stage = "verify" /\ ~t.intact
    /\ UNCHANGED <<phase, diskVars, swarmVars, reassembly>>
    /\ LET s == ToOrigin(Sched(inFlight, originInFlight, tasks), {t.chunk})
       IN  Finish(t, s.org, s.work)

PutSucceeds(t) ==
    /\ Pending(t) /\ t.stage = "put"
    /\ store' = [store EXCEPT ![t.chunk] = IF t.intact THEN "good" ELSE "bad"]
    /\ have' = have \cup {t.chunk}
    /\ announced' = announced \cup {t.chunk}
    /\ UNCHANGED <<phase, swarmVars, reassembly>>
    /\ Finish(t, originInFlight, tasks)

\* The digest throws, as it does where the page has no crypto.subtle, or the store
\* refuses the write.  An origin task is caught and finishes; a P2P task rejects
\* handlePiece, so nothing after the await runs.
TaskRejects(t) ==
    /\ Pending(t)
    /\ \/ t.stage = "verify" /\ "digest" \in CanFail
       \/ t.stage = "put" /\ "put" \in CanFail
    /\ UNCHANGED <<phase, diskVars, swarmVars, reassembly>>
    /\ IF t.source = "origin"
       THEN Finish(t, originInFlight, tasks)
       ELSE /\ tasks' = Retire(tasks, t)
            /\ rejected' = rejected \cup {t.chunk}
            /\ UNCHANGED <<inFlight, originInFlight>>

\* The data channel of a peer opens, or stops accepting sends before its close
\* event reaches the coordinator.
ChannelOpens(p) ==
    /\ p \notin open
    /\ open' = open \cup {p}
    /\ UNCHANGED <<phase, diskVars, avail, choked, reassembly>>
    /\ NoScheduling

ChannelFails(p) ==
    /\ p \in open
    /\ open' = open \ {p}
    /\ UNCHANGED <<phase, diskVars, avail, choked, reassembly>>
    /\ NoScheduling

PeerEvent ==
    \E p \in Peers :
        \/ \E S \in SUBSET Chunks : UpdatePeerBitfield(p, S)
        \/ \E c \in Chunks : UpdatePeerHave(p, c)
        \/ \E isChoked \in BOOLEAN : SetPeerChoked(p, isChoked)
        \/ RemovePeer(p)
        \/ ChannelOpens(p)
        \/ ChannelFails(p)

BlockArrives ==
    \E c \in Chunks :
        \/ \E b \in Blocks, ok \in BOOLEAN : HandleBlock(c, b, ok) \/ HandleLastBlock(c, b, ok)
        \/ HandleOverrun(c)

Settles ==
    \/ \E c \in Chunks : FetchRejects(c)
    \/ \E c \in Chunks, ok \in BOOLEAN : FetchResolves(c, ok)
    \/ \E t \in Task : VerifyAccepts(t) \/ VerifyRejects(t) \/ PutSucceeds(t) \/ TaskRejects(t)

Next ==
    \/ Start
    \/ Stop
    \/ PeerEvent
    \/ BlockArrives
    \/ \E c \in Chunks : HandleTimeout(c)
    \/ Settles

Spec == Init /\ [][Next]_vars

\* A timer fires unless it is cleared, a promise settles, and the origin, asked
\* for a chunk again and again, at some time answers with the chunk.
Fairness ==
    /\ WF_vars(Start)
    /\ \A c \in Chunks :
        /\ WF_vars(HandleTimeout(c))
        /\ WF_vars(FetchRejects(c) \/ \E ok \in BOOLEAN : FetchResolves(c, ok))
        /\ SF_vars(FetchResolves(c, TRUE))
    /\ \A t \in Task :
        WF_vars(VerifyAccepts(t) \/ VerifyRejects(t) \/ PutSucceeds(t) \/ TaskRejects(t))

FairSpec == Spec /\ Fairness

-----------------------------------------------------------------------------
\* Integrity.  Whatever the order of digests, writes, retries and duplicate
\* deliveries, the store never holds corrupt bytes, and a bit is set or a HAVE
\* broadcast only for a chunk whose verified bytes the store holds
\* (verifyAndStoreChunk checks, then puts, then sets the bit, then broadcasts).
AdvertisedOnlyVerified ==
    /\ \A c \in Chunks : store[c] # "bad"
    /\ \A c \in have \cup announced : store[c] = "good"

\* A running, incomplete download has something outstanding that will call the
\* scheduler again, a request with its timer or an awaited task, unless a chunk
\* a peer delivered made handlePiece throw and nothing has scheduled since: a
\* block past the end (line 354), a digest or a write that failed (lines 386,
\* 400).  It relies on every other callback ending in scheduleNext.
WorkOutstanding ==
    phase = "running" /\ have # Chunks /\ rejected = {} =>
        Busy(inFlight) # {} \/ \E t \in Task : Pending(t)

OriginTasks(c) == {t \in Task : t.chunk = c /\ t.source = "origin"}

\* While running, a chunk is claimed for the origin exactly when one origin
\* download of it is in progress, at one of its awaits: the claim neither leaks
\* (the chunk would never be asked for again) nor is lost (the chunk would be
\* downloaded twice at once).
OriginClaimsBacked ==
    phase = "running" =>
        \A c \in Chunks :
            IF c \in originInFlight
            THEN \E t \in OriginTasks(c) : tasks[t] = 1 /\ \A u \in OriginTasks(c) \ {t} : tasks[u] = 0
            ELSE \A t \in OriginTasks(c) : tasks[t] = 0

\* Blocks are kept only for the request in progress, and requests only while
\* running: a retry never continues the blocks of the attempt before, and a
\* stopped scheduler has no request, hence no timer, left.
NoLeftovers ==
    /\ \A c \in Chunks : reassembly[c] # {} => inFlight[c] # NoRequest
    /\ phase # "running" => Busy(inFlight) = {}

\* A request that ends while running is followed up at once: its chunk is held,
\* or asked from a peer as the next attempt (the one after, if a send threw), or
\* claimed for the origin, or its bytes await their digest; but for blocks that
\* do not fit, which make handlePiece throw (handleTimeout, removePeer,
\* handlePiece).
LostRequestMovesOn ==
    [][\A c \in Busy(inFlight) :
         inFlight'[c] # inFlight[c] /\ phase' = "running" =>
            \/ c \in have'
            \/ inFlight'[c].retries - inFlight[c].retries \in {1, 2}
            \/ c \in originInFlight'
            \/ \E ok \in BOOLEAN : tasks'[VerifyTask(c, "p2p", ok)] > tasks[VerifyTask(c, "p2p", ok)]
            \/ inFlight'[c] = NoRequest /\ c \in rejected']_vars

\* A chunk already held is never asked for again, although requests, timeouts
\* and corrupt duplicates of it may still be around when it is stored.
HeldNeverRefetched ==
    [][\A c \in have' :
         /\ inFlight'[c] # NoRequest => inFlight'[c] = inFlight[c]
         /\ tasks'[FetchTask(c)] <= tasks[FetchTask(c)]]_vars

\* A step that sends a first attempt leaves the caps respected, even when
\* retries, which ignore the caps, had filled the pipeline before.
FirstAttemptsWithinCaps ==
    [][\A c \in Chunks :
         inFlight[c] = NoRequest /\ inFlight'[c] # NoRequest /\ inFlight'[c].retries = 0 =>
            /\ Cardinality(Busy(inFlight')) + Cardinality(originInFlight') <= MaxTotalInFlight
            /\ Load(inFlight', inFlight'[c].peer) <= MaxInFlightPerPeer]_vars

\* What the coordinator sees: deliveries of chunks, at whichever of their awaits.
UnderwayIn(work, d) ==
    LET at(stage, ok) == work[[chunk |-> d.chunk, source |-> d.source, stage |-> stage, intact |-> ok]]
    IN  at("fetch", TRUE) + at("fetch", FALSE) + at("verify", TRUE) + at("verify", FALSE)
            + at("put", TRUE) + at("put", FALSE)

Underway(d) == UnderwayIn(tasks, d)

Deliveries == INSTANCE ChunkDeliveries WITH
    stored <- {c \in Chunks : store[c] = "good"},
    deliveries <- [d \in [chunk : Chunks, source : {"p2p", "origin"}] |-> Underway(d)]

\* Each delivery ends once, in the store, in the bitfield and in a HAVE, or in nothing, and no
\* origin download is begun of a chunk that is held or that is being downloaded, whatever the
\* scheduler does between (handlePiece, dispatchOriginFallback, verifyAndStoreChunk): what
\* DownloadSession takes a scheduler for.
DeliversChunks == Deliveries!Spec

\* A running download completes, whatever the peers do, as long as the origin
\* keeps answering and digests and writes succeed, unless a peer's block makes
\* handlePiece throw (line 354) and so takes the place of a scheduleNext.
EventuallyComplete ==
    phase = "running" ~> have = Chunks \/ phase = "stopped" \/ rejected # {}

\* README.md: "The download **always** finishes."
AlwaysFinishes == phase = "running" ~> have = Chunks \/ phase = "stopped"
=============================================================================
