------------------------- MODULE ChunkSchedulerProofs -------------------------
(***************************************************************************)
(* Theorems about ChunkScheduler, for every set of chunks, peers and       *)
(* blocks, every cap and every retry limit.                                *)
(***************************************************************************)
EXTENDS ChunkScheduler, FiniteSetTheorems, WellFoundedInduction, TLAPS

\* A well-formed scheduling state.
SchedStates == [inf  : [Chunks -> Request \cup {NoRequest}],
                org  : SUBSET Chunks,
                work : [Task -> Nat]]

\* What scheduling does to the bag of tasks: it only adds fetches.
OnlyFetches(before, after) ==
    \A t \in Task : t.stage # "fetch" => after[t] = before[t]

\* What scheduling does to the requests of the chunks in C: nothing.
KeepsRequests(before, after, C) == \A c \in C : after[c] = before[c]

-----------------------------------------------------------------------------
\* Where dispatchOriginFallback claims nothing, nothing is what it adds.
LEMMA ToOriginIs ==
    ASSUME NEW s \in SchedStates, NEW G
    PROVE  LET new == {c \in G : c \notin have' /\ c \notin s.org}
               w == [t \in Task |-> IF \E c \in new : t = FetchTask(c) THEN s.work[t] + 1
                                                                    ELSE s.work[t]]
           IN  ToOrigin(s, G) = Sched(s.inf, s.org \cup new, w)
<1> DEFINE new == {c \in G : c \notin have' /\ c \notin s.org}
           w == [t \in Task |-> IF \E c \in new : t = FetchTask(c) THEN s.work[t] + 1 ELSE s.work[t]]
<1>1. CASE new # {}
  BY <1>1 DEF ToOrigin
<1>2. CASE new = {}
  <2>1. ToOrigin(s, G) = s
    BY <1>2 DEF ToOrigin
  <2>2. w = s.work
    <3>1. w = [t \in Task |-> s.work[t]]
      BY <1>2
    <3>2. QED
      BY <3>1 DEF SchedStates
  <2>3. s.org \cup new = s.org
    BY <1>2
  <2>4. s = Sched(s.inf, s.org, s.work)
    BY DEF SchedStates, Sched
  <2> HIDE DEF new, w
  <2>5. ToOrigin(s, G) = Sched(s.inf, s.org \cup new, w)
    BY <2>1, <2>2, <2>3, <2>4
  <2>6. QED
    BY <2>5 DEF new, w
<1>3. QED
  BY <1>1, <1>2

\* dispatchOriginFallback keeps a scheduling state well formed and starts
\* nothing but fetches.
LEMMA ToOriginLemma ==
    ASSUME NEW s \in SchedStates, NEW G
    PROVE  /\ ToOrigin(s, G \cap Chunks) \in SchedStates
           /\ OnlyFetches(s.work, ToOrigin(s, G \cap Chunks).work)
           /\ ToOrigin(s, G \cap Chunks).inf = s.inf
<1> DEFINE H == G \cap Chunks
           new == {c \in H : c \notin have' /\ c \notin s.org}
           w == [t \in Task |-> IF \E c \in new : t = FetchTask(c) THEN s.work[t] + 1 ELSE s.work[t]]
<1>1. ToOrigin(s, H) = Sched(s.inf, s.org \cup new, w)
  BY ToOriginIs
<1>2. w \in [Task -> Nat]
  BY DEF SchedStates
<1>3. OnlyFetches(s.work, w)
  BY DEF OnlyFetches, FetchTask
<1>4. s.org \cup new \in SUBSET Chunks
  BY DEF SchedStates
<1> HIDE DEF H, new, w
<1>5. /\ Sched(s.inf, s.org \cup new, w) \in SchedStates
      /\ Sched(s.inf, s.org \cup new, w).work = w
      /\ Sched(s.inf, s.org \cup new, w).inf = s.inf
  BY <1>2, <1>4 DEF SchedStates, Sched
<1>6. QED
  BY <1>1, <1>3, <1>5 DEF H

\* The requests dispatchP2PRequest leaves: those it was accepted for, and the old ones.
AskedMap(s, a, T, retries) ==
    [c \in Chunks |-> IF c \in Asked(a, T, retries)
                     THEN [peer |-> a[c], retries |-> Attempt(T, retries, c)]
                     ELSE s.inf[c]]

\* The chunks it sends to the origin at once.
Failed(a, T, retries) == {c \in DOMAIN a : a[c] \in Peers} \ Asked(a, T, retries)

\* What the map i holds: the plan's requests, and the old ones elsewhere.
AsksOf(i, s, A, a, T, retries) ==
    /\ i \in [Chunks -> Request \cup {NoRequest}]
    /\ \A c \in Asked(a, T, retries) :
         /\ c \in A /\ a[c] \in Peers /\ i[c] # NoRequest
         /\ i[c] = [peer |-> a[c], retries |-> Attempt(T, retries, c)]
         /\ i[c].peer = a[c] /\ i[c].retries = Attempt(T, retries, c)
    /\ \A c \in Chunks \ Asked(a, T, retries) : i[c] = s.inf[c]

\* The requests of a plan that is within the retry limit are well formed, also
\* where a send throws and the attempt is counted twice.
LEMMA AskedRequests ==
    ASSUME NEW s \in SchedStates,
           NEW A \in SUBSET Chunks,
           NEW a \in [A -> Peers \cup {Nobody}], NEW T,
           NEW retries,
           open' \subseteq Peers,
           \A c \in A : a[c] \in Peers => retries[c] \in 0..P2P_REQUEST_RETRIES
    PROVE  AsksOf(AskedMap(s, a, T, retries), s, A, a, T, retries)
<1> DEFINE asked == Asked(a, T, retries)
           i == AskedMap(s, a, T, retries)
<1>1. ASSUME NEW c \in asked
      PROVE  /\ c \in A /\ a[c] \in Peers /\ i[c] # NoRequest
             /\ i[c] = [peer |-> a[c], retries |-> Attempt(T, retries, c)]
             /\ i[c].peer = a[c] /\ i[c].retries = Attempt(T, retries, c)
             /\ i[c] \in Request
  <2>1. c \in A /\ a[c] \in Peers /\ retries[c] \in 0..P2P_REQUEST_RETRIES
    BY <1>1 DEF Asked
  <2>2. Attempt(T, retries, c) \in 0..P2P_REQUEST_RETRIES
    BY <1>1, <2>1, CapsAssumption DEF Asked, Attempt
  <2>3. i[c] = [peer |-> a[c], retries |-> Attempt(T, retries, c)]
    BY <1>1, <2>1 DEF AskedMap
  <2> HIDE DEF i, asked
  <2>4. i[c] # NoRequest
    BY <2>1, <2>3, PeersAssumption DEF NoRequest
  <2>5. QED
    BY <2>1, <2>2, <2>3, <2>4 DEF Request
<1>2. \A c \in Chunks \ asked : i[c] = s.inf[c] /\ s.inf[c] \in Request \cup {NoRequest}
  BY DEF AskedMap, SchedStates
<1>3. i = [c \in Chunks |-> i[c]]
  BY DEF AskedMap
<1> HIDE DEF i, asked
<1>4. i \in [Chunks -> Request \cup {NoRequest}]
  BY <1>1, <1>2, <1>3
<1>5. QED
  BY <1>1, <1>2, <1>4 DEF AsksOf, i, asked

\* dispatchP2PRequest for a plan whose requests are within the retry limit.
LEMMA CarryLemma ==
    ASSUME NEW s \in SchedStates,
           NEW A \in SUBSET Chunks,
           NEW a \in [A -> Peers \cup {Nobody}], NEW T,
           NEW retries,
           open' \subseteq Peers,
           \A c \in A : a[c] \in Peers => retries[c] \in 0..P2P_REQUEST_RETRIES
    PROVE  /\ Carry(s, a, T, retries) \in SchedStates
           /\ OnlyFetches(s.work, Carry(s, a, T, retries).work)
           /\ KeepsRequests(s.inf, Carry(s, a, T, retries).inf, Chunks \ A)
<1> DEFINE failed == Failed(a, T, retries)
           i == AskedMap(s, a, T, retries)
           u == [s EXCEPT !.inf = i]
<1>1. i \in [Chunks -> Request \cup {NoRequest}] /\ KeepsRequests(s.inf, i, Chunks \ A)
  <2>1. Asked(a, T, retries) \subseteq A
    BY DEF Asked
  <2>2. AsksOf(i, s, A, a, T, retries)
    BY AskedRequests
  <2> HIDE DEF i
  <2>3. QED
    BY <2>1, <2>2 DEF AsksOf, KeepsRequests
<1>2. failed \subseteq Chunks
  BY DEF Failed
<1>3. Carry(s, a, T, retries) = ToOrigin(u, failed)
  BY DEF Carry, AskedMap, Failed
<1> HIDE DEF failed, i
<1>4. u \in SchedStates /\ u.work = s.work /\ u.inf = i
  BY <1>1 DEF SchedStates
<1> HIDE DEF u
<1>5. failed \cap Chunks = failed
  BY <1>2
<1>6. QED
  BY <1>1, <1>3, <1>4, <1>5, ToOriginLemma

\* scheduleNext leads from a well-formed scheduling state to well-formed ones.
LEMMA ScheduleNextLemma ==
    ASSUME NEW s \in SchedStates, open' \subseteq Peers,
           NEW r \in ScheduleNext(s)
    PROVE  /\ r \in SchedStates
           /\ OnlyFetches(s.work, r.work)
           /\ KeepsRequests(s.inf, r.inf, Busy(s.inf))
           /\ phase' # "running" => r = s
<1> DEFINE missing == {c \in Chunks \ have' : s.inf[c] = NoRequest /\ c \notin s.org}
           held == {c \in missing : Eligible(c) # {}}
           zero == [c \in held |-> 0]
<1>1. CASE phase' # "running" \/ have' = Chunks \/ Room(s) <= 0
  BY <1>1 DEF ScheduleNext, OnlyFetches, KeepsRequests
<1>2. CASE ~(phase' # "running" \/ have' = Chunks \/ Room(s) <= 0)
  <2>1. PICK plan \in GreedyPlans(s, held) :
           r = SeedFromOrigin(Carry(s, plan[1], plan[2], zero), missing \ held)
    BY <1>2 DEF ScheduleNext
  <2> DEFINE a == plan[1]
             T == plan[2]
  <2>2. a \in [held -> Peers \cup {Nobody}]
    BY <2>1 DEF GreedyPlans
  <2>3. held \in SUBSET Chunks
    OBVIOUS
  <2>4. \A c \in held : zero[c] \in 0..P2P_REQUEST_RETRIES
    BY CapsAssumption
  <2> DEFINE u == Carry(s, a, T, zero)
             Z == missing \ held
             G == {c \in Z : Cardinality({d \in Z : d < c}) < Room(u)}
  <2>5. /\ u \in SchedStates
        /\ OnlyFetches(s.work, u.work)
        /\ KeepsRequests(s.inf, u.inf, Chunks \ held)
    BY <2>2, <2>3, <2>4, CarryLemma
  <2>6. r = ToOrigin(u, G)
    BY <2>1 DEF SeedFromOrigin
  <2>7. G \cap Chunks = G
    OBVIOUS
  <2> HIDE DEF u, G
  <2>8. r \in SchedStates /\ OnlyFetches(u.work, r.work) /\ r.inf = u.inf
    BY <2>5, <2>6, <2>7, ToOriginLemma
  <2>9. Busy(s.inf) \subseteq Chunks \ held
    BY DEF Busy
  <2>10. KeepsRequests(s.inf, r.inf, Busy(s.inf))
    BY <2>5, <2>8, <2>9 DEF KeepsRequests
  <2>11. OnlyFetches(s.work, r.work)
    BY <2>5, <2>8 DEF OnlyFetches
  <2>12. QED
    BY <1>2, <2>8, <2>10, <2>11
<1>3. QED
  BY <1>1, <1>2

\* What a plan of scheduleChunk is.
Planned(s, R, retries, r) ==
    \E a \in [R -> Peers \cup {Nobody}], T \in SUBSET R :
        /\ r = ToOrigin(Carry(s, a, T, retries), {c \in R : a[c] = Nobody})
        /\ \A c \in R : a[c] \in Peers => retries[c] \in 0..P2P_REQUEST_RETRIES

LEMMA RetryPlanLemma ==
    ASSUME NEW s, NEW R \in SUBSET Chunks, NEW retries \in [R -> Nat],
           NEW r \in ScheduleChunks(s, R, retries)
    PROVE  Planned(s, R, retries, r)
<1> DEFINE Plans == UNION {RetryPlans(s, R, o, retries) : o \in LinearOrders(R)}
<1>1. PICK plan \in Plans : r = ToOrigin(Carry(s, plan[1], plan[2], retries),
                                       {c \in R : plan[1][c] = Nobody})
  BY Zenon DEF ScheduleChunks
<1>2. PICK o \in LinearOrders(R) : plan \in RetryPlans(s, R, o, retries)
  OBVIOUS
<1> DEFINE a == plan[1]
           T == plan[2]
<1>3. a \in [R -> Peers \cup {Nobody}] /\ T \in SUBSET R
  BY <1>2 DEF RetryPlans
<1>4. ASSUME NEW c \in R, a[c] \in Peers
      PROVE  retries[c] \in 0..P2P_REQUEST_RETRIES
  <2>1. a[c] # Nobody
    BY <1>4, PeersAssumption
  <2>2. ~(retries[c] > P2P_REQUEST_RETRIES)
    BY <1>2, <2>1 DEF RetryPlans
  <2>3. QED
    BY <2>2, CapsAssumption
<1>5. QED
  BY <1>1, <1>3, <1>4 DEF Planned

\* scheduleChunk, for the chunks of a peer that left or of a timed-out request,
\* keeps the retry count within the limit and the scheduling state well formed.
LEMMA ScheduleChunksLemma ==
    ASSUME NEW s \in SchedStates, open' \subseteq Peers,
           NEW R \in SUBSET Chunks, NEW retries \in [R -> Nat],
           NEW r \in ScheduleChunks(s, R, retries)
    PROVE  /\ r \in SchedStates
           /\ OnlyFetches(s.work, r.work)
           /\ KeepsRequests(s.inf, r.inf, Chunks \ R)
<1>0. Planned(s, R, retries, r)
  BY RetryPlanLemma
<1>1. PICK a \in [R -> Peers \cup {Nobody}], T \in SUBSET R :
         /\ r = ToOrigin(Carry(s, a, T, retries), {c \in R : a[c] = Nobody})
         /\ \A c \in R : a[c] \in Peers => retries[c] \in 0..P2P_REQUEST_RETRIES
  BY <1>0, Zenon DEF Planned
<1> DEFINE u == Carry(s, a, T, retries)
           G == {c \in R : a[c] = Nobody}
<1>4. /\ u \in SchedStates
      /\ OnlyFetches(s.work, u.work)
      /\ KeepsRequests(s.inf, u.inf, Chunks \ R)
  BY <1>1, CarryLemma
<1>5. G \cap Chunks = G
  OBVIOUS
<1>6. r = ToOrigin(u, G)
  BY <1>1
<1> HIDE DEF u, G
<1>7. r \in SchedStates /\ OnlyFetches(u.work, r.work) /\ r.inf = u.inf
  BY <1>4, <1>5, <1>6, ToOriginLemma
<1>8. QED
  BY <1>4, <1>7 DEF OnlyFetches, KeepsRequests

-----------------------------------------------------------------------------
\* What a handler that ends in scheduleNext leaves.
LEMMA SettleLemma ==
    ASSUME NEW s \in SchedStates, open' \subseteq Peers,
           Settle(ScheduleNext(s))
    PROVE  /\ inFlight' \in [Chunks -> Request \cup {NoRequest}]
           /\ originInFlight' \subseteq Chunks
           /\ tasks' \in [Task -> Nat]
           /\ OnlyFetches(s.work, tasks')
           /\ KeepsRequests(s.inf, inFlight', Busy(s.inf))
           /\ phase' # "running" => inFlight' = s.inf
           /\ rejected' = {}
<1>0. rejected' = {}
  BY DEF Settle
<1>1. PICK r \in ScheduleNext(s) : inFlight' = r.inf /\ originInFlight' = r.org /\ tasks' = r.work
  BY DEF Settle
<1>2. /\ r \in SchedStates
      /\ OnlyFetches(s.work, r.work)
      /\ KeepsRequests(s.inf, r.inf, Busy(s.inf))
      /\ phase' # "running" => r = s
  BY ScheduleNextLemma
<1>3. QED
  BY <1>0, <1>1, <1>2 DEF SchedStates

\* What handleTimeout and removePeer leave: the chunks of R, no longer in
\* flight in s, are rescheduled one by one and then scheduleNext runs.
LEMMA RetryLemma ==
    ASSUME NEW s \in SchedStates, open' \subseteq Peers,
           NEW R \in SUBSET Chunks, NEW retries \in [R -> Nat],
           Settle(UNION {ScheduleNext(u) : u \in ScheduleChunks(s, R, retries)})
    PROVE  /\ inFlight' \in [Chunks -> Request \cup {NoRequest}]
           /\ originInFlight' \subseteq Chunks
           /\ tasks' \in [Task -> Nat]
           /\ OnlyFetches(s.work, tasks')
           /\ KeepsRequests(s.inf, inFlight', Busy(s.inf) \ R)
           /\ phase' # "running" => KeepsRequests(s.inf, inFlight', Chunks \ R)
           /\ rejected' = {}
<1>1. PICK u \in ScheduleChunks(s, R, retries) : Settle(ScheduleNext(u))
  BY DEF Settle
<1>2. /\ u \in SchedStates
      /\ OnlyFetches(s.work, u.work)
      /\ KeepsRequests(s.inf, u.inf, Chunks \ R)
  BY ScheduleChunksLemma
<1>3. /\ inFlight' \in [Chunks -> Request \cup {NoRequest}]
      /\ originInFlight' \subseteq Chunks
      /\ tasks' \in [Task -> Nat]
      /\ OnlyFetches(u.work, tasks')
      /\ KeepsRequests(u.inf, inFlight', Busy(u.inf))
      /\ phase' # "running" => inFlight' = u.inf
      /\ rejected' = {}
  BY <1>1, <1>2, SettleLemma
<1>4. Busy(s.inf) \ R \subseteq Busy(u.inf)
  BY <1>2 DEF Busy, KeepsRequests
<1>5. QED
  BY <1>2, <1>3, <1>4 DEF OnlyFetches, KeepsRequests, Busy

-----------------------------------------------------------------------------
\* The strengthening that makes integrity inductive: only intact bytes are on
\* their way into the store.
IntactPuts == \A t \in Task : Pending(t) /\ t.stage = "put" => t.intact

IInv == TypeOK /\ AdvertisedOnlyVerified /\ IntactPuts /\ NoLeftovers

\* A step that schedules without touching what is stored, and that leaves the
\* puts alone, keeps the invariant.
LEMMA SchedulingStep ==
    ASSUME IInv,
           UNCHANGED diskVars,
           phase' = "running" \/ (phase' = phase /\ Busy(inFlight') = {}),
           avail' \in [Peers -> SUBSET Chunks], choked' \subseteq Peers, open' \subseteq Peers,
           inFlight' \in [Chunks -> Request \cup {NoRequest}],
           originInFlight' \subseteq Chunks,
           tasks' \in [Task -> Nat],
           \A t \in Task : t.stage = "put" => tasks'[t] <= tasks[t],
           reassembly' \in [Chunks -> SUBSET (Blocks \X BOOLEAN)],
           \A c \in Chunks : reassembly'[c] # {} => inFlight'[c] # NoRequest,
           rejected' \subseteq Chunks
    PROVE  IInv'
<1>1. TypeOK'
  BY DEF IInv, TypeOK, diskVars
<1>2. AdvertisedOnlyVerified'
  BY DEF IInv, AdvertisedOnlyVerified, diskVars
<1>3. IntactPuts'
  <2> SUFFICES ASSUME NEW t \in Task, tasks'[t] > 0, t.stage = "put" PROVE t.intact
    BY DEF IntactPuts, Pending
  <2>1. tasks[t] \in Nat /\ tasks'[t] \in Nat /\ tasks'[t] <= tasks[t]
    BY DEF IInv, TypeOK
  <2>2. QED
    BY <2>1 DEF IInv, IntactPuts, Pending
<1>4. NoLeftovers'
  BY DEF IInv, NoLeftovers
<1>5. QED
  BY <1>1, <1>2, <1>3, <1>4 DEF IInv

\* The scheduling state a handler starts from is well formed.
LEMMA SchedNow ==
    ASSUME TypeOK
    PROVE  Sched(inFlight, originInFlight, tasks) \in SchedStates
BY DEF TypeOK, Sched, SchedStates

LEMMA InitIInv == Init => IInv
<1> SUFFICES ASSUME Init PROVE IInv
  OBVIOUS
<1>1. TypeOK
  BY DEF Init, TypeOK
<1>2. AdvertisedOnlyVerified /\ IntactPuts /\ NoLeftovers
  BY DEF Init, AdvertisedOnlyVerified, IntactPuts, NoLeftovers, Pending, Busy
<1>3. QED
  BY <1>1, <1>2 DEF IInv

\* Handlers that only call scheduleNext after an update of what is known of the
\* peers, or after start().
LEMMA RescheduleStep ==
    ASSUME IInv, UNCHANGED <<diskVars, reassembly>>, Reschedule,
           phase' = "running" \/ phase' = phase,
           avail' \in [Peers -> SUBSET Chunks], choked' \subseteq Peers, open' \subseteq Peers
    PROVE  IInv'
<1> DEFINE s == Sched(inFlight, originInFlight, tasks)
<1>1. s \in SchedStates
  BY SchedNow DEF IInv
<1>2. s.inf = inFlight /\ s.work = tasks
  BY DEF Sched
<1>3. Settle(ScheduleNext(s))
  BY DEF Reschedule
<1> HIDE DEF s
<1>4. /\ inFlight' \in [Chunks -> Request \cup {NoRequest}]
      /\ originInFlight' \subseteq Chunks
      /\ tasks' \in [Task -> Nat]
      /\ OnlyFetches(tasks, tasks')
      /\ KeepsRequests(inFlight, inFlight', Busy(inFlight))
      /\ phase' # "running" => inFlight' = inFlight
      /\ rejected' = {}
  BY <1>1, <1>2, <1>3, SettleLemma
<1>5. \A t \in Task : t.stage = "put" => tasks'[t] <= tasks[t]
  BY <1>4 DEF OnlyFetches, IInv, TypeOK
<1>6. \A c \in Chunks : reassembly'[c] # {} => inFlight'[c] # NoRequest
  BY <1>4 DEF KeepsRequests, Busy, IInv, NoLeftovers
<1>7. phase' = "running" \/ (phase' = phase /\ Busy(inFlight') = {})
  BY <1>4 DEF IInv, NoLeftovers, Busy
<1>8. reassembly' \in [Chunks -> SUBSET (Blocks \X BOOLEAN)]
  BY DEF IInv, TypeOK
<1>9. QED
  BY <1>4, <1>5, <1>6, <1>7, <1>8, SchedulingStep DEF diskVars

\* Timeouts and departures: the chunks of R lose their request and their blocks
\* and are rescheduled.
LEMMA RetryStep ==
    ASSUME IInv, UNCHANGED <<phase, diskVars>>,
           avail' \in [Peers -> SUBSET Chunks], choked' \subseteq Peers, open' \subseteq Peers,
           NEW R \in SUBSET Busy(inFlight),
           NEW freed \in [Chunks -> Request \cup {NoRequest}],
           \A c \in Chunks : freed[c] = IF c \in R THEN NoRequest ELSE inFlight[c],
           NEW retries \in [R -> Nat],
           reassembly' \in [Chunks -> SUBSET (Blocks \X BOOLEAN)],
           \A c \in Chunks : reassembly'[c] = IF c \in R THEN {} ELSE reassembly[c],
           Settle(UNION {ScheduleNext(u) :
               u \in ScheduleChunks(Sched(freed, originInFlight, tasks), R, retries)})
    PROVE  IInv'
<1> DEFINE s == Sched(freed, originInFlight, tasks)
<1>1. s \in SchedStates /\ s.inf = freed /\ s.work = tasks
  BY DEF Sched, SchedStates, IInv, TypeOK
<1>2. R \in SUBSET Chunks
  BY DEF Busy
<1>a. Settle(UNION {ScheduleNext(u) : u \in ScheduleChunks(s, R, retries)})
  OBVIOUS
<1> HIDE DEF s
<1>b. /\ inFlight' \in [Chunks -> Request \cup {NoRequest}]
      /\ originInFlight' \subseteq Chunks
      /\ tasks' \in [Task -> Nat]
      /\ OnlyFetches(s.work, tasks')
      /\ KeepsRequests(s.inf, inFlight', Busy(s.inf) \ R)
      /\ phase' # "running" => KeepsRequests(s.inf, inFlight', Chunks \ R)
      /\ rejected' = {}
  BY <1>1, <1>2, <1>a, RetryLemma
<1>3. /\ inFlight' \in [Chunks -> Request \cup {NoRequest}]
      /\ originInFlight' \subseteq Chunks
      /\ tasks' \in [Task -> Nat]
      /\ OnlyFetches(tasks, tasks')
      /\ KeepsRequests(freed, inFlight', Busy(freed) \ R)
      /\ phase' # "running" => KeepsRequests(freed, inFlight', Chunks \ R)
      /\ rejected' = {}
  BY <1>1, <1>b
<1>4. \A t \in Task : t.stage = "put" => tasks'[t] <= tasks[t]
  BY <1>3 DEF OnlyFetches, IInv, TypeOK
<1>5. \A c \in Chunks : reassembly'[c] # {} => inFlight'[c] # NoRequest
  BY <1>3 DEF KeepsRequests, Busy, IInv, NoLeftovers
<1>6. phase' = "running" \/ (phase' = phase /\ Busy(inFlight') = {})
  <2>1. CASE phase = "running"
    BY <2>1
  <2>2. CASE phase # "running"
    <3>1. Busy(inFlight) = {} /\ R = {}
      BY <2>2 DEF IInv, NoLeftovers
    <3>2. \A c \in Chunks : inFlight'[c] = inFlight[c]
      BY <1>3, <2>2, <3>1 DEF KeepsRequests
    <3>3. QED
      BY <3>1, <3>2 DEF Busy
  <2>3. QED
    BY <2>1, <2>2
<1>7. QED
  BY <1>3, <1>4, <1>5, <1>6, SchedulingStep DEF diskVars

\* The end of a task that is not a successful put: it is retired and
\* scheduleNext runs.
LEMMA FinishStep ==
    ASSUME IInv, UNCHANGED <<phase, diskVars, swarmVars, reassembly>>,
           NEW org \in SUBSET Chunks, NEW work \in [Task -> Nat],
           OnlyFetches(tasks, work),
           NEW t \in Task, work[t] > 0,
           Finish(t, org, work)
    PROVE  IInv'
<1> DEFINE left == IF t.source = "origin" THEN org \ {t.chunk} ELSE org
           s == Sched(inFlight, left, Retire(work, t))
<1>1. Retire(work, t) \in [Task -> Nat] /\ \A u \in Task : Retire(work, t)[u] <= work[u]
  BY DEF Retire
<1>2. s \in SchedStates /\ s.inf = inFlight /\ s.work = Retire(work, t)
  BY <1>1 DEF Sched, SchedStates, IInv, TypeOK
<1>3. Settle(ScheduleNext(s))
  BY DEF Finish
<1>4. open' \subseteq Peers
  BY DEF IInv, TypeOK, swarmVars
<1> HIDE DEF s
<1>5. /\ inFlight' \in [Chunks -> Request \cup {NoRequest}]
      /\ originInFlight' \subseteq Chunks
      /\ tasks' \in [Task -> Nat]
      /\ OnlyFetches(Retire(work, t), tasks')
      /\ KeepsRequests(inFlight, inFlight', Busy(inFlight))
      /\ phase' # "running" => inFlight' = inFlight
      /\ rejected' = {}
  BY <1>2, <1>3, <1>4, SettleLemma
<1>6. \A u \in Task : u.stage = "put" => tasks'[u] <= tasks[u]
  BY <1>1, <1>5 DEF OnlyFetches, IInv, TypeOK
<1>7. \A c \in Chunks : reassembly'[c] # {} => inFlight'[c] # NoRequest
  BY <1>5 DEF KeepsRequests, Busy, IInv, NoLeftovers
<1>8. phase' = "running" \/ (phase' = phase /\ Busy(inFlight') = {})
  BY <1>5 DEF IInv, NoLeftovers, Busy
<1>9. avail' \in [Peers -> SUBSET Chunks] /\ choked' \subseteq Peers
      /\ reassembly' \in [Chunks -> SUBSET (Blocks \X BOOLEAN)]
  BY DEF IInv, TypeOK, swarmVars
<1>10. QED
  BY <1>4, <1>5, <1>6, <1>7, <1>8, <1>9, SchedulingStep

\* A successful put: intact bytes enter the store, then the bit and the HAVE.
LEMMA PutStep == ASSUME IInv, NEW t \in Task, PutSucceeds(t) PROVE IInv'
<1> DEFINE left == IF t.source = "origin" THEN originInFlight \ {t.chunk} ELSE originInFlight
           s == Sched(inFlight, left, Retire(tasks, t))
<1>1. t.intact /\ tasks[t] > 0 /\ t.chunk \in Chunks
  BY DEF PutSucceeds, Pending, IInv, IntactPuts, Task
<1>2. Retire(tasks, t) \in [Task -> Nat] /\ \A u \in Task : Retire(tasks, t)[u] <= tasks[u]
  BY <1>1 DEF Retire, IInv, TypeOK
<1>3. s \in SchedStates /\ s.inf = inFlight /\ s.work = Retire(tasks, t)
  BY <1>2 DEF Sched, SchedStates, IInv, TypeOK
<1>4. Settle(ScheduleNext(s))
  BY DEF PutSucceeds, Finish
<1>5. open' \subseteq Peers
  BY DEF IInv, TypeOK, swarmVars, PutSucceeds
<1> HIDE DEF s
<1>6. /\ inFlight' \in [Chunks -> Request \cup {NoRequest}]
      /\ originInFlight' \subseteq Chunks
      /\ tasks' \in [Task -> Nat]
      /\ OnlyFetches(Retire(tasks, t), tasks')
      /\ KeepsRequests(inFlight, inFlight', Busy(inFlight))
      /\ phase' # "running" => inFlight' = inFlight
      /\ rejected' = {}
  BY <1>3, <1>4, <1>5, SettleLemma
<1>7. store' = [store EXCEPT ![t.chunk] = "good"]
  BY <1>1 DEF PutSucceeds
<1>8. TypeOK'
  <2>1. have' \subseteq Chunks /\ announced' \subseteq Chunks
    BY <1>1 DEF IInv, TypeOK, PutSucceeds
  <2>2. store' \in [Chunks -> {"none", "good", "bad"}]
    BY <1>7 DEF IInv, TypeOK
  <2>3. /\ phase' = phase /\ avail' = avail /\ choked' = choked /\ open' = open
        /\ reassembly' = reassembly
    BY DEF PutSucceeds, swarmVars
  <2>4. QED
    BY <1>6, <2>1, <2>2, <2>3 DEF IInv, TypeOK
<1>9. AdvertisedOnlyVerified'
  BY <1>1, <1>7 DEF IInv, TypeOK, AdvertisedOnlyVerified, PutSucceeds
<1>10. IntactPuts'
  <2> SUFFICES ASSUME NEW u \in Task, tasks'[u] > 0, u.stage = "put" PROVE u.intact
    BY DEF IntactPuts, Pending
  <2>1. tasks'[u] <= tasks[u] /\ tasks[u] \in Nat /\ tasks'[u] \in Nat
    BY <1>2, <1>6 DEF OnlyFetches, IInv, TypeOK
  <2>2. QED
    BY <2>1 DEF IInv, IntactPuts, Pending
<1>11. NoLeftovers'
  BY <1>6 DEF KeepsRequests, Busy, IInv, NoLeftovers, PutSucceeds
<1>12. QED
  BY <1>8, <1>9, <1>10, <1>11 DEF IInv

\* Steps that move a task to its next await, or start one, without scheduling.
LEMMA TaskStep ==
    ASSUME IInv, UNCHANGED <<phase, diskVars, swarmVars>>,
           inFlight' \in [Chunks -> Request \cup {NoRequest}],
           phase # "running" => inFlight' = inFlight,
           originInFlight' = originInFlight,
           tasks' \in [Task -> Nat],
           \A t \in Task : t.stage = "put" /\ tasks'[t] > tasks[t] => t.intact,
           reassembly' \in [Chunks -> SUBSET (Blocks \X BOOLEAN)],
           \A c \in Chunks : reassembly'[c] # {} => inFlight'[c] # NoRequest,
           rejected' \subseteq Chunks
    PROVE  IInv'
<1>1. TypeOK'
  BY DEF IInv, TypeOK, diskVars, swarmVars
<1>2. AdvertisedOnlyVerified'
  BY DEF IInv, AdvertisedOnlyVerified, diskVars
<1>3. IntactPuts'
  <2> SUFFICES ASSUME NEW t \in Task, tasks'[t] > 0, t.stage = "put" PROVE t.intact
    BY DEF IntactPuts, Pending
  <2>1. tasks[t] \in Nat /\ tasks'[t] \in Nat
    BY DEF IInv, TypeOK
  <2>2. CASE tasks'[t] > tasks[t]
    BY <2>2
  <2>3. CASE ~(tasks'[t] > tasks[t])
    BY <2>1, <2>3 DEF IInv, IntactPuts, Pending
  <2>4. QED
    BY <2>2, <2>3
<1>4. NoLeftovers'
  BY DEF IInv, NoLeftovers, Busy
<1>5. QED
  BY <1>1, <1>2, <1>3, <1>4 DEF IInv

LEMMA NextIInv == IInv /\ [Next]_vars => IInv'
<1> SUFFICES ASSUME IInv, [Next]_vars PROVE IInv'
  OBVIOUS
<1> USE DEF diskVars, swarmVars
<1>a. TypeOK
  BY DEF IInv
<1>1. CASE Start
  BY <1>1, <1>a, RescheduleStep DEF Start, TypeOK
<1>2. CASE Stop
  <2>1. \A c \in Chunks : inFlight'[c] = NoRequest /\ reassembly'[c] = {}
    BY <1>2 DEF Stop
  <2>2. TypeOK'
    BY <1>2, <1>a DEF Stop, TypeOK
  <2>3. AdvertisedOnlyVerified' /\ IntactPuts'
    BY <1>2 DEF Stop, IInv, AdvertisedOnlyVerified, IntactPuts, Pending
  <2>4. NoLeftovers'
    BY <2>1 DEF NoLeftovers, Busy
  <2>5. QED
    BY <2>2, <2>3, <2>4 DEF IInv
<1>3. ASSUME NEW p \in Peers, NEW S \in SUBSET Chunks, UpdatePeerBitfield(p, S)
      PROVE  IInv'
  BY <1>3, <1>a, RescheduleStep DEF UpdatePeerBitfield, TypeOK
<1>4. ASSUME NEW p \in Peers, NEW c \in Chunks, UpdatePeerHave(p, c)
      PROVE  IInv'
  BY <1>4, <1>a, RescheduleStep DEF UpdatePeerHave, TypeOK
<1>5. ASSUME NEW p \in Peers, NEW isChoked \in BOOLEAN, SetPeerChoked(p, isChoked)
      PROVE  IInv'
  <2>1. choked' \subseteq Peers /\ avail' = avail /\ open' = open /\ phase' = phase
    BY <1>5, <1>a DEF SetPeerChoked, TypeOK
  <2>2. CASE isChoked
    BY <1>5, <2>1, <2>2, <1>a, SchedulingStep
       DEF SetPeerChoked, NoScheduling, TypeOK, IInv, NoLeftovers, Busy
  <2>3. CASE ~isChoked
    BY <1>5, <2>1, <2>3, <1>a, RescheduleStep DEF SetPeerChoked, TypeOK
  <2>4. QED
    BY <2>2, <2>3
<1>6. ASSUME NEW p \in Peers, RemovePeer(p)
      PROVE  IInv'
  <2> DEFINE lost    == {c \in Chunks : inFlight[c].peer = p}
             freed   == [c \in Chunks |-> IF c \in lost THEN NoRequest ELSE inFlight[c]]
             retries == [c \in lost |-> inFlight[c].retries + 1]
  <2>1. lost \in SUBSET Busy(inFlight)
    BY PeersAssumption DEF Busy, NoRequest
  <2>2. freed \in [Chunks -> Request \cup {NoRequest}]
    BY <1>a DEF TypeOK
  <2>3. retries \in [lost -> Nat]
    <3> SUFFICES ASSUME NEW c \in lost PROVE inFlight[c].retries + 1 \in Nat
      OBVIOUS
    <3>1. inFlight[c] \in Request
      BY <1>a, <2>1 DEF TypeOK, Busy
    <3>2. QED
      BY <3>1, CapsAssumption DEF Request
  <2>4. /\ avail' \in [Peers -> SUBSET Chunks] /\ choked' \subseteq Peers /\ open' \subseteq Peers
        /\ UNCHANGED <<phase, diskVars>>
        /\ reassembly' = [c \in Chunks |-> IF c \in lost THEN {} ELSE reassembly[c]]
    BY <1>6, <1>a DEF RemovePeer, TypeOK
  <2>5. /\ reassembly' \in [Chunks -> SUBSET (Blocks \X BOOLEAN)]
        /\ \A c \in Chunks : reassembly'[c] = IF c \in lost THEN {} ELSE reassembly[c]
    BY <2>4, <1>a DEF TypeOK
  <2>6. Settle(UNION {ScheduleNext(u) :
            u \in ScheduleChunks(Sched(freed, originInFlight, tasks), lost, retries)})
    BY <1>6 DEF RemovePeer
  <2>7. \A c \in Chunks : freed[c] = IF c \in lost THEN NoRequest ELSE inFlight[c]
    OBVIOUS
  <2> HIDE DEF lost, freed, retries
  <2>8. QED
    BY <2>1, <2>2, <2>3, <2>4, <2>5, <2>6, <2>7, RetryStep
<1>7. ASSUME NEW p \in Peers, ChannelOpens(p) \/ ChannelFails(p)
      PROVE  IInv'
  BY <1>7, <1>a, SchedulingStep
     DEF ChannelOpens, ChannelFails, NoScheduling, TypeOK, IInv, NoLeftovers, Busy
<1>8. ASSUME NEW c \in Chunks, NEW b \in Blocks, NEW ok \in BOOLEAN, HandleBlock(c, b, ok)
      PROVE  IInv'
  <2>1. /\ UNCHANGED <<phase, diskVars, swarmVars, inFlight, originInFlight, tasks, rejected>>
        /\ inFlight[c] # NoRequest
        /\ reassembly' = [reassembly EXCEPT ![c] = @ \cup {<<b, ok>>}]
    BY <1>8 DEF HandleBlock, NoScheduling
  <2>2. reassembly' \in [Chunks -> SUBSET (Blocks \X BOOLEAN)]
    BY <2>1, <1>a DEF TypeOK
  <2>3. \A d \in Chunks : reassembly'[d] # {} => inFlight'[d] # NoRequest
    BY <2>1, <1>a DEF TypeOK, IInv, NoLeftovers
  <2>4. QED
    BY <2>1, <2>2, <2>3, <1>a, TaskStep DEF TypeOK
<1>9. ASSUME NEW c \in Chunks, NEW b \in Blocks, NEW ok \in BOOLEAN, HandleLastBlock(c, b, ok)
      PROVE  IInv'
  <2> DEFINE whole == \A e \in reassembly[c] \cup {<<b, ok>>} : e[2]
             v == VerifyTask(c, "p2p", whole)
  <2>1. /\ UNCHANGED <<phase, diskVars, swarmVars, originInFlight>>
        /\ rejected' \subseteq Chunks
        /\ inFlight[c] # NoRequest
        /\ inFlight' = [inFlight EXCEPT ![c] = NoRequest]
        /\ reassembly' = [reassembly EXCEPT ![c] = {}]
        /\ tasks' = Spawn(tasks, v)
    BY <1>9, <1>a DEF HandleLastBlock, TypeOK
  <2>2. v \in Task /\ v.stage = "verify"
    BY DEF Task, VerifyTask
  <2> HIDE DEF v
  <2>3. tasks' \in [Task -> Nat] /\ \A t \in Task : t.stage = "put" => tasks'[t] = tasks[t]
    BY <2>1, <2>2, <1>a DEF Spawn, TypeOK
  <2>4. phase # "running" => inFlight' = inFlight
    BY <2>1 DEF IInv, NoLeftovers, Busy
  <2>5. /\ inFlight' \in [Chunks -> Request \cup {NoRequest}]
        /\ reassembly' \in [Chunks -> SUBSET (Blocks \X BOOLEAN)]
        /\ \A d \in Chunks : reassembly'[d] # {} => inFlight'[d] # NoRequest
    BY <2>1, <1>a DEF TypeOK, IInv, NoLeftovers
  <2>6. \A t \in Task : t.stage = "put" /\ tasks'[t] > tasks[t] => t.intact
    BY <2>3, <1>a DEF TypeOK
  <2>7. QED
    BY <2>1, <2>3, <2>4, <2>5, <2>6, TaskStep
<1>o. ASSUME NEW c \in Chunks, HandleOverrun(c)
      PROVE  IInv'
  <2>1. /\ UNCHANGED <<phase, diskVars, swarmVars, originInFlight, tasks>>
        /\ inFlight[c] # NoRequest
        /\ inFlight' = [inFlight EXCEPT ![c] = NoRequest]
        /\ reassembly' = [reassembly EXCEPT ![c] = {}]
        /\ rejected' \subseteq Chunks
    BY <1>o, <1>a DEF HandleOverrun, TypeOK
  <2>2. phase # "running" => inFlight' = inFlight
    BY <2>1 DEF IInv, NoLeftovers, Busy
  <2>3. /\ inFlight' \in [Chunks -> Request \cup {NoRequest}]
        /\ reassembly' \in [Chunks -> SUBSET (Blocks \X BOOLEAN)]
        /\ \A d \in Chunks : reassembly'[d] # {} => inFlight'[d] # NoRequest
    BY <2>1, <1>a DEF TypeOK, IInv, NoLeftovers
  <2>4. tasks' \in [Task -> Nat] /\ \A t \in Task : ~(tasks'[t] > tasks[t])
    BY <2>1, <1>a DEF TypeOK
  <2>5. QED
    BY <2>1, <2>2, <2>3, <2>4, TaskStep
<1>10. ASSUME NEW c \in Chunks, HandleTimeout(c)
       PROVE  IInv'
  <2> DEFINE freed   == [inFlight EXCEPT ![c] = NoRequest]
             retries == [d \in {c} |-> inFlight[d].retries + 1]
  <2>1. {c} \in SUBSET Busy(inFlight)
    BY <1>10 DEF HandleTimeout, Busy
  <2>2. freed \in [Chunks -> Request \cup {NoRequest}]
    BY <1>a DEF TypeOK
  <2>3. retries \in [{c} -> Nat]
    <3>1. inFlight[c] \in Request
      BY <1>a, <2>1 DEF TypeOK, Busy
    <3>2. inFlight[c].retries + 1 \in Nat
      BY <3>1, CapsAssumption DEF Request
    <3>3. QED
      BY <3>2
  <2>4. /\ avail' \in [Peers -> SUBSET Chunks] /\ choked' \subseteq Peers /\ open' \subseteq Peers
        /\ UNCHANGED <<phase, diskVars>>
        /\ reassembly' = [reassembly EXCEPT ![c] = {}]
    BY <1>10, <1>a DEF HandleTimeout, TypeOK
  <2>5. /\ reassembly' \in [Chunks -> SUBSET (Blocks \X BOOLEAN)]
        /\ \A d \in Chunks : reassembly'[d] = IF d \in {c} THEN {} ELSE reassembly[d]
    BY <2>4, <1>a DEF TypeOK
  <2>6. Settle(UNION {ScheduleNext(u) :
            u \in ScheduleChunks(Sched(freed, originInFlight, tasks), {c}, retries)})
    BY <1>10 DEF HandleTimeout
  <2>7. \A d \in Chunks : freed[d] = IF d \in {c} THEN NoRequest ELSE inFlight[d]
    BY <1>a DEF TypeOK
  <2> HIDE DEF freed, retries
  <2>8. QED
    BY <2>1, <2>2, <2>3, <2>4, <2>5, <2>6, <2>7, RetryStep
<1>11. ASSUME NEW c \in Chunks, FetchRejects(c)
       PROVE  IInv'
  <2>1. FetchTask(c) \in Task /\ tasks[FetchTask(c)] > 0 /\ OnlyFetches(tasks, tasks)
    BY <1>11 DEF FetchRejects, Pending, FetchTask, Task, OnlyFetches
  <2>2. QED
    BY <1>11, <2>1, <1>a, FinishStep DEF FetchRejects, TypeOK
<1>12. ASSUME NEW c \in Chunks, NEW ok \in BOOLEAN, FetchResolves(c, ok)
       PROVE  IInv'
  <2> DEFINE v == VerifyTask(c, "origin", ok)
             f == FetchTask(c)
  <2>1. v \in Task /\ v.stage = "verify" /\ f \in Task /\ f.stage = "fetch" /\ v # f
    BY DEF Task, VerifyTask, FetchTask
  <2>2. /\ UNCHANGED <<phase, diskVars, swarmVars, inFlight, reassembly, originInFlight, rejected>>
        /\ tasks[f] > 0
        /\ tasks' = Spawn(Retire(tasks, f), v)
    BY <1>12 DEF FetchResolves, Pending
  <2> HIDE DEF v, f
  <2>3. tasks' \in [Task -> Nat] /\ \A t \in Task : t.stage = "put" => tasks'[t] = tasks[t]
    BY <2>1, <2>2, <1>a DEF Spawn, Retire, TypeOK
  <2>4. \A t \in Task : t.stage = "put" /\ tasks'[t] > tasks[t] => t.intact
    BY <2>3, <1>a DEF TypeOK
  <2>5. QED
    BY <2>2, <2>3, <2>4, <1>a, TaskStep DEF TypeOK, IInv, NoLeftovers
<1>13. ASSUME NEW t \in Task, VerifyAccepts(t)
       PROVE  IInv'
  <2> DEFINE w == PutTask(t)
  <2>1. w \in Task /\ w.stage = "put" /\ w.intact /\ t.stage = "verify" /\ tasks[t] > 0
    BY <1>13 DEF VerifyAccepts, PutTask, Task, Pending
  <2>2. /\ UNCHANGED <<phase, diskVars, swarmVars, inFlight, reassembly, originInFlight, rejected>>
        /\ tasks' = Spawn(Retire(tasks, t), w)
    BY <1>13 DEF VerifyAccepts
  <2> HIDE DEF w
  <2>3. tasks' \in [Task -> Nat] /\ \A u \in Task : u.stage = "put" /\ u # w => tasks'[u] = tasks[u]
    BY <2>1, <2>2, <1>a DEF Spawn, Retire, TypeOK
  <2>4. \A u \in Task : u.stage = "put" /\ tasks'[u] > tasks[u] => u.intact
    BY <2>1, <2>3, <1>a DEF TypeOK
  <2>5. QED
    BY <2>2, <2>3, <2>4, <1>a, TaskStep DEF TypeOK, IInv, NoLeftovers
<1>14. ASSUME NEW t \in Task, VerifyRejects(t)
       PROVE  IInv'
  <2> DEFINE s0 == Sched(inFlight, originInFlight, tasks)
             s  == ToOrigin(s0, {t.chunk})
  <2>1. {t.chunk} \cap Chunks = {t.chunk}
    BY DEF Task
  <2>2. s0 \in SchedStates /\ s0.work = tasks
    BY <1>a, SchedNow DEF Sched
  <2>3. Finish(t, s.org, s.work) /\ UNCHANGED <<phase, diskVars, swarmVars, reassembly>>
        /\ tasks[t] > 0 /\ t.stage = "verify"
    BY <1>14 DEF VerifyRejects, Pending
  <2> HIDE DEF s0
  <2>4. s \in SchedStates /\ OnlyFetches(tasks, s.work)
    BY <2>1, <2>2, ToOriginLemma
  <2> HIDE DEF s
  <2>5. s.org \in SUBSET Chunks /\ s.work \in [Task -> Nat] /\ s.work[t] > 0
    BY <2>3, <2>4 DEF SchedStates, OnlyFetches
  <2>6. QED
    BY <2>3, <2>4, <2>5, FinishStep
<1>15. ASSUME NEW t \in Task, PutSucceeds(t)
       PROVE  IInv'
  BY <1>15, PutStep
<1>16. ASSUME NEW t \in Task, TaskRejects(t)
       PROVE  IInv'
  <2>1. /\ UNCHANGED <<phase, diskVars, swarmVars, reassembly>>
        /\ tasks[t] > 0
    BY <1>16 DEF TaskRejects, Pending
  <2>2. CASE t.source = "origin"
    <3>1. Finish(t, originInFlight, tasks)
      BY <1>16, <2>2 DEF TaskRejects
    <3>2. QED
      BY <2>1, <3>1, <1>a, FinishStep DEF TypeOK, OnlyFetches
  <2>3. CASE t.source # "origin"
    <3>1. /\ tasks' = Retire(tasks, t) /\ UNCHANGED <<inFlight, originInFlight>>
          /\ rejected' \subseteq Chunks
      BY <1>16, <2>3, <1>a DEF TaskRejects, TypeOK, Task
    <3>2. tasks' \in [Task -> Nat] /\ \A u \in Task : tasks'[u] <= tasks[u]
      BY <2>1, <3>1, <1>a DEF Retire, TypeOK
    <3>3. \A u \in Task : u.stage = "put" /\ tasks'[u] > tasks[u] => u.intact
      BY <3>2, <1>a DEF TypeOK
    <3>4. QED
      BY <2>1, <3>1, <3>2, <3>3, <1>a, TaskStep DEF TypeOK, IInv, NoLeftovers
  <2>4. QED
    BY <2>2, <2>3
<1>17. CASE UNCHANGED vars
  BY <1>17 DEF vars, IInv, TypeOK, AdvertisedOnlyVerified, IntactPuts, Pending, NoLeftovers, Busy
<1>18. QED
  BY <1>1, <1>2, <1>3, <1>4, <1>5, <1>6, <1>7, <1>8, <1>9, <1>o, <1>10, <1>11, <1>12, <1>13,
     <1>14, <1>15, <1>16, <1>17 DEF Next, PeerEvent, BlockArrives, Settles

-----------------------------------------------------------------------------
\* The inductive invariant holds in every reachable state.
LEMMA Invariance == Spec => []IInv
BY InitIInv, NextIInv, PTL DEF Spec

\* Every variable of the scheduler keeps its type; in particular no request
\* exceeds the retry limit and no task count goes negative.
THEOREM TypeCorrect == Spec => []TypeOK
<1>1. IInv => TypeOK
  BY DEF IInv
<1>2. QED
  BY Invariance, <1>1, PTL

\* The store never holds corrupt bytes, and a bit is set or a HAVE broadcast only
\* for chunks whose verified bytes are stored (verifyAndStoreChunk), in every
\* interleaving of any number of deliveries, retries and duplicates.
THEOREM Integrity == Spec => []AdvertisedOnlyVerified
<1>1. IInv => AdvertisedOnlyVerified
  BY DEF IInv
<1>2. QED
  BY Invariance, <1>1, PTL

\* Blocks never outlive their request and no request outlives stop()
\* (handleTimeout, removePeer, handlePiece and stop clear both maps together).
THEOREM NoLeftoversHolds == Spec => []NoLeftovers
<1>1. IInv => NoLeftovers
  BY DEF IInv
<1>2. QED
  BY Invariance, <1>1, PTL

-----------------------------------------------------------------------------
(***************************************************************************)
(* Progress.  A scheduler that runs and is not complete is never idle:     *)
(* whatever event ends a request or a task, the scheduler has, when the    *)
(* callback returns, another request or task outstanding, unless what a    *)
(* peer delivered made handlePiece throw.                                  *)
(***************************************************************************)
\* Every chunk claimed for the origin has an origin download in progress.
ClaimsIn(org, work) == \A c \in org : \E t \in OriginTasks(c) : work[t] > 0

ClaimsPending == ClaimsIn(originInFlight, tasks)

PInv == IInv /\ ClaimsPending /\ WorkOutstanding

\* Something in the scheduling state will call the scheduler again.
Engaged(s) == Busy(s.inf) # {} \/ s.org # {}

-----------------------------------------------------------------------------
\* A nonempty set of chunks has a first one.
LEMMA FirstChunk ==
    ASSUME NEW Z \in SUBSET Chunks, Z # {}
    PROVE  \E c \in Z : {d \in Z : d < c} = {}
<1>1. Z \subseteq Nat
  BY ChunksAssumption
<1>2. \E c \in Z : \A d \in Z : ~(<<d, c>> \in OpToRel(<, Nat))
  BY <1>1, NatLessThanWellFounded, WFMin
<1>3. \A c, d \in Z : d < c => <<d, c>> \in OpToRel(<, Nat)
  BY <1>1 DEF OpToRel
<1>4. QED
  BY <1>2, <1>3

LEMMA ToOriginClaims ==
    ASSUME NEW s \in SchedStates, NEW G \in SUBSET Chunks
    PROVE  LET r == ToOrigin(s, G) IN
           /\ ClaimsIn(s.org, s.work) => ClaimsIn(r.org, r.work)
           /\ s.org \subseteq r.org
           /\ G \ have' \subseteq r.org
           /\ r.inf = s.inf
<1> DEFINE new == {c \in G : c \notin have' /\ c \notin s.org}
           w == [t \in Task |-> IF \E c \in new : t = FetchTask(c) THEN s.work[t] + 1 ELSE s.work[t]]
           r == Sched(s.inf, s.org \cup new, w)
<1>1. ToOrigin(s, G) = r
  BY ToOriginIs
<1>2. new \subseteq Chunks
  OBVIOUS
<1>3. \A t \in Task : s.work[t] \in Nat /\ w[t] \in Nat /\ w[t] >= s.work[t]
  BY DEF SchedStates
<1>4. \A c \in new : FetchTask(c) \in OriginTasks(c) /\ w[FetchTask(c)] > 0
  <2> SUFFICES ASSUME NEW c \in new
               PROVE  FetchTask(c) \in OriginTasks(c) /\ w[FetchTask(c)] > 0
    OBVIOUS
  <2>1. FetchTask(c) \in Task /\ FetchTask(c) \in OriginTasks(c)
    BY <1>2 DEF FetchTask, OriginTasks, Task
  <2>2. w[FetchTask(c)] = s.work[FetchTask(c)] + 1
    BY <2>1
  <2>3. QED
    BY <1>3, <2>1, <2>2
<1>5. G \ have' \subseteq s.org \cup new
  OBVIOUS
<1> HIDE DEF new, w
<1>6. r.org = s.org \cup new /\ r.work = w /\ r.inf = s.inf
  BY DEF Sched
<1>7. ASSUME ClaimsIn(s.org, s.work) PROVE ClaimsIn(s.org \cup new, w)
  <2> SUFFICES ASSUME NEW c \in s.org \cup new
               PROVE  \E t \in OriginTasks(c) : w[t] > 0
    BY DEF ClaimsIn
  <2>1. CASE c \in new
    BY <1>4, <2>1
  <2>2. CASE c \in s.org
    <3>1. PICK t \in OriginTasks(c) : s.work[t] > 0
      BY <1>7, <2>2 DEF ClaimsIn
    <3>2. t \in Task
      BY DEF OriginTasks
    <3>3. w[t] \in Nat /\ s.work[t] \in Nat /\ w[t] >= s.work[t]
      BY <1>3, <3>2
    <3>4. QED
      BY <3>1, <3>3
  <2>3. QED
    BY <2>1, <2>2
<1>8. QED
  BY <1>1, <1>5, <1>6, <1>7

LEMMA CarryClaims ==
    ASSUME NEW s \in SchedStates,
           NEW A \in SUBSET Chunks,
           NEW a \in [A -> Peers \cup {Nobody}], NEW T,
           NEW retries,
           open' \subseteq Peers,
           \A c \in A : a[c] \in Peers => retries[c] \in 0..P2P_REQUEST_RETRIES
    PROVE  LET r == Carry(s, a, T, retries) IN
           /\ ClaimsIn(s.org, s.work) => ClaimsIn(r.org, r.work)
           /\ s.org \subseteq r.org
           /\ \A c \in A \ have' : a[c] \in Peers => Engaged(r)
<1> DEFINE asked == Asked(a, T, retries)
           failed == Failed(a, T, retries)
           i == AskedMap(s, a, T, retries)
           u == [s EXCEPT !.inf = i]
           r == Carry(s, a, T, retries)
<1>1. r = ToOrigin(u, failed)
  BY DEF Carry, AskedMap, Failed
<1>2. /\ i \in [Chunks -> Request \cup {NoRequest}]
      /\ \A c \in asked : c \in A /\ i[c] # NoRequest
  <2>1. AsksOf(i, s, A, a, T, retries)
    BY AskedRequests
  <2> HIDE DEF i
  <2>2. QED
    BY <2>1 DEF AsksOf
<1>3. \A c \in asked : c \in Chunks /\ i[c] # NoRequest
  BY <1>2
<1>4. failed \in SUBSET Chunks
  BY DEF Failed
<1>5. \A c \in A : a[c] \in Peers => c \in asked \/ c \in failed
  BY DEF Failed
<1> HIDE DEF asked, failed, i
<1>6. u \in SchedStates /\ u.org = s.org /\ u.work = s.work /\ u.inf = i
  BY <1>2 DEF SchedStates
<1> HIDE DEF u, r
<1>7. /\ ClaimsIn(u.org, u.work) => ClaimsIn(r.org, r.work)
      /\ u.org \subseteq r.org
      /\ failed \ have' \subseteq r.org
      /\ r.inf = u.inf
  BY <1>1, <1>4, <1>6, ToOriginClaims
<1>8. \A c \in A \ have' : a[c] \in Peers => Engaged(r)
  BY <1>3, <1>5, <1>6, <1>7 DEF Engaged, Busy
<1>9. QED
  BY <1>6, <1>7, <1>8 DEF r

\* The heart of the argument: from an idle state, scheduleNext asks a peer or the
\* origin for something.
LEMMA ScheduleNextEngages ==
    ASSUME NEW s \in SchedStates, open' \subseteq Peers, have' \subseteq Chunks,
           ClaimsIn(s.org, s.work),
           NEW r \in ScheduleNext(s)
    PROVE  /\ ClaimsIn(r.org, r.work)
           /\ phase' = "running" /\ have' # Chunks => Engaged(r)
<1> DEFINE missing == {c \in Chunks \ have' : s.inf[c] = NoRequest /\ c \notin s.org}
           held == {c \in missing : Eligible(c) # {}}
           zero == [c \in held |-> 0]
<1>0. /\ r \in SchedStates
      /\ KeepsRequests(s.inf, r.inf, Busy(s.inf))
  BY ScheduleNextLemma
<1>1. CASE phase' # "running" \/ have' = Chunks \/ Room(s) <= 0
  <2>1. r = s
    BY <1>1 DEF ScheduleNext
  <2>2. Room(s) <= 0 => Engaged(s)
    <3> SUFFICES ASSUME Busy(s.inf) = {}, s.org = {} PROVE ~(Room(s) <= 0)
      BY DEF Engaged
    <3>1. Room(s) = MaxTotalInFlight - (0 + 0)
      BY FS_EmptySet DEF Room
    <3>2. QED
      BY <3>1, CapsAssumption
  <2>3. QED
    BY <1>1, <2>1, <2>2
<1>2. CASE ~(phase' # "running" \/ have' = Chunks \/ Room(s) <= 0)
  <2>1. PICK plan \in GreedyPlans(s, held) :
           r = SeedFromOrigin(Carry(s, plan[1], plan[2], zero), missing \ held)
    BY <1>2 DEF ScheduleNext
  <2> DEFINE a == plan[1]
             T == plan[2]
  <2>2. a \in [held -> Peers \cup {Nobody}]
    BY <2>1 DEF GreedyPlans
  <2>3. held \in SUBSET Chunks
    OBVIOUS
  <2>4. \A c \in held : zero[c] \in 0..P2P_REQUEST_RETRIES
    BY CapsAssumption
  <2> DEFINE u == Carry(s, a, T, zero)
             Z == missing \ held
             G == {c \in Z : Cardinality({d \in Z : d < c}) < Room(u)}
  <2>5. u \in SchedStates /\ KeepsRequests(s.inf, u.inf, Chunks \ held)
    BY <2>2, <2>3, <2>4, CarryLemma
  <2>6. /\ ClaimsIn(u.org, u.work)
        /\ s.org \subseteq u.org
        /\ \A c \in held \ have' : a[c] \in Peers => Engaged(u)
    BY <2>2, <2>3, <2>4, CarryClaims
  <2>7. r = ToOrigin(u, G)
    BY <2>1 DEF SeedFromOrigin
  <2>8. G \in SUBSET Chunks
    OBVIOUS
  <2>9. /\ ClaimsIn(r.org, r.work)
        /\ u.org \subseteq r.org
        /\ G \ have' \subseteq r.org
        /\ r.inf = u.inf
    <3> HIDE DEF u, G
    <3>1. QED
      BY <2>5, <2>6, <2>7, <2>8, ToOriginClaims
  <2>10. Engaged(u) => Engaged(r)
    BY <2>9 DEF Engaged
  <2>11. CASE Engaged(s)
    <3>1. Busy(s.inf) \subseteq Busy(r.inf)
      BY <1>0 DEF Busy, KeepsRequests
    <3>2. QED
      BY <2>6, <2>9, <2>11, <3>1 DEF Engaged
  <2>12. CASE ~Engaged(s) /\ held # {}
    <3>1. \E c \in held : a[c] \in Peers
      <4> SUFFICES ASSUME \A c \in held : a[c] = Nobody PROVE FALSE
        BY <2>2
      <4>1. PICK c \in held : TRUE
        BY <2>12
      <4> DEFINE ord == RarestFirst(held)
                 Q == Asked(a, T, zero)
                 below == {p \in Eligible(c) : PlannedLoad(s, a, Q, ord, c, p) < MaxInFlightPerPeer}
                 taken == Cardinality({d \in held : <<d, c>> \in ord /\ a[d] # Nobody})
      <4>2. IF below = {} \/ Room(s) <= taken
            THEN a[c] = Nobody
            ELSE a[c] \in LeastLoaded(s, a, Q, ord, c, below)
        BY <2>1 DEF GreedyPlans
      <4>3. taken = 0
        <5>1. {d \in held : <<d, c>> \in ord /\ a[d] # Nobody} = {}
          OBVIOUS
        <5>2. QED
          BY <5>1, FS_EmptySet
      <4>4. Room(s) \in Int /\ Room(s) > 0
        <5>1. Room(s) = MaxTotalInFlight - (0 + 0)
          BY <2>12, FS_EmptySet DEF Room, Engaged
        <5>2. QED
          BY <5>1, CapsAssumption
      <4>5. PICK p \in Eligible(c) : p \in Peers
        BY DEF Eligible
      <4>6. PlannedLoad(s, a, Q, ord, c, p) = 0
        <5>1. {d \in Chunks : s.inf[d].peer = p} = {}
          BY <2>12, PeersAssumption, <4>5 DEF Engaged, Busy, NoRequest
        <5>2. {d \in Q : <<d, c>> \in ord /\ a[d] = p} = {}
          BY <2>2, <4>5, PeersAssumption DEF Asked
        <5>3. Load(s.inf, p) = 0
          BY <5>1, FS_EmptySet DEF Load
        <5>4. PlannedLoad(s, a, Q, ord, c, p) = 0 + 0
          BY <5>2, <5>3, FS_EmptySet DEF PlannedLoad
        <5>5. QED
          BY <5>4
      <4>7. p \in below
        <5>1. 0 < MaxInFlightPerPeer
          BY CapsAssumption
        <5> HIDE DEF ord
        <5>2. QED
          BY <4>5, <4>6, <5>1
      <4>8. a[c] \in LeastLoaded(s, a, Q, ord, c, below)
        <5>1. below # {} /\ ~(Room(s) <= taken)
          <6> HIDE DEF below, taken, held
          <6>1. QED
            BY <4>3, <4>4, <4>7
        <5> HIDE DEF below, taken, ord
        <5>2. QED
          BY <4>2, <5>1
      <4>9. a[c] \in Peers
        BY <4>8 DEF LeastLoaded, Eligible
      <4>10. QED
        BY <4>9, PeersAssumption
    <3>2. QED
      BY <2>6, <2>9, <2>10, <3>1
  <2>13. CASE ~Engaged(s) /\ held = {}
    <3>a. \A c \in Chunks : s.inf[c] = NoRequest /\ c \notin s.org
      BY <2>13 DEF Engaged, Busy
    <3>b. missing = Chunks \ have'
      BY <3>a
    <3>1. Z = Chunks \ have'
      <4> HIDE DEF missing, held
      <4>1. QED
        BY <2>13, <3>b
    <3>2. Z # {} /\ Z \in SUBSET Chunks
      BY <1>2, <3>1
    <3>3. PICK c \in Z : {d \in Z : d < c} = {}
      <4> HIDE DEF Z
      <4>1. QED
        BY <3>2, FirstChunk
    <3>4. CASE Engaged(u)
      BY <2>9, <2>10, <3>4
    <3>5. CASE ~Engaged(u)
      <4>1. Room(u) = MaxTotalInFlight - (0 + 0)
        BY <3>5, FS_EmptySet DEF Room, Engaged
      <4>2. Cardinality({d \in Z : d < c}) < Room(u)
        <5> HIDE DEF u, Z
        <5>1. Cardinality({d \in Z : d < c}) = 0
          BY <3>3, FS_EmptySet
        <5>2. QED
          BY <4>1, <5>1, CapsAssumption
      <4>3. c \in G /\ c \notin have'
        BY <3>1, <3>3, <4>2
      <4>4. QED
        BY <2>9, <4>3 DEF Engaged
    <3>6. QED
      BY <3>4, <3>5
  <2>14. QED
    BY <2>9, <2>11, <2>12, <2>13
<1>3. QED
  BY <1>1, <1>2

LEMMA ScheduleChunksClaims ==
    ASSUME NEW s \in SchedStates, open' \subseteq Peers,
           ClaimsIn(s.org, s.work),
           NEW R \in SUBSET Chunks, NEW retries \in [R -> Nat],
           NEW r \in ScheduleChunks(s, R, retries)
    PROVE  ClaimsIn(r.org, r.work)
<1>0. Planned(s, R, retries, r)
  BY RetryPlanLemma
<1>1. PICK a \in [R -> Peers \cup {Nobody}], T \in SUBSET R :
         /\ r = ToOrigin(Carry(s, a, T, retries), {c \in R : a[c] = Nobody})
         /\ \A c \in R : a[c] \in Peers => retries[c] \in 0..P2P_REQUEST_RETRIES
  BY <1>0, Zenon DEF Planned
<1> DEFINE u == Carry(s, a, T, retries)
           G == {c \in R : a[c] = Nobody}
<1>5. u \in SchedStates /\ ClaimsIn(u.org, u.work)
  BY <1>1, CarryLemma, CarryClaims
<1>6. G \in SUBSET Chunks
  OBVIOUS
<1>7. r = ToOrigin(u, G)
  BY <1>1
<1> HIDE DEF u, G
<1>8. QED
  BY <1>5, <1>6, <1>7, ToOriginClaims

\* A handler that ends in scheduleNext leaves the scheduler with work.
LEMMA EngagedStep ==
    ASSUME NEW s \in SchedStates, open' \subseteq Peers, have' \subseteq Chunks,
           ClaimsIn(s.org, s.work),
           Settle(ScheduleNext(s))
    PROVE  ClaimsPending' /\ WorkOutstanding'
<1>1. PICK r \in ScheduleNext(s) : inFlight' = r.inf /\ originInFlight' = r.org /\ tasks' = r.work
  BY DEF Settle
<1>2. /\ ClaimsIn(r.org, r.work)
      /\ phase' = "running" /\ have' # Chunks => Engaged(r)
  BY ScheduleNextEngages
<1>3. ClaimsPending'
  BY <1>1, <1>2 DEF ClaimsPending, ClaimsIn, OriginTasks
<1>4. WorkOutstanding'
  <2> SUFFICES ASSUME phase' = "running", have' # Chunks, Busy(inFlight') = {}
               PROVE  \E t \in Task : tasks'[t] > 0
    BY DEF WorkOutstanding, Pending, Busy
  <2>1. PICK c \in originInFlight' : TRUE
    BY <1>1, <1>2 DEF Engaged, Busy
  <2>2. QED
    BY <1>1, <1>2, <2>1 DEF ClaimsIn, OriginTasks
<1>5. QED
  BY <1>3, <1>4

LEMMA RetryEngagedStep ==
    ASSUME NEW s \in SchedStates, open' \subseteq Peers, have' \subseteq Chunks,
           ClaimsIn(s.org, s.work),
           NEW R \in SUBSET Chunks, NEW retries \in [R -> Nat],
           Settle(UNION {ScheduleNext(u) : u \in ScheduleChunks(s, R, retries)})
    PROVE  ClaimsPending' /\ WorkOutstanding'
<1>1. PICK u \in ScheduleChunks(s, R, retries) : Settle(ScheduleNext(u))
  BY DEF Settle
<1>2. u \in SchedStates /\ ClaimsIn(u.org, u.work)
  BY ScheduleChunksLemma, ScheduleChunksClaims
<1>3. QED
  BY <1>1, <1>2, EngagedStep

\* When a task ends, the claims that remain still have their download.
LEMMA FinishEngagedStep ==
    ASSUME IInv, IInv',
           NEW org \in SUBSET Chunks, NEW work \in [Task -> Nat],
           ClaimsIn(org, work),
           NEW t \in Task, work[t] > 0,
           Finish(t, org, work)
    PROVE  ClaimsPending' /\ WorkOutstanding'
<1> DEFINE left == IF t.source = "origin" THEN org \ {t.chunk} ELSE org
           w == Retire(work, t)
           s == Sched(inFlight, left, w)
<1>1. w \in [Task -> Nat] /\ \A u \in Task \ {t} : w[u] = work[u]
  BY DEF Retire
<1>2. left \in SUBSET Chunks
  OBVIOUS
<1>3. ClaimsIn(left, w)
  <2> SUFFICES ASSUME NEW c \in left PROVE \E u \in OriginTasks(c) : w[u] > 0
    BY DEF ClaimsIn
  <2>1. PICK u \in OriginTasks(c) : work[u] > 0
    BY DEF ClaimsIn
  <2>2. u # t
    BY DEF OriginTasks
  <2>3. QED
    BY <1>1, <2>1, <2>2 DEF OriginTasks
<1>4. s \in SchedStates /\ s.org = left /\ s.work = w
  BY <1>1, <1>2 DEF Sched, SchedStates, IInv, TypeOK
<1>5. Settle(ScheduleNext(s))
  BY DEF Finish
<1>6. open' \subseteq Peers /\ have' \subseteq Chunks
  BY DEF IInv, TypeOK
<1> HIDE DEF s, left, w
<1>7. QED
  BY <1>3, <1>4, <1>5, <1>6, EngagedStep

\* Every step keeps the strengthened invariant: one case for each action, split
\* on whether the callback ends in scheduleNext.
LEMMA NextPInv == PInv /\ [Next]_vars => PInv'
<1> SUFFICES ASSUME PInv, [Next]_vars PROVE PInv'
  OBVIOUS
<1>a. IInv /\ TypeOK
  BY DEF PInv, IInv
<1>b. IInv'
  BY <1>a, NextIInv
<1>c. open' \subseteq Peers /\ have' \subseteq Chunks
  BY <1>b DEF IInv, TypeOK
<1> SUFFICES ClaimsPending' /\ WorkOutstanding'
  BY <1>b DEF PInv
<1> DEFINE now == Sched(inFlight, originInFlight, tasks)
<1>d. /\ now \in SchedStates /\ now.org = originInFlight /\ now.work = tasks
      /\ ClaimsIn(now.org, now.work)
  BY <1>a, SchedNow DEF Sched, PInv, ClaimsPending
<1>e. ASSUME Reschedule PROVE ClaimsPending' /\ WorkOutstanding'
  <2>1. Settle(ScheduleNext(now))
    BY <1>e DEF Reschedule
  <2> HIDE DEF now
  <2>2. QED
    BY <1>c, <1>d, <2>1, EngagedStep
<1>1. CASE Start
  BY <1>1, <1>e DEF Start
<1>2. CASE Stop
  BY <1>2 DEF Stop, ClaimsPending, ClaimsIn, WorkOutstanding
<1>3. ASSUME NEW p \in Peers, NEW S \in SUBSET Chunks, UpdatePeerBitfield(p, S)
      PROVE  ClaimsPending' /\ WorkOutstanding'
  BY <1>3, <1>e DEF UpdatePeerBitfield
<1>4. ASSUME NEW p \in Peers, NEW c \in Chunks, UpdatePeerHave(p, c)
      PROVE  ClaimsPending' /\ WorkOutstanding'
  BY <1>4, <1>e DEF UpdatePeerHave
<1>f. ASSUME UNCHANGED <<phase, have, inFlight, originInFlight, tasks, rejected>>
      PROVE  ClaimsPending' /\ WorkOutstanding'
  BY <1>f DEF PInv, ClaimsPending, ClaimsIn, WorkOutstanding, Busy, Pending
<1>5. ASSUME NEW p \in Peers, NEW isChoked \in BOOLEAN, SetPeerChoked(p, isChoked)
      PROVE  ClaimsPending' /\ WorkOutstanding'
  BY <1>5, <1>e, <1>f DEF SetPeerChoked, NoScheduling, diskVars
<1>6. ASSUME NEW p \in Peers, RemovePeer(p)
      PROVE  ClaimsPending' /\ WorkOutstanding'
  <2> DEFINE lost    == {c \in Chunks : inFlight[c].peer = p}
             freed   == [c \in Chunks |-> IF c \in lost THEN NoRequest ELSE inFlight[c]]
             retries == [c \in lost |-> inFlight[c].retries + 1]
             s       == Sched(freed, originInFlight, tasks)
  <2>1. freed \in [Chunks -> Request \cup {NoRequest}]
    BY <1>a DEF TypeOK
  <2>2. retries \in [lost -> Nat]
    <3> SUFFICES ASSUME NEW c \in lost PROVE inFlight[c].retries + 1 \in Nat
      OBVIOUS
    <3>1. inFlight[c] \in Request
      BY <1>a, PeersAssumption DEF TypeOK, NoRequest
    <3>2. QED
      BY <3>1, CapsAssumption DEF Request
  <2>3. Settle(UNION {ScheduleNext(u) : u \in ScheduleChunks(s, lost, retries)})
    BY <1>6 DEF RemovePeer
  <2>4. lost \in SUBSET Chunks
    OBVIOUS
  <2> HIDE DEF lost, freed, retries
  <2>5. s \in SchedStates /\ ClaimsIn(s.org, s.work)
    BY <1>a, <2>1 DEF Sched, SchedStates, TypeOK, PInv, ClaimsPending
  <2> HIDE DEF s
  <2>6. QED
    BY <1>c, <2>2, <2>3, <2>4, <2>5, RetryEngagedStep
<1>7. ASSUME NEW p \in Peers, ChannelOpens(p) \/ ChannelFails(p)
      PROVE  ClaimsPending' /\ WorkOutstanding'
  BY <1>7, <1>f DEF ChannelOpens, ChannelFails, NoScheduling, diskVars
<1>8. ASSUME NEW c \in Chunks, NEW b \in Blocks, NEW ok \in BOOLEAN, HandleBlock(c, b, ok)
      PROVE  ClaimsPending' /\ WorkOutstanding'
  BY <1>8, <1>f DEF HandleBlock, NoScheduling, diskVars
\* Tasks that only move to their next await.
<1>g. ASSUME NEW t \in Task, tasks'[t] > 0, originInFlight' = originInFlight,
             NEW old \in Task,
             \A u \in Task \ {t, old} : tasks'[u] = tasks[u],
             tasks'[t] >= tasks[t],
             old.source = "origin" => t.source = "origin" /\ t.chunk = old.chunk
      PROVE  ClaimsPending' /\ WorkOutstanding'
  <2>1. WorkOutstanding'
    BY <1>g DEF WorkOutstanding, Pending
  <2>2. ASSUME NEW c \in originInFlight PROVE \E u \in OriginTasks(c) : tasks'[u] > 0
    <3>1. PICK u \in OriginTasks(c) : tasks[u] > 0
      BY <2>2 DEF PInv, ClaimsPending, ClaimsIn
    <3>2. CASE u = t
      BY <1>g, <3>1, <3>2
    <3>3. CASE u = old
      BY <1>g, <3>1, <3>3 DEF OriginTasks
    <3>4. CASE u # t /\ u # old
      BY <1>g, <3>1, <3>4 DEF OriginTasks
    <3>5. QED
      BY <3>2, <3>3, <3>4
  <2>3. QED
    BY <1>g, <2>1, <2>2 DEF ClaimsPending, ClaimsIn, OriginTasks
<1>9. ASSUME NEW c \in Chunks, NEW b \in Blocks, NEW ok \in BOOLEAN, HandleLastBlock(c, b, ok)
      PROVE  ClaimsPending' /\ WorkOutstanding'
  <2> DEFINE whole == \A e \in reassembly[c] \cup {<<b, ok>>} : e[2]
             v == VerifyTask(c, "p2p", whole)
  <2>1. tasks' = Spawn(tasks, v) /\ originInFlight' = originInFlight
    BY <1>9 DEF HandleLastBlock
  <2>2. v \in Task /\ v.source = "p2p"
    BY DEF Task, VerifyTask
  <2> HIDE DEF v
  <2>3. /\ tasks'[v] > 0 /\ tasks'[v] >= tasks[v]
        /\ \A u \in Task \ {v} : tasks'[u] = tasks[u]
    BY <1>a, <2>1, <2>2 DEF Spawn, TypeOK
  <2>4. QED
    BY <1>g, <2>1, <2>2, <2>3
<1>o. ASSUME NEW c \in Chunks, HandleOverrun(c)
      PROVE  ClaimsPending' /\ WorkOutstanding'
  BY <1>o DEF HandleOverrun, PInv, ClaimsPending, ClaimsIn, WorkOutstanding
<1>10. ASSUME NEW c \in Chunks, HandleTimeout(c)
       PROVE  ClaimsPending' /\ WorkOutstanding'
  <2> DEFINE freed   == [inFlight EXCEPT ![c] = NoRequest]
             retries == [d \in {c} |-> inFlight[d].retries + 1]
             s       == Sched(freed, originInFlight, tasks)
  <2>1. freed \in [Chunks -> Request \cup {NoRequest}]
    BY <1>a DEF TypeOK
  <2>2. retries \in [{c} -> Nat]
    <3>1. inFlight[c] \in Request
      BY <1>a, <1>10 DEF TypeOK, HandleTimeout
    <3>2. inFlight[c].retries + 1 \in Nat
      BY <3>1, CapsAssumption DEF Request
    <3>3. QED
      BY <3>2
  <2>3. Settle(UNION {ScheduleNext(u) : u \in ScheduleChunks(s, {c}, retries)})
    BY <1>10 DEF HandleTimeout
  <2> HIDE DEF freed, retries
  <2>4. s \in SchedStates /\ ClaimsIn(s.org, s.work)
    BY <1>a, <2>1 DEF Sched, SchedStates, TypeOK, PInv, ClaimsPending
  <2> HIDE DEF s
  <2>5. QED
    BY <1>c, <2>2, <2>3, <2>4, RetryEngagedStep
<1>11. ASSUME NEW c \in Chunks, FetchRejects(c)
       PROVE  ClaimsPending' /\ WorkOutstanding'
  <2>1. FetchTask(c) \in Task /\ tasks[FetchTask(c)] > 0
    BY <1>11 DEF FetchRejects, Pending, FetchTask, Task
  <2>2. QED
    BY <1>11, <2>1, <1>a, <1>b, FinishEngagedStep DEF FetchRejects, TypeOK, PInv, ClaimsPending
<1>12. ASSUME NEW c \in Chunks, NEW ok \in BOOLEAN, FetchResolves(c, ok)
       PROVE  ClaimsPending' /\ WorkOutstanding'
  <2> DEFINE v == VerifyTask(c, "origin", ok)
             f == FetchTask(c)
  <2>1. /\ v \in Task /\ v.source = "origin" /\ v.chunk = c
        /\ f \in Task /\ f.chunk = c /\ v # f
    BY DEF Task, VerifyTask, FetchTask
  <2>2. tasks' = Spawn(Retire(tasks, f), v) /\ originInFlight' = originInFlight
    BY <1>12 DEF FetchResolves
  <2> HIDE DEF v, f
  <2>3. /\ tasks'[v] > 0 /\ tasks'[v] >= tasks[v]
        /\ \A u \in Task \ {v, f} : tasks'[u] = tasks[u]
    BY <1>a, <2>1, <2>2 DEF Spawn, Retire, TypeOK
  <2>4. QED
    BY <1>g, <2>1, <2>2, <2>3
<1>13. ASSUME NEW t \in Task, VerifyAccepts(t)
       PROVE  ClaimsPending' /\ WorkOutstanding'
  <2> DEFINE w == PutTask(t)
  <2>1. w \in Task /\ w # t /\ w.source = t.source /\ w.chunk = t.chunk
    BY <1>13 DEF VerifyAccepts, PutTask, Task
  <2>2. tasks' = Spawn(Retire(tasks, t), w) /\ originInFlight' = originInFlight
    BY <1>13 DEF VerifyAccepts
  <2> HIDE DEF w
  <2>3. /\ tasks'[w] > 0 /\ tasks'[w] >= tasks[w]
        /\ \A u \in Task \ {w, t} : tasks'[u] = tasks[u]
    BY <1>a, <2>1, <2>2 DEF Spawn, Retire, TypeOK
  <2>4. QED
    BY <1>g, <2>1, <2>2, <2>3
<1>14. ASSUME NEW t \in Task, VerifyRejects(t)
       PROVE  ClaimsPending' /\ WorkOutstanding'
  <2> DEFINE s == ToOrigin(now, {t.chunk})
  <2>1. {t.chunk} \in SUBSET Chunks /\ {t.chunk} \cap Chunks = {t.chunk}
    BY DEF Task
  <2>2. Finish(t, s.org, s.work) /\ tasks[t] > 0 /\ t.stage = "verify"
    BY <1>14 DEF VerifyRejects, Pending
  <2> HIDE DEF now
  <2>3. s \in SchedStates /\ OnlyFetches(tasks, s.work)
    BY <1>d, <2>1, ToOriginLemma
  <2>4. ClaimsIn(s.org, s.work)
    BY <1>d, <2>1, ToOriginClaims
  <2> HIDE DEF s
  <2>5. s.org \in SUBSET Chunks /\ s.work \in [Task -> Nat] /\ s.work[t] > 0
    BY <2>2, <2>3 DEF SchedStates, OnlyFetches
  <2>6. QED
    BY <1>a, <1>b, <2>2, <2>4, <2>5, FinishEngagedStep
<1>15. ASSUME NEW t \in Task, PutSucceeds(t)
       PROVE  ClaimsPending' /\ WorkOutstanding'
  BY <1>15, <1>a, <1>b, FinishEngagedStep DEF PutSucceeds, Pending, TypeOK, PInv, ClaimsPending
<1>16. ASSUME NEW t \in Task, TaskRejects(t)
       PROVE  ClaimsPending' /\ WorkOutstanding'
  <2>1. tasks[t] > 0 /\ tasks \in [Task -> Nat] /\ originInFlight \in SUBSET Chunks
    BY <1>16, <1>a DEF TaskRejects, Pending, TypeOK
  <2>2. CASE t.source = "origin"
    <3>1. Finish(t, originInFlight, tasks)
      BY <1>16, <2>2 DEF TaskRejects
    <3>2. QED
      BY <1>a, <1>b, <2>1, <3>1, FinishEngagedStep DEF PInv, ClaimsPending
  <2>3. CASE t.source # "origin"
    <3>1. /\ tasks' = Retire(tasks, t) /\ originInFlight' = originInFlight
          /\ rejected' = rejected \cup {t.chunk}
      BY <1>16, <2>3 DEF TaskRejects
    <3>2. WorkOutstanding'
      BY <3>1 DEF WorkOutstanding
    <3>3. \A u \in Task : u.source = "origin" => tasks'[u] = tasks[u]
      BY <2>1, <2>3, <3>1 DEF Retire
    <3>4. ClaimsPending'
      BY <3>1, <3>3 DEF PInv, ClaimsPending, ClaimsIn, OriginTasks
    <3>5. QED
      BY <3>2, <3>4
  <2>4. QED
    BY <2>2, <2>3
<1>17. CASE UNCHANGED vars
  BY <1>17, <1>f DEF vars
<1>18. QED
  BY <1>1, <1>2, <1>3, <1>4, <1>5, <1>6, <1>7, <1>8, <1>9, <1>o, <1>10, <1>11, <1>12, <1>13,
     <1>14, <1>15, <1>16, <1>17 DEF Next, PeerEvent, BlockArrives, Settles

-----------------------------------------------------------------------------
\* The scheduler falls idle only by a throw of handlePiece: in every reachable
\* state of a running, incomplete download some request (with its timer) or
\* awaited task is outstanding, whatever the peers do, unless a block past the
\* end, a digest or a write made handlePiece throw and scheduleNext has not run
\* since (lines 354, 386, 400).
THEOREM NeverIdle == Spec => []WorkOutstanding
<1>1. Init => PInv
  <2>1. Init => ClaimsPending /\ WorkOutstanding
    BY DEF Init, ClaimsPending, ClaimsIn, WorkOutstanding
  <2>2. QED
    BY <2>1, InitIInv DEF PInv
<1>2. PInv /\ [Next]_vars => PInv'
  BY NextPInv
<1>3. PInv => WorkOutstanding
  BY DEF PInv
<1>4. QED
  BY <1>1, <1>2, <1>3, PTL DEF Spec

-----------------------------------------------------------------------------
(***************************************************************************)
(* What scheduling does.  Whatever loops a handler runs, it only adds: it  *)
(* claims chunks that are not held, starts one fetch for each new claim,   *)
(* and asks for chunks that are not held and nobody was asked for.         *)
(***************************************************************************)
Schedules(s, r) ==
    /\ s.org \subseteq r.org
    /\ \A c \in r.org \ s.org : c \in Chunks \ have'
    /\ \A t \in Task :
          r.work[t] = IF t.chunk \in r.org \ s.org /\ t = FetchTask(t.chunk)
                      THEN s.work[t] + 1 ELSE s.work[t]
    /\ \A c \in Chunks :
          r.inf[c] # s.inf[c] => c \notin have' /\ s.inf[c] = NoRequest /\ r.inf[c] # NoRequest

LEMMA SchedulesNothing ==
    ASSUME NEW s \in SchedStates
    PROVE  Schedules(s, s)
BY DEF Schedules

LEMMA SchedulesTransitive ==
    ASSUME NEW s \in SchedStates, NEW u \in SchedStates, NEW r \in SchedStates,
           Schedules(s, u), Schedules(u, r)
    PROVE  Schedules(s, r)
<1>1. ASSUME NEW t \in Task
      PROVE  r.work[t] = IF t.chunk \in r.org \ s.org /\ t = FetchTask(t.chunk)
                         THEN s.work[t] + 1 ELSE s.work[t]
  BY DEF Schedules
<1>2. QED
  BY <1>1 DEF Schedules

LEMMA ToOriginSchedules ==
    ASSUME NEW s \in SchedStates, NEW G \in SUBSET Chunks
    PROVE  Schedules(s, ToOrigin(s, G))
<1> DEFINE new == {c \in G : c \notin have' /\ c \notin s.org}
           w == [t \in Task |-> IF \E c \in new : t = FetchTask(c) THEN s.work[t] + 1 ELSE s.work[t]]
           r == Sched(s.inf, s.org \cup new, w)
<1>1. ToOrigin(s, G) = r
  BY ToOriginIs
<1>2. r.org \ s.org = new /\ s.org \subseteq r.org /\ r.work = w /\ r.inf = s.inf
  BY DEF Sched
<1>3. ASSUME NEW t \in Task
      PROVE  (\E c \in new : t = FetchTask(c)) <=> (t.chunk \in new /\ t = FetchTask(t.chunk))
  BY DEF FetchTask
<1>4. \A t \in Task : w[t] = IF t.chunk \in new /\ t = FetchTask(t.chunk)
                             THEN s.work[t] + 1 ELSE s.work[t]
  BY <1>3
<1>5. \A c \in new : c \in Chunks \ have'
  OBVIOUS
<1> HIDE DEF new, w, r
<1>6. QED
  BY <1>1, <1>2, <1>4, <1>5 DEF Schedules

LEMMA CarrySchedules ==
    ASSUME NEW s \in SchedStates,
           NEW A \in SUBSET (Chunks \ have'),
           NEW a \in [A -> Peers \cup {Nobody}], NEW T,
           NEW retries,
           open' \subseteq Peers,
           \A c \in A : s.inf[c] = NoRequest,
           \A c \in A : a[c] \in Peers => retries[c] \in 0..P2P_REQUEST_RETRIES
    PROVE  Schedules(s, Carry(s, a, T, retries))
<1> DEFINE asked == Asked(a, T, retries)
           failed == Failed(a, T, retries)
           i == AskedMap(s, a, T, retries)
           u == [s EXCEPT !.inf = i]
           r == Carry(s, a, T, retries)
<1>1. r = ToOrigin(u, failed)
  BY DEF Carry, AskedMap, Failed
<1>0. A \in SUBSET Chunks
  OBVIOUS
<1>2. /\ i \in [Chunks -> Request \cup {NoRequest}]
      /\ \A c \in asked : c \in A /\ i[c] # NoRequest
      /\ \A c \in Chunks \ asked : i[c] = s.inf[c]
  <2>1. AsksOf(i, s, A, a, T, retries)
    BY <1>0, AskedRequests
  <2> HIDE DEF i
  <2>2. QED
    BY <2>1 DEF AsksOf
<1>3. ASSUME NEW c \in Chunks, i[c] # s.inf[c]
      PROVE  c \notin have' /\ s.inf[c] = NoRequest /\ i[c] # NoRequest
  <2>1. c \in asked
    BY <1>2, <1>3
  <2>2. QED
    BY <1>2, <2>1
<1>4. failed \in SUBSET Chunks
  BY DEF Failed
<1> HIDE DEF asked, failed, i
<1>6. u \in SchedStates /\ u.org = s.org /\ u.work = s.work /\ u.inf = i
  BY <1>2 DEF SchedStates
<1> HIDE DEF u, r
<1>7. Schedules(s, u)
  BY <1>3, <1>6 DEF Schedules
<1>8. Schedules(u, r) /\ r \in SchedStates
  <2>1. failed \cap Chunks = failed
    BY <1>4
  <2>2. QED
    BY <1>1, <1>4, <1>6, <2>1, ToOriginSchedules, ToOriginLemma
<1>9. QED
  BY <1>6, <1>7, <1>8, SchedulesTransitive DEF r

LEMMA ScheduleNextSchedules ==
    ASSUME NEW s \in SchedStates, open' \subseteq Peers,
           NEW r \in ScheduleNext(s)
    PROVE  Schedules(s, r)
<1> DEFINE missing == {c \in Chunks \ have' : s.inf[c] = NoRequest /\ c \notin s.org}
           held == {c \in missing : Eligible(c) # {}}
           zero == [c \in held |-> 0]
<1>1. CASE phase' # "running" \/ have' = Chunks \/ Room(s) <= 0
  BY <1>1, SchedulesNothing DEF ScheduleNext
<1>2. CASE ~(phase' # "running" \/ have' = Chunks \/ Room(s) <= 0)
  <2>1. PICK plan \in GreedyPlans(s, held) :
           r = SeedFromOrigin(Carry(s, plan[1], plan[2], zero), missing \ held)
    BY <1>2 DEF ScheduleNext
  <2> DEFINE a == plan[1]
             T == plan[2]
  <2>2. a \in [held -> Peers \cup {Nobody}]
    BY <2>1 DEF GreedyPlans
  <2>3. held \in SUBSET (Chunks \ have') /\ \A c \in held : s.inf[c] = NoRequest
    OBVIOUS
  <2>4. \A c \in held : zero[c] \in 0..P2P_REQUEST_RETRIES
    BY CapsAssumption
  <2> DEFINE u == Carry(s, a, T, zero)
             Z == missing \ held
             G == {c \in Z : Cardinality({d \in Z : d < c}) < Room(u)}
  <2> HIDE DEF held, zero
  <2>5. u \in SchedStates /\ Schedules(s, u)
    BY <2>2, <2>3, <2>4, CarryLemma, CarrySchedules
  <2>6. r = ToOrigin(u, G)
    BY <2>1 DEF SeedFromOrigin
  <2>7. G \in SUBSET Chunks
    OBVIOUS
  <2> HIDE DEF u, G
  <2>8. r \in SchedStates
    BY ScheduleNextLemma
  <2>9. QED
    BY <2>5, <2>6, <2>7, <2>8, ToOriginSchedules, SchedulesTransitive
<1>3. QED
  BY <1>1, <1>2

\* What becomes of the chunks R that are rescheduled: held meanwhile, asked for
\* at the attempt that is due or, if a send threw, at the one after, or claimed
\* for the origin.
FollowedUp(r, R, retries) ==
    \A c \in R : \/ c \in have'
                 \/ r.inf[c] # NoRequest /\ r.inf[c].retries - retries[c] \in {0, 1}
                 \/ c \in r.org

LEMMA ScheduleChunksSchedules ==
    ASSUME NEW s \in SchedStates, open' \subseteq Peers,
           NEW R \in SUBSET Chunks, NEW retries \in [R -> Nat],
           \A c \in R : s.inf[c] = NoRequest,
           NEW r \in ScheduleChunks(s, R, retries)
    PROVE  Schedules(s, r) /\ FollowedUp(r, R, retries)
<1> DEFINE Plans == UNION {RetryPlans(s, R, o, retries) : o \in LinearOrders(R)}
<1>1. PICK plan \in Plans : r = ToOrigin(Carry(s, plan[1], plan[2], retries),
                                       {c \in R : plan[1][c] = Nobody})
  BY Zenon DEF ScheduleChunks
<1>2. PICK o \in LinearOrders(R) : plan \in RetryPlans(s, R, o, retries)
  OBVIOUS
<1> DEFINE a == plan[1]
           T == plan[2]
<1>3. a \in [R -> Peers \cup {Nobody}] /\ T \in SUBSET R
  BY <1>2 DEF RetryPlans
<1>4. ASSUME NEW c \in R, a[c] \in Peers
      PROVE  retries[c] \in 0..P2P_REQUEST_RETRIES /\ c \notin have'
  <2>1. a[c] # Nobody
    BY <1>4, PeersAssumption
  <2>2. ~(retries[c] > P2P_REQUEST_RETRIES) /\ c \notin have'
    BY <1>2, <2>1 DEF RetryPlans
  <2>3. QED
    BY <2>2, CapsAssumption
<1> HIDE DEF Plans
(* The requests the plan adds, the chunks whose sends fail, and the rest. *)
<1> DEFINE asked == Asked(a, T, retries)
           failed == Failed(a, T, retries)
           rest == {c \in R : a[c] = Nobody}
           i == AskedMap(s, a, T, retries)
           v == [s EXCEPT !.inf = i]
           u == Carry(s, a, T, retries)
<1>5. u = ToOrigin(v, failed)
  BY DEF Carry, AskedMap, Failed
<1>6. /\ i \in [Chunks -> Request \cup {NoRequest}]
      /\ \A c \in asked : /\ c \in R /\ a[c] \in Peers /\ i[c] # NoRequest
                         /\ i[c].retries = Attempt(T, retries, c)
      /\ \A c \in Chunks \ asked : i[c] = s.inf[c]
  <2>1. \A c \in R : a[c] \in Peers => retries[c] \in 0..P2P_REQUEST_RETRIES
    BY <1>4
  <2> HIDE DEF a, T
  <2>2. AsksOf(i, s, R, a, T, retries)
    BY <1>3, <2>1, AskedRequests
  <2> HIDE DEF i
  <2>3. QED
    BY <2>2 DEF AsksOf
<1>8. failed \in SUBSET Chunks /\ rest \in SUBSET Chunks
  BY <1>3 DEF Failed
<1>10. R \subseteq asked \cup failed \cup rest
  BY <1>3 DEF Failed
<1> HIDE DEF a, T
<1>7. ASSUME NEW c \in Chunks, i[c] # s.inf[c]
      PROVE  c \notin have' /\ s.inf[c] = NoRequest /\ i[c] # NoRequest
  <2>1. c \in asked
    BY <1>6, <1>7
  <2>2. QED
    BY <1>4, <1>6, <2>1
<1>9. ASSUME NEW c \in asked
      PROVE  c \in Chunks /\ i[c] # NoRequest /\ i[c].retries - retries[c] \in {0, 1}
  <2> HIDE DEF i, asked
  <2>1. c \in R /\ i[c] # NoRequest /\ i[c].retries = Attempt(T, retries, c)
    BY <1>6
  <2>2. Attempt(T, retries, c) - retries[c] \in {0, 1}
    BY <2>1 DEF Attempt
  <2>3. QED
    BY <2>1, <2>2
<1>11. r = ToOrigin(u, rest)
  BY <1>1 DEF a, T
<1> HIDE DEF asked, failed, rest, i
<1>12. v \in SchedStates /\ v.org = s.org /\ v.work = s.work /\ v.inf = i
  BY <1>6 DEF SchedStates
<1> HIDE DEF v, u
<1>13. Schedules(s, v)
  BY <1>7, <1>12 DEF Schedules
<1>14. /\ Schedules(v, u) /\ u \in SchedStates
       /\ v.inf = u.inf /\ failed \ have' \subseteq u.org
  <2>1. failed \cap Chunks = failed
    BY <1>8
  <2>2. QED
    BY <1>5, <1>8, <1>12, <2>1, ToOriginSchedules, ToOriginLemma, ToOriginClaims
<1>15. /\ Schedules(u, r) /\ r \in SchedStates
       /\ r.inf = u.inf /\ rest \ have' \subseteq r.org /\ u.org \subseteq r.org
  <2>1. rest \cap Chunks = rest
    BY <1>8
  <2>2. QED
    BY <1>11, <1>8, <1>14, <2>1, ToOriginSchedules, ToOriginLemma, ToOriginClaims
<1>16. Schedules(s, r)
  BY <1>12, <1>13, <1>14, <1>15, SchedulesTransitive
<1>17. FollowedUp(r, R, retries)
  BY <1>9, <1>10, <1>12, <1>14, <1>15 DEF FollowedUp
<1>18. QED
  BY <1>16, <1>17


-----------------------------------------------------------------------------
\* A chunk with a claim has exactly one origin download, a chunk without none.
BackedIn(org, work) ==
    \A c \in Chunks :
        IF c \in org
        THEN \E t \in OriginTasks(c) : work[t] = 1 /\ \A u \in OriginTasks(c) \ {t} : work[u] = 0
        ELSE \A t \in OriginTasks(c) : work[t] = 0

LEMMA SchedulesBacked ==
    ASSUME NEW s \in SchedStates, NEW r \in SchedStates, Schedules(s, r),
           BackedIn(s.org, s.work)
    PROVE  BackedIn(r.org, r.work)
<1> SUFFICES ASSUME NEW c \in Chunks
             PROVE  IF c \in r.org
                    THEN \E t \in OriginTasks(c) : r.work[t] = 1 /\ \A u \in OriginTasks(c) \ {t} : r.work[u] = 0
                    ELSE \A t \in OriginTasks(c) : r.work[t] = 0
  BY DEF BackedIn
<1>1. CASE c \in r.org \ s.org
  <2>1. FetchTask(c) \in OriginTasks(c)
    BY DEF OriginTasks, FetchTask, Task
  <2>2. \A t \in OriginTasks(c) : s.work[t] = 0
    BY <1>1 DEF BackedIn
  <2>3. \A t \in OriginTasks(c) : r.work[t] = IF t = FetchTask(c) THEN s.work[t] + 1 ELSE s.work[t]
    BY <1>1 DEF Schedules, OriginTasks
  <2>4. QED
    BY <1>1, <2>1, <2>2, <2>3
<1>2. CASE c \notin r.org \ s.org
  <2>1. c \in r.org <=> c \in s.org
    BY <1>2 DEF Schedules
  <2>2. \A t \in OriginTasks(c) : r.work[t] = s.work[t]
    BY <1>2 DEF Schedules, OriginTasks
  <2>3. QED
    BY <2>1, <2>2 DEF BackedIn
<1>3. QED
  BY <1>1, <1>2

\* A task of the origin that moves to its next await.
LEMMA AdvanceBacked ==
    ASSUME NEW org, NEW work \in [Task -> Nat], BackedIn(org, work),
           NEW c \in Chunks, NEW old \in OriginTasks(c), NEW new \in OriginTasks(c),
           old # new, work[old] > 0
    PROVE  BackedIn(org, Spawn(Retire(work, old), new))
<1> DEFINE w == Spawn(Retire(work, old), new)
<1>1. old \in Task /\ new \in Task /\ old.chunk = c /\ new.chunk = c
  BY DEF OriginTasks
<1>2. \A t \in Task : w[t] = IF t = new THEN work[new] + 1
                             ELSE IF t = old THEN work[old] - 1 ELSE work[t]
  BY <1>1 DEF Spawn, Retire
<1> HIDE DEF w
<1>3. c \in org /\ \A t \in OriginTasks(c) : work[t] = IF t = old THEN 1 ELSE 0
  BY <1>1 DEF BackedIn, OriginTasks
<1>4. \A t \in OriginTasks(c) : w[t] = IF t = new THEN 1 ELSE 0
  BY <1>2, <1>3 DEF OriginTasks
<1>5. \A d \in Chunks \ {c} : \A t \in OriginTasks(d) : t \in Task /\ w[t] = work[t]
  BY <1>1, <1>2 DEF OriginTasks
<1>6. ASSUME NEW d \in Chunks
      PROVE  IF d \in org
             THEN \E t \in OriginTasks(d) : w[t] = 1 /\ \A u \in OriginTasks(d) \ {t} : w[u] = 0
             ELSE \A t \in OriginTasks(d) : w[t] = 0
  <2>1. CASE d = c
    BY <1>3, <1>4, <2>1
  <2>2. CASE d # c
    BY <1>5, <2>2 DEF BackedIn
  <2>3. QED
    BY <2>1, <2>2
<1>7. QED
  BY <1>6 DEF BackedIn, w

\* A task of the origin that ends with its claim, and anything about deliveries
\* of peers.
LEMMA RetireBacked ==
    ASSUME NEW org \in SUBSET Chunks, NEW work \in [Task -> Nat], BackedIn(org, work),
           NEW t \in Task, work[t] > 0
    PROVE  BackedIn(IF t.source = "origin" THEN org \ {t.chunk} ELSE org, Retire(work, t))
<1> DEFINE w == Retire(work, t)
           left == IF t.source = "origin" THEN org \ {t.chunk} ELSE org
<1>1. \A u \in Task : w[u] = IF u = t THEN work[t] - 1 ELSE work[u]
  BY DEF Retire
<1> HIDE DEF w
<1>2. CASE t.source = "origin"
  <2>1. t.chunk \in Chunks /\ t \in OriginTasks(t.chunk)
    BY <1>2 DEF OriginTasks, Task
  <2>2. \A u \in OriginTasks(t.chunk) : w[u] = 0
    BY <1>1, <2>1 DEF BackedIn, OriginTasks
  <2>3. \A d \in Chunks \ {t.chunk} : \A u \in OriginTasks(d) : w[u] = work[u]
    BY <1>1 DEF OriginTasks
  <2>4. BackedIn(org \ {t.chunk}, w)
    <3> SUFFICES ASSUME NEW d \in Chunks
                 PROVE  IF d \in org \ {t.chunk}
                        THEN \E v \in OriginTasks(d) : w[v] = 1 /\ \A u \in OriginTasks(d) \ {v} : w[u] = 0
                        ELSE \A u \in OriginTasks(d) : w[u] = 0
      BY DEF BackedIn
    <3>1. CASE d = t.chunk
      BY <2>2, <3>1
    <3>2. CASE d # t.chunk
      BY <2>3, <3>2 DEF BackedIn
    <3>3. QED
      BY <3>1, <3>2
  <2>5. QED
    BY <1>2, <2>4 DEF w
<1>3. CASE t.source # "origin"
  <2>1. \A d \in Chunks : \A u \in OriginTasks(d) : w[u] = work[u]
    BY <1>1, <1>3 DEF OriginTasks
  <2>2. BackedIn(org, w)
    BY <2>1 DEF BackedIn
  <2>3. QED
    BY <1>3, <2>2 DEF w
<1>4. QED
  BY <1>2, <1>3

-----------------------------------------------------------------------------
(***************************************************************************)
(* What a step does.  Either the handler ends in the scheduler's loops,    *)
(* run on a state s that it prepared: freed requests and claims given up.  *)
(* Retries lead from s to u, scheduleNext from u to r.  Or it moves at     *)
(* most one task and leaves the claims alone.                              *)
(***************************************************************************)
EndsIn(r) == inFlight' = r.inf /\ originInFlight' = r.org /\ tasks' = r.work

Frees(s, r) ==
    \A c \in Chunks :
        \/ s.inf[c] = inFlight[c]
        \/ /\ s.inf[c] = NoRequest
           /\ \/ c \in have'
              \/ r.inf[c] # NoRequest /\ r.inf[c].retries - inFlight[c].retries \in {1, 2}
              \/ c \in r.org

ScheduledFrom(s, u, r) ==
    /\ Schedules(s, u)
    /\ r \in ScheduleNext(u)
    /\ EndsIn(r)
    /\ Frees(s, r)
    /\ \A c \in Chunks \ Busy(inFlight) : u.inf[c] = NoRequest
    /\ \A c \in have' \cap Chunks : s.work[FetchTask(c)] <= tasks[FetchTask(c)]
    /\ BackedIn(originInFlight, tasks) => BackedIn(s.org, s.work)

ScheduledStep ==
    /\ phase = "stopped" => phase' = "stopped"
    /\ \E s, u, r \in SchedStates : ScheduledFrom(s, u, r)

MovesTask(old, new) ==
    /\ old # new /\ old.chunk = new.chunk /\ old.source = new.source
    /\ new.stage # "fetch" /\ tasks[old] > 0
    /\ tasks' = Spawn(Retire(tasks, old), new)

QuietStep ==
    /\ phase = "stopped" => phase' = "stopped"
    /\ have' = have
    /\ originInFlight' = originInFlight
    /\ \/ inFlight' = inFlight /\ tasks' = tasks
       \/ inFlight' = inFlight /\ \E old, new \in Task : MovesTask(old, new)
       \/ \E c \in Chunks, ok \in BOOLEAN :
             /\ inFlight' = [inFlight EXCEPT ![c] = NoRequest]
             /\ tasks' = Spawn(tasks, VerifyTask(c, "p2p", ok))
       \/ \E c \in Chunks : /\ inFlight' = [inFlight EXCEPT ![c] = NoRequest]
                            /\ tasks' = tasks /\ c \in rejected'
       \/ /\ inFlight' = inFlight
          /\ \E t \in Task : t.source = "p2p" /\ t.stage # "fetch" /\ tasks' = Retire(tasks, t)

\* scheduleNext alone, on a state in which no request was freed.
LEMMA SettleStep ==
    ASSUME TypeOK, NEW s \in SchedStates, open' \subseteq Peers,
           s.inf = inFlight,
           \A c \in have' \cap Chunks : s.work[FetchTask(c)] <= tasks[FetchTask(c)],
           BackedIn(originInFlight, tasks) => BackedIn(s.org, s.work),
           phase = "stopped" => phase' = "stopped",
           Settle(ScheduleNext(s))
    PROVE  ScheduledStep
<1>1. PICK r \in ScheduleNext(s) : EndsIn(r)
  BY DEF Settle, EndsIn
<1>2. r \in SchedStates
  BY ScheduleNextLemma
<1>3. Schedules(s, s) /\ Frees(s, r) /\ \A c \in Chunks \ Busy(inFlight) : s.inf[c] = NoRequest
  BY SchedulesNothing DEF Frees, Busy
<1>4. ScheduledFrom(s, s, r)
  BY <1>1, <1>3 DEF ScheduledFrom
<1>5. QED
  BY <1>2, <1>4 DEF ScheduledStep

\* A request that timed out, or the requests of a peer that left.
LEMMA RetriedStep ==
    ASSUME TypeOK, open' \subseteq Peers,
           NEW R \in SUBSET Busy(inFlight),
           NEW freed \in [Chunks -> Request \cup {NoRequest}],
           \A c \in Chunks : freed[c] = IF c \in R THEN NoRequest ELSE inFlight[c],
           NEW retries \in [R -> Nat],
           \A c \in R : retries[c] = inFlight[c].retries + 1,
           phase' = phase,
           Settle(UNION {ScheduleNext(u) :
               u \in ScheduleChunks(Sched(freed, originInFlight, tasks), R, retries)})
    PROVE  ScheduledStep
<1> DEFINE s == Sched(freed, originInFlight, tasks)
<1>1. /\ s \in SchedStates /\ s.inf = freed /\ s.org = originInFlight /\ s.work = tasks
  BY DEF Sched, SchedStates, TypeOK
<1>2. R \in SUBSET Chunks
  BY DEF Busy
<1>3. PICK u \in ScheduleChunks(s, R, retries) : Settle(ScheduleNext(u))
  BY DEF Settle
<1> HIDE DEF s
<1>4. PICK r \in ScheduleNext(u) : EndsIn(r)
  BY <1>3 DEF Settle, EndsIn
<1>5. /\ u \in SchedStates /\ Schedules(s, u) /\ FollowedUp(u, R, retries)
      /\ KeepsRequests(s.inf, u.inf, Chunks \ R)
  BY <1>1, <1>2, <1>3, ScheduleChunksLemma, ScheduleChunksSchedules
<1>6. r \in SchedStates /\ Schedules(u, r)
  BY <1>5, ScheduleNextLemma, ScheduleNextSchedules
<1>7. FollowedUp(r, R, retries)
  BY <1>2, <1>5, <1>6 DEF FollowedUp, Schedules
<1>8. Frees(s, r)
  <2> SUFFICES ASSUME NEW c \in R
               PROVE  /\ s.inf[c] = NoRequest
                      /\ \/ c \in have'
                         \/ r.inf[c] # NoRequest /\ r.inf[c].retries - inFlight[c].retries \in {1, 2}
                         \/ c \in r.org
    BY <1>1, <1>2 DEF Frees
  <2>1. inFlight[c] \in Request /\ retries[c] = inFlight[c].retries + 1 /\ c \in Chunks
    BY DEF TypeOK, Busy
  <2>2. inFlight[c].retries \in Int
    BY <2>1, CapsAssumption DEF Request
  <2>3. r.inf[c] # NoRequest => r.inf[c].retries \in Int
    BY <1>6, <2>1, CapsAssumption DEF SchedStates, Request
  <2>4. \/ c \in have' \/ c \in r.org
        \/ r.inf[c] # NoRequest /\ r.inf[c].retries - retries[c] \in {0, 1}
    BY <1>7 DEF FollowedUp
  <2>5. s.inf[c] = NoRequest
    BY <1>1, <2>1
  <2>6. QED
    BY <2>1, <2>2, <2>3, <2>4, <2>5
<1>9. \A c \in Chunks \ Busy(inFlight) : u.inf[c] = NoRequest
  BY <1>1, <1>5 DEF KeepsRequests, Busy
<1>10. \A c \in have' \cap Chunks : s.work[FetchTask(c)] <= tasks[FetchTask(c)]
  <2>1. \A c \in Chunks : FetchTask(c) \in Task
    BY DEF FetchTask, Task
  <2>2. QED
    BY <1>1, <2>1 DEF TypeOK
<1>11. ScheduledFrom(s, u, r)
  BY <1>1, <1>4, <1>5, <1>8, <1>9, <1>10 DEF ScheduledFrom
<1>12. QED
  BY <1>1, <1>5, <1>6, <1>11 DEF ScheduledStep

\* The end of a task.
LEMMA FinishedStep ==
    ASSUME TypeOK, open' \subseteq Peers,
           NEW org \in SUBSET Chunks, NEW work \in [Task -> Nat],
           \A c \in have' \cap Chunks : work[FetchTask(c)] <= tasks[FetchTask(c)],
           BackedIn(originInFlight, tasks) => BackedIn(org, work),
           NEW t \in Task, work[t] > 0,
           phase' = phase,
           Finish(t, org, work)
    PROVE  ScheduledStep
<1> DEFINE left == IF t.source = "origin" THEN org \ {t.chunk} ELSE org
           w == Retire(work, t)
           s == Sched(inFlight, left, w)
<1>1. w \in [Task -> Nat] /\ \A u \in Task : w[u] <= work[u]
  BY DEF Retire
<1>2. s \in SchedStates /\ s.inf = inFlight /\ s.org = left /\ s.work = w
  BY <1>1 DEF Sched, SchedStates, TypeOK
<1>3. Settle(ScheduleNext(s))
  BY DEF Finish
<1>4. BackedIn(originInFlight, tasks) => BackedIn(left, w)
  BY RetireBacked
<1>5. ASSUME NEW c \in have' \cap Chunks
      PROVE  w[FetchTask(c)] <= tasks[FetchTask(c)]
  <2>1. FetchTask(c) \in Task
    BY DEF FetchTask, Task
  <2>2. /\ w[FetchTask(c)] <= work[FetchTask(c)] /\ work[FetchTask(c)] <= tasks[FetchTask(c)]
        /\ w[FetchTask(c)] \in Nat /\ work[FetchTask(c)] \in Nat /\ tasks[FetchTask(c)] \in Nat
    BY <1>1, <2>1 DEF TypeOK
  <2>3. QED
    BY <2>2
<1> HIDE DEF s, left, w
<1>6. QED
  BY <1>2, <1>3, <1>4, <1>5, SettleStep

\* Every step but Stop is one of the two kinds.
LEMMA StepKinds ==
    ASSUME IInv, [Next]_vars
    PROVE  Stop \/ ScheduledStep \/ QuietStep
<1>a. TypeOK
  BY DEF IInv
<1>b. open' \subseteq Peers
  BY NextIInv DEF IInv, TypeOK
<1> DEFINE now == Sched(inFlight, originInFlight, tasks)
<1>c. /\ now \in SchedStates /\ now.inf = inFlight
      /\ now.org = originInFlight /\ now.work = tasks
  BY <1>a, SchedNow DEF Sched
<1>d. \A c \in Chunks : FetchTask(c) \in Task /\ tasks[FetchTask(c)] \in Nat
  BY <1>a DEF FetchTask, Task, TypeOK
<1>e. ASSUME Reschedule, phase = "stopped" => phase' = "stopped" PROVE ScheduledStep
  <2>1. Settle(ScheduleNext(now))
    BY <1>e DEF Reschedule
  <2> HIDE DEF now
  <2>2. QED
    BY <1>a, <1>b, <1>c, <1>d, <1>e, <2>1, SettleStep
<1>f. ASSUME UNCHANGED <<phase, have, inFlight, originInFlight, tasks>>
      PROVE  QuietStep
  BY <1>f DEF QuietStep
<1>1. CASE Start
  BY <1>1, <1>e DEF Start
<1>2. CASE Stop
  BY <1>2
<1>3. ASSUME NEW p \in Peers, NEW S \in SUBSET Chunks, UpdatePeerBitfield(p, S)
      PROVE  ScheduledStep
  BY <1>3, <1>e DEF UpdatePeerBitfield
<1>4. ASSUME NEW p \in Peers, NEW c \in Chunks, UpdatePeerHave(p, c)
      PROVE  ScheduledStep
  BY <1>4, <1>e DEF UpdatePeerHave
<1>5. ASSUME NEW p \in Peers, NEW isChoked \in BOOLEAN, SetPeerChoked(p, isChoked)
      PROVE  ScheduledStep \/ QuietStep
  BY <1>5, <1>e, <1>f DEF SetPeerChoked, NoScheduling, diskVars
<1>6. ASSUME NEW p \in Peers, RemovePeer(p)
      PROVE  ScheduledStep
  <2> DEFINE lost    == {c \in Chunks : inFlight[c].peer = p}
             freed   == [c \in Chunks |-> IF c \in lost THEN NoRequest ELSE inFlight[c]]
             retries == [c \in lost |-> inFlight[c].retries + 1]
  <2>1. freed \in [Chunks -> Request \cup {NoRequest}]
    BY <1>a DEF TypeOK
  <2>2. retries \in [lost -> Nat]
    <3> SUFFICES ASSUME NEW c \in lost PROVE inFlight[c].retries + 1 \in Nat
      OBVIOUS
    <3>1. inFlight[c] \in Request
      BY <1>a, PeersAssumption DEF TypeOK, NoRequest
    <3>2. QED
      BY <3>1, CapsAssumption DEF Request
  <2>3. Settle(UNION {ScheduleNext(u) :
            u \in ScheduleChunks(Sched(freed, originInFlight, tasks), lost, retries)})
    BY <1>6 DEF RemovePeer
  <2>4. lost \in SUBSET Busy(inFlight)
    BY PeersAssumption DEF Busy, NoRequest
  <2>5. /\ \A c \in Chunks : freed[c] = IF c \in lost THEN NoRequest ELSE inFlight[c]
        /\ \A c \in lost : retries[c] = inFlight[c].retries + 1
        /\ phase' = phase
    BY <1>6 DEF RemovePeer
  <2> HIDE DEF lost, freed, retries
  <2>6. QED
    BY <1>a, <1>b, <2>1, <2>2, <2>3, <2>4, <2>5, RetriedStep
<1>7. ASSUME NEW p \in Peers, ChannelOpens(p) \/ ChannelFails(p)
      PROVE  QuietStep
  BY <1>7, <1>f DEF ChannelOpens, ChannelFails, NoScheduling, diskVars
<1>8. ASSUME NEW c \in Chunks, NEW b \in Blocks, NEW ok \in BOOLEAN, HandleBlock(c, b, ok)
      PROVE  QuietStep
  BY <1>8, <1>f DEF HandleBlock, NoScheduling, diskVars
<1>9. ASSUME NEW c \in Chunks, NEW b \in Blocks, NEW ok \in BOOLEAN, HandleLastBlock(c, b, ok)
      PROVE  QuietStep
  <2> DEFINE whole == \A e \in reassembly[c] \cup {<<b, ok>>} : e[2]
  <2>1. /\ inFlight' = [inFlight EXCEPT ![c] = NoRequest]
        /\ tasks' = Spawn(tasks, VerifyTask(c, "p2p", whole))
        /\ UNCHANGED <<phase, have, originInFlight>>
    BY <1>9 DEF HandleLastBlock, diskVars
  <2>2. whole \in BOOLEAN
    OBVIOUS
  <2> HIDE DEF whole
  <2>3. QED
    BY <2>1, <2>2 DEF QuietStep
<1>o. ASSUME NEW c \in Chunks, HandleOverrun(c)
      PROVE  QuietStep
  BY <1>o DEF HandleOverrun, QuietStep, diskVars
<1>10. ASSUME NEW c \in Chunks, HandleTimeout(c)
       PROVE  ScheduledStep
  <2> DEFINE freed   == [inFlight EXCEPT ![c] = NoRequest]
             retries == [d \in {c} |-> inFlight[d].retries + 1]
  <2>1. freed \in [Chunks -> Request \cup {NoRequest}]
    BY <1>a DEF TypeOK
  <2>2. retries \in [{c} -> Nat]
    <3>1. inFlight[c] \in Request
      BY <1>a, <1>10 DEF TypeOK, HandleTimeout
    <3>2. inFlight[c].retries + 1 \in Nat
      BY <3>1, CapsAssumption DEF Request
    <3>3. QED
      BY <3>2
  <2>3. Settle(UNION {ScheduleNext(u) :
            u \in ScheduleChunks(Sched(freed, originInFlight, tasks), {c}, retries)})
    BY <1>10 DEF HandleTimeout
  <2>4. {c} \in SUBSET Busy(inFlight) /\ phase' = phase
    BY <1>10 DEF HandleTimeout, Busy
  <2>5. /\ \A d \in Chunks : freed[d] = IF d \in {c} THEN NoRequest ELSE inFlight[d]
        /\ \A d \in {c} : retries[d] = inFlight[d].retries + 1
    BY <1>a DEF TypeOK
  <2> HIDE DEF freed, retries
  <2>6. QED
    BY <1>a, <1>b, <2>1, <2>2, <2>3, <2>4, <2>5, RetriedStep
<1>g. ASSUME NEW t \in Task, tasks[t] > 0, phase' = phase, Finish(t, originInFlight, tasks)
      PROVE  ScheduledStep
  <2>1. originInFlight \in SUBSET Chunks /\ tasks \in [Task -> Nat]
    BY <1>a DEF TypeOK
  <2>2. QED
    BY <1>a, <1>b, <1>d, <1>g, <2>1, FinishedStep
<1>11. ASSUME NEW c \in Chunks, FetchRejects(c)
       PROVE  ScheduledStep
  BY <1>11, <1>d, <1>g DEF FetchRejects, Pending
<1>h. ASSUME NEW old \in Task, NEW new \in Task, MovesTask(old, new),
             UNCHANGED <<phase, have, inFlight, originInFlight>>
      PROVE  QuietStep
  BY <1>h DEF QuietStep
<1>12. ASSUME NEW c \in Chunks, NEW ok \in BOOLEAN, FetchResolves(c, ok)
       PROVE  QuietStep
  <2> DEFINE v == VerifyTask(c, "origin", ok)
             f == FetchTask(c)
  <2>1. /\ v \in Task /\ f \in Task /\ v # f /\ v.chunk = f.chunk /\ v.source = f.source
        /\ v.stage # "fetch"
    BY DEF Task, VerifyTask, FetchTask
  <2>2. /\ tasks' = Spawn(Retire(tasks, f), v) /\ tasks[f] > 0
        /\ UNCHANGED <<phase, have, inFlight, originInFlight>>
    BY <1>12 DEF FetchResolves, Pending, diskVars
  <2> HIDE DEF v, f
  <2>3. QED
    BY <1>h, <2>1, <2>2 DEF MovesTask
<1>13. ASSUME NEW t \in Task, VerifyAccepts(t)
       PROVE  QuietStep
  <2> DEFINE w == PutTask(t)
  <2>1. /\ w \in Task /\ w # t /\ w.source = t.source /\ w.chunk = t.chunk
        /\ w.stage # "fetch"
    BY <1>13 DEF VerifyAccepts, PutTask, Task
  <2>2. /\ tasks' = Spawn(Retire(tasks, t), w) /\ tasks[t] > 0
        /\ UNCHANGED <<phase, have, inFlight, originInFlight>>
    BY <1>13 DEF VerifyAccepts, Pending, diskVars
  <2> HIDE DEF w
  <2>3. QED
    BY <1>h, <2>1, <2>2 DEF MovesTask
<1>14. ASSUME NEW t \in Task, VerifyRejects(t)
       PROVE  ScheduledStep
  <2> DEFINE s == ToOrigin(now, {t.chunk})
  <2>1. {t.chunk} \in SUBSET Chunks /\ {t.chunk} \cap Chunks = {t.chunk}
    BY DEF Task
  <2>2. /\ Finish(t, s.org, s.work) /\ tasks[t] > 0 /\ t.stage = "verify"
        /\ phase' = phase
    BY <1>14 DEF VerifyRejects, Pending
  <2> HIDE DEF now
  <2>3. s \in SchedStates /\ OnlyFetches(tasks, s.work) /\ Schedules(now, s)
    BY <1>c, <2>1, ToOriginLemma, ToOriginSchedules
  <2> HIDE DEF s
  <2>4. BackedIn(originInFlight, tasks) => BackedIn(s.org, s.work)
    BY <1>c, <2>3, SchedulesBacked
  <2>5. s.org \in SUBSET Chunks /\ s.work \in [Task -> Nat] /\ s.work[t] > 0
    BY <2>2, <2>3 DEF SchedStates, OnlyFetches
  <2>6. ASSUME NEW c \in have' \cap Chunks
        PROVE  s.work[FetchTask(c)] <= tasks[FetchTask(c)]
    <3>1. FetchTask(c).chunk = c
      BY DEF FetchTask
    <3>2. s.work[FetchTask(c)] = tasks[FetchTask(c)]
      BY <1>c, <1>d, <2>3, <3>1 DEF Schedules
    <3>3. QED
      BY <1>d, <3>2
  <2>7. QED
    BY <1>a, <1>b, <2>2, <2>4, <2>5, <2>6, FinishedStep
<1>15. ASSUME NEW t \in Task, PutSucceeds(t)
       PROVE  ScheduledStep
  BY <1>15, <1>g DEF PutSucceeds, Pending
<1>16. ASSUME NEW t \in Task, TaskRejects(t)
       PROVE  ScheduledStep \/ QuietStep
  <2>1. CASE t.source = "origin"
    BY <1>16, <1>g, <2>1 DEF TaskRejects, Pending
  <2>2. CASE t.source # "origin"
    <3>1. t.source = "p2p" /\ t.stage # "fetch"
      BY <1>16, <2>2 DEF TaskRejects, Task
    <3>2. /\ tasks' = Retire(tasks, t)
          /\ UNCHANGED <<phase, have, inFlight, originInFlight>>
      BY <1>16, <2>2 DEF TaskRejects, diskVars
    <3>3. QED
      BY <3>1, <3>2 DEF QuietStep
  <2>3. QED
    BY <2>1, <2>2
<1>17. CASE UNCHANGED vars
  BY <1>17, <1>f DEF vars
<1>18. QED
  BY <1>1, <1>2, <1>3, <1>4, <1>5, <1>6, <1>7, <1>8, <1>9, <1>o, <1>10, <1>11, <1>12, <1>13,
     <1>14, <1>15, <1>16, <1>17 DEF Next, PeerEvent, BlockArrives, Settles

-----------------------------------------------------------------------------
\* The claims of the origin, in the state as it is: before stop() they are backed
\* in "new" as well as in "running".
CInv == IInv /\ (phase # "stopped" => BackedIn(originInFlight, tasks))

LEMMA NextCInv == CInv /\ [Next]_vars => CInv'
<1> SUFFICES ASSUME CInv, [Next]_vars, phase' # "stopped"
             PROVE  BackedIn(originInFlight', tasks')
  <2>1. CInv /\ [Next]_vars => IInv'
    BY NextIInv DEF CInv
  <2>2. BackedIn(originInFlight, tasks)' <=> BackedIn(originInFlight', tasks')
    BY DEF BackedIn, OriginTasks
  <2>3. QED
    BY <2>1, <2>2 DEF CInv
<1>1. IInv
  BY DEF CInv
<1>2. tasks \in [Task -> Nat] /\ originInFlight \in SUBSET Chunks
  BY <1>1 DEF IInv, TypeOK
<1>3. CASE Stop
  BY <1>3 DEF Stop
<1>4. CASE ScheduledStep
  <2>1. PICK s \in SchedStates, u \in SchedStates, r \in SchedStates : ScheduledFrom(s, u, r)
    BY <1>4 DEF ScheduledStep
  <2>2. BackedIn(s.org, s.work)
    BY <1>4, <2>1 DEF CInv, ScheduledStep, ScheduledFrom
  <2>3. BackedIn(u.org, u.work)
    BY <2>1, <2>2, SchedulesBacked DEF ScheduledFrom
  <2>4. open' \subseteq Peers
    BY <1>1, NextIInv DEF IInv, TypeOK
  <2>5. BackedIn(r.org, r.work)
    BY <2>1, <2>3, <2>4, ScheduleNextSchedules, SchedulesBacked DEF ScheduledFrom
  <2>6. QED
    BY <2>1, <2>5 DEF ScheduledFrom, EndsIn
<1>5. CASE QuietStep
  <2>1. BackedIn(originInFlight, tasks) /\ originInFlight' = originInFlight
    BY <1>5 DEF CInv, QuietStep
  <2>2. CASE tasks' = tasks
    BY <2>1, <2>2
  <2>3. ASSUME NEW old \in Task, NEW new \in Task, MovesTask(old, new)
        PROVE  BackedIn(originInFlight, tasks')
    <3>1. CASE old.source = "origin"
      <4>1. /\ old \in OriginTasks(old.chunk) /\ new \in OriginTasks(old.chunk)
            /\ old.chunk \in Chunks
        BY <2>3, <3>1 DEF MovesTask, OriginTasks, Task
      <4>2. QED
        BY <1>2, <2>1, <2>3, <4>1, AdvanceBacked DEF MovesTask
    <3>2. CASE old.source # "origin"
      <4>1. \A t \in Task : t.source = "origin" => tasks'[t] = tasks[t]
        BY <1>2, <2>3, <3>2 DEF MovesTask, Spawn, Retire
      <4>2. QED
        BY <2>1, <4>1 DEF BackedIn, OriginTasks
    <3>3. QED
      BY <3>1, <3>2
  <2>4. ASSUME NEW c \in Chunks, NEW ok \in BOOLEAN,
               tasks' = Spawn(tasks, VerifyTask(c, "p2p", ok))
        PROVE  BackedIn(originInFlight, tasks')
    <3>1. \A t \in Task : t.source = "origin" => tasks'[t] = tasks[t]
      BY <1>2, <2>4 DEF Spawn, VerifyTask
    <3>2. QED
      BY <2>1, <3>1 DEF BackedIn, OriginTasks
  <2>5. ASSUME NEW t \in Task, t.source = "p2p", tasks' = Retire(tasks, t)
        PROVE  BackedIn(originInFlight, tasks')
    <3>1. \A u \in Task : u.source = "origin" => tasks'[u] = tasks[u]
      BY <1>2, <2>5 DEF Retire
    <3>2. QED
      BY <2>1, <3>1 DEF BackedIn, OriginTasks
  <2>6. QED
    BY <1>5, <2>1, <2>2, <2>3, <2>4, <2>5 DEF QuietStep
<1>6. QED
  BY <1>1, <1>3, <1>4, <1>5, StepKinds

\* A claim for the origin neither leaks nor is lost: while the scheduler runs, a
\* chunk is claimed exactly when one origin download of it is at one of its
\* awaits, for every order in which fetches, digests and writes settle.
THEOREM ClaimsAreBacked == Spec => []OriginClaimsBacked
<1>1. Init => CInv
  <2>1. Init => BackedIn(originInFlight, tasks)
    BY DEF Init, BackedIn, OriginTasks
  <2>2. QED
    BY <2>1, InitIInv DEF CInv
<1>2. CInv => OriginClaimsBacked
  BY DEF CInv, BackedIn, OriginClaimsBacked
<1>3. QED
  BY <1>1, <1>2, NextCInv, PTL DEF Spec

\* A chunk already held is never asked for again: requests of before its last
\* bytes came keep what they are, and no fetch of it starts.
THEOREM NeverRefetched == Spec => HeldNeverRefetched
<1> DEFINE Step ==
        \A c \in have' :
            /\ inFlight'[c] # NoRequest => inFlight'[c] = inFlight[c]
            /\ tasks'[FetchTask(c)] <= tasks[FetchTask(c)]
<1>1. ASSUME IInv, [Next]_vars PROVE Step
  <2> SUFFICES ASSUME NEW c \in have'
               PROVE  /\ inFlight'[c] # NoRequest => inFlight'[c] = inFlight[c]
                      /\ tasks'[FetchTask(c)] <= tasks[FetchTask(c)]
    OBVIOUS
  <2>1. IInv'
    BY <1>1, NextIInv
  <2>2. c \in Chunks /\ open' \subseteq Peers
    BY <2>1 DEF IInv, TypeOK
  <2> DEFINE f == FetchTask(c)
  <2>3. f \in Task /\ f.chunk = c /\ f.source = "origin" /\ f.stage = "fetch"
    BY <2>2 DEF FetchTask, Task
  <2>4. /\ tasks \in [Task -> Nat] /\ tasks' \in [Task -> Nat]
        /\ tasks[f] \in Nat /\ tasks'[f] \in Nat
        /\ inFlight \in [Chunks -> Request \cup {NoRequest}]
    BY <1>1, <2>1, <2>3 DEF IInv, TypeOK
  <2>5. CASE Stop
    BY <2>2, <2>4, <2>5 DEF Stop
  <2>6. CASE ScheduledStep
    <3>1. PICK s \in SchedStates, u \in SchedStates, r \in SchedStates : ScheduledFrom(s, u, r)
      BY <2>6 DEF ScheduledStep
    <3>2. Schedules(s, u) /\ Schedules(u, r)
      BY <2>2, <3>1, ScheduleNextSchedules DEF ScheduledFrom
    <3>3. Schedules(s, r)
      BY <3>2, SchedulesTransitive
    <3>4. r.inf[c] = s.inf[c] /\ r.work[f] = s.work[f]
      BY <2>2, <2>3, <3>3 DEF Schedules
    <3>5. s.work[f] <= tasks[f] /\ (s.inf[c] = inFlight[c] \/ s.inf[c] = NoRequest)
      BY <2>2, <3>1 DEF ScheduledFrom, Frees
    <3>6. QED
      BY <3>1, <3>4, <3>5 DEF ScheduledFrom, EndsIn
  <2>7. CASE QuietStep
    <3>1. inFlight' = inFlight \/ \E d \in Chunks : inFlight' = [inFlight EXCEPT ![d] = NoRequest]
      BY <2>7 DEF QuietStep
    <3>2. inFlight'[c] # NoRequest => inFlight'[c] = inFlight[c]
      BY <2>2, <2>4, <3>1
    <3>3. CASE tasks' = tasks
      BY <2>4, <3>2, <3>3
    <3>4. ASSUME NEW old \in Task, NEW new \in Task, MovesTask(old, new)
          PROVE  tasks'[f] <= tasks[f]
      <4>1. new # f
        BY <2>3, <3>4 DEF MovesTask
      <4> HIDE DEF f
      <4>2. QED
        BY <2>3, <2>4, <3>4, <4>1 DEF MovesTask, Spawn, Retire
    <3>5. ASSUME NEW d \in Chunks, NEW ok \in BOOLEAN,
                 tasks' = Spawn(tasks, VerifyTask(d, "p2p", ok))
          PROVE  tasks'[f] <= tasks[f]
      <4>1. VerifyTask(d, "p2p", ok) # f
        BY <2>3 DEF VerifyTask
      <4> HIDE DEF f
      <4>2. QED
        BY <2>3, <2>4, <3>5, <4>1 DEF Spawn
    <3>6. ASSUME NEW t \in Task, t.stage # "fetch", tasks' = Retire(tasks, t)
          PROVE  tasks'[f] <= tasks[f]
      <4>1. t # f
        BY <2>3, <3>6
      <4> HIDE DEF f
      <4>2. QED
        BY <2>3, <2>4, <3>6, <4>1 DEF Retire
    <3>7. QED
      BY <2>7, <3>2, <3>3, <3>4, <3>5, <3>6 DEF QuietStep
  <2>8. QED
    BY <1>1, <2>5, <2>6, <2>7, StepKinds
<1>2. IInv /\ [Next]_vars => [Step]_vars
  BY <1>1
<1>3. QED
  BY <1>2, Invariance, PTL DEF Spec, HeldNeverRefetched

\* A request that ends is followed up in the same callback, whatever ended it, a
\* timeout, the departure of the peer or its last block, and whichever sends
\* fail or throw on the way; only blocks that do not fit end it in nothing.
THEOREM LostRequestsMoveOn == Spec => LostRequestMovesOn
<1> DEFINE Step ==
        \A c \in Busy(inFlight) :
            inFlight'[c] # inFlight[c] /\ phase' = "running" =>
               \/ c \in have'
               \/ inFlight'[c].retries - inFlight[c].retries \in {1, 2}
               \/ c \in originInFlight'
               \/ \E ok \in BOOLEAN :
                     tasks'[VerifyTask(c, "p2p", ok)] > tasks[VerifyTask(c, "p2p", ok)]
               \/ inFlight'[c] = NoRequest /\ c \in rejected'
<1>1. ASSUME IInv, [Next]_vars PROVE Step
  <2> SUFFICES ASSUME NEW c \in Busy(inFlight), inFlight'[c] # inFlight[c], phase' = "running"
               PROVE  \/ c \in have'
                      \/ inFlight'[c].retries - inFlight[c].retries \in {1, 2}
                      \/ c \in originInFlight'
                      \/ \E ok \in BOOLEAN :
                            tasks'[VerifyTask(c, "p2p", ok)] > tasks[VerifyTask(c, "p2p", ok)]
                      \/ inFlight'[c] = NoRequest /\ c \in rejected'
    OBVIOUS
  <2>1. c \in Chunks /\ inFlight[c] # NoRequest
    BY DEF Busy
  <2>2. open' \subseteq Peers
    BY <1>1, NextIInv DEF IInv, TypeOK
  <2>3. tasks \in [Task -> Nat] /\ inFlight \in [Chunks -> Request \cup {NoRequest}]
    BY <1>1 DEF IInv, TypeOK
  <2>4. CASE Stop
    BY <2>4 DEF Stop
  <2>5. CASE ScheduledStep
    <3>1. PICK s \in SchedStates, u \in SchedStates, r \in SchedStates : ScheduledFrom(s, u, r)
      BY <2>5 DEF ScheduledStep
    <3>2. Schedules(s, r)
      BY <2>2, <3>1, ScheduleNextSchedules, SchedulesTransitive DEF ScheduledFrom
    <3>3. s.inf[c] = inFlight[c] => r.inf[c] = inFlight[c]
      BY <2>1, <3>2 DEF Schedules
    <3>4. QED
      BY <2>1, <3>1, <3>3 DEF ScheduledFrom, EndsIn, Frees
  <2>6. CASE QuietStep
    <3>0. CASE \E d \in Chunks : /\ inFlight' = [inFlight EXCEPT ![d] = NoRequest]
                                /\ d \in rejected'
      BY <2>1, <2>3, <3>0
    <3>1. ASSUME NEW d \in Chunks, NEW ok \in BOOLEAN,
                 inFlight' = [inFlight EXCEPT ![d] = NoRequest],
                 tasks' = Spawn(tasks, VerifyTask(d, "p2p", ok))
          PROVE  tasks'[VerifyTask(c, "p2p", ok)] > tasks[VerifyTask(c, "p2p", ok)]
      <4>1. d = c
        BY <2>1, <2>3, <3>1
      <4> DEFINE v == VerifyTask(c, "p2p", ok)
      <4>2. v \in Task
        BY <2>1 DEF VerifyTask, Task
      <4>3. tasks' = Spawn(tasks, v)
        BY <3>1, <4>1
      <4> HIDE DEF v
      <4>4. tasks'[v] = tasks[v] + 1 /\ tasks[v] \in Nat
        BY <2>3, <4>2, <4>3 DEF Spawn
      <4>5. tasks'[v] > tasks[v]
        BY <4>4
      <4>6. QED
        BY <4>5 DEF v
    <3>2. QED
      BY <2>6, <3>0, <3>1 DEF QuietStep
  <2>7. QED
    BY <1>1, <2>4, <2>5, <2>6, StepKinds
<1>2. IInv /\ [Next]_vars => [Step]_vars
  BY <1>1
<1>3. QED
  BY <1>2, Invariance, PTL DEF Spec, LostRequestMovesOn

-----------------------------------------------------------------------------
(***************************************************************************)
(* The caps.  The loops count what is planned before each chunk; that the  *)
(* whole plan stays within the caps is an argument about its last chunk.   *)
(***************************************************************************)
TotalOrder(ord, B) ==
    /\ \A x \in B : <<x, x>> \notin ord
    /\ \A x, y \in B : x # y => <<x, y>> \in ord \/ <<y, x>> \in ord
    /\ \A x, y, z \in B : <<x, y>> \in ord /\ <<y, z>> \in ord => <<x, z>> \in ord

\* All others come before the last element of a finite, totally ordered set.
LEMMA LastElement ==
    ASSUME NEW B, IsFiniteSet(B), B # {}, NEW ord, TotalOrder(ord, B)
    PROVE  \E x \in B : Cardinality({d \in B : <<d, x>> \in ord}) = Cardinality(B) - 1
<1> DEFINE before(x) == {d \in B : <<d, x>> \in ord}
           after(x) == Cardinality(B) - Cardinality(before(x))
           T == {after(x) : x \in B}
<1>1. Cardinality(B) \in Nat
  BY FS_CardinalityType
<1>2. \A x \in B : IsFiniteSet(before(x)) /\ Cardinality(before(x)) \in Nat
                   /\ Cardinality(before(x)) <= Cardinality(B)
  BY FS_Subset, FS_CardinalityType
<1>3. T \subseteq Nat /\ T # {}
  <2>1. \A x \in B : after(x) \in Nat
    <3> HIDE DEF before
    <3>1. QED
      BY <1>1, <1>2
  <2> HIDE DEF after
  <2>2. QED
    BY <2>1
<1>4. PICK n \in T : \A m \in T : ~(<<m, n>> \in OpToRel(<, Nat))
  BY <1>3, NatLessThanWellFounded, WFMin
<1>5. \A m \in T : ~(m < n)
  BY <1>3, <1>4 DEF OpToRel
<1>6. PICK x \in B : n = after(x)
  OBVIOUS
<1>7. ASSUME NEW y \in B, y # x PROVE <<y, x>> \in ord
  <2> SUFFICES ASSUME <<x, y>> \in ord PROVE FALSE
    BY <1>7 DEF TotalOrder
  <2>1. before(x) \cup {x} \subseteq before(y) /\ x \notin before(x)
    BY DEF TotalOrder
  <2>2. Cardinality(before(x) \cup {x}) = Cardinality(before(x)) + 1
    BY <1>2, <2>1, FS_AddElement
  <2>3. Cardinality(before(x) \cup {x}) <= Cardinality(before(y))
    <3> HIDE DEF before
    <3>1. QED
      BY <1>2, <2>1, FS_Subset
  <2>4. after(y) < after(x)
    <3> HIDE DEF before
    <3>1. QED
      BY <1>1, <1>2, <2>2, <2>3
  <2>5. QED
    BY <1>5, <1>6, <2>4
<1>8. before(x) = B \ {x}
  BY <1>7 DEF TotalOrder
<1>9. Cardinality(B \ {x}) = Cardinality(B) - 1
  BY FS_RemoveElement
<1>10. QED
  BY <1>8, <1>9

LEMMA RarestFirstOrder ==
    ASSUME NEW A \in SUBSET Chunks
    PROVE  TotalOrder(RarestFirst(A), A)
<1> DEFINE rarity(c) == Cardinality(Eligible(c))
<1>1. A \subseteq Nat
  BY ChunksAssumption
<1>2. \A c : rarity(c) \in Nat
  BY PeersAssumption, FS_Subset, FS_CardinalityType DEF Eligible
<1>3. \A c, d \in A : <<c, d>> \in RarestFirst(A) <=>
          rarity(c) < rarity(d) \/ (rarity(c) = rarity(d) /\ c < d)
  BY DEF RarestFirst
<1> HIDE DEF rarity
<1>4. QED
  BY <1>1, <1>2, <1>3 DEF TotalOrder

LEMMA IndexOrder ==
    ASSUME NEW A \in SUBSET Chunks
    PROVE  TotalOrder({e \in A \X A : e[1] < e[2]}, A)
<1>1. A \subseteq Nat
  BY ChunksAssumption
<1>2. QED
  BY <1>1 DEF TotalOrder

\* Sets of chunks are finite.
LEMMA ChunksFinite ==
    ASSUME NEW S \in SUBSET Chunks
    PROVE  IsFiniteSet(S) /\ Cardinality(S) \in Nat
BY ChunksAssumption, FS_Subset, FS_CardinalityType

\* The plan of the first loop asks for no more chunks than there is room.
LEMMA PlanWithinRoom ==
    ASSUME NEW s \in SchedStates, NEW A \in SUBSET Chunks,
           NEW plan \in GreedyPlans(s, A), Room(s) > 0, Room(s) \in Int
    PROVE  Cardinality({c \in A : plan[1][c] # Nobody}) <= Room(s)
<1> DEFINE a == plan[1]
           B == {c \in A : a[c] # Nobody}
           ord == RarestFirst(A)
<1>1. B \in SUBSET Chunks /\ IsFiniteSet(B) /\ Cardinality(B) \in Nat
  BY ChunksFinite
<1>2. CASE B = {}
  <2>1. Cardinality(B) = 0
    BY <1>2, FS_EmptySet
  <2>2. QED
    BY <2>1
<1>3. CASE B # {}
  <2>1. TotalOrder(ord, B)
    BY RarestFirstOrder DEF TotalOrder
  <2> DEFINE first(x) == {d \in B : <<d, x>> \in ord}
  <2>2. PICK x \in B : Cardinality(first(x)) = Cardinality(B) - 1
    <3> HIDE DEF B, ord
    <3>1. QED
      BY <1>1, <1>3, <2>1, LastElement
  <2>3. first(x) = {d \in A : <<d, x>> \in ord /\ a[d] # Nobody}
    OBVIOUS
  <2>4. ~(Room(s) <= Cardinality({d \in A : <<d, x>> \in ord /\ a[d] # Nobody}))
    BY DEF GreedyPlans
  <2>5. ~(Room(s) <= Cardinality(B) - 1)
    BY <2>2, <2>3, <2>4
  <2> HIDE DEF B
  <2>6. QED
    BY <1>1, <2>5 DEF B
<1>4. QED
  BY <1>2, <1>3

\* Nor does it ask one peer for more than its cap.
LEMMA PlanWithinLoad ==
    ASSUME NEW s \in SchedStates, NEW A \in SUBSET Chunks,
           NEW plan \in GreedyPlans(s, A), NEW p \in Peers,
           NEW c \in Asked(plan[1], plan[2], [d \in A |-> 0]), plan[1][c] = p
    PROVE  LET asked == Asked(plan[1], plan[2], [d \in A |-> 0])
           IN  Load(s.inf, p) + Cardinality({d \in asked : plan[1][d] = p}) <= MaxInFlightPerPeer
<1> DEFINE a == plan[1]
           Q == Asked(a, plan[2], [d \in A |-> 0])
           P == {d \in Q : a[d] = p}
           ord == RarestFirst(A)
           L == Load(s.inf, p)
<1>5. DOMAIN a = A /\ Q \subseteq A
  BY DEF GreedyPlans, Asked
<1>1. P \in SUBSET Chunks /\ IsFiniteSet(P) /\ Cardinality(P) \in Nat /\ P # {}
  <2>1. P \in SUBSET Chunks /\ c \in P
    BY <1>5
  <2> HIDE DEF P
  <2>2. QED
    BY <2>1, ChunksFinite
<1>2. L \in Nat
  BY ChunksFinite DEF Load
<1>3. TotalOrder(ord, P)
  <2>1. P \subseteq A /\ TotalOrder(ord, A)
    BY <1>5, RarestFirstOrder
  <2> HIDE DEF P, ord
  <2>2. QED
    BY <2>1 DEF TotalOrder
<1> DEFINE first(x) == {d \in P : <<d, x>> \in ord}
<1>4. PICK x \in P : Cardinality(first(x)) = Cardinality(P) - 1
  <2> HIDE DEF P, ord
  <2>1. QED
    BY <1>1, <1>3, LastElement
<1>6. first(x) = {d \in Q : <<d, x>> \in ord /\ a[d] = p}
  OBVIOUS
<1>7. PlannedLoad(s, a, Q, ord, x, p) = L + Cardinality(P) - 1
  <2>1. PlannedLoad(s, a, Q, ord, x, p) = L + Cardinality(first(x))
    BY <1>6 DEF PlannedLoad
  <2> HIDE DEF P, L, ord, first
  <2>2. QED
    BY <1>1, <1>2, <1>4, <2>1
<1>8. PlannedLoad(s, a, Q, ord, x, p) < MaxInFlightPerPeer
  <2> DEFINE below == {q \in Eligible(x) : PlannedLoad(s, a, Q, ord, x, q) < MaxInFlightPerPeer}
             taken == Cardinality({d \in A : <<d, x>> \in ord /\ a[d] # Nobody})
  <2>1. x \in A /\ a[x] = p /\ a[x] # Nobody
    BY <1>5, PeersAssumption
  <2>2. IF below = {} \/ Room(s) <= taken THEN a[x] = Nobody
                                          ELSE a[x] \in LeastLoaded(s, a, Q, ord, x, below)
    BY <2>1 DEF GreedyPlans
  <2> HIDE DEF Q, taken
  <2>3. p \in below
    BY <2>1, <2>2 DEF LeastLoaded
  <2>4. QED
    BY <2>3
<1> HIDE DEF P, L, ord
<1>9. QED
  BY <1>1, <1>2, <1>7, <1>8, CapsAssumption DEF P, L

\* Nor does the second loop claim more chunks than there is room left.
LEMMA SeedWithinRoom ==
    ASSUME NEW Z \in SUBSET Chunks, NEW room \in Int, room >= 0
    PROVE  LET G == {c \in Z : Cardinality({d \in Z : d < c}) < room}
           IN  Cardinality(G) <= room
<1> DEFINE G == {c \in Z : Cardinality({d \in Z : d < c}) < room}
           ord == {e \in G \X G : e[1] < e[2]}
<1>1. G \in SUBSET Chunks /\ IsFiniteSet(G) /\ Cardinality(G) \in Nat
  BY ChunksFinite
<1>2. CASE G = {}
  <2>1. Cardinality(G) = 0
    BY <1>2, FS_EmptySet
  <2>2. QED
    BY <2>1
<1>3. CASE G # {}
  <2>1. TotalOrder(ord, G)
    <3> HIDE DEF G
    <3>1. QED
      BY <1>1, IndexOrder
  <2> DEFINE first(x) == {d \in G : <<d, x>> \in ord}
  <2>2. PICK x \in G : Cardinality(first(x)) = Cardinality(G) - 1
    <3> HIDE DEF G, ord
    <3>1. QED
      BY <1>1, <1>3, <2>1, LastElement
  <2>3. first(x) \subseteq {d \in Z : d < x}
    OBVIOUS
  <2>4. /\ IsFiniteSet({d \in Z : d < x}) /\ Cardinality({d \in Z : d < x}) \in Nat
    BY ChunksFinite
  <2>5. Cardinality(first(x)) <= Cardinality({d \in Z : d < x})
    <3> HIDE DEF first
    <3>1. QED
      BY <2>3, <2>4, FS_Subset
  <2>6. Cardinality({d \in Z : d < x}) < room
    OBVIOUS
  <2> HIDE DEF first, G
  <2>7. QED
    BY <1>1, <2>2, <2>4, <2>5, <2>6 DEF G
<1>4. QED
  BY <1>2, <1>3

LEMMA ScheduleNextCaps ==
    ASSUME NEW s \in SchedStates, open' \subseteq Peers,
           NEW r \in ScheduleNext(s),
           NEW c \in Chunks, r.inf[c] # s.inf[c]
    PROVE  /\ Cardinality(Busy(r.inf)) + Cardinality(r.org) <= MaxTotalInFlight
           /\ Load(r.inf, r.inf[c].peer) <= MaxInFlightPerPeer
<1> DEFINE missing == {d \in Chunks \ have' : s.inf[d] = NoRequest /\ d \notin s.org}
           held == {d \in missing : Eligible(d) # {}}
           zero == [d \in held |-> 0]
<1>1. ~(phase' # "running" \/ have' = Chunks \/ Room(s) <= 0)
  BY DEF ScheduleNext
<1>2. PICK plan \in GreedyPlans(s, held) :
         r = SeedFromOrigin(Carry(s, plan[1], plan[2], zero), missing \ held)
  BY <1>1 DEF ScheduleNext
<1> DEFINE a == plan[1]
           T == plan[2]
<1>3. a \in [held -> Peers \cup {Nobody}] /\ held \in SUBSET Chunks
  BY <1>2 DEF GreedyPlans
<1> DEFINE asked == Asked(a, T, zero)
           failed == Failed(a, T, zero)
           i == AskedMap(s, a, T, zero)
           v == [s EXCEPT !.inf = i]
           newOrg == {d \in failed : d \notin have' /\ d \notin v.org}
           u == Carry(s, a, T, zero)
           Z == missing \ held
           G == {d \in Z : Cardinality({e \in Z : e < d}) < Room(u)}
           newSeed == {d \in G : d \notin have' /\ d \notin u.org}
<1>4. v.inf = i /\ v.org = s.org
  BY DEF SchedStates
<1>5. u = ToOrigin(v, failed) /\ u.inf = i /\ u.org = s.org \cup newOrg
  <2>1. u = ToOrigin(v, failed)
    BY DEF Carry, AskedMap, Failed
  <2> HIDE DEF i, v, failed, u
  <2>2. QED
    BY <1>4, <2>1 DEF ToOrigin, Sched
<1>6. r.inf = i /\ r.org = u.org \cup newSeed
  <2>1. r = ToOrigin(u, G)
    BY <1>2 DEF SeedFromOrigin
  <2> HIDE DEF i, u, G
  <2>2. QED
    BY <1>5, <2>1 DEF ToOrigin, Sched
<1>7. Room(s) \in Int /\ Room(s) > 0
      /\ Cardinality(Busy(s.inf)) \in Nat /\ Cardinality(s.org) \in Nat
      /\ Room(s) = MaxTotalInFlight - (Cardinality(Busy(s.inf)) + Cardinality(s.org))
  <2>1. Cardinality(Busy(s.inf)) \in Nat
    BY ChunksFinite DEF Busy
  <2>2. Cardinality(s.org) \in Nat
    BY ChunksFinite DEF SchedStates
  <2>3. Room(s) = MaxTotalInFlight - (Cardinality(Busy(s.inf)) + Cardinality(s.org))
    BY DEF Room
  <2>4. QED
    BY <1>1, <2>1, <2>2, <2>3, CapsAssumption
<1>8. /\ \A d \in asked : /\ d \in held /\ a[d] \in Peers /\ i[d].peer = a[d] /\ i[d] # NoRequest
                         /\ s.inf[d] = NoRequest
      /\ \A d \in Chunks \ asked : i[d] = s.inf[d]
  <2>1. \A d \in held : zero[d] \in 0..P2P_REQUEST_RETRIES /\ s.inf[d] = NoRequest
    BY CapsAssumption
  <2> HIDE DEF held, zero, a, T
  <2>3. /\ \A d \in asked : /\ d \in held /\ a[d] \in Peers /\ i[d] # NoRequest
                           /\ i[d].peer = a[d]
        /\ \A d \in Chunks \ asked : i[d] = s.inf[d]
    <3>1. AsksOf(i, s, held, a, T, zero)
      BY <1>3, <2>1, AskedRequests
    <3> HIDE DEF i
    <3>2. QED
      BY <3>1 DEF AsksOf
  <2> HIDE DEF asked, i
  <2>4. QED
    BY <2>1, <2>3
<1>9. \A d \in Chunks \ asked : i[d] = s.inf[d]
  BY <1>8
<1>10. Cardinality(Busy(i)) <= Cardinality(Busy(s.inf)) + Cardinality(asked)
       /\ Cardinality(Busy(i)) \in Nat /\ Cardinality(asked) \in Nat /\ IsFiniteSet(asked)
  <2>1. asked \in SUBSET Chunks
    BY <1>3, <1>8
  <2> HIDE DEF asked, i, held
  <2>2. Busy(i) = Busy(s.inf) \cup asked
    BY <1>8, <1>9, <2>1 DEF Busy
  <2> DEFINE old == Busy(s.inf)
  <2>b. old \in SUBSET Chunks
    BY DEF Busy
  <2> HIDE DEF old
  <2>3. /\ IsFiniteSet(old) /\ IsFiniteSet(asked) /\ Cardinality(asked) \in Nat
        /\ Cardinality(old \cup asked) \in Nat /\ Cardinality(old \cap asked) \in Nat
    <3>1. old \cup asked \in SUBSET Chunks /\ old \cap asked \in SUBSET Chunks
      BY <2>1, <2>b
    <3>2. QED
      BY <2>1, <2>b, <3>1, ChunksFinite
  <2>4. Cardinality(old \cup asked) = Cardinality(old) + Cardinality(asked) - Cardinality(old \cap asked)
    BY <2>3, FS_Union
  <2>5. Busy(i) = old \cup asked /\ Cardinality(old) \in Nat
    BY <1>7, <2>2 DEF old
  <2>6. Cardinality(Busy(i)) <= Cardinality(old) + Cardinality(asked) /\ Cardinality(Busy(i)) \in Nat
    BY <2>3, <2>4, <2>5
  <2>7. QED
    BY <2>3, <2>6 DEF old
<1>11. Cardinality(u.org) <= Cardinality(s.org) + Cardinality(failed)
       /\ Cardinality(u.org) \in Nat /\ Cardinality(failed) \in Nat /\ IsFiniteSet(failed)
       /\ u.org \in SUBSET Chunks
  <2>1. failed \in SUBSET Chunks
    BY <1>3 DEF Failed
  <2>2. newOrg \subseteq failed /\ s.org \in SUBSET Chunks
    BY DEF SchedStates
  <2> HIDE DEF failed, newOrg, u
  <2>3. /\ IsFiniteSet(s.org) /\ IsFiniteSet(newOrg) /\ IsFiniteSet(failed)
        /\ Cardinality(newOrg) \in Nat /\ Cardinality(failed) \in Nat
        /\ Cardinality(s.org \cap newOrg) \in Nat /\ Cardinality(u.org) \in Nat
        /\ u.org \in SUBSET Chunks
    BY <1>5, <2>1, <2>2, ChunksFinite
  <2>4. Cardinality(newOrg) <= Cardinality(failed)
    BY <2>2, <2>3, FS_Subset
  <2>5. Cardinality(u.org) = Cardinality(s.org) + Cardinality(newOrg) - Cardinality(s.org \cap newOrg)
    BY <1>5, <2>3, FS_Union
  <2>6. QED
    BY <1>7, <2>1, <2>3, <2>4, <2>5
<1>12. Cardinality(asked) + Cardinality(failed) <= Room(s)
  <2> DEFINE B == {d \in held : a[d] # Nobody}
  <2>1. B = asked \cup failed /\ asked \cap failed = {}
    <3>1. DOMAIN a = held /\ asked \subseteq held /\ \A d \in asked : a[d] \in Peers
      BY <1>3, <1>8
    <3>2. \A d \in held : a[d] # Nobody <=> a[d] \in Peers
      BY <1>3, PeersAssumption
    <3>3. failed = {d \in DOMAIN a : a[d] \in Peers} \ asked
      BY DEF Failed
    <3> HIDE DEF held, asked, failed, a
    <3>4. QED
      BY <3>1, <3>2, <3>3
  <2>2. Cardinality(B) <= Room(s)
    <3> HIDE DEF held
    <3>1. QED
      BY <1>2, <1>3, <1>7, PlanWithinRoom
  <2>3. Cardinality(B) = Cardinality(asked) + Cardinality(failed) - Cardinality({})
    <3> HIDE DEF B, asked, failed
    <3>1. QED
      BY <1>10, <1>11, <2>1, FS_Union
  <2> HIDE DEF B, asked, failed
  <2>4. Cardinality({}) = 0
    BY FS_EmptySet
  <2>5. QED
    BY <1>7, <1>10, <1>11, <2>2, <2>3, <2>4
<1>13. Room(u) \in Int /\ Room(u) >= 0
       /\ Room(u) = MaxTotalInFlight - (Cardinality(Busy(i)) + Cardinality(u.org))
  <2> HIDE DEF u, i, asked, failed
  <2>1. Room(u) = MaxTotalInFlight - (Cardinality(Busy(i)) + Cardinality(u.org))
    BY <1>5 DEF Room
  <2>2. QED
    BY <1>7, <1>10, <1>11, <1>12, <2>1, CapsAssumption
<1>14. Cardinality(r.org) <= Cardinality(u.org) + Room(u) /\ Cardinality(r.org) \in Nat
  <2>1. Z \in SUBSET Chunks
    OBVIOUS
  <2>2. Cardinality(G) <= Room(u) /\ G \in SUBSET Chunks
    <3> HIDE DEF Z, u
    <3>1. QED
      BY <1>13, <2>1, SeedWithinRoom
  <2>3. newSeed \subseteq G
    OBVIOUS
  <2> HIDE DEF G, newSeed, u
  <2>4. /\ IsFiniteSet(u.org) /\ IsFiniteSet(newSeed) /\ IsFiniteSet(G)
        /\ Cardinality(newSeed) \in Nat /\ Cardinality(G) \in Nat
        /\ Cardinality(u.org \cap newSeed) \in Nat /\ Cardinality(r.org) \in Nat
    BY <1>6, <1>11, <2>2, <2>3, ChunksFinite
  <2>5. Cardinality(newSeed) <= Cardinality(G)
    BY <2>3, <2>4, FS_Subset
  <2>6. Cardinality(r.org) = Cardinality(u.org) + Cardinality(newSeed) - Cardinality(u.org \cap newSeed)
    BY <1>6, <2>4, FS_Union, <1>11
  <2>7. QED
    BY <1>11, <1>13, <2>2, <2>4, <2>5, <2>6
<1>15. Cardinality(Busy(r.inf)) + Cardinality(r.org) <= MaxTotalInFlight
  <2> HIDE DEF u, i, asked, failed
  <2>1. QED
    BY <1>6, <1>10, <1>11, <1>13, <1>14, CapsAssumption
<1>16. Load(r.inf, r.inf[c].peer) <= MaxInFlightPerPeer
  <2>1. c \in asked
    BY <1>6, <1>9
  <2>2. c \in held /\ a[c] \in Peers /\ r.inf[c].peer = a[c]
    BY <1>6, <1>8, <2>1
  <2> DEFINE p == a[c]
             P == {d \in asked : a[d] = p}
             S == {d \in Chunks : s.inf[d].peer = p}
             R == {d \in Chunks : i[d].peer = p}
  <2>3. Load(s.inf, p) + Cardinality(P) <= MaxInFlightPerPeer
    <3>1. c \in Asked(plan[1], plan[2], [d \in held |-> 0])
      BY <2>1
    <3> HIDE DEF held
    <3>2. QED
      BY <1>2, <1>3, <2>2, <3>1, PlanWithinLoad
  <2>4. R \subseteq S \cup P
    <3> SUFFICES ASSUME NEW d \in Chunks, i[d].peer = p PROVE d \in S \/ d \in P
      OBVIOUS
    <3>1. CASE d \in asked
      <4> HIDE DEF asked, i, held, S
      <4>1. QED
        BY <1>8, <3>1
    <3>2. CASE d \notin asked
      <4> HIDE DEF asked, i, held, P
      <4>1. QED
        BY <1>9, <3>2
    <3>3. QED
      BY <3>1, <3>2
  <2>5. P \in SUBSET Chunks /\ S \in SUBSET Chunks /\ R \in SUBSET Chunks
    BY <1>3, <1>8
  <2>6. Load(s.inf, p) = Cardinality(S) /\ Load(r.inf, p) = Cardinality(R)
    <3> HIDE DEF i
    <3>1. QED
      BY <1>6 DEF Load
  <2> HIDE DEF P, S, R, p, i, asked, held
  <2>7. /\ IsFiniteSet(P) /\ IsFiniteSet(S) /\ IsFiniteSet(S \cup P)
        /\ Cardinality(P) \in Nat /\ Cardinality(S) \in Nat /\ Cardinality(S \cup P) \in Nat
        /\ Cardinality(R) \in Nat /\ Cardinality(S \cap P) \in Nat
    BY <2>5, ChunksFinite
  <2>8. Cardinality(R) <= Cardinality(S \cup P)
    BY <2>4, <2>7, FS_Subset
  <2>9. Cardinality(S \cup P) = Cardinality(S) + Cardinality(P) - Cardinality(S \cap P)
    BY <2>7, FS_Union
  <2>10. Cardinality(R) <= MaxInFlightPerPeer
    BY <2>3, <2>6, <2>7, <2>8, <2>9, CapsAssumption
  <2>11. QED
    BY <2>2, <2>6, <2>10 DEF p
<1>17. QED
  BY <1>15, <1>16

\* A step that sends a first attempt leaves both caps respected, whatever
\* retries, lost peers and corrupt chunks had done to them before.
THEOREM CapsRespected == Spec => FirstAttemptsWithinCaps
<1> DEFINE Step ==
        \A c \in Chunks :
            inFlight[c] = NoRequest /\ inFlight'[c] # NoRequest /\ inFlight'[c].retries = 0 =>
                /\ Cardinality(Busy(inFlight')) + Cardinality(originInFlight') <= MaxTotalInFlight
                /\ Load(inFlight', inFlight'[c].peer) <= MaxInFlightPerPeer
<1>1. ASSUME IInv, [Next]_vars PROVE Step
  <2> SUFFICES ASSUME NEW c \in Chunks, inFlight[c] = NoRequest, inFlight'[c] # NoRequest
               PROVE  /\ Cardinality(Busy(inFlight')) + Cardinality(originInFlight') <= MaxTotalInFlight
                      /\ Load(inFlight', inFlight'[c].peer) <= MaxInFlightPerPeer
    OBVIOUS
  <2>1. open' \subseteq Peers /\ inFlight \in [Chunks -> Request \cup {NoRequest}]
    BY <1>1, NextIInv DEF IInv, TypeOK
  <2>2. CASE Stop
    BY <2>2 DEF Stop
  <2>3. CASE ScheduledStep
    <3>1. PICK s \in SchedStates, u \in SchedStates, r \in SchedStates : ScheduledFrom(s, u, r)
      BY <2>3 DEF ScheduledStep
    <3>2. u.inf[c] = NoRequest /\ r \in ScheduleNext(u) /\ EndsIn(r)
      BY <3>1 DEF ScheduledFrom, Busy
    <3>3. r.inf[c] # u.inf[c]
      BY <3>2 DEF EndsIn
    <3>4. /\ Cardinality(Busy(r.inf)) + Cardinality(r.org) <= MaxTotalInFlight
          /\ Load(r.inf, r.inf[c].peer) <= MaxInFlightPerPeer
      BY <2>1, <3>2, <3>3, ScheduleNextCaps
    <3>5. QED
      BY <3>2, <3>4 DEF EndsIn
  <2>4. CASE QuietStep
    <3>1. inFlight' = inFlight \/ \E d \in Chunks : inFlight' = [inFlight EXCEPT ![d] = NoRequest]
      BY <2>4 DEF QuietStep
    <3>2. QED
      BY <2>1, <3>1
  <2>5. QED
    BY <1>1, <2>2, <2>3, <2>4, StepKinds
<1>2. IInv /\ [Next]_vars => [Step]_vars
  BY <1>1
<1>3. QED
  BY <1>2, Invariance, PTL DEF Spec, FirstAttemptsWithinCaps

-----------------------------------------------------------------------------
(***************************************************************************)
(* The scheduler delivers chunks as ChunkDeliveries says.  A task is one   *)
(* of the awaits of a delivery, so a handler's effect on the deliveries is *)
(* the tasks it retires and spawns, and the fetches of the loops it ends   *)
(* in.  That a fetch is the only origin download of its chunk is what      *)
(* BackedIn says.                                                          *)
(***************************************************************************)
Delivery == [chunk : Chunks, source : {"p2p", "origin"}]
DeliveryOf(t) == [chunk |-> t.chunk, source |-> t.source]
AwaitOf(d, stage, ok) == [chunk |-> d.chunk, source |-> d.source, stage |-> stage, intact |-> ok]
Stages == {"fetch", "verify", "put"}

\* The six awaits of a delivery.
LEMMA AwaitsOf ==
    ASSUME NEW d \in Delivery, NEW stage \in Stages
    PROVE  AwaitOf(d, stage, TRUE) \in Task /\ AwaitOf(d, stage, FALSE) \in Task
BY DEF AwaitOf, Task, Delivery, Stages

LEMMA UnderwaySum ==
    ASSUME NEW work, NEW d
    PROVE  UnderwayIn(work, d) =
              work[AwaitOf(d, "fetch", TRUE)] + work[AwaitOf(d, "fetch", FALSE)]
                + work[AwaitOf(d, "verify", TRUE)] + work[AwaitOf(d, "verify", FALSE)]
                + work[AwaitOf(d, "put", TRUE)] + work[AwaitOf(d, "put", FALSE)]
BY DEF UnderwayIn, AwaitOf

LEMMA UnderwayIsNat ==
    ASSUME NEW work \in [Task -> Nat], NEW d \in Delivery
    PROVE  UnderwayIn(work, d) \in Nat
<1> DEFINE yes(stage) == work[AwaitOf(d, stage, TRUE)]
           no(stage)  == work[AwaitOf(d, stage, FALSE)]
<1>1. \A stage \in Stages : yes(stage) \in Nat /\ no(stage) \in Nat
  BY AwaitsOf
<1>2. UnderwayIn(work, d) = yes("fetch") + no("fetch") + yes("verify") + no("verify")
                               + yes("put") + no("put")
  BY UnderwaySum
<1> HIDE DEF yes, no
<1>3. QED
  BY <1>1, <1>2 DEF Stages

\* A bag that differs in one task differs in the delivery of that task.
LEMMA OneTaskUnderway ==
    ASSUME NEW work \in [Task -> Nat], NEW after \in [Task -> Nat], NEW t \in Task, NEW n \in Int,
           after[t] = work[t] + n, \A u \in Task \ {t} : after[u] = work[u],
           NEW d \in Delivery
    PROVE  UnderwayIn(after, d) = UnderwayIn(work, d) + (IF d = DeliveryOf(t) THEN n ELSE 0)
<1> DEFINE yes(w, stage) == w[AwaitOf(d, stage, TRUE)]
           no(w, stage)  == w[AwaitOf(d, stage, FALSE)]
           Sum(w) == yes(w, "fetch") + no(w, "fetch") + yes(w, "verify") + no(w, "verify")
                        + yes(w, "put") + no(w, "put")
<1>1. UnderwayIn(work, d) = Sum(work) /\ UnderwayIn(after, d) = Sum(after)
  BY UnderwaySum
<1>2. \A stage \in Stages : /\ yes(work, stage) \in Nat /\ no(work, stage) \in Nat
                           /\ yes(after, stage) \in Nat /\ no(after, stage) \in Nat
  BY AwaitsOf
<1>3. \A stage \in Stages :
         /\ AwaitOf(d, stage, TRUE) = t => d = DeliveryOf(t) /\ stage = t.stage /\ t.intact = TRUE
         /\ AwaitOf(d, stage, FALSE) = t => d = DeliveryOf(t) /\ stage = t.stage /\ t.intact = FALSE
  BY DEF AwaitOf, Delivery, DeliveryOf
<1>4. \A stage \in Stages :
         /\ AwaitOf(d, stage, TRUE) # t => yes(after, stage) = yes(work, stage)
         /\ AwaitOf(d, stage, FALSE) # t => no(after, stage) = no(work, stage)
  BY AwaitsOf
<1>5. t.stage \in Stages /\ t.intact \in BOOLEAN
  BY DEF Task, Stages
<1>6. d = DeliveryOf(t) => t = AwaitOf(d, t.stage, t.intact)
  BY DEF AwaitOf, DeliveryOf, Task
<1>7. ASSUME d # DeliveryOf(t)
      PROVE  Sum(after) = Sum(work) /\ Sum(work) \in Nat
  <2>1. \A stage \in Stages : yes(after, stage) = yes(work, stage) /\ no(after, stage) = no(work, stage)
    BY <1>3, <1>4, <1>7
  <2> HIDE DEF yes, no
  <2>2. QED
    BY <1>2, <2>1 DEF Stages
<1>8. ASSUME d = DeliveryOf(t), t.intact = TRUE
      PROVE  Sum(after) = Sum(work) + n
  <2>1. \A stage \in Stages : no(after, stage) = no(work, stage)
    BY <1>3, <1>4, <1>8
  <2>2. \A stage \in Stages : stage # t.stage => yes(after, stage) = yes(work, stage)
    BY <1>3, <1>4
  <2>3. yes(after, t.stage) = yes(work, t.stage) + n
    <3>1. t = AwaitOf(d, t.stage, TRUE)
      BY <1>6, <1>8
    <3>2. QED
      BY <3>1
  <2> HIDE DEF yes, no
  <2>4. QED
    BY <1>2, <1>5, <2>1, <2>2, <2>3 DEF Stages
<1>9. ASSUME d = DeliveryOf(t), t.intact = FALSE
      PROVE  Sum(after) = Sum(work) + n
  <2>1. \A stage \in Stages : yes(after, stage) = yes(work, stage)
    BY <1>3, <1>4, <1>9
  <2>2. \A stage \in Stages : stage # t.stage => no(after, stage) = no(work, stage)
    BY <1>3, <1>4
  <2>3. no(after, t.stage) = no(work, t.stage) + n
    <3>1. t = AwaitOf(d, t.stage, FALSE)
      BY <1>6, <1>9
    <3>2. QED
      BY <3>1
  <2> HIDE DEF yes, no
  <2>4. QED
    BY <1>2, <1>5, <2>1, <2>2, <2>3 DEF Stages
<1> HIDE DEF Sum
<1>10. d = DeliveryOf(t) => Sum(after) = Sum(work) + n
  BY <1>5, <1>8, <1>9, Zenon
<1>11. QED
  BY <1>1, <1>7, <1>10

LEMMA RetireUnderway ==
    ASSUME NEW work \in [Task -> Nat], NEW t \in Task, work[t] > 0
    PROVE  /\ Retire(work, t) \in [Task -> Nat]
           /\ UnderwayIn(work, DeliveryOf(t)) > 0
           /\ \A d \in Delivery : UnderwayIn(Retire(work, t), d)
                                    = UnderwayIn(work, d) - (IF d = DeliveryOf(t) THEN 1 ELSE 0)
<1> DEFINE w == Retire(work, t)
<1>1. w \in [Task -> Nat] /\ w[t] = work[t] + (-1) /\ \A u \in Task \ {t} : w[u] = work[u]
  BY DEF Retire
<1> HIDE DEF w
<1>2. \A d \in Delivery : UnderwayIn(w, d) = UnderwayIn(work, d) + (IF d = DeliveryOf(t) THEN -1 ELSE 0)
  BY <1>1, OneTaskUnderway
<1>3. DeliveryOf(t) \in Delivery
  BY DEF DeliveryOf, Delivery, Task
<1>4. \A d \in Delivery : UnderwayIn(w, d) \in Nat /\ UnderwayIn(work, d) \in Nat
  BY <1>1, UnderwayIsNat
<1>5. UnderwayIn(work, DeliveryOf(t)) > 0
  BY <1>2, <1>3, <1>4
<1>6. \A d \in Delivery : UnderwayIn(w, d) = UnderwayIn(work, d) - (IF d = DeliveryOf(t) THEN 1 ELSE 0)
  BY <1>2, <1>4
<1>7. QED
  BY <1>1, <1>5, <1>6 DEF w

LEMMA SpawnUnderway ==
    ASSUME NEW work \in [Task -> Nat], NEW t \in Task
    PROVE  /\ Spawn(work, t) \in [Task -> Nat]
           /\ \A d \in Delivery : UnderwayIn(Spawn(work, t), d)
                                    = UnderwayIn(work, d) + (IF d = DeliveryOf(t) THEN 1 ELSE 0)
<1> DEFINE w == Spawn(work, t)
<1>1. w \in [Task -> Nat] /\ w[t] = work[t] + 1 /\ \A u \in Task \ {t} : w[u] = work[u]
  BY DEF Spawn
<1> HIDE DEF w
<1>2. \A d \in Delivery : UnderwayIn(w, d) = UnderwayIn(work, d) + (IF d = DeliveryOf(t) THEN 1 ELSE 0)
  BY <1>1, OneTaskUnderway
<1>3. QED
  BY <1>1, <1>2 DEF w

\* An await that is followed by the next one leaves its delivery in progress.
LEMMA MoveUnderway ==
    ASSUME NEW work \in [Task -> Nat], NEW old \in Task, NEW new \in Task, work[old] > 0,
           old.chunk = new.chunk, old.source = new.source, NEW d \in Delivery
    PROVE  UnderwayIn(Spawn(Retire(work, old), new), d) = UnderwayIn(work, d)
<1> DEFINE w == Retire(work, old)
<1>1. /\ w \in [Task -> Nat]
      /\ UnderwayIn(w, d) = UnderwayIn(work, d) - (IF d = DeliveryOf(old) THEN 1 ELSE 0)
  BY RetireUnderway
<1> HIDE DEF w
<1>2. UnderwayIn(Spawn(w, new), d) = UnderwayIn(w, d) + (IF d = DeliveryOf(new) THEN 1 ELSE 0)
  BY <1>1, SpawnUnderway
<1>3. DeliveryOf(old) = DeliveryOf(new)
  BY DEF DeliveryOf
<1>4. UnderwayIn(work, d) \in Nat
  BY UnderwayIsNat
<1>5. QED
  BY <1>1, <1>2, <1>3, <1>4 DEF w

\* No claim, no origin download.
LEMMA UnclaimedUnderway ==
    ASSUME NEW org, NEW work \in [Task -> Nat], BackedIn(org, work),
           NEW d \in Delivery, d.source = "origin", d.chunk \notin org
    PROVE  UnderwayIn(work, d) = 0
<1>1. \A stage \in Stages : /\ AwaitOf(d, stage, TRUE) \in OriginTasks(d.chunk)
                           /\ AwaitOf(d, stage, FALSE) \in OriginTasks(d.chunk)
  <2> SUFFICES ASSUME NEW stage \in Stages
               PROVE  /\ AwaitOf(d, stage, TRUE) \in OriginTasks(d.chunk)
                      /\ AwaitOf(d, stage, FALSE) \in OriginTasks(d.chunk)
    OBVIOUS
  <2>1. AwaitOf(d, stage, TRUE) \in Task /\ AwaitOf(d, stage, FALSE) \in Task
    BY AwaitsOf
  <2>2. QED
    BY <2>1 DEF AwaitOf, OriginTasks
<1>2. \A t \in OriginTasks(d.chunk) : work[t] = 0
  BY DEF BackedIn, Delivery
<1> DEFINE yes(stage) == work[AwaitOf(d, stage, TRUE)]
           no(stage)  == work[AwaitOf(d, stage, FALSE)]
<1>3. \A stage \in Stages : yes(stage) = 0 /\ no(stage) = 0
  BY <1>1, <1>2
<1>4. UnderwayIn(work, d) = yes("fetch") + no("fetch") + yes("verify") + no("verify")
                               + yes("put") + no("put")
  BY UnderwaySum
<1> HIDE DEF yes, no
<1>5. QED
  BY <1>3, <1>4 DEF Stages

\* The loops begin one origin download of each chunk they claim, and nothing else.
LEMMA SchedulesUnderway ==
    ASSUME NEW s \in SchedStates, NEW r \in SchedStates, Schedules(s, r), NEW d \in Delivery
    PROVE  UnderwayIn(r.work, d) = UnderwayIn(s.work, d)
              + (IF d.source = "origin" /\ d.chunk \in r.org \ s.org THEN 1 ELSE 0)
<1> DEFINE yes(w, stage) == w[AwaitOf(d, stage, TRUE)]
           no(w, stage)  == w[AwaitOf(d, stage, FALSE)]
           C == r.org \ s.org
           Sum(w) == yes(w, "fetch") + no(w, "fetch") + yes(w, "verify") + no(w, "verify")
                        + yes(w, "put") + no(w, "put")
<1>1. UnderwayIn(s.work, d) = Sum(s.work) /\ UnderwayIn(r.work, d) = Sum(r.work)
  BY UnderwaySum
<1>2. \A stage \in Stages : /\ yes(s.work, stage) \in Nat /\ no(s.work, stage) \in Nat
                           /\ yes(r.work, stage) \in Nat /\ no(r.work, stage) \in Nat
  BY AwaitsOf DEF SchedStates
<1>3. \A stage \in Stages :
         /\ AwaitOf(d, stage, TRUE).chunk = d.chunk /\ AwaitOf(d, stage, FALSE).chunk = d.chunk
         /\ AwaitOf(d, stage, FALSE) # FetchTask(d.chunk)
         /\ AwaitOf(d, stage, TRUE) = FetchTask(d.chunk) <=> d.source = "origin" /\ stage = "fetch"
  BY DEF AwaitOf, FetchTask
<1>4. \A stage \in Stages :
         /\ no(r.work, stage) = no(s.work, stage)
         /\ yes(r.work, stage) = IF d.chunk \in C /\ d.source = "origin" /\ stage = "fetch"
                                 THEN yes(s.work, stage) + 1 ELSE yes(s.work, stage)
  <2> SUFFICES ASSUME NEW stage \in Stages
               PROVE  /\ no(r.work, stage) = no(s.work, stage)
                      /\ yes(r.work, stage) = IF d.chunk \in C /\ d.source = "origin" /\ stage = "fetch"
                                              THEN yes(s.work, stage) + 1 ELSE yes(s.work, stage)
    OBVIOUS
  <2>1. AwaitOf(d, stage, TRUE) \in Task /\ AwaitOf(d, stage, FALSE) \in Task
    BY AwaitsOf
  <2>2. QED
    BY <1>3, <2>1 DEF Schedules
<1> HIDE DEF yes, no, C
<1>5. QED
  BY <1>1, <1>2, <1>4 DEF Stages, C

Delivering == [d \in Delivery |-> Underway(d)]

\* A handler prepares a scheduling state s, in which the deliveries of E are over and those of B
\* begun, and the loops lead from there to what it leaves.
LEMMA HandlerChanges ==
    ASSUME TypeOK, NEW s \in SchedStates, NEW r \in SchedStates, Schedules(s, r), tasks' = r.work,
           phase' = "running" => BackedIn(s.org, s.work),
           phase' # "running" => r.org = s.org,
           NEW E, NEW B,
           \A d \in Delivery : UnderwayIn(s.work, d) =
               Underway(d) + (IF d \in B THEN 1 ELSE 0) - (IF d \in E THEN 1 ELSE 0)
    PROVE  Deliveries!Changes(E, B)
<1> DEFINE C == r.org \ s.org
           rest == [d \in Delivery |-> Underway(d) + (IF d \in B THEN 1 ELSE 0)
                                                   - (IF d \in E THEN 1 ELSE 0)]
           O == [chunk : C, source : {"origin"}]
<1>1. C \in SUBSET (Chunks \ have')
  BY DEF Schedules
<1>2. C # {} => phase' = "running"
  OBVIOUS
<1>3. \A d \in Delivery : rest[d] = UnderwayIn(s.work, d) /\ rest[d] \in Nat
  BY UnderwayIsNat DEF SchedStates
<1>4. \A d \in Delivery : d \in O <=> d.source = "origin" /\ d.chunk \in C
  BY DEF Delivery
<1>5. O \subseteq Delivery
  BY <1>1 DEF Delivery
<1>6. \A d \in O : rest[d] = 0
  BY <1>2, <1>3, <1>4, <1>5, UnclaimedUnderway DEF SchedStates
<1>7. \A d \in Delivery : UnderwayIn(r.work, d) = IF d \in O THEN 1 ELSE rest[d]
  <2> SUFFICES ASSUME NEW d \in Delivery PROVE UnderwayIn(r.work, d) = IF d \in O THEN 1 ELSE rest[d]
    OBVIOUS
  <2>1. UnderwayIn(r.work, d) = UnderwayIn(s.work, d) + (IF d \in O THEN 1 ELSE 0)
    BY <1>4, SchedulesUnderway
  <2> HIDE DEF rest, O
  <2>2. QED
    BY <1>3, <1>6, <2>1
<1>8. Delivering' = [d \in Delivery |-> IF d \in O THEN 1 ELSE rest[d]]
  <2>1. \A d \in Delivery : Underway(d)' = UnderwayIn(r.work, d)
    BY DEF Underway, UnderwayIn
  <2>2. QED
    BY <1>7, <2>1 DEF Delivering, Delivery
<1> HIDE DEF C
<1>9. QED
  BY <1>1, <1>2, <1>6, <1>8 DEF Deliveries!Changes, Deliveries!Delivery, Deliveries!From, Delivering,
     Delivery

LEMMA LoopChanges ==
    ASSUME TypeOK, open' \subseteq Peers, NEW s \in SchedStates, Settle(ScheduleNext(s)),
           phase' = "running" => BackedIn(s.org, s.work),
           NEW E, NEW B,
           \A d \in Delivery : UnderwayIn(s.work, d) =
               Underway(d) + (IF d \in B THEN 1 ELSE 0) - (IF d \in E THEN 1 ELSE 0)
    PROVE  Deliveries!Changes(E, B)
<1>1. PICK r \in ScheduleNext(s) : tasks' = r.work
  BY DEF Settle
<1>2. r \in SchedStates /\ Schedules(s, r) /\ (phase' # "running" => r.org = s.org)
  BY ScheduleNextLemma, ScheduleNextSchedules
<1>3. QED
  BY <1>1, <1>2, HandlerChanges

\* Nothing is rescheduled where nothing was asked for.
LEMMA NoChunksNoClaims ==
    ASSUME NEW s \in SchedStates, NEW retries, NEW u \in ScheduleChunks(s, {}, retries)
    PROVE  u.org = s.org
<1> DEFINE Plans == UNION {RetryPlans(s, {}, o, retries) : o \in LinearOrders({})}
<1>1. PICK plan \in Plans : u = ToOrigin(Carry(s, plan[1], plan[2], retries),
                                       {c \in {} : plan[1][c] = Nobody})
  BY Zenon DEF ScheduleChunks
<1> DEFINE a == plan[1]
           T == plan[2]
<1>2. a \in [{} -> Peers \cup {Nobody}]
  BY DEF RetryPlans
<1>3. DOMAIN a = {}
  BY <1>2
<1> HIDE DEF Plans, a, T
<1>4. Carry(s, a, T, retries).org = s.org
  BY <1>3 DEF Carry, ToOrigin, Sched, SchedStates
<1> USE DEF a, T
<1>5. QED
  BY <1>1, <1>4 DEF ToOrigin, Sched

LEMMA RetryChanges ==
    ASSUME TypeOK, open' \subseteq Peers,
           NEW R \in SUBSET Chunks, NEW freed \in [Chunks -> Request \cup {NoRequest}],
           \A c \in R : freed[c] = NoRequest,
           NEW retries \in [R -> Nat],
           phase' = "running" => BackedIn(originInFlight, tasks),
           phase' # "running" => R = {},
           Settle(UNION {ScheduleNext(u) :
               u \in ScheduleChunks(Sched(freed, originInFlight, tasks), R, retries)})
    PROVE  Deliveries!Changes({}, {})
<1> DEFINE s == Sched(freed, originInFlight, tasks)
<1>1. s \in SchedStates /\ s.inf = freed /\ s.org = originInFlight /\ s.work = tasks
  BY DEF Sched, SchedStates, TypeOK
<1>2. PICK u \in ScheduleChunks(s, R, retries) : Settle(ScheduleNext(u))
  BY DEF Settle
<1> HIDE DEF s
<1>3. PICK r \in ScheduleNext(u) : tasks' = r.work
  BY <1>2 DEF Settle
<1>4. u \in SchedStates /\ Schedules(s, u)
  BY <1>1, <1>2, ScheduleChunksLemma, ScheduleChunksSchedules
<1>5. r \in SchedStates /\ Schedules(u, r) /\ (phase' # "running" => r = u)
  BY <1>4, ScheduleNextLemma, ScheduleNextSchedules
<1>6. Schedules(s, r)
  BY <1>1, <1>4, <1>5, SchedulesTransitive
<1>7. phase' # "running" => r.org = s.org
  BY <1>1, <1>2, <1>5, NoChunksNoClaims
<1>8. \A d \in Delivery : UnderwayIn(s.work, d) =
          Underway(d) + (IF d \in {} THEN 1 ELSE 0) - (IF d \in {} THEN 1 ELSE 0)
  BY <1>1, UnderwayIsNat DEF Underway, TypeOK
<1>9. QED
  BY <1>1, <1>3, <1>5, <1>6, <1>7, <1>8, HandlerChanges

LEMMA FinishChanges ==
    ASSUME TypeOK, open' \subseteq Peers,
           NEW org \in SUBSET Chunks, NEW work \in [Task -> Nat], NEW t \in Task, work[t] > 0,
           phase' = "running" => BackedIn(org, work),
           Finish(t, org, work),
           NEW E, NEW B,
           \A d \in Delivery : UnderwayIn(work, d) - (IF d = DeliveryOf(t) THEN 1 ELSE 0) =
               Underway(d) + (IF d \in B THEN 1 ELSE 0) - (IF d \in E THEN 1 ELSE 0)
    PROVE  Deliveries!Changes(E, B)
<1> DEFINE left == IF t.source = "origin" THEN org \ {t.chunk} ELSE org
           w == Retire(work, t)
           s == Sched(inFlight, left, w)
<1>1. /\ w \in [Task -> Nat]
      /\ \A d \in Delivery : UnderwayIn(w, d) = UnderwayIn(work, d) - (IF d = DeliveryOf(t) THEN 1 ELSE 0)
  BY RetireUnderway
<1>2. s \in SchedStates /\ s.org = left /\ s.work = w
  BY <1>1 DEF Sched, SchedStates, TypeOK
<1>3. Settle(ScheduleNext(s))
  BY DEF Finish
<1>4. phase' = "running" => BackedIn(left, w)
  BY RetireBacked
<1> HIDE DEF s, left, w
<1>5. QED
  BY <1>1, <1>2, <1>3, <1>4, LoopChanges

\* A delivery ends with its task, and nothing else begins or ends but what the loops claim.
LEMMA EndChanges ==
    ASSUME TypeOK, open' \subseteq Peers, NEW t \in Task, tasks[t] > 0,
           phase' = "running" => BackedIn(originInFlight, tasks),
           Finish(t, originInFlight, tasks)
    PROVE  Deliveries!Changes({DeliveryOf(t)}, {})
<1>1. originInFlight \in SUBSET Chunks /\ tasks \in [Task -> Nat]
  BY DEF TypeOK
<1>2. \A d \in Delivery : UnderwayIn(tasks, d) - (IF d = DeliveryOf(t) THEN 1 ELSE 0) =
          Underway(d) + (IF d \in {} THEN 1 ELSE 0) - (IF d \in {DeliveryOf(t)} THEN 1 ELSE 0)
  BY <1>1, UnderwayIsNat DEF Underway
<1>3. QED
  BY <1>1, <1>2, FinishChanges

Stored == {c \in Chunks : store[c] = "good"}

\* Every step of the scheduler is a step of its deliveries, or none.
LEMMA StepDelivers ==
    ASSUME CInv, [Next]_vars
    PROVE  Deliveries!Next \/ UNCHANGED <<phase, have, Stored, announced, Delivering>>
<1>a. TypeOK /\ NoLeftovers /\ IntactPuts /\ IInv
  BY DEF CInv, IInv
<1>b. open' \subseteq Peers
  BY <1>a, NextIInv DEF IInv, TypeOK
<1>c. phase # "stopped" => BackedIn(originInFlight, tasks)
  BY DEF CInv
<1>d. /\ tasks \in [Task -> Nat] /\ originInFlight \in SUBSET Chunks
      /\ phase \in {"new", "running", "stopped"}
  BY <1>a DEF TypeOK
<1>e. ASSUME diskVars' = diskVars PROVE UNCHANGED <<have, Stored, announced>>
  BY <1>e DEF diskVars, Stored
<1>f. ASSUME Deliveries!Changes({}, {}), diskVars' = diskVars,
             phase' = phase \/ (phase' = "running" /\ phase = "new")
      PROVE  Deliveries!Next
  BY <1>e, <1>f DEF Deliveries!Next, Deliveries!Begin, Stored
<1>g. ASSUME UNCHANGED <<phase, diskVars, tasks>>
      PROVE  UNCHANGED <<phase, have, Stored, announced, Delivering>>
  BY <1>e, <1>g DEF Delivering, Underway, UnderwayIn
<1>h. ASSUME Reschedule, phase' = "running" => phase # "stopped"
      PROVE  Deliveries!Changes({}, {})
  <2> DEFINE s == Sched(inFlight, originInFlight, tasks)
  <2>1. s \in SchedStates /\ s.org = originInFlight /\ s.work = tasks
    BY <1>a, SchedNow DEF Sched
  <2>2. Settle(ScheduleNext(s))
    BY <1>h DEF Reschedule
  <2> HIDE DEF s
  <2>3. \A d \in Delivery : UnderwayIn(s.work, d) =
            Underway(d) + (IF d \in {} THEN 1 ELSE 0) - (IF d \in {} THEN 1 ELSE 0)
    BY <1>d, <2>1, UnderwayIsNat DEF Underway
  <2>4. QED
    BY <1>a, <1>b, <1>c, <1>h, <2>1, <2>2, <2>3, LoopChanges
<1>k. ASSUME NEW old \in Task, NEW new \in Task, tasks[old] > 0,
             old.chunk = new.chunk, old.source = new.source,
             tasks' = Spawn(Retire(tasks, old), new), UNCHANGED <<phase, diskVars>>
      PROVE  UNCHANGED <<phase, have, Stored, announced, Delivering>>
  <2>1. \A d \in Delivery : UnderwayIn(tasks', d) = UnderwayIn(tasks, d)
    BY <1>d, <1>k, MoveUnderway
  <2>2. \A d \in Delivery : Underway(d)' = Underway(d)
    BY <2>1 DEF Underway, UnderwayIn
  <2>3. Delivering' = Delivering
    BY <2>2 DEF Delivering, Delivery
  <2>4. QED
    BY <1>e, <1>k, <2>3
<1>l. ASSUME NEW t \in Task
      PROVE  DeliveryOf(t) \in Delivery /\ (tasks[t] > 0 => Underway(DeliveryOf(t)) > 0)
  BY <1>d, RetireUnderway DEF DeliveryOf, Delivery, Task, Underway
<1>m. ASSUME NEW t \in Task, tasks[t] > 0, UNCHANGED <<phase, diskVars>>,
             Deliveries!Changes({DeliveryOf(t)}, {})
      PROVE  Deliveries!Next
  <2> DEFINE d == DeliveryOf(t)
  <2>1. d \in Delivery /\ Delivering[d] > 0
    BY <1>l, <1>m DEF Delivering
  <2> HIDE DEF d
  <2>2. Deliveries!Fail(d)
    BY <1>e, <1>m, <2>1 DEF Deliveries!Fail, Stored, d, Delivering, Delivery
  <2>3. QED
    BY <2>1, <2>2 DEF Deliveries!Next, Deliveries!Delivery, Delivery
<1>1. CASE Start
  BY <1>1, <1>f, <1>h DEF Start
<1>2. CASE Stop
  <2>1. Delivering' = Delivering
    BY <1>2 DEF Stop, Delivering, Underway, UnderwayIn
  <2>2. Deliveries!Stop
    BY <1>2, <1>e, <2>1 DEF Stop, Deliveries!Stop, Stored, Delivering, Delivery
  <2>3. QED
    BY <2>2 DEF Deliveries!Next
<1>3. ASSUME NEW p \in Peers, NEW S \in SUBSET Chunks, UpdatePeerBitfield(p, S)
      PROVE  Deliveries!Next
  BY <1>3, <1>f, <1>h DEF UpdatePeerBitfield
<1>4. ASSUME NEW p \in Peers, NEW c \in Chunks, UpdatePeerHave(p, c)
      PROVE  Deliveries!Next
  BY <1>4, <1>f, <1>h DEF UpdatePeerHave
<1>5. ASSUME NEW p \in Peers, NEW isChoked \in BOOLEAN, SetPeerChoked(p, isChoked)
      PROVE  Deliveries!Next \/ UNCHANGED <<phase, have, Stored, announced, Delivering>>
  BY <1>5, <1>f, <1>g, <1>h DEF SetPeerChoked, NoScheduling
<1>6. ASSUME NEW p \in Peers, RemovePeer(p)
      PROVE  Deliveries!Next
  <2> DEFINE lost    == {c \in Chunks : inFlight[c].peer = p}
             freed   == [c \in Chunks |-> IF c \in lost THEN NoRequest ELSE inFlight[c]]
             retries == [c \in lost |-> inFlight[c].retries + 1]
  <2>1. freed \in [Chunks -> Request \cup {NoRequest}] /\ \A c \in lost : freed[c] = NoRequest
    BY <1>a DEF TypeOK
  <2>2. retries \in [lost -> Nat]
    <3> SUFFICES ASSUME NEW c \in lost PROVE inFlight[c].retries + 1 \in Nat
      OBVIOUS
    <3>1. inFlight[c] \in Request
      BY <1>a, PeersAssumption DEF TypeOK, NoRequest
    <3>2. QED
      BY <3>1, CapsAssumption DEF Request
  <2>3. Settle(UNION {ScheduleNext(u) :
            u \in ScheduleChunks(Sched(freed, originInFlight, tasks), lost, retries)})
    BY <1>6 DEF RemovePeer
  <2>4. /\ lost \in SUBSET Chunks /\ phase' = phase /\ diskVars' = diskVars
        /\ phase' # "running" => lost = {}
    BY <1>6, <1>a, PeersAssumption DEF RemovePeer, NoLeftovers, Busy, NoRequest
  <2> HIDE DEF lost, freed, retries
  <2>5. Deliveries!Changes({}, {})
    BY <1>a, <1>b, <1>c, <2>1, <2>2, <2>3, <2>4, RetryChanges
  <2>6. QED
    BY <1>f, <2>4, <2>5
<1>7. ASSUME NEW p \in Peers, ChannelOpens(p) \/ ChannelFails(p)
      PROVE  UNCHANGED <<phase, have, Stored, announced, Delivering>>
  BY <1>7, <1>g DEF ChannelOpens, ChannelFails, NoScheduling
<1>8. ASSUME NEW c \in Chunks, NEW b \in Blocks, NEW ok \in BOOLEAN, HandleBlock(c, b, ok)
      PROVE  UNCHANGED <<phase, have, Stored, announced, Delivering>>
  BY <1>8, <1>g DEF HandleBlock, NoScheduling
<1>o. ASSUME NEW c \in Chunks, HandleOverrun(c)
      PROVE  UNCHANGED <<phase, have, Stored, announced, Delivering>>
  BY <1>o, <1>g DEF HandleOverrun
<1>9. ASSUME NEW c \in Chunks, NEW b \in Blocks, NEW ok \in BOOLEAN, HandleLastBlock(c, b, ok)
      PROVE  Deliveries!Next
  <2> DEFINE whole == \A e \in reassembly[c] \cup {<<b, ok>>} : e[2]
             v == VerifyTask(c, "p2p", whole)
             e == [chunk |-> c, source |-> "p2p"]
  <2>1. tasks' = Spawn(tasks, v) /\ phase' = phase /\ diskVars' = diskVars /\ inFlight[c] # NoRequest
    BY <1>9 DEF HandleLastBlock
  <2>2. v \in Task /\ DeliveryOf(v) = e /\ e \in Delivery
    <3>1. whole \in BOOLEAN
      OBVIOUS
    <3> HIDE DEF whole
    <3>2. QED
      BY <3>1 DEF VerifyTask, Task, DeliveryOf, Delivery
  <2> HIDE DEF v, e
  <2>3. phase = "running"
    BY <1>a, <2>1 DEF NoLeftovers, Busy
  <2>4. \A d \in Delivery : UnderwayIn(tasks', d) = UnderwayIn(tasks, d) + (IF d = e THEN 1 ELSE 0)
    BY <1>d, <2>1, <2>2, SpawnUnderway
  <2>5. \A d \in Delivery : Underway(d)' = IF d = e THEN Underway(d) + 1 ELSE Underway(d)
    <3>1. \A d \in Delivery : UnderwayIn(tasks, d) \in Nat
      BY <1>d, UnderwayIsNat
    <3>2. \A d \in Delivery : Underway(d)' = UnderwayIn(tasks', d) /\ Underway(d) = UnderwayIn(tasks, d)
      BY DEF Underway, UnderwayIn
    <3>3. QED
      BY <2>4, <3>1, <3>2
  <2>6. Delivering' = [Delivering EXCEPT ![e] = @ + 1]
    BY <2>2, <2>5 DEF Delivering, Delivery
  <2>7. Deliveries!BeginFromPeer(c)
    BY <1>e, <2>1, <2>3, <2>6 DEF Deliveries!BeginFromPeer, Stored, e, Delivering, Delivery
  <2>8. QED
    BY <2>7 DEF Deliveries!Next
<1>10. ASSUME NEW c \in Chunks, HandleTimeout(c)
       PROVE  Deliveries!Next
  <2> DEFINE freed   == [inFlight EXCEPT ![c] = NoRequest]
             retries == [d \in {c} |-> inFlight[d].retries + 1]
  <2>1. freed \in [Chunks -> Request \cup {NoRequest}] /\ \A d \in {c} : freed[d] = NoRequest
    BY <1>a DEF TypeOK
  <2>2. retries \in [{c} -> Nat]
    <3>1. inFlight[c] \in Request
      BY <1>a, <1>10 DEF TypeOK, HandleTimeout
    <3>2. inFlight[c].retries + 1 \in Nat
      BY <3>1, CapsAssumption DEF Request
    <3>3. QED
      BY <3>2
  <2>3. Settle(UNION {ScheduleNext(u) :
            u \in ScheduleChunks(Sched(freed, originInFlight, tasks), {c}, retries)})
    BY <1>10 DEF HandleTimeout
  <2>4. phase' = phase /\ phase' = "running" /\ diskVars' = diskVars
    BY <1>10, <1>a DEF HandleTimeout, NoLeftovers, Busy
  <2> HIDE DEF freed, retries
  <2>5. Deliveries!Changes({}, {})
    BY <1>a, <1>b, <1>c, <2>1, <2>2, <2>3, <2>4, RetryChanges
  <2>6. QED
    BY <1>f, <2>4, <2>5
<1>11. ASSUME NEW c \in Chunks, FetchRejects(c)
       PROVE  Deliveries!Next
  <2>1. /\ FetchTask(c) \in Task /\ tasks[FetchTask(c)] > 0 /\ phase' = phase /\ diskVars' = diskVars
        /\ Finish(FetchTask(c), originInFlight, tasks)
    BY <1>11 DEF FetchRejects, Pending, FetchTask, Task
  <2>2. Deliveries!Changes({DeliveryOf(FetchTask(c))}, {})
    BY <1>a, <1>b, <1>c, <2>1, EndChanges
  <2>3. QED
    BY <1>m, <2>1, <2>2
<1>12. ASSUME NEW c \in Chunks, NEW ok \in BOOLEAN, FetchResolves(c, ok)
       PROVE  UNCHANGED <<phase, have, Stored, announced, Delivering>>
  <2> DEFINE v == VerifyTask(c, "origin", ok)
             f == FetchTask(c)
  <2>1. v \in Task /\ f \in Task /\ v.chunk = f.chunk /\ v.source = f.source
    BY DEF Task, VerifyTask, FetchTask
  <2>2. tasks' = Spawn(Retire(tasks, f), v) /\ tasks[f] > 0 /\ UNCHANGED <<phase, diskVars>>
    BY <1>12 DEF FetchResolves, Pending
  <2> HIDE DEF v, f
  <2>3. QED
    BY <1>k, <2>1, <2>2
<1>13. ASSUME NEW t \in Task, VerifyAccepts(t)
       PROVE  UNCHANGED <<phase, have, Stored, announced, Delivering>>
  <2> DEFINE w == PutTask(t)
  <2>1. w \in Task /\ w.source = t.source /\ w.chunk = t.chunk
    BY <1>13 DEF VerifyAccepts, PutTask, Task
  <2>2. tasks' = Spawn(Retire(tasks, t), w) /\ tasks[t] > 0 /\ UNCHANGED <<phase, diskVars>>
    BY <1>13 DEF VerifyAccepts, Pending
  <2> HIDE DEF w
  <2>3. QED
    BY <1>k, <2>1, <2>2
<1>14. ASSUME NEW t \in Task, VerifyRejects(t)
       PROVE  Deliveries!Next
  <2> DEFINE now == Sched(inFlight, originInFlight, tasks)
             s == ToOrigin(now, {t.chunk})
             d == DeliveryOf(t)
             o == [chunk |-> t.chunk, source |-> "origin"]
             again == t.chunk \notin have /\ t.chunk \notin originInFlight
  <2>1. now \in SchedStates /\ now.org = originInFlight /\ now.work = tasks
    BY <1>a, SchedNow DEF Sched
  <2>2. {t.chunk} \in SUBSET Chunks /\ {t.chunk} \cap Chunks = {t.chunk} /\ t.chunk \in Chunks
    BY DEF Task
  <2>3. /\ Finish(t, s.org, s.work) /\ tasks[t] > 0 /\ t.stage = "verify"
        /\ phase' = phase /\ diskVars' = diskVars /\ have' = have
    BY <1>14 DEF VerifyRejects, Pending, diskVars
  <2>4. s.org = IF again THEN originInFlight \cup {t.chunk} ELSE originInFlight
    BY <2>1, <2>3 DEF ToOrigin, Sched
  <2> HIDE DEF now
  <2>5. s \in SchedStates /\ OnlyFetches(tasks, s.work) /\ Schedules(now, s)
    BY <2>1, <2>2, ToOriginLemma, ToOriginSchedules
  <2> HIDE DEF s
  <2>6. phase' = "running" => BackedIn(s.org, s.work)
    BY <1>c, <2>1, <2>3, <2>5, SchedulesBacked
  <2>7. s.org \in SUBSET Chunks /\ s.work \in [Task -> Nat] /\ s.work[t] > 0
    BY <2>3, <2>5 DEF SchedStates, OnlyFetches
  <2>8. /\ d \in Delivery /\ o \in Delivery /\ Underway(d) > 0 /\ d.chunk = t.chunk /\ d.source = t.source
        /\ o.chunk = t.chunk /\ o.source = "origin"
    BY <1>l, <2>2, <2>3 DEF Delivery, DeliveryOf
  <2>9. \A e \in Delivery : UnderwayIn(s.work, e) = Underway(e) + (IF again /\ e = o THEN 1 ELSE 0)
    <3> SUFFICES ASSUME NEW e \in Delivery
                 PROVE  UnderwayIn(s.work, e) = Underway(e) + (IF again /\ e = o THEN 1 ELSE 0)
      OBVIOUS
    <3>1. UnderwayIn(s.work, e) = UnderwayIn(tasks, e)
             + (IF e.source = "origin" /\ e.chunk \in s.org \ originInFlight THEN 1 ELSE 0)
      BY <2>1, <2>5, SchedulesUnderway
    <3>2. (e.source = "origin" /\ e.chunk \in s.org \ originInFlight) <=> (again /\ e = o)
      BY <2>4 DEF Delivery
    <3>3. QED
      BY <3>1, <3>2 DEF Underway
  <2>10. \A e \in Delivery : Underway(e) \in Nat
    BY <1>d, UnderwayIsNat DEF Underway
  <2> HIDE DEF again, d, o
  (* The origin works on it, or it is held by now: the delivery ends in nothing. *)
  <2>11. CASE ~again
    <3>1. \A e \in Delivery : UnderwayIn(s.work, e) - (IF e = DeliveryOf(t) THEN 1 ELSE 0) =
              Underway(e) + (IF e \in {} THEN 1 ELSE 0) - (IF e \in {DeliveryOf(t)} THEN 1 ELSE 0)
      BY <2>9, <2>10, <2>11
    <3>2. Deliveries!Changes({DeliveryOf(t)}, {})
      BY <1>a, <1>b, <2>3, <2>6, <2>7, <3>1, FinishChanges
    <3>3. QED
      BY <1>m, <2>3, <3>2
  (* The origin is asked for what a peer sent corrupt. *)
  <2>12. CASE again /\ t.source = "p2p"
    <3>1. \A e \in Delivery : UnderwayIn(s.work, e) - (IF e = DeliveryOf(t) THEN 1 ELSE 0) =
              Underway(e) + (IF e \in {o} THEN 1 ELSE 0) - (IF e \in {d} THEN 1 ELSE 0)
      BY <2>9, <2>10, <2>12 DEF d
    <3>2. Deliveries!Changes({d}, {o})
      BY <1>a, <1>b, <2>3, <2>6, <2>7, <3>1, FinishChanges
    <3>3. Deliveries!From("origin", {d.chunk}) = {o}
      <4>1. \A x \in [chunk : {t.chunk}, source : {"origin"}] : x = o
        BY DEF o
      <4>2. o \in [chunk : {t.chunk}, source : {"origin"}]
        BY DEF o
      <4>3. QED
        BY <2>8, <4>1, <4>2 DEF Deliveries!From
    <3>4. phase = "running" => Delivering[o] = 0
      BY <1>c, <1>d, <2>8, <2>12, UnclaimedUnderway DEF again, Underway, Delivering
    <3>5. Delivering[d] > 0 /\ d.source = "p2p" /\ d.chunk \notin have
      BY <2>8, <2>12 DEF Delivering, again
    <3>6. Deliveries!Refetch(d)
      BY <1>e, <2>3, <3>2, <3>3, <3>4, <3>5 DEF Deliveries!Refetch, Stored, Delivering, Delivery
    <3>7. QED
      BY <2>8, <3>6 DEF Deliveries!Next, Deliveries!Delivery, Delivery
  (* After stop() an origin task finds its claim given up and asks again: one download for one. *)
  <2>13. CASE again /\ t.source # "p2p"
    <3>1. d = o
      BY <2>8, <2>13 DEF Delivery
    <3>2. \A e \in Delivery : UnderwayIn(s.work, e) - (IF e = DeliveryOf(t) THEN 1 ELSE 0) =
              Underway(e) + (IF e \in {} THEN 1 ELSE 0) - (IF e \in {} THEN 1 ELSE 0)
      BY <2>9, <2>10, <2>13, <3>1 DEF d
    <3>3. Deliveries!Changes({}, {})
      BY <1>a, <1>b, <2>3, <2>6, <2>7, <3>2, FinishChanges
    <3>4. QED
      BY <1>f, <2>3, <3>3
  <2>14. QED
    BY <2>11, <2>12, <2>13
<1>15. ASSUME NEW t \in Task, PutSucceeds(t)
       PROVE  Deliveries!Next
  <2> DEFINE d == DeliveryOf(t)
  <2>1. /\ tasks[t] > 0 /\ phase' = phase /\ t.intact /\ d \in Delivery /\ d.chunk = t.chunk
        /\ Finish(t, originInFlight, tasks)
    BY <1>15, <1>a, <1>l DEF PutSucceeds, Pending, IntactPuts, DeliveryOf
  <2>2. Deliveries!Changes({d}, {})
    BY <1>a, <1>b, <1>c, <2>1, EndChanges
  <2>3. Delivering[d] > 0
    BY <1>l, <2>1 DEF Delivering
  <2>4. /\ have' = have \cup {d.chunk} /\ announced' = announced \cup {d.chunk}
        /\ Stored' = Stored \cup {d.chunk}
    BY <1>15, <1>a, <2>1 DEF PutSucceeds, Stored, TypeOK, Delivery
  <2> HIDE DEF d
  <2>5. Deliveries!Land(d)
    BY <2>1, <2>2, <2>3, <2>4 DEF Deliveries!Land, Stored, Delivering, Delivery
  <2>6. QED
    BY <2>1, <2>5 DEF Deliveries!Next, Deliveries!Delivery, Delivery
<1>16. ASSUME NEW t \in Task, TaskRejects(t)
       PROVE  Deliveries!Next
  <2>1. tasks[t] > 0 /\ phase' = phase /\ diskVars' = diskVars
    BY <1>16 DEF TaskRejects, Pending
  <2>2. CASE t.source = "origin"
    <3>1. Finish(t, originInFlight, tasks)
      BY <1>16, <2>2 DEF TaskRejects
    <3>2. QED
      BY <1>a, <1>b, <1>c, <1>m, <2>1, <3>1, EndChanges
  <2>3. CASE t.source # "origin"
    <3> DEFINE s == Sched(inFlight, originInFlight, Retire(tasks, t))
    <3>1. tasks' = Retire(tasks, t)
      BY <1>16, <2>3 DEF TaskRejects
    <3>2. /\ Retire(tasks, t) \in [Task -> Nat]
          /\ \A d \in Delivery : UnderwayIn(Retire(tasks, t), d)
                                   = UnderwayIn(tasks, d) - (IF d = DeliveryOf(t) THEN 1 ELSE 0)
      BY <1>d, <2>1, RetireUnderway
    <3>3. s \in SchedStates /\ s.org = originInFlight /\ s.work = tasks'
      BY <1>a, <3>1, <3>2 DEF Sched, SchedStates, TypeOK
    <3>4. phase # "stopped" => BackedIn(originInFlight, Retire(tasks, t))
      BY <1>c, <1>d, <2>1, <2>3, RetireBacked
    <3>5. \A d \in Delivery : UnderwayIn(s.work, d) =
              Underway(d) + (IF d \in {} THEN 1 ELSE 0) - (IF d \in {DeliveryOf(t)} THEN 1 ELSE 0)
      BY <1>d, <3>1, <3>2, <3>3, UnderwayIsNat DEF Underway
    <3> HIDE DEF s
    <3>6. Deliveries!Changes({DeliveryOf(t)}, {})
      BY <1>a, <2>1, <3>1, <3>3, <3>4, <3>5, SchedulesNothing, HandlerChanges
    <3>7. QED
      BY <1>m, <2>1, <3>6
  <2>4. QED
    BY <2>2, <2>3
<1>17. CASE UNCHANGED vars
  BY <1>17, <1>g DEF vars, diskVars
<1> DEFINE Follows == Deliveries!Next \/ UNCHANGED <<phase, have, Stored, announced, Delivering>>
<1>18. Follows
  <2>1. CASE PeerEvent
    <3>1. PICK p \in Peers : \/ \E S \in SUBSET Chunks : UpdatePeerBitfield(p, S)
                             \/ \E c \in Chunks : UpdatePeerHave(p, c)
                             \/ \E isChoked \in BOOLEAN : SetPeerChoked(p, isChoked)
                             \/ RemovePeer(p) \/ ChannelOpens(p) \/ ChannelFails(p)
      BY <2>1 DEF PeerEvent
    <3>2. QED
      BY <1>3, <1>4, <1>5, <1>6, <1>7, <3>1, Zenon
  <2>2. CASE BlockArrives
    BY <1>8, <1>9, <1>o, <2>2 DEF BlockArrives
  <2>3. CASE Settles
    BY <1>11, <1>12, <1>13, <1>14, <1>15, <1>16, <2>3 DEF Settles
  <2> HIDE DEF Follows
  <2>4. QED
    BY <1>1, <1>2, <1>10, <1>17, <2>1, <2>2, <2>3 DEF Next, Follows
<1>19. QED
  BY <1>18

\* Requests, blocks, timers, digests, writes and retries come to this: deliveries that end once,
\* in the store, the bitfield and a HAVE or in nothing, and no origin download of a chunk that is
\* held or being downloaded.
THEOREM ChunksDelivered == Spec => DeliversChunks
<1>1. Init => CInv
  <2>1. Init => BackedIn(originInFlight, tasks)
    BY DEF Init, BackedIn, OriginTasks
  <2>2. QED
    BY <2>1, InitIInv DEF CInv
<1>2. Init => Deliveries!Init
  <2> SUFFICES ASSUME Init PROVE Deliveries!Init
    OBVIOUS
  <2>1. \A d \in Delivery : Underway(d) = 0
    <3> SUFFICES ASSUME NEW d \in Delivery PROVE Underway(d) = 0
      OBVIOUS
    <3> DEFINE yes(stage) == tasks[AwaitOf(d, stage, TRUE)]
               no(stage)  == tasks[AwaitOf(d, stage, FALSE)]
    <3>1. \A stage \in Stages : yes(stage) = 0 /\ no(stage) = 0
      BY AwaitsOf DEF Init
    <3>2. Underway(d) = yes("fetch") + no("fetch") + yes("verify") + no("verify")
                           + yes("put") + no("put")
      BY UnderwaySum DEF Underway
    <3> HIDE DEF yes, no
    <3>3. QED
      BY <3>1, <3>2 DEF Stages
  <2>2. Stored = have /\ have \in SUBSET Chunks
    BY DEF Init, Stored
  <2>3. Delivering = [d \in Delivery |-> 0]
    BY <2>1 DEF Delivering
  <2>4. QED
    BY <2>2, <2>3 DEF Init, Deliveries!Init, Deliveries!Delivery, Stored, Delivering, Delivery
<1>3. CInv /\ [Next]_vars => [Deliveries!Next]_(Deliveries!vars)
  BY StepDelivers DEF Deliveries!vars, Stored, Delivering, Delivery
<1>4. QED
  BY <1>1, <1>2, <1>3, NextCInv, PTL DEF Spec, DeliversChunks, Deliveries!Spec
=============================================================================
