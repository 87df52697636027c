------------------------- MODULE DownloadSessionProofs -------------------------
(***************************************************************************)
(* Theorems about DownloadSession, for any resources, peers and number of  *)
(* downloads.                                                              *)
(***************************************************************************)
EXTENDS DownloadSession, TLAPS, FiniteSetTheorems

\* What was started has a resource; a bitfield is backed by the store, a delivery is of a
\* chunk of its resource.
Grounded ==
    /\ \A d \in Downloads : d > starts =>
          stage[d] = "unused" /\ resource[d] = NoResource /\ have[d] = {}
    /\ \A d \in Downloads : d <= starts =>
          resource[d] \in Resources /\ have[d] \subseteq store[resource[d]]
    /\ \A r \in Resources : store[r] \subseteq ChunksOf[r]
    /\ \A t \in deliveries : t.download <= starts /\ t.chunk \in ChunksOf[resource[t.download]]

\* OneScheduler, strengthened: without crossing calls there is one download that runs or awaits.
OneAtATime ==
    ~crossed =>
        /\ OneScheduler
        /\ \A d \in Awaiting : /\ ~stopped
                               /\ manifest = resource[d]
                               /\ \A e \in Downloads : stage[e] # "running"
                               /\ \A e \in Awaiting : e = d

Typed == TypeOK /\ Grounded

-----------------------------------------------------------------------------
LEMMA ConstantFacts ==
    /\ \A d \in Downloads : d \in Nat /\ d # NoDownload
    /\ \A r \in Resources : ChunksOf[r] \subseteq Chunks
    /\ NoResource \notin Resources
BY BoundsAssumption, ResourcesAssumption DEF Downloads, NoDownload, Chunks

\* Whatever is counted is a number.
LEMMA CountsAreNumbers ==
    ASSUME NEW r \in Resources, NEW bits \in SUBSET ChunksOf[r]
    PROVE  Cardinality(bits) \in Nat
BY ChunksAssumption, FS_Subset, FS_CardinalityType

\* A download that left "unused" was started.
LEMMA StartedFacts ==
    ASSUME Typed, NEW d \in Downloads
    PROVE  /\ d <= starts \/ d > starts
           /\ stage[d] # "unused" => d <= starts
           /\ resource[d] \in Resources <=> d <= starts
           /\ d <= starts => have[d] \subseteq ChunksOf[resource[d]]
<1>1. d <= starts \/ d > starts
  BY BoundsAssumption DEF Typed, TypeOK, Downloads
<1>2. ~(d <= starts /\ d > starts)
  BY BoundsAssumption DEF Typed, TypeOK, Downloads
<1> QED
  BY <1>1, <1>2, ConstantFacts DEF Typed, TypeOK, Grounded

\* Stopping the current scheduler leaves a well-typed stage, and nothing else.
LEMMA HaltedStage ==
    ASSUME TypeOK
    PROVE  /\ Halted(stage) \in [Downloads -> {"unused", "loading", "loaded", "running", "stopped",
                                               "complete", "failed"}]
           /\ \A d \in Downloads :
                 \/ Halted(stage)[d] = stage[d] /\ (stage[d] = "running" => scheduler # d)
                 \/ stage[d] = "running" /\ scheduler = d /\ Halted(stage)[d] = "stopped"
BY DEF TypeOK, Halted, NoDownload, Downloads

LEMMA TypedInit == Init => Typed
<1> SUFFICES ASSUME Init PROVE Typed
  OBVIOUS
<1>1. Zero \in Counters
  BY DEF Counters, Zero
<1>2. starts \in 0..MaxStarts /\ connects \in 0..MaxConnects /\ repeats \in 0..MaxStarts
  BY BoundsAssumption DEF Init
<1>3. TypeOK
  BY <1>1, <1>2 DEF Init, TypeOK
<1>4. Grounded
  BY BoundsAssumption DEF Init, Grounded, Downloads
<1> QED
  BY <1>3, <1>4 DEF Typed

\* A delivery that ends leaves no other than there were.
LEMMA EndsFacts ==
    ASSUME Typed, NEW t, NEW D, Ends(t, D)
    PROVE  D \subseteq deliveries /\ repeats' \in 0..MaxStarts
<1>1. Again => repeats' \in 0..MaxStarts
  BY BoundsAssumption DEF Again, Typed, TypeOK
<1> QED
  BY <1>1 DEF Ends, Typed, TypeOK

LEMMA TypedStep == Typed /\ [Next]_vars => Typed'
<1> SUFFICES ASSUME Typed, [Next]_vars PROVE Typed'
  OBVIOUS
<1> USE ConstantFacts DEF underway
<1>1. ASSUME NEW r \in Resources, StartDownload(r) PROVE Typed'
  <2>1. starts + 1 \in Downloads /\ starts' \in 0..MaxStarts
    BY <1>1, BoundsAssumption DEF StartDownload, Typed, TypeOK, Downloads
  <2>2. TypeOK'
    BY <1>1, <2>1, HaltedStage DEF StartDownload, Typed, TypeOK, Counters, Zero, peerVars, Halted
  <2>3. Grounded'
    <3>1. /\ starts' = starts + 1
          /\ resource' = [resource EXCEPT ![starts + 1] = r]
          /\ UNCHANGED <<have, store, deliveries>>
      BY <1>1 DEF StartDownload
    <3>2. starts \in Nat
      BY BoundsAssumption DEF Typed, TypeOK
    <3>3. have[starts + 1] = {} /\ resource[starts + 1] = NoResource
      BY <2>1, <3>2 DEF Typed, Grounded
    <3>4. ASSUME NEW e \in Downloads, e > starts'
          PROVE  stage'[e] = "unused" /\ resource'[e] = NoResource /\ have'[e] = {}
      <4>1. e > starts /\ e # starts + 1
        BY <3>1, <3>2, <3>4
      <4>2. stage[e] = "unused" /\ resource[e] = NoResource /\ have[e] = {}
        BY <4>1 DEF Typed, Grounded
      <4>3. stage'[e] = Halted(stage)[e]
        <5>1. stage' = [Halted(stage) EXCEPT ![starts + 1] = "loading"]
          BY <1>1 DEF StartDownload
        <5>2. Halted(stage) \in [Downloads -> {"unused", "loading", "loaded", "running", "stopped",
                                              "complete", "failed"}]
          BY HaltedStage DEF Typed
        <5> QED
          BY <4>1, <5>1, <5>2
      <4> QED
        BY <3>1, <4>1, <4>2, <4>3, HaltedStage DEF Typed, TypeOK
    <3>5. ASSUME NEW e \in Downloads, e <= starts'
          PROVE  resource'[e] \in Resources /\ have'[e] \subseteq store'[resource'[e]]
      <4>1. e <= starts \/ e = starts + 1
        BY <3>1, <3>2, <3>5
      <4>2. CASE e <= starts
        <5>1. resource[e] \in Resources /\ have[e] \subseteq store[resource[e]]
          BY <4>2 DEF Typed, Grounded
        <5>2. resource'[e] = resource[e]
          BY <3>1, <3>2, <4>2 DEF Typed, TypeOK
        <5> QED
          BY <3>1, <5>1, <5>2
      <4>3. CASE e = starts + 1
        <5>1. resource'[e] = r
          BY <2>1, <3>1, <4>3 DEF Typed, TypeOK
        <5> QED
          BY <3>1, <3>3, <4>3, <5>1
      <4> QED
        BY <4>1, <4>2, <4>3
    <3>6. ASSUME NEW t \in deliveries'
          PROVE  t.download <= starts' /\ t.chunk \in ChunksOf[resource'[t.download]]
      <4>1. t \in deliveries /\ t \in Delivery
        BY <3>1, <3>6 DEF Typed, TypeOK
      <4>2. t.download \in Downloads /\ t.download <= starts
        BY <4>1 DEF Typed, Grounded, Delivery
      <4>3. t.download # starts + 1 /\ resource'[t.download] = resource[t.download]
        BY <3>1, <3>2, <4>2 DEF Typed, TypeOK
      <4>4. t.chunk \in ChunksOf[resource[t.download]]
        BY <4>1 DEF Typed, Grounded
      <4> QED
        BY <3>1, <3>2, <4>2, <4>3, <4>4
    <3> QED
      BY <3>1, <3>4, <3>5, <3>6 DEF Typed, Grounded
  <2> QED
    BY <2>2, <2>3 DEF Typed
<1>2. ASSUME NEW d \in Downloads, ReadAvailable(d) PROVE Typed'
  <2>1. d <= starts
    BY <1>2, StartedFacts DEF ReadAvailable
  <2>2. TypeOK'
    BY <1>2, <2>1 DEF ReadAvailable, Typed, TypeOK, Grounded, peerVars, viewVars, history
  <2>3. Grounded'
    BY <1>2, <2>1 DEF ReadAvailable, Typed, TypeOK, Grounded, peerVars, viewVars, history
  <2> QED
    BY <2>2, <2>3 DEF Typed
<1>3. ASSUME NEW d \in Downloads, ResumeStart(d) PROVE Typed'
  <2>1. d <= starts /\ resource[d] \in Resources /\ have[d] \subseteq ChunksOf[resource[d]]
    BY <1>3, StartedFacts DEF ResumeStart
  <2>2. Cardinality(have[d]) \in Nat
    BY <2>1, CountsAreNumbers
  <2>3. told' \subseteq Claim
    BY <1>3, <2>1 DEF ResumeStart, Typed, TypeOK, Claims, Claim
  <2>4. TypeOK'
    BY <1>3, <2>1, <2>2, <2>3 DEF ResumeStart, ShowStart, Typed, TypeOK, Counters, Zero, peerVars
  <2>5. Grounded'
    BY <1>3, <2>1 DEF ResumeStart, Typed, TypeOK, Grounded, peerVars
  <2> QED
    BY <2>4, <2>5 DEF Typed
<1>4. ASSUME NEW d \in Downloads, ResumeComplete(d) PROVE Typed'
  <2>1. d <= starts /\ resource[d] \in Resources /\ have[d] \subseteq ChunksOf[resource[d]]
    BY <1>4, StartedFacts DEF ResumeComplete
  <2>2. Cardinality(have[d]) \in Nat
    BY <2>1, CountsAreNumbers
  <2>3. TypeOK'
    BY <1>4, <2>1, <2>2 DEF ResumeComplete, ShowStart, Typed, TypeOK, Counters, Zero, peerVars,
       history
  <2>4. Grounded'
    BY <1>4, <2>1 DEF ResumeComplete, Typed, TypeOK, Grounded, peerVars, history
  <2> QED
    BY <2>3, <2>4 DEF Typed
<1>5. ASSUME NEW d \in Downloads, NEW c \in Chunks, NEW s \in Sources, Begin(d, c, s)
      PROVE  Typed'
  <2>1. d <= starts
    BY <1>5, StartedFacts DEF Begin
  <2>2. repeats' \in 0..MaxStarts
    BY <1>5, BoundsAssumption DEF Begin, Again, Typed, TypeOK
  <2>3. TypeOK'
    BY <1>5, <2>2 DEF Begin, Typed, TypeOK, Delivery, peerVars, viewVars, history
  <2>4. Grounded'
    BY <1>5, <2>1 DEF Begin, Typed, TypeOK, Grounded, peerVars, viewVars, history
  <2> QED
    BY <2>3, <2>4 DEF Typed
<1>6. ASSUME NEW t \in deliveries, Land(t) PROVE Typed'
  <2> DEFINE d == t.download
             bits == have[d] \cup {t.chunk}
  <2>1. /\ t \in Delivery /\ d \in Downloads /\ d <= starts /\ resource[d] \in Resources
        /\ t.chunk \in Chunks /\ t.source \in Sources
        /\ bits \in SUBSET ChunksOf[resource[d]]
    <3>1. /\ t \in Delivery /\ d <= starts /\ t.chunk \in ChunksOf[resource[d]]
      BY DEF Typed, TypeOK, Grounded
    <3>2. d \in Downloads /\ t.chunk \in Chunks /\ t.source \in Sources
      BY <3>1 DEF Delivery
    <3> QED
      BY <3>1, <3>2, StartedFacts
  <2>2. Cardinality(bits) \in Nat
    BY <2>1, CountsAreNumbers
  <2>3. told' \subseteq Claim
    BY <1>6, <2>1 DEF Land, Typed, TypeOK, Claims, Claim
  <2>4. telemetry' \in Counters /\ shown'.counts \in Counters
    BY <1>6, <2>1 DEF Land, Typed, TypeOK, Counters
  <2>5. shown' \in [resource : Resources \cup {NoResource}, done : Nat, counts : Counters,
                    status : {"idle", "downloading", "completed"}]
    BY <1>6, <2>1, <2>2, <2>4 DEF Land, Typed, TypeOK
  <2>e. deliveries' \subseteq deliveries /\ repeats' \in 0..MaxStarts
    BY <1>6, EndsFacts DEF Land
  <2>6. TypeOK'
    BY <1>6, <2>1, <2>3, <2>4, <2>5, <2>e DEF Land, Typed, TypeOK, peerVars
  <2>7. Grounded'
    BY <1>6, <2>1, <2>e DEF Land, Typed, TypeOK, Grounded, peerVars
  <2> QED
    BY <2>6, <2>7 DEF Typed
<1>7. ASSUME NEW t \in deliveries, Fail(t) PROVE Typed'
  <2>e. deliveries' \subseteq deliveries /\ repeats' \in 0..MaxStarts
    BY <1>7, EndsFacts DEF Fail
  <2>1. TypeOK'
    BY <1>7, <2>e DEF Fail, Reschedules, Typed, TypeOK, peerVars, history
  <2>2. Grounded'
    BY <1>7, <2>e DEF Fail, Typed, Grounded, peerVars, history
  <2> QED
    BY <2>1, <2>2 DEF Typed
<1>8. ASSUME NEW t \in deliveries, Refetch(t) PROVE Typed'
  <2> DEFINE u == [t EXCEPT !.source = "origin"]
  <2>1. t \in Delivery
    BY DEF Typed, TypeOK
  <2>2. u \in Delivery /\ u.download = t.download /\ u.chunk = t.chunk
    BY <2>1 DEF Delivery, Sources
  <2>e. (\A v \in deliveries' : v \in deliveries \/ v = u) /\ repeats' \in 0..MaxStarts
    BY <1>8, EndsFacts DEF Refetch
  <2>3. TypeOK'
    BY <1>8, <2>2, <2>e DEF Refetch, Typed, TypeOK, peerVars, viewVars, history
  <2>4. Grounded'
    <3>1. \A v \in deliveries' : v \in deliveries \/ v = u
      BY <2>e
    <3>2. UNCHANGED <<starts, stage, resource, have, store>>
      BY <1>8 DEF Refetch
    <3>3. \A v \in deliveries : v.download <= starts /\ v.chunk \in ChunksOf[resource[v.download]]
      BY DEF Typed, Grounded
    <3>4. \A v \in deliveries' : v.download <= starts /\ v.chunk \in ChunksOf[resource[v.download]]
      BY <2>2, <3>1, <3>3
    <3> QED
      BY <3>2, <3>4 DEF Typed, Grounded
  <2> QED
    BY <2>3, <2>4 DEF Typed
<1>9. ASSUME Stop PROVE Typed'
  <2>1. TypeOK'
    BY <1>9, HaltedStage DEF Stop, Typed, TypeOK, NoDownload
  <2>2. Grounded'
    BY <1>9, HaltedStage DEF Stop, Typed, TypeOK, Grounded
  <2> QED
    BY <2>1, <2>2 DEF Typed
<1>10. ASSUME NEW p \in Peers, Connect(p) \/ ChannelOpen(p) \/ PeerLeft(p) PROVE Typed'
  <2>1. CASE Connect(p)
    <3>1. TypeOK'
      BY <2>1, BoundsAssumption DEF Connect, Typed, TypeOK, dlVars, viewVars, history
    <3>2. Grounded'
      BY <2>1 DEF Connect, Typed, Grounded, dlVars, viewVars, history
    <3> QED
      BY <3>1, <3>2 DEF Typed
  <2>2. CASE ChannelOpen(p)
    <3>1. told' \subseteq Claim
      BY <2>2 DEF ChannelOpen, Typed, TypeOK, Claims, Claim
    <3>2. TypeOK'
      BY <2>2, <3>1 DEF ChannelOpen, Typed, TypeOK, dlVars, viewVars
    <3>3. Grounded'
      BY <2>2 DEF ChannelOpen, Typed, Grounded, dlVars, viewVars
    <3> QED
      BY <3>2, <3>3 DEF Typed
  <2>3. CASE PeerLeft(p)
    <3>1. TypeOK'
      BY <2>3 DEF PeerLeft, Reschedules, Typed, TypeOK, history
    <3>2. Grounded'
      BY <2>3 DEF PeerLeft, Typed, Grounded, history
    <3> QED
      BY <3>1, <3>2 DEF Typed
  <2> QED
    BY <1>10, <2>1, <2>2, <2>3
<1>11. ASSUME NEW p \in Peers, NEW r \in Resources, Bitfield(p, r) \/ Have(p, r) PROVE Typed'
  <2>1. TypeOK'
    BY <1>11 DEF Bitfield, Have, Learns, Reschedules, Typed, TypeOK, history
  <2>2. Grounded'
    BY <1>11 DEF Bitfield, Have, Typed, Grounded, history
  <2> QED
    BY <2>1, <2>2 DEF Typed
<1>12. CASE UNCHANGED vars
  BY <1>12 DEF vars, dlVars, peerVars, viewVars, history, Typed, TypeOK, Grounded
<1>13. ASSUME NEW d \in Downloads, ReadFails(d) PROVE Typed'
  <2>1. d <= starts
    BY <1>13, StartedFacts DEF ReadFails
  <2>2. TypeOK'
    BY <1>13, <2>1 DEF ReadFails, Typed, TypeOK, Grounded, peerVars, viewVars, history
  <2>3. Grounded'
    BY <1>13, <2>1 DEF ReadFails, Typed, TypeOK, Grounded, peerVars, viewVars, history
  <2> QED
    BY <2>2, <2>3 DEF Typed
<1> QED
  BY <1>13, <1>1, <1>2, <1>3, <1>4, <1>5, <1>6, <1>7, <1>8, <1>9, <1>10, <1>11, <1>12 DEF Next

LEMMA TypedHolds == Spec => []Typed
BY TypedInit, TypedStep, PTL DEF Spec

-----------------------------------------------------------------------------
\* Nothing that is stored is ever removed, and downloads keep their resource.
LEMMA StoreGrows ==
    ASSUME Typed, [Next]_vars
    PROVE  \A r \in Resources : store[r] \subseteq store'[r]
<1>1. ASSUME NEW t \in deliveries, Land(t) PROVE \A r \in Resources : store[r] \subseteq store'[r]
  BY <1>1 DEF Land, Typed, TypeOK
<1>2. ASSUME UNCHANGED store PROVE \A r \in Resources : store[r] \subseteq store'[r]
  BY <1>2
<1>3. UNCHANGED store \/ \E t \in deliveries : Land(t)
  BY DEF Next, StartDownload, ReadAvailable, ReadFails, ResumeStart, ResumeComplete, Begin, Fail, Refetch,
     Stop, Connect, ChannelOpen, PeerLeft, Bitfield, Have, vars
<1> QED
  BY <1>1, <1>2, <1>3

LEMMA AnnouncedStep == Typed /\ AnnouncedIsStored /\ [Next]_vars => AnnouncedIsStored'
<1> SUFFICES ASSUME Typed, AnnouncedIsStored, [Next]_vars,
                    NEW claim \in told', claim.by # "open"
             PROVE  claim.chunk \in store'[claim.resource]
  BY DEF AnnouncedIsStored
<1> USE ConstantFacts
<1>1. CASE claim \in told
  <2>1. claim.resource \in Resources /\ claim.chunk \in store[claim.resource]
    BY <1>1 DEF AnnouncedIsStored, Typed, TypeOK, Claim
  <2> QED
    BY <2>1, StoreGrows
<1>2. ASSUME NEW d \in Downloads, ResumeStart(d), claim \notin told
      PROVE  claim.chunk \in store'[claim.resource]
  <2>1. claim \in Claims("start", resource[d], have[d])
    BY <1>2 DEF ResumeStart
  <2>2. claim.resource = resource[d] /\ claim.chunk \in have[d]
    BY <2>1 DEF Claims
  <2>3. d <= starts
    BY <1>2, StartedFacts DEF ResumeStart
  <2> QED
    BY <1>2, <2>2, <2>3 DEF ResumeStart, Typed, Grounded
<1>3. ASSUME NEW t \in deliveries, Land(t), claim \notin told
      PROVE  claim.chunk \in store'[claim.resource]
  <2>1. claim \in Claims("have", resource[t.download], {t.chunk})
    BY <1>3 DEF Land
  <2>2. claim.resource = resource[t.download] /\ claim.chunk = t.chunk
    BY <2>1 DEF Claims
  <2>3. resource[t.download] \in Resources
    <3>1. t.download \in Downloads /\ t.download <= starts
      BY DEF Typed, TypeOK, Grounded, Delivery
    <3> QED
      BY <3>1, StartedFacts
  <2> QED
    BY <1>3, <2>2, <2>3 DEF Land, Typed, TypeOK
<1>4. ASSUME NEW p \in Peers, ChannelOpen(p), claim \notin told PROVE FALSE
  BY <1>4 DEF ChannelOpen, Claims
<1>5. \/ claim \in told
      \/ \E d \in Downloads : ResumeStart(d)
      \/ \E t \in deliveries : Land(t)
      \/ \E p \in Peers : ChannelOpen(p)
  BY DEF Next, StartDownload, ReadAvailable, ReadFails, ResumeComplete, Begin, Fail, Refetch, Stop, Connect,
     PeerLeft, Bitfield, Have, vars, history
<1> QED
  BY <1>1, <1>2, <1>3, <1>4, <1>5

\* What is announced by a HAVE or at the start of a download is stored, whatever downloads were
\* started, replaced or stopped meanwhile, and in whatever order their deliveries land.
THEOREM Announced == Spec => []AnnouncedIsStored
<1>1. Init => AnnouncedIsStored
  BY DEF Init, AnnouncedIsStored
<1> QED
  BY <1>1, AnnouncedStep, TypedHolds, PTL DEF Spec

-----------------------------------------------------------------------------
LEMMA DepartedStep == Typed /\ DepartedForgotten /\ [Next]_vars => DepartedForgotten'
<1> SUFFICES ASSUME Typed, DepartedForgotten, [Next]_vars PROVE DepartedForgotten'
  OBVIOUS
<1> USE ConstantFacts DEF DepartedForgotten, Open
<1>1. ASSUME NEW d \in Downloads, ResumeStart(d) PROVE DepartedForgotten'
  BY <1>1 DEF ResumeStart, peerVars, Typed, TypeOK
<1>2. ASSUME Stop PROVE DepartedForgotten'
  BY <1>2 DEF Stop
<1>3. ASSUME NEW p \in Peers, Connect(p) \/ ChannelOpen(p) PROVE DepartedForgotten'
  BY <1>3 DEF Connect, ChannelOpen, dlVars, Typed, TypeOK
<1>4. ASSUME NEW p \in Peers, PeerLeft(p) PROVE DepartedForgotten'
  BY <1>4 DEF PeerLeft, Typed, TypeOK
<1>5. ASSUME NEW p \in Peers, NEW r \in Resources, Bitfield(p, r) \/ Have(p, r)
      PROVE  DepartedForgotten'
  <2>1. /\ conn[p] = "open" /\ peerBitfields' = peerBitfields \cup {p}
        /\ Learns(p, r) \/ UNCHANGED knows
        /\ UNCHANGED <<scheduler, conn>>
    BY <1>5 DEF Bitfield, Have
  <2>2. scheduler # NoDownload => knows'[scheduler] \subseteq knows[scheduler] \cup {p}
    BY <2>1 DEF Learns, Typed, TypeOK
  <2> QED
    BY <2>1, <2>2
<1>6. ASSUME UNCHANGED <<knows, scheduler, peerVars>> PROVE DepartedForgotten'
  BY <1>6 DEF peerVars
<1>7. \/ UNCHANGED <<knows, scheduler, peerVars>>
      \/ \E d \in Downloads : ResumeStart(d)
      \/ Stop
      \/ \E p \in Peers : Connect(p) \/ ChannelOpen(p) \/ PeerLeft(p)
      \/ \E p \in Peers, r \in Resources : Bitfield(p, r) \/ Have(p, r)
  BY DEF Next, StartDownload, ReadAvailable, ReadFails, ResumeComplete, Begin, Land, Fail, Refetch, vars,
     dlVars
<1> QED
  BY <1>1, <1>2, <1>3, <1>4, <1>5, <1>6, <1>7

\* A peer that left is known neither to the coordinator nor to the scheduler in charge.
THEOREM Departed == Spec => []DepartedForgotten
<1>1. Init => DepartedForgotten
  BY DEF Init, DepartedForgotten
<1> QED
  BY <1>1, DepartedStep, TypedHolds, PTL DEF Spec

-----------------------------------------------------------------------------
\* The types of DownloadSession hold, for any resources, peers and number of downloads; the
\* counts that are shown are numbers because no bitfield has more than the resource's chunks.
THEOREM TypeCorrect == Spec => []TypeOK
<1>1. Typed => TypeOK
  BY DEF Typed
<1> QED
  BY <1>1, TypedHolds, PTL

-----------------------------------------------------------------------------
LEMMA OneAtATimeStep == Typed /\ OneAtATime /\ [Next]_vars => OneAtATime'
<1> SUFFICES ASSUME Typed, OneAtATime, [Next]_vars, ~crossed' PROVE OneAtATime'
  BY DEF OneAtATime
<1> USE ConstantFacts
<1>1. ~crossed
  BY DEF Next, StartDownload, ReadAvailable, ReadFails, ResumeStart, ResumeComplete, Begin, Land, Fail,
     Refetch, Stop, Connect, ChannelOpen, PeerLeft, Bitfield, Have, vars, history, Typed, TypeOK
<1>2. /\ \A d \in Downloads : stage[d] = "running" =>
            /\ ~stopped
            /\ scheduler = d
            /\ manifest = resource[d] /\ shown.resource = resource[d]
      /\ \A d \in Awaiting : /\ ~stopped
                             /\ manifest = resource[d]
                             /\ \A e \in Downloads : stage[e] # "running"
                             /\ \A e \in Awaiting : e = d
  BY <1>1 DEF OneAtATime, OneScheduler
<1>3. ASSUME NEW r \in Resources, StartDownload(r) PROVE OneAtATime'
  <2>1. starts + 1 \in Downloads
    BY <1>3, BoundsAssumption DEF StartDownload, Typed, TypeOK, Downloads
  <2>2. Awaiting = {}
    BY <1>3 DEF StartDownload, Awaiting, Typed, TypeOK
  <2>3. \A d \in Downloads : Halted(stage)[d] \notin {"running", "loading", "loaded"}
    BY <1>2, <2>2, HaltedStage DEF Awaiting, Typed
  <2>4. /\ stage' = [Halted(stage) EXCEPT ![starts + 1] = "loading"]
        /\ resource' = [resource EXCEPT ![starts + 1] = r]
        /\ manifest' = r /\ ~stopped /\ UNCHANGED stopped
    BY <1>3 DEF StartDownload
  <2>5. Halted(stage) \in [Downloads -> {"unused", "loading", "loaded", "running", "stopped",
                                        "complete", "failed"}]
    BY HaltedStage DEF Typed
  <2>6. \A d \in Downloads : /\ stage'[d] # "running"
                             /\ stage'[d] \in {"loading", "loaded"} => d = starts + 1
    BY <2>3, <2>4, <2>5
  <2>7. resource'[starts + 1] = r
    BY <2>1, <2>4 DEF Typed, TypeOK
  <2> QED
    BY <2>4, <2>6, <2>7 DEF OneAtATime, OneScheduler, Awaiting
<1>4. ASSUME NEW d \in Downloads, ReadAvailable(d) PROVE OneAtATime'
  <2>1. /\ stage' = [stage EXCEPT ![d] = "loaded"] /\ d \in Awaiting
        /\ UNCHANGED <<resource, manifest, scheduler, shown, stopped>>
    BY <1>4 DEF ReadAvailable, viewVars, Awaiting
  <2>2. \A e \in Downloads : /\ stage'[e] = "running" <=> stage[e] = "running"
                             /\ e \in Awaiting' <=> e \in Awaiting
    BY <2>1 DEF Awaiting, Typed, TypeOK
  <2>3. Awaiting \subseteq Downloads /\ Awaiting' \subseteq Downloads
    BY DEF Awaiting
  <2> QED
    BY <1>2, <2>1, <2>2, <2>3 DEF OneAtATime, OneScheduler
<1>5. ASSUME NEW d \in Downloads, ResumeStart(d) PROVE OneAtATime'
  <2>1. /\ stage' = [stage EXCEPT ![d] = "running"] /\ d \in Awaiting
        /\ scheduler' = d /\ shown'.resource = resource[d]
        /\ UNCHANGED <<resource, manifest, stopped>>
    BY <1>5 DEF ResumeStart, ShowStart, Awaiting
  <2>2. \A e \in Downloads : /\ stage'[e] = "running" <=> e = d
                             /\ e \notin Awaiting'
    BY <1>2, <2>1 DEF Awaiting, Typed, TypeOK
  <2> QED
    BY <1>2, <2>1, <2>2 DEF OneAtATime, OneScheduler, Awaiting
<1>6. ASSUME NEW d \in Downloads, ResumeComplete(d) PROVE OneAtATime'
  <2>1. /\ stage' = [stage EXCEPT ![d] = "complete"] /\ d \in Awaiting
    BY <1>6 DEF ResumeComplete, Awaiting
  <2>2. \A e \in Downloads : stage'[e] # "running" /\ e \notin Awaiting'
    BY <1>2, <2>1 DEF Awaiting, Typed, TypeOK
  <2> QED
    BY <2>2 DEF OneAtATime, OneScheduler, Awaiting
<1>7. ASSUME Stop PROVE OneAtATime'
  <2>1. Awaiting = {} /\ stage' = Halted(stage)
    BY <1>7 DEF Stop, Awaiting, Typed, TypeOK
  <2>2. \A e \in Downloads : stage'[e] # "running" /\ e \notin Awaiting'
    BY <1>2, <2>1, HaltedStage DEF Awaiting, Typed
  <2> QED
    BY <2>2 DEF OneAtATime, OneScheduler, Awaiting
<1>8. ASSUME UNCHANGED <<stage, resource, manifest, scheduler, stopped>>,
             shown'.resource = shown.resource
      PROVE  OneAtATime'
  BY <1>2, <1>8 DEF OneAtATime, OneScheduler, Awaiting
<1>9. ASSUME NEW t \in deliveries, Land(t) \/ Fail(t) \/ Refetch(t) PROVE OneAtATime'
  <2>1. shown'.resource = shown.resource
    BY <1>9 DEF Land, Fail, Refetch, Reschedules, viewVars, Typed, TypeOK
  <2> QED
    BY <1>8, <1>9, <2>1 DEF Land, Fail, Refetch
<1>10. ASSUME NEW p \in Peers, NEW r \in Resources, Bitfield(p, r) \/ Have(p, r)
       PROVE  OneAtATime'
  <2>1. shown'.resource = shown.resource
    BY <1>10 DEF Bitfield, Have, Learns, Reschedules, Typed, TypeOK
  <2> QED
    BY <1>8, <1>10, <2>1 DEF Bitfield, Have
<1>11. ASSUME NEW p \in Peers, PeerLeft(p) PROVE OneAtATime'
  <2>1. shown'.resource = shown.resource
    BY <1>11 DEF PeerLeft, Reschedules, Typed, TypeOK
  <2> QED
    BY <1>8, <1>11, <2>1 DEF PeerLeft
<1>12. ASSUME UNCHANGED <<stage, resource, manifest, scheduler, stopped, shown>> PROVE OneAtATime'
  BY <1>8, <1>12
<1>14. ASSUME NEW d \in Downloads, ReadFails(d) PROVE OneAtATime'
  <2>1. stage' = [stage EXCEPT ![d] = "failed"] /\ d \in Awaiting
    BY <1>14 DEF ReadFails, Awaiting
  <2>2. \A e \in Downloads : stage'[e] # "running" /\ e \notin Awaiting'
    BY <1>2, <2>1 DEF Awaiting, Typed, TypeOK
  <2> QED
    BY <2>2 DEF OneAtATime, OneScheduler, Awaiting
<1>13. \/ UNCHANGED <<stage, resource, manifest, scheduler, stopped, shown>>
       \/ \E r \in Resources : StartDownload(r)
       \/ \E d \in Downloads : ReadAvailable(d) \/ ReadFails(d) \/ ResumeStart(d) \/ ResumeComplete(d)
       \/ \E t \in deliveries : Land(t) \/ Fail(t) \/ Refetch(t)
       \/ Stop
       \/ \E p \in Peers : PeerLeft(p)
       \/ \E p \in Peers, r \in Resources : Bitfield(p, r) \/ Have(p, r)
  BY DEF Next, Begin, Connect, ChannelOpen, vars, dlVars, viewVars
<1> QED
  BY <1>3, <1>4, <1>5, <1>6, <1>7, <1>9, <1>10, <1>11, <1>12, <1>13, <1>14

\* When startDownload and stop are never called while a download loads, one scheduler runs at
\* most, the one whose resource is shown, and none after stop.  The invariant adds that a
\* download that awaits the store is alone: no other awaits, none runs.
THEOREM OneSchedulerHolds == Spec => []OneScheduler
<1>1. Init => OneAtATime
  BY DEF Init, OneAtATime, OneScheduler, Awaiting
<1>2. OneAtATime => OneScheduler
  BY DEF OneAtATime, OneScheduler
<1> QED
  BY <1>1, <1>2, OneAtATimeStep, TypedHolds, PTL DEF Spec

-----------------------------------------------------------------------------
\* What completes a download: its bits are all there, whoever notices.
LEMMA CompleteIsStored ==
    ASSUME Typed, NEW d \in Downloads, d <= starts, Complete(d, have[d])
    PROVE  resource[d] \in Resources /\ store[resource[d]] = ChunksOf[resource[d]]
<1>1. resource[d] \in Resources /\ have[d] \subseteq store[resource[d]]
  BY DEF Typed, Grounded
<1>2. store[resource[d]] \subseteq ChunksOf[resource[d]]
  BY <1>1 DEF Typed, Grounded
<1> QED
  BY <1>1, <1>2 DEF Complete

\* What Land and Fail act on.
LEMMA DeliveryFacts ==
    ASSUME Typed, NEW t \in deliveries
    PROVE  /\ t.download \in Downloads /\ t.download <= starts /\ t.source \in Sources
           /\ resource[t.download] \in Resources
           /\ t.chunk \in ChunksOf[resource[t.download]]
<1>1. t \in Delivery /\ t.download <= starts /\ t.chunk \in ChunksOf[resource[t.download]]
  BY DEF Typed, TypeOK, Grounded
<1>2. t.download \in Downloads /\ t.source \in Sources
  BY <1>1 DEF Delivery
<1> QED
  BY <1>1, <1>2, StartedFacts

\* What cannot be undone.
LEMMA HistoryStays ==
    ASSUME [Next]_vars
    PROVE  /\ ~crossed' => ~crossed
           /\ ~strayed' => ~strayed
<1>1. \/ crossed' = crossed
      \/ \E r \in Resources : StartDownload(r)
      \/ Stop
  BY DEF Next, ReadAvailable, ReadFails, ResumeStart, ResumeComplete, Begin, Land, Fail, Refetch, Connect,
     ChannelOpen, PeerLeft, Bitfield, Have, vars, history
<1>2. ASSUME NEW r \in Resources, StartDownload(r) PROVE ~crossed' => ~crossed
  BY <1>2 DEF StartDownload
<1>3. ASSUME Stop PROVE ~crossed' => ~crossed
  BY <1>3 DEF Stop
<1>4. strayed' = strayed \/ \E t \in deliveries : Land(t)
  BY DEF Next, StartDownload, ReadAvailable, ReadFails, ResumeStart, ResumeComplete, Begin, Fail, Refetch,
     Stop, Connect, ChannelOpen, PeerLeft, Bitfield, Have, vars, history
<1>5. ASSUME NEW t \in deliveries, Land(t) PROVE ~strayed' => ~strayed
  BY <1>5 DEF Land
<1> QED
  BY <1>1, <1>2, <1>3, <1>4, <1>5

\* A file shown as completed is one of the resources, and stored.
ShownIsStored ==
    shown.status = "completed" /\ ~strayed /\ ~crossed =>
        shown.resource \in Resources /\ store[shown.resource] = ChunksOf[shown.resource]

\* A scheduler that finds its download complete is the one whose resource is shown.
LEMMA RescheduleShows ==
    ASSUME Typed, OneAtATime, ShownIsStored, NEW d \in Downloads, Reschedules(d),
           ~strayed, ~crossed
    PROVE  /\ shown'.resource = shown.resource
           /\ shown'.status = "completed" =>
                shown.resource \in Resources /\ store[shown.resource] = ChunksOf[shown.resource]
<1>1. shown'.resource = shown.resource
  BY DEF Reschedules, Typed, TypeOK
<1>2. CASE stage[d] = "running" /\ Complete(d, have[d])
  <2>1. shown.resource = resource[d]
    BY <1>2 DEF OneAtATime, OneScheduler
  <2>2. d <= starts
    BY <1>2, StartedFacts
  <2> QED
    BY <1>1, <1>2, <2>1, <2>2, CompleteIsStored
<1>3. CASE ~(stage[d] = "running" /\ Complete(d, have[d]))
  BY <1>1, <1>3 DEF Reschedules, ShownIsStored
<1> QED
  BY <1>2, <1>3

LEMMA CompletedStep ==
    Typed /\ OneAtATime /\ ShownIsStored /\ [Next]_vars => ShownIsStored'
<1> SUFFICES ASSUME Typed, OneAtATime, ShownIsStored, [Next]_vars,
                    shown'.status = "completed", ~strayed', ~crossed'
             PROVE  shown'.resource \in Resources /\ store'[shown'.resource] = ChunksOf[shown'.resource]
  BY DEF ShownIsStored
<1> USE ConstantFacts
<1>1. ~strayed /\ ~crossed
  BY HistoryStays
<1>2. \A r \in Resources : store[r] \subseteq store'[r] /\ store'[r] \subseteq ChunksOf[r]
  BY TypedStep, StoreGrows DEF Typed, Grounded
<1>3. ASSUME shown'.resource = shown.resource, shown.resource \in Resources,
             store[shown.resource] = ChunksOf[shown.resource]
      PROVE  shown'.resource \in Resources /\ store'[shown'.resource] = ChunksOf[shown'.resource]
  BY <1>2, <1>3
<1>4. ASSUME shown'.resource = shown.resource, shown'.status = shown.status
      PROVE  shown'.resource \in Resources /\ store'[shown'.resource] = ChunksOf[shown'.resource]
  BY <1>1, <1>3, <1>4 DEF ShownIsStored
<1>5. ASSUME NEW d \in Downloads, Reschedules(d)
      PROVE  shown'.resource \in Resources /\ store'[shown'.resource] = ChunksOf[shown'.resource]
  BY <1>1, <1>3, <1>5, RescheduleShows
<1>6. ASSUME NEW d \in Downloads, ResumeStart(d) \/ ResumeComplete(d)
      PROVE  shown'.resource \in Resources /\ store'[shown'.resource] = ChunksOf[shown'.resource]
  <2>1. d <= starts
    BY <1>6, StartedFacts DEF ResumeStart, ResumeComplete
  <2>2. /\ shown'.resource = resource[d] /\ Complete(d, have[d])
        /\ store' = store
    BY <1>6 DEF ResumeStart, ResumeComplete, ShowStart, history
  <2> QED
    BY <2>1, <2>2, CompleteIsStored
<1>7. ASSUME NEW t \in deliveries, Land(t)
      PROVE  shown'.resource \in Resources /\ store'[shown'.resource] = ChunksOf[shown'.resource]
  <2> DEFINE d == t.download
             bits == have[d] \cup {t.chunk}
  <2>1. /\ d \in Downloads /\ d <= starts /\ resource[d] \in Resources
        /\ t.chunk \in ChunksOf[resource[d]] /\ have[d] \subseteq store[resource[d]]
    BY DeliveryFacts DEF Typed, Grounded
  <2>2. /\ shown'.resource = shown.resource
        /\ shown'.status = IF Complete(d, bits) THEN "completed" ELSE shown.status
        /\ store' = [store EXCEPT ![resource[d]] = @ \cup {t.chunk}]
        /\ stage[d] = "running"
    BY <1>7 DEF Land, Typed, TypeOK
  <2>3. CASE Complete(d, bits)
    <3>1. shown.resource = resource[d]
      BY <1>1, <2>1, <2>2 DEF OneAtATime, OneScheduler
    <3>2. bits \subseteq store'[resource[d]] /\ bits = ChunksOf[resource[d]]
      BY <2>1, <2>2, <2>3 DEF Complete, Typed, TypeOK
    <3> QED
      BY <1>2, <2>1, <2>2, <3>1, <3>2
  <2>4. CASE ~Complete(d, bits)
    BY <1>4, <2>2, <2>4
  <2> QED
    BY <2>3, <2>4
<1>8. ASSUME NEW t \in deliveries, Fail(t)
      PROVE  shown'.resource \in Resources /\ store'[shown'.resource] = ChunksOf[shown'.resource]
  BY <1>4, <1>5, <1>8, DeliveryFacts DEF Fail
<1>9. ASSUME NEW p \in Peers, PeerLeft(p) \/ \E r \in Resources : Bitfield(p, r) \/ Have(p, r)
      PROVE  shown'.resource \in Resources /\ store'[shown'.resource] = ChunksOf[shown'.resource]
  <2>1. Reschedules(scheduler) \/ shown' = shown
    BY <1>9 DEF PeerLeft, Bitfield, Have, Learns
  <2>2. CASE scheduler \in Downloads
    BY <1>4, <1>5, <2>1, <2>2
  <2>3. CASE scheduler = NoDownload
    BY <1>4, <2>1, <2>3 DEF Reschedules
  <2> QED
    BY <2>2, <2>3 DEF Typed, TypeOK
<1>10. CASE shown' = shown
  BY <1>4, <1>10
<1>11. \/ shown' = shown
       \/ \E d \in Downloads : ResumeStart(d) \/ ResumeComplete(d)
       \/ \E t \in deliveries : Land(t) \/ Fail(t)
       \/ Stop
       \/ \E p \in Peers : PeerLeft(p) \/ \E r \in Resources : Bitfield(p, r) \/ Have(p, r)
  BY DEF Next, StartDownload, ReadAvailable, ReadFails, Begin, Refetch, Connect, ChannelOpen, vars, viewVars
<1>12. ~Stop
  BY DEF Stop, Typed, TypeOK
<1> QED
  BY <1>6, <1>7, <1>8, <1>9, <1>10, <1>11, <1>12

-----------------------------------------------------------------------------
\* Progress is about one of the resources, once any is shown.
Progress ==
    shown.resource # NoResource /\ ~strayed /\ ~crossed =>
        shown.resource \in Resources /\ shown.done <= Cardinality(store[shown.resource])

\* What is counted of a resource is no more than what is stored of it.
LEMMA NoMoreThanStored ==
    ASSUME NEW r \in Resources, NEW all \in SUBSET ChunksOf[r], NEW bits \in SUBSET all
    PROVE  /\ Cardinality(bits) \in Nat /\ Cardinality(all) \in Nat
           /\ Cardinality(bits) <= Cardinality(all)
<1>1. IsFiniteSet(all) /\ IsFiniteSet(bits)
  BY ChunksAssumption, FS_Subset
<1> QED
  BY <1>1, FS_Subset, FS_CardinalityType

LEMMA ProgressStep ==
    Typed /\ OneAtATime /\ Progress /\ [Next]_vars => Progress'
<1> SUFFICES ASSUME Typed, OneAtATime, Progress, [Next]_vars,
                    shown'.resource # NoResource, ~strayed', ~crossed'
             PROVE  /\ shown'.resource \in Resources
                    /\ shown'.done <= Cardinality(store'[shown'.resource])
  BY DEF Progress
<1> DEFINE Goal == /\ shown'.resource \in Resources
                   /\ shown'.done <= Cardinality(store'[shown'.resource])
<1> USE ConstantFacts
<1>1. ~strayed /\ ~crossed
  BY HistoryStays
<1>2. \A r \in Resources : store[r] \subseteq store'[r] /\ store'[r] \subseteq ChunksOf[r]
  BY TypedStep, StoreGrows DEF Typed, Grounded
<1>3. ASSUME shown'.resource = shown.resource, shown'.done = shown.done PROVE Goal
  <2>1. shown.resource \in Resources /\ shown.done <= Cardinality(store[shown.resource])
    BY <1>1, <1>3 DEF Progress
  <2>2. /\ Cardinality(store[shown.resource]) \in Nat /\ Cardinality(store'[shown.resource]) \in Nat
        /\ Cardinality(store[shown.resource]) <= Cardinality(store'[shown.resource])
    BY <1>2, <2>1, NoMoreThanStored
  <2>3. shown.done \in Nat
    BY DEF Typed, TypeOK
  <2> QED
    BY <1>3, <2>1, <2>2, <2>3
<1>4. ASSUME NEW d \in Downloads \cup {NoDownload}, Reschedules(d) PROVE Goal
  <2>1. shown'.resource = shown.resource /\ shown'.done = shown.done
    BY <1>4 DEF Reschedules, Typed, TypeOK
  <2> QED
    BY <1>3, <2>1
<1>5. ASSUME NEW d \in Downloads, ResumeStart(d) \/ ResumeComplete(d) PROVE Goal
  <2>1. d <= starts
    BY <1>5, StartedFacts DEF ResumeStart, ResumeComplete
  <2>2. /\ resource[d] \in Resources /\ have[d] \subseteq store[resource[d]]
        /\ store[resource[d]] \subseteq ChunksOf[resource[d]]
    BY <2>1 DEF Typed, Grounded
  <2>3. shown'.resource = resource[d] /\ shown'.done = Cardinality(have[d]) /\ store' = store
    BY <1>5 DEF ResumeStart, ResumeComplete, ShowStart, history
  <2> QED
    BY <2>2, <2>3, NoMoreThanStored
<1>6. ASSUME NEW t \in deliveries, Land(t) PROVE Goal
  <2> DEFINE d == t.download
             bits == have[d] \cup {t.chunk}
  <2>1. /\ d \in Downloads /\ d <= starts /\ resource[d] \in Resources
        /\ have[d] \subseteq store[resource[d]]
    BY DeliveryFacts DEF Typed, Grounded
  <2>2. /\ shown'.resource = shown.resource
        /\ shown'.done = Cardinality(bits)
        /\ store' = [store EXCEPT ![resource[d]] = @ \cup {t.chunk}]
        /\ stage[d] = "running"
    BY <1>6 DEF Land, Typed, TypeOK
  <2>3. shown.resource = resource[d]
    BY <1>1, <2>1, <2>2 DEF OneAtATime, OneScheduler
  <2>4. bits \subseteq store'[resource[d]]
    BY <2>1, <2>2 DEF Typed, TypeOK
  <2> HIDE DEF d, bits
  <2> QED
    BY <1>2, <2>1, <2>2, <2>3, <2>4, NoMoreThanStored
<1>7. ASSUME NEW t \in deliveries, Fail(t) PROVE Goal
  BY <1>3, <1>4, <1>7, DeliveryFacts DEF Fail
<1>8. ASSUME NEW p \in Peers, PeerLeft(p) \/ \E r \in Resources : Bitfield(p, r) \/ Have(p, r)
      PROVE  Goal
  <2>1. Reschedules(scheduler) \/ shown' = shown
    BY <1>8 DEF PeerLeft, Bitfield, Have, Learns
  <2> QED
    BY <1>3, <1>4, <2>1 DEF Typed, TypeOK
<1>9. ASSUME Stop PROVE Goal
  <2>1. shown'.resource = shown.resource /\ shown'.done = shown.done
    BY <1>9 DEF Stop, Typed, TypeOK
  <2> QED
    BY <1>3, <2>1
<1>10. ASSUME shown' = shown PROVE Goal
  BY <1>3, <1>10
<1>11. \/ shown' = shown
       \/ \E d \in Downloads : ResumeStart(d) \/ ResumeComplete(d)
       \/ \E t \in deliveries : Land(t) \/ Fail(t)
       \/ Stop
       \/ \E p \in Peers : PeerLeft(p) \/ \E r \in Resources : Bitfield(p, r) \/ Have(p, r)
  BY DEF Next, StartDownload, ReadAvailable, ReadFails, Begin, Refetch, Connect, ChannelOpen, vars, viewVars
<1> QED
  BY <1>5, <1>6, <1>7, <1>8, <1>9, <1>10, <1>11

\* What is shown is stored: the progress counts no chunk twice and none that is not in the store,
\* although a chunk may be delivered again by a peer or the origin and is counted again by telemetry
\* (onDownloadProgress, of localBitfield.count()), and a file that is shown as completed can be
\* assembled (onDownloadComplete; startDownload when nothing is missing), whatever was downloaded
\* before it, as long as no scheduler that was replaced delivers late and starts do not cross.
THEOREM ProgressHolds == Spec => []ProgressIsStored
<1>1. Init => Typed /\ OneAtATime /\ ShownIsStored /\ Progress
  BY TypedInit DEF Init, OneAtATime, OneScheduler, Awaiting, ShownIsStored, Progress
<1>2. ShownIsStored /\ Progress => ProgressIsStored
  BY DEF ShownIsStored, Progress, ProgressIsStored
<1> QED
  BY <1>1, <1>2, TypedStep, OneAtATimeStep, CompletedStep, ProgressStep, PTL DEF Spec

-----------------------------------------------------------------------------
\* CountersAgree, what telemetry is while a download awaits the store, that only the last call
\* awaits, and that nothing goes on once it has failed there.
Counting ==
    /\ CountersAgree
    /\ Awaiting # {} /\ ~strayed /\ ~crossed => telemetry = Zero
    /\ ~crossed => Awaiting \subseteq {starts}
    /\ LastFailed /\ ~crossed => Awaiting = {} /\ \A d \in Downloads : stage[d] # "running"

LEMMA CountingStep == Typed /\ OneAtATime /\ Counting /\ [Next]_vars => Counting'
<1> SUFFICES ASSUME Typed, OneAtATime, Counting, [Next]_vars PROVE Counting'
  OBVIOUS
<1> USE ConstantFacts
<1>1. /\ ~crossed' => ~crossed
      /\ ~strayed' => ~strayed
  BY HistoryStays
<1>2. /\ shown.counts \in Counters /\ telemetry \in Counters
      /\ starts # 0 => starts \in Downloads
  BY BoundsAssumption DEF Typed, TypeOK, Downloads
<1>3. ASSUME starts' = starts, stage' = stage, telemetry' = telemetry, shown'.counts = shown.counts
      PROVE  Counting'
  BY <1>1, <1>3 DEF Counting, CountersAgree, LastResumed, LastFailed, Awaiting
<1>5. ASSUME NEW r \in Resources, StartDownload(r) PROVE Counting'
  <2>1. starts + 1 \in Downloads
    BY <1>5, BoundsAssumption DEF StartDownload, Typed, TypeOK, Downloads
  <2>2. starts' = starts + 1 /\ stage'[starts + 1] = "loading" /\ telemetry' = Zero
    BY <1>5, <2>1, HaltedStage DEF StartDownload, Typed
  <2>3. Awaiting' # {} /\ ~LastFailed' /\ ~LastResumed'
    BY <2>1, <2>2 DEF Awaiting, LastFailed, LastResumed, Typed, TypeOK, Downloads
  <2>4. ~crossed' => Awaiting' \subseteq {starts'}
    <3>1. \A e \in Awaiting' : e = starts + 1 \/ e \in Awaiting
      BY <1>5, <2>1, HaltedStage DEF StartDownload, Awaiting, Typed, TypeOK
    <3> QED
      BY <1>5, <2>2, <3>1 DEF StartDownload
  <2> QED
    BY <2>2, <2>3, <2>4 DEF Counting, CountersAgree
<1>6. ASSUME NEW d \in Downloads, ReadAvailable(d) PROVE Counting'
  <2>1. /\ d \in Awaiting /\ d \in Awaiting' /\ UNCHANGED <<starts, shown, telemetry>>
        /\ stage' = [stage EXCEPT ![d] = "loaded"]
    BY <1>6 DEF ReadAvailable, Awaiting, viewVars, Typed, TypeOK
  <2>2. /\ LastResumed' => LastResumed
        /\ LastFailed' => LastFailed
    BY <1>2, <2>1 DEF LastResumed, LastFailed, Typed, TypeOK
  <2>3. LastFailed' /\ ~crossed' => FALSE
    BY <1>1, <2>1, <2>2 DEF Counting
  <2>4. Awaiting' \subseteq Awaiting
    BY <2>1 DEF Awaiting, Typed, TypeOK
  <2> QED
    BY <1>1, <2>1, <2>2, <2>3, <2>4 DEF Counting, CountersAgree
<1>7. ASSUME NEW d \in Downloads, ReadFails(d) PROVE Counting'
  <2>1. /\ d \in Awaiting /\ UNCHANGED <<starts, shown, telemetry, crossed, strayed>>
        /\ stage' = [stage EXCEPT ![d] = "failed"]
    BY <1>7 DEF ReadFails, Awaiting, viewVars, history
  <2>2. LastResumed' => LastResumed
    BY <1>2, <2>1 DEF LastResumed, Typed, TypeOK
  <2>3. ~strayed' /\ ~crossed' => telemetry' = Zero
    BY <2>1 DEF Counting
  <2>4. ASSUME ~crossed
        PROVE  /\ LastFailed'
               /\ \A e \in Downloads : e \notin Awaiting' /\ stage'[e] # "running"
    <3>1. /\ \A e \in Downloads : stage[e] # "running"
          /\ \A e \in Awaiting : e = d
      BY <2>1, <2>4 DEF OneAtATime
    <3>2. d = starts
      BY <2>1, <2>4 DEF Counting
    <3> QED
      BY <1>2, <2>1, <3>1, <3>2 DEF LastFailed, Awaiting, Typed, TypeOK, Downloads
  <2>5. ~crossed => Awaiting' = {}
    BY <2>4 DEF Awaiting
  <2> QED
    BY <2>1, <2>2, <2>3, <2>4, <2>5 DEF Counting, CountersAgree
<1>8. ASSUME NEW d \in Downloads, ResumeStart(d) \/ ResumeComplete(d) PROVE Counting'
  <2>1. /\ d \in Awaiting /\ shown'.counts = Zero /\ UNCHANGED <<starts, telemetry>>
        /\ \/ stage' = [stage EXCEPT ![d] = "running"]
           \/ stage' = [stage EXCEPT ![d] = "complete"]
    BY <1>8 DEF ResumeStart, ResumeComplete, ShowStart, Awaiting
  <2>2. \A s \in Sources : shown'.counts[s] <= telemetry'[s]
    BY <1>2, <2>1 DEF Zero, Counters
  <2>3. ~strayed' /\ ~crossed' => telemetry' = Zero
    BY <1>1, <2>1 DEF Counting
  <2>4. LastFailed' => LastFailed
    BY <1>2, <2>1 DEF LastFailed, Typed, TypeOK
  <2>5. LastFailed' /\ ~crossed' => FALSE
    BY <1>1, <2>1, <2>4 DEF Counting
  <2>6. Awaiting' \subseteq Awaiting
    BY <2>1 DEF Awaiting, Typed, TypeOK
  <2>7. ~crossed' => Awaiting' \subseteq {starts'}
    BY <1>1, <2>1, <2>6 DEF Counting
  <2> QED
    BY <2>1, <2>2, <2>3, <2>5, <2>7 DEF Counting, CountersAgree
<1>9. ASSUME NEW t \in deliveries, Land(t) PROVE Counting'
  <2> DEFINE s == t.source
  <2>1. /\ s \in Sources /\ t.download \in Downloads
    BY DeliveryFacts
  <2>2. /\ telemetry' = [telemetry EXCEPT ![s] = @ + 1]
        /\ shown'.counts = [shown.counts EXCEPT ![s] = @ + 1]
        /\ stage' = stage /\ starts' = starts
        /\ ~strayed' => stage[t.download] = "running"
    BY <1>9 DEF Land, Typed, TypeOK
  <2>3. Awaiting' = Awaiting /\ (LastResumed' <=> LastResumed) /\ (LastFailed' <=> LastFailed)
    BY <2>2 DEF Awaiting, LastResumed, LastFailed
  <2>4. ASSUME Awaiting # {} \/ LastFailed PROVE strayed' \/ crossed'
    <3>1. CASE LastFailed
      BY <1>1, <2>1, <2>2, <3>1 DEF Counting
    <3>2. CASE Awaiting # {}
      <4>1. PICK d \in Awaiting : TRUE
        BY <3>2
      <4> QED
        BY <1>1, <2>1, <2>2, <4>1 DEF OneAtATime
    <3> QED
      BY <2>4, <3>1, <3>2
  <2>5. LastResumed' => \A u \in Sources : shown'.counts[u] <= telemetry'[u]
    <3>1. LastResumed' => \A u \in Sources : shown.counts[u] <= telemetry[u]
      BY <2>3 DEF Counting, CountersAgree
    <3> QED
      BY <1>2, <2>1, <2>2, <3>1 DEF Counters
  <2>6. Awaiting = {} /\ ~LastFailed /\ ~strayed' /\ ~crossed' => telemetry' = shown'.counts
    BY <1>1, <2>2 DEF Counting, CountersAgree
  <2>7. /\ ~crossed' => Awaiting \subseteq {starts}
        /\ LastFailed /\ ~crossed' => Awaiting = {} /\ \A d \in Downloads : stage[d] # "running"
    BY <1>1 DEF Counting
  <2> QED
    BY <2>2, <2>3, <2>4, <2>5, <2>6, <2>7 DEF Counting, CountersAgree
<1>10. ASSUME Stop PROVE Counting'
  <2>1. /\ \A d \in Downloads : d \in Awaiting' <=> d \in Awaiting
        /\ \A d \in Downloads : stage'[d] = "running" => stage[d] = "running"
        /\ \A d \in Downloads :
              stage'[d] = stage[d] \/ (stage[d] = "running" /\ stage'[d] = "stopped")
    BY <1>10, HaltedStage DEF Stop, Awaiting, Typed
  <2>2. shown'.counts = shown.counts /\ telemetry' = telemetry /\ starts' = starts
    BY <1>10 DEF Stop, Typed, TypeOK
  <2>3. Awaiting \subseteq Downloads /\ Awaiting' \subseteq Downloads
    BY DEF Awaiting
  <2>4. Awaiting' = Awaiting
    BY <2>1, <2>3
  <2>5. (LastResumed' <=> LastResumed) /\ (LastFailed' <=> LastFailed)
    BY <1>2, <2>1, <2>2 DEF LastResumed, LastFailed
  <2> QED
    BY <1>1, <2>1, <2>2, <2>4, <2>5 DEF Counting, CountersAgree
<1>11. \/ UNCHANGED <<starts, stage, telemetry>> /\ shown'.counts = shown.counts
       \/ \E r \in Resources : StartDownload(r)
       \/ \E d \in Downloads : ReadAvailable(d) \/ ReadFails(d) \/ ResumeStart(d) \/ ResumeComplete(d)
       \/ \E t \in deliveries : Land(t)
       \/ Stop
  <2>1. \A d : Reschedules(d) => shown'.counts = shown.counts
    BY DEF Reschedules, Typed, TypeOK
  <2> QED
    BY <2>1 DEF Next, Begin, Fail, Refetch, Connect, ChannelOpen, PeerLeft, Bitfield, Have, Learns,
       vars, dlVars, viewVars
<1> QED
  BY <1>3, <1>5, <1>6, <1>7, <1>8, <1>9, <1>10, <1>11

\* Once the last call of startDownload got past its await, telemetry never falls behind what is
\* shown, and agrees with it unless a replaced scheduler delivers late or calls cross, although one
\* is reset before startDownload awaits the store and the other after; and telemetry is zero after
\* a call that could not read the store.  The invariant adds that telemetry is zero while a
\* download awaits, and that nothing runs after a call that failed.
THEOREM CountersHold == Spec => []CountersAgree
<1>1. Init => Typed /\ OneAtATime /\ Counting
  BY TypedInit
     DEF Init, OneAtATime, OneScheduler, Awaiting, Counting, CountersAgree, LastResumed, LastFailed,
         Zero
<1>2. Counting => CountersAgree
  BY DEF Counting
<1> QED
  BY <1>1, <1>2, TypedStep, OneAtATimeStep, CountingStep, PTL DEF Spec
=============================================================================
