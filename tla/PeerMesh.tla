-------------------------------- MODULE PeerMesh --------------------------------
(***************************************************************************)
(* How the browsers of one class connect to each other: discovery, the     *)
(* glare rule, offers, answers and ICE candidates, and the slots they      *)
(* take, as apps/web/src/p2p/PeerMeshCoordinator.ts and                    *)
(* webrtc/WebRtcPeerConnection.ts go about it, over the signaling server's *)
(* relay (Signaling has its details).  Browsers leave, lose their          *)
(* connection to the server and come back, and lose channels.              *)
(*                                                                         *)
(* What RTCPeerConnection does is the browser's: descriptions are applied  *)
(* some time after they were given to it, one after the other; a channel   *)
(* may open when two connections have each other's description and one has *)
(* the other's candidate.  A description is the number of the connection   *)
(* it describes, among those its browser made to that peer, and so is the  *)
(* one candidate each connection gathers.                                  *)
(***************************************************************************)
EXTENDS Naturals, Sequences, FiniteSets, SequencesExt

CONSTANTS
    Ids,           \* peerIds, which the glare rule compares: numbers
    Students,      \* those with a coordinator; the others are instructors
    MaxPeers,      \* MAX_PEER_CONNECTIONS
    MaxDials,      \* bound: sockets of one browser to the server
    MaxConns,      \* bound: connections one browser makes to one peer
    MaxFailures    \* bound: sockets and channels that break

ASSUME IdsAssumption == Ids \subseteq Nat /\ IsFiniteSet(Ids) /\ Students \subseteq Ids
ASSUME BoundsAssumption ==
    MaxPeers \in Nat \ {0} /\ MaxDials \in Nat \ {0} /\ MaxConns \in Nat \ {0} /\ MaxFailures \in Nat

VARIABLES
    life,       \* of each browser: "out", "in" the class, "gone"
    dials,      \* how many sockets it made; the last is its current one
    online,     \* browsers whose current socket is open
    room,       \* the socket each browser is registered with, 0 for none
    up,         \* what is on its way to the server on each socket
    inbox,      \* what is on its way from the server
    made,       \* how many connections each browser made to each peer
    conn,       \* peers: at most one connection to each peer
    failures,   \* how many sockets and channels broke
    shaken      \* the browsers they broke of

netVars == <<dials, online, room, up>>
vars == <<life, netVars, inbox, made, conn, failures, shaken>>

None == [n |-> 0]
Conn == [n : 1..MaxConns,
         initiator : BOOLEAN,
         local : BOOLEAN,               \* the local description is set
         remote : 0..MaxConns,          \* the remote one, 0 for none
         todo : Seq(1..MaxConns),       \* descriptions given to it and not applied or answered
         replying : BOOLEAN,            \* the first of them is applied, the answer under way
         queued : SUBSET (1..MaxConns), \* pendingIceCandidates
         reachable : BOOLEAN,           \* the other's candidate is added
         gathered : BOOLEAN,            \* its own candidate is sent
         open : BOOLEAN]                \* its channel is

Slots(p) == {q \in Ids : conn[p][q] # None}
Sockets == 1..MaxDials

Signal == [type : {"offer", "answer", "ice"}, from : Ids, to : Ids, n : 1..MaxConns]
Notice == [type : {"joined", "left"}, of : Ids]
Roster == [type : {"roster"}, peers : SUBSET Ids]
Close == [type |-> "close"]

Typed ==
    /\ life \in [Ids -> {"out", "in", "gone"}]
    /\ dials \in [Ids -> 0..MaxDials]
    /\ online \in SUBSET Ids
    /\ room \in [Ids -> 0..MaxDials]
    /\ up \in [Ids -> [Sockets -> Seq(Signal \cup {Close})]]
    /\ inbox \in [Ids -> Seq(Signal \cup Notice \cup Roster)]
    /\ made \in [Ids -> [Ids -> 0..MaxConns]]
    /\ conn \in [Ids -> [Ids -> Conn \cup {None}]]
    /\ failures \in 0..MaxFailures
    /\ shaken \in SUBSET Ids

\* The type of each variable; nobody is connected to itself, and the slots suffice
\* (MAX_PEER_CONNECTIONS), however they are taken: at discovery or for an offer.
TypeOK ==
    /\ Typed
    /\ \A p \in Ids : p \notin Slots(p) /\ Cardinality(Slots(p)) <= MaxPeers

Init ==
    /\ life = [p \in Ids |-> "out"]
    /\ dials = [p \in Ids |-> 0]
    /\ online = {}
    /\ room = [p \in Ids |-> 0]
    /\ up = [p \in Ids |-> [k \in Sockets |-> <<>>]]
    /\ inbox = [p \in Ids |-> <<>>]
    /\ made = [p \in Ids |-> [q \in Ids |-> 0]]
    /\ conn = [p \in Ids |-> [q \in Ids |-> None]]
    /\ failures = 0
    /\ shaken = {}

-----------------------------------------------------------------------------
(***************************************************************************)
(* The server's room and relay                                             *)
(***************************************************************************)
Members == {p \in Ids : room[p] # 0}

\* A browser that handles what it gets: an instructor's ignores all of this.
Hears(p) == p \in Students /\ p \in online

\* Everyone registered but p is sent m, in order; it arrives if its socket is the current one.
Broadcast(p, m, box) ==
    [q \in Ids |-> IF q # p /\ Hears(q) /\ room[q] = dials[q] THEN Append(box[q], m) ELSE box[q]]

\* A browser joins the class, or comes back: the server registers its socket, sends it the
\* roster and announces it.
Connect(p) ==
    /\ life[p] \in {"out", "in"}
    /\ p \notin online
    /\ dials[p] < MaxDials
    /\ life' = [life EXCEPT ![p] = "in"]
    /\ dials' = [dials EXCEPT ![p] = @ + 1]
    /\ online' = online \cup {p}
    /\ room' = [room EXCEPT ![p] = dials[p] + 1]
    /\ inbox' = Broadcast(p, [type |-> "joined", of |-> p],
                    [inbox EXCEPT ![p] = IF p \in Students
                        THEN <<[type |-> "roster", peers |-> Members \ {p}]>> ELSE <<>>])
    /\ UNCHANGED <<up, made, conn, failures, shaken>>

\* The server handles a frame: a signal goes to its target if that is registered, and the end
\* of a socket unregisters the browser if it is registered with that one.
Relay(p, k) ==
    /\ up[p][k] # <<>>
    /\ up' = [up EXCEPT ![p][k] = Tail(@)]
    /\ LET m == Head(up[p][k]) IN
       \/ /\ m.type # "close"
          /\ inbox' = IF room[m.to] # 0 /\ Hears(m.to) /\ room[m.to] = dials[m.to]
                      THEN [inbox EXCEPT ![m.to] = Append(@, m)] ELSE inbox
          /\ UNCHANGED room
       \/ /\ m.type = "close" /\ room[p] = k
          /\ room' = [room EXCEPT ![p] = 0]
          /\ inbox' = Broadcast(p, [type |-> "left", of |-> p], inbox)
       \/ m.type = "close" /\ room[p] # k /\ UNCHANGED <<room, inbox>>
    /\ UNCHANGED <<life, dials, online, made, conn, failures, shaken>>

\* A signal is sent on the current socket, or dropped if there is none.
Send(p, type, q, n) ==
    IF p \in online
    THEN up' = [up EXCEPT ![p][dials[p]] =
                    Append(@, [type |-> type, from |-> p, to |-> q, n |-> n])]
    ELSE UNCHANGED up

HangsUp(p) ==
    up' = IF p \in online THEN [up EXCEPT ![p][dials[p]] = Append(@, Close)] ELSE up

(***************************************************************************)
(* A browser handles a message                                             *)
(***************************************************************************)
NewConn(p, q, initiator) ==
    [n |-> made[p][q] + 1, initiator |-> initiator, local |-> FALSE, remote |-> 0, todo |-> <<>>,
     replying |-> FALSE, queued |-> {}, reachable |-> FALSE, gathered |-> FALSE, open |-> FALSE]

\* Broken Initiates: both ends do.
InitiatesBoth(p, q) == p # q

\* The glare rule: the higher peerId initiates, the lower one waits.
Initiates(p, q) == p > q

\* handlePeerDiscovered for each of the peers listed, in the order of the list, as far as there
\* are slots.
Discover(p, listed) ==
    LET fresh == listed \ (Slots(p) \cup {p})
        free == MaxPeers - Cardinality(Slots(p)) IN
    \E taken \in SUBSET fresh :
        /\ \/ taken = fresh /\ Cardinality(fresh) <= free
           \/ Cardinality(taken) = free /\ Cardinality(fresh) > free
        /\ \A q \in taken : made[p][q] < MaxConns
        /\ conn' = [conn EXCEPT ![p] =
                [q \in Ids |-> IF q \in taken THEN NewConn(p, q, Initiates(p, q)) ELSE @[q]]]
        /\ made' = [made EXCEPT ![p] = [q \in Ids |-> IF q \in taken THEN @[q] + 1 ELSE @[q]]]

\* Broken Forget: the connection is closed and its slot kept.
ForgetKeepsSlot(p, q) ==
    /\ conn' = IF conn[p][q] = None THEN conn
               ELSE [conn EXCEPT ![p][q].open = FALSE, ![p][q].queued = {}]
    /\ UNCHANGED made

\* handlePeerLeft: close the connection and free its slot.
Forget(p, q) == conn' = [conn EXCEPT ![p][q] = None] /\ UNCHANGED made

\* Broken TakeOffer: a connection made at discovery is taken for one that is set up already.
TakeOfferOnce(p, q, n) ==
    IF conn[p][q] # None THEN UNCHANGED <<conn, made>>
    ELSE IF Cardinality(Slots(p)) >= MaxPeers THEN UNCHANGED <<conn, made>>
    ELSE /\ made[p][q] < MaxConns
         /\ conn' = [conn EXCEPT ![p][q] = [NewConn(p, q, FALSE) EXCEPT !.todo = <<n>>]]
         /\ made' = [made EXCEPT ![p][q] = @ + 1]

\* handleSignalOffer: the offer goes to the connection there is, or to a new one.  One that
\* initiates is never offered one (NoGlare): what its browser would do with it is left out.
TakeOffer(p, q, n) ==
    \/ /\ conn[p][q] # None
       /\ conn' = IF conn[p][q].initiator THEN conn
                  ELSE [conn EXCEPT ![p][q].todo = Append(@, n)]
       /\ UNCHANGED made
    \/ /\ conn[p][q] = None
       /\ Cardinality(Slots(p)) < MaxPeers
       /\ made[p][q] < MaxConns
       /\ conn' = [conn EXCEPT ![p][q] = [NewConn(p, q, FALSE) EXCEPT !.todo = <<n>>]]
       /\ made' = [made EXCEPT ![p][q] = @ + 1]
    \/ /\ conn[p][q] = None
       /\ Cardinality(Slots(p)) >= MaxPeers
       /\ UNCHANGED <<conn, made>>

\* handleSignalAnswer.  A connection that did not offer refuses it.
TakeAnswer(p, q, n) ==
    /\ conn' = IF conn[p][q] # None /\ conn[p][q].initiator /\ conn[p][q].local
               THEN [conn EXCEPT ![p][q].todo = Append(@, n)] ELSE conn
    /\ UNCHANGED made

\* handleSignalIce: queued until there is a remote description; one for another is refused.
TakeCandidate(p, q, n) ==
    /\ conn' = IF conn[p][q] = None THEN conn
               ELSE IF conn[p][q].remote = 0 THEN [conn EXCEPT ![p][q].queued = @ \cup {n}]
               ELSE [conn EXCEPT ![p][q].reachable = @ \/ conn[p][q].remote = n]
    /\ UNCHANGED made

Receive(p) ==
    /\ Hears(p)
    /\ inbox[p] # <<>>
    /\ inbox' = [inbox EXCEPT ![p] = Tail(@)]
    /\ LET m == Head(inbox[p]) IN
       \/ m.type = "roster" /\ Discover(p, m.peers)
       \/ m.type = "joined" /\ Discover(p, {m.of})
       \/ m.type = "left" /\ Forget(p, m.of)
       \/ m.type = "offer" /\ TakeOffer(p, m.from, m.n)
       \/ m.type = "answer" /\ TakeAnswer(p, m.from, m.n)
       \/ m.type = "ice" /\ TakeCandidate(p, m.from, m.n)
    /\ UNCHANGED <<life, netVars, failures, shaken>>

(***************************************************************************)
(* A connection of p to q goes on                                          *)
(***************************************************************************)
\* createOffer and setLocalDescription have settled.
OfferReady(p, q) ==
    /\ conn[p][q] # None
    /\ conn[p][q].initiator /\ ~conn[p][q].local
    /\ conn' = [conn EXCEPT ![p][q].local = TRUE]
    /\ Send(p, "offer", q, conn[p][q].n)
    /\ UNCHANGED <<life, dials, online, room, inbox, made, failures, shaken>>

\* The remote description is set, and the candidates that waited for it are added.
Described(c) ==
    [c EXCEPT !.remote = Head(c.todo),
              !.reachable = Head(c.todo) \in c.queued,
              !.queued = {}]

\* Broken AnswerDescribed: the candidates are not flushed.
AnswerDescribedUnflushed(p, q) ==
    /\ conn[p][q] # None
    /\ conn[p][q].initiator /\ conn[p][q].todo # <<>>
    /\ LET c == conn[p][q] IN
       conn' = [conn EXCEPT ![p][q] =
            [c EXCEPT !.remote = IF @ = 0 THEN Head(c.todo) ELSE @, !.todo = Tail(@)]]
    /\ UNCHANGED <<life, netVars, inbox, made, failures, shaken>>

\* setRemoteAnswer; an answer after the first is refused.
AnswerDescribed(p, q) ==
    LET c == conn[p][q]
        described == IF c.remote = 0 THEN Described(c) ELSE c IN
    /\ c # None
    /\ c.initiator /\ c.todo # <<>>
    /\ conn' = [conn EXCEPT ![p][q] = [described EXCEPT !.todo = Tail(c.todo)]]
    /\ UNCHANGED <<life, netVars, inbox, made, failures, shaken>>

\* setRemoteOffer up to its answer.  An offer to a connection that has one may be refused.
OfferDescribed(p, q) ==
    LET c == conn[p][q] IN
    /\ c # None
    /\ ~c.initiator /\ c.todo # <<>> /\ ~c.replying
    /\ \/ conn' = [conn EXCEPT ![p][q] = [Described(c) EXCEPT !.replying = TRUE]]
       \/ c.remote # 0 /\ conn' = [conn EXCEPT ![p][q].todo = Tail(@)]
    /\ UNCHANGED <<life, netVars, inbox, made, failures, shaken>>

AnswerReady(p, q) ==
    LET c == conn[p][q] IN
    /\ c # None
    /\ c.replying
    /\ conn' = [conn EXCEPT ![p][q] =
            [c EXCEPT !.local = TRUE, !.replying = FALSE, !.todo = Tail(@)]]
    /\ Send(p, "answer", q, c.n)
    /\ UNCHANGED <<life, dials, online, room, inbox, made, failures, shaken>>

Gather(p, q) ==
    /\ conn[p][q] # None
    /\ conn[p][q].local /\ ~conn[p][q].gathered
    /\ conn' = [conn EXCEPT ![p][q].gathered = TRUE]
    /\ Send(p, "ice", q, conn[p][q].n)
    /\ UNCHANGED <<life, dials, online, room, inbox, made, failures, shaken>>

\* The two connections have each other's description.
Paired(p, q) ==
    /\ conn[p][q] # None /\ conn[q][p] # None
    /\ conn[p][q].remote = conn[q][p].n /\ conn[q][p].remote = conn[p][q].n
    /\ conn[p][q].local /\ conn[q][p].local

Opens(p, q) ==
    /\ Paired(p, q)
    /\ conn[p][q].reachable \/ conn[q][p].reachable
    /\ ~conn[p][q].open
    /\ conn' = [conn EXCEPT ![p][q].open = TRUE]
    /\ UNCHANGED <<life, netVars, inbox, made, failures, shaken>>

\* The other end of the channel is gone.
Closes(p, q) ==
    /\ conn[p][q] # None
    /\ conn[p][q].open /\ ~Paired(p, q)
    /\ Forget(p, q)
    /\ UNCHANGED <<life, netVars, inbox, failures, shaken>>

(***************************************************************************)
(* Departures and failures                                                 *)
(***************************************************************************)
\* stop and the close of the socket, by the student or at the end of the session.
Leave(p) ==
    /\ life[p] = "in"
    /\ life' = [life EXCEPT ![p] = "gone"]
    /\ conn' = [conn EXCEPT ![p] = [q \in Ids |-> None]]
    /\ HangsUp(p)
    /\ online' = online \ {p}
    /\ inbox' = [inbox EXCEPT ![p] = <<>>]
    /\ UNCHANGED <<dials, room, made, failures, shaken>>

\* The socket breaks; some of what it carried up still arrives, and its end is noticed sometime.
SocketBreaks(p) ==
    /\ p \in online
    /\ failures < MaxFailures
    /\ failures' = failures + 1
    /\ shaken' = shaken \cup {p}
    /\ \E kept \in 0..Len(up[p][dials[p]]) :
        up' = [up EXCEPT ![p][dials[p]] = Append(SubSeq(@, 1, kept), Close)]
    /\ online' = online \ {p}
    /\ inbox' = [inbox EXCEPT ![p] = <<>>]
    /\ UNCHANGED <<life, dials, room, made, conn>>

ChannelBreaks(p, q) ==
    /\ conn[p][q] # None
    /\ conn[p][q].open
    /\ failures < MaxFailures
    /\ failures' = failures + 1
    /\ shaken' = shaken \cup {p, q}
    /\ Forget(p, q)
    /\ UNCHANGED <<life, netVars, inbox>>

Step(p, q) ==
    \/ OfferReady(p, q) \/ AnswerDescribed(p, q) \/ OfferDescribed(p, q) \/ AnswerReady(p, q)
    \/ Gather(p, q) \/ Opens(p, q)

Next ==
    \/ \E p \in Ids : Connect(p) \/ Receive(p) \/ Leave(p) \/ SocketBreaks(p)
    \/ \E p \in Ids, k \in Sockets : Relay(p, k)
    \/ \E p, q \in Ids : Step(p, q) \/ Closes(p, q) \/ ChannelBreaks(p, q)

Spec == Init /\ [][Next]_vars

\* Frames are handled, promises settle, candidates are gathered, and where two browsers can
\* reach each other their channel opens.
Fairness ==
    /\ \A p \in Students : WF_vars(Receive(p))
    /\ \A p \in Ids, k \in Sockets : WF_vars(Relay(p, k))
    /\ \A p \in Students, q \in Ids : WF_vars(Step(p, q))

FairSpec == Spec /\ Fairness

-----------------------------------------------------------------------------
\* An offer never meets an offer: no connection with an offer of its own is sent one, whoever
\* discovers whom first, and whatever breaks in between (handlePeerDiscovered, line 175:
\* "Deterministic glare resolution rule").
NoGlare ==
    \A p \in Ids : \A m \in ToSet(inbox[p]) \cup UNION {ToSet(up[q][k]) : q \in Ids, k \in Sockets} :
        m.type = "offer" /\ conn[m.to][m.from] # None => ~conn[m.to][m.from].initiator

\* A candidate that waits has no remote description to wait for (addIceCandidate, line 166;
\* flushPendingIceCandidates).
CandidatesWaitForDescription ==
    \A p, q \in Ids : conn[p][q] # None /\ conn[p][q].remote # 0 => conn[p][q].queued = {}

\* No browser exceeds its slots, and, between browsers whose sockets and channels never broke, a
\* slot held for one that is no longer registered is about to be freed: the notice of its
\* departure is under way (handlePeerDiscovered, handlePeerLeft; handleSignalOffer, which makes
\* connections too).
NoGhostSlots ==
    /\ \A p \in Ids : Cardinality(Slots(p)) <= MaxPeers
    /\ \A p, q \in Ids : conn[p][q] # None /\ room[q] = 0 /\ {p, q} \cap shaken = {} =>
           \E m \in ToSet(inbox[p]) : m.type = "left" /\ m.of = q

\* Two students in the class end up connected, if nothing of theirs breaks, neither leaves and
\* neither ran out of slots before it came to the other (what is freed later is not offered to
\* those already there), in whatever order they come and whatever happens to others.
Connected(p, q) == Paired(p, q) /\ conn[p][q].open /\ conn[q][p].open
RanOut(p, q) ==
    conn[p][q] = None /\ Cardinality({r \in Ids \ {q} : made[p][r] > 0}) >= MaxPeers
Stay(p, q) == life[p] = "in" /\ life[q] = "in" /\ {p, q} \cap shaken = {}
PairsUp ==
    \A p, q \in Students : p < q =>
        (Stay(p, q) ~> (Connected(p, q) \/ RanOut(p, q) \/ RanOut(q, p) \/ ~Stay(p, q)))
=============================================================================
