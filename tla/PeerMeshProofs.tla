----------------------------- MODULE PeerMeshProofs -----------------------------
(***************************************************************************)
(* Proofs about PeerMesh: its types, the bound on slots, the glare rule,   *)
(* the candidates that wait, and the slots of those who have left.         *)
(***************************************************************************)
EXTENDS PeerMesh, FiniteSetTheorems, TLAPS

\* What the glare rule does to the messages: offers go from the higher peerId to the lower.
Downhill(m) == m.type = "offer" => m.from > m.to
AllDownhill(s) == \A i \in DOMAIN s : Downhill(s[i])
OffersDownhill ==
    /\ \A p \in Ids, k \in Sockets : AllDownhill(up[p][k])
    /\ \A p \in Ids : AllDownhill(inbox[p])

\* An offer is handed to its addressee.
Addressed(s, p) == \A i \in DOMAIN s : s[i].type = "offer" => s[i].to = p
OffersAddressed == \A p \in Ids : Addressed(inbox[p], p)

\* Connections that initiate are those of the higher peerId; the others answer, one offer after
\* the other; candidates wait for a description only.
Sound(p, q, c) ==
    /\ c.initiator => p > q /\ ~c.replying
    /\ c.replying => c.todo # <<>>
    /\ c.remote # 0 => c.queued = {}
ConnsSound == \A p, q \in Ids : conn[p][q] # None => Sound(p, q, conn[p][q])

SlotsBounded == \A p \in Ids : p \notin Slots(p) /\ Cardinality(Slots(p)) <= MaxPeers

IInv == Typed /\ SlotsBounded /\ ConnsSound /\ OffersDownhill /\ OffersAddressed

ConnInv == conn \in [Ids -> [Ids -> Conn \cup {None}]] /\ SlotsBounded /\ ConnsSound

Mail == Signal \cup Notice \cup Roster
Frames == Signal \cup {Close}
MailInv ==
    /\ up \in [Ids -> [Sockets -> Seq(Frames)]] /\ inbox \in [Ids -> Seq(Mail)]
    /\ OffersDownhill /\ OffersAddressed

\* The rest of the types.
Rest ==
    /\ life \in [Ids -> {"out", "in", "gone"}]
    /\ dials \in [Ids -> 0..MaxDials]
    /\ online \in SUBSET Ids
    /\ room \in [Ids -> 0..MaxDials]
    /\ made \in [Ids -> [Ids -> 0..MaxConns]]
    /\ failures \in 0..MaxFailures
    /\ shaken \in SUBSET Ids

-----------------------------------------------------------------------------
LEMMA SlotsFinite ==
    ASSUME NEW p \in Ids
    PROVE  IsFiniteSet(Slots(p)) /\ Cardinality(Slots(p)) \in Nat
<1>1. Slots(p) \in SUBSET Ids
    BY DEF Slots
<1> QED BY <1>1, IdsAssumption, FS_Subset, FS_CardinalityType

\* A connection that goes on, or ends, takes no slot.
LEMMA ConnGoesOn ==
    ASSUME ConnInv, NEW p \in Ids, NEW q \in Ids, NEW c \in Conn \cup {None},
           conn' = [conn EXCEPT ![p][q] = c],
           c = None \/ (conn[p][q] # None /\ Sound(p, q, c))
    PROVE  ConnInv'
<1>1. conn' \in [Ids -> [Ids -> Conn \cup {None}]]
    BY DEF ConnInv
<1>2. \A r, s \in Ids : conn'[r][s] = IF r = p /\ s = q THEN c ELSE conn[r][s]
    BY DEF ConnInv
<1>3. ASSUME NEW r \in Ids
      PROVE  r \notin Slots(r)' /\ Cardinality(Slots(r)') <= MaxPeers
    <2>1. Slots(r)' \in SUBSET Slots(r)
        BY <1>2 DEF Slots
    <2>2. /\ IsFiniteSet(Slots(r)') /\ Cardinality(Slots(r)') \in Nat
          /\ Cardinality(Slots(r)') <= Cardinality(Slots(r))
        BY <2>1, SlotsFinite, FS_Subset, FS_CardinalityType
    <2>3. r \notin Slots(r) /\ Cardinality(Slots(r)) <= MaxPeers /\ Cardinality(Slots(r)) \in Nat
        BY SlotsFinite DEF ConnInv, SlotsBounded
    <2> QED BY <2>1, <2>2, <2>3, BoundsAssumption
<1>4. ConnsSound'
    BY <1>2 DEF ConnInv, ConnsSound
<1> QED BY <1>1, <1>3, <1>4 DEF ConnInv, SlotsBounded

\* New connections, as many as there are slots.
LEMMA ConnsBegin ==
    ASSUME ConnInv, NEW p \in Ids, NEW taken \in SUBSET (Ids \ (Slots(p) \cup {p})),
           Cardinality(taken) <= MaxPeers - Cardinality(Slots(p)),
           NEW f \in [taken -> Conn], \A q \in taken : Sound(p, q, f[q]),
           conn' = [conn EXCEPT ![p] = [q \in Ids |-> IF q \in taken THEN f[q] ELSE @[q]]]
    PROVE  ConnInv'
<1>1. conn' \in [Ids -> [Ids -> Conn \cup {None}]]
    BY DEF ConnInv
<1>2. \A r, s \in Ids : conn'[r][s] = IF r = p /\ s \in taken THEN f[s] ELSE conn[r][s]
    BY DEF ConnInv
<1>3. ASSUME NEW r \in Ids
      PROVE  r \notin Slots(r)' /\ Cardinality(Slots(r)') <= MaxPeers
    <2>1. Slots(r)' \in SUBSET (IF r = p THEN Slots(r) \cup taken ELSE Slots(r))
        BY <1>2 DEF Slots
    <2>2. r \notin Slots(r) /\ Cardinality(Slots(r)) <= MaxPeers
        BY DEF ConnInv, SlotsBounded
    <2>3. IsFiniteSet(Slots(r)) /\ Cardinality(Slots(r)) \in Nat
        BY SlotsFinite
    <2>4. CASE r # p
        BY <2>1, <2>2, <2>3, <2>4, FS_Subset, FS_CardinalityType, BoundsAssumption
    <2>5. CASE r = p
        <3>1. IsFiniteSet(taken) /\ Cardinality(taken) \in Nat
            BY IdsAssumption, FS_Subset, FS_CardinalityType
        <3>2. Slots(r) \cap taken = {}
            BY <2>5
        <3>3. /\ IsFiniteSet(Slots(r) \cup taken)
              /\ Cardinality(Slots(r) \cup taken) = Cardinality(Slots(r)) + Cardinality(taken)
            <4>1. Cardinality(Slots(r) \cap taken) = 0
                BY <3>2, FS_EmptySet
            <4>2. /\ IsFiniteSet(Slots(r) \cup taken)
                  /\ Cardinality(Slots(r) \cup taken)
                        = Cardinality(Slots(r)) + Cardinality(taken) - Cardinality(Slots(r) \cap taken)
                BY <2>3, <3>1, FS_Union
            <4> QED BY <2>3, <3>1, <4>1, <4>2
        <3>4. Slots(r)' \in SUBSET (Slots(r) \cup taken)
            BY <2>1, <2>5
        <3>5. IsFiniteSet(Slots(r)') /\ Cardinality(Slots(r)') \in Nat
              /\ Cardinality(Slots(r)') <= Cardinality(Slots(r) \cup taken)
            BY <3>3, <3>4, FS_Subset, FS_CardinalityType
        <3>6. r \notin Slots(r)'
            BY <3>4, <2>2, <2>5
        <3> QED BY <2>3, <2>5, <3>1, <3>3, <3>5, <3>6, BoundsAssumption
    <2> QED BY <2>4, <2>5
<1>4. ConnsSound'
    BY <1>2 DEF ConnInv, ConnsSound
<1> QED BY <1>1, <1>3, <1>4 DEF ConnInv, SlotsBounded

LEMMA ConnStays == ASSUME ConnInv, conn' = conn PROVE ConnInv'
BY DEF ConnInv, SlotsBounded, Slots, ConnsSound

-----------------------------------------------------------------------------
\* What a message does to a sequence of them.
LEMMA AppendKeeps ==
    ASSUME NEW S, NEW s \in Seq(S), NEW m \in S, AllDownhill(s), Downhill(m)
    PROVE  /\ Append(s, m) \in Seq(S) /\ AllDownhill(Append(s, m))
           /\ \A p : Addressed(s, p) /\ (m.type = "offer" => m.to = p) => Addressed(Append(s, m), p)
<1> DEFINE n == Len(s)
<1>1. /\ n \in Nat /\ DOMAIN s = 1..n /\ DOMAIN Append(s, m) = 1..(n + 1)
      /\ Append(s, m)[n + 1] = m /\ \A i \in 1..n : Append(s, m)[i] = s[i]
    OBVIOUS
<1>2. Append(s, m) \in Seq(S)
    OBVIOUS
<1> QED BY <1>1, <1>2 DEF AllDownhill, Addressed

LEMMA SubSeqKeeps ==
    ASSUME NEW S, NEW s \in Seq(S), AllDownhill(s), NEW k \in 0..Len(s)
    PROVE  SubSeq(s, 1, k) \in Seq(S) /\ AllDownhill(SubSeq(s, 1, k))
<1>1. /\ SubSeq(s, 1, k) \in Seq(S) /\ DOMAIN SubSeq(s, 1, k) = 1..k
      /\ DOMAIN s = 1..Len(s) /\ \A i \in 1..k : SubSeq(s, 1, k)[i] = s[i]
    OBVIOUS
<1> QED BY <1>1 DEF AllDownhill

LEMMA TailKeeps ==
    ASSUME NEW S, NEW s \in Seq(S), s # <<>>, AllDownhill(s)
    PROVE  /\ Head(s) \in S /\ Downhill(Head(s))
           /\ Tail(s) \in Seq(S) /\ AllDownhill(Tail(s))
           /\ \A p : Addressed(s, p) =>
                /\ Head(s).type = "offer" => Head(s).to = p
                /\ Addressed(Tail(s), p)
<1> DEFINE n == Len(s)
<1>1. /\ n \in Nat \ {0} /\ DOMAIN s = 1..n /\ DOMAIN Tail(s) = 1..(n - 1)
      /\ \A i \in 1..(n - 1) : Tail(s)[i] = s[i + 1]
      /\ 1 \in DOMAIN s /\ Head(s) = s[1]
    OBVIOUS
<1>2. Head(s) \in S /\ Tail(s) \in Seq(S)
    OBVIOUS
<1>3. \A i \in 1..(n - 1) : i + 1 \in DOMAIN s
    BY <1>1
<1> QED BY <1>1, <1>2, <1>3 DEF AllDownhill, Addressed

LEMMA MailStays == ASSUME MailInv, up' = up, inbox' = inbox PROVE MailInv'
BY DEF MailInv, OffersDownhill, OffersAddressed

\* A browser puts a frame on a socket.
LEMMA FrameSent ==
    ASSUME MailInv, NEW p \in Ids, NEW k, NEW m \in Frames, Downhill(m),
           up' = [up EXCEPT ![p][k] = Append(@, m)],
           \/ inbox' = inbox
           \/ inbox' = [inbox EXCEPT ![p] = <<>>]
    PROVE  MailInv'
<1>1. \A r \in Ids, j \in Sockets :
        /\ up[r][j] \in Seq(Frames) /\ AllDownhill(up[r][j])
        /\ up'[r][j] = IF r = p /\ j = k THEN Append(up[r][j], m) ELSE up[r][j]
    BY DEF MailInv, OffersDownhill
<1>2. \A r \in Ids, j \in Sockets : up'[r][j] \in Seq(Frames) /\ AllDownhill(up'[r][j])
    BY <1>1, AppendKeeps
<1>3. up' \in [Ids -> [Sockets -> Seq(Frames)]]
    BY <1>2 DEF MailInv
<1>4. /\ inbox' \in [Ids -> Seq(Mail)]
      /\ \A r \in Ids : inbox'[r] = inbox[r] \/ inbox'[r] = <<>>
    <2>1. inbox \in [Ids -> Seq(Mail)] /\ <<>> \in Seq(Mail)
        BY DEF MailInv
    <2>2. CASE inbox' = inbox
        BY <2>1, <2>2
    <2>3. CASE inbox' = [inbox EXCEPT ![p] = <<>>]
        BY <2>1, <2>3
    <2> QED BY <2>2, <2>3
<1> QED BY <1>2, <1>3, <1>4 DEF MailInv, OffersDownhill, OffersAddressed, AllDownhill, Addressed

LEMMA InboxLostParts ==
    ASSUME MailInv, NEW p \in Ids, inbox' = [inbox EXCEPT ![p] = <<>>]
    PROVE  /\ inbox' \in [Ids -> Seq(Mail)]
           /\ \A r \in Ids : AllDownhill(inbox'[r]) /\ Addressed(inbox'[r], r)
<1>1. /\ inbox \in [Ids -> Seq(Mail)] /\ <<>> \in Seq(Mail)
      /\ \A r \in Ids : AllDownhill(inbox[r]) /\ Addressed(inbox[r], r)
    BY DEF MailInv, OffersDownhill, OffersAddressed
<1>2. \A r : AllDownhill(<<>>) /\ Addressed(<<>>, r)
    BY DEF AllDownhill, Addressed
<1> QED BY <1>1, <1>2

LEMMA InboxLost ==
    ASSUME MailInv, NEW p \in Ids, up' = up, inbox' = [inbox EXCEPT ![p] = <<>>]
    PROVE  MailInv'
BY InboxLostParts DEF MailInv, OffersDownhill, OffersAddressed

\* The server tells the others.
LEMMA BroadcastKeeps ==
    ASSUME NEW box \in [Ids -> Seq(Mail)], NEW p \in Ids, NEW m \in Notice,
           \A r \in Ids : AllDownhill(box[r]) /\ Addressed(box[r], r)
    PROVE  /\ Broadcast(p, m, box) \in [Ids -> Seq(Mail)]
           /\ \A r \in Ids : AllDownhill(Broadcast(p, m, box)[r]) /\ Addressed(Broadcast(p, m, box)[r], r)
<1>1. m \in Mail /\ m.type # "offer"
    BY DEF Mail, Notice
<1>2. \A r \in Ids : /\ Append(box[r], m) \in Seq(Mail) /\ AllDownhill(Append(box[r], m))
                     /\ Addressed(Append(box[r], m), r)
    BY <1>1, AppendKeeps DEF Downhill
<1> QED BY <1>2 DEF Broadcast

-----------------------------------------------------------------------------
LEMMA Parts == IInv <=> Rest /\ ConnInv /\ MailInv
BY DEF IInv, Typed, Rest, ConnInv, MailInv, Mail, Frames

LEMMA PartsNext == IInv' <=> Rest' /\ ConnInv' /\ MailInv'
BY DEF IInv, Typed, Rest, ConnInv, MailInv, Mail, Frames

LEMMA InitInv == Init => IInv
<1> SUFFICES ASSUME Init PROVE Rest /\ ConnInv /\ MailInv
    BY Parts
<1>1. Rest
    BY BoundsAssumption DEF Init, Rest
<1>2. ConnInv
    <2>1. /\ conn \in [Ids -> [Ids -> Conn \cup {None}]]
          /\ \A p, q \in Ids : conn[p][q] = None
        BY DEF Init
    <2>2. \A p \in Ids : Slots(p) = {}
        BY <2>1 DEF Slots
    <2>3. Cardinality({}) <= MaxPeers
        BY FS_EmptySet, BoundsAssumption
    <2> QED BY <2>1, <2>2, <2>3 DEF ConnInv, SlotsBounded, ConnsSound
<1>3. MailInv
    BY DEF Init, MailInv, OffersDownhill, OffersAddressed, AllDownhill, Addressed
<1> QED BY <1>1, <1>2, <1>3

\* A signal of a connection is sent, or dropped.
LEMMA SignalSent ==
    ASSUME MailInv, NEW p \in Ids, NEW q \in Ids, NEW n \in 1..MaxConns,
           NEW type \in {"offer", "answer", "ice"}, type = "offer" => p > q,
           Send(p, type, q, n), inbox' = inbox
    PROVE  MailInv'
<1> DEFINE m == [type |-> type, from |-> p, to |-> q, n |-> n]
<1>1. m \in Frames /\ Downhill(m)
    BY DEF Frames, Signal, Downhill
<1>2. CASE p \in online
    <2>1. up' = [up EXCEPT ![p][dials[p]] = Append(@, m)]
        BY <1>2 DEF Send
    <2> QED BY <1>1, <2>1, FrameSent
<1>3. CASE p \notin online
    BY <1>3, MailStays DEF Send
<1> QED BY <1>2, <1>3

LEMMA CloseIsFrame == Close \in Frames /\ Downhill(Close)
BY DEF Frames, Close, Downhill

LEMMA ConnectInv == ASSUME IInv, NEW p \in Ids, Connect(p) PROVE IInv'
<1>1. Rest'
    <2>1. Rest /\ dials[p] + 1 \in 0..MaxDials
        BY Parts, BoundsAssumption DEF Connect, Rest
    <2> QED BY <2>1 DEF Connect, Rest
<1>2. ConnInv'
    BY Parts, ConnStays DEF Connect
<1>3. MailInv'
    <2> DEFINE m == [type |-> "joined", of |-> p]
               first == IF p \in Students THEN <<[type |-> "roster", peers |-> Members \ {p}]>> ELSE <<>>
               box == [inbox EXCEPT ![p] = first]
    <2>1. MailInv
        BY Parts
    <2>2. [type |-> "roster", peers |-> Members \ {p}] \in Mail
        BY DEF Mail, Roster, Members
    <2>3. first \in Seq(Mail) /\ AllDownhill(first) /\ Addressed(first, p)
        <3>1. CASE p \in Students
            <4>1. /\ first = <<[type |-> "roster", peers |-> Members \ {p}]>>
                  /\ first \in Seq(Mail)
                BY <2>2, <3>1
            <4>2. \A i \in DOMAIN first : first[i].type = "roster"
                BY <4>1
            <4> QED BY <4>1, <4>2 DEF AllDownhill, Addressed, Downhill
        <3>2. CASE p \notin Students
            <4>1. first = <<>> /\ <<>> \in Seq(Mail)
                BY <3>2
            <4> QED BY <4>1 DEF AllDownhill, Addressed
        <3> QED BY <3>1, <3>2
    <2> HIDE DEF first
    <2>4. /\ box \in [Ids -> Seq(Mail)]
          /\ \A r \in Ids : AllDownhill(box[r]) /\ Addressed(box[r], r)
        BY <2>1, <2>3 DEF MailInv, OffersDownhill, OffersAddressed
    <2>5. m \in Notice
        BY DEF Notice
    <2>6. inbox' = Broadcast(p, m, box) /\ up' = up
        BY DEF Connect, first
    <2> HIDE DEF box, m
    <2> QED BY <2>1, <2>4, <2>5, <2>6, BroadcastKeeps DEF MailInv, OffersDownhill, OffersAddressed
<1> QED BY <1>1, <1>2, <1>3, PartsNext

LEMMA RelayInv == ASSUME IInv, NEW p \in Ids, NEW k \in Sockets, Relay(p, k) PROVE IInv'
<1> DEFINE m == Head(up[p][k])
<1>1. MailInv /\ Rest /\ ConnInv
    BY Parts
<1>2. /\ up[p][k] \in Seq(Frames) /\ up[p][k] # <<>> /\ AllDownhill(up[p][k])
      /\ up' = [up EXCEPT ![p][k] = Tail(@)]
    BY <1>1 DEF Relay, MailInv, OffersDownhill
<1>3. m \in Frames /\ Downhill(m) /\ Tail(up[p][k]) \in Seq(Frames) /\ AllDownhill(Tail(up[p][k]))
    BY <1>2, TailKeeps
<1>4. /\ up' \in [Ids -> [Sockets -> Seq(Frames)]]
      /\ \A r \in Ids, j \in Sockets : AllDownhill(up'[r][j])
    BY <1>1, <1>2, <1>3 DEF MailInv, OffersDownhill
<1>5. Rest'
    <2>1. room' = room \/ room' = [room EXCEPT ![p] = 0]
        BY DEF Relay
    <2>2. room' \in [Ids -> 0..MaxDials]
        BY <1>1, <2>1, BoundsAssumption DEF Rest
    <2> QED BY <1>1, <2>2 DEF Relay, Rest
<1>6. ConnInv'
    BY <1>1, ConnStays DEF Relay
<1>7. /\ inbox' \in [Ids -> Seq(Mail)]
      /\ \A r \in Ids : AllDownhill(inbox'[r]) /\ Addressed(inbox'[r], r)
    <2>1. /\ inbox \in [Ids -> Seq(Mail)]
          /\ \A r \in Ids : AllDownhill(inbox[r]) /\ Addressed(inbox[r], r)
        BY <1>1 DEF MailInv, OffersDownhill, OffersAddressed
    <2>2. CASE inbox' = inbox
        BY <2>1, <2>2
    <2>3. CASE /\ m.type # "close"
               /\ inbox' = [inbox EXCEPT ![m.to] = Append(@, m)]
        <3>1. m \in Signal /\ m.to \in Ids /\ m \in Mail
            BY <1>3, <2>3 DEF Frames, Close, Signal, Mail
        <3>2. /\ Append(inbox[m.to], m) \in Seq(Mail) /\ AllDownhill(Append(inbox[m.to], m))
              /\ Addressed(Append(inbox[m.to], m), m.to)
            BY <1>3, <2>1, <3>1, AppendKeeps
        <3> QED BY <2>1, <2>3, <3>1, <3>2
    <2>4. CASE inbox' = Broadcast(p, [type |-> "left", of |-> p], inbox)
        <3>1. [type |-> "left", of |-> p] \in Notice
            BY DEF Notice
        <3> QED BY <2>1, <2>4, <3>1, BroadcastKeeps
    <2> QED BY <2>2, <2>3, <2>4 DEF Relay
<1> QED BY <1>4, <1>5, <1>6, <1>7, PartsNext DEF MailInv, OffersDownhill, OffersAddressed

\* What a browser does with the first of its messages to its connections.
LEMMA NewConnTyped ==
    ASSUME NEW p \in Ids, NEW q \in Ids, made \in [Ids -> [Ids -> 0..MaxConns]], made[p][q] < MaxConns,
           NEW initiator \in BOOLEAN, initiator => p > q
    PROVE  /\ NewConn(p, q, initiator) \in Conn /\ Sound(p, q, NewConn(p, q, initiator))
           /\ ~NewConn(p, q, initiator).replying /\ NewConn(p, q, initiator).initiator = initiator
           /\ made[p][q] + 1 \in 0..MaxConns
BY BoundsAssumption DEF NewConn, Conn, Sound

LEMMA TodoChanges ==
    ASSUME NEW p, NEW q, NEW c \in Conn, Sound(p, q, c), NEW t \in Seq(1..MaxConns),
           t # <<>> \/ ~c.replying
    PROVE  [c EXCEPT !.todo = t] \in Conn /\ Sound(p, q, [c EXCEPT !.todo = t])
BY DEF Conn, Sound

LEMMA TodoGrows ==
    ASSUME NEW p, NEW q, NEW c \in Conn, Sound(p, q, c), NEW n \in 1..MaxConns
    PROVE  /\ [c EXCEPT !.todo = Append(@, n)] \in Conn
           /\ Sound(p, q, [c EXCEPT !.todo = Append(@, n)])
<1>1. c.todo \in Seq(1..MaxConns)
    BY DEF Conn
<1>2. Append(c.todo, n) \in Seq(1..MaxConns) /\ Append(c.todo, n) # <<>>
    BY <1>1
<1> QED BY <1>2, TodoChanges

LEMMA HeadTail ==
    ASSUME NEW S, NEW s \in Seq(S), s # <<>>
    PROVE  Head(s) \in S /\ Tail(s) \in Seq(S)
OBVIOUS

LEMMA TodoShrinks ==
    ASSUME NEW c \in Conn, c.todo # <<>>
    PROVE  Head(c.todo) \in 1..MaxConns /\ Tail(c.todo) \in Seq(1..MaxConns)
<1>1. c.todo \in Seq(1..MaxConns)
    BY DEF Conn
<1> QED BY <1>1, HeadTail

LEMMA DescribedTyped ==
    ASSUME NEW p, NEW q, NEW c \in Conn, c.todo # <<>>, Sound(p, q, c)
    PROVE  /\ Described(c) \in Conn /\ Sound(p, q, Described(c))
           /\ Described(c).todo = c.todo /\ Described(c).initiator = c.initiator
           /\ Described(c).replying = c.replying
<1>1. Head(c.todo) \in 0..MaxConns
    BY TodoShrinks, BoundsAssumption
<1>2. (Head(c.todo) \in c.queued) \in BOOLEAN /\ {} \in SUBSET (1..MaxConns)
    OBVIOUS
<1> QED BY <1>1, <1>2 DEF Described, Conn, Sound

MadeInv == made \in [Ids -> [Ids -> 0..MaxConns]]

LEMMA DiscoverInv ==
    ASSUME ConnInv, MadeInv, NEW p \in Ids, NEW listed \in SUBSET Ids, Discover(p, listed)
    PROVE  ConnInv' /\ MadeInv'
<1> DEFINE fresh == listed \ (Slots(p) \cup {p})
           free == MaxPeers - Cardinality(Slots(p))
<1>1. PICK taken \in SUBSET fresh :
        /\ \/ taken = fresh /\ Cardinality(fresh) <= free
           \/ Cardinality(taken) = free /\ Cardinality(fresh) > free
        /\ \A q \in taken : made[p][q] < MaxConns
        /\ conn' = [conn EXCEPT ![p] =
                [q \in Ids |-> IF q \in taken THEN NewConn(p, q, Initiates(p, q)) ELSE @[q]]]
        /\ made' = [made EXCEPT ![p] = [q \in Ids |-> IF q \in taken THEN @[q] + 1 ELSE @[q]]]
    BY DEF Discover
<1>2. taken \in SUBSET (Ids \ (Slots(p) \cup {p}))
    BY <1>1
<1>3. Cardinality(taken) <= free
    <2>1. free \in Int
        BY SlotsFinite, BoundsAssumption
    <2> HIDE DEF free
    <2> QED BY <1>1, <2>1
<1> DEFINE f == [q \in taken |-> NewConn(p, q, Initiates(p, q))]
<1>4. \A q \in taken : /\ NewConn(p, q, Initiates(p, q)) \in Conn
                       /\ Sound(p, q, NewConn(p, q, Initiates(p, q)))
                       /\ made[p][q] + 1 \in 0..MaxConns
    <2> SUFFICES ASSUME NEW q \in taken
                 PROVE  /\ NewConn(p, q, Initiates(p, q)) \in Conn
                        /\ Sound(p, q, NewConn(p, q, Initiates(p, q)))
                        /\ made[p][q] + 1 \in 0..MaxConns
        OBVIOUS
    <2>1. Initiates(p, q) \in BOOLEAN /\ (Initiates(p, q) => p > q)
        BY DEF Initiates
    <2>2. q \in Ids /\ made[p][q] < MaxConns
        BY <1>1, <1>2
    <2> QED BY <2>1, <2>2, NewConnTyped DEF MadeInv
<1>5. f \in [taken -> Conn] /\ \A q \in taken : Sound(p, q, f[q])
    BY <1>4
<1>6. conn' = [conn EXCEPT ![p] = [q \in Ids |-> IF q \in taken THEN f[q] ELSE @[q]]]
    BY <1>1
<1> HIDE DEF f
<1>7. ConnInv'
    BY <1>2, <1>3, <1>5, <1>6, ConnsBegin
<1>8. MadeInv'
    BY <1>1, <1>4 DEF MadeInv
<1> QED BY <1>7, <1>8

\* An offer takes a slot only if there is one, and for another peer.
LEMMA TakeOfferInv ==
    ASSUME ConnInv, MadeInv, NEW p \in Ids, NEW q \in Ids, NEW n \in 1..MaxConns, p # q,
           TakeOffer(p, q, n)
    PROVE  ConnInv' /\ MadeInv'
<1>1. CASE conn' = conn /\ made' = made
    BY <1>1, ConnStays DEF MadeInv
<1>2. CASE conn[p][q] # None /\ conn' = [conn EXCEPT ![p][q].todo = Append(@, n)] /\ made' = made
    <2> DEFINE c == [conn[p][q] EXCEPT !.todo = Append(@, n)]
    <2>1. conn[p][q] \in Conn /\ Sound(p, q, conn[p][q])
        BY <1>2 DEF ConnInv, ConnsSound
    <2>2. c \in Conn /\ Sound(p, q, c)
        BY <2>1, TodoGrows
    <2>3. conn' = [conn EXCEPT ![p][q] = c]
        BY <1>2
    <2> HIDE DEF c
    <2> QED BY <1>2, <2>2, <2>3, ConnGoesOn DEF MadeInv
<1>3. CASE /\ conn[p][q] = None /\ Cardinality(Slots(p)) < MaxPeers /\ made[p][q] < MaxConns
           /\ conn' = [conn EXCEPT ![p][q] = [NewConn(p, q, FALSE) EXCEPT !.todo = <<n>>]]
           /\ made' = [made EXCEPT ![p][q] = @ + 1]
    <2> DEFINE c == [NewConn(p, q, FALSE) EXCEPT !.todo = <<n>>]
               f == [r \in {q} |-> c]
    <2>1. /\ NewConn(p, q, FALSE) \in Conn /\ Sound(p, q, NewConn(p, q, FALSE))
          /\ ~NewConn(p, q, FALSE).replying
          /\ made[p][q] + 1 \in 0..MaxConns
        BY <1>3, NewConnTyped DEF MadeInv
    <2>2. c \in Conn /\ Sound(p, q, c)
        <3>1. <<n>> \in Seq(1..MaxConns)
            OBVIOUS
        <3> QED BY <2>1, <3>1, TodoChanges
    <2> HIDE DEF c
    <2>3. f \in [{q} -> Conn] /\ \A r \in {q} : Sound(p, r, f[r])
        BY <2>2
    <2>4. conn' = [conn EXCEPT ![p] = [r \in Ids |-> IF r \in {q} THEN f[r] ELSE @[r]]]
        BY <1>3 DEF ConnInv, c
    <2>5. {q} \in SUBSET (Ids \ (Slots(p) \cup {p}))
        BY <1>3 DEF Slots
    <2>6. Cardinality({q}) <= MaxPeers - Cardinality(Slots(p))
        <3>1. Cardinality({q}) = 1
            BY FS_Singleton
        <3>2. Cardinality(Slots(p)) \in Nat /\ MaxPeers \in Nat
            BY SlotsFinite, BoundsAssumption
        <3> QED BY <1>3, <3>1, <3>2
    <2> HIDE DEF f
    <2>7. ConnInv'
        BY <2>3, <2>4, <2>5, <2>6, ConnsBegin
    <2> QED BY <1>3, <2>1, <2>7 DEF MadeInv
<1> QED BY <1>1, <1>2, <1>3 DEF TakeOffer

LEMMA TakeAnswerInv ==
    ASSUME ConnInv, MadeInv, NEW p \in Ids, NEW q \in Ids, NEW n \in 1..MaxConns,
           TakeAnswer(p, q, n)
    PROVE  ConnInv' /\ MadeInv'
<1> DEFINE c == [conn[p][q] EXCEPT !.todo = Append(@, n)]
<1>1. CASE conn' = conn
    BY <1>1, ConnStays DEF MadeInv, TakeAnswer
<1>2. CASE conn[p][q] # None /\ conn' = [conn EXCEPT ![p][q].todo = Append(@, n)]
    <2>1. c \in Conn /\ Sound(p, q, c)
        <3>1. conn[p][q] \in Conn /\ Sound(p, q, conn[p][q])
            BY <1>2 DEF ConnInv, ConnsSound
        <3> QED BY <3>1, TodoGrows
    <2>2. conn' = [conn EXCEPT ![p][q] = c]
        BY <1>2
    <2> HIDE DEF c
    <2> QED BY <1>2, <2>1, <2>2, ConnGoesOn DEF MadeInv, TakeAnswer
<1> QED BY <1>1, <1>2 DEF TakeAnswer

LEMMA TakeCandidateInv ==
    ASSUME ConnInv, MadeInv, NEW p \in Ids, NEW q \in Ids, NEW n \in 1..MaxConns,
           TakeCandidate(p, q, n)
    PROVE  ConnInv' /\ MadeInv'
<1>1. CASE conn[p][q] = None
    BY <1>1, ConnStays DEF MadeInv, TakeCandidate
<1>2. CASE conn[p][q] # None
    <2> DEFINE c == IF conn[p][q].remote = 0
                    THEN [conn[p][q] EXCEPT !.queued = @ \cup {n}]
                    ELSE [conn[p][q] EXCEPT !.reachable = @ \/ conn[p][q].remote = n]
    <2>1. conn[p][q] \in Conn /\ Sound(p, q, conn[p][q])
        BY <1>2 DEF ConnInv, ConnsSound
    <2>2. c \in Conn /\ Sound(p, q, c)
        BY <2>1 DEF Conn, Sound
    <2>3. conn' = [conn EXCEPT ![p][q] = c]
        BY <1>2 DEF TakeCandidate
    <2> HIDE DEF c
    <2> QED BY <1>2, <2>2, <2>3, ConnGoesOn DEF MadeInv, TakeCandidate
<1> QED BY <1>1, <1>2

LEMMA ForgetInv ==
    ASSUME ConnInv, MadeInv, NEW p \in Ids, NEW q \in Ids, Forget(p, q)
    PROVE  ConnInv' /\ MadeInv'
<1> DEFINE c == None
<1>1. conn' = [conn EXCEPT ![p][q] = c] /\ made' = made /\ c \in Conn \cup {None} /\ c = None
    BY DEF Forget
<1> HIDE DEF c
<1>2. ConnInv'
    BY <1>1, ConnGoesOn
<1> QED BY <1>1, <1>2 DEF MadeInv

LEMMA ReceiveInv == ASSUME IInv, NEW p \in Ids, Receive(p) PROVE IInv'
<1> DEFINE m == Head(inbox[p])
<1>1. Rest /\ ConnInv /\ MailInv /\ MadeInv
    BY Parts DEF Rest, MadeInv
<1>2. /\ inbox \in [Ids -> Seq(Mail)] /\ inbox[p] # <<>>
      /\ AllDownhill(inbox[p]) /\ Addressed(inbox[p], p)
      /\ inbox' = [inbox EXCEPT ![p] = Tail(@)]
    BY <1>1 DEF Receive, MailInv, OffersDownhill, OffersAddressed
<1>3. /\ m \in Mail /\ Downhill(m) /\ (m.type = "offer" => m.to = p)
      /\ Tail(inbox[p]) \in Seq(Mail) /\ AllDownhill(Tail(inbox[p])) /\ Addressed(Tail(inbox[p]), p)
    <2>1. inbox[p] \in Seq(Mail)
        BY <1>2
    <2> QED BY <1>2, <2>1, TailKeeps
<1>4. MailInv'
    BY <1>1, <1>2, <1>3 DEF MailInv, OffersDownhill, OffersAddressed, Receive, netVars
<1>5. ConnInv' /\ MadeInv'
    <2>1. CASE m.type = "roster" /\ Discover(p, m.peers)
        <3>1. m.peers \in SUBSET Ids
            BY <1>3, <2>1 DEF Mail, Signal, Notice, Roster
        <3> QED BY <1>1, <2>1, <3>1, DiscoverInv
    <2>2. CASE m.type = "joined" /\ Discover(p, {m.of})
        <3>1. {m.of} \in SUBSET Ids
            BY <1>3, <2>2 DEF Mail, Signal, Notice, Roster
        <3> QED BY <1>1, <2>2, <3>1, DiscoverInv
    <2>3. CASE m.type = "left" /\ Forget(p, m.of)
        <3>1. m.of \in Ids
            BY <1>3, <2>3 DEF Mail, Signal, Notice, Roster
        <3> QED BY <1>1, <2>3, <3>1, ForgetInv
    <2>4. CASE m.type = "offer" /\ TakeOffer(p, m.from, m.n)
        <3>1. m \in Signal
            BY <1>3, <2>4 DEF Mail, Notice, Roster
        <3>2. m.from \in Ids /\ m.n \in 1..MaxConns
            BY <3>1 DEF Signal
        <3>3. p # m.from
            BY <1>3, <2>4, <3>2, IdsAssumption DEF Downhill
        <3> QED BY <1>1, <2>4, <3>2, <3>3, TakeOfferInv
    <2>5. CASE m.type = "answer" /\ TakeAnswer(p, m.from, m.n)
        <3>1. m.from \in Ids /\ m.n \in 1..MaxConns
            BY <1>3, <2>5 DEF Mail, Signal, Notice, Roster
        <3> QED BY <1>1, <2>5, <3>1, TakeAnswerInv
    <2>6. CASE m.type = "ice" /\ TakeCandidate(p, m.from, m.n)
        <3>1. m.from \in Ids /\ m.n \in 1..MaxConns
            BY <1>3, <2>6 DEF Mail, Signal, Notice, Roster
        <3> QED BY <1>1, <2>6, <3>1, TakeCandidateInv
    <2> QED BY <2>1, <2>2, <2>3, <2>4, <2>5, <2>6 DEF Receive
<1>6. Rest'
    BY <1>1, <1>5 DEF Rest, MadeInv, Receive, netVars
<1> QED BY <1>4, <1>5, <1>6, PartsNext

-----------------------------------------------------------------------------
\* The steps of a connection.
LEMMA StepInv == ASSUME IInv, NEW p \in Ids, NEW q \in Ids, Step(p, q) PROVE IInv'
<1> DEFINE c == conn[p][q]
<1>1. Rest /\ ConnInv /\ MailInv
    BY Parts
<1>2. c \in Conn /\ c # None /\ Sound(p, q, c)
    <2>1. c # None
        BY DEF Step, OfferReady, AnswerDescribed, OfferDescribed, AnswerReady, Gather, Opens, Paired
    <2> QED BY <1>1, <2>1 DEF ConnInv, ConnsSound
<1>3. c.n \in 1..MaxConns /\ (c.initiator => p > q)
    BY <1>2 DEF Conn, Sound
<1>4. Rest'
    BY <1>1 DEF Rest, Step, OfferReady, AnswerDescribed, OfferDescribed, AnswerReady, Gather, Opens, netVars
<1>5. ASSUME NEW d \in Conn, Sound(p, q, d), conn' = [conn EXCEPT ![p][q] = d]
      PROVE  ConnInv'
    BY <1>1, <1>2, <1>5, ConnGoesOn
<1>6. ConnInv'
    <2>1. CASE OfferReady(p, q)
        <3> DEFINE d == [c EXCEPT !.local = TRUE]
        <3>1. d \in Conn /\ Sound(p, q, d)
            BY <1>2 DEF Conn, Sound
        <3>2. conn' = [conn EXCEPT ![p][q] = d]
            BY <2>1 DEF OfferReady
        <3> HIDE DEF d
        <3> QED BY <1>5, <3>1, <3>2
    <2>2. CASE AnswerDescribed(p, q)
        <3> DEFINE e == IF c.remote = 0 THEN Described(c) ELSE c
                   d == [e EXCEPT !.todo = Tail(c.todo)]
        <3>1. c.todo # <<>>
            BY <2>2 DEF AnswerDescribed
        <3>2. e \in Conn /\ Sound(p, q, e) /\ e.todo = c.todo /\ e.initiator
            BY <1>2, <2>2, <3>1, DescribedTyped DEF AnswerDescribed
        <3> HIDE DEF e
        <3>3. d \in Conn /\ Sound(p, q, d)
            <4>1. Tail(c.todo) \in Seq(1..MaxConns) /\ ~e.replying
                BY <1>2, <3>1, <3>2, TodoShrinks DEF Sound
            <4> QED BY <3>2, <4>1, TodoChanges
        <3>4. conn' = [conn EXCEPT ![p][q] = d]
            BY <2>2 DEF AnswerDescribed, e
        <3> HIDE DEF d
        <3> QED BY <1>5, <3>3, <3>4
    <2>3. CASE OfferDescribed(p, q)
        <3>1. c.todo # <<>>
            BY <2>3 DEF OfferDescribed
        <3>2. CASE conn' = [conn EXCEPT ![p][q] = [Described(c) EXCEPT !.replying = TRUE]]
            <4> DEFINE d == [Described(c) EXCEPT !.replying = TRUE]
            <4>1. /\ Described(c) \in Conn /\ ~Described(c).initiator
                  /\ Sound(p, q, Described(c))
                  /\ Described(c).todo # <<>>
                BY <1>2, <2>3, <3>1, DescribedTyped DEF OfferDescribed
            <4>2. d \in Conn /\ Sound(p, q, d)
                BY <4>1 DEF Conn, Sound
            <4>3. conn' = [conn EXCEPT ![p][q] = d]
                BY <3>2
            <4> HIDE DEF d
            <4> QED BY <1>5, <4>2, <4>3
        <3>3. CASE conn' = [conn EXCEPT ![p][q].todo = Tail(@)]
            <4> DEFINE d == [c EXCEPT !.todo = Tail(@)]
            <4>1. d \in Conn /\ Sound(p, q, d)
                <5>1. Tail(c.todo) \in Seq(1..MaxConns) /\ ~c.replying
                    BY <1>2, <2>3, <3>1, TodoShrinks DEF OfferDescribed
                <5> QED BY <1>2, <5>1, TodoChanges
            <4>2. conn' = [conn EXCEPT ![p][q] = d]
                BY <3>3
            <4> HIDE DEF d
            <4> QED BY <1>5, <4>1, <4>2
        <3> QED BY <2>3, <3>2, <3>3 DEF OfferDescribed
    <2>4. CASE AnswerReady(p, q)
        <3> DEFINE d == [c EXCEPT !.local = TRUE, !.replying = FALSE, !.todo = Tail(@)]
        <3>1. Tail(c.todo) \in Seq(1..MaxConns) /\ c.replying
            BY <1>2, <2>4, TodoShrinks DEF AnswerReady, Sound
        <3>2. d \in Conn /\ Sound(p, q, d)
            BY <1>2, <3>1 DEF Conn, Sound
        <3>3. conn' = [conn EXCEPT ![p][q] = d]
            BY <2>4 DEF AnswerReady
        <3> HIDE DEF d
        <3> QED BY <1>5, <3>2, <3>3
    <2>5. CASE Gather(p, q)
        <3> DEFINE d == [c EXCEPT !.gathered = TRUE]
        <3>1. d \in Conn /\ Sound(p, q, d)
            BY <1>2 DEF Conn, Sound
        <3>2. conn' = [conn EXCEPT ![p][q] = d]
            BY <2>5 DEF Gather
        <3> HIDE DEF d
        <3> QED BY <1>5, <3>1, <3>2
    <2>6. CASE Opens(p, q)
        <3> DEFINE d == [c EXCEPT !.open = TRUE]
        <3>1. d \in Conn /\ Sound(p, q, d)
            BY <1>2 DEF Conn, Sound
        <3>2. conn' = [conn EXCEPT ![p][q] = d]
            BY <2>6 DEF Opens
        <3> HIDE DEF d
        <3> QED BY <1>5, <3>1, <3>2
    <2> QED BY <2>1, <2>2, <2>3, <2>4, <2>5, <2>6 DEF Step
<1>7. MailInv'
    <2>1. CASE OfferReady(p, q)
        BY <1>1, <1>3, <2>1, SignalSent DEF OfferReady
    <2>2. CASE AnswerReady(p, q)
        BY <1>1, <1>3, <2>2, SignalSent DEF AnswerReady
    <2>3. CASE Gather(p, q)
        BY <1>1, <1>3, <2>3, SignalSent DEF Gather
    <2>4. CASE AnswerDescribed(p, q) \/ OfferDescribed(p, q) \/ Opens(p, q)
        BY <1>1, <2>4, MailStays DEF AnswerDescribed, OfferDescribed, Opens, netVars
    <2> QED BY <2>1, <2>2, <2>3, <2>4 DEF Step
<1> QED BY <1>4, <1>6, <1>7, PartsNext

-----------------------------------------------------------------------------
\* Departures and failures.
LEMMA ClosesInv == ASSUME IInv, NEW p \in Ids, NEW q \in Ids, Closes(p, q) PROVE IInv'
<1>1. ConnInv' /\ MadeInv'
    BY Parts, ForgetInv DEF Closes, Rest, MadeInv
<1>2. Rest'
    BY <1>1, Parts DEF Closes, Rest, MadeInv, netVars
<1>3. MailInv'
    BY Parts, MailStays DEF Closes, netVars
<1> QED BY <1>1, <1>2, <1>3, PartsNext

LEMMA ChannelBreaksInv == ASSUME IInv, NEW p \in Ids, NEW q \in Ids, ChannelBreaks(p, q) PROVE IInv'
<1>1. ConnInv' /\ MadeInv'
    BY Parts, ForgetInv DEF ChannelBreaks, Rest, MadeInv
<1>2. Rest'
    BY <1>1, Parts, BoundsAssumption DEF ChannelBreaks, Rest, MadeInv, netVars
<1>3. MailInv'
    BY Parts, MailStays DEF ChannelBreaks, netVars
<1> QED BY <1>1, <1>2, <1>3, PartsNext

LEMMA LeaveInv == ASSUME IInv, NEW p \in Ids, Leave(p) PROVE IInv'
<1>1. Rest /\ ConnInv /\ MailInv
    BY Parts
<1>2. Rest'
    BY <1>1 DEF Leave, Rest
<1>3. ConnInv'
    <2>1. /\ conn' \in [Ids -> [Ids -> Conn \cup {None}]]
          /\ \A r, s \in Ids : conn'[r][s] = IF r = p THEN None ELSE conn[r][s]
        BY <1>1 DEF Leave, ConnInv
    <2>2. \A r \in Ids : Slots(r)' = IF r = p THEN {} ELSE Slots(r)
        BY <2>1 DEF Slots
    <2>3. Cardinality({}) <= MaxPeers
        BY FS_EmptySet, BoundsAssumption
    <2>4. SlotsBounded'
        BY <1>1, <2>2, <2>3 DEF ConnInv, SlotsBounded
    <2> QED BY <1>1, <2>1, <2>4 DEF ConnInv, ConnsSound
<1>4. MailInv'
    <2>1. CASE p \in online
        BY <1>1, <2>1, CloseIsFrame, FrameSent DEF Leave, HangsUp
    <2>2. CASE p \notin online
        <3>1. up' = up /\ inbox' = [inbox EXCEPT ![p] = <<>>]
            BY <2>2 DEF Leave, HangsUp
        <3> QED BY <1>1, <3>1, InboxLost
    <2> QED BY <2>1, <2>2
<1> QED BY <1>2, <1>3, <1>4, PartsNext

LEMMA SocketBreaksInv == ASSUME IInv, NEW p \in Ids, SocketBreaks(p) PROVE IInv'
<1>1. Rest /\ ConnInv /\ MailInv
    BY Parts
<1>2. Rest'
    BY <1>1, BoundsAssumption DEF SocketBreaks, Rest
<1>3. ConnInv'
    BY <1>1, ConnStays DEF SocketBreaks
<1>4. MailInv'
    <2> DEFINE k == dials[p]
    <2>1. PICK kept \in 0..Len(up[p][k]) :
            up' = [up EXCEPT ![p][k] = Append(SubSeq(@, 1, kept), Close)]
        BY DEF SocketBreaks
    <2>2. \A r \in Ids, j \in Sockets :
            /\ up[r][j] \in Seq(Frames) /\ AllDownhill(up[r][j])
            /\ up'[r][j] = IF r = p /\ j = k THEN Append(SubSeq(up[r][j], 1, kept), Close) ELSE up[r][j]
        BY <1>1, <2>1 DEF MailInv, OffersDownhill
    <2>3. \A r \in Ids, j \in Sockets : up'[r][j] \in Seq(Frames) /\ AllDownhill(up'[r][j])
        <3> SUFFICES ASSUME NEW r \in Ids, NEW j \in Sockets
                     PROVE  up'[r][j] \in Seq(Frames) /\ AllDownhill(up'[r][j])
            OBVIOUS
        <3>1. CASE r = p /\ j = k
            <4>1. /\ SubSeq(up[r][j], 1, kept) \in Seq(Frames)
                  /\ AllDownhill(SubSeq(up[r][j], 1, kept))
                <5>1. up[r][j] \in Seq(Frames) /\ AllDownhill(up[r][j])
                    BY <2>2
                <5>2. kept \in 0..Len(up[r][j])
                    BY <2>1, <3>1
                <5> QED BY <5>1, <5>2, SubSeqKeeps
            <4>2. /\ Append(SubSeq(up[r][j], 1, kept), Close) \in Seq(Frames)
                  /\ AllDownhill(Append(SubSeq(up[r][j], 1, kept), Close))
                <5> DEFINE s == SubSeq(up[r][j], 1, kept)
                <5> HIDE DEF s
                <5>1. s \in Seq(Frames) /\ AllDownhill(s)
                    BY <4>1 DEF s
                <5>2. Append(s, Close) \in Seq(Frames) /\ AllDownhill(Append(s, Close))
                    BY <5>1, CloseIsFrame, AppendKeeps
                <5> QED BY <5>2 DEF s
            <4> QED BY <2>2, <3>1, <4>2
        <3>2. CASE ~(r = p /\ j = k)
            BY <2>2, <3>2
        <3> QED BY <3>1, <3>2
    <2>4. up' \in [Ids -> [Sockets -> Seq(Frames)]]
        BY <1>1, <2>1, <2>3 DEF MailInv
    <2>5. inbox' = [inbox EXCEPT ![p] = <<>>]
        BY DEF SocketBreaks
    <2> QED BY <1>1, <2>3, <2>4, <2>5, InboxLostParts DEF MailInv, OffersDownhill, OffersAddressed
<1> QED BY <1>2, <1>3, <1>4, PartsNext

-----------------------------------------------------------------------------
\* The induction.
LEMMA Induction == IInv /\ [Next]_vars => IInv'
<1> SUFFICES ASSUME IInv, [Next]_vars PROVE IInv'
    OBVIOUS
<1>1. CASE UNCHANGED vars
    BY <1>1 DEF vars, netVars, IInv, Typed, SlotsBounded, Slots, ConnsSound, OffersDownhill, OffersAddressed
<1>2. CASE Next
    BY <1>2, ConnectInv, ReceiveInv, LeaveInv, SocketBreaksInv, RelayInv, StepInv, ClosesInv,
       ChannelBreaksInv DEF Next
<1> QED BY <1>1, <1>2

\* Every variable keeps its type, and no browser has more connections than slots, or one to
\* itself (MAX_PEER_CONNECTIONS in handlePeerDiscovered and handleSignalOffer).
THEOREM TypeCorrect == Spec => []TypeOK
<1>1. IInv => TypeOK
    BY DEF IInv, TypeOK, SlotsBounded
<1> QED BY <1>1, InitInv, Induction, PTL DEF Spec

\* An offer never reaches a connection with an offer of its own (the glare rule of
\* handlePeerDiscovered).
THEOREM GlareFree == Spec => []NoGlare
<1>1. IInv => NoGlare
    <2> SUFFICES ASSUME IInv, NEW p \in Ids,
                        NEW m \in ToSet(inbox[p]) \cup UNION {ToSet(up[q][k]) : q \in Ids, k \in Sockets},
                        m.type = "offer", conn[m.to][m.from] # None
                 PROVE  ~conn[m.to][m.from].initiator
        BY DEF NoGlare
    <2>1. m \in Mail \cup Frames /\ Downhill(m)
        <3>1. CASE m \in ToSet(inbox[p])
            BY <3>1, Parts DEF MailInv, OffersDownhill, AllDownhill, ToSet
        <3>2. ASSUME NEW q \in Ids, NEW k \in Sockets, m \in ToSet(up[q][k])
              PROVE  m \in Mail \cup Frames /\ Downhill(m)
            BY <3>2, Parts DEF MailInv, OffersDownhill, AllDownhill, ToSet
        <3> QED BY <3>1, <3>2
    <2>2. m.from \in Ids /\ m.to \in Ids
        BY <2>1 DEF Mail, Frames, Signal, Notice, Roster, Close
    <2>3. m.from > m.to /\ ~(m.to > m.from)
        BY <2>1, <2>2, IdsAssumption DEF Downhill
    <2> QED BY <2>2, <2>3 DEF IInv, ConnsSound, Sound
<1> QED BY <1>1, InitInv, Induction, PTL DEF Spec

\* Candidates wait for a remote description and no longer (addIceCandidate and
\* flushPendingIceCandidates).
THEOREM CandidatesFlushed == Spec => []CandidatesWaitForDescription
<1>1. IInv => CandidatesWaitForDescription
    BY DEF IInv, ConnsSound, Sound, CandidatesWaitForDescription
<1> QED BY <1>1, InitInv, Induction, PTL DEF Spec

-----------------------------------------------------------------------------
(***************************************************************************)
(* Slots of those who have left                                            *)
(***************************************************************************)
\* A message on which a slot may be taken for q; one on which it is freed.
Mentions(m, q) ==
    \/ m.type = "roster" /\ q \in m.peers
    \/ m.type = "joined" /\ m.of = q
    \/ m.type = "offer" /\ m.from = q
LeftOf(m, q) == m.type = "left" /\ m.of = q

Mentioned(s, q) == \E i \in DOMAIN s : Mentions(s[i], q)

\* The departure of q is among the messages, behind all that mention q.
Announced(s, q) ==
    \E j \in DOMAIN s : LeftOf(s[j], q) /\ \A i \in DOMAIN s : Mentions(s[i], q) => i < j

\* Whoever holds a slot for q, or may come to, has yet to hear that q left.
Freeing(p, q) == conn[p][q] # None \/ Mentioned(inbox[p], q) => Announced(inbox[p], q)

\* A browser that never lost its socket has had one at most; the end of it is the last frame, and
\* is sent by leaving only.
Steady(p) ==
    /\ life[p] = "out" => dials[p] = 0 /\ room[p] = 0
    /\ life[p] = "in" => p \in online /\ dials[p] = 1 /\ room[p] = 1
    /\ room[p] \in {0, 1}
    /\ \A k \in Sockets : \A i \in DOMAIN up[p][k] :
         /\ k = 1 /\ room[p] = 1
         /\ up[p][k][i].type = "close" => i = Len(up[p][k]) /\ life[p] = "gone"

\* Who is in the class, what is sent, and who hears.
Placed ==
    /\ \A p \in online : life[p] = "in"
    /\ \A p \in Ids : inbox[p] # <<>> => Hears(p)
    /\ \A p, q \in Ids : conn[p][q] # None => p \in Students /\ life[p] = "in"
    /\ \A p \in Ids, k \in Sockets : \A i \in DOMAIN up[p][k] :
         up[p][k][i].type # "close" => up[p][k][i].from = p

GInv ==
    /\ Placed
    /\ \A p \in Ids \ shaken : Steady(p)
    /\ \A p, q \in Ids \ shaken : p # q /\ room[q] = 0 => Freeing(p, q)

LEMMA InitGhost == Init => GInv
BY BoundsAssumption DEF Init, GInv, Placed, Steady, Freeing, Mentioned

\* What a message more, or one less, does to the announcement of a departure.
LEMMA AnnouncedAppend ==
    ASSUME NEW S, NEW s \in Seq(S), NEW m \in S, NEW q
    PROVE  /\ Mentioned(Append(s, m), q) => Mentioned(s, q) \/ Mentions(m, q)
           /\ ~Mentions(m, q) /\ Announced(s, q) => Announced(Append(s, m), q)
           /\ LeftOf(m, q) => Announced(Append(s, m), q)
<1> DEFINE n == Len(s)
           t == Append(s, m)
<1>1. /\ n \in Nat /\ DOMAIN s = 1..n /\ DOMAIN t = 1..(n + 1)
      /\ t[n + 1] = m /\ \A i \in 1..n : t[i] = s[i]
    OBVIOUS
<1>2. Mentioned(t, q) => Mentioned(s, q) \/ Mentions(m, q)
    BY <1>1 DEF Mentioned
<1>3. ASSUME ~Mentions(m, q), Announced(s, q) PROVE Announced(t, q)
    <2>1. PICK j \in 1..n : LeftOf(s[j], q) /\ \A i \in 1..n : Mentions(s[i], q) => i < j
        BY <1>1, <1>3 DEF Announced
    <2>2. LeftOf(t[j], q)
        BY <1>1, <2>1
    <2>3. ASSUME NEW i \in 1..(n + 1), Mentions(t[i], q) PROVE i < j
        <3>1. i # n + 1
            BY <1>1, <1>3, <2>3
        <3> QED BY <1>1, <2>1, <2>3, <3>1
    <2> QED BY <1>1, <2>1, <2>2, <2>3 DEF Announced
<1>4. ASSUME LeftOf(m, q) PROVE Announced(t, q)
    <2>1. ~Mentions(m, q)
        BY <1>4 DEF LeftOf, Mentions
    <2>2. ASSUME NEW i \in 1..(n + 1), Mentions(t[i], q) PROVE i < n + 1
        <3>1. i # n + 1
            BY <1>1, <2>1, <2>2
        <3> QED BY <1>1, <3>1
    <2> QED BY <1>1, <1>4, <2>2 DEF Announced
<1> HIDE DEF t
<1> QED BY <1>2, <1>3, <1>4 DEF t

LEMMA AnnouncedTail ==
    ASSUME NEW S, NEW s \in Seq(S), s # <<>>, NEW q
    PROVE  /\ Mentions(Head(s), q) \/ Mentioned(Tail(s), q) => Mentioned(s, q)
           /\ Announced(s, q) /\ ~LeftOf(Head(s), q) => Announced(Tail(s), q)
           /\ Announced(s, q) /\ Mentioned(Tail(s), q) => Announced(Tail(s), q)
<1> DEFINE n == Len(s)
           t == Tail(s)
<1>1. /\ n \in Nat \ {0} /\ DOMAIN s = 1..n /\ DOMAIN t = 1..(n - 1)
      /\ \A i \in 1..(n - 1) : t[i] = s[i + 1]
      /\ Head(s) = s[1]
    OBVIOUS
<1>2. Mentions(Head(s), q) \/ Mentioned(t, q) => Mentioned(s, q)
    <2>1. \A i \in 1..(n - 1) : i + 1 \in 1..n
        BY <1>1
    <2>2. 1 \in 1..n
        BY <1>1
    <2> QED BY <1>1, <2>1, <2>2 DEF Mentioned
<1>3. ASSUME Announced(s, q), ~LeftOf(Head(s), q) \/ Mentioned(t, q) PROVE Announced(t, q)
    <2>1. PICK j \in 1..n : LeftOf(s[j], q) /\ \A i \in 1..n : Mentions(s[i], q) => i < j
        BY <1>1, <1>3 DEF Announced
    <2>2. j # 1
        <3>1. CASE ~LeftOf(Head(s), q)
            BY <1>1, <2>1, <3>1
        <3>2. ASSUME NEW i \in 1..(n - 1), Mentions(t[i], q) PROVE j # 1
            <4>1. i + 1 \in 1..n /\ Mentions(s[i + 1], q)
                BY <1>1, <3>2
            <4>2. i + 1 < j
                BY <2>1, <4>1
            <4> QED BY <4>2
        <3> QED BY <1>1, <1>3, <3>1, <3>2 DEF Mentioned
    <2>3. j - 1 \in 1..(n - 1) /\ LeftOf(t[j - 1], q)
        BY <1>1, <2>1, <2>2
    <2>4. ASSUME NEW i \in 1..(n - 1), Mentions(t[i], q) PROVE i < j - 1
        <3>1. i + 1 \in 1..n /\ Mentions(s[i + 1], q)
            BY <1>1, <2>4
        <3>2. i + 1 < j
            BY <2>1, <3>1
        <3> QED BY <3>2
    <2> QED BY <1>1, <2>3, <2>4 DEF Announced
<1> HIDE DEF t
<1> QED BY <1>2, <1>3 DEF t

\* The types these proofs use.
LEMMA Types ==
    ASSUME IInv
    PROVE  /\ inbox \in [Ids -> Seq(Mail)] /\ up \in [Ids -> [Sockets -> Seq(Frames)]]
           /\ conn \in [Ids -> [Ids -> Conn \cup {None}]] /\ \A p \in Ids : conn[p][p] = None
           /\ life \in [Ids -> {"out", "in", "gone"}] /\ room \in [Ids -> 0..MaxDials]
           /\ dials \in [Ids -> 0..MaxDials] /\ online \in SUBSET Ids
BY DEF IInv, Typed, Mail, Frames, SlotsBounded, Slots

\* A frame of p's own more, on the socket of one who is in the class: nothing else moves.
LEMMA FrameOwn ==
    ASSUME IInv, GInv, NEW p \in online, NEW m \in Frames,
           m.type # "close" => m.from = p,
           m.type = "close" => life'[p] = "gone",
           up' = [up EXCEPT ![p][dials[p]] = Append(@, m)],
           room' = room
    PROVE  /\ \A r \in Ids, k \in Sockets : \A i \in DOMAIN up'[r][k] :
                up'[r][k][i].type # "close" => up'[r][k][i].from = r
           /\ \A r \in Ids \ shaken :
                (r # p => life'[r] = life[r]) /\ life'[p] \in {"in", "gone"} =>
                \A k \in Sockets : \A i \in DOMAIN up'[r][k] :
                    /\ k = 1 /\ room'[r] = 1
                    /\ up'[r][k][i].type = "close" => i = Len(up'[r][k]) /\ life'[r] = "gone"
<1>1. /\ up \in [Ids -> [Sockets -> Seq(Frames)]] /\ p \in Ids /\ life[p] = "in"
      /\ dials \in [Ids -> 0..MaxDials]
    BY Types DEF GInv, Placed
<1> DEFINE d == dials[p]
           s == up[p][d]
           n == Len(s)
<1>2. \A r \in Ids, k \in Sockets :
        up'[r][k] = IF r = p /\ k = d THEN Append(up[r][k], m) ELSE up[r][k]
    BY <1>1
<1>3. ASSUME d \in Sockets
      PROVE  /\ n \in Nat /\ DOMAIN s = 1..n /\ DOMAIN Append(s, m) = 1..(n + 1)
             /\ Len(Append(s, m)) = n + 1
             /\ Append(s, m)[n + 1] = m /\ \A i \in 1..n : Append(s, m)[i] = s[i]
    <2>1. s \in Seq(Frames)
        BY <1>1, <1>3
    <2> HIDE DEF s
    <2> QED BY <2>1
<1>4. ASSUME NEW r \in Ids, NEW k \in Sockets, NEW i \in DOMAIN up'[r][k],
             up'[r][k][i].type # "close"
      PROVE  up'[r][k][i].from = r
    <2>1. CASE r = p /\ k = d
        <3>1. \A j \in 1..n : s[j].type # "close" => s[j].from = p
            BY <1>1, <1>3, <2>1 DEF GInv, Placed
        <3>2. up'[r][k] = Append(s, m) /\ d \in Sockets
            BY <1>2, <2>1
        <3> HIDE DEF s, n, d
        <3>3. CASE i = n + 1
            BY <1>3, <1>4, <2>1, <3>2, <3>3
        <3>4. CASE i \in 1..n
            BY <1>3, <1>4, <2>1, <3>1, <3>2, <3>4
        <3> QED BY <1>3, <3>2, <3>3, <3>4
    <2>2. CASE ~(r = p /\ k = d)
        BY <1>2, <1>4, <2>2 DEF GInv, Placed
    <2> QED BY <2>1, <2>2
<1>5. ASSUME NEW r \in Ids \ shaken, r # p => life'[r] = life[r], life'[p] \in {"in", "gone"},
             NEW k \in Sockets, NEW i \in DOMAIN up'[r][k]
      PROVE  /\ k = 1 /\ room'[r] = 1
             /\ up'[r][k][i].type = "close" => i = Len(up'[r][k]) /\ life'[r] = "gone"
    <2>1. Steady(r)
        BY DEF GInv
    <2>2. CASE r = p /\ k = d
        <3>1. room[r] = 1 /\ d = 1
            BY <1>1, <2>1, <2>2 DEF Steady
        <3>2. \A j \in 1..n : s[j].type # "close"
            BY <1>1, <1>3, <2>1, <2>2 DEF Steady
        <3>3. up'[r][k] = Append(s, m) /\ d \in Sockets
            BY <1>2, <2>2
        <3> HIDE DEF s, n, d
        <3>4. CASE i = n + 1
            BY <1>3, <2>2, <3>1, <3>3, <3>4
        <3>5. CASE i \in 1..n
            BY <1>3, <2>2, <3>1, <3>2, <3>3, <3>5
        <3> QED BY <1>3, <3>3, <3>4, <3>5
    <2>3. CASE ~(r = p /\ k = d)
        <3>1. up'[r][k] = up[r][k]
            BY <1>2, <2>3
        <3>2. /\ k = 1 /\ room[r] = 1
              /\ up[r][k][i].type = "close" => i = Len(up[r][k]) /\ life[r] = "gone"
            BY <1>5, <2>1, <3>1 DEF Steady
        <3>3. CASE r # p
            BY <1>5, <3>1, <3>2, <3>3
        <3>4. CASE r = p
            BY <1>1, <3>1, <3>2, <3>4
        <3> QED BY <3>3, <3>4
    <2> QED BY <2>2, <2>3
<1> QED BY <1>4, <1>5

\* A step that moves no browser, gives nobody a message and takes no slot.
LEMMA SlotsOnlyFreed ==
    ASSUME IInv, GInv, life' = life, online' = online, dials' = dials, room' = room, inbox' = inbox,
           shaken \subseteq shaken',
           \A r, s \in Ids : conn'[r][s] # None => conn[r][s] # None,
           NEW p \in Ids, NEW q \in Ids, NEW type \in {"offer", "answer", "ice"}, NEW n \in 1..MaxConns,
           up' = up \/ Send(p, type, q, n)
    PROVE  GInv'
<1>1. \A r \in Ids \ shaken' : r \in Ids \ shaken
    OBVIOUS
<1>2. CASE up' = up
    <2>1. Placed'
        BY <1>2 DEF GInv, Placed, Hears
    <2>2. \A r \in Ids \ shaken' : Steady(r)'
        BY <1>1, <1>2 DEF GInv, Steady
    <2>3. \A r, s \in Ids \ shaken' : r # s /\ room'[s] = 0 => Freeing(r, s)'
        BY <1>1 DEF GInv, Freeing
    <2> QED BY <2>1, <2>2, <2>3 DEF GInv
<1>3. CASE p \in online /\ up' = [up EXCEPT ![p][dials[p]] =
                    Append(@, [type |-> type, from |-> p, to |-> q, n |-> n])]
    <2> DEFINE m == [type |-> type, from |-> p, to |-> q, n |-> n]
    <2>1. m \in Frames /\ m.type # "close" /\ m.from = p
        BY DEF Frames, Signal
    <2>2. up' = [up EXCEPT ![p][dials[p]] = Append(@, m)]
        BY <1>3
    <2> HIDE DEF m
    <2>3. life'[p] \in {"in", "gone"}
        BY <1>3 DEF GInv, Placed
    <2>4. /\ \A r \in Ids, k \in Sockets : \A i \in DOMAIN up'[r][k] :
                up'[r][k][i].type # "close" => up'[r][k][i].from = r
          /\ \A r \in Ids \ shaken : \A k \in Sockets : \A i \in DOMAIN up'[r][k] :
                    /\ k = 1 /\ room'[r] = 1
                    /\ up'[r][k][i].type = "close" => i = Len(up'[r][k]) /\ life'[r] = "gone"
        <3>1. /\ p \in online /\ room' = room
              /\ m.type # "close" => m.from = p
              /\ m.type = "close" => life'[p] = "gone"
            BY <1>3, <2>1
        <3>2. /\ \A r \in Ids, k \in Sockets : \A i \in DOMAIN up'[r][k] :
                    up'[r][k][i].type # "close" => up'[r][k][i].from = r
              /\ \A r \in Ids \ shaken :
                    (r # p => life'[r] = life[r]) /\ life'[p] \in {"in", "gone"} =>
                    \A k \in Sockets : \A i \in DOMAIN up'[r][k] :
                        /\ k = 1 /\ room'[r] = 1
                        /\ up'[r][k][i].type = "close" => i = Len(up'[r][k]) /\ life'[r] = "gone"
            BY <2>1, <2>2, <3>1, FrameOwn
        <3>3. \A r \in Ids \ shaken : (r # p => life'[r] = life[r]) /\ life'[p] \in {"in", "gone"}
            BY <2>3
        <3> QED BY <3>2, <3>3
    <2>5. Placed'
        BY <2>4 DEF GInv, Placed, Hears
    <2>6. \A r \in Ids \ shaken' : Steady(r)'
        BY <1>1, <2>4 DEF GInv, Steady
    <2>7. \A r, s \in Ids \ shaken' : r # s /\ room'[s] = 0 => Freeing(r, s)'
        BY <1>1 DEF GInv, Freeing
    <2> QED BY <2>5, <2>6, <2>7 DEF GInv
<1> QED BY <1>2, <1>3 DEF Send

LEMMA StepGhost == ASSUME IInv, GInv, NEW p \in Ids, NEW q \in Ids, Step(p, q) PROVE GInv'
<1> DEFINE n == conn[p][q].n
<1>1. /\ life' = life /\ online' = online /\ dials' = dials /\ room' = room /\ inbox' = inbox
      /\ shaken' = shaken
    BY DEF Step, OfferReady, AnswerDescribed, OfferDescribed, AnswerReady, Gather, Opens, netVars
<1>2. conn[p][q] # None
    BY DEF Step, OfferReady, AnswerDescribed, OfferDescribed, AnswerReady, Gather, Opens, Paired
<1>3. n \in 1..MaxConns
    BY <1>2, Types DEF Conn
<1>4. \A r, s \in Ids : conn'[r][s] # None => conn[r][s] # None
    <2> SUFFICES ASSUME NEW r \in Ids, NEW s \in Ids, ~(r = p /\ s = q) PROVE conn'[r][s] = conn[r][s]
        BY <1>2
    <2>1. conn \in [Ids -> [Ids -> Conn \cup {None}]]
        BY Types
    <2>2. CASE OfferReady(p, q)
        BY <2>1, <2>2 DEF OfferReady
    <2>3. CASE AnswerDescribed(p, q)
        BY <2>1, <2>3 DEF AnswerDescribed
    <2>4. CASE OfferDescribed(p, q)
        BY <2>1, <2>4 DEF OfferDescribed
    <2>5. CASE AnswerReady(p, q)
        BY <2>1, <2>5 DEF AnswerReady
    <2>6. CASE Gather(p, q)
        BY <2>1, <2>6 DEF Gather
    <2>7. CASE Opens(p, q)
        BY <2>1, <2>7 DEF Opens
    <2> QED BY <2>2, <2>3, <2>4, <2>5, <2>6, <2>7 DEF Step
<1>5. \E type \in {"offer", "answer", "ice"} : up' = up \/ Send(p, type, q, n)
    BY DEF Step, OfferReady, AnswerDescribed, OfferDescribed, AnswerReady, Gather, Opens, netVars
<1> HIDE DEF n
<1> QED BY <1>1, <1>3, <1>4, <1>5, SlotsOnlyFreed

LEMMA ForgetFrees ==
    ASSUME IInv, NEW p \in Ids, NEW q \in Ids, Forget(p, q)
    PROVE  \A r, s \in Ids : conn'[r][s] = IF r = p /\ s = q THEN None ELSE conn[r][s]
BY Types DEF Forget

LEMMA CloseGhost ==
    ASSUME IInv, GInv, NEW p \in Ids, NEW q \in Ids, Closes(p, q) \/ ChannelBreaks(p, q)
    PROVE  GInv'
<1>1. /\ life' = life /\ online' = online /\ dials' = dials /\ room' = room /\ inbox' = inbox
      /\ shaken \subseteq shaken' /\ up' = up
    BY DEF Closes, ChannelBreaks, netVars
<1>2. Forget(p, q)
    BY DEF Closes, ChannelBreaks
<1>3. \A r, s \in Ids : conn'[r][s] # None => conn[r][s] # None
    BY <1>2, ForgetFrees
<1>4. 1 \in 1..MaxConns /\ "ice" \in {"offer", "answer", "ice"}
    BY BoundsAssumption
<1> QED BY <1>1, <1>3, <1>4, SlotsOnlyFreed

-----------------------------------------------------------------------------
\* What the server tells the others arrives where it is heard.
LEMMA BroadcastAt ==
    ASSUME NEW p \in Ids, NEW m, NEW box \in [Ids -> Seq(Mail)], NEW q \in Ids
    PROVE  /\ Broadcast(p, m, box)[q] = box[q] \/ Broadcast(p, m, box)[q] = Append(box[q], m)
           /\ Broadcast(p, m, box)[q] # box[q] => Hears(q)
           /\ q # p /\ Hears(q) /\ room[q] = dials[q] => Broadcast(p, m, box)[q] = Append(box[q], m)
           /\ q = p => Broadcast(p, m, box)[q] = box[q]
BY DEF Broadcast

LEMMA ConnectGhost == ASSUME IInv, GInv, NEW p \in Ids, Connect(p) PROVE GInv'
<1>1. /\ p \notin online /\ online' = online \cup {p}
      /\ life' = [life EXCEPT ![p] = "in"] /\ dials' = [dials EXCEPT ![p] = @ + 1]
      /\ room' = [room EXCEPT ![p] = dials[p] + 1]
      /\ up' = up /\ conn' = conn /\ shaken' = shaken
      /\ life[p] = "out" \/ life[p] = "in"
    BY DEF Connect
<1> DEFINE m == [type |-> "joined", of |-> p]
           first == IF p \in Students THEN <<[type |-> "roster", peers |-> Members \ {p}]>> ELSE <<>>
           box == [inbox EXCEPT ![p] = first]
<1>2. p \notin shaken => life[p] = "out" /\ dials[p] = 0 /\ room[p] = 0
    BY <1>1 DEF GInv, Steady
<1>3. inbox' = Broadcast(p, m, box)
    BY DEF Connect
<1>4. /\ [type |-> "roster", peers |-> Members \ {p}] \in Mail /\ m \in Mail
      /\ first \in Seq(Mail) /\ box \in [Ids -> Seq(Mail)]
    <2>1. [type |-> "roster", peers |-> Members \ {p}] \in Mail /\ m \in Mail
        BY DEF Mail, Notice, Roster, Members
    <2>2. first \in Seq(Mail)
        BY <2>1
    <2> HIDE DEF first
    <2> QED BY <2>1, <2>2, Types
<1>9. \A r \in Ids : box[r] = IF r = p THEN first ELSE inbox[r]
    BY Types
<1> HIDE DEF box, first, m
<1>5. \A r \in Ids : inbox'[r] # <<>> => Hears(r)'
    <2> SUFFICES ASSUME NEW r \in Ids, inbox'[r] # <<>> PROVE Hears(r)'
        OBVIOUS
    <2>1. CASE r = p
        <3>1. inbox'[p] = first
            BY <1>3, <1>4, <1>9, BroadcastAt
        <3> QED BY <1>1, <2>1, <3>1 DEF Hears, first
    <2>2. CASE r # p
        <3>1. box[r] = inbox[r]
            BY <1>9, <2>2
        <3>2. inbox'[r] = inbox[r] \/ Hears(r)
            BY <1>3, <1>4, <3>1, BroadcastAt
        <3> QED BY <1>1, <3>2 DEF GInv, Placed, Hears
    <2> QED BY <2>1, <2>2
<1>6. Placed'
    <2>1. \A r \in online' : life'[r] = "in"
        BY <1>1, Types DEF GInv, Placed
    <2>2. \A r, s \in Ids : conn'[r][s] # None => r \in Students /\ life'[r] = "in"
        BY <1>1, Types DEF GInv, Placed
    <2> QED BY <1>1, <1>5, <2>1, <2>2 DEF GInv, Placed
<1>7. \A r \in Ids \ shaken' : Steady(r)'
    <2> SUFFICES ASSUME NEW r \in Ids \ shaken PROVE Steady(r)'
        BY <1>1
    <2>1. Steady(r)
        BY DEF GInv
    <2>2. CASE r = p
        <3>1. \A k \in Sockets : DOMAIN up[p][k] = {}
            BY <1>2, <2>1, <2>2 DEF Steady
        <3>2. life'[p] = "in" /\ dials'[p] = 1 /\ room'[p] = 1
            BY <1>1, <1>2, <2>2, Types
        <3> QED BY <1>1, <2>2, <3>1, <3>2 DEF Steady
    <2>3. CASE r # p
        <3>1. life'[r] = life[r] /\ dials'[r] = dials[r] /\ room'[r] = room[r]
            BY <1>1, <2>3, Types
        <3> QED BY <1>1, <2>1, <3>1 DEF Steady
    <2> QED BY <2>2, <2>3
<1>8. ASSUME NEW r \in Ids \ shaken, NEW s \in Ids \ shaken, r # s, room'[s] = 0
      PROVE  Freeing(r, s)'
    <2>1. s # p /\ room[s] = 0
        BY <1>1, <1>8, Types
    <2>2. Freeing(r, s)
        BY <1>8, <2>1 DEF GInv
    <2>3. CASE r = p
        <3>1. conn[r][s] = None
            BY <1>2, <2>3 DEF GInv, Placed
        <3>2. inbox'[r] = first
            BY <1>3, <1>4, <1>9, <2>3, BroadcastAt
        <3>3. ~Mentioned(first, s)
            <4>1. s \notin Members \ {p}
                BY <2>1 DEF Members
            <4> QED BY <4>1 DEF Mentioned, Mentions, first
        <3> QED BY <1>1, <3>1, <3>2, <3>3 DEF Freeing
    <2>4. CASE r # p
        <3>1. box[r] = inbox[r] /\ inbox[r] \in Seq(Mail)
            BY <1>9, <2>4, Types
        <3>2. ~Mentions(m, s)
            BY <2>1 DEF Mentions, m
        <3>3. inbox'[r] = inbox[r] \/ inbox'[r] = Append(inbox[r], m)
            BY <1>3, <1>4, <3>1, BroadcastAt
        <3>4. /\ Mentioned(inbox'[r], s) => Mentioned(inbox[r], s)
              /\ Announced(inbox[r], s) => Announced(inbox'[r], s)
            BY <1>4, <3>1, <3>2, <3>3, AnnouncedAppend
        <3> QED BY <1>1, <2>2, <3>4 DEF Freeing
    <2> QED BY <2>3, <2>4
<1> QED BY <1>1, <1>6, <1>7, <1>8 DEF GInv

\* A frame of p's less: the first of those on the socket, or all from some point on.
LEMMA RelayGhost == ASSUME IInv, GInv, NEW p \in Ids, NEW k \in Sockets, Relay(p, k) PROVE GInv'
<1> DEFINE s == up[p][k]
           m == Head(s)
           left == [type |-> "left", of |-> p]
<1>1. /\ s \in Seq(Frames) /\ s # <<>> /\ up' = [up EXCEPT ![p][k] = Tail(@)]
      /\ life' = life /\ dials' = dials /\ online' = online /\ conn' = conn /\ shaken' = shaken
    BY Types DEF Relay
<1>2. /\ Len(s) \in Nat \ {0} /\ DOMAIN s = 1..Len(s) /\ m = s[1] /\ Tail(s) \in Seq(Frames)
      /\ Len(Tail(s)) = Len(s) - 1 /\ DOMAIN Tail(s) = 1..(Len(s) - 1)
      /\ \A i \in 1..(Len(s) - 1) : Tail(s)[i] = s[i + 1] /\ i + 1 \in 1..Len(s)
    <2> HIDE DEF s
    <2> QED BY <1>1
<1>3. m \in Frames /\ (m.type # "close" => m.from = p /\ m \in Signal)
    <2>1. m \in Frames
        BY <1>1
    <2>2. 1 \in 1..Len(s)
        BY <1>2
    <2>3. m.type # "close" => m.from = p
        BY <1>2, <2>2 DEF GInv, Placed
    <2> QED BY <2>1, <2>3 DEF Frames, Close
<1>4. \A r \in Ids, j \in Sockets : up'[r][j] = IF r = p /\ j = k THEN Tail(s) ELSE up[r][j]
    BY <1>1, Types
<1>5. \A r \in Ids, j \in Sockets : \A i \in DOMAIN up'[r][j] :
         up'[r][j][i].type # "close" => up'[r][j][i].from = r
    <2>1. \A i \in 1..Len(s) : s[i].type # "close" => s[i].from = p
        BY <1>2 DEF GInv, Placed
    <2>2. \A i \in DOMAIN Tail(s) : Tail(s)[i].type # "close" => Tail(s)[i].from = p
        BY <1>2, <2>1
    <2>3. \A r \in Ids, j \in Sockets : \A i \in DOMAIN up[r][j] :
             up[r][j][i].type # "close" => up[r][j][i].from = r
        BY DEF GInv, Placed
    <2> HIDE DEF s
    <2>4. ASSUME NEW r \in Ids, NEW j \in Sockets
          PROVE  \A i \in DOMAIN up'[r][j] : up'[r][j][i].type # "close" => up'[r][j][i].from = r
        <3>1. CASE r = p /\ j = k
            <4>1. up'[r][j] = Tail(s)
                BY <1>4, <3>1
            <4> QED BY <2>2, <3>1, <4>1
        <3>2. CASE ~(r = p /\ j = k)
            <4>1. up'[r][j] = up[r][j]
                BY <1>4, <3>2
            <4> QED BY <2>3, <4>1
        <3> QED BY <3>1, <3>2
    <2> QED BY <2>4
<1>6. p \notin shaken => room[p] = 1 /\ k = 1 /\ (m.type = "close" => Len(s) = 1 /\ life[p] = "gone")
    <2>1. 1 \in DOMAIN up[p][k] /\ m = up[p][k][1]
        BY <1>2
    <2>2. ASSUME p \notin shaken
          PROVE  room[p] = 1 /\ k = 1 /\ (m.type = "close" => 1 = Len(s) /\ life[p] = "gone")
        <3>1. Steady(p)
            BY <2>2 DEF GInv
        <3>2. /\ k = 1 /\ room[p] = 1
              /\ up[p][k][1].type = "close" => 1 = Len(up[p][k]) /\ life[p] = "gone"
            BY <2>1, <3>1 DEF Steady
        <3> QED BY <2>1, <3>2
    <2> QED BY <2>2
<1>7. /\ \A r \in Ids : r # p => room'[r] = room[r]
      /\ room'[p] # room[p] => m.type = "close" /\ room[p] = k /\ room'[p] = 0
      /\ m.type = "close" /\ room[p] = k => room'[p] = 0 /\ inbox' = Broadcast(p, left, inbox)
    BY <1>1, Types DEF Relay
<1>8. \/ inbox' = inbox
      \/ /\ m.type # "close" /\ Hears(m.to) /\ room' = room
         /\ inbox' = [inbox EXCEPT ![m.to] = Append(@, m)]
      \/ inbox' = Broadcast(p, left, inbox)
    BY DEF Relay
<1>9. left \in Mail /\ (m.type # "close" => m \in Mail /\ m.to \in Ids)
    BY <1>3 DEF Mail, Notice, Signal
<1> HIDE DEF m, s, left
<1>10. \A r \in Ids : inbox'[r] # <<>> => Hears(r)
    <2> SUFFICES ASSUME NEW r \in Ids, inbox'[r] # inbox[r] PROVE Hears(r)
        BY DEF GInv, Placed
    <2>1. inbox \in [Ids -> Seq(Mail)]
        BY Types
    <2> QED BY <1>8, <1>9, <2>1, BroadcastAt
<1>11. Placed'
    BY <1>1, <1>5, <1>10 DEF GInv, Placed, Hears
<1>12. \A r \in Ids \ shaken' : Steady(r)'
    <2> SUFFICES ASSUME NEW r \in Ids \ shaken PROVE Steady(r)'
        BY <1>1
    <2>1. Steady(r)
        BY DEF GInv
    <2>2. CASE r # p
        BY <1>1, <1>4, <1>7, <2>1, <2>2 DEF Steady
    <2>3. CASE r = p /\ m.type # "close"
        <3>1. room'[p] = room[p] /\ room[p] = 1 /\ k = 1
            BY <1>6, <1>7, <2>3
        <3>2. ASSUME NEW j \in Sockets, NEW i \in DOMAIN up'[p][j]
              PROVE  /\ j = 1
                     /\ up'[p][j][i].type = "close" => i = Len(up'[p][j]) /\ life[p] = "gone"
            <4>1. CASE j = k
                <5>1. up'[p][j] = Tail(s)
                    BY <1>4, <4>1
                <5>2. i \in 1..(Len(s) - 1) /\ Tail(s)[i] = s[i + 1] /\ i + 1 \in DOMAIN s
                    BY <1>2, <3>2, <5>1
                <5>3. s[i + 1].type = "close" => i + 1 = Len(s) /\ life[p] = "gone"
                    BY <2>1, <2>3, <5>2 DEF Steady, s
                <5> QED BY <1>2, <3>1, <4>1, <5>1, <5>2, <5>3
            <4>2. CASE j # k
                BY <1>4, <2>1, <2>3, <3>2, <4>2 DEF Steady
            <4> QED BY <4>1, <4>2
        <3> QED BY <1>1, <2>1, <2>3, <3>1, <3>2 DEF Steady
    <2>4. CASE r = p /\ m.type = "close"
        <3>1. Len(s) = 1 /\ life[p] = "gone" /\ room[p] = 1 /\ k = 1
            BY <1>6, <2>4
        <3>2. room'[p] = 0
            BY <1>7, <2>4, <3>1
        <3>3. \A j \in Sockets : DOMAIN up'[p][j] = {}
            <4>1. DOMAIN Tail(s) = {}
                BY <1>2, <3>1
            <4>2. \A j \in Sockets : j # k => DOMAIN up[p][j] = {}
                BY <2>1, <2>4, <3>1 DEF Steady
            <4> QED BY <1>4, <4>1, <4>2
        <3> QED BY <1>1, <2>4, <3>1, <3>2, <3>3 DEF Steady
    <2> QED BY <2>2, <2>3, <2>4
<1>13. ASSUME NEW r \in Ids \ shaken, NEW q \in Ids \ shaken, r # q, room'[q] = 0
       PROVE  Freeing(r, q)'
    <2>1. inbox \in [Ids -> Seq(Mail)] /\ inbox[r] \in Seq(Mail)
        BY Types
    <2>2. CASE room[q] # 0
        <3>1. q = p /\ m.type = "close" /\ room[p] = k /\ inbox' = Broadcast(p, left, inbox)
            BY <1>7, <1>13, <2>2
        <3>2. LeftOf(left, q)
            BY <3>1 DEF LeftOf, left
        <3>3. SUFFICES ASSUME conn[r][q] # None \/ Mentioned(inbox'[r], q)
                       PROVE  Announced(inbox'[r], q)
            BY <1>1 DEF Freeing
        <3>4. inbox'[r] = Append(inbox[r], left) => Announced(inbox'[r], q)
            BY <1>9, <2>1, <3>2, AnnouncedAppend
        <3>5. CASE inbox'[r] = inbox[r]
            <4>1. Hears(r)
                <5>1. CASE conn[r][q] # None
                    <6>1. r \in Students /\ life[r] = "in"
                        BY <5>1 DEF GInv, Placed
                    <6> QED BY <6>1 DEF GInv, Steady, Hears
                <5>2. CASE Mentioned(inbox'[r], q)
                    <6>1. inbox[r] # <<>>
                        BY <3>5, <5>2 DEF Mentioned
                    <6> QED BY <6>1 DEF GInv, Placed
                <5> QED BY <3>3, <5>1, <5>2
            <4>2. room[r] = dials[r]
                BY <4>1 DEF GInv, Placed, Steady, Hears
            <4> QED BY <1>9, <1>13, <2>1, <3>1, <3>4, <4>1, <4>2, BroadcastAt
        <3> QED BY <1>9, <2>1, <3>1, <3>4, <3>5, BroadcastAt
    <2>3. CASE room[q] = 0
        <3>1. Freeing(r, q)
            BY <1>13, <2>3 DEF GInv
        <3>2. p # q
            BY <1>6, <2>3, <1>13
        <3>3. ~Mentions(left, q) /\ (m.type # "close" => ~Mentions(m, q))
            <4>1. ~Mentions(left, q)
                BY <3>2 DEF Mentions, left
            <4>2. m.type # "close" => m.from # q /\ m.type \in {"offer", "answer", "ice"}
                BY <1>3, <3>2 DEF Signal
            <4> QED BY <4>1, <4>2 DEF Mentions
        <3>4. \/ inbox'[r] = inbox[r]
              \/ inbox'[r] = Append(inbox[r], left)
              \/ m.type # "close" /\ inbox'[r] = Append(inbox[r], m)
            BY <1>8, <1>9, <2>1, BroadcastAt
        <3>5. /\ Mentioned(inbox'[r], q) => Mentioned(inbox[r], q)
              /\ Announced(inbox[r], q) => Announced(inbox'[r], q)
            BY <1>9, <2>1, <3>3, <3>4, AnnouncedAppend
        <3> QED BY <1>1, <3>1, <3>5 DEF Freeing
    <2> QED BY <2>2, <2>3
<1> QED BY <1>1, <1>11, <1>12, <1>13 DEF GInv

\* A slot is taken for a peer that the message mentions only, and freed when it left.
LEMMA HandledSlots ==
    ASSUME IInv, NEW p \in Ids, Receive(p), NEW q \in Ids
    PROVE  /\ \A r \in Ids : r # p => conn'[r][q] = conn[r][q]
           /\ conn'[p][q] # None => conn[p][q] # None \/ Mentions(Head(inbox[p]), q)
           /\ LeftOf(Head(inbox[p]), q) => conn'[p][q] = None
<1> DEFINE m == Head(inbox[p])
<1>1. conn \in [Ids -> [Ids -> Conn \cup {None}]]
    BY Types
<1>2. ASSUME NEW listed, Discover(p, listed)
      PROVE  /\ \A r \in Ids : r # p => conn'[r][q] = conn[r][q]
             /\ conn'[p][q] # None => conn[p][q] # None \/ q \in listed
    BY <1>1, <1>2 DEF Discover
<1>3. CASE m.type = "roster" /\ Discover(p, m.peers)
    BY <1>2, <1>3 DEF Mentions, LeftOf
<1>4. CASE m.type = "joined" /\ Discover(p, {m.of})
    BY <1>2, <1>4 DEF Mentions, LeftOf
<1>5. CASE m.type = "left" /\ Forget(p, m.of)
    BY <1>1, <1>5 DEF Forget, Mentions, LeftOf
<1>6. CASE m.type = "offer" /\ TakeOffer(p, m.from, m.n)
    <2> DEFINE f == m.from
               c == m.n
    <2>1. TakeOffer(p, f, c)
        BY <1>6
    <2> HIDE DEF f, c
    <2>2. \A r, s \in Ids : ~(r = p /\ s = f) => conn'[r][s] = conn[r][s]
        <3> DEFINE d == [NewConn(p, f, FALSE) EXCEPT !.todo = <<c>>]
        <3>1. \/ conn' = conn
              \/ conn' = [conn EXCEPT ![p][f].todo = Append(@, c)]
              \/ conn' = [conn EXCEPT ![p][f] = d]
            BY <2>1 DEF TakeOffer
        <3> HIDE DEF d
        <3> QED BY <1>1, <3>1
    <2> QED BY <1>6, <2>2 DEF Mentions, LeftOf, f
<1>7. CASE m.type = "answer" /\ TakeAnswer(p, m.from, m.n)
    <2> DEFINE f == m.from
               c == m.n
    <2>1. TakeAnswer(p, f, c)
        BY <1>7
    <2> HIDE DEF f, c
    <2>2. \A r, s \in Ids : ~(r = p /\ s = f) => conn'[r][s] = conn[r][s]
        BY <1>1, <2>1 DEF TakeAnswer
    <2>3. conn[p][f] = None => conn' = conn
        BY <2>1 DEF TakeAnswer
    <2> QED BY <1>7, <2>2, <2>3 DEF LeftOf
<1>8. CASE m.type = "ice" /\ TakeCandidate(p, m.from, m.n)
    <2> DEFINE f == m.from
               c == m.n
    <2>1. TakeCandidate(p, f, c)
        BY <1>8
    <2> HIDE DEF f, c
    <2>2. \A r, s \in Ids : ~(r = p /\ s = f) => conn'[r][s] = conn[r][s]
        BY <1>1, <2>1 DEF TakeCandidate
    <2>3. conn[p][f] = None => conn' = conn
        BY <2>1 DEF TakeCandidate
    <2> QED BY <1>8, <2>2, <2>3 DEF LeftOf
<1> QED BY <1>3, <1>4, <1>5, <1>6, <1>7, <1>8 DEF Receive

LEMMA ReceiveGhost == ASSUME IInv, GInv, NEW p \in Ids, Receive(p) PROVE GInv'
<1>1. /\ Hears(p) /\ inbox[p] # <<>> /\ inbox' = [inbox EXCEPT ![p] = Tail(@)]
      /\ life' = life /\ dials' = dials /\ online' = online /\ room' = room /\ up' = up
      /\ shaken' = shaken
    BY DEF Receive, netVars
<1>2. \A r \in Ids : inbox'[r] = IF r = p THEN Tail(inbox[p]) ELSE inbox[r]
    BY <1>1, Types
<1>3. Placed'
    <2>1. life[p] = "in" /\ p \in Students
        BY <1>1 DEF Hears, GInv, Placed
    <2>2. \A r, q \in Ids : conn'[r][q] # None => r \in Students /\ life'[r] = "in"
        BY <1>1, <2>1, HandledSlots DEF GInv, Placed
    <2>3. \A r \in Ids : inbox'[r] # <<>> => Hears(r)'
        BY <1>1, <1>2 DEF GInv, Placed, Hears
    <2> QED BY <1>1, <2>2, <2>3 DEF GInv, Placed
<1>4. \A r \in Ids \ shaken' : Steady(r)'
    BY <1>1 DEF GInv, Steady
<1>5. ASSUME NEW r \in Ids \ shaken, NEW q \in Ids \ shaken, r # q, room'[q] = 0
      PROVE  Freeing(r, q)'
    <2>1. Freeing(r, q)
        BY <1>1, <1>5 DEF GInv
    <2>2. CASE r # p
        BY <1>2, <2>1, <2>2, HandledSlots DEF Freeing
    <2>3. CASE r = p
        <3>1. inbox[p] \in Seq(Mail)
            BY Types
        <3>2. SUFFICES ASSUME conn'[p][q] # None \/ Mentioned(Tail(inbox[p]), q)
                       PROVE  Announced(Tail(inbox[p]), q)
            BY <1>2, <2>3 DEF Freeing
        <3>3. conn[p][q] # None \/ Mentioned(inbox[p], q)
            BY <1>1, <3>1, <3>2, HandledSlots, AnnouncedTail
        <3>4. Announced(inbox[p], q)
            BY <2>1, <2>3, <3>3 DEF Freeing
        <3>5. CASE Mentioned(Tail(inbox[p]), q)
            BY <1>1, <3>1, <3>4, <3>5, AnnouncedTail
        <3>6. CASE conn'[p][q] # None
            BY <1>1, <3>1, <3>4, <3>6, HandledSlots, AnnouncedTail
        <3> QED BY <3>2, <3>5, <3>6
    <2> QED BY <2>2, <2>3
<1> QED BY <1>1, <1>3, <1>4, <1>5 DEF GInv

LEMMA LeaveGhost == ASSUME IInv, GInv, NEW p \in Ids, Leave(p) PROVE GInv'
<1>1. /\ life[p] = "in" /\ life' = [life EXCEPT ![p] = "gone"]
      /\ conn' = [conn EXCEPT ![p] = [q \in Ids |-> None]]
      /\ online' = online \ {p} /\ inbox' = [inbox EXCEPT ![p] = <<>>]
      /\ dials' = dials /\ room' = room /\ shaken' = shaken
    BY DEF Leave
<1>2. /\ \A r \in Ids : r # p => life'[r] = life[r] /\ inbox'[r] = inbox[r]
      /\ life'[p] = "gone" /\ inbox'[p] = <<>>
      /\ \A r, q \in Ids : conn'[r][q] = IF r = p THEN None ELSE conn[r][q]
    BY <1>1, Types
<1>3. /\ \A r \in Ids, k \in Sockets : \A i \in DOMAIN up'[r][k] :
            up'[r][k][i].type # "close" => up'[r][k][i].from = r
      /\ \A r \in Ids \ shaken : \A k \in Sockets : \A i \in DOMAIN up'[r][k] :
            /\ k = 1 /\ room'[r] = 1
            /\ up'[r][k][i].type = "close" => i = Len(up'[r][k]) /\ life'[r] = "gone"
    <2>1. CASE p \in online
        <3>1. /\ up' = [up EXCEPT ![p][dials[p]] = Append(@, Close)] /\ Close \in Frames
              /\ Close.type = "close"
            BY <2>1, CloseIsFrame DEF Leave, HangsUp, Close
        <3> QED BY <1>1, <1>2, <2>1, <3>1, FrameOwn
    <2>2. CASE p \notin online
        <3>1. up' = up
            BY <2>2 DEF Leave, HangsUp
        <3>2. p \in shaken
            BY <1>1, <2>2 DEF GInv, Steady
        <3> QED BY <1>1, <1>2, <3>1, <3>2 DEF GInv, Placed, Steady
    <2> QED BY <2>1, <2>2
<1>4. Placed'
    BY <1>1, <1>2, <1>3, Types DEF GInv, Placed, Hears
<1>5. \A r \in Ids \ shaken' : Steady(r)'
    BY <1>1, <1>2, <1>3, Types DEF GInv, Steady
<1>6. \A r, q \in Ids \ shaken' : r # q /\ room'[q] = 0 => Freeing(r, q)'
    <2>1. \A q : ~Mentioned(<<>>, q)
        BY DEF Mentioned
    <2> QED BY <1>1, <1>2, <2>1 DEF GInv, Freeing
<1> QED BY <1>1, <1>4, <1>5, <1>6 DEF GInv

LEMMA BreaksGhost == ASSUME IInv, GInv, NEW p \in Ids, SocketBreaks(p) PROVE GInv'
<1>1. /\ p \in online /\ shaken' = shaken \cup {p} /\ online' = online \ {p}
      /\ inbox' = [inbox EXCEPT ![p] = <<>>]
      /\ life' = life /\ dials' = dials /\ room' = room /\ conn' = conn
    BY DEF SocketBreaks
<1>2. PICK kept \in 0..Len(up[p][dials[p]]) :
        up' = [up EXCEPT ![p][dials[p]] = Append(SubSeq(@, 1, kept), Close)]
    BY DEF SocketBreaks
<1>3. /\ \A r \in Ids : r # p => inbox'[r] = inbox[r] /\ up'[r] = up[r]
      /\ inbox'[p] = <<>>
      /\ \A k \in Sockets : k # dials[p] => up'[p][k] = up[p][k]
      /\ dials[p] \in Sockets =>
            up'[p][dials[p]] = Append(SubSeq(up[p][dials[p]], 1, kept), Close)
    BY <1>1, <1>2, Types
<1>4. ASSUME NEW r \in Ids, NEW k \in Sockets, NEW i \in DOMAIN up'[r][k],
             up'[r][k][i].type # "close"
      PROVE  up'[r][k][i].from = r
    <2>1. CASE r = p /\ k = dials[p]
        <3> DEFINE s == up[p][k]
                   t == SubSeq(s, 1, kept)
        <3>1. s \in Seq(Frames) /\ kept \in 0..Len(s) /\ up'[p][k] = Append(t, Close)
            BY <1>2, <1>3, <2>1, Types
        <3>2. /\ kept \in Nat /\ DOMAIN s = 1..Len(s) /\ DOMAIN Append(t, Close) = 1..(kept + 1)
              /\ Append(t, Close)[kept + 1] = Close
              /\ \A j \in 1..kept : Append(t, Close)[j] = s[j] /\ j \in DOMAIN s
            <4> HIDE DEF s
            <4>1. t \in Seq(Frames) /\ Len(t) = kept /\ kept \in Nat /\ DOMAIN s = 1..Len(s)
                  /\ \A j \in 1..kept : t[j] = s[j] /\ j \in 1..Len(s)
                BY <3>1
            <4> HIDE DEF t
            <4> QED BY <4>1
        <3>3. \A j \in DOMAIN s : s[j].type # "close" => s[j].from = p
            BY <2>1 DEF GInv, Placed
        <3>4. Close.type = "close"
            BY DEF Close
        <3> HIDE DEF s, t
        <3>5. i \in 1..(kept + 1) /\ i # kept + 1
            BY <1>4, <2>1, <3>1, <3>2, <3>4
        <3>6. i \in 1..kept
            BY <3>2, <3>5
        <3> QED BY <1>4, <2>1, <3>1, <3>2, <3>3, <3>6
    <2>2. CASE ~(r = p /\ k = dials[p])
        BY <1>3, <1>4, <2>2 DEF GInv, Placed
    <2> QED BY <2>1, <2>2
<1>5. Placed'
    BY <1>1, <1>3, <1>4 DEF GInv, Placed, Hears
<1>6. \A r \in Ids \ shaken' : Steady(r)'
    BY <1>1, <1>3 DEF GInv, Steady
<1>7. \A r, q \in Ids \ shaken' : r # q /\ room'[q] = 0 => Freeing(r, q)'
    BY <1>1, <1>3 DEF GInv, Freeing
<1> QED BY <1>5, <1>6, <1>7 DEF GInv

LEMMA GhostInduction == IInv /\ GInv /\ [Next]_vars => GInv'
<1> SUFFICES ASSUME IInv, GInv, [Next]_vars PROVE GInv'
    OBVIOUS
<1>1. CASE UNCHANGED vars
    BY <1>1 DEF vars, netVars, GInv, Placed, Steady, Freeing, Hears
<1>2. CASE Next
    BY <1>2, ConnectGhost, ReceiveGhost, LeaveGhost, BreaksGhost, RelayGhost, StepGhost, CloseGhost
       DEF Next
<1> QED BY <1>1, <1>2

\* A slot is not held for one who has left: no browser has more connections than slots, and
\* between two that never lost a socket or a channel, whoever still has a connection to one that is
\* no longer registered has the notice of its departure before it (handlePeerLeft, cleanup of the
\* signaling server).
THEOREM SlotsAreFreed == Spec => []NoGhostSlots
<1>1. IInv /\ GInv => NoGhostSlots
    <2> SUFFICES ASSUME IInv, GInv PROVE NoGhostSlots
        OBVIOUS
    <2>1. \A p \in Ids : Cardinality(Slots(p)) <= MaxPeers
        BY DEF IInv, SlotsBounded
    <2>2. ASSUME NEW p \in Ids, NEW q \in Ids, conn[p][q] # None, room[q] = 0,
                 {p, q} \cap shaken = {}
          PROVE  \E m \in ToSet(inbox[p]) : m.type = "left" /\ m.of = q
        <3>1. p # q
            BY <2>2, Types
        <3>2. Announced(inbox[p], q)
            BY <2>2, <3>1 DEF GInv, Freeing
        <3> QED BY <3>2 DEF Announced, LeftOf, ToSet
    <2> QED BY <2>1, <2>2 DEF NoGhostSlots
<1>2. Init => IInv /\ GInv
    BY InitInv, InitGhost
<1>3. IInv /\ GInv /\ [Next]_vars => IInv' /\ GInv'
    BY Induction, GhostInduction
<1> QED BY <1>1, <1>2, <1>3, PTL DEF Spec
=============================================================================
