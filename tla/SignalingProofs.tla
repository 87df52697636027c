----------------------------- MODULE SignalingProofs -----------------------------
(***************************************************************************)
(* Proofs about Signaling: rooms hold no ghosts, a live connection stays   *)
(* listed, an ended session stays empty, classes stay apart, the roster    *)
(* every browser is told agrees with its room, and the telemetry report of *)
(* a peer goes with its membership and comes back with late heartbeats     *)
(* only.                                                                   *)
(***************************************************************************)
EXTENDS Signaling, TLAPS

\* A socket in use has the owner of its token.
OwnersKnown ==
    \A k \in Sockets : sock[k] # "idle" \/ k \in link => owner[k] \in Peers

MembershipInv ==
    /\ TypeOK
    /\ OwnersKnown
    /\ NoGhostMembers
    /\ LiveConnectionListed
    /\ EndedRoomsStayEmpty

-----------------------------------------------------------------------------
\* Appending a message: it decides about the peers it names.
LEMMA AppendEnds ==
    ASSUME NEW box \in Seq(Message), NEW m \in Message, NEW V, NEW p
    PROVE  Ends(Append(box, m), V, p) <=> Lists(m, p) \/ (Ends(box, V, p) /\ ~Unlists(m, p))
<1> DEFINE n == Len(box)
           new == Append(box, m)
<1>1. /\ n \in Nat /\ DOMAIN box = 1..n /\ DOMAIN new = 1..(n + 1)
      /\ new[n + 1] = m /\ \A i \in 1..n : new[i] = box[i]
    OBVIOUS
<1>2. (\A j \in DOMAIN new : ~Unlists(new[j], p))
        <=> (\A j \in DOMAIN box : ~Unlists(box[j], p)) /\ ~Unlists(m, p)
    BY <1>1
<1>3. (\E i \in DOMAIN new : Lists(new[i], p) /\ \A j \in DOMAIN new : j > i => ~Unlists(new[j], p))
        <=> \/ Lists(m, p)
            \/ /\ \E i \in DOMAIN box : Lists(box[i], p) /\ \A j \in DOMAIN box : j > i => ~Unlists(box[j], p)
               /\ ~Unlists(m, p)
    <2>1. ASSUME Lists(m, p)
          PROVE  \E i \in DOMAIN new : Lists(new[i], p) /\ \A j \in DOMAIN new : j > i => ~Unlists(new[j], p)
        BY <1>1, <2>1
    <2>2. ASSUME NEW i \in DOMAIN box, Lists(box[i], p), ~Unlists(m, p),
                 \A j \in DOMAIN box : j > i => ~Unlists(box[j], p)
          PROVE  \E e \in DOMAIN new : Lists(new[e], p) /\ \A j \in DOMAIN new : j > e => ~Unlists(new[j], p)
        <3>1. \A j \in DOMAIN new : j > i => ~Unlists(new[j], p)
            BY <1>1, <2>2
        <3>2. i \in DOMAIN new /\ Lists(new[i], p)
            BY <1>1, <2>2
        <3> QED BY <3>1, <3>2
    <2>3. ASSUME NEW i \in DOMAIN new, Lists(new[i], p), ~Lists(m, p),
                 \A j \in DOMAIN new : j > i => ~Unlists(new[j], p)
          PROVE  /\ ~Unlists(m, p)
                 /\ i \in DOMAIN box /\ Lists(box[i], p)
                 /\ \A j \in DOMAIN box : j > i => ~Unlists(box[j], p)
        BY <1>1, <2>3
    <2> QED BY <2>1, <2>2, <2>3
<1>4. Lists(m, p) => ~Unlists(m, p)
    BY DEF Lists, Unlists
<1> QED BY <1>2, <1>3, <1>4 DEF Ends

\* Handling the first message changes nothing about where the browser ends up.
LEMMA HandleEnds ==
    ASSUME NEW box \in Seq(Message), box # <<>>, NEW V, NEW p
    PROVE  Ends(Tail(box), Listed(V, Head(box)), p) <=> Ends(box, V, p)
<1> DEFINE n == Len(box)
           rest == Tail(box)
           m == Head(box)
<1>1. /\ n \in Nat \ {0} /\ DOMAIN box = 1..n /\ DOMAIN rest = 1..(n - 1)
      /\ m = box[1] /\ \A i \in 1..(n - 1) : rest[i] = box[i + 1]
      /\ m \in Message
    OBVIOUS
<1>2. p \in Listed(V, m) <=> Lists(m, p) \/ (p \in V /\ ~Unlists(m, p))
    BY <1>1 DEF Listed, Lists, Unlists, Message
<1>3. (\A j \in DOMAIN box : ~Unlists(box[j], p))
        <=> ~Unlists(m, p) /\ \A j \in DOMAIN rest : ~Unlists(rest[j], p)
    <2>1. ASSUME \A j \in DOMAIN rest : ~Unlists(rest[j], p), ~Unlists(m, p), NEW j \in DOMAIN box
          PROVE  ~Unlists(box[j], p)
        <3>1. CASE j = 1 BY <1>1, <2>1, <3>1
        <3>2. CASE j # 1
            <4>1. j - 1 \in 1..(n - 1) /\ rest[j - 1] = box[j]
                BY <1>1, <3>2
            <4> QED BY <1>1, <2>1, <4>1
        <3> QED BY <3>1, <3>2
    <2>2. ASSUME \A j \in DOMAIN box : ~Unlists(box[j], p)
          PROVE  ~Unlists(m, p) /\ \A j \in DOMAIN rest : ~Unlists(rest[j], p)
        BY <1>1, <2>2
    <2> QED BY <2>1, <2>2
<1> DEFINE Last(b, i) == Lists(b[i], p) /\ \A j \in DOMAIN b : j > i => ~Unlists(b[j], p)
<1>4. \A i \in DOMAIN rest : Last(rest, i) <=> Last(box, i + 1)
    <2> SUFFICES ASSUME NEW i \in DOMAIN rest
                 PROVE  Last(rest, i) <=> Last(box, i + 1)
        OBVIOUS
    <2>1. ASSUME Last(rest, i), NEW j \in DOMAIN box, j > i + 1
          PROVE  ~Unlists(box[j], p)
        <3>1. j - 1 \in 1..(n - 1) /\ rest[j - 1] = box[j] /\ j - 1 > i
            BY <1>1, <2>1
        <3> QED BY <1>1, <2>1, <3>1
    <2>2. ASSUME Last(box, i + 1), NEW j \in DOMAIN rest, j > i
          PROVE  ~Unlists(rest[j], p)
        BY <1>1, <2>2
    <2>3. rest[i] = box[i + 1]
        BY <1>1
    <2> QED BY <2>1, <2>2, <2>3
<1>5. Last(box, 1) <=> Lists(m, p) /\ \A j \in DOMAIN rest : ~Unlists(rest[j], p)
    <2>1. ASSUME \A j \in DOMAIN rest : ~Unlists(rest[j], p), NEW j \in DOMAIN box, j > 1
          PROVE  ~Unlists(box[j], p)
        <3>1. j - 1 \in 1..(n - 1) /\ rest[j - 1] = box[j]
            BY <1>1, <2>1
        <3> QED BY <1>1, <2>1, <3>1
    <2>2. ASSUME \A j \in DOMAIN box : j > 1 => ~Unlists(box[j], p), NEW j \in DOMAIN rest
          PROVE  ~Unlists(rest[j], p)
        BY <1>1, <2>2
    <2> QED BY <1>1, <2>1, <2>2
<1>6. (\E i \in DOMAIN box : Last(box, i)) <=> Last(box, 1) \/ \E i \in DOMAIN rest : Last(rest, i)
    <2>1. ASSUME NEW i \in DOMAIN box, Last(box, i), i # 1
          PROVE  i - 1 \in DOMAIN rest /\ Last(rest, i - 1)
        <3>1. i - 1 \in DOMAIN rest /\ (i - 1) + 1 = i
            BY <1>1, <2>1
        <3> QED BY <1>4, <2>1, <3>1
    <2>2. ASSUME NEW i \in DOMAIN rest, Last(rest, i)
          PROVE  i + 1 \in DOMAIN box /\ Last(box, i + 1)
        BY <1>1, <1>4, <2>2
    <2>3. 1 \in DOMAIN box
        BY <1>1
    <2> HIDE DEF Last
    <2> QED BY <2>1, <2>2, <2>3
<1>7. Ends(box, V, p) <=> (\E i \in DOMAIN box : Last(box, i))
                          \/ (p \in V /\ \A j \in DOMAIN box : ~Unlists(box[j], p))
    BY DEF Ends
<1>8. Ends(rest, Listed(V, m), p)
        <=> (\E i \in DOMAIN rest : Last(rest, i))
            \/ (p \in Listed(V, m) /\ \A j \in DOMAIN rest : ~Unlists(rest[j], p))
    BY DEF Ends
<1>9. Lists(m, p) => ~Unlists(m, p)
    BY DEF Lists, Unlists
<1> HIDE DEF Last
<1> QED BY <1>2, <1>3, <1>5, <1>6, <1>7, <1>8, <1>9

-----------------------------------------------------------------------------
LEMMA SentIs ==
    ASSUME NEW box \in [Sockets -> Seq(Message)], NEW K \in SUBSET Sockets, NEW m \in Message
    PROVE  /\ Sent(box, K, m) \in [Sockets -> Seq(Message)]
           /\ \A k \in Sockets : Sent(box, K, m)[k] = IF k \in K THEN Append(box[k], m) ELSE box[k]
<1>1. \A k \in Sockets : Append(box[k], m) \in Seq(Message)
    OBVIOUS
<1> QED BY <1>1 DEF Sent

LEMMA MsgIs ==
    ASSUME NEW type \in {"roster", "joined", "left", "ended", "signal"}, NEW S \in SUBSET Peers
    PROVE  Msg(type, S) \in Message /\ Msg(type, S).type = type /\ Msg(type, S).peers = S
BY DEF Msg, Message

LEMMA InitMembership == Init => MembershipInv
<1> SUFFICES ASSUME Init PROVE MembershipInv
    OBVIOUS
<1>1. TypeOK
    <2>1. <<>> \in Seq(Message)
        OBVIOUS
    <2> QED BY <2>1 DEF Init, TypeOK
<1>2. OwnersKnown /\ NoGhostMembers /\ LiveConnectionListed /\ EndedRoomsStayEmpty
    BY DEF Init, OwnersKnown, NoGhostMembers, LiveConnectionListed, EndedRoomsStayEmpty, Members
<1> QED BY <1>1, <1>2 DEF MembershipInv

\* A step that leaves rooms, owners and sockets alone.
LEMMA QuietStep ==
    ASSUME MembershipInv, UNCHANGED <<sock, owner, rooms, ended>>,
           link' \subseteq link, active' \subseteq active, TypeOK'
    PROVE  MembershipInv'
<1>1. (OwnersKnown /\ NoGhostMembers /\ LiveConnectionListed)'
    BY DEF MembershipInv, TypeOK, OwnersKnown, NoGhostMembers, LiveConnectionListed, Members
<1>2. EndedRoomsStayEmpty'
    BY DEF MembershipInv, EndedRoomsStayEmpty, Members
<1> QED BY <1>1, <1>2 DEF MembershipInv

LEMMA ConnectStep ==
    ASSUME MembershipInv, NEW k \in Sockets, NEW p \in Peers, ConnectAccepted(k, p)
    PROVE  MembershipInv'
<1> DEFINE s == SessionOf[p]
           rms == [rooms EXCEPT ![s][p] = k]
           roster == Msg("roster", Members(rms, s) \ {p})
           tld == Sent(inbox, {k}, roster)
           K == Listeners(rms, s) \ {k}
<1> USE SessionOfAssumption, NoSocketAssumption
<1>1. s \in Sessions /\ sock[k] = "idle" /\ s \in active
    BY DEF ConnectAccepted, Dials
<1>2. rooms' = rms /\ link' = link \cup {k} /\ UNCHANGED <<dbVars, reports, view>>
      /\ sock' = [sock EXCEPT ![k] = "open"] /\ owner' = [owner EXCEPT ![k] = p]
    BY DEF ConnectAccepted, Dials
<1>3. rms \in [Sessions -> [Peers -> Sockets \cup {NoSocket}]]
      /\ \A t \in Sessions, q \in Peers : rms[t][q] = IF t = s /\ q = p THEN k ELSE rooms[t][q]
    BY <1>1 DEF MembershipInv, TypeOK
<1>4. TypeOK'
    <2>1. roster \in Message /\ Msg("joined", {p}) \in Message
        BY MsgIs DEF Members
    <2>6. inbox \in [Sockets -> Seq(Message)]
        BY DEF MembershipInv, TypeOK
    <2>2. tld \in [Sockets -> Seq(Message)]
        <3>1. roster \in Message /\ {k} \in SUBSET Sockets
            BY <2>1
        <3> HIDE DEF roster
        <3>2. Sent(inbox, {k}, roster) \in [Sockets -> Seq(Message)]
            BY <2>6, <3>1, SentIs
        <3> QED BY <3>2
    <2>3. K \in SUBSET Sockets
        BY DEF Listeners
    <2>4. inbox' = Sent(tld, K, Msg("joined", {p}))
        BY DEF ConnectAccepted
    <2>5. inbox' \in [Sockets -> Seq(Message)]
        <3> HIDE DEF tld, K
        <3> QED BY <2>1, <2>2, <2>3, <2>4, SentIs
    <2> QED BY <1>1, <1>2, <1>3, <2>5 DEF MembershipInv, TypeOK, dbVars
<1>5. OwnersKnown'
    BY <1>2 DEF MembershipInv, TypeOK, OwnersKnown
<1>6. NoGhostMembers'
    <2> SUFFICES ASSUME NEW t \in Sessions, NEW q \in Peers, rms[t][q] # NoSocket
                 PROVE  /\ SessionOf[q] = t
                        /\ owner'[rms[t][q]] = q
                        /\ sock'[rms[t][q]] \in {"open", "closing"}
        BY <1>2 DEF NoGhostMembers, Members
    <2>1. CASE t = s /\ q = p
        BY <1>2, <1>3, <2>1 DEF MembershipInv, TypeOK
    <2>2. CASE ~(t = s /\ q = p)
        <3>1. rms[t][q] = rooms[t][q] /\ rooms[t][q] \in Sockets
            BY <1>3, <2>2 DEF MembershipInv, TypeOK
        <3>2. SessionOf[q] = t /\ owner[rooms[t][q]] = q /\ sock[rooms[t][q]] \in {"open", "closing"}
            BY <3>1 DEF MembershipInv, NoGhostMembers, Members
        <3>3. rooms[t][q] # k
            BY <1>1, <3>2
        <3> QED BY <1>2, <3>1, <3>2, <3>3 DEF MembershipInv, TypeOK
    <2> QED BY <2>1, <2>2
<1>7. LiveConnectionListed'
    <2> SUFFICES ASSUME NEW j \in link', sock'[j] = "open"
                 PROVE  rms[SessionOf[owner'[j]]][owner'[j]] = j
        BY <1>2 DEF LiveConnectionListed
    <2>1. CASE j = k
        BY <1>1, <1>2, <1>3, <2>1 DEF MembershipInv, TypeOK
    <2>2. CASE j # k
        <3>1. j \in link /\ j \in Sockets /\ sock[j] = "open" /\ owner'[j] = owner[j]
            BY <1>2, <2>2 DEF MembershipInv, TypeOK
        <3>2. owner[j] # p /\ owner[j] \in Peers
            BY <3>1 DEF ConnectAccepted, Dials, MembershipInv, OwnersKnown
        <3>3. rooms[SessionOf[owner[j]]][owner[j]] = j
            BY <3>1 DEF MembershipInv, LiveConnectionListed
        <3> QED BY <1>3, <3>1, <3>2, <3>3
    <2> QED BY <2>1, <2>2
<1>8. EndedRoomsStayEmpty'
    <2> SUFFICES ASSUME NEW t \in ended
                 PROVE  t \notin active /\ \A q \in Peers : rms[t][q] = NoSocket
        BY <1>2 DEF EndedRoomsStayEmpty, Members, dbVars
    <2>1. t \in Sessions /\ t \notin active /\ \A q \in Peers : rooms[t][q] = NoSocket
        BY DEF MembershipInv, TypeOK, EndedRoomsStayEmpty, Members
    <2> QED BY <1>1, <1>3, <2>1
<1> QED BY <1>4, <1>5, <1>6, <1>7, <1>8 DEF MembershipInv

\* What cleanup does to the rooms, whether or not it finds its own entry.
LEMMA CleanupIs ==
    ASSUME MembershipInv, NEW k \in Sockets, owner[k] \in Peers, Cleanup(k),
           NEW x, sock' = [sock EXCEPT ![k] = x]
    PROVE  /\ rooms' \in [Sessions -> [Peers -> Sockets \cup {NoSocket}]]
           /\ reports' \in [Sessions -> SUBSET Peers]
           /\ inbox' \in [Sockets -> Seq(Message)]
           /\ \A t \in Sessions, q \in Peers :
                  rooms'[t][q] = IF rooms[t][q] = k THEN NoSocket ELSE rooms[t][q]
<1> USE SessionOfAssumption, NoSocketAssumption
<1> DEFINE p == owner[k]
           s == SessionOf[p]
           rms == [rooms EXCEPT ![s][p] = NoSocket]
<1>0. s \in Sessions
    OBVIOUS
<1>1. \A t \in Sessions, q \in Peers : rooms[t][q] = k => t = s /\ q = p
    BY DEF MembershipInv, NoGhostMembers, Members
<1>2. CASE rooms[s][p] = k
    <2>1. /\ rooms' = rms
          /\ reports' = [reports EXCEPT ![s] = @ \ {p}]
          /\ inbox' = Sent(inbox, Listeners(rms, s), Msg("left", {p}))
        BY <1>2 DEF Cleanup
    <2>2. Msg("left", {p}) \in Message /\ Listeners(rms, s) \in SUBSET Sockets
        BY MsgIs DEF Listeners
    <2>6. inbox \in [Sockets -> Seq(Message)]
        BY DEF MembershipInv, TypeOK
    <2>3. inbox' \in [Sockets -> Seq(Message)]
        <3> HIDE DEF rms, s, p
        <3> QED BY <2>1, <2>2, <2>6, SentIs
    <2>4. rooms' \in [Sessions -> [Peers -> Sockets \cup {NoSocket}]]
          /\ \A t \in Sessions, q \in Peers :
                 rooms'[t][q] = IF t = s /\ q = p THEN NoSocket ELSE rooms[t][q]
        BY <1>0, <2>1 DEF MembershipInv, TypeOK
    <2>5. reports' \in [Sessions -> SUBSET Peers]
        BY <1>0, <2>1 DEF MembershipInv, TypeOK
    <2> QED BY <1>1, <1>2, <2>3, <2>4, <2>5
<1>3. CASE rooms[s][p] # k
    <2>1. UNCHANGED <<memoryVars, inbox>>
        BY <1>3 DEF Cleanup
    <2> QED BY <1>1, <1>3, <2>1 DEF MembershipInv, TypeOK, memoryVars
<1> QED BY <1>2, <1>3

LEMMA CleanupStep ==
    ASSUME MembershipInv, NEW k \in Sockets, sock[k] # "idle", Cleanup(k),
           NEW x \in {"failed", "closed"}, sock' = [sock EXCEPT ![k] = x],
           UNCHANGED <<dbVars, owner, clientVars>>
    PROVE  MembershipInv'
<1> USE SessionOfAssumption, NoSocketAssumption
<1>1. owner[k] \in Peers
    BY DEF MembershipInv, OwnersKnown
<1>2. /\ rooms' \in [Sessions -> [Peers -> Sockets \cup {NoSocket}]]
      /\ reports' \in [Sessions -> SUBSET Peers]
      /\ inbox' \in [Sockets -> Seq(Message)]
      /\ \A t \in Sessions, q \in Peers :
             rooms'[t][q] = IF rooms[t][q] = k THEN NoSocket ELSE rooms[t][q]
    BY <1>1, CleanupIs
<1>3. TypeOK'
    BY <1>2 DEF MembershipInv, TypeOK, dbVars, clientVars
<1>4. OwnersKnown'
    BY DEF MembershipInv, TypeOK, OwnersKnown, clientVars
<1>5. NoGhostMembers'
    BY <1>2 DEF MembershipInv, TypeOK, NoGhostMembers, Members
<1>6. LiveConnectionListed'
    <2> SUFFICES ASSUME NEW j \in link, sock'[j] = "open"
                 PROVE  rooms'[SessionOf[owner[j]]][owner[j]] = j
        BY DEF LiveConnectionListed, clientVars
    <2>1. j \in Sockets /\ j # k /\ sock[j] = "open" /\ owner[j] \in Peers
        BY DEF MembershipInv, TypeOK, OwnersKnown
    <2>2. rooms[SessionOf[owner[j]]][owner[j]] = j
        BY <2>1 DEF MembershipInv, LiveConnectionListed
    <2> QED BY <1>2, <2>1, <2>2
<1>7. EndedRoomsStayEmpty'
    <2> SUFFICES ASSUME NEW t \in ended
                 PROVE  t \notin active /\ \A q \in Peers : rooms'[t][q] = NoSocket
        BY DEF EndedRoomsStayEmpty, Members, dbVars
    <2>1. t \in Sessions /\ t \notin active /\ \A q \in Peers : rooms[t][q] = NoSocket
        BY DEF MembershipInv, TypeOK, EndedRoomsStayEmpty, Members
    <2> QED BY <1>2, <2>1
<1> QED BY <1>3, <1>4, <1>5, <1>6, <1>7 DEF MembershipInv

LEMMA EndSessionStep ==
    ASSUME MembershipInv, NEW s \in Sessions, EndSession(s)
    PROVE  MembershipInv'
<1> USE SessionOfAssumption, NoSocketAssumption
<1> DEFINE evicted == {rooms[s][p] : p \in Members(rooms, s)}
           K == {k \in evicted : sock[k] = "open"}
<1>1. evicted \subseteq Sockets
    BY DEF MembershipInv, TypeOK, Members
<1>2. /\ active' = active \ {s} /\ ended' = ended \cup {s}
      /\ UNCHANGED <<overdue, owner, link, view>>
      /\ sock' = [k \in Sockets |-> IF k \in evicted /\ sock[k] = "open" THEN "closing" ELSE sock[k]]
      /\ inbox' = Sent(inbox, K, Msg("ended", {}))
      /\ rooms' = [rooms EXCEPT ![s] = [p \in Peers |-> NoSocket]]
      /\ reports' = [reports EXCEPT ![s] = {}]
    BY DEF EndSession, clientVars
<1>3. \A t \in Sessions, q \in Peers : rooms'[t][q] = IF t = s THEN NoSocket ELSE rooms[t][q]
    BY <1>2 DEF MembershipInv, TypeOK
<1>4. TypeOK'
    <2>1. Msg("ended", {}) \in Message /\ K \in SUBSET Sockets
        BY <1>1, MsgIs
    <2>2. inbox \in [Sockets -> Seq(Message)]
        BY DEF MembershipInv, TypeOK
    <2>3. inbox' \in [Sockets -> Seq(Message)]
        <3> HIDE DEF K
        <3> QED BY <1>2, <2>1, <2>2, SentIs
    <2>4. sock' \in [Sockets -> {"idle", "open", "closing", "failed", "closed"}]
        BY <1>2 DEF MembershipInv, TypeOK
    <2>5. rooms' \in [Sessions -> [Peers -> Sockets \cup {NoSocket}]]
        BY <1>2 DEF MembershipInv, TypeOK
    <2> QED BY <1>2, <2>3, <2>4, <2>5 DEF MembershipInv, TypeOK
<1>5. OwnersKnown'
    BY <1>2 DEF MembershipInv, TypeOK, OwnersKnown
<1>6. NoGhostMembers'
    <2> SUFFICES ASSUME NEW t \in Sessions, NEW q \in Peers, rooms'[t][q] # NoSocket
                 PROVE  /\ SessionOf[q] = t
                        /\ owner'[rooms'[t][q]] = q
                        /\ sock'[rooms'[t][q]] \in {"open", "closing"}
        BY DEF NoGhostMembers, Members
    <2>1. rooms'[t][q] = rooms[t][q] /\ rooms[t][q] \in Sockets
        BY <1>3 DEF MembershipInv, TypeOK
    <2>2. SessionOf[q] = t /\ owner[rooms[t][q]] = q /\ sock[rooms[t][q]] \in {"open", "closing"}
        BY <2>1 DEF MembershipInv, NoGhostMembers, Members
    <2> QED BY <1>2, <2>1, <2>2
<1>7. LiveConnectionListed'
    <2> SUFFICES ASSUME NEW j \in link, sock'[j] = "open"
                 PROVE  rooms'[SessionOf[owner[j]]][owner[j]] = j
        BY <1>2 DEF LiveConnectionListed
    <2>1. j \in Sockets /\ sock[j] = "open" /\ j \notin evicted /\ owner[j] \in Peers
        BY <1>2 DEF MembershipInv, TypeOK, OwnersKnown
    <2>2. rooms[SessionOf[owner[j]]][owner[j]] = j
        BY <2>1 DEF MembershipInv, LiveConnectionListed
    <2>3. SessionOf[owner[j]] # s
        BY <2>1, <2>2 DEF Members
    <2> QED BY <1>3, <2>1, <2>2, <2>3
<1>8. EndedRoomsStayEmpty'
    <2> SUFFICES ASSUME NEW t \in ended \cup {s}
                 PROVE  t \notin active \ {s} /\ \A q \in Peers : rooms'[t][q] = NoSocket
        BY <1>2 DEF EndedRoomsStayEmpty, Members
    <2>1. t # s => t \in Sessions /\ t \notin active /\ \A q \in Peers : rooms[t][q] = NoSocket
        BY DEF MembershipInv, TypeOK, EndedRoomsStayEmpty, Members
    <2> QED BY <1>3, <2>1
<1> QED BY <1>4, <1>5, <1>6, <1>7, <1>8 DEF MembershipInv

LEMMA RestartStep == MembershipInv /\ Restart => MembershipInv'
<1> SUFFICES ASSUME MembershipInv, Restart PROVE MembershipInv'
    OBVIOUS
<1> USE NoSocketAssumption
<1>1. TypeOK'
    <2>1. <<>> \in Seq(Message)
        OBVIOUS
    <2> QED BY <2>1 DEF MembershipInv, TypeOK, Restart, dbVars
<1>2. OwnersKnown'
    BY DEF MembershipInv, TypeOK, OwnersKnown, Restart
<1>3. NoGhostMembers' /\ LiveConnectionListed'
    BY DEF NoGhostMembers, LiveConnectionListed, Members, Restart
<1>4. EndedRoomsStayEmpty'
    BY DEF MembershipInv, TypeOK, EndedRoomsStayEmpty, Members, Restart, dbVars
<1> QED BY <1>1, <1>2, <1>3, <1>4 DEF MembershipInv

LEMMA SocketStep ==
    ASSUME MembershipInv, NEW k \in Sockets, SocketEvent(k)
    PROVE  MembershipInv'
<1> USE SessionOfAssumption, NoSocketAssumption
<1>1. ASSUME NEW p \in Peers, ConnectRefused(k, p)
      PROVE  MembershipInv'
    <2>1. TypeOK'
        BY <1>1 DEF ConnectRefused, Dials, MembershipInv, TypeOK, memoryVars, clientVars
    <2>2. OwnersKnown'
        BY <1>1 DEF ConnectRefused, Dials, MembershipInv, TypeOK, OwnersKnown, clientVars
    <2>3. NoGhostMembers'
        BY <1>1 DEF ConnectRefused, Dials, MembershipInv, TypeOK, NoGhostMembers, Members, memoryVars
    <2>4. LiveConnectionListed'
        <3> SUFFICES ASSUME NEW j \in link, sock'[j] = "open"
                     PROVE  rooms[SessionOf[owner'[j]]][owner'[j]] = j
            BY <1>1 DEF ConnectRefused, LiveConnectionListed, memoryVars, clientVars
        <3>1. j \in Sockets /\ j # k /\ sock[j] = "open" /\ owner'[j] = owner[j]
            BY <1>1 DEF ConnectRefused, Dials, MembershipInv, TypeOK
        <3> QED BY <3>1 DEF MembershipInv, LiveConnectionListed
    <2>5. EndedRoomsStayEmpty'
        BY <1>1 DEF ConnectRefused, MembershipInv, EndedRoomsStayEmpty, Members, memoryVars
    <2> QED BY <2>1, <2>2, <2>3, <2>4, <2>5 DEF MembershipInv
<1>2. ASSUME NEW p \in Peers, ConnectAccepted(k, p)
      PROVE  MembershipInv'
    BY <1>2, ConnectStep
<1>3. CASE Heartbeat(k)
    <2>1. owner[k] \in Peers
        BY <1>3 DEF Heartbeat, Delivers, MembershipInv, OwnersKnown
    <2>2. TypeOK'
        BY <1>3, <2>1 DEF Heartbeat, MembershipInv, TypeOK, dbVars, clientVars
    <2> QED BY <1>3, <2>2, QuietStep DEF Heartbeat, dbVars, clientVars
<1>4. ASSUME NEW claimed \in Sessions, NEW q \in Peers, Relay(k, claimed, q)
      PROVE  MembershipInv'
    <2> DEFINE dst == rooms[Stamp(k, claimed)][q]
    <2>1. owner[k] \in Peers /\ Stamp(k, claimed) \in Sessions
        BY <1>4 DEF Relay, Delivers, MembershipInv, OwnersKnown, Stamp
    <2>2. dst \in Sockets /\ Msg("signal", {owner[k]}) \in Message
        BY <1>4, <2>1, MsgIs DEF Relay, MembershipInv, TypeOK
    <2>3. inbox' = [inbox EXCEPT ![dst] = Append(@, Msg("signal", {owner[k]}))]
        BY <1>4 DEF Relay
    <2>4. inbox \in [Sockets -> Seq(Message)]
        BY DEF MembershipInv, TypeOK
    <2>5. inbox' \in [Sockets -> Seq(Message)]
        <3> HIDE DEF dst
        <3>1. Append(inbox[dst], Msg("signal", {owner[k]})) \in Seq(Message)
            BY <2>2, <2>4
        <3> QED BY <2>2, <2>3, <2>4, <3>1
    <2>6. TypeOK'
        BY <1>4, <2>5 DEF Relay, MembershipInv, TypeOK, dbVars, clientVars, memoryVars
    <2> QED BY <1>4, <2>6, QuietStep DEF Relay, dbVars, clientVars, memoryVars
<1>5. CASE StartsClosing(k)
    <2>1. TypeOK' /\ OwnersKnown'
        BY <1>5 DEF StartsClosing, MembershipInv, TypeOK, OwnersKnown, dbVars, clientVars, memoryVars
    <2>2. NoGhostMembers' /\ LiveConnectionListed' /\ EndedRoomsStayEmpty'
        BY <1>5 DEF StartsClosing, MembershipInv, TypeOK, NoGhostMembers, LiveConnectionListed,
                    EndedRoomsStayEmpty, Members, dbVars, clientVars, memoryVars
    <2> QED BY <2>1, <2>2 DEF MembershipInv
<1>6. CASE Errors(k)
    BY <1>6, CleanupStep DEF Errors, Delivers
<1>7. CASE Closes(k)
    BY <1>7, CleanupStep DEF Closes, Delivers
<1>8. CASE LinkDrops(k)
    <2>1. <<>> \in Seq(Message)
        OBVIOUS
    <2>2. TypeOK'
        BY <1>8, <2>1 DEF LinkDrops, MembershipInv, TypeOK, dbVars, memoryVars
    <2> QED BY <1>8, <2>2, QuietStep DEF LinkDrops, dbVars, memoryVars
<1>9. CASE OnMessage(k)
    <2>1. inbox[k] \in Seq(Message) /\ inbox[k] # <<>>
        BY <1>9 DEF OnMessage, MembershipInv, TypeOK
    <2>2. Tail(inbox[k]) \in Seq(Message) /\ Head(inbox[k]) \in Message
        BY <2>1
    <2>3. Listed(view[k], Head(inbox[k])) \in SUBSET Peers
        BY <2>2 DEF Listed, Message, MembershipInv, TypeOK
    <2>4. TypeOK'
        BY <1>9, <2>2, <2>3 DEF OnMessage, MembershipInv, TypeOK, dbVars, memoryVars
    <2> QED BY <1>9, <2>4, QuietStep DEF OnMessage, dbVars, memoryVars
<1> QED BY <1>1, <1>2, <1>3, <1>4, <1>5, <1>6, <1>7, <1>8, <1>9 DEF SocketEvent

LEMMA NextMembership == MembershipInv /\ [Next]_vars => MembershipInv'
<1> SUFFICES ASSUME MembershipInv, [Next]_vars PROVE MembershipInv'
    OBVIOUS
<1>1. ASSUME NEW k \in Sockets, SocketEvent(k)
      PROVE  MembershipInv'
    BY <1>1, SocketStep
<1>2. ASSUME NEW s \in Sessions, EndSession(s)
      PROVE  MembershipInv'
    BY <1>2, EndSessionStep
<1>3. ASSUME NEW s \in Sessions, Expire(s) \/ Lookup(s) \/ ResetTelemetry(s)
      PROVE  MembershipInv'
    <2>1. TypeOK'
        BY <1>3 DEF Expire, Lookup, ResetTelemetry, MembershipInv, TypeOK, dbVars, memoryVars, clientVars
    <2> QED BY <1>3, <2>1, QuietStep
            DEF Expire, Lookup, ResetTelemetry, dbVars, memoryVars, clientVars
<1>4. CASE Restart
    BY <1>4, RestartStep
<1>5. CASE UNCHANGED vars
    <2>1. TypeOK'
        BY <1>5 DEF MembershipInv, TypeOK, vars
    <2> QED BY <1>5, <2>1, QuietStep DEF vars
<1> QED BY <1>1, <1>2, <1>3, <1>4, <1>5 DEF Next, SessionEvent

LEMMA Membership == Spec => []MembershipInv
BY InitMembership, NextMembership, PTL DEF Spec

\* Whoever a room lists is connected, and its close event will remove it.
THEOREM NoGhosts == Spec => []NoGhostMembers
<1>1. MembershipInv => NoGhostMembers
    BY DEF MembershipInv
<1> QED BY <1>1, Membership, PTL

\* A reconnected student is never evicted by the connection it replaced.
THEOREM LiveConnectionsStay == Spec => []LiveConnectionListed
<1>1. MembershipInv => LiveConnectionListed
    BY DEF MembershipInv
<1> QED BY <1>1, Membership, PTL

\* Nobody re-enters the room of a session the instructor ended.
THEOREM EndedRoomsEmpty == Spec => []EndedRoomsStayEmpty
<1>1. MembershipInv => EndedRoomsStayEmpty
    BY DEF MembershipInv
<1> QED BY <1>1, Membership, PTL

-----------------------------------------------------------------------------
RosterInv == MembershipInv /\ RostersAgree

\* A registered socket belongs to the session of the room that lists it.
LEMMA ListenersIn ==
    ASSUME MembershipInv, NEW s \in Sessions, NEW k \in Sockets, owner[k] \in Peers,
           NEW p \in Peers, rooms[s][p] = k
    PROVE  s = SessionOf[owner[k]] /\ p = owner[k]
BY NoSocketAssumption DEF MembershipInv, NoGhostMembers, Members

\* The roster of a browser the step sends nothing to, in a room it leaves alone.
LEMMA RosterKept ==
    ASSUME RosterInv, NEW k \in link, sock[k] = "open", NEW p \in Peers \ {owner[k]},
           owner'[k] = owner[k], view'[k] = view[k], inbox'[k] = inbox[k],
           rooms'[SessionOf[owner[k]]][p] = NoSocket <=> rooms[SessionOf[owner[k]]][p] = NoSocket
    PROVE  WillList(k, p)' <=> p \in Members(rooms', SessionOf[owner'[k]])
<1>1. WillList(k, p) <=> p \in Members(rooms, SessionOf[owner[k]])
    BY DEF RosterInv, RostersAgree
<1>2. WillList(k, p)' <=> WillList(k, p)
    BY DEF WillList
<1> QED BY <1>1, <1>2 DEF Members

LEMMA ConnectRosters ==
    ASSUME RosterInv, NEW k \in Sockets, NEW p \in Peers, ConnectAccepted(k, p)
    PROVE  RostersAgree'
<1> DEFINE s == SessionOf[p]
           rms == [rooms EXCEPT ![s][p] = k]
           roster == Msg("roster", Members(rms, s) \ {p})
           joined == Msg("joined", {p})
           tld == Sent(inbox, {k}, roster)
           K == Listeners(rms, s) \ {k}
<1> USE SessionOfAssumption, NoSocketAssumption
<1>1. MembershipInv /\ TypeOK /\ s \in Sessions /\ inbox \in [Sockets -> Seq(Message)] /\ sock[k] = "idle"
    BY DEF RosterInv, MembershipInv, TypeOK, ConnectAccepted, Dials
<1>2. rooms' = rms /\ link' = link \cup {k} /\ UNCHANGED view
      /\ sock' = [sock EXCEPT ![k] = "open"] /\ owner' = [owner EXCEPT ![k] = p]
      /\ inbox' = Sent(tld, K, joined)
    BY DEF ConnectAccepted, Dials
<1>3. \A t \in Sessions, q \in Peers : rms[t][q] = IF t = s /\ q = p THEN k ELSE rooms[t][q]
    BY <1>1 DEF TypeOK
<1>4. /\ roster \in Message /\ roster.type = "roster" /\ roster.peers = Members(rms, s) \ {p}
      /\ joined \in Message /\ joined.type = "joined" /\ joined.peers = {p}
    BY MsgIs DEF Members
<1>5. /\ tld \in [Sockets -> Seq(Message)]
      /\ \A j \in Sockets : tld[j] = IF j = k THEN Append(inbox[j], roster) ELSE inbox[j]
    <2>1. roster \in Message /\ {k} \in SUBSET Sockets
        BY <1>4
    <2> HIDE DEF roster
    <2>2. Sent(inbox, {k}, roster) \in [Sockets -> Seq(Message)]
        BY <1>1, <2>1, SentIs
    <2>3. \A j \in Sockets : Sent(inbox, {k}, roster)[j] =
              IF j = k THEN Append(inbox[j], roster) ELSE inbox[j]
        BY DEF Sent
    <2> QED BY <2>2, <2>3
<1>6. \A j \in Sockets : inbox'[j] = IF j \in K THEN Append(tld[j], joined) ELSE tld[j]
    <2>1. K \in SUBSET Sockets
        BY DEF Listeners
    <2> HIDE DEF tld, K, joined
    <2>2. \A j \in Sockets : Sent(tld, K, joined)[j] = IF j \in K THEN Append(tld[j], joined) ELSE tld[j]
        BY <1>4, <1>5, <2>1, SentIs
    <2> QED BY <1>2, <2>2
<1> SUFFICES ASSUME NEW j \in link', sock'[j] = "open", NEW q \in Peers \ {owner'[j]}
             PROVE  WillList(j, q)' <=> q \in Members(rms, SessionOf[owner'[j]])
    BY <1>2 DEF RostersAgree
<1>7. CASE j = k
    <2>1. inbox'[k] = Append(inbox[k], roster) /\ owner'[k] = p
        BY <1>1, <1>2, <1>5, <1>6 DEF TypeOK
    <2>2. WillList(k, q)' <=> Lists(roster, q) \/ (Ends(inbox[k], view'[k], q) /\ ~Unlists(roster, q))
        <3> HIDE DEF roster
        <3> QED BY <1>1, <1>4, <2>1, AppendEnds DEF WillList
    <2>3. Lists(roster, q) <=> q \in Members(rms, s)
        BY <1>4, <1>7, <2>1 DEF Lists
    <2>4. ~Lists(roster, q) => Unlists(roster, q)
        BY <1>4 DEF Lists, Unlists
    <2> HIDE DEF roster, rms
    <2> QED BY <1>7, <2>1, <2>2, <2>3, <2>4
<1>8. CASE j # k
    <2>1. j \in link /\ j \in Sockets /\ sock[j] = "open" /\ owner'[j] = owner[j] /\ tld[j] = inbox[j]
        BY <1>1, <1>2, <1>5, <1>8 DEF TypeOK
    <2>2. owner[j] \in Peers /\ owner[j] # p
        BY <1>1, <2>1 DEF MembershipInv, OwnersKnown, ConnectAccepted, Dials
    <2>3. rooms[SessionOf[owner[j]]][owner[j]] = j
        BY <1>1, <2>1 DEF MembershipInv, LiveConnectionListed
    <2>4. j \in K <=> SessionOf[owner[j]] = s
        <3>1. ASSUME SessionOf[owner[j]] = s
              PROVE  j \in K
            <4>1. rms[s][owner[j]] = j
                BY <1>1, <1>3, <2>2, <2>3, <3>1
            <4> QED BY <1>8, <2>1, <2>2, <4>1 DEF Listeners
        <3>2. ASSUME NEW r \in Peers, rms[s][r] = j
              PROVE  SessionOf[owner[j]] = s
            <4>1. rooms[s][r] = j
                BY <1>1, <1>3, <1>8, <3>2
            <4> QED BY <1>1, <2>1, <2>2, <4>1, ListenersIn
        <3> QED BY <3>1, <3>2 DEF Listeners
    <2>5. WillList(j, q) <=> q \in Members(rooms, SessionOf[owner[j]])
        BY <2>1 DEF RosterInv, RostersAgree
    <2>6. CASE SessionOf[owner[j]] = s
        <3>1. inbox'[j] = Append(inbox[j], joined)
            BY <1>6, <2>1, <2>4, <2>6
        <3>2. WillList(j, q)' <=> Lists(joined, q) \/ (Ends(inbox[j], view[j], q) /\ ~Unlists(joined, q))
            <4> HIDE DEF joined
            <4>1. Ends(Append(inbox[j], joined), view[j], q)
                    <=> Lists(joined, q) \/ (Ends(inbox[j], view[j], q) /\ ~Unlists(joined, q))
                BY <1>1, <1>4, <2>1, AppendEnds
            <4> QED BY <1>2, <3>1, <4>1 DEF WillList
        <3>3. (Lists(joined, q) <=> q = p) /\ ~Unlists(joined, q)
            BY <1>4 DEF Lists, Unlists
        <3>4. q \in Members(rms, s) <=> q = p \/ q \in Members(rooms, s)
            BY <1>1, <1>3 DEF Members
        <3> HIDE DEF joined, rms
        <3> QED BY <2>1, <2>5, <2>6, <3>2, <3>3, <3>4 DEF WillList
    <2>7. CASE SessionOf[owner[j]] # s
        <3>1. inbox'[j] = inbox[j]
            BY <1>6, <2>1, <2>4, <2>7
        <3>2. \A r \in Peers : rms[SessionOf[owner[j]]][r] = rooms[SessionOf[owner[j]]][r]
            BY <1>1, <1>3, <2>2, <2>7
        <3> QED BY <1>2, <2>1, <3>1, <3>2, RosterKept
    <2> QED BY <2>6, <2>7
<1> QED BY <1>7, <1>8

LEMMA CleanupRosters ==
    ASSUME RosterInv, NEW k \in Sockets, sock[k] # "idle", Cleanup(k),
           NEW x \in {"failed", "closed"}, sock' = [sock EXCEPT ![k] = x],
           UNCHANGED <<dbVars, owner, clientVars>>
    PROVE  RostersAgree'
<1> USE SessionOfAssumption, NoSocketAssumption
<1> DEFINE p == owner[k]
           s == SessionOf[p]
           rms == [rooms EXCEPT ![s][p] = NoSocket]
           left == Msg("left", {p})
           K == Listeners(rms, s)
<1>1. MembershipInv /\ TypeOK /\ p \in Peers /\ s \in Sessions /\ inbox \in [Sockets -> Seq(Message)]
    BY DEF RosterInv, MembershipInv, TypeOK, OwnersKnown
<1>2. UNCHANGED <<owner, link, view>>
    BY DEF clientVars
<1>3. \A t \in Sessions, q \in Peers :
          rooms'[t][q] = IF rooms[t][q] = k THEN NoSocket ELSE rooms[t][q]
    BY <1>1, CleanupIs
<1> SUFFICES ASSUME NEW j \in link, sock'[j] = "open", NEW q \in Peers \ {owner[j]}
             PROVE  WillList(j, q)' <=> q \in Members(rooms', SessionOf[owner'[j]])
    BY <1>2 DEF RostersAgree
<1>4. j \in Sockets /\ j # k /\ sock[j] = "open" /\ owner[j] \in Peers
    BY <1>1 DEF TypeOK, MembershipInv, OwnersKnown
<1>5. rooms[SessionOf[owner[j]]][owner[j]] = j
    BY <1>1, <1>4 DEF MembershipInv, LiveConnectionListed
<1>6. WillList(j, q) <=> q \in Members(rooms, SessionOf[owner[j]])
    BY <1>4 DEF RosterInv, RostersAgree
<1>7. CASE rooms[s][p] = k /\ SessionOf[owner[j]] = s
    <2>1. inbox' = Sent(inbox, K, left) /\ rooms' = rms
        BY <1>7 DEF Cleanup
    <2>2. j \in K
        <3>1. owner[j] # p
            BY <1>4, <1>5, <1>7
        <3>2. rms[s][owner[j]] = j
            BY <1>1, <1>4, <1>5, <1>7, <3>1 DEF TypeOK
        <3> QED BY <1>4, <3>2 DEF Listeners
    <2>3. left \in Message /\ left.type = "left" /\ left.peers = {p}
        BY <1>1, MsgIs
    <2>4. inbox'[j] = Append(inbox[j], left)
        <3>1. K \in SUBSET Sockets
            BY DEF Listeners
        <3> HIDE DEF K, left
        <3> QED BY <1>1, <1>4, <2>1, <2>2, <2>3, <3>1, SentIs
    <2>5. WillList(j, q)' <=> Lists(left, q) \/ (Ends(inbox[j], view[j], q) /\ ~Unlists(left, q))
        <3> HIDE DEF left
        <3> QED BY <1>1, <1>2, <1>4, <2>3, <2>4, AppendEnds DEF WillList
    <2>6. ~Lists(left, q) /\ (Unlists(left, q) <=> q = p)
        BY <2>3 DEF Lists, Unlists
    <2>7. q \in Members(rooms', s) <=> q # p /\ q \in Members(rooms, s)
        <3>1. rooms'[s][q] = NoSocket <=> rooms[s][q] = NoSocket \/ q = p
            <4>1. rooms[s][q] = k => q = p
                BY <1>1, ListenersIn
            <4> QED BY <1>1, <1>3, <1>7, <4>1
        <3> QED BY <3>1 DEF Members
    <2> HIDE DEF left, p, s
    <2> QED BY <1>2, <1>6, <1>7, <2>5, <2>6, <2>7 DEF WillList
<1>8. CASE rooms[s][p] = k /\ SessionOf[owner[j]] # s
    <2>1. inbox' = Sent(inbox, K, left)
        BY <1>8 DEF Cleanup
    <2>2. j \notin K
        <3> SUFFICES ASSUME NEW r \in Peers, rms[s][r] = j PROVE FALSE
            BY DEF Listeners
        <3>1. rooms[s][r] = j
            BY <1>1, <1>4 DEF TypeOK
        <3> QED BY <1>1, <1>4, <1>8, <3>1, ListenersIn
    <2>3. left \in Message /\ K \in SUBSET Sockets
        BY <1>1, MsgIs DEF Listeners
    <2>4. inbox'[j] = inbox[j]
        <3> HIDE DEF K, left
        <3>1. Sent(inbox, K, left)[j] = IF j \in K THEN Append(inbox[j], left) ELSE inbox[j]
            BY <1>4 DEF Sent
        <3> QED BY <2>1, <2>2, <3>1
    <2>5. rooms[SessionOf[owner[j]]][q] # k
        BY <1>1, <1>4, <1>8, ListenersIn
    <2>6. rooms'[SessionOf[owner[j]]][q] = rooms[SessionOf[owner[j]]][q]
        BY <1>3, <1>4, <2>5
    <2> QED BY <1>2, <1>4, <2>4, <2>6, RosterKept
<1>9. CASE rooms[s][p] # k
    <2>1. UNCHANGED <<rooms, inbox>>
        BY <1>9 DEF Cleanup, memoryVars
    <2> QED BY <1>2, <1>4, <2>1, RosterKept
<1> QED BY <1>7, <1>8, <1>9

LEMMA EndSessionRosters ==
    ASSUME RosterInv, NEW s \in Sessions, EndSession(s)
    PROVE  RostersAgree'
<1> USE SessionOfAssumption, NoSocketAssumption
<1> DEFINE evicted == {rooms[s][p] : p \in Members(rooms, s)}
           K == {k \in evicted : sock[k] = "open"}
<1>1. MembershipInv /\ TypeOK
    BY DEF RosterInv, MembershipInv
<1>2. /\ UNCHANGED <<owner, link, view>>
      /\ sock' = [k \in Sockets |-> IF k \in evicted /\ sock[k] = "open" THEN "closing" ELSE sock[k]]
      /\ inbox' = Sent(inbox, K, Msg("ended", {}))
      /\ rooms' = [rooms EXCEPT ![s] = [p \in Peers |-> NoSocket]]
    BY DEF EndSession, clientVars
<1> SUFFICES ASSUME NEW j \in link, sock'[j] = "open", NEW q \in Peers \ {owner[j]}
             PROVE  WillList(j, q)' <=> q \in Members(rooms', SessionOf[owner'[j]])
    BY <1>2 DEF RostersAgree
<1>3. j \in Sockets /\ sock[j] = "open" /\ j \notin evicted /\ owner[j] \in Peers
    BY <1>1, <1>2 DEF TypeOK, MembershipInv, OwnersKnown
<1>4. rooms[SessionOf[owner[j]]][owner[j]] = j
    BY <1>1, <1>3 DEF MembershipInv, LiveConnectionListed
<1>5. SessionOf[owner[j]] # s
    BY <1>3, <1>4 DEF Members
<1>6. inbox'[j] = inbox[j]
    BY <1>2, <1>3 DEF Sent
<1>7. rooms'[SessionOf[owner[j]]] = rooms[SessionOf[owner[j]]]
    BY <1>1, <1>2, <1>3, <1>5 DEF TypeOK
<1> QED BY <1>2, <1>3, <1>6, <1>7, RosterKept

LEMMA RelayRosters ==
    ASSUME RosterInv, NEW k \in Sockets, NEW claimed \in Sessions, NEW r \in Peers,
           Relay(k, claimed, r)
    PROVE  RostersAgree'
<1> DEFINE dst == rooms[Stamp(k, claimed)][r]
           sig == Msg("signal", {owner[k]})
<1>1. TypeOK /\ inbox \in [Sockets -> Seq(Message)] /\ UNCHANGED <<sock, owner, link, view, rooms>>
      /\ owner[k] \in Peers
    BY DEF RosterInv, MembershipInv, TypeOK, OwnersKnown, Relay, Delivers, clientVars, memoryVars
<1>2. inbox' = [inbox EXCEPT ![dst] = Append(@, sig)]
    BY DEF Relay
<1> SUFFICES ASSUME NEW j \in link, sock[j] = "open", NEW q \in Peers \ {owner[j]}
             PROVE  WillList(j, q)' <=> q \in Members(rooms', SessionOf[owner'[j]])
    BY <1>1 DEF RostersAgree
<1>3. j \in Sockets
    BY <1>1 DEF TypeOK
<1>4. CASE j = dst
    <2>1. sig \in Message /\ sig.type = "signal"
        BY <1>1, MsgIs
    <2>2. ~Lists(sig, q) /\ ~Unlists(sig, q)
        BY <2>1 DEF Lists, Unlists
    <2> HIDE DEF sig, dst
    <2>3. inbox'[j] = Append(inbox[j], sig)
        BY <1>1, <1>2, <1>3, <1>4
    <2>4. Ends(Append(inbox[j], sig), view[j], q)
            <=> Lists(sig, q) \/ (Ends(inbox[j], view[j], q) /\ ~Unlists(sig, q))
        BY <1>1, <1>3, <2>1, AppendEnds
    <2>5. WillList(j, q)' <=> WillList(j, q)
        BY <1>1, <2>2, <2>3, <2>4 DEF WillList
    <2>6. WillList(j, q) <=> q \in Members(rooms, SessionOf[owner[j]])
        BY DEF RosterInv, RostersAgree
    <2> QED BY <1>1, <2>5, <2>6 DEF Members
<1>5. CASE j # dst
    <2>1. inbox'[j] = inbox[j]
        BY <1>1, <1>2, <1>3, <1>5
    <2> QED BY <1>1, <2>1, RosterKept
<1> QED BY <1>4, <1>5

LEMMA MessageRosters ==
    ASSUME RosterInv, NEW k \in Sockets, OnMessage(k)
    PROVE  RostersAgree'
<1>1. TypeOK /\ inbox \in [Sockets -> Seq(Message)] /\ UNCHANGED <<sock, owner, link, rooms>>
    BY DEF RosterInv, MembershipInv, TypeOK, OnMessage, memoryVars
<1>2. /\ k \in link /\ inbox[k] # <<>>
      /\ view' = [view EXCEPT ![k] = Listed(@, Head(inbox[k]))]
      /\ inbox' = [inbox EXCEPT ![k] = Tail(@)]
    BY DEF OnMessage
<1> SUFFICES ASSUME NEW j \in link, sock[j] = "open", NEW q \in Peers \ {owner[j]}
             PROVE  WillList(j, q)' <=> q \in Members(rooms', SessionOf[owner'[j]])
    BY <1>1 DEF RostersAgree
<1>3. j \in Sockets
    BY <1>1 DEF TypeOK
<1>4. CASE j = k
    <2>1. inbox'[j] = Tail(inbox[j]) /\ view'[j] = Listed(view[j], Head(inbox[j]))
        BY <1>1, <1>2, <1>3, <1>4 DEF TypeOK
    <2>2. Ends(Tail(inbox[j]), Listed(view[j], Head(inbox[j])), q) <=> Ends(inbox[j], view[j], q)
        BY <1>1, <1>2, <1>3, <1>4, HandleEnds
    <2>3. WillList(j, q)' <=> WillList(j, q)
        BY <2>1, <2>2 DEF WillList
    <2>4. WillList(j, q) <=> q \in Members(rooms, SessionOf[owner[j]])
        BY DEF RosterInv, RostersAgree
    <2> QED BY <1>1, <2>3, <2>4 DEF Members
<1>5. CASE j # k
    <2>1. inbox'[j] = inbox[j] /\ view'[j] = view[j]
        BY <1>1, <1>2, <1>3, <1>5 DEF TypeOK
    <2> QED BY <1>1, <2>1, RosterKept
<1> QED BY <1>4, <1>5

\* Steps that send nothing and leave the rooms alone.
LEMMA SilentRosters ==
    ASSUME RosterInv, UNCHANGED <<rooms, view>>, link' \subseteq link,
           \A j \in link' : /\ owner'[j] = owner[j] /\ inbox'[j] = inbox[j]
                            /\ sock'[j] = "open" => sock[j] = "open"
    PROVE  RostersAgree'
<1> SUFFICES ASSUME NEW j \in link', sock'[j] = "open", NEW q \in Peers \ {owner'[j]}
             PROVE  WillList(j, q)' <=> q \in Members(rooms', SessionOf[owner'[j]])
    BY DEF RostersAgree
<1>1. j \in link /\ sock[j] = "open" /\ q \in Peers \ {owner[j]}
    OBVIOUS
<1> QED BY <1>1, RosterKept

LEMMA NextRosters == RosterInv /\ [Next]_vars => RosterInv'
<1> SUFFICES ASSUME RosterInv, [Next]_vars PROVE RosterInv'
    OBVIOUS
<1>1. MembershipInv /\ MembershipInv'
    BY NextMembership DEF RosterInv
<1>2. TypeOK
    BY <1>1 DEF MembershipInv
<1>3. ASSUME NEW k \in Sockets, SocketEvent(k)
      PROVE  RostersAgree'
    <2>1. ASSUME NEW p \in Peers, ConnectRefused(k, p)
          PROVE  RostersAgree'
        <3>1. k \notin link \/ sock'[k] # "open"
            BY <1>2, <2>1 DEF ConnectRefused, Dials, TypeOK
        <3>2. \A j \in link' : sock'[j] = "open" => j # k /\ owner'[j] = owner[j] /\ sock[j] = "open"
            BY <1>2, <2>1 DEF ConnectRefused, Dials, TypeOK, clientVars
        <3>3. UNCHANGED <<rooms, view, link, inbox>>
            BY <2>1 DEF ConnectRefused, memoryVars, clientVars
        <3> SUFFICES ASSUME NEW j \in link, sock'[j] = "open", NEW q \in Peers \ {owner'[j]}
                     PROVE  WillList(j, q)' <=> q \in Members(rooms', SessionOf[owner'[j]])
            BY <3>3 DEF RostersAgree
        <3> QED BY <3>2, <3>3, RosterKept
    <2>2. ASSUME NEW p \in Peers, ConnectAccepted(k, p)
          PROVE  RostersAgree'
        BY <2>2, ConnectRosters
    <2>3. CASE Heartbeat(k)
        BY <2>3, SilentRosters DEF Heartbeat, clientVars
    <2>4. ASSUME NEW claimed \in Sessions, NEW q \in Peers, Relay(k, claimed, q)
          PROVE  RostersAgree'
        BY <2>4, RelayRosters
    <2>5. CASE StartsClosing(k)
        <3>1. \A j \in link : sock'[j] = "open" => sock[j] = "open"
            BY <1>2, <2>5 DEF StartsClosing, TypeOK
        <3> QED BY <2>5, <3>1, SilentRosters DEF StartsClosing, clientVars, memoryVars
    <2>6. CASE Errors(k)
        BY <2>6, CleanupRosters DEF Errors, Delivers
    <2>7. CASE Closes(k)
        BY <2>7, CleanupRosters DEF Closes, Delivers
    <2>8. CASE LinkDrops(k)
        <3>1. \A j \in link' : inbox'[j] = inbox[j]
            BY <1>2, <2>8 DEF LinkDrops, TypeOK
        <3> QED BY <2>8, <3>1, SilentRosters DEF LinkDrops, memoryVars
    <2>9. CASE OnMessage(k)
        BY <2>9, MessageRosters
    <2> QED BY <1>3, <2>1, <2>2, <2>3, <2>4, <2>5, <2>6, <2>7, <2>8, <2>9 DEF SocketEvent
<1>4. ASSUME NEW s \in Sessions, EndSession(s)
      PROVE  RostersAgree'
    BY <1>4, EndSessionRosters
<1>5. ASSUME NEW s \in Sessions, Expire(s) \/ Lookup(s) \/ ResetTelemetry(s)
      PROVE  RostersAgree'
    BY <1>5, SilentRosters DEF Expire, Lookup, ResetTelemetry, memoryVars, clientVars
<1>6. CASE Restart
    BY <1>1, <1>6 DEF Restart, RostersAgree, RosterInv
<1>7. CASE UNCHANGED vars
    BY <1>1, <1>7, SilentRosters DEF vars, RosterInv
<1> QED BY <1>1, <1>3, <1>4, <1>5, <1>6, <1>7 DEF Next, SessionEvent, RosterInv

\* Whatever reconnects, errors, closes and session ends interleave, the roster a
\* connected browser is told adds up to its room.
THEOREM RostersCorrect == Spec => []RostersAgree
<1>1. Init => RosterInv
    BY InitMembership DEF Init, RosterInv, RostersAgree
<1>2. RosterInv => RostersAgree
    BY DEF RosterInv
<1> QED BY <1>1, <1>2, NextRosters, PTL DEF Spec

-----------------------------------------------------------------------------
\* The peers the messages of a box are about.
About(box) == UNION {box[i].peers : i \in DOMAIN box}

IdleUnowned == \A k \in Sockets : sock[k] = "idle" => owner[k] = NoPeer

IsolationInv == MembershipInv /\ IdleUnowned /\ ClassIsolation

LEMMA AppendAbout ==
    ASSUME NEW box \in Seq(Message), NEW m \in Message
    PROVE  About(Append(box, m)) = About(box) \cup m.peers
<1>1. /\ Len(box) \in Nat /\ DOMAIN box = 1..Len(box) /\ DOMAIN Append(box, m) = 1..(Len(box) + 1)
      /\ Append(box, m)[Len(box) + 1] = m
      /\ \A i \in 1..Len(box) : Append(box, m)[i] = box[i]
    OBVIOUS
<1>2. ASSUME NEW p \in About(Append(box, m))
      PROVE  p \in About(box) \cup m.peers
    <2>1. PICK i \in DOMAIN Append(box, m) : p \in Append(box, m)[i].peers
        BY <1>2 DEF About
    <2>2. CASE i = Len(box) + 1
        BY <1>1, <2>1, <2>2
    <2>3. CASE i # Len(box) + 1
        <3>1. i \in DOMAIN box /\ p \in box[i].peers
            BY <1>1, <2>1, <2>3
        <3> QED BY <3>1 DEF About
    <2> QED BY <2>2, <2>3
<1>3. ASSUME NEW p \in About(box)
      PROVE  p \in About(Append(box, m))
    <2>1. PICK i \in DOMAIN box : p \in box[i].peers
        BY <1>3 DEF About
    <2>2. i \in DOMAIN Append(box, m) /\ p \in Append(box, m)[i].peers
        BY <1>1, <2>1
    <2> QED BY <2>2 DEF About
<1>4. ASSUME NEW p \in m.peers
      PROVE  p \in About(Append(box, m))
    <2>1. Len(box) + 1 \in DOMAIN Append(box, m) /\ p \in Append(box, m)[Len(box) + 1].peers
        BY <1>1, <1>4
    <2> QED BY <2>1 DEF About
<1> QED BY <1>2, <1>3, <1>4

LEMMA HandleAbout ==
    ASSUME NEW box \in Seq(Message), box # <<>>, NEW V
    PROVE  Listed(V, Head(box)) \cup About(Tail(box)) \subseteq V \cup About(box)
<1>1. /\ Len(box) \in Nat \ {0} /\ DOMAIN box = 1..Len(box) /\ DOMAIN Tail(box) = 1..(Len(box) - 1)
      /\ Head(box) = box[1] /\ \A i \in 1..(Len(box) - 1) : Tail(box)[i] = box[i + 1]
    OBVIOUS
<1>2. ASSUME NEW p \in About(Tail(box))
      PROVE  p \in About(box)
    <2>1. PICK i \in DOMAIN Tail(box) : p \in Tail(box)[i].peers
        BY <1>2 DEF About
    <2>2. i + 1 \in DOMAIN box /\ p \in box[i + 1].peers
        BY <1>1, <2>1
    <2> QED BY <2>2 DEF About
<1>3. Head(box).peers \subseteq About(box)
    <2>1. 1 \in DOMAIN box
        BY <1>1
    <2> QED BY <1>1, <2>1 DEF About
<1>4. Listed(V, Head(box)) \subseteq V \cup Head(box).peers
    BY DEF Listed
<1> QED BY <1>2, <1>3, <1>4

\* A message about peers of the class, sent to sockets of the class.
LEMMA SentAbout ==
    ASSUME NEW box \in [Sockets -> Seq(Message)], NEW K \in SUBSET Sockets, NEW m \in Message,
           NEW j \in Sockets
    PROVE  About(Sent(box, K, m)[j]) \subseteq About(box[j]) \cup m.peers
<1>1. CASE j \in K
    <2>1. Sent(box, K, m)[j] = Append(box[j], m) /\ box[j] \in Seq(Message)
        BY <1>1 DEF Sent
    <2>2. About(Append(box[j], m)) = About(box[j]) \cup m.peers
        BY <2>1, AppendAbout
    <2> QED BY <1>1, <2>1, <2>2
<1>2. CASE j \notin K
    BY <1>2 DEF Sent
<1> QED BY <1>1, <1>2

LEMMA Isolation0 ==
    ClassIsolation <=>
        /\ \A k \in Sockets : \A p \in view[k] \cup About(inbox[k]) :
               owner[k] # NoPeer /\ SessionOf[p] = SessionOf[owner[k]]
        /\ \A s \in Sessions : \A p \in reports[s] : SessionOf[p] = s
BY DEF ClassIsolation, About

\* What is new in a step must belong to the class; what was there stays so.
LEMMA IsolationKept ==
    ASSUME ClassIsolation,
           \A k \in Sockets : \A p \in view'[k] \cup About(inbox'[k]) :
               \/ p \in view[k] \cup About(inbox[k]) /\ owner'[k] = owner[k]
               \/ owner'[k] # NoPeer /\ SessionOf[p] = SessionOf[owner'[k]],
           \A s \in Sessions : \A p \in reports'[s] : p \in reports[s] \/ SessionOf[p] = s
    PROVE  ClassIsolation'
<1>1. /\ \A k \in Sockets : \A p \in view[k] \cup About(inbox[k]) :
             owner[k] # NoPeer /\ SessionOf[p] = SessionOf[owner[k]]
      /\ \A s \in Sessions : \A p \in reports[s] : SessionOf[p] = s
    BY Isolation0
<1>2. /\ \A k \in Sockets : \A p \in view'[k] \cup About(inbox'[k]) :
             owner'[k] # NoPeer /\ SessionOf[p] = SessionOf[owner'[k]]
      /\ \A s \in Sessions : \A p \in reports'[s] : SessionOf[p] = s
    BY <1>1
<1> QED BY <1>2 DEF ClassIsolation, About

LEMMA ConnectIsolation ==
    ASSUME IsolationInv, NEW k \in Sockets, NEW p \in Peers, ConnectAccepted(k, p)
    PROVE  ClassIsolation'
<1> DEFINE s == SessionOf[p]
           rms == [rooms EXCEPT ![s][p] = k]
           roster == Msg("roster", Members(rms, s) \ {p})
           joined == Msg("joined", {p})
           tld == Sent(inbox, {k}, roster)
           K == Listeners(rms, s) \ {k}
<1> USE SessionOfAssumption, NoSocketAssumption
<1>1. MembershipInv /\ TypeOK /\ ClassIsolation /\ s \in Sessions /\ sock[k] = "idle" /\ owner[k] = NoPeer
      /\ inbox \in [Sockets -> Seq(Message)]
    BY DEF IsolationInv, MembershipInv, IdleUnowned, TypeOK, ConnectAccepted, Dials
<1>2. /\ UNCHANGED <<view, reports>> /\ owner' = [owner EXCEPT ![k] = p]
      /\ inbox' = Sent(tld, K, joined)
    BY DEF ConnectAccepted, Dials
<1>3. /\ roster \in Message /\ roster.peers = Members(rms, s) \ {p}
      /\ joined \in Message /\ joined.peers = {p}
    BY MsgIs DEF Members
<1>4. \A q \in Members(rms, s) : SessionOf[q] = s
    <2> SUFFICES ASSUME NEW q \in Members(rms, s), q # p PROVE SessionOf[q] = s
        OBVIOUS
    <2>1. q \in Members(rooms, s)
        BY <1>1 DEF Members, TypeOK
    <2> QED BY <1>1, <2>1 DEF MembershipInv, NoGhostMembers
<1>5. \A j \in K : owner'[j] \in Peers /\ SessionOf[owner'[j]] = s
    <2> SUFFICES ASSUME NEW j \in K PROVE owner'[j] \in Peers /\ SessionOf[owner'[j]] = s
        OBVIOUS
    <2>1. PICK q \in Peers : j \in Sockets /\ j # k /\ rms[s][q] = j
        BY DEF Listeners
    <2>2. rooms[s][q] = j /\ q \in Members(rooms, s)
        BY <1>1, <2>1 DEF TypeOK, Members
    <2>3. owner[j] = q /\ SessionOf[q] = s
        BY <1>1, <2>2 DEF MembershipInv, NoGhostMembers
    <2> QED BY <1>1, <1>2, <2>1, <2>3 DEF TypeOK
<1>6. tld \in [Sockets -> Seq(Message)]
    <2>1. {k} \in SUBSET Sockets
        OBVIOUS
    <2> HIDE DEF roster
    <2>2. Sent(inbox, {k}, roster) \in [Sockets -> Seq(Message)]
        BY <1>1, <1>3, <2>1, SentIs
    <2> QED BY <2>2
<1>7. \A j \in Sockets : /\ About(tld[j]) \subseteq About(inbox[j]) \cup roster.peers
                         /\ j # k => tld[j] = inbox[j]
    <2> SUFFICES ASSUME NEW j \in Sockets
                 PROVE  /\ About(tld[j]) \subseteq About(inbox[j]) \cup roster.peers
                        /\ j # k => tld[j] = inbox[j]
        OBVIOUS
    <2>1. {k} \in SUBSET Sockets
        OBVIOUS
    <2>2. j # k => tld[j] = inbox[j]
        BY DEF Sent
    <2> HIDE DEF roster
    <2>3. About(Sent(inbox, {k}, roster)[j]) \subseteq About(inbox[j]) \cup roster.peers
        BY <1>1, <1>3, <2>1, SentAbout
    <2> QED BY <2>2, <2>3
<1>8. \A j \in Sockets : /\ About(inbox'[j]) \subseteq About(tld[j]) \cup joined.peers
                         /\ j \notin K => inbox'[j] = tld[j]
    <2> SUFFICES ASSUME NEW j \in Sockets
                 PROVE  /\ About(inbox'[j]) \subseteq About(tld[j]) \cup joined.peers
                        /\ j \notin K => inbox'[j] = tld[j]
        OBVIOUS
    <2>1. K \in SUBSET Sockets
        BY DEF Listeners
    <2> HIDE DEF tld, K, joined
    <2>2. About(Sent(tld, K, joined)[j]) \subseteq About(tld[j]) \cup joined.peers
        BY <1>3, <1>6, <2>1, SentAbout
    <2>3. j \notin K => Sent(tld, K, joined)[j] = tld[j]
        BY DEF Sent
    <2> QED BY <1>2, <2>2, <2>3
<1>9. ASSUME NEW j \in Sockets, NEW q \in view'[j] \cup About(inbox'[j])
      PROVE  \/ q \in view[j] \cup About(inbox[j]) /\ owner'[j] = owner[j]
             \/ owner'[j] # NoPeer /\ SessionOf[q] = SessionOf[owner'[j]]
    <2>1. CASE j = k
        <3>1. owner'[k] = p /\ p # NoPeer
            BY <1>1, <1>2 DEF TypeOK
        <3>2. view[k] = {} /\ About(inbox[k]) = {}
            BY <1>1, Isolation0
        <3>3. q \in Members(rms, s)
            <4>1. inbox'[k] = tld[k] /\ About(tld[k]) \subseteq roster.peers
                BY <1>7, <1>8, <3>2
            <4> QED BY <1>2, <1>3, <1>9, <2>1, <3>2, <4>1
        <3> QED BY <1>4, <2>1, <3>1, <3>3
    <2>2. CASE j \in K
        <3>1. j # k /\ owner'[j] = owner[j]
            BY <1>1, <1>2, <2>2 DEF TypeOK
        <3>2. q \in view[j] \cup About(inbox[j]) \/ q = p
            BY <1>2, <1>3, <1>7, <1>8, <1>9, <2>2, <3>1
        <3> QED BY <1>5, <2>2, <3>1, <3>2
    <2>3. CASE j # k /\ j \notin K
        BY <1>1, <1>2, <1>7, <1>8, <1>9, <2>3 DEF TypeOK
    <2> QED BY <2>1, <2>2, <2>3
<1> HIDE DEF s, K, tld, rms, roster, joined
<1> QED BY <1>1, <1>2, <1>9, IsolationKept

LEMMA CleanupIsolation ==
    ASSUME IsolationInv, NEW k \in Sockets, owner[k] \in Peers, Cleanup(k),
           UNCHANGED <<owner, clientVars>>
    PROVE  ClassIsolation'
<1> DEFINE p == owner[k]
           s == SessionOf[p]
           rms == [rooms EXCEPT ![s][p] = NoSocket]
           left == Msg("left", {p})
           K == Listeners(rms, s)
<1> USE SessionOfAssumption, NoSocketAssumption
<1>1. MembershipInv /\ TypeOK /\ ClassIsolation /\ s \in Sessions /\ inbox \in [Sockets -> Seq(Message)]
    BY DEF IsolationInv, MembershipInv, TypeOK
<1>2. UNCHANGED <<owner, link, view>>
    BY DEF clientVars
<1>3. CASE rooms[s][p] = k
    <2>1. inbox' = Sent(inbox, K, left) /\ reports' = [reports EXCEPT ![s] = @ \ {p}]
        BY <1>3 DEF Cleanup
    <2>2. left \in Message /\ left.peers = {p} /\ K \in SUBSET Sockets
        BY MsgIs DEF Listeners
    <2>3. \A j \in K : owner[j] \in Peers /\ SessionOf[owner[j]] = s
        <3> SUFFICES ASSUME NEW j \in K PROVE owner[j] \in Peers /\ SessionOf[owner[j]] = s
            OBVIOUS
        <3>1. PICK q \in Peers : j \in Sockets /\ rms[s][q] = j
            BY DEF Listeners
        <3>2. rooms[s][q] = j /\ q \in Members(rooms, s)
            BY <1>1, <3>1 DEF TypeOK, Members
        <3> QED BY <1>1, <3>2 DEF MembershipInv, NoGhostMembers
    <2>4. ASSUME NEW j \in Sockets, NEW q \in view'[j] \cup About(inbox'[j])
          PROVE  \/ q \in view[j] \cup About(inbox[j]) /\ owner'[j] = owner[j]
                 \/ owner'[j] # NoPeer /\ SessionOf[q] = SessionOf[owner'[j]]
        <3>1. /\ About(inbox'[j]) \subseteq About(inbox[j]) \cup left.peers
              /\ j \notin K => inbox'[j] = inbox[j]
            <4> HIDE DEF K, left
            <4>1. About(Sent(inbox, K, left)[j]) \subseteq About(inbox[j]) \cup left.peers
                BY <1>1, <2>2, SentAbout
            <4>2. j \notin K => Sent(inbox, K, left)[j] = inbox[j]
                BY DEF Sent
            <4> QED BY <2>1, <4>1, <4>2
        <3>2. q \in view[j] \cup About(inbox[j]) \/ (j \in K /\ q = p)
            BY <1>2, <2>2, <2>4, <3>1
        <3> QED BY <1>2, <2>3, <3>2
    <2>5. \A t \in Sessions : reports'[t] \subseteq reports[t]
        BY <1>1, <2>1 DEF TypeOK
    <2> HIDE DEF K, left, rms
    <2> QED BY <1>1, <2>4, <2>5, IsolationKept
<1>4. CASE rooms[s][p] # k
    <2>1. UNCHANGED <<memoryVars, inbox>>
        BY <1>4 DEF Cleanup
    <2> QED BY <1>1, <1>2, <2>1, IsolationKept DEF memoryVars
<1> QED BY <1>3, <1>4

LEMMA EndSessionIsolation ==
    ASSUME IsolationInv, NEW s \in Sessions, EndSession(s)
    PROVE  ClassIsolation'
<1> DEFINE K == {k \in {rooms[s][p] : p \in Members(rooms, s)} : sock[k] = "open"}
           m == Msg("ended", {})
<1>1. TypeOK /\ ClassIsolation /\ inbox \in [Sockets -> Seq(Message)]
    BY DEF IsolationInv, MembershipInv, TypeOK
<1>2. /\ UNCHANGED <<owner, view>> /\ inbox' = Sent(inbox, K, m)
      /\ reports' = [reports EXCEPT ![s] = {}]
    BY DEF EndSession, clientVars
<1>3. m \in Message /\ m.peers = {} /\ K \in SUBSET Sockets
    BY <1>1, MsgIs, NoSocketAssumption DEF TypeOK, Members
<1>4. ASSUME NEW j \in Sockets
      PROVE  About(inbox'[j]) \subseteq About(inbox[j])
    <2> HIDE DEF K, m
    <2>1. About(Sent(inbox, K, m)[j]) \subseteq About(inbox[j]) \cup m.peers
        BY <1>1, <1>3, SentAbout
    <2> QED BY <1>2, <1>3, <2>1
<1>5. \A t \in Sessions : reports'[t] \subseteq reports[t]
    BY <1>1, <1>2 DEF TypeOK
<1> HIDE DEF K, m
<1> QED BY <1>1, <1>2, <1>4, <1>5, IsolationKept

LEMMA SocketIsolation ==
    ASSUME IsolationInv, NEW k \in Sockets, SocketEvent(k)
    PROVE  ClassIsolation'
<1> USE SessionOfAssumption, NoSocketAssumption
<1>1. MembershipInv /\ TypeOK /\ ClassIsolation /\ inbox \in [Sockets -> Seq(Message)]
    BY DEF IsolationInv, MembershipInv, TypeOK
<1>2. Delivers(k) \/ sock[k] = "failed" => owner[k] \in Peers
    BY <1>1 DEF Delivers, MembershipInv, OwnersKnown
<1>3. ASSUME NEW p \in Peers, ConnectRefused(k, p)
      PROVE  ClassIsolation'
    <2>1. owner[k] = NoPeer
        BY <1>3 DEF ConnectRefused, Dials, IsolationInv, IdleUnowned
    <2>2. view[k] = {} /\ About(inbox[k]) = {}
        BY <1>1, <2>1, Isolation0
    <2>3. UNCHANGED <<view, inbox, reports>> /\ owner' = [owner EXCEPT ![k] = p]
        BY <1>3 DEF ConnectRefused, Dials, memoryVars, clientVars
    <2>4. \A j \in Sockets : j # k => owner'[j] = owner[j]
        BY <1>1, <2>3 DEF TypeOK
    <2> QED BY <1>1, <2>2, <2>3, <2>4, IsolationKept
<1>4. ASSUME NEW p \in Peers, ConnectAccepted(k, p)
      PROVE  ClassIsolation'
    BY <1>4, ConnectIsolation
<1>5. CASE Heartbeat(k)
    <2>1. UNCHANGED <<owner, view, inbox>>
          /\ reports' = [reports EXCEPT ![SessionOf[owner[k]]] = @ \cup {owner[k]}]
        BY <1>5 DEF Heartbeat, clientVars
    <2>2. \A s \in Sessions : \A p \in reports'[s] : p \in reports[s] \/ SessionOf[p] = s
        BY <1>1, <1>2, <1>5, <2>1 DEF Heartbeat, TypeOK
    <2> QED BY <1>1, <2>1, <2>2, IsolationKept
<1>6. ASSUME NEW claimed \in Sessions, NEW q \in Peers, Relay(k, claimed, q)
      PROVE  ClassIsolation'
    <2> DEFINE dst == rooms[Stamp(k, claimed)][q]
               sig == Msg("signal", {owner[k]})
    <2>1. owner[k] \in Peers /\ Stamp(k, claimed) = SessionOf[owner[k]]
        BY <1>2, <1>6 DEF Relay, Stamp
    <2>2. dst \in Sockets /\ q \in Members(rooms, SessionOf[owner[k]])
        BY <1>1, <1>6, <2>1 DEF Relay, TypeOK, Members
    <2>3. owner[dst] = q /\ SessionOf[q] = SessionOf[owner[k]]
        BY <1>1, <2>1, <2>2 DEF MembershipInv, NoGhostMembers
    <2>4. sig \in Message /\ sig.peers = {owner[k]}
        BY <2>1, MsgIs
    <2>5. inbox' = [inbox EXCEPT ![dst] = Append(@, sig)] /\ UNCHANGED <<owner, view, reports>>
        BY <1>6 DEF Relay, memoryVars, clientVars
    <2> HIDE DEF dst, sig
    <2>6. inbox'[dst] = Append(inbox[dst], sig) /\ \A j \in Sockets : j # dst => inbox'[j] = inbox[j]
        BY <1>1, <2>2, <2>5
    <2>7. About(inbox'[dst]) = About(inbox[dst]) \cup {owner[k]}
        BY <1>1, <2>2, <2>4, <2>6, AppendAbout
    <2> QED BY <1>1, <2>3, <2>2, <2>5, <2>6, <2>7, IsolationKept DEF Members
<1>7. CASE StartsClosing(k)
    BY <1>1, <1>7, IsolationKept DEF StartsClosing, memoryVars, clientVars
<1>8. CASE Errors(k)
    BY <1>2, <1>8, CleanupIsolation DEF Errors
<1>9. CASE Closes(k)
    BY <1>2, <1>9, CleanupIsolation DEF Closes
<1>10. CASE LinkDrops(k)
    <2>1. \A j \in Sockets : About(inbox'[j]) \subseteq About(inbox[j])
        BY <1>1, <1>10 DEF LinkDrops, About
    <2> QED BY <1>1, <1>10, <2>1, IsolationKept DEF LinkDrops, memoryVars
<1>11. CASE OnMessage(k)
    <2>1. Listed(view[k], Head(inbox[k])) \cup About(Tail(inbox[k])) \subseteq view[k] \cup About(inbox[k])
        BY <1>1, <1>11, HandleAbout DEF OnMessage
    <2>2. /\ view'[k] = Listed(view[k], Head(inbox[k])) /\ inbox'[k] = Tail(inbox[k])
          /\ \A j \in Sockets : j # k => view'[j] = view[j] /\ inbox'[j] = inbox[j]
        BY <1>1, <1>11 DEF OnMessage, TypeOK
    <2> QED BY <1>1, <1>11, <2>1, <2>2, IsolationKept DEF OnMessage, memoryVars
<1> QED BY <1>3, <1>4, <1>5, <1>6, <1>7, <1>8, <1>9, <1>10, <1>11 DEF SocketEvent

LEMMA NextIdle == MembershipInv /\ IdleUnowned /\ [Next]_vars => IdleUnowned'
<1> SUFFICES ASSUME MembershipInv, IdleUnowned, [Next]_vars PROVE IdleUnowned'
    OBVIOUS
<1>1. TypeOK /\ IdleUnowned
    BY DEF MembershipInv
<1> SUFFICES ASSUME NEW j \in Sockets, sock'[j] = "idle" PROVE sock[j] = "idle" /\ owner'[j] = owner[j]
    BY <1>1 DEF IdleUnowned
<1>2. ASSUME NEW k \in Sockets, SocketEvent(k)
      PROVE  sock[j] = "idle" /\ owner'[j] = owner[j]
    BY <1>1, <1>2 DEF SocketEvent, ConnectRefused, ConnectAccepted, Dials, Heartbeat, Relay,
       StartsClosing, Errors, Closes, LinkDrops, OnMessage, TypeOK
<1>3. ASSUME NEW s \in Sessions, SessionEvent(s)
      PROVE  sock[j] = "idle" /\ owner'[j] = owner[j]
    BY <1>1, <1>3 DEF SessionEvent, EndSession, Expire, Lookup, ResetTelemetry, TypeOK
<1>4. CASE Restart
    BY <1>1, <1>4 DEF Restart, TypeOK
<1>5. CASE UNCHANGED vars
    BY <1>5 DEF vars
<1> QED BY <1>2, <1>3, <1>4, <1>5 DEF Next

LEMMA NextIsolation == IsolationInv /\ [Next]_vars => IsolationInv'
<1> SUFFICES ASSUME IsolationInv, [Next]_vars PROVE IsolationInv'
    OBVIOUS
<1>1. MembershipInv' /\ IdleUnowned'
    BY NextMembership, NextIdle DEF IsolationInv
<1>2. ClassIsolation /\ TypeOK
    BY DEF IsolationInv, MembershipInv
<1>3. ASSUME NEW k \in Sockets, SocketEvent(k)
      PROVE  ClassIsolation'
    BY <1>3, SocketIsolation
<1>4. ASSUME NEW s \in Sessions, EndSession(s)
      PROVE  ClassIsolation'
    BY <1>4, EndSessionIsolation
<1>5. ASSUME NEW s \in Sessions, Expire(s) \/ Lookup(s)
      PROVE  ClassIsolation'
    BY <1>2, <1>5, IsolationKept DEF Expire, Lookup, memoryVars, clientVars
<1>6. ASSUME NEW s \in Sessions, ResetTelemetry(s)
      PROVE  ClassIsolation'
    <2>1. \A t \in Sessions : reports'[t] \subseteq reports[t]
        BY <1>2, <1>6 DEF ResetTelemetry, TypeOK
    <2> QED BY <1>2, <1>6, <2>1, IsolationKept DEF ResetTelemetry, clientVars
<1>7. ASSUME Restart
      PROVE  ClassIsolation'
    <2>1. \A j \in Sockets : About(inbox'[j]) = {}
        BY <1>7 DEF Restart, About
    <2>2. \A t \in Sessions : reports'[t] = {}
        BY <1>7 DEF Restart
    <2> QED BY <1>2, <1>7, <2>1, <2>2, IsolationKept DEF Restart
<1>8. ASSUME UNCHANGED vars
      PROVE  ClassIsolation'
    BY <1>2, <1>8, IsolationKept DEF vars
<1> QED BY <1>1, <1>3, <1>4, <1>5, <1>6, <1>7, <1>8 DEF Next, SessionEvent, IsolationInv

\* Nothing about a peer of one session ever reaches a browser of another, or its
\* telemetry.
THEOREM ClassesIsolated == Spec => []ClassIsolation
<1>1. Init => IsolationInv
    BY InitMembership DEF Init, IsolationInv, IdleUnowned, ClassIsolation
<1>2. IsolationInv => ClassIsolation
    BY DEF IsolationInv
<1> QED BY <1>1, <1>2, NextIsolation, PTL DEF Spec

-----------------------------------------------------------------------------
(***************************************************************************)
(* Telemetry reports go with the membership, in one step, and come back    *)
(* with late heartbeats only.                                              *)
(***************************************************************************)
Clears ==
    \A s \in Sessions : \A p \in Members(rooms, s) : rooms'[s][p] = NoSocket => p \notin reports'[s]

LEMMA CleanupClears ==
    ASSUME TypeOK, NEW k \in Sockets, owner[k] \in Peers, Cleanup(k)
    PROVE  Clears
<1> SUFFICES ASSUME NEW s \in Sessions, NEW p \in Members(rooms, s), rooms'[s][p] = NoSocket
             PROVE  p \notin reports'[s]
  BY DEF Clears
<1> USE SessionOfAssumption
<1>1. p \in Peers /\ rooms[s][p] # NoSocket
  BY DEF Members
<1>2. rooms' # rooms
  BY <1>1
<1>3. /\ rooms' = [rooms EXCEPT ![SessionOf[owner[k]]][owner[k]] = NoSocket]
      /\ reports' = [reports EXCEPT ![SessionOf[owner[k]]] = @ \ {owner[k]}]
  BY <1>2 DEF Cleanup, memoryVars
<1>4. s = SessionOf[owner[k]] /\ p = owner[k]
  BY <1>1, <1>3 DEF TypeOK
<1> QED
  BY <1>3, <1>4 DEF TypeOK

LEMMA StepClears == TypeOK /\ OwnersKnown /\ [Next]_vars => Clears
<1> SUFFICES ASSUME TypeOK, OwnersKnown, [Next]_vars PROVE Clears
  OBVIOUS
<1>1. rooms' = rooms => Clears
  BY DEF Clears, Members
<1>2. ASSUME NEW k \in Sockets, SocketEvent(k) PROVE Clears
  <2>1. Delivers(k) \/ sock[k] = "failed" => owner[k] \in Peers
    BY DEF Delivers, OwnersKnown
  <2>2. CASE Errors(k) \/ Closes(k)
    BY <2>1, <2>2, CleanupClears DEF Errors, Closes
  <2>3. ASSUME NEW p \in Peers, ConnectAccepted(k, p) PROVE Clears
    <3>1. rooms' = [rooms EXCEPT ![SessionOf[p]][p] = k]
      BY <2>3 DEF ConnectAccepted
    <3> QED
      BY <3>1, SessionOfAssumption, NoSocketAssumption DEF Clears, Members, TypeOK
  <2> QED
    BY <1>1, <1>2, <2>2, <2>3
    DEF SocketEvent, ConnectRefused, Heartbeat, Relay, StartsClosing, LinkDrops, OnMessage, memoryVars
<1>3. ASSUME NEW s \in Sessions, EndSession(s) PROVE Clears
  BY <1>3 DEF EndSession, Clears, Members, TypeOK
<1>4. ASSUME NEW s \in Sessions, Expire(s) \/ Lookup(s) \/ ResetTelemetry(s) PROVE Clears
  BY <1>1, <1>4 DEF Expire, Lookup, ResetTelemetry, memoryVars
<1>5. CASE Restart
  BY <1>5 DEF Restart, Clears, Members
<1>6. CASE UNCHANGED vars
  BY <1>1, <1>6 DEF vars
<1> QED
  BY <1>2, <1>3, <1>4, <1>5, <1>6 DEF Next, SessionEvent

(* A connection that still delivers belongs to a member of its room, or to   *)
(* one that has another connection, or to a class that is over.              *)
DeliveringExplained ==
    \A k \in Sockets : Delivers(k) =>
        \/ SessionOf[owner[k]] \in ended
        \/ owner[k] \in Members(rooms, SessionOf[owner[k]])
        \/ Reconnected(k)

LateInv == MembershipInv /\ IdleUnowned /\ DeliveringExplained

LEMMA SocketExplained ==
    ASSUME LateInv, NEW i \in Sockets, SocketEvent(i)
    PROVE  DeliveringExplained'
<1> USE SessionOfAssumption, NoSocketAssumption
<1>1. MembershipInv /\ TypeOK /\ IdleUnowned
  BY DEF LateInv, MembershipInv
<1>2. SUFFICES ASSUME NEW k \in Sockets, Delivers(k)'
               PROVE  \/ SessionOf[owner'[k]] \in ended'
                      \/ owner'[k] \in Members(rooms', SessionOf[owner'[k]])
                      \/ Reconnected(k)'
  BY DEF DeliveringExplained
<1>3. ASSUME Delivers(k), owner' = owner, rooms' = rooms, ended' = ended
      PROVE  \/ SessionOf[owner'[k]] \in ended'
             \/ owner'[k] \in Members(rooms', SessionOf[owner'[k]])
             \/ Reconnected(k)'
  BY <1>3 DEF LateInv, DeliveringExplained, Reconnected
<1>4. Delivers(k) => owner[k] \in Peers /\ owner[k] # NoPeer
  BY <1>1 DEF Delivers, MembershipInv, OwnersKnown
<1>5. ASSUME NEW p \in Peers, ConnectRefused(i, p) \/ ConnectAccepted(i, p)
      PROVE  \/ SessionOf[owner'[k]] \in ended'
             \/ owner'[k] \in Members(rooms', SessionOf[owner'[k]])
             \/ Reconnected(k)'
  <2>1. sock[i] = "idle" /\ owner' = [owner EXCEPT ![i] = p] /\ ended' = ended
    BY <1>5 DEF ConnectRefused, ConnectAccepted, Dials, dbVars
  <2>2. owner[i] = NoPeer
    BY <1>1, <2>1 DEF IdleUnowned
  <2>3. CASE k = i
    <3>1. ConnectAccepted(i, p)
      BY <1>1, <1>2, <1>5, <2>3 DEF ConnectRefused, Delivers, TypeOK
    <3>2. rooms' = [rooms EXCEPT ![SessionOf[p]][p] = i] /\ owner'[k] = p
      BY <1>1, <2>1, <2>3, <3>1 DEF ConnectAccepted, TypeOK
    <3> QED
      BY <1>1, <3>2 DEF Members, TypeOK
  <2>4. CASE k # i
    <3>1. Delivers(k) /\ owner'[k] = owner[k]
      BY <1>1, <1>2, <1>5, <2>1, <2>4 DEF ConnectRefused, ConnectAccepted, Delivers, TypeOK
    <3>2. \A s \in Sessions : Members(rooms, s) \subseteq Members(rooms', s)
      <4>1. CASE ConnectRefused(i, p)
        BY <4>1 DEF ConnectRefused, memoryVars
      <4>2. CASE ConnectAccepted(i, p)
        BY <1>1, <4>2 DEF ConnectAccepted, Members, TypeOK
      <4> QED
        BY <1>5, <4>1, <4>2
    <3>3. Reconnected(k) => Reconnected(k)'
      BY <1>1, <1>4, <2>1, <2>2, <3>1 DEF Reconnected, TypeOK
    <3> QED
      BY <1>4, <2>1, <3>1, <3>2, <3>3 DEF LateInv, DeliveringExplained
  <2> QED
    BY <2>3, <2>4
<1>6. ASSUME Errors(i) \/ Closes(i)
      PROVE  \/ SessionOf[owner'[k]] \in ended'
             \/ owner'[k] \in Members(rooms', SessionOf[owner'[k]])
             \/ Reconnected(k)'
  <2>1. /\ Cleanup(i) /\ owner' = owner /\ ended' = ended
        /\ sock' = [sock EXCEPT ![i] = "failed"] \/ sock' = [sock EXCEPT ![i] = "closed"]
        /\ owner[i] \in Peers
    BY <1>1, <1>6 DEF Errors, Closes, Delivers, MembershipInv, OwnersKnown, dbVars
  <2>2. \A t \in Sessions, q \in Peers :
            rooms'[t][q] = IF rooms[t][q] = i THEN NoSocket ELSE rooms[t][q]
    BY <1>1, <2>1, CleanupIs
  <2>3. k # i /\ Delivers(k)
    BY <1>1, <1>2, <2>1 DEF Delivers, TypeOK
  <2>4. \A t \in Sessions, q \in Peers : rooms[t][q] = i => owner[i] = q
    BY <1>1 DEF MembershipInv, NoGhostMembers, Members
  <2>5. ASSUME owner[k] \in Members(rooms, SessionOf[owner[k]])
        PROVE  owner[k] \in Members(rooms', SessionOf[owner[k]]) \/ Reconnected(k)
    BY <1>4, <2>2, <2>3, <2>4, <2>5 DEF Members, Reconnected
  <2> QED
    BY <2>1, <2>3, <2>5 DEF LateInv, DeliveringExplained, Reconnected
<1>7. CASE StartsClosing(i)
  BY <1>1, <1>2, <1>3, <1>7 DEF StartsClosing, Delivers, TypeOK, dbVars, memoryVars
<1>8. CASE Heartbeat(i) \/ LinkDrops(i) \/ OnMessage(i)
  BY <1>2, <1>3, <1>8 DEF Heartbeat, LinkDrops, OnMessage, Delivers, dbVars, memoryVars
<1>9. ASSUME NEW claimed \in Sessions, NEW q \in Peers, Relay(i, claimed, q)
      PROVE  \/ SessionOf[owner'[k]] \in ended'
             \/ owner'[k] \in Members(rooms', SessionOf[owner'[k]])
             \/ Reconnected(k)'
  BY <1>2, <1>3, <1>9 DEF Relay, Delivers, dbVars, memoryVars
<1> QED
  BY <1>5, <1>6, <1>7, <1>8, <1>9 DEF SocketEvent

LEMMA NextLate == LateInv /\ [Next]_vars => LateInv'
<1> SUFFICES ASSUME LateInv, [Next]_vars PROVE DeliveringExplained' /\ IdleUnowned'
  BY NextMembership DEF LateInv
<1>1. TypeOK /\ DeliveringExplained /\ IdleUnowned /\ MembershipInv
  BY DEF LateInv, MembershipInv
<1>2. IdleUnowned'
  BY <1>1, NextIdle
<1>3. ASSUME NEW i \in Sockets, SocketEvent(i)
      PROVE  DeliveringExplained'
  BY <1>3, SocketExplained
<1>4. ASSUME NEW s \in Sessions, EndSession(s)
      PROVE  DeliveringExplained'
  <2>1. /\ owner' = owner /\ ended' = ended \cup {s}
        /\ \A k \in Sockets : Delivers(k)' => Delivers(k)
        /\ \A t \in Sessions \ {s} : Members(rooms', t) = Members(rooms, t)
    BY <1>1, <1>4 DEF EndSession, Delivers, Members, TypeOK
  <2>2. \A k \in Sockets : Delivers(k) => SessionOf[owner[k]] \in Sessions
    BY <1>1, SessionOfAssumption DEF Delivers, MembershipInv, OwnersKnown
  <2> QED
    BY <1>1, <2>1, <2>2 DEF DeliveringExplained, Reconnected
<1>5. ASSUME NEW s \in Sessions, Expire(s) \/ Lookup(s) \/ ResetTelemetry(s)
      PROVE  DeliveringExplained'
  BY <1>1, <1>5 DEF Expire, Lookup, ResetTelemetry, DeliveringExplained, Delivers, Reconnected,
     memoryVars, dbVars
<1>6. ASSUME Restart PROVE DeliveringExplained'
  BY <1>6 DEF Restart, DeliveringExplained, Delivers
<1>7. ASSUME UNCHANGED vars PROVE DeliveringExplained'
  BY <1>1, <1>7 DEF vars, DeliveringExplained, Delivers, Reconnected
<1> QED
  BY <1>2, <1>3, <1>4, <1>5, <1>6, <1>7 DEF Next, SessionEvent

(* What a step makes of the reports of those who are not in the room.        *)
Late ==
    \A s \in Sessions : \A p \in reports'[s] \ Members(rooms', s) :
        /\ p \notin Members(rooms, s)
        /\ \/ p \in reports[s]
           \/ s \in ended
           \/ \E k \in Sockets : owner[k] = p /\ Delivers(k) /\ Reconnected(k)

LEMMA StepLate == LateInv /\ [Next]_vars => Late
<1> SUFFICES ASSUME LateInv, [Next]_vars,
                    NEW s \in Sessions, NEW p \in reports'[s] \ Members(rooms', s)
             PROVE  /\ p \notin Members(rooms, s)
                    /\ \/ p \in reports[s]
                       \/ s \in ended
                       \/ \E k \in Sockets : owner[k] = p /\ Delivers(k) /\ Reconnected(k)
  BY DEF Late
<1> USE SessionOfAssumption, NoSocketAssumption
<1>1. TypeOK /\ OwnersKnown /\ MembershipInv
  BY DEF LateInv, MembershipInv
<1>2. p \notin Members(rooms, s)
  BY <1>1, StepClears DEF Clears, Members
<1>3. SUFFICES ASSUME p \notin reports[s], s \notin ended
               PROVE  \E k \in Sockets : owner[k] = p /\ Delivers(k) /\ Reconnected(k)
  BY <1>2
<1>4. PICK k \in Sockets : Heartbeat(k)
  <2>1. ASSUME NEW i \in Sockets, SocketEvent(i) PROVE Heartbeat(i)
    <3>1. reports' # reports
      BY <1>3
    <3>2. CASE Errors(i) \/ Closes(i)
      <4>1. Cleanup(i)
        BY <3>2 DEF Errors, Closes
      <4>2. \A t \in Sessions : reports'[t] \subseteq reports[t]
        <5>1. \/ UNCHANGED reports
              \/ reports' = [reports EXCEPT ![SessionOf[owner[i]]] = @ \ {owner[i]}]
          BY <4>1 DEF Cleanup, memoryVars
        <5> QED
          BY <1>1, <5>1 DEF TypeOK
      <4> QED
        BY <1>3, <4>2
    <3> QED
      BY <2>1, <3>1, <3>2
      DEF SocketEvent, ConnectRefused, ConnectAccepted, Relay, StartsClosing, LinkDrops, OnMessage,
          memoryVars
  <2>2. ASSUME NEW t \in Sessions, EndSession(t) \/ ResetTelemetry(t) PROVE FALSE
    BY <1>1, <1>3, <2>2 DEF EndSession, ResetTelemetry, TypeOK
  <2>3. ASSUME NEW t \in Sessions, Expire(t) \/ Lookup(t) PROVE FALSE
    BY <1>3, <2>3 DEF Expire, Lookup, memoryVars
  <2>4. CASE Restart
    BY <2>4 DEF Restart
  <2>5. CASE UNCHANGED vars
    BY <1>3, <2>5 DEF vars
  <2> QED
    BY <2>1, <2>2, <2>3, <2>4, <2>5 DEF Next, SessionEvent
<1>5. Delivers(k) /\ owner[k] \in Peers /\ rooms' = rooms
  BY <1>1, <1>4 DEF Heartbeat, Delivers, OwnersKnown
<1>6. owner[k] = p /\ SessionOf[p] = s
  <2>1. reports' = [reports EXCEPT ![SessionOf[owner[k]]] = @ \cup {owner[k]}]
    BY <1>4 DEF Heartbeat
  <2> QED
    BY <1>1, <1>3, <1>5, <2>1 DEF TypeOK
<1> QED
  BY <1>2, <1>3, <1>5, <1>6 DEF LateInv, DeliveringExplained

\* Whatever makes a peer leave the room (close, error, the end of the class, a restart) takes its
\* telemetry report along in the same step (removePeer, cleanup), and as long as the class is not
\* over only a heartbeat on a connection it had replaced can bring the report back.
THEOREM AbsentReportsAreLate == Spec => AbsentCountedOnlyIfLate
<1>1. Init => LateInv
  BY InitMembership DEF Init, LateInv, IdleUnowned, DeliveringExplained, Delivers
<1>2. LateInv /\ [Next]_vars => [Late]_vars
  BY StepLate
<1> QED
  BY <1>1, <1>2, NextLate, PTL DEF Spec, AbsentCountedOnlyIfLate, Late
=============================================================================
