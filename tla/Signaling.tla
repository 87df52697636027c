------------------------------- MODULE Signaling -------------------------------
(***************************************************************************)
(* The signaling server (apps/server/src/signaling): class rooms, the      *)
(* WebSocket connections of their members, the relayed WebRTC handshakes   *)
(* and the telemetry reports, with the session operations that reach into  *)
(* them (sessions/session.service.ts) and the roster each browser builds   *)
(* from what it is told (apps/web/src/hooks/useSignaling.ts).              *)
(*                                                                         *)
(* Every handler of the server is synchronous: one action is one event on  *)
(* a socket or one HTTP request.  A socket is used for one connection.     *)
(* The server's view of it (sock) and the browser's (link) differ: a       *)
(* browser that lost its connection opens a new one while the server still *)
(* holds the old, and what it sent on the old may still be in the server's *)
(* buffers.  Messages to a browser travel in order (inbox).                *)
(*                                                                         *)
(* Abstractions.  A token is the peer it names, bound to its session by    *)
(* SessionOf; a report is the peer it is about.  SWARM_METRICS_UPDATE      *)
(* carries only what rooms and reports hold, and touches no roster: it is  *)
(* left out.  SDP and ICE payloads are one kind of message, "signal".      *)
(***************************************************************************)
EXTENDS Integers, Sequences

CONSTANTS
    Sessions,    \* class sessions
    Peers,       \* peer ids, the instructors' included
    SessionOf,   \* the session each peer's token is bound to
    Sockets,     \* WebSocket connections
    NoSocket,    \* stands for "not in the room"
    NoPeer,      \* the owner of a socket not used yet
    MaxInbox     \* bound: messages on their way to a browser when one more is relayed

ASSUME SessionOfAssumption == SessionOf \in [Peers -> Sessions]
ASSUME NoSocketAssumption == NoSocket \notin Sockets /\ NoPeer \notin Peers
ASSUME MaxInboxAssumption == MaxInbox \in Nat

VARIABLES
    active,   \* sessions whose is_active is 1 in the database
    overdue,  \* sessions past their expires_at
    ended,    \* sessions the instructor has ended
    sock,     \* the server's view of each socket
    owner,    \* the peer of the token each socket was opened with
    link,     \* sockets whose browser still holds them
    rooms,    \* socket registered for each peer, per session
    reports,  \* peers with a telemetry report, per session
    inbox,    \* messages on their way to the browser of each socket
    view      \* peers listed by the browser of each socket

vars == <<active, overdue, ended, sock, owner, link, rooms, reports, inbox, view>>

dbVars     == <<active, overdue, ended>>
memoryVars == <<rooms, reports>>
clientVars == <<link, view>>

Message == [type : {"roster", "joined", "left", "ended", "signal"}, peers : SUBSET Peers]

Msg(type, S) == [type |-> type, peers |-> S]

TypeOK ==
    /\ active \subseteq Sessions
    /\ overdue \subseteq Sessions
    /\ ended \subseteq Sessions
    /\ sock \in [Sockets -> {"idle", "open", "closing", "failed", "closed"}]
    /\ owner \in [Sockets -> Peers \cup {NoPeer}]
    /\ link \subseteq Sockets
    /\ rooms \in [Sessions -> [Peers -> Sockets \cup {NoSocket}]]
    /\ reports \in [Sessions -> SUBSET Peers]
    /\ inbox \in [Sockets -> Seq(Message)]
    /\ view \in [Sockets -> SUBSET Peers]

Members(rms, s) == {p \in Peers : rms[s][p] # NoSocket}

\* The sockets broadcastToRoom writes to: registered and OPEN.
Listeners(rms, s) == {k \in Sockets : sock'[k] = "open" /\ \E p \in Peers : rms[s][p] = k}

\* The inboxes after m is sent to the sockets of K.
Sent(box, K, m) == [k \in Sockets |-> IF k \in K THEN Append(box[k], m) ELSE box[k]]

\* Broken Stamp: trusts the session the message claims.
StampClaimed(k, claimed) == claimed

\* The messages of a socket carry the session of its token, whatever they claim.
Stamp(k, claimed) == SessionOf[owner[k]]

-----------------------------------------------------------------------------
Init ==
    /\ active = Sessions
    /\ overdue = {}
    /\ ended = {}
    /\ sock = [k \in Sockets |-> "idle"]
    /\ owner = [k \in Sockets |-> NoPeer]
    /\ link = {}
    /\ rooms = [s \in Sessions |-> [p \in Peers |-> NoSocket]]
    /\ reports = [s \in Sessions |-> {}]
    /\ inbox = [k \in Sockets |-> <<>>]
    /\ view = [k \in Sockets |-> {}]

\* A browser dials with its token, after its connection before has gone down.
Dials(k, p) ==
    /\ sock[k] = "idle"
    /\ \A j \in link : owner[j] # p
    /\ owner' = [owner EXCEPT ![k] = p]

\* handleSignalingConnection turns the socket away.
ConnectRefused(k, p) ==
    /\ Dials(k, p)
    /\ SessionOf[p] \notin active \ overdue
    /\ active' = active \ {SessionOf[p]}
    /\ sock' = [sock EXCEPT ![k] = "closed"]
    /\ UNCHANGED <<overdue, ended, memoryVars, clientVars, inbox>>

\* Broken ConnectAccepted: checks the token but not that the session is active.
ConnectAcceptedBlindly(k, p) ==
    LET s   == SessionOf[p]
        rms == [rooms EXCEPT ![s][p] = k]
        tld == Sent(inbox, {k}, Msg("roster", Members(rms, s) \ {p}))
    IN  /\ Dials(k, p)
        /\ sock' = [sock EXCEPT ![k] = "open"]
        /\ link' = link \cup {k}
        /\ rooms' = rms
        /\ inbox' = Sent(tld, Listeners(rms, s) \ {k}, Msg("joined", {p}))
        /\ UNCHANGED <<dbVars, reports, view>>

\* It takes it: the peer's entry now names this socket, the newcomer is sent
\* the roster and everyone else is told.
ConnectAccepted(k, p) ==
    LET s   == SessionOf[p]
        rms == [rooms EXCEPT ![s][p] = k]
        tld == Sent(inbox, {k}, Msg("roster", Members(rms, s) \ {p}))
    IN  /\ Dials(k, p)
        /\ s \in active \ overdue
        /\ sock' = [sock EXCEPT ![k] = "open"]
        /\ link' = link \cup {k}
        /\ rooms' = rms
        /\ inbox' = Sent(tld, Listeners(rms, s) \ {k}, Msg("joined", {p}))
        /\ UNCHANGED <<dbVars, reports, view>>

\* The socket delivers messages until its close event, also while closing.
Delivers(k) == sock[k] \in {"open", "closing"}

\* A TELEMETRY_HEARTBEAT: updatePeerReport, also on a connection that was replaced
\* or evicted.
Heartbeat(k) ==
    /\ Delivers(k)
    /\ reports' = [reports EXCEPT ![SessionOf[owner[k]]] = @ \cup {owner[k]}]
    /\ UNCHANGED <<dbVars, sock, owner, clientVars, rooms, inbox>>

\* A targeted message, relayed to the socket registered for q, if it is OPEN.
\* The code relays an envelope of any type; the pages of this repository send
\* none but signals.
Relay(k, claimed, q) ==
    LET dst == rooms[Stamp(k, claimed)][q]
    IN  /\ Delivers(k)
        /\ dst # NoSocket /\ sock[dst] = "open"
        /\ Len(inbox[dst]) < MaxInbox
        /\ inbox' = [inbox EXCEPT ![dst] = Append(@, Msg("signal", {owner[k]}))]
        /\ UNCHANGED <<dbVars, sock, owner, clientVars, memoryVars>>

\* Broken Cleanup: evicts whatever connection the peer has by now,
CleanupByPeer(k) ==
    LET p == owner[k]
        s == SessionOf[p]
        rms == [rooms EXCEPT ![s][p] = NoSocket]
    IN  IF rooms[s][p] # NoSocket
        THEN /\ rooms' = rms
             /\ reports' = [reports EXCEPT ![s] = @ \ {p}]
             /\ inbox' = Sent(inbox, Listeners(rms, s), Msg("left", {p}))
        ELSE UNCHANGED <<memoryVars, inbox>>

\* or announces the departure and leaves the entry in place,
CleanupKeepsEntry(k) ==
    LET p == owner[k]
        s == SessionOf[p]
    IN  IF rooms[s][p] = k
        THEN /\ inbox' = Sent(inbox, Listeners(rooms, s), Msg("left", {p}))
             /\ reports' = [reports EXCEPT ![s] = @ \ {p}]
             /\ UNCHANGED rooms
        ELSE UNCHANGED <<memoryVars, inbox>>

\* or tells the room although the peer is back on another connection,
CleanupTellsAnyway(k) ==
    LET p == owner[k]
        s == SessionOf[p]
        rms == IF rooms[s][p] = k THEN [rooms EXCEPT ![s][p] = NoSocket] ELSE rooms
    IN  /\ rooms' = rms
        /\ reports' = IF rooms[s][p] = k THEN [reports EXCEPT ![s] = @ \ {p}] ELSE reports
        /\ inbox' = Sent(inbox, Listeners(rms, s), Msg("left", {p}))

\* or forgets the telemetry report.
CleanupKeepsReport(k) ==
    LET p == owner[k]
        s == SessionOf[p]
        rms == [rooms EXCEPT ![s][p] = NoSocket]
    IN  IF rooms[s][p] = k
        THEN /\ rooms' = rms
             /\ inbox' = Sent(inbox, Listeners(rms, s), Msg("left", {p}))
             /\ UNCHANGED reports
        ELSE UNCHANGED <<memoryVars, inbox>>

\* cleanup: the peer goes only if its entry still names this socket.
Cleanup(k) ==
    LET p == owner[k]
        s == SessionOf[p]
        rms == [rooms EXCEPT ![s][p] = NoSocket]
    IN  IF rooms[s][p] = k
        THEN /\ rooms' = rms
             /\ reports' = [reports EXCEPT ![s] = @ \ {p}]
             /\ inbox' = Sent(inbox, Listeners(rms, s), Msg("left", {p}))
        ELSE UNCHANGED <<memoryVars, inbox>>

\* The close handshake starts: the readyState is CLOSING, no event fires yet.
StartsClosing(k) ==
    /\ sock[k] = "open"
    /\ sock' = [sock EXCEPT ![k] = "closing"]
    /\ UNCHANGED <<dbVars, owner, clientVars, memoryVars, inbox>>

\* The error event; the close event follows and cleans up a second time.
Errors(k) ==
    /\ Delivers(k)
    /\ sock' = [sock EXCEPT ![k] = "failed"]
    /\ Cleanup(k)
    /\ UNCHANGED <<dbVars, owner, clientVars>>

Closes(k) ==
    /\ Delivers(k) \/ sock[k] = "failed"
    /\ sock' = [sock EXCEPT ![k] = "closed"]
    /\ Cleanup(k)
    /\ UNCHANGED <<dbVars, owner, clientVars>>

\* POST /sessions/:id/end: deactivate, tell the room, evict it, forget its reports.
EndSession(s) ==
    LET evicted == {rooms[s][p] : p \in Members(rooms, s)}
    IN  /\ active' = active \ {s}
        /\ ended' = ended \cup {s}
        /\ sock' = [k \in Sockets |-> IF k \in evicted /\ sock[k] = "open"
                                      THEN "closing" ELSE sock[k]]
        /\ inbox' = Sent(inbox, {k \in evicted : sock[k] = "open"}, Msg("ended", {}))
        /\ rooms' = [rooms EXCEPT ![s] = [p \in Peers |-> NoSocket]]
        /\ reports' = [reports EXCEPT ![s] = {}]
        /\ UNCHANGED <<overdue, owner, clientVars>>

\* expires_at passes.  Nothing runs.
Expire(s) ==
    /\ s \notin overdue
    /\ overdue' = overdue \cup {s}
    /\ UNCHANGED <<active, ended, sock, owner, clientVars, memoryVars, inbox>>

\* joinSession and getSessionInfo deactivate a session they find expired.
Lookup(s) ==
    /\ s \in overdue
    /\ active' = active \ {s}
    /\ UNCHANGED <<overdue, ended, sock, owner, clientVars, memoryVars, inbox>>

ResetTelemetry(s) ==
    /\ reports' = [reports EXCEPT ![s] = {}]
    /\ UNCHANGED <<dbVars, sock, owner, clientVars, rooms, inbox>>

\* The process restarts: rooms and reports were in memory, sessions in SQLite.
Restart ==
    /\ sock' = [k \in Sockets |-> IF sock[k] = "idle" THEN "idle" ELSE "closed"]
    /\ link' = {}
    /\ rooms' = [s \in Sessions |-> [p \in Peers |-> NoSocket]]
    /\ reports' = [s \in Sessions |-> {}]
    /\ inbox' = [k \in Sockets |-> <<>>]
    /\ UNCHANGED <<dbVars, owner, view>>

\* The browser leaves, or loses its connection; the server has not noticed.
LinkDrops(k) ==
    /\ k \in link
    /\ link' = link \ {k}
    /\ inbox' = [inbox EXCEPT ![k] = <<>>]
    /\ UNCHANGED <<dbVars, sock, owner, memoryVars, view>>

\* useSignaling applies one message to its list of peers.
Listed(S, m) ==
    LET kept  == IF m.type \in {"roster", "ended"} THEN {} ELSE S
        added == IF m.type \in {"roster", "joined"} THEN m.peers ELSE {}
        gone  == IF m.type = "left" THEN m.peers ELSE {}
    IN  (kept \cup added) \ gone

OnMessage(k) ==
    /\ k \in link /\ inbox[k] # <<>>
    /\ view' = [view EXCEPT ![k] = Listed(@, Head(inbox[k]))]
    /\ inbox' = [inbox EXCEPT ![k] = Tail(@)]
    /\ UNCHANGED <<dbVars, sock, owner, link, memoryVars>>

SocketEvent(k) ==
    \/ \E p \in Peers : ConnectRefused(k, p) \/ ConnectAccepted(k, p)
    \/ Heartbeat(k)
    \/ \E claimed \in Sessions, q \in Peers : Relay(k, claimed, q)
    \/ StartsClosing(k)
    \/ Errors(k)
    \/ Closes(k)
    \/ LinkDrops(k)
    \/ OnMessage(k)

SessionEvent(s) == EndSession(s) \/ Expire(s) \/ Lookup(s) \/ ResetTelemetry(s)

Next ==
    \/ \E k \in Sockets : SocketEvent(k)
    \/ \E s \in Sessions : SessionEvent(s)
    \/ Restart

Spec == Init /\ [][Next]_vars

-----------------------------------------------------------------------------
\* Messages, rosters and reports stay inside the class they belong to: nothing
\* about a peer of one session reaches a browser of another.
ClassIsolation ==
    /\ \A k \in Sockets : \A p \in view[k] \cup UNION {inbox[k][i].peers : i \in DOMAIN inbox[k]} :
           owner[k] # NoPeer /\ SessionOf[p] = SessionOf[owner[k]]
    /\ \A s \in Sessions : \A p \in reports[s] : SessionOf[p] = s

\* No ghosts: a room lists a peer of its class on a connection of that very
\* peer, whose close event is still to come and will remove the entry.
NoGhostMembers ==
    \A s \in Sessions : \A p \in Members(rooms, s) :
        /\ SessionOf[p] = s
        /\ owner[rooms[s][p]] = p
        /\ sock[rooms[s][p]] \in {"open", "closing"}

\* The connection a browser holds is the one the room writes to: the late close
\* or error of a connection it replaced never evicts it (removePeer compares
\* the sockets).
LiveConnectionListed ==
    \A k \in link : sock[k] = "open" => rooms[SessionOf[owner[k]]][owner[k]] = k

\* An ended session stays empty: nobody can join its room again, also after a
\* restart of the server.
EndedRoomsStayEmpty ==
    \A s \in ended : s \notin active /\ Members(rooms, s) = {}

Lists(m, p)   == m.type \in {"roster", "joined"} /\ p \in m.peers
Unlists(m, p) == \/ m.type = "roster" /\ p \notin m.peers
                 \/ m.type = "left" /\ p \in m.peers
                 \/ m.type = "ended"

\* Will a browser that lists the peers of V list p once it has handled box?
Ends(box, V, p) ==
    \/ \E i \in DOMAIN box :
           Lists(box[i], p) /\ \A j \in DOMAIN box : j > i => ~Unlists(box[j], p)
    \/ p \in V /\ \A j \in DOMAIN box : ~Unlists(box[j], p)

WillList(k, p) == Ends(inbox[k], view[k], p)

\* What a connected browser was told, in the order it was told, adds up to the
\* members of its room other than itself: roster, joins and leaves are neither
\* lost nor applied out of order across reconnects, errors and closes.
RostersAgree ==
    \A k \in link : sock[k] = "open" =>
        \A p \in Peers \ {owner[k]} :
            WillList(k, p) <=> p \in Members(rooms, SessionOf[owner[k]])

\* The peer of the socket has had another connection.
Reconnected(k) == \E j \in Sockets \ {k} : owner[j] = owner[k]

\* A student who leaves the room takes the telemetry report along, in the same
\* step.  The class's totals count a student who is not there only where a
\* heartbeat comes after that: on a connection the student had replaced, which
\* still delivers and whose close will clean nothing (removePeer compares the
\* sockets), or after the class has ended.
AbsentCountedOnlyIfLate ==
    [][\A s \in Sessions : \A p \in reports'[s] \ Members(rooms', s) :
         /\ p \notin Members(rooms, s)
         /\ \/ p \in reports[s]
            \/ s \in ended
            \/ \E k \in Sockets : owner[k] = p /\ Delivers(k) /\ Reconnected(k)]_vars
=============================================================================
