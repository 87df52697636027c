------------------------------ MODULE SwarmDashboard ------------------------------
(***************************************************************************)
(* The live figures of a class, from the students to the instructor's      *)
(* page: the counters of each student (P2PTelemetry.ts), the heartbeats    *)
(* that report them (PeerMeshCoordinator.ts), the server's reports and     *)
(* metrics (telemetry.manager.ts, signaling.server.ts,                     *)
(* telemetry.routes.ts), and the page, which takes what is pushed to it    *)
(* and what it polls, whichever comes last (InstructorView.tsx).           *)
(*                                                                         *)
(* Pushes come in order, on one socket; answers to fetches come when they  *)
(* come, and a heartbeat on a socket that was replaced or evicted may come *)
(* late.  The classes of one instructor follow each other.  A report       *)
(* stands for its byte counters and its channels; rates, latencies,        *)
(* uploads and progress travel with it and are left out.  Joining makes a  *)
(* new peer id: a student here is a peer id, used again by another one     *)
(* when nothing of the first is left.                                      *)
(***************************************************************************)
EXTENDS TelemetryCalculations, FiniteSets, FiniteSetsExt, Sequences

CONSTANTS
    Students,
    Fetches,      \* fetches of the page that may be under way together, numbered
    Begun,        \* what each student has received when the model begins: <<p2p, origin>>
    MaxBytes,     \* bound: bytes a student receives from either source
    MaxClasses,   \* bound: classes the instructor creates
    MaxChanges    \* bound: everything that is not a heartbeat, a delivery, or a poll by itself

VARIABLES
    class,      \* the number of the latest class
    running,    \* it has not ended
    on,         \* students whose page is in the class
    counters,   \* their telemetry
    sent,       \* the heartbeat on its way from each, on the socket in the room
    late,       \* heartbeats on their way on sockets that were replaced or evicted
    members,    \* students in the room, as the server sees it
    reports,    \* the server's reports, of each class
    revived,    \* students out of the room of whom a late heartbeat has brought back a report
    listening,  \* the instructor's socket is in the room
    pushes,     \* metrics on their way to the instructor's page
    fetches,    \* its fetches
    page,       \* sessionData: the class on the page, 0 for none
    metrics,    \* swarmMetrics
    changes     \* how many of the bounded events have happened

vars == <<class, running, on, counters, sent, late, members, reports, revived, listening, pushes,
          fetches, page, metrics, changes>>

studentVars == <<on, counters>>
serverVars == <<class, running, late, members, reports, revived>>
pageVars == <<fetches, page, metrics>>

NoCounters == [known |-> TRUE, p2p |-> 0, origin |-> 0, channels |-> 0]
NoReport == [known |-> FALSE, p2p |-> 0, origin |-> 0, channels |-> 0]
NoReports == [s \in Students |-> NoReport]
Classes == 1..MaxClasses

\* A heartbeat of s on a socket that is no longer the one in the room.
Straggler(s) == [student |-> s, class |-> class, report |-> sent[s]]

\* getMetrics
GetMetrics(c, room, rep) ==
    LET p2p == FoldSet(LAMBDA s, n : n + rep[s].p2p, 0, Students)
        server == FoldSet(LAMBDA s, n : n + rep[s].origin, 0, Students)
        channels == FoldSet(LAMBDA s, n : n + rep[s].channels, 0, Students)
    IN  [class |-> c, totalPeers |-> Cardinality(room), activeDataChannels |-> ChannelsOf(channels),
         totalBytesP2P |-> p2p, totalBytesServer |-> server,
         swarmEfficiencyPercent |-> P2PPercentage(p2p, server), peerReports |-> rep]

NoMetrics == GetMetrics(0, {}, NoReports)
NoFetch == [stage |-> "idle", class |-> 0, reset |-> FALSE, answer |-> NoMetrics]

\* The server tells the room its metrics, on the event of student s.
Pushed(s, room, rep) ==
    IF listening THEN Append(pushes, [from |-> s, metrics |-> GetMetrics(class, room, rep)])
    ELSE pushes

Changes == changes < MaxChanges /\ changes' = changes + 1

-----------------------------------------------------------------------------
Init ==
    /\ class = 1 /\ running = TRUE /\ page = 1 /\ listening = TRUE
    /\ on = Students /\ members = Students
    /\ counters = [s \in Students |-> [NoCounters EXCEPT !.p2p = Begun[s][1],
                                                         !.origin = Begun[s][2]]]
    /\ sent = NoReports
    /\ late = {} /\ revived = {}
    /\ reports = [c \in Classes |-> NoReports]
    /\ pushes = <<>>
    /\ fetches = [k \in Fetches |-> NoFetch]
    /\ metrics = NoMetrics
    /\ changes = 0

(***************************************************************************)
(* Students                                                                *)
(***************************************************************************)
\* recordChunkReceived
ReceivesChunk(s, fromP2P) ==
    /\ Changes /\ s \in on
    /\ IF fromP2P THEN counters[s].p2p < MaxBytes ELSE counters[s].origin < MaxBytes
    /\ counters' = IF fromP2P THEN [counters EXCEPT ![s].p2p = @ + 1]
                   ELSE [counters EXCEPT ![s].origin = @ + 1]
    /\ UNCHANGED <<on, sent, serverVars, listening, pushes, pageVars>>

\* startDownload: startSession sets the byte counters to zero.
StartsDownload(s) ==
    /\ Changes /\ s \in on
    /\ counters' = [counters EXCEPT ![s].p2p = 0, ![s].origin = 0]
    /\ UNCHANGED <<on, sent, serverVars, listening, pushes, pageVars>>

\* A channel of the student opens, or is found closed.
ChannelTurns(s) ==
    /\ Changes /\ s \in on
    /\ counters' = [counters EXCEPT ![s].channels = 1 - @]
    /\ UNCHANGED <<on, sent, serverVars, listening, pushes, pageVars>>

\* Joining the class makes a peer id, a coordinator, and its telemetry.
Joins(s) ==
    /\ Changes /\ running /\ s \notin on \cup members
    /\ ~reports[class][s].known /\ \A h \in late : h.student # s
    /\ on' = on \cup {s}
    /\ counters' = [counters EXCEPT ![s] = NoCounters]
    /\ UNCHANGED <<sent, serverVars, listening, pushes, pageVars>>

\* Leaving stops it.
Leaves(s) ==
    /\ Changes /\ s \in on
    /\ on' = on \ {s}
    /\ UNCHANGED <<counters, sent, serverVars, listening, pushes, pageVars>>

\* sendHeartbeat: the report is made now; without a socket it goes nowhere.
\* Bound: it waits for the one before to come through to the page, and says what the server does
\* not have.
SendHeartbeat(s) ==
    /\ s \in on \cap members /\ reports[class][s] # counters[s]
    /\ ~sent[s].known /\ \A i \in DOMAIN pushes : pushes[i].from # s
    /\ sent' = [sent EXCEPT ![s] = counters[s]]
    /\ UNCHANGED <<studentVars, serverVars, listening, pushes, pageVars, changes>>

(***************************************************************************)
(* The server                                                              *)
(***************************************************************************)
\* The student's socket is up, for the first time or again; the metrics are not told.
Connects(s) ==
    /\ running /\ s \in on \ members
    /\ members' = members \cup {s}
    /\ revived' = revived \ {s}
    /\ UNCHANGED <<studentVars, sent, late, class, running, reports, listening, pushes, pageVars,
                   changes>>

\* The page has lost its socket and opens another before the server has noticed.  The new one
\* takes the place of the old in the room; what was sent on the old one may still come.
Redials(s) ==
    /\ Changes /\ running /\ s \in on \cap members
    /\ sent[s].known   \* else it makes no difference here
    /\ late' = late \cup {Straggler(s)}
    /\ sent' = [sent EXCEPT ![s] = NoReport]
    /\ UNCHANGED <<studentVars, class, running, members, reports, revived, listening, pushes,
                   pageVars>>

\* updatePeerReport, and the metrics told
HeartbeatArrives(s) ==
    /\ sent[s].known
    /\ sent' = [sent EXCEPT ![s] = NoReport]
    /\ reports' = [reports EXCEPT ![class][s] = sent[s]]
    /\ pushes' = Pushed(s, members, reports'[class])
    /\ UNCHANGED <<studentVars, class, running, late, members, revived, listening, pageVars, changes>>

\* The same on a socket that was replaced or evicted: nothing asks whether the student is in the
\* room, nor whether there is one.
LateHeartbeatArrives(h) ==
    /\ late' = late \ {h}
    /\ reports' = [reports EXCEPT ![h.class][h.student] = h.report]
    /\ revived' = IF h.class = class /\ h.student \notin members THEN revived \cup {h.student}
                  ELSE revived
    /\ pushes' = IF h.class = class THEN Pushed(h.student, members, reports'[class]) ELSE pushes
    /\ UNCHANGED <<studentVars, sent, class, running, members, listening, pageVars, changes>>

\* That socket closes: it is not the one in the room, so nothing is cleaned up.
OldSocketCloses(h) ==
    /\ late' = late \ {h}
    /\ UNCHANGED <<studentVars, sent, class, running, members, reports, revived, listening, pushes,
                   pageVars, changes>>

\* cleanup
Cleanup(s) ==
    /\ s \in members
    /\ members' = members \ {s}
    /\ reports' = [reports EXCEPT ![class][s] = NoReport]
    /\ pushes' = Pushed(s, members', reports'[class])
    /\ UNCHANGED <<class, running, late, revived>>

\* The socket in the room of a student who left closes, or that of one who did not: what was sent
\* on it is lost.
SocketCloses(s) ==
    /\ s \notin on /\ UNCHANGED changes
    /\ Cleanup(s)
    /\ sent' = [sent EXCEPT ![s] = NoReport]
    /\ UNCHANGED <<studentVars, listening, pageVars>>

SocketFails(s) ==
    /\ s \in on /\ Changes
    /\ Cleanup(s)
    /\ sent' = [sent EXCEPT ![s] = NoReport]
    /\ UNCHANGED <<studentVars, listening, pageVars>>

\* The class ends: the room is emptied, every socket in it evicted, the reports forgotten, and
\* every browser told.  What was sent may still come.
\* Bound: the last class does not.
EndClass ==
    /\ running /\ class < MaxClasses
    /\ running' = FALSE
    /\ on' = {} /\ members' = {} /\ listening' = FALSE
    /\ reports' = [reports EXCEPT ![class] = NoReports]
    /\ late' = late \cup {Straggler(s) : s \in {m \in members : sent[m].known}}
    /\ sent' = NoReports /\ revived' = {}
    /\ UNCHANGED <<class, counters, pushes, pageVars, changes>>

\* The server restarts: rooms, reports and connections are gone.
ServerRestarts ==
    /\ Changes
    /\ members' = {} /\ reports' = [c \in Classes |-> NoReports] /\ sent' = NoReports
    /\ late' = {} /\ revived' = {}
    /\ listening' = FALSE /\ pushes' = <<>>
    /\ fetches' = [k \in Fetches |-> NoFetch]
    /\ UNCHANGED <<studentVars, class, running, page, metrics>>

\* A fetch reaches the server: of the telemetry, or of its reset.
Answers(k) ==
    LET f == fetches[k]
        current == f.class = class
        room == IF current THEN members ELSE {}
    IN  /\ f.stage = "asked"
        /\ reports' = IF f.reset THEN [reports EXCEPT ![f.class] = NoReports] ELSE reports
        /\ revived' = IF f.reset /\ current THEN {} ELSE revived
        /\ fetches' = [fetches EXCEPT ![k].stage = "answered",
                                      ![k].answer = GetMetrics(f.class, room, reports'[f.class])]
        /\ UNCHANGED <<studentVars, sent, late, class, running, members, listening, pushes, page,
                       metrics, changes>>

(***************************************************************************)
(* The instructor's page                                                   *)
(***************************************************************************)
Idle(k) == fetches[k].stage = "idle"

\* The first number that is free is taken.
Fetch(k, reset) ==
    /\ page # 0 /\ Idle(k) /\ \A j \in Fetches : j < k => ~Idle(j)
    /\ fetches' = [fetches EXCEPT ![k] = [NoFetch EXCEPT !.stage = "asked", !.class = page,
                                                         !.reset = reset]]
    /\ UNCHANGED <<studentVars, sent, serverVars, listening, pushes, page, metrics>>

\* Broken Poll: the page asks once, when it opens, and then relies on what is pushed.
PollOnce(k) == metrics = NoMetrics /\ Fetch(k, FALSE) /\ UNCHANGED changes

\* fetchTelemetry, every three seconds, whether or not the last one was answered.
\* Bound: a poll beside another fetch is one of the changes.
Poll(k) == Fetch(k, FALSE) /\ IF \A j \in Fetches : Idle(j) THEN UNCHANGED changes ELSE Changes

\* handleResetDemoTelemetry.  The counters of the students are not reset, and their next
\* heartbeats bring the sums back.
Reset(k) == Fetch(k, TRUE) /\ Changes

\* An answer comes, to whatever class the page shows by now, or the fetch fails.
AnswerArrives(k) ==
    /\ fetches[k].stage = "answered"
    /\ metrics' = fetches[k].answer
    /\ fetches' = [fetches EXCEPT ![k] = NoFetch]
    /\ UNCHANGED <<studentVars, sent, serverVars, listening, pushes, page, changes>>

FetchFails(k) ==
    /\ Changes /\ ~Idle(k)
    /\ fetches' = [fetches EXCEPT ![k] = NoFetch]
    /\ UNCHANGED <<studentVars, sent, serverVars, listening, pushes, page, metrics>>

PushArrives ==
    /\ pushes # <<>>
    /\ metrics' = Head(pushes).metrics
    /\ pushes' = Tail(pushes)
    /\ UNCHANGED <<studentVars, sent, serverVars, listening, fetches, page, changes>>

\* The instructor's socket is lost, with what was on it, and opened again.
StopsListening ==
    /\ Changes /\ listening
    /\ listening' = FALSE
    /\ pushes' = <<>>
    /\ UNCHANGED <<studentVars, sent, serverVars, pageVars>>

Listens ==
    /\ ~listening /\ running /\ page = class
    /\ listening' = TRUE
    /\ UNCHANGED <<studentVars, sent, serverVars, pushes, pageVars, changes>>

\* The class on the page is over: no metrics, no socket.
PageCloses ==
    /\ page # 0 /\ ~running
    /\ page' = 0
    /\ metrics' = NoMetrics
    /\ listening' = FALSE
    /\ pushes' = <<>>
    /\ UNCHANGED <<studentVars, sent, serverVars, fetches, changes>>

\* handleCreateSession
\* Bound: what was sent in the class before has come or is lost.
CreateClass ==
    /\ page = 0 /\ late = {}
    /\ class' = class + 1
    /\ running' = TRUE
    /\ page' = class'
    /\ revived' = {}
    /\ UNCHANGED <<studentVars, sent, late, members, reports, listening, pushes, fetches, metrics,
                   changes>>

-----------------------------------------------------------------------------
OfStudent(s) ==
    \/ \E fromP2P \in BOOLEAN : ReceivesChunk(s, fromP2P)
    \/ StartsDownload(s) \/ ChannelTurns(s) \/ Joins(s) \/ Leaves(s) \/ SendHeartbeat(s)
    \/ Connects(s) \/ Redials(s) \/ HeartbeatArrives(s) \/ SocketCloses(s) \/ SocketFails(s)

OfFetch(k) == Answers(k) \/ Poll(k) \/ Reset(k) \/ AnswerArrives(k) \/ FetchFails(k)

Next ==
    \/ \E s \in Students : OfStudent(s)
    \/ \E h \in late : LateHeartbeatArrives(h) \/ OldSocketCloses(h)
    \/ \E k \in Fetches : OfFetch(k)
    \/ EndClass \/ ServerRestarts \/ PushArrives \/ StopsListening \/ Listens \/ PageCloses \/ CreateClass

\* Timers run, what was sent arrives, and the server notices a page that went away.
Fairness ==
    /\ \A s \in Students : /\ WF_vars(SendHeartbeat(s)) /\ WF_vars(HeartbeatArrives(s))
                           /\ WF_vars(SocketCloses(s))
    /\ WF_vars(\E k \in Fetches : Poll(k))
    /\ \A k \in Fetches : WF_vars(Answers(k)) /\ WF_vars(AnswerArrives(k))
    /\ WF_vars(PushArrives) /\ WF_vars(PageCloses)

Spec == Init /\ [][Next]_vars /\ Fairness

-----------------------------------------------------------------------------
\* What the page would show if it knew everything.  A student who is gone counts for nothing,
\* except one of whom a late heartbeat has brought back a report: nothing will take it away but a
\* reset, the end of the class or a restart.
Truth ==
    GetMetrics(class, members,
               [s \in Students |-> IF s \in members THEN counters[s]
                                  ELSE IF s \in revived THEN reports[class][s] ELSE NoReport])

\* Once nothing changes any more (changes are bounded), the page comes to show the students
\* in the room and the sums of their counters, and goes on showing it: whatever was lost,
\* however late answers of overlapping fetches overwrote pushes or heartbeats of replaced sockets
\* newer ones, and though a report was reset, a student left or a class came after another
\* (fetchTelemetry, handleSignalingMessage, sendHeartbeat, cleanup).  Two things the figures are
\* not: free of the departed (Truth), and zero after a reset (README.md:39, 348, 368), since
\* what students report is cumulative.
EventuallyAccurate == <>[](page # 0 => metrics = Truth)

\* The efficiency of the swarm is nowhere outside those of its students, after all rounding: what
\* the page says of the class and of each student agrees, whichever of them the server or a
\* browser computed (getMetrics, calculateP2PPercentage).
EfficiencyAgrees ==
    LET served == {s \in Students : metrics.peerReports[s].p2p + metrics.peerReports[s].origin > 0}
        own(s) == P2PPercentage(metrics.peerReports[s].p2p, metrics.peerReports[s].origin)
    IN  /\ served = {} => metrics.swarmEfficiencyPercent = 0
        /\ served # {} => /\ \E s \in served : own(s) <= metrics.swarmEfficiencyPercent
                          /\ \E s \in served : own(s) >= metrics.swarmEfficiencyPercent
=============================================================================
