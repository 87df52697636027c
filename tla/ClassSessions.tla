---------------------------- MODULE ClassSessions ----------------------------
(***************************************************************************)
(* Class sessions on the server: the REST routes (session.routes.ts), the  *)
(* rate limiters, the session service, the code generator, the sessions    *)
(* table, tokens, and what the signaling server checks before it lets a    *)
(* socket into the class.                                                  *)
(*                                                                         *)
(* Creating and joining await scrypt between what they check and what they *)
(* do; everything else is one synchronous step.  The clock counts units    *)
(* long enough to matter to windows and expirations.  Names, passcodes and *)
(* hashes are abstracted to whether a request is valid and its passcode    *)
(* right.  Sockets, rooms and what the end of a class does to them are in  *)
(* Signaling; here a room is the roles that were let in.                   *)
(***************************************************************************)
EXTENDS Naturals, FiniteSets

CONSTANTS
    Sessions,      \* ids of sessions (random UUIDs: never used twice)
    Codes,         \* session codes
    NoRow,
    Callers,       \* IP addresses
    Requests,      \* bound: requests that await scrypt at the same time
    Idle,          \* no request
    Durations,     \* durationHours of a class
    TokenTtl,      \* config.sessionTtlHours
    MaxCreates, CreateWindow, MaxJoins, JoinWindow,   \* RATE_LIMIT_*
    MaxTime,       \* bound on the clock
    MaxRestarts,   \* bound: restarts of the server
    MaxStudents    \* bound on the student tokens of a class

ASSUME TimesAssumption ==
    /\ Durations \subseteq Nat \ {0} /\ TokenTtl \in Nat \ {0}
    /\ MaxCreates \in Nat \ {0} /\ MaxJoins \in Nat \ {0}
    /\ CreateWindow \in Nat \ {0} /\ JoinWindow \in Nat \ {0}
    /\ MaxTime \in Nat /\ MaxRestarts \in Nat /\ MaxStudents \in Nat

Lives == 0..MaxRestarts

VARIABLES
    now,
    rows,          \* the sessions table
    pending,       \* requests that await scrypt
    tokens,        \* handed out
    room,          \* roles let into the room of each class
    records,       \* the entries of each limiter, by caller
    restarts,      \* how often the server was restarted
    \* History:
    recent,        \* the calls each limiter has let through, in the window that ends now, by the
                   \* life of the server
    over           \* classes of which a caller was told that they have ended or expired

sessionVars == <<rows, tokens, room, over>>
limitVars == <<records, restarts, recent>>
vars == <<now, rows, pending, tokens, room, records, restarts, recent, over>>

Limiters == {"create", "join"}
Limit(l) == IF l = "create" THEN MaxCreates ELSE MaxJoins
Window(l) == IF l = "create" THEN CreateWindow ELSE JoinWindow

Row == [code : Codes, active : BOOLEAN, expires : Nat]
Token == [session : Sessions, code : Codes, role : {"instructor", "student"}, expires : Nat]
Creation == [kind : {"create"}, code : Codes, duration : Durations]
Joining == [kind : {"join"}, session : Sessions, code : Codes, right : BOOLEAN]

ASSUME NoRowAssumption == NoRow \notin Row /\ Idle \notin Creation \cup Joining

\* Of the classes.  (The limiters keep sets of entries, which LimiterExact is about.)
TypeOK ==
    /\ now \in Nat
    /\ rows \in [Sessions -> Row \cup {NoRow}]
    /\ pending \in [Requests -> Creation \cup Joining \cup {Idle}]
    /\ tokens \subseteq Token
    /\ room \in [Sessions -> SUBSET {"instructor", "student"}]
    /\ over \subseteq Sessions

Rows == {s \in Sessions : rows[s] # NoRow}
Active(s) == rows[s] # NoRow /\ rows[s].active

\* isSessionExpired, and the same test in handleSignalingConnection.
Expired(s) == now > rows[s].expires

\* TokenService.verifyToken.
Valid(t) == t \in tokens /\ now < t.expires

-----------------------------------------------------------------------------
Init ==
    /\ now = 0
    /\ rows = [s \in Sessions |-> NoRow]
    /\ pending = [q \in Requests |-> Idle]
    /\ tokens = {}
    /\ room = [s \in Sessions |-> {}]
    /\ records = [l \in Limiters |-> [c \in Callers |-> {}]]
    /\ restarts = 0
    /\ recent = [l \in Limiters |-> [c \in Callers |-> [k \in Lives |-> {}]]]
    /\ over = {}

(***************************************************************************)
(* The rate limiters                                                       *)
(***************************************************************************)
\* The timestamps of a record are a set here, of entries: the time of the call, and its number
\* among those of the same time.  The code looks at their ages and at how many they are.
Entry(record) == [at |-> now, nth |-> Cardinality({e \in record : e.at = now})]

\* Those younger than the window of l, at time t.
Younger(record, l, t) == {e \in record : t - e.at < Window(l)}

\* Broken Limited: a refused call is recorded too.
LimitedWithRefused(l, c) ==
    LET valid == Younger(records[l][c], l, now) IN
    /\ Cardinality(valid) >= Limit(l)
    /\ records' = [records EXCEPT ![l][c] = valid \cup {Entry(valid)}]
    /\ UNCHANGED <<restarts, recent>>

\* checkLimit refuses.  The record is trimmed all the same.
Limited(l, c) ==
    LET valid == Younger(records[l][c], l, now) IN
    /\ Cardinality(valid) >= Limit(l)
    /\ records' = [records EXCEPT ![l][c] = valid]
    /\ UNCHANGED <<restarts, recent>>

\* checkLimit lets the call through.
Allowed(l, c) ==
    LET valid == Younger(records[l][c], l, now) IN
    /\ Cardinality(valid) < Limit(l)
    /\ records' = [records EXCEPT ![l][c] = valid \cup {Entry(valid)}]
    /\ recent' = [recent EXCEPT ![l][c][restarts] = @ \cup {Entry(valid)}]
    /\ UNCHANGED restarts

\* 429 Too Many Requests.
TooMany(l, c) == Limited(l, c) /\ UNCHANGED <<now, sessionVars, pending>>

\* The body is not valid (400).  The call counts.
BadRequest(l, c) == Allowed(l, c) /\ UNCHANGED <<now, sessionVars, pending>>

(***************************************************************************)
(* Creating a class                                                        *)
(***************************************************************************)
\* findActiveByCode.
CodeInUse(code) == \E s \in Rows : rows[s].code = code /\ rows[s].active

\* createSession up to its await: the generator has found a code no active session has, and
\* scrypt runs.
CreateStarts(q, c, code, duration) ==
    /\ pending[q] = Idle
    /\ Allowed("create", c)
    /\ ~CodeInUse(code)
    /\ pending' = [pending EXCEPT ![q] = [kind |-> "create", code |-> code, duration |-> duration]]
    /\ UNCHANGED <<now, sessionVars>>

\* Ten candidates in a row were in use: the generator gives up (500).
CreateGivesUp(c) ==
    /\ Allowed("create", c)
    /\ \E code \in Codes : CodeInUse(code)
    /\ UNCHANGED <<now, sessionVars, pending>>

\* Broken CodeTaken: session_code is not UNIQUE.
CodeTakenNever(code) == FALSE

\* The column session_code is UNIQUE: over the sessions that have ended, too.
CodeTaken(code) == \E s \in Rows : rows[s].code = code

\* scrypt is done: the row is inserted and the instructor gets a token.
CreateFinishes(q, s) ==
    LET p == pending[q] IN
    /\ p # Idle /\ p.kind = "create"
    /\ ~CodeTaken(p.code)
    /\ s \notin Rows
    /\ rows' = [rows EXCEPT ![s] =
           [code |-> p.code, active |-> TRUE, expires |-> now + p.duration]]
    /\ tokens' = tokens \cup {[session |-> s, code |-> p.code, role |-> "instructor",
                               expires |-> now + TokenTtl]}
    /\ pending' = [pending EXCEPT ![q] = Idle]
    /\ UNCHANGED <<now, room, over, limitVars>>

\* The insertion violates UNIQUE (500).
CreateFails(q) ==
    /\ pending[q] # Idle /\ pending[q].kind = "create"
    /\ CodeTaken(pending[q].code)
    /\ pending' = [pending EXCEPT ![q] = Idle]
    /\ UNCHANGED <<now, sessionVars, limitVars>>

(***************************************************************************)
(* Joining                                                                 *)
(***************************************************************************)
\* SessionRepository.deactivate.
Deactivated(s) == [rows EXCEPT ![s].active = FALSE]

\* No active class has the code (404).
JoinUnknown(c, code) ==
    /\ Allowed("join", c)
    /\ ~CodeInUse(code)
    /\ UNCHANGED <<now, sessionVars, pending>>

\* The class has expired: it is deactivated, and the student told (410).
JoinExpired(c, s) ==
    /\ Allowed("join", c)
    /\ Active(s) /\ Expired(s)
    /\ rows' = Deactivated(s)
    /\ over' = over \cup {s}
    /\ UNCHANGED <<now, tokens, room, pending>>

StudentsOf(s) ==
    Cardinality({t \in tokens : t.session = s /\ t.role = "student"})
        + Cardinality({q \in Requests : pending[q] # Idle /\ pending[q].kind = "join"
                                            /\ pending[q].session = s})

\* joinSession up to its await: the class is there, and scrypt runs on the passcode.
JoinStarts(q, c, s, right) ==
    /\ pending[q] = Idle
    /\ Allowed("join", c)
    /\ Active(s) /\ ~Expired(s)
    /\ StudentsOf(s) < MaxStudents
    /\ pending' = [pending EXCEPT ![q] =
           [kind |-> "join", session |-> s, code |-> rows[s].code, right |-> right]]
    /\ UNCHANGED <<now, sessionVars>>

\* The passcode is verified, and a right one earns a token.  That the class may have ended
\* meanwhile is not looked at.
JoinFinishes(q) ==
    LET p == pending[q] IN
    /\ p # Idle /\ p.kind = "join"
    /\ tokens' = IF p.right
                 THEN tokens \cup {[session |-> p.session, code |-> p.code, role |-> "student",
                                    expires |-> now + TokenTtl]}
                 ELSE tokens
    /\ pending' = [pending EXCEPT ![q] = Idle]
    /\ UNCHANGED <<now, rows, room, over, limitVars>>

(***************************************************************************)
(* With a token                                                            *)
(***************************************************************************)
\* GET /sessions/:id of a class that has expired (410).
InfoExpired(t) ==
    /\ Valid(t)
    /\ Expired(t.session)
    /\ rows' = Deactivated(t.session)
    /\ over' = over \cup {t.session}
    /\ UNCHANGED <<now, pending, tokens, room, limitVars>>

\* Broken End: the room is closed and the class stays active.
EndInMemoryOnly(t) ==
    /\ Valid(t) /\ t.role = "instructor"
    /\ room' = [room EXCEPT ![t.session] = {}]
    /\ over' = over \cup {t.session}
    /\ UNCHANGED <<now, rows, pending, tokens, limitVars>>

\* POST /sessions/:id/end by the instructor of the class.
End(t) ==
    /\ Valid(t) /\ t.role = "instructor"
    /\ rows' = Deactivated(t.session)
    /\ room' = [room EXCEPT ![t.session] = {}]
    /\ over' = over \cup {t.session}
    /\ UNCHANGED <<now, pending, tokens, limitVars>>

\* A socket of a class that is active and has expired is closed (4004).
ConnectExpired(t) ==
    /\ Valid(t)
    /\ Active(t.session) /\ Expired(t.session)
    /\ rows' = Deactivated(t.session)
    /\ over' = over \cup {t.session}
    /\ UNCHANGED <<now, pending, tokens, room, limitVars>>

\* A socket is let into the room.
Connect(t) ==
    /\ Valid(t)
    /\ Active(t.session) /\ ~Expired(t.session)
    /\ room' = [room EXCEPT ![t.session] = @ \cup {t.role}]
    /\ UNCHANGED <<now, rows, pending, tokens, over, limitVars>>

\* Everyone of a role has left.
Disconnect(s, role) ==
    /\ role \in room[s]
    /\ room' = [room EXCEPT ![s] = @ \ {role}]
    /\ UNCHANGED <<now, rows, pending, tokens, over, limitVars>>

-----------------------------------------------------------------------------
Tick ==
    /\ now < MaxTime
    /\ now' = now + 1
    /\ recent' = [l \in Limiters |-> [c \in Callers |->
                     [k \in Lives |-> Younger(recent[l][c][k], l, now + 1)]]]
    /\ UNCHANGED <<sessionVars, pending, records, restarts>>

\* The server is restarted: what is in memory is gone, rows and the key of the tokens are not.
Restart ==
    /\ restarts < MaxRestarts
    /\ restarts' = restarts + 1
    /\ pending' = [q \in Requests |-> Idle]
    /\ room' = [s \in Sessions |-> {}]
    /\ records' = [l \in Limiters |-> [c \in Callers |-> {}]]
    /\ UNCHANGED <<now, rows, tokens, over, recent>>

Call(c) ==
    \/ \E l \in Limiters : TooMany(l, c) \/ BadRequest(l, c)
    \/ CreateGivesUp(c)
    \/ \E code \in Codes : JoinUnknown(c, code)
    \/ \E s \in Sessions : JoinExpired(c, s)
    \/ \E q \in Requests :
          \/ \E code \in Codes, d \in Durations : CreateStarts(q, c, code, d)
          \/ \E s \in Sessions, right \in BOOLEAN : JoinStarts(q, c, s, right)

Scrypt(q) == CreateFails(q) \/ JoinFinishes(q) \/ \E s \in Sessions : CreateFinishes(q, s)

WithToken(t) == InfoExpired(t) \/ End(t) \/ ConnectExpired(t) \/ Connect(t)

Next ==
    \/ \E c \in Callers : Call(c)
    \/ \E q \in Requests : Scrypt(q)
    \/ \E t \in tokens : WithToken(t)
    \/ \E s \in Sessions, role \in {"instructor", "student"} : Disconnect(s, role)
    \/ Tick
    \/ Restart

Spec == Init /\ [][Next]_vars

-----------------------------------------------------------------------------
\* In no life of the server has a limiter let more than its limit through within the window that
\* ends now, and what it goes by is exactly the calls it has let through in this life: refused
\* calls do not prolong the refusal, and old ones do not count (checkLimit, rate-limiter.ts:16).
\* Of the calls let through before a restart it knows nothing: a window with a restart in it lets
\* through as much again.
LimiterExact ==
    \A l \in Limiters, c \in Callers :
        /\ \A k \in Lives : Cardinality(recent[l][c][k]) <= Limit(l)
        /\ Younger(records[l][c], l, now) = recent[l][c][restarts]

\* A session code names one class for good: all who were handed it, whenever, and all who are
\* about to be let in by it, are of the same class, although codes are checked against the active
\* classes only, and long before the row is inserted (createSession, session.service.ts:50).
CodeNamesOneClass ==
    LET named == tokens \cup {pending[q] : q \in {r \in Requests :
                                  pending[r] # Idle /\ pending[r].kind = "join"}}
    IN  \A t, u \in named : t.code = u.code => t.session = u.session

\* Once a caller was told that a class is over, it is over for all: none is let into the room,
\* and no join gets as far as the passcode, whatever token or code they hold, also after a
\* restart.  (A join that was ahead of the end gets a token, which opens nothing.)
OverForGood ==
    [][\A s \in over :
         /\ room'[s] \subseteq room[s]
         /\ \A q \in Requests :
              pending'[q] # Idle /\ pending'[q].kind = "join" /\ pending'[q].session = s
                  => pending'[q] = pending[q]]_vars
=============================================================================
