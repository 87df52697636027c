-------------------------- MODULE ClassSessionsProofs --------------------------
(***************************************************************************)
(* What is proved of ClassSessions, for any number of classes, codes,      *)
(* requests and callers, any durations, limits and bounds: a session code  *)
(* names one class for good, a class that is over stays over, and the rate *)
(* limiters let through what they should.                                  *)
(*                                                                         *)
(* The first two rest on the rows.  The column session_code is unique over *)
(* all of them, and rows are never deleted nor their code changed, so that *)
(* a token or a join in progress, which names a class that has a row,      *)
(* agrees with the row on the code.  Whoever was told that a class is over *)
(* was told after its row was deactivated, and nothing activates it again. *)
(* The third rests on the records: one record holds what was let through,  *)
(* no two of its entries are the same, and none is of a time to come.      *)
(***************************************************************************)
EXTENDS ClassSessions, FiniteSetTheorems, TLAPS

\* Requests that have passed the check of the class and await the check of the passcode.
JoiningNow(q) == pending[q] # Idle /\ pending[q].kind = "join"

\* A code is in one row only.
CodesUnique == \A s, u \in Rows : rows[s].code = rows[u].code => s = u

\* What names a class agrees with its row.
TokensNameRows == \A t \in tokens : t.session \in Rows /\ rows[t.session].code = t.code
JoinsNameRows ==
    \A q \in Requests : JoiningNow(q) =>
        pending[q].session \in Rows /\ rows[pending[q].session].code = pending[q].code

\* A class that is over is not active.
OverInactive == \A s \in over : s \in Rows /\ ~rows[s].active

IInv == TypeOK /\ CodesUnique /\ TokensNameRows /\ JoinsNameRows /\ OverInactive

\* The initial states are empty.
LEMMA InitIInv == Init => IInv
  BY SMT DEF Init, IInv, TypeOK, CodesUnique, TokensNameRows, JoinsNameRows, JoiningNow,
     OverInactive, Rows

\* Deactivating a class leaves all that IInv says of the rows, and makes one that is told to be
\* over inactive (SessionRepository.deactivate, with the 410 or the end that follows).
LEMMA DeactivationKeepsIInv ==
  ASSUME IInv, NEW s \in Rows,
         rows' = Deactivated(s), over' = over \cup {s},
         UNCHANGED <<now, tokens, pending>>,
         room' \in [Sessions -> SUBSET {"instructor", "student"}]
  PROVE  IInv'
<1> USE DEF IInv, TypeOK, Rows
<1>1. s \in Sessions /\ rows[s] \in Row
  BY NoRowAssumption DEF Row
<1>2. /\ rows' \in [Sessions -> Row \cup {NoRow}]
      /\ \A u \in Sessions : u # s => rows'[u] = rows[u]
      /\ rows'[s] \in Row /\ rows'[s].code = rows[s].code /\ ~rows'[s].active
  BY <1>1 DEF Deactivated, Row
<1>3. Rows' = Rows
  BY <1>1, <1>2, NoRowAssumption
<1>4. \A u \in Rows : rows'[u].code = rows[u].code
  BY <1>2
<1>5. TypeOK'
  BY <1>1, <1>2
<1>6. CodesUnique'
  BY <1>3, <1>4 DEF CodesUnique
<1>7. TokensNameRows'
  BY <1>3, <1>4 DEF TokensNameRows
<1>8. JoinsNameRows'
  BY <1>3, <1>4 DEF JoinsNameRows, JoiningNow
<1>9. OverInactive'
  BY <1>1, <1>2, <1>3 DEF OverInactive
<1> QED  BY <1>5, <1>6, <1>7, <1>8, <1>9

\* Every step of the server keeps IInv.
LEMMA NextIInv == IInv /\ [Next]_vars => IInv'
<1> SUFFICES ASSUME IInv, [Next]_vars PROVE IInv'
  OBVIOUS
<1> USE DEF IInv
<1>0. \A t \in tokens : t.session \in Rows /\ t.session \in Sessions
  BY DEF TokensNameRows, TypeOK, Token, Rows
<1>1. ASSUME NEW c \in Callers, Call(c) PROVE IInv'
  <2>1. ASSUME UNCHANGED <<now, sessionVars, pending>> PROVE IInv'
    BY <2>1 DEF TypeOK, CodesUnique, TokensNameRows, JoinsNameRows, JoiningNow, OverInactive,
       Rows, sessionVars
  <2>2. ASSUME NEW l \in Limiters, TooMany(l, c) \/ BadRequest(l, c) PROVE IInv'
    BY <2>1, <2>2 DEF TooMany, BadRequest
  <2>3. ASSUME CreateGivesUp(c) PROVE IInv'
    BY <2>1, <2>3 DEF CreateGivesUp
  <2>4. ASSUME NEW code \in Codes, JoinUnknown(c, code) PROVE IInv'
    BY <2>1, <2>4 DEF JoinUnknown
  <2>5. ASSUME NEW s \in Sessions, JoinExpired(c, s) PROVE IInv'
    BY <2>5, DeactivationKeepsIInv DEF JoinExpired, Active, Rows, TypeOK
  <2>6. ASSUME NEW q \in Requests, NEW code \in Codes, NEW d \in Durations,
               CreateStarts(q, c, code, d)
        PROVE IInv'
    <3>1. /\ pending' = [pending EXCEPT ![q] = [kind |-> "create", code |-> code, duration |-> d]]
          /\ UNCHANGED <<now, sessionVars>>
      BY <2>6 DEF CreateStarts
    <3>2. TypeOK'
      BY <3>1 DEF TypeOK, Creation, sessionVars
    <3>3. JoinsNameRows'
      BY <3>1 DEF JoinsNameRows, JoiningNow, Rows, sessionVars, TypeOK
    <3> QED  BY <3>1, <3>2, <3>3 DEF CodesUnique, TokensNameRows, OverInactive, Rows, sessionVars
  <2>7. ASSUME NEW q \in Requests, NEW s \in Sessions, NEW right \in BOOLEAN,
               JoinStarts(q, c, s, right)
        PROVE IInv'
    <3>1. /\ pending' = [pending EXCEPT ![q] =
                 [kind |-> "join", session |-> s, code |-> rows[s].code, right |-> right]]
          /\ UNCHANGED <<now, sessionVars>>
          /\ s \in Rows
      BY <2>7 DEF JoinStarts, Active, Rows
    <3>2. rows[s].code \in Codes
      BY <3>1 DEF TypeOK, Rows, Row
    <3>3. TypeOK'
      BY <3>1, <3>2 DEF TypeOK, Joining, sessionVars
    <3>4. JoinsNameRows'
      BY <3>1 DEF JoinsNameRows, JoiningNow, Rows, sessionVars, TypeOK
    <3> QED  BY <3>1, <3>3, <3>4 DEF CodesUnique, TokensNameRows, OverInactive, Rows, sessionVars
  <2> QED  BY <1>1, <2>2, <2>3, <2>4, <2>5, <2>6, <2>7 DEF Call
<1>2. ASSUME NEW q \in Requests, Scrypt(q) PROVE IInv'
  <2>0. /\ pending' = [pending EXCEPT ![q] = Idle]
        /\ pending'[q] = Idle
        /\ \A r \in Requests : pending'[r] = pending[r] \/ pending'[r] = Idle
        /\ UNCHANGED <<now, room, over>>
    BY <1>2 DEF Scrypt, CreateFails, JoinFinishes, CreateFinishes, sessionVars, TypeOK
  <2>1. ASSUME CreateFails(q) PROVE IInv'
    BY <2>0, <2>1 DEF CreateFails, sessionVars, TypeOK, CodesUnique, TokensNameRows,
       JoinsNameRows, JoiningNow, OverInactive, Rows
  <2>2. ASSUME JoinFinishes(q) PROVE IInv'
    <3>1. pending[q] \in Joining /\ JoiningNow(q)
      BY <2>2 DEF JoinFinishes, JoiningNow, TypeOK, Creation, Joining
    <3> DEFINE token == [session |-> pending[q].session, code |-> pending[q].code,
                         role |-> "student", expires |-> now + TokenTtl]
    <3>2. token \in Token
      BY <3>1, TimesAssumption DEF Joining, Token, TypeOK
    <3>3. tokens' \subseteq tokens \cup {token} /\ UNCHANGED rows
      BY <2>2 DEF JoinFinishes
    <3>4. token.session \in Rows /\ rows[token.session].code = token.code
      BY <3>1 DEF JoinsNameRows
    <3>5. TypeOK'
      BY <2>0, <3>2, <3>3 DEF TypeOK
    <3>6. TokensNameRows'
      BY <3>3, <3>4 DEF TokensNameRows, Rows
    <3> QED  BY <2>0, <3>3, <3>5, <3>6 DEF CodesUnique, JoinsNameRows, JoiningNow, OverInactive, Rows
  <2>3. ASSUME NEW s \in Sessions, CreateFinishes(q, s) PROVE IInv'
    <3>1. pending[q] \in Creation
      BY <2>3 DEF CreateFinishes, TypeOK, Creation, Joining
    <3> DEFINE code == pending[q].code
               row == [code |-> code, active |-> TRUE, expires |-> now + pending[q].duration]
               token == [session |-> s, code |-> code, role |-> "instructor",
                         expires |-> now + TokenTtl]
    <3>2. row \in Row /\ token \in Token /\ row # NoRow
      <4>1. code \in Codes /\ pending[q].duration \in Nat /\ now \in Nat /\ TokenTtl \in Nat
        BY <3>1, TimesAssumption DEF Creation, TypeOK
      <4>2. now + pending[q].duration \in Nat /\ now + TokenTtl \in Nat
        BY <4>1
      <4>3. row \in Row
        BY <4>1, <4>2 DEF Row
      <4>4. token \in Token
        BY <4>1, <4>2 DEF Token
      <4> QED  BY <4>3, <4>4, NoRowAssumption
    <3>3. /\ rows' = [rows EXCEPT ![s] = row] /\ tokens' = tokens \cup {token}
          /\ s \notin Rows /\ \A u \in Rows : rows[u].code # code
      BY <2>3 DEF CreateFinishes, CodeTaken
    <3>4. /\ rows'[s] = row
          /\ \A u \in Sessions : u # s => rows'[u] = rows[u]
          /\ Rows' = Rows \cup {s}
      BY <3>2, <3>3 DEF TypeOK, Rows
    <3>5. row.code = code /\ token.code = code /\ token.session = s
      OBVIOUS
    <3> HIDE DEF row, token, code
    <3>6. TypeOK'
      BY <2>0, <3>2, <3>3 DEF TypeOK
    <3>7. \A u \in Rows : rows'[u] = rows[u] /\ u # s
      BY <3>3, <3>4 DEF Rows
    <3>8. CodesUnique'
      BY <3>3, <3>4, <3>5, <3>7 DEF CodesUnique
    <3>9. TokensNameRows'
      BY <3>3, <3>4, <3>5, <3>7 DEF TokensNameRows
    <3>10. JoinsNameRows'
      BY <2>0, <3>4, <3>7 DEF JoinsNameRows, JoiningNow
    <3>11. OverInactive'
      BY <2>0, <3>4, <3>7 DEF OverInactive
    <3> QED  BY <3>6, <3>8, <3>9, <3>10, <3>11
  <2> QED  BY <1>2, <2>1, <2>2, <2>3 DEF Scrypt
<1>3. ASSUME NEW t \in tokens, WithToken(t) PROVE IInv'
  <2>1. ASSUME InfoExpired(t) \/ ConnectExpired(t) PROVE IInv'
    BY <1>0, <2>1, DeactivationKeepsIInv DEF InfoExpired, ConnectExpired, TypeOK
  <2>2. ASSUME End(t) PROVE IInv'
    <3>1. room' \in [Sessions -> SUBSET {"instructor", "student"}]
      BY <2>2 DEF End, TypeOK
    <3> QED  BY <1>0, <2>2, <3>1, DeactivationKeepsIInv DEF End
  <2>3. ASSUME Connect(t) PROVE IInv'
    BY <1>0, <2>3 DEF Connect, TypeOK, Token, CodesUnique, TokensNameRows, JoinsNameRows,
       JoiningNow, OverInactive, Rows
  <2> QED  BY <1>3, <2>1, <2>2, <2>3 DEF WithToken
<1>4. ASSUME NEW s \in Sessions, NEW role \in {"instructor", "student"}, Disconnect(s, role)
      PROVE IInv'
  BY <1>4 DEF Disconnect, TypeOK, CodesUnique, TokensNameRows, JoinsNameRows, JoiningNow,
     OverInactive, Rows
<1>5. ASSUME Tick PROVE IInv'
  BY <1>5 DEF Tick, sessionVars, TypeOK, CodesUnique, TokensNameRows, JoinsNameRows, JoiningNow,
     OverInactive, Rows
<1>6. ASSUME Restart PROVE IInv'
  BY <1>6 DEF Restart, TypeOK, CodesUnique, TokensNameRows, JoinsNameRows, JoiningNow,
     OverInactive, Rows
<1>7. ASSUME UNCHANGED vars PROVE IInv'
  BY <1>7 DEF vars, sessionVars, TypeOK, CodesUnique, TokensNameRows, JoinsNameRows, JoiningNow,
     OverInactive, Rows
<1> QED  BY <1>1, <1>2, <1>3, <1>4, <1>5, <1>6, <1>7 DEF Next

\* IInv holds throughout.
LEMMA IInvHolds == Spec => []IInv
  BY InitIInv, NextIInv, PTL DEF Spec

\* The classes, the requests in progress, the tokens and the rooms keep their types.
THEOREM TypeCorrect == Spec => []TypeOK
  BY IInvHolds, PTL DEF IInv

\* A session code names one class for good: two tokens, or joins in progress, with the same code
\* are of the same class (createSession, session.service.ts:50; session_code UNIQUE).
THEOREM CodesNameClasses == Spec => []CodeNamesOneClass
<1>1. IInv => CodeNamesOneClass
  <2> SUFFICES ASSUME IInv PROVE CodeNamesOneClass
    OBVIOUS
  <2> DEFINE named == tokens \cup {pending[q] : q \in {r \in Requests :
                                  pending[r] # Idle /\ pending[r].kind = "join"}}
  <2>1. \A t \in named : t.session \in Rows /\ rows[t.session].code = t.code
    BY DEF IInv, TokensNameRows, JoinsNameRows, JoiningNow
  <2>2. \A t, u \in named : t.code = u.code => t.session = u.session
    <3> HIDE DEF named
    <3> QED  BY <2>1 DEF IInv, CodesUnique
  <2> QED  BY <2>2 DEF CodeNamesOneClass
<1> QED  BY <1>1, IInvHolds, PTL

\* One step admits nobody to a class that is over, neither to its room nor to the check of the
\* passcode.
LEMMA StepKeepsOver ==
  ASSUME IInv, [Next]_vars, NEW s \in over
  PROVE  /\ room'[s] \subseteq room[s]
         /\ \A q \in Requests :
              pending'[q] # Idle /\ pending'[q].kind = "join" /\ pending'[q].session = s
                  => pending'[q] = pending[q]
<1> DEFINE Goal == /\ room'[s] \subseteq room[s]
                   /\ \A q \in Requests :
                        pending'[q] # Idle /\ pending'[q].kind = "join" /\ pending'[q].session = s
                            => pending'[q] = pending[q]
<1>0. s \in Sessions /\ s \in Rows /\ ~rows[s].active /\ TypeOK
  BY DEF IInv, OverInactive, TypeOK
<1>1. ASSUME NEW c \in Callers, Call(c) PROVE Goal
  <2>1. UNCHANGED room
    BY <1>1 DEF Call, TooMany, BadRequest, CreateGivesUp, JoinUnknown, JoinExpired, CreateStarts,
       JoinStarts, sessionVars
  <2>2. ASSUME NEW q \in Requests, NEW code \in Codes, NEW d \in Durations,
               CreateStarts(q, c, code, d)
        PROVE Goal
    BY <1>0, <2>1, <2>2 DEF CreateStarts, TypeOK
  <2>3. ASSUME NEW q \in Requests, NEW u \in Sessions, NEW right \in BOOLEAN,
               JoinStarts(q, c, u, right)
        PROVE Goal
    <3>1. u # s
      BY <1>0, <2>3 DEF JoinStarts, Active
    <3> QED  BY <1>0, <2>1, <2>3, <3>1 DEF JoinStarts, TypeOK
  <2> QED  BY <1>1, <2>1, <2>2, <2>3 DEF Call, TooMany, BadRequest, CreateGivesUp, JoinUnknown,
              JoinExpired
<1>2. ASSUME NEW q \in Requests, Scrypt(q) PROVE Goal
  BY <1>0, <1>2 DEF Scrypt, CreateFails, JoinFinishes, CreateFinishes, sessionVars, TypeOK
<1>3. ASSUME NEW t \in tokens, WithToken(t) PROVE Goal
  <2>1. UNCHANGED pending
    BY <1>3 DEF WithToken, InfoExpired, End, ConnectExpired, Connect
  <2>2. ASSUME Connect(t) PROVE t.session # s
    BY <1>0, <2>2 DEF Connect, Active
  <2>3. room'[s] \subseteq room[s]
    BY <1>0, <1>3, <2>2 DEF WithToken, InfoExpired, End, ConnectExpired, Connect, TypeOK
  <2> QED  BY <2>1, <2>3
<1>4. ASSUME NEW u \in Sessions, NEW role \in {"instructor", "student"}, Disconnect(u, role)
      PROVE Goal
  BY <1>0, <1>4 DEF Disconnect, TypeOK
<1>5. ASSUME Tick \/ UNCHANGED vars PROVE Goal
  BY <1>5 DEF Tick, vars, sessionVars
<1>6. ASSUME Restart PROVE Goal
  BY <1>0, <1>6 DEF Restart
<1> QED  BY <1>1, <1>2, <1>3, <1>4, <1>5, <1>6 DEF Next

\* Once a caller was told that a class is over, nobody is let into its room and no join gets as
\* far as the passcode, whatever they hold, also after a restart.
THEOREM OverStaysOver == Spec => OverForGood
<1> DEFINE Step == \A s \in over :
                      /\ room'[s] \subseteq room[s]
                      /\ \A q \in Requests :
                           pending'[q] # Idle /\ pending'[q].kind = "join"
                                /\ pending'[q].session = s
                               => pending'[q] = pending[q]
<1>1. IInv /\ [Next]_vars => [Step]_vars
  BY StepKeepsOver
<1>2. OverForGood <=> [][Step]_vars
  BY DEF OverForGood
<1> QED  BY <1>1, <1>2, IInvHolds, PTL DEF Spec

-----------------------------------------------------------------------------
(***************************************************************************)
(* The rate limiters.  A record holds the calls let through in the window  *)
(* that ended at the last call, and the present window ends later: what is *)
(* too old for the one is too old for the other.  No entry is counted for  *)
(* two calls: of those of one time, the numbers are below their count.     *)
(***************************************************************************)
EntryOf(n) == [at : 0..n, nth : Nat]

At(record, t) == {e \in record : e.at = t}

\* A record, with what the limiter has let through of late.
Sound(record, passed, l, t) ==
    /\ record \subseteq EntryOf(t) /\ IsFiniteSet(record)
    /\ \A e \in At(record, t) : e.nth < Cardinality(At(record, t))
    /\ passed = Younger(record, l, t)
    /\ Cardinality(passed) <= Limit(l)

\* What was let through in a life of the server.
Bounded(passed, l) == IsFiniteSet(passed) /\ Cardinality(passed) <= Limit(l)

LInv ==
    /\ now \in Nat /\ restarts \in Lives
    /\ records \in [Limiters -> [Callers -> SUBSET EntryOf(now)]]
    /\ recent \in [Limiters -> [Callers -> [Lives -> SUBSET EntryOf(now)]]]
    /\ \A l \in Limiters, c \in Callers :
         /\ Sound(records[l][c], recent[l][c][restarts], l, now)
         /\ \A k \in Lives : Bounded(recent[l][c][k], l)
         /\ \A k \in Lives : k > restarts => recent[l][c][k] = {}

LEMMA WindowsAndLimits ==
    \A l \in Limiters : Window(l) \in Nat \ {0} /\ Limit(l) \in Nat \ {0}
  BY TimesAssumption DEF Limiters, Window, Limit

LEMMA EmptySound == \A l \in Limiters : Sound({}, {}, l, now)
  BY WindowsAndLimits, FS_EmptySet DEF Sound, At, Younger

\* The entries that are left when the old ones go.
LEMMA YoungerLeft ==
    ASSUME NEW record, IsFiniteSet(record), NEW l, NEW t
    PROVE  /\ Younger(record, l, t) \subseteq record
           /\ IsFiniteSet(Younger(record, l, t))
           /\ Cardinality(Younger(record, l, t)) \in Nat
           /\ Cardinality(Younger(record, l, t)) <= Cardinality(record)
<1>1. Younger(record, l, t) \subseteq record
  BY DEF Younger
<1> QED
  BY <1>1, FS_Subset, FS_CardinalityType

\* A limiter looks at its record: the calls of now are among those it keeps.
LEMMA TrimmedSound ==
    ASSUME LInv, NEW l \in Limiters, NEW record, NEW passed, Sound(record, passed, l, now)
    PROVE  LET valid == Younger(record, l, now)
           IN  valid = passed /\ Sound(valid, passed, l, now) /\ At(valid, now) = At(record, now)
<1> DEFINE valid == Younger(record, l, now)
<1>1. valid \subseteq record /\ IsFiniteSet(valid) /\ valid = passed
  BY YoungerLeft DEF Sound
<1>2. At(valid, now) = At(record, now)
  <2>1. \A e \in record : e.at = now => now - e.at < Window(l)
    BY WindowsAndLimits DEF LInv
  <2> QED
    BY <2>1 DEF At, Younger
<1>3. Younger(valid, l, now) = valid
  BY DEF Younger
<1> QED
  BY <1>1, <1>2, <1>3 DEF Sound

\* And adds the call it lets through.
LEMMA CountedSound ==
    ASSUME LInv, NEW l \in Limiters, NEW valid, Sound(valid, valid, l, now), Cardinality(valid) < Limit(l)
    PROVE  Sound(valid \cup {Entry(valid)}, valid \cup {Entry(valid)}, l, now)
<1> DEFINE e == Entry(valid)
           more == valid \cup {e}
<1>1. IsFiniteSet(At(valid, now)) /\ Cardinality(At(valid, now)) \in Nat /\ IsFiniteSet(valid)
      /\ Cardinality(valid) \in Nat
  <2>1. IsFiniteSet(valid) /\ At(valid, now) \subseteq valid
    BY DEF Sound, At
  <2> QED
    BY <2>1, FS_Subset, FS_CardinalityType
<1>2. e.at = now /\ e.nth = Cardinality(At(valid, now)) /\ e \in EntryOf(now)
  BY <1>1 DEF Entry, EntryOf, At, LInv
<1>3. e \notin valid
  BY <1>1, <1>2 DEF Sound, At
<1> HIDE DEF e
<1>4. At(more, now) = At(valid, now) \cup {e} /\ e \notin At(valid, now)
  BY <1>2, <1>3 DEF At
<1>5. /\ Cardinality(At(more, now)) = Cardinality(At(valid, now)) + 1
      /\ IsFiniteSet(more) /\ Cardinality(more) = Cardinality(valid) + 1
  BY <1>1, <1>3, <1>4, FS_AddElement
<1>6. \A x \in At(more, now) : x.nth < Cardinality(At(more, now))
  <2> SUFFICES ASSUME NEW x \in At(more, now) PROVE x.nth < Cardinality(At(more, now))
    OBVIOUS
  <2>1. CASE x = e
    BY <1>1, <1>2, <1>5, <2>1
  <2>2. CASE x \in At(valid, now)
    <3>1. x.nth < Cardinality(At(valid, now)) /\ x.nth \in Nat
      BY <2>2 DEF Sound, At, EntryOf
    <3> QED
      BY <1>1, <1>5, <3>1
  <2> QED
    BY <1>4, <2>1, <2>2
<1>7. Younger(more, l, now) = more
  <2>1. \A x \in valid : now - x.at < Window(l)
    BY DEF Sound, Younger
  <2>2. now - e.at < Window(l)
    BY <1>2, WindowsAndLimits DEF LInv
  <2> QED
    BY <2>1, <2>2 DEF Younger
<1>8. more \subseteq EntryOf(now) /\ Cardinality(more) <= Limit(l)
  BY <1>1, <1>2, <1>5, WindowsAndLimits DEF Sound
<1>9. Sound(more, more, l, now)
  BY <1>5, <1>6, <1>7, <1>8 DEF Sound
<1> QED
  BY <1>9 DEF e

\* A call of checkLimit, whether it refuses or lets through.
LEMMA CheckKeepsLInv ==
    ASSUME LInv, NEW l \in Limiters, NEW c \in Callers, Limited(l, c) \/ Allowed(l, c), now' = now
    PROVE  LInv'
<1> DEFINE valid == Younger(records[l][c], l, now)
<1>1. /\ Sound(records[l][c], recent[l][c][restarts], l, now)
      /\ records \in [Limiters -> [Callers -> SUBSET EntryOf(now)]]
      /\ recent \in [Limiters -> [Callers -> [Lives -> SUBSET EntryOf(now)]]]
      /\ restarts \in Lives /\ restarts' = restarts
  BY DEF LInv, Limited, Allowed
<1>2. valid = recent[l][c][restarts] /\ Sound(valid, valid, l, now)
  <2> DEFINE record == records[l][c]
             passed == recent[l][c][restarts]
  <2>1. Sound(record, passed, l, now)
    BY <1>1
  <2> HIDE DEF record, passed
  <2>2. Younger(record, l, now) = passed /\ Sound(Younger(record, l, now), passed, l, now)
    BY <2>1, TrimmedSound
  <2> QED
    BY <2>2 DEF record, passed
<1> HIDE DEF valid
<1>3. ASSUME NEW record \in SUBSET EntryOf(now), NEW passed \in SUBSET EntryOf(now),
             Sound(record, passed, l, now),
             records' = [records EXCEPT ![l][c] = record],
             recent' = [recent EXCEPT ![l][c][restarts] = passed]
      PROVE  LInv'
  <2>1. /\ records' \in [Limiters -> [Callers -> SUBSET EntryOf(now)]]
        /\ recent' \in [Limiters -> [Callers -> [Lives -> SUBSET EntryOf(now)]]]
    BY <1>1, <1>3
  <2>2. Bounded(passed, l)
    <3>1. passed \subseteq record /\ IsFiniteSet(record) /\ Cardinality(passed) <= Limit(l)
      BY <1>3 DEF Sound, Younger
    <3> QED
      BY <3>1, FS_Subset DEF Bounded
  <2>3. ASSUME NEW m \in Limiters, NEW d \in Callers
        PROVE  /\ Sound(records'[m][d], recent'[m][d][restarts], m, now)
               /\ \A k \in Lives : Bounded(recent'[m][d][k], m)
               /\ \A k \in Lives : k > restarts => recent'[m][d][k] = {}
    <3>1. CASE m = l /\ d = c
      <4>1. /\ records'[m][d] = record /\ recent'[m][d][restarts] = passed
            /\ \A k \in Lives : k # restarts => recent'[m][d][k] = recent[m][d][k]
        BY <1>1, <1>3, <3>1
      <4>2. \A k \in Lives : k > restarts => k # restarts
        BY <1>1, TimesAssumption DEF Lives
      <4> QED
        BY <1>3, <2>2, <3>1, <4>1, <4>2 DEF LInv
    <3>2. CASE ~(m = l /\ d = c)
      <4>1. records'[m][d] = records[m][d] /\ recent'[m][d] = recent[m][d]
        BY <1>1, <1>3, <3>2
      <4> QED
        BY <4>1 DEF LInv
    <3> QED
      BY <3>1, <3>2
  <2> QED
    BY <1>1, <2>1, <2>3 DEF LInv
<1>4. valid \in SUBSET EntryOf(now)
  BY <1>2 DEF Sound
<1>5. CASE Limited(l, c)
  <2>1. /\ records' = [records EXCEPT ![l][c] = valid]
        /\ recent' = [recent EXCEPT ![l][c][restarts] = valid]
    BY <1>1, <1>2, <1>5 DEF Limited, valid
  <2> QED
    BY <1>2, <1>3, <1>4, <2>1
<1>6. CASE Allowed(l, c)
  <2> DEFINE more == valid \cup {Entry(valid)}
  <2>1. /\ Cardinality(valid) < Limit(l)
        /\ records' = [records EXCEPT ![l][c] = more]
        /\ recent' = [recent EXCEPT ![l][c][restarts] = more]
    BY <1>1, <1>2, <1>6 DEF Allowed, valid
  <2>2. Sound(more, more, l, now)
    BY <1>2, <2>1, CountedSound
  <2>3. more \in SUBSET EntryOf(now)
    BY <2>2 DEF Sound
  <2> HIDE DEF more
  <2> QED
    BY <1>3, <2>1, <2>2, <2>3
<1> QED
  BY <1>5, <1>6

\* Time passes: entries grow too old, and none is of the new time yet.
LEMMA TickKeepsLInv ==
    ASSUME LInv, Tick
    PROVE  LInv'
<1>1. /\ now \in Nat /\ now' = now + 1 /\ records' = records
      /\ restarts \in Lives /\ restarts' = restarts
      /\ recent' = [l \in Limiters |-> [c \in Callers |->
                       [k \in Lives |-> Younger(recent[l][c][k], l, now + 1)]]]
  BY DEF Tick, LInv
<1>2. EntryOf(now) \subseteq EntryOf(now')
  BY <1>1 DEF EntryOf
<1>3. ASSUME NEW l \in Limiters, NEW c \in Callers
      PROVE  Sound(records'[l][c], recent'[l][c][restarts], l, now')
  <2> DEFINE record == records[l][c]
             passed == recent[l][c][restarts]
  <2>1. Sound(record, passed, l, now) /\ recent'[l][c][restarts] = Younger(passed, l, now')
    BY <1>1 DEF LInv
  <2> HIDE DEF record, passed
  <2>2. record \subseteq EntryOf(now') /\ IsFiniteSet(record)
    BY <1>2, <2>1 DEF Sound
  <2>3. \A e \in record : e.at \in Nat /\ e.at <= now
    BY <1>1, <2>1 DEF Sound, EntryOf
  <2>4. \A e \in record : e.at # now'
    BY <1>1, <2>3
  <2>5. Younger(passed, l, now') = Younger(record, l, now')
    <3>1. passed = {e \in record : now - e.at < Window(l)}
      BY <2>1 DEF Sound, Younger
    <3>2. \A e \in record : now' - e.at < Window(l) => now - e.at < Window(l)
      BY <1>1, <2>3, WindowsAndLimits
    <3> QED
      BY <3>1, <3>2 DEF Younger
  <2>6. Cardinality(Younger(passed, l, now')) <= Limit(l)
    <3>1. passed \subseteq record /\ IsFiniteSet(passed) /\ Cardinality(passed) <= Limit(l)
      BY <2>1, <2>2, YoungerLeft DEF Sound
    <3>2. /\ Cardinality(Younger(passed, l, now')) \in Nat
          /\ Cardinality(Younger(passed, l, now')) <= Cardinality(passed)
      BY <3>1, YoungerLeft
    <3>3. Cardinality(passed) \in Nat
      BY <3>1, FS_CardinalityType
    <3> QED
      BY <3>1, <3>2, <3>3, WindowsAndLimits
  <2>8. Sound(record, Younger(passed, l, now'), l, now')
    BY <2>2, <2>4, <2>5, <2>6 DEF Sound, At
  <2>9. records'[l][c] = record
    BY <1>1 DEF record
  <2> QED
    BY <2>1, <2>8, <2>9
<1>4. records' \in [Limiters -> [Callers -> SUBSET EntryOf(now')]]
  BY <1>1, <1>2 DEF LInv
<1>5. ASSUME NEW l \in Limiters, NEW c \in Callers, NEW k \in Lives
      PROVE  /\ recent'[l][c][k] \in SUBSET EntryOf(now')
             /\ Bounded(recent'[l][c][k], l)
             /\ k > restarts => recent'[l][c][k] = {}
  <2> DEFINE passed == recent[l][c][k]
  <2>1. recent'[l][c][k] = Younger(passed, l, now')
    BY <1>1
  <2>2. /\ passed \subseteq EntryOf(now) /\ Bounded(passed, l)
        /\ k > restarts => passed = {}
    BY DEF LInv
  <2> HIDE DEF passed
  <2>3. /\ Younger(passed, l, now') \subseteq passed /\ IsFiniteSet(Younger(passed, l, now'))
        /\ Cardinality(Younger(passed, l, now')) \in Nat /\ Cardinality(passed) \in Nat
        /\ Cardinality(Younger(passed, l, now')) <= Cardinality(passed)
    BY <2>2, YoungerLeft, FS_CardinalityType DEF Bounded
  <2>4. Cardinality(Younger(passed, l, now')) <= Limit(l)
    BY <2>2, <2>3, WindowsAndLimits DEF Bounded
  <2> QED
    BY <1>2, <2>1, <2>2, <2>3, <2>4 DEF Bounded
<1>6. recent' \in [Limiters -> [Callers -> [Lives -> SUBSET EntryOf(now')]]]
  <2>1. \A l \in Limiters, c \in Callers, k \in Lives :
           Younger(recent[l][c][k], l, now + 1) \in SUBSET EntryOf(now')
    BY <1>1, <1>5
  <2> QED
    BY <1>1, <2>1
<1>7. ASSUME NEW l \in Limiters, NEW c \in Callers
      PROVE  /\ Sound(records'[l][c], recent'[l][c][restarts'], l, now')
             /\ \A k \in Lives : Bounded(recent'[l][c][k], l)
             /\ \A k \in Lives : k > restarts' => recent'[l][c][k] = {}
  BY <1>1, <1>3, <1>5
<1>8. now' \in Nat /\ restarts' \in Lives
  BY <1>1
<1> QED
  BY <1>4, <1>6, <1>7, <1>8 DEF LInv

\* A restart forgets the records, and what was let through before it was in another life.
LEMMA RestartKeepsLInv ==
    ASSUME LInv, Restart
    PROVE  LInv'
<1>1. /\ now' = now /\ recent' = recent /\ restarts' = restarts + 1
      /\ records' = [l \in Limiters |-> [c \in Callers |-> {}]]
      /\ restarts \in Nat /\ restarts' \in Lives
  BY TimesAssumption DEF Restart, LInv, Lives
<1>2. \A l \in Limiters, c \in Callers, k \in Lives :
        /\ Bounded(recent[l][c][k], l)
        /\ k > restarts => recent[l][c][k] = {}
  BY DEF LInv
<1>3. /\ \A k \in Lives : k > restarts' => k > restarts
      /\ restarts' > restarts
  BY <1>1 DEF Lives
<1>4. \A l \in Limiters, c \in Callers :
        Sound(records'[l][c], recent'[l][c][restarts'], l, now')
  BY <1>1, <1>2, <1>3, EmptySound
<1> QED
  BY <1>1, <1>2, <1>3, <1>4 DEF LInv

LEMMA NextLInv == LInv /\ [Next]_vars => LInv'
<1> SUFFICES ASSUME LInv, [Next]_vars PROVE LInv'
  OBVIOUS
<1>1. now' = now /\ UNCHANGED limitVars => LInv'
  BY DEF LInv, limitVars
<1>2. ASSUME NEW c \in Callers, Call(c) PROVE LInv'
  <2>1. now' = now /\ \E l \in Limiters : Limited(l, c) \/ Allowed(l, c)
    BY <1>2 DEF Call, TooMany, BadRequest, CreateGivesUp, JoinUnknown, JoinExpired, CreateStarts,
       JoinStarts, Limiters
  <2> QED
    BY <2>1, CheckKeepsLInv
<1>3. ASSUME NEW q \in Requests, Scrypt(q) PROVE LInv'
  BY <1>1, <1>3 DEF Scrypt, CreateFails, JoinFinishes, CreateFinishes
<1>4. ASSUME NEW t \in tokens, WithToken(t) PROVE LInv'
  BY <1>1, <1>4 DEF WithToken, InfoExpired, End, ConnectExpired, Connect
<1>5. ASSUME NEW s \in Sessions, NEW role \in {"instructor", "student"}, Disconnect(s, role)
      PROVE LInv'
  BY <1>1, <1>5 DEF Disconnect
<1>6. CASE Tick
  BY <1>6, TickKeepsLInv
<1>7. CASE Restart
  BY <1>7, RestartKeepsLInv
<1>8. CASE UNCHANGED vars
  BY <1>1, <1>8 DEF vars, limitVars
<1> QED
  BY <1>2, <1>3, <1>4, <1>5, <1>6, <1>7, <1>8 DEF Next

\* However calls, refusals and time interleave, a limiter has let no more than its limit through
\* in the window that ends now, and goes by exactly these calls, in each life of the server by
\* itself: what was let through before a restart stays on the books here, and is not known to the
\* code (checkLimit).
THEOREM LimitersExact == Spec => []LimiterExact
<1>1. Init => LInv
  <2>1. \A l \in Limiters : Bounded({}, l)
    BY WindowsAndLimits, FS_EmptySet DEF Bounded
  <2> QED
    BY <2>1, EmptySound, TimesAssumption DEF Init, LInv, EntryOf, Lives
<1>2. LInv => LimiterExact
  BY DEF LInv, Sound, Bounded, LimiterExact
<1> QED
  BY <1>1, <1>2, NextLInv, PTL DEF Spec
=============================================================================
