--------------------------- MODULE ChunkStoreProofs ---------------------------
(***************************************************************************)
(* Proofs about ChunkStore: for any chunks and any number of calls in      *)
(* progress, its state keeps its types, every call is in the care of       *)
(* exactly one of the open request, the queue of transactions and the      *)
(* memory store, and reads are fresh.                                      *)
(***************************************************************************)
EXTENDS ChunkStore, SequenceTheorems, TLAPS

Inv == TypeOK /\ NoCallForgotten

\* What the elements of a sequence are after one is appended, or the first is removed: what
\* waiting and queue go through.
LEMMA AppendSet ==
    ASSUME NEW S, NEW s \in Seq(S), NEW e \in S
    PROVE  /\ Append(s, e) \in Seq(S)
           /\ Append(s, e) # <<>>
           /\ ToSet(Append(s, e)) = ToSet(s) \cup {e}
           /\ Distinct(s) /\ e \notin ToSet(s) => Distinct(Append(s, e))
<1> DEFINE t == Append(s, e)
<1>1. /\ t \in Seq(S) /\ Len(s) \in Nat /\ Len(t) = Len(s) + 1 /\ t # <<>>
      /\ DOMAIN s = 1..Len(s) /\ DOMAIN t = 1..(Len(s) + 1)
      /\ t[Len(s) + 1] = e /\ \A i \in DOMAIN s : t[i] = s[i]
  OBVIOUS
<1> HIDE DEF t
<1>2. ToSet(t) = ToSet(s) \cup {e}
  <2>1. ASSUME NEW i \in DOMAIN t
        PROVE  t[i] \in ToSet(s) \cup {e}
    <3>1. CASE i = Len(s) + 1
      BY <1>1, <3>1
    <3>2. CASE i \in DOMAIN s
      BY <1>1, <3>2 DEF ToSet
    <3> QED BY <1>1, <2>1, <3>1, <3>2
  <2>2. \A i \in DOMAIN s : i \in DOMAIN t /\ s[i] = t[i]
    BY <1>1
  <2>3. e = t[Len(s) + 1] /\ Len(s) + 1 \in DOMAIN t
    BY <1>1
  <2> QED BY <2>1, <2>2, <2>3 DEF ToSet
<1>3. ASSUME Distinct(s), e \notin ToSet(s)
      PROVE  Distinct(t)
  <2>1. \A i \in DOMAIN s : s[i] # e
    BY <1>3 DEF ToSet
  <2> QED BY <1>1, <1>3, <2>1 DEF Distinct
<1> QED BY <1>1, <1>2, <1>3 DEF t

LEMMA TailSet ==
    ASSUME NEW S, NEW s \in Seq(S), s # <<>>, Distinct(s)
    PROVE  /\ Head(s) \in ToSet(s)
           /\ Tail(s) \in Seq(S)
           /\ ToSet(Tail(s)) = ToSet(s) \ {Head(s)}
           /\ Distinct(Tail(s))
<1>1. Head(s) = s[1] /\ 1 \in DOMAIN s /\ Len(s) \in Nat /\ Len(s) > 0
  OBVIOUS
<1>2. Tail(s) \in Seq(S) /\ Len(Tail(s)) = Len(s) - 1
      /\ \A i \in 1..(Len(s) - 1) : Tail(s)[i] = s[i + 1]
  OBVIOUS
<1>3. ToSet(Tail(s)) = ToSet(s) \ {Head(s)}
  <2>1. ASSUME NEW i \in DOMAIN Tail(s)
        PROVE  Tail(s)[i] \in ToSet(s) \ {Head(s)}
    <3>1. i + 1 \in DOMAIN s /\ i + 1 # 1 /\ Tail(s)[i] = s[i + 1]
      BY <1>1, <1>2
    <3> QED BY <1>1, <3>1 DEF ToSet, Distinct
  <2>2. ASSUME NEW i \in DOMAIN s, s[i] # Head(s)
        PROVE  s[i] \in ToSet(Tail(s))
    <3>1. i - 1 \in DOMAIN Tail(s) /\ Tail(s)[i - 1] = s[i]
      BY <1>1, <1>2, <2>2
    <3> QED BY <3>1 DEF ToSet
  <2> QED BY <2>1, <2>2 DEF ToSet
<1>4. Distinct(Tail(s))
  <2> SUFFICES ASSUME NEW i \in DOMAIN Tail(s), NEW j \in DOMAIN Tail(s), Tail(s)[i] = Tail(s)[j]
               PROVE  i = j
    BY DEF Distinct
  <2>1. i + 1 \in DOMAIN s /\ j + 1 \in DOMAIN s /\ s[i + 1] = s[j + 1]
    BY <1>1, <1>2
  <2> QED BY <1>2, <2>1 DEF Distinct
<1> QED BY <1>1, <1>2, <1>3, <1>4 DEF ToSet

LEMMA EmptySet == ToSet(<<>>) = {} /\ Distinct(<<>>)
  BY DEF ToSet, Distinct

-----------------------------------------------------------------------------
\* Where the calls are, apart from what they read and write.
Placed ==
    /\ supported \in BOOLEAN
    /\ handle \in {"none", "opening", "open"}
    /\ op \in [Calls -> Operations \cup {NoOp}]
    /\ waiting \in Seq(Calls) /\ queue \in Seq(Calls) /\ fallenBack \subseteq Calls
    /\ NoCallForgotten

\* What the stores hold, and the client believes.
Believed ==
    /\ database \in Contents /\ memory \in Contents
    /\ reply = NoReply \/ reply.call \in Calls
    /\ settled \in Beliefs /\ expects \in [Calls -> Beliefs]

LEMMA InvParts == Inv <=> Placed /\ Believed
  BY DEF Inv, TypeOK, Placed, Believed

LEMMA StartsBusy ==
    ASSUME Placed, NEW c \in Calls, NEW o \in Operations, Starts(c, o)
    PROVE  /\ op' \in [Calls -> Operations \cup {NoOp}]
           /\ Busy' = Busy \cup {c}
           /\ c \notin Busy
  BY NoOpAssumption DEF Placed, Starts, Busy

LEMMA EndsBusy ==
    ASSUME Placed, NEW c \in Calls, Ends(c)
    PROVE  /\ op' \in [Calls -> Operations \cup {NoOp}]
           /\ Busy' = Busy \ {c}
  BY DEF Placed, Ends, Busy

\* A call starts: it is placed with the memory store, the open request or the transactions.
LEMMA CallPlaced ==
    ASSUME Placed, NEW c \in Calls, Call(c)
    PROVE  Placed'
<1> PICK o \in Operations : CallUnsupported(c, o) \/ CallWaits(c, o) \/ CallQueues(c, o)
  BY DEF Call
<1>1. CASE CallUnsupported(c, o)
  <2>1. /\ op' \in [Calls -> Operations \cup {NoOp}] /\ Busy' = Busy \cup {c} /\ c \notin Busy
    BY <1>1, StartsBusy DEF CallUnsupported
  <2> QED BY <1>1, <2>1 DEF CallUnsupported, Placed, NoCallForgotten
<1>2. CASE CallWaits(c, o)
  <2>1. /\ op' \in [Calls -> Operations \cup {NoOp}] /\ Busy' = Busy \cup {c} /\ c \notin Busy
    BY <1>2, StartsBusy DEF CallWaits
  <2>2. /\ waiting' = Append(waiting, c) /\ handle' = "opening"
        /\ UNCHANGED <<supported, queue, fallenBack>> /\ handle # "open"
    BY <1>2 DEF CallWaits
  <2>3. /\ waiting' \in Seq(Calls) /\ waiting' # <<>>
        /\ ToSet(waiting') = ToSet(waiting) \cup {c} /\ Distinct(waiting')
    BY <2>1, <2>2, AppendSet DEF Placed, NoCallForgotten
  <2>4. queue = <<>>
    BY <2>2 DEF Placed, NoCallForgotten
  <2>5. ToSet(queue') = ToSet(queue) /\ (Distinct(queue) => Distinct(queue'))
    BY <2>2
  <2>6. NoCallForgotten'
    BY <2>1, <2>2, <2>3, <2>4, <2>5 DEF Placed, NoCallForgotten
  <2> QED BY <2>1, <2>2, <2>3, <2>6 DEF Placed
<1>3. CASE CallQueues(c, o)
  <2>1. /\ op' \in [Calls -> Operations \cup {NoOp}] /\ Busy' = Busy \cup {c} /\ c \notin Busy
    BY <1>3, StartsBusy DEF CallQueues
  <2>2. /\ queue' = Append(queue, c) /\ handle = "open"
        /\ UNCHANGED <<supported, handle, waiting, fallenBack>>
    BY <1>3 DEF CallQueues
  <2>3. /\ queue' \in Seq(Calls)
        /\ ToSet(queue') = ToSet(queue) \cup {c} /\ Distinct(queue')
    BY <2>1, <2>2, AppendSet DEF Placed, NoCallForgotten
  <2>4. ToSet(waiting') = ToSet(waiting) /\ (Distinct(waiting) => Distinct(waiting'))
    BY <2>2
  <2>5. NoCallForgotten'
    BY <2>1, <2>2, <2>3, <2>4 DEF Placed, NoCallForgotten
  <2> QED BY <2>1, <2>2, <2>3, <2>5 DEF Placed
<1> QED BY <1>1, <1>2, <1>3

\* The open request succeeds: those that awaited it are in the queue.
LEMMA OpenSucceedsPlaced ==
    ASSUME Placed, OpenSucceeds
    PROVE  Placed'
<1>1. /\ queue' = waiting /\ waiting' = <<>> /\ handle = "opening" /\ handle' = "open"
      /\ UNCHANGED <<supported, op, fallenBack>>
  BY DEF OpenSucceeds
<1>2. queue = <<>> /\ ToSet(queue) = {}
  BY <1>1, EmptySet DEF Placed, NoCallForgotten
<1>3. Busy' = Busy /\ waiting' \in Seq(Calls)
  BY <1>1 DEF Busy
<1>4. ToSet(waiting') = {} /\ Distinct(waiting')
  BY <1>1, EmptySet
<1>5. ToSet(queue') = ToSet(waiting) /\ (Distinct(waiting) => Distinct(queue'))
  BY <1>1
<1>6. NoCallForgotten'
  BY <1>1, <1>2, <1>3, <1>4, <1>5 DEF Placed, NoCallForgotten
<1> QED BY <1>1, <1>3, <1>6 DEF Placed

\* It fails: the call that made it goes to memory, and the others are over.
LEMMA OpenFailsPlaced ==
    ASSUME Placed, OpenFails
    PROVE  Placed'
<1> DEFINE rejected == ToSet(Tail(waiting))
<1>1. /\ handle = "opening" /\ handle' = "none" /\ waiting' = <<>>
      /\ fallenBack' = fallenBack \cup {Head(waiting)}
      /\ op' = [c \in Calls |-> IF c \in rejected THEN NoOp ELSE op[c]]
      /\ UNCHANGED <<supported, queue>>
  BY DEF OpenFails
<1>2. /\ waiting # <<>> /\ Head(waiting) \in ToSet(waiting)
      /\ rejected = ToSet(waiting) \ {Head(waiting)} /\ Head(waiting) \in Calls
  <2>1. waiting # <<>> /\ waiting \in Seq(Calls) /\ Distinct(waiting)
    BY <1>1 DEF Placed, NoCallForgotten
  <2>2. Head(waiting) \in Calls
    BY <2>1
  <2> QED BY <2>1, <2>2, TailSet
<1> HIDE DEF rejected
<1>3. queue = <<>> /\ ToSet(queue) = {}
  BY <1>1, EmptySet DEF Placed, NoCallForgotten
<1>4. Busy' = Busy \ rejected /\ op' \in [Calls -> Operations \cup {NoOp}]
  BY <1>1 DEF Busy, Placed
<1>5. ToSet(waiting') = {} /\ Distinct(waiting') /\ waiting' \in Seq(Calls)
  BY <1>1, EmptySet
<1>6. ToSet(queue') = {} /\ Distinct(queue')
  BY <1>1, <1>3, EmptySet
<1>7. NoCallForgotten'
  BY <1>1, <1>2, <1>3, <1>4, <1>5, <1>6 DEF Placed, NoCallForgotten
<1> QED BY <1>1, <1>2, <1>4, <1>5, <1>7 DEF Placed

\* A call goes on in memory, and is over.
LEMMA MemoryPlaced ==
    ASSUME Placed, NEW c \in Calls, RunOnMemory(c)
    PROVE  Placed'
<1>1. /\ c \in fallenBack /\ fallenBack' = fallenBack \ {c}
      /\ UNCHANGED <<supported, handle, waiting, queue>> /\ Ends(c)
  BY DEF RunOnMemory, Resolves
<1>2. op' \in [Calls -> Operations \cup {NoOp}] /\ Busy' = Busy \ {c}
  BY <1>1, EndsBusy
<1>3. /\ ToSet(waiting') = ToSet(waiting) /\ ToSet(queue') = ToSet(queue)
      /\ (Distinct(waiting) => Distinct(waiting')) /\ (Distinct(queue) => Distinct(queue'))
  BY <1>1
<1>4. NoCallForgotten'
  BY <1>1, <1>2, <1>3 DEF Placed, NoCallForgotten
<1> QED BY <1>1, <1>2, <1>4 DEF Placed

\* The oldest transaction runs, and its call is over, however it ends.
LEMMA TransactionPlaced ==
    ASSUME Placed, NEW c \in Calls, Runs(c), Ends(c)
    PROVE  Placed'
<1>1. /\ queue # <<>> /\ c = Head(queue) /\ queue' = Tail(queue)
      /\ UNCHANGED <<supported, handle, waiting, fallenBack>>
  BY DEF Runs
<1>2. op' \in [Calls -> Operations \cup {NoOp}] /\ Busy' = Busy \ {c}
  BY EndsBusy
<1>3. /\ c \in ToSet(queue) /\ queue' \in Seq(Calls)
      /\ ToSet(queue') = ToSet(queue) \ {c} /\ Distinct(queue')
  BY <1>1, TailSet DEF Placed, NoCallForgotten
<1>4. ToSet(waiting') = ToSet(waiting) /\ (Distinct(waiting) => Distinct(waiting'))
  BY <1>1
<1>5. NoCallForgotten'
  BY <1>1, <1>2, <1>3, <1>4 DEF Placed, NoCallForgotten
<1> QED BY <1>1, <1>2, <1>3, <1>5 DEF Placed

LEMMA NextPlaced ==
    ASSUME Placed, Next
    PROVE  Placed'
<1>1. CASE OpenAnswers
  BY <1>1, OpenSucceedsPlaced, OpenFailsPlaced DEF OpenAnswers
<1>2. ASSUME NEW c \in Calls, Call(c)
      PROVE  Placed'
  BY <1>2, CallPlaced
<1>3. ASSUME NEW c \in Calls, Proceeds(c)
      PROVE  Placed'
  <2>1. CASE RunOnMemory(c)
    BY <2>1, MemoryPlaced
  <2>2. CASE TransactionSucceeds(c) \/ TransactionFails(c) \/ TransactionAborts(c)
    <3>1. Runs(c) /\ Ends(c)
      BY <2>2 DEF TransactionSucceeds, TransactionFails, TransactionAborts, Resolves, Rejects
    <3> QED BY <3>1, TransactionPlaced
  <2> QED BY <1>3, <2>1, <2>2 DEF Proceeds
<1> QED BY <1>1, <1>2, <1>3 DEF Next

-----------------------------------------------------------------------------
LEMMA BecomesData ==
    ASSUME NEW o \in Operations
    PROVE  Becomes(o) \in Data \cup {None}
  BY DEF Operations, Becomes

LEMMA ChangedContents ==
    ASSUME NEW contents \in Contents, NEW o \in Operations
    PROVE  Changed(contents, o) \in Contents
  BY BecomesData DEF Changed, Contents

LEMMA DoubtBeliefs ==
    ASSUME NEW belief \in Beliefs, NEW o
    PROVE  Doubt(belief, o) \in Beliefs
  BY DEF Doubt, Beliefs

LEMMA NoBeliefBeliefs == NoBelief \in Beliefs
  BY DEF NoBelief, Beliefs

LEMMA StartsBelieved ==
    ASSUME Believed, NEW c \in Calls, NEW o \in Operations, Starts(c, o),
           UNCHANGED <<database, memory>>
    PROVE  Believed'
<1>1. /\ reply' = NoReply
      /\ settled' = Doubt(settled, o)
      /\ expects' = [d \in Calls |-> IF d = c THEN settled
                                     ELSE IF d \in Busy THEN Doubt(expects[d], o) ELSE NoBelief]
  BY DEF Starts
<1>2. \A d \in Calls : Doubt(expects[d], o) \in Beliefs
  BY DoubtBeliefs DEF Believed
<1> QED BY <1>1, <1>2, DoubtBeliefs, NoBeliefBeliefs DEF Believed

LEMMA EndsBelieved ==
    ASSUME Believed, NEW c \in Calls, Ends(c)
    PROVE  expects' \in [Calls -> Beliefs]
  BY NoBeliefBeliefs DEF Ends, Believed

LEMMA ResolvesBelieved ==
    ASSUME Placed, Believed, NEW c \in Busy, NEW contents, NEW effective, Resolves(c, contents, effective)
    PROVE  /\ reply'.call \in Calls /\ settled' \in Beliefs /\ expects' \in [Calls -> Beliefs]
<1>1. c \in Calls /\ op[c] \in Operations
  BY DEF Busy, Placed
<1>2. Ends(c) /\ reply'.call = c
  BY DEF Resolves
<1>3. settled' \in Beliefs
  <2>1. Becomes(op[c]) \in Data \cup {None}
    BY <1>1, BecomesData
  <2> QED BY <2>1 DEF Resolves, Beliefs, Believed
<1> QED BY <1>1, <1>2, <1>3, EndsBelieved

LEMMA NextBelieved ==
    ASSUME Placed, Believed, Next
    PROVE  Believed'
<1>1. CASE OpenSucceeds
  BY <1>1, NoBeliefBeliefs DEF OpenSucceeds, Believed
<1>2. CASE OpenFails
  BY <1>2, NoBeliefBeliefs DEF OpenFails, Believed
<1>3. ASSUME NEW c \in Calls, Call(c)
      PROVE  Believed'
  <2> PICK o \in Operations : CallUnsupported(c, o) \/ CallWaits(c, o) \/ CallQueues(c, o)
    BY <1>3 DEF Call
  <2>1. Starts(c, o) /\ UNCHANGED <<database, memory>>
    BY DEF CallUnsupported, CallWaits, CallQueues
  <2> QED BY <2>1, StartsBelieved
<1>4. ASSUME NEW c \in Calls, RunOnMemory(c)
      PROVE  Believed'
  <2>1. c \in Busy
    BY <1>4 DEF RunOnMemory, Placed, NoCallForgotten
  <2>2. Resolves(c, memory, handle # "open")
    BY <1>4 DEF RunOnMemory
  <2>3. memory' \in Contents /\ database' = database
    BY <1>4, <2>1, ChangedContents DEF RunOnMemory, Believed, Placed, Busy
  <2>4. /\ reply'.call \in Calls /\ settled' \in Beliefs /\ expects' \in [Calls -> Beliefs]
    BY <2>1, <2>2, ResolvesBelieved
  <2> QED BY <2>3, <2>4 DEF Believed
<1>5. ASSUME NEW c \in Calls,
             TransactionSucceeds(c) \/ TransactionFails(c) \/ TransactionAborts(c)
      PROVE  Believed'
  <2>1. Runs(c) /\ memory' = memory
    BY <1>5 DEF TransactionSucceeds, TransactionFails, TransactionAborts, Runs
  <2>2. c \in Busy
    <3>1. queue # <<>> /\ queue \in Seq(Calls) /\ Distinct(queue) /\ c = Head(queue)
      BY <2>1 DEF Runs, Placed, NoCallForgotten
    <3>2. c \in ToSet(queue)
      BY <3>1, TailSet
    <3> QED BY <3>2 DEF Placed, NoCallForgotten
  <2>3. CASE TransactionSucceeds(c)
    <3>1. database' \in Contents
      BY <2>2, <2>3, ChangedContents DEF TransactionSucceeds, Believed, Placed, Busy
    <3>2. Resolves(c, database, TRUE)
      BY <2>3 DEF TransactionSucceeds
    <3>3. /\ reply'.call \in Calls /\ settled' \in Beliefs /\ expects' \in [Calls -> Beliefs]
      BY <2>2, <3>2, ResolvesBelieved
    <3> QED BY <2>1, <3>1, <3>3 DEF Believed
  <2>4. CASE TransactionFails(c)
    BY <2>1, <2>4, EndsBelieved DEF TransactionFails, Rejects, Believed
  <2>5. CASE TransactionAborts(c)
    <3>1. Resolves(c, database, FALSE) /\ database' = database
      BY <2>5 DEF TransactionAborts
    <3>2. /\ reply'.call \in Calls /\ settled' \in Beliefs /\ expects' \in [Calls -> Beliefs]
      BY <2>2, <3>1, ResolvesBelieved
    <3> QED BY <2>1, <3>1, <3>2 DEF Believed
  <2> QED BY <1>5, <2>3, <2>4, <2>5
<1> QED BY <1>1, <1>2, <1>3, <1>4, <1>5 DEF Next, OpenAnswers, Proceeds

-----------------------------------------------------------------------------
LEMMA InitInv == Init => Inv
<1> SUFFICES ASSUME Init PROVE Inv
  OBVIOUS
<1>1. Believed
  BY NoBeliefBeliefs DEF Init, Believed, Contents, NoBelief, Beliefs
<1>2. NoCallForgotten
  <2>1. Busy = {} /\ waiting = <<>> /\ queue = <<>> /\ fallenBack = {} /\ handle = "none"
    BY DEF Init, Busy
  <2> QED BY <2>1, EmptySet DEF NoCallForgotten
<1>3. Placed
  BY <1>2 DEF Init, Placed
<1> QED BY <1>1, <1>3, InvParts

LEMMA StutterInv == Inv /\ UNCHANGED vars => Inv'
  BY DEF Inv, TypeOK, NoCallForgotten, vars, Busy, Distinct, ToSet

LEMMA NextInv == Inv /\ [Next]_vars => Inv'
<1> SUFFICES ASSUME Inv, [Next]_vars PROVE Inv'
  OBVIOUS
<1>1. CASE Next
  <2>1. Placed /\ Believed
    BY InvParts
  <2>2. Placed' /\ Believed'
    BY <1>1, <2>1, NextPlaced, NextBelieved
  <2> QED BY <2>2 DEF Inv, TypeOK, Placed, Believed
<1>2. CASE UNCHANGED vars
  BY <1>2, StutterInv
<1> QED BY <1>1, <1>2

\* The store's state keeps its types, for any chunks, data and number of calls in progress.
THEOREM TypeCorrect == Spec => []TypeOK
<1>1. Inv => TypeOK
  BY DEF Inv
<1> QED BY <1>1, InitInv, NextInv, PTL DEF Spec

\* No call is left without anybody to settle it: when the open request fails, those that shared
\* it are over or with the memory store, none in the queue of a database that is not open
\* (getDb).
THEOREM CallsCaredFor == Spec => []NoCallForgotten
<1>1. Inv => NoCallForgotten
  BY DEF Inv
<1> QED BY <1>1, InitInv, NextInv, PTL DEF Spec
-----------------------------------------------------------------------------
(***************************************************************************)
(* What reads are answered with.                                           *)
(***************************************************************************)
\* o may change chunk k.
Alters(o, k) == Changes(o) /\ k \in Touches(o)

\* The store a call that starts now would read, if it is not rejected.
Store == IF handle = "open" THEN database ELSE memory

\* What the client knows of a chunk is in the store, and nothing in progress may change it.
SettledHolds ==
    \A k \in Keys : settled[k] # Unknown =>
        Store[k] = settled[k] /\ \A d \in Busy : ~Alters(op[d], k)

\* The same of what a call may rely on, but for the call itself, and the call will read that store.
ExpectsHold ==
    \A c \in Busy : \A k \in Keys : expects[c][k] # Unknown =>
        /\ Store[k] = expects[c][k]
        /\ \A d \in Busy \ {c} : ~Alters(op[d], k)
        /\ handle = "open" => c \notin fallenBack

FInv ==
    /\ handle # "none" => supported
    /\ SettledHolds
    /\ ExpectsHold

\* What an operation does to one chunk.
LEMMA ChangedAt ==
    ASSUME NEW contents, NEW o, NEW k \in Keys
    PROVE  Changed(contents, o)[k] = IF Alters(o, k) THEN Becomes(o) ELSE contents[k]
  BY DEF Changed, Alters

\* A call starts: what it may change is known to nobody from then on.
LEMMA CallFresh ==
    ASSUME Inv, FInv, NEW c \in Calls, Call(c)
    PROVE  FInv'
<1> PICK o \in Operations : CallUnsupported(c, o) \/ CallWaits(c, o) \/ CallQueues(c, o)
  BY DEF Call
<1>1. /\ Starts(c, o) /\ UNCHANGED <<supported, database, memory>>
      /\ handle' = "open" <=> handle = "open"
      /\ handle' # "none" => supported
      /\ handle' = "open" => fallenBack' = fallenBack /\ c \notin fallenBack'
  <2>1. c \notin fallenBack \/ c \in Busy
    BY DEF Inv, NoCallForgotten
  <2>2. c \notin Busy
    BY DEF Starts, CallUnsupported, CallWaits, CallQueues
  <2> QED
    BY <2>1, <2>2 DEF CallUnsupported, CallWaits, CallQueues, FInv
<1>2. /\ op \in [Calls -> Operations \cup {NoOp}] /\ expects \in [Calls -> Beliefs] /\ settled \in Beliefs
  BY DEF Inv, TypeOK
<1>3. Placed
  BY DEF Inv, TypeOK, Placed
<1>4. Busy' = Busy \cup {c} /\ c \notin Busy /\ Busy \subseteq Calls
  BY <1>1, <1>3, StartsBusy DEF Busy
<1>5. op'[c] = o /\ \A d \in Busy : op'[d] = op[d]
  BY <1>1, <1>2, <1>4 DEF Starts
<1>6. Store' = Store
  BY <1>1 DEF Store
<1>7. settled' = Doubt(settled, o) /\ expects'[c] = settled /\ \A d \in Busy : expects'[d] = Doubt(expects[d], o)
  BY <1>1, <1>4 DEF Starts
<1>8. SettledHolds'
  <2> SUFFICES ASSUME NEW k \in Keys, settled'[k] # Unknown
               PROVE  Store'[k] = settled'[k] /\ \A d \in Busy' : ~Alters(op'[d], k)
    BY DEF SettledHolds, Alters, Changes, Touches
  <2>1. settled'[k] = settled[k] /\ settled[k] # Unknown /\ ~Alters(o, k)
    BY <1>7 DEF Doubt, Alters
  <2>2. Store[k] = settled[k] /\ \A d \in Busy : ~Alters(op[d], k)
    BY <2>1 DEF FInv, SettledHolds
  <2> QED
    BY <1>4, <1>5, <1>6, <2>1, <2>2
<1>9. ExpectsHold'
  <2> SUFFICES ASSUME NEW b \in Busy', NEW k \in Keys, expects'[b][k] # Unknown
               PROVE  /\ Store'[k] = expects'[b][k]
                      /\ \A d \in Busy' \ {b} : ~Alters(op'[d], k)
                      /\ handle' = "open" => b \notin fallenBack'
    BY DEF ExpectsHold, Alters, Changes, Touches
  <2>1. CASE b = c
    <3>1. Store[k] = settled[k] /\ \A d \in Busy : ~Alters(op[d], k)
      BY <1>7, <2>1 DEF FInv, SettledHolds
    <3> QED
      BY <1>1, <1>4, <1>5, <1>6, <1>7, <2>1, <3>1
  <2>2. CASE b # c
    <3>1. b \in Busy
      BY <1>4, <2>2
    <3>2. expects'[b][k] = expects[b][k] /\ expects[b][k] # Unknown /\ ~Alters(o, k)
      BY <1>7, <3>1 DEF Doubt, Alters
    <3>3. /\ Store[k] = expects[b][k] /\ \A d \in Busy \ {b} : ~Alters(op[d], k)
          /\ handle = "open" => b \notin fallenBack
      BY <3>1, <3>2 DEF FInv, ExpectsHold
    <3> QED
      BY <1>1, <1>4, <1>5, <1>6, <3>2, <3>3
  <2> QED
    BY <2>1, <2>2
<1> QED
  BY <1>1, <1>8, <1>9 DEF FInv

\* A call is over, having changed the store or not.
LEMMA EndFresh ==
    ASSUME Inv, FInv, NEW c \in Busy, NEW effective \in BOOLEAN,
           Ends(c), UNCHANGED <<supported, handle>>, fallenBack' \subseteq fallenBack,
           \A k \in Keys : Store'[k] = IF effective /\ Alters(op[c], k) THEN Becomes(op[c]) ELSE Store[k],
           \A k \in Keys : settled'[k] = IF effective /\ Alters(op[c], k)
                                              /\ ~\E d \in Busy \ {c} : Alters(op[d], k)
                                         THEN Becomes(op[c]) ELSE settled[k]
    PROVE  FInv'
<1>1. op \in [Calls -> Operations \cup {NoOp}] /\ expects \in [Calls -> Beliefs] /\ Placed /\ c \in Calls
  BY DEF Inv, TypeOK, Placed, Busy
<1>2. Busy' = Busy \ {c} /\ Busy \subseteq Calls
  BY <1>1, EndsBusy DEF Busy
<1>3. \A d \in Busy' : op'[d] = op[d] /\ expects'[d] = expects[d]
  BY <1>1, <1>2 DEF Ends
<1>4. SettledHolds'
  <2> SUFFICES ASSUME NEW k \in Keys, settled'[k] # Unknown
               PROVE  Store'[k] = settled'[k] /\ \A d \in Busy' : ~Alters(op'[d], k)
    BY DEF SettledHolds, Alters, Changes, Touches
  <2>1. CASE effective /\ Alters(op[c], k) /\ ~\E d \in Busy \ {c} : Alters(op[d], k)
    BY <1>2, <1>3, <2>1
  <2>2. CASE ~(effective /\ Alters(op[c], k) /\ ~\E d \in Busy \ {c} : Alters(op[d], k))
    <3>1. settled'[k] = settled[k] /\ settled[k] # Unknown
      BY <2>2
    <3>2. Store[k] = settled[k] /\ \A d \in Busy : ~Alters(op[d], k)
      BY <3>1 DEF FInv, SettledHolds
    <3> QED
      BY <1>2, <1>3, <3>1, <3>2
  <2> QED
    BY <2>1, <2>2
<1>5. ExpectsHold'
  <2> SUFFICES ASSUME NEW b \in Busy', NEW k \in Keys, expects'[b][k] # Unknown
               PROVE  /\ Store'[k] = expects'[b][k]
                      /\ \A d \in Busy' \ {b} : ~Alters(op'[d], k)
                      /\ handle' = "open" => b \notin fallenBack'
    BY DEF ExpectsHold, Alters, Changes, Touches
  <2>1. b \in Busy /\ b # c /\ expects'[b][k] = expects[b][k] /\ expects[b][k] # Unknown
    BY <1>2, <1>3
  <2>2. /\ Store[k] = expects[b][k] /\ \A d \in Busy \ {b} : ~Alters(op[d], k)
        /\ handle = "open" => b \notin fallenBack
    BY <2>1 DEF FInv, ExpectsHold
  <2>3. ~Alters(op[c], k)
    BY <2>1, <2>2
  <2> QED
    BY <1>2, <1>3, <2>1, <2>2, <2>3
<1> QED
  BY <1>4, <1>5 DEF FInv

\* The open request fails: those that shared it are over, and the stores are what they were.
LEMMA OpenFailsFresh ==
    ASSUME Inv, FInv, OpenFails
    PROVE  FInv'
<1> DEFINE rejected == ToSet(Tail(waiting))
<1>1. /\ handle = "opening" /\ handle' = "none" /\ UNCHANGED <<supported, database, memory, settled>>
      /\ op' = [d \in Calls |-> IF d \in rejected THEN NoOp ELSE op[d]]
      /\ expects' = [d \in Calls |-> IF d \in rejected THEN NoBelief ELSE expects[d]]
  BY DEF OpenFails
<1> HIDE DEF rejected
<1>2. Busy' \subseteq Busy /\ \A d \in Busy' : op'[d] = op[d] /\ expects'[d] = expects[d]
  BY <1>1 DEF Busy
<1>3. Store' = Store
  BY <1>1 DEF Store
<1>4. SettledHolds'
  BY <1>1, <1>2, <1>3 DEF FInv, SettledHolds, Alters, Changes, Touches
<1>5. ExpectsHold'
  BY <1>1, <1>2, <1>3 DEF FInv, ExpectsHold, Alters, Changes, Touches
<1> QED
  BY <1>1, <1>4, <1>5 DEF FInv

\* What the client may rely on is what it is answered.
LEMMA AnswerAgrees ==
    ASSUME Inv, NEW c \in Busy, NEW contents,
           \A k \in Keys : expects[c][k] # Unknown => contents[k] = expects[c][k]
    PROVE  Agrees(c, Answer(contents, op[c]))
<1> DEFINE o == op[c]
           known == {k \in Touches(o) : expects[c][k] # Unknown}
<1>1. o \in Operations
  BY DEF Inv, TypeOK, Busy
<1>2. Touches(o) \subseteq Keys
  BY <1>1 DEF Operations, Touches
<1>3. \A k \in known : contents[k] = expects[c][k]
  BY <1>2
<1>4. CASE o.kind = "get"
  <2>1. Touches(o) = {o.key} /\ Answer(contents, o) = contents[o.key]
    BY <1>4 DEF Touches, Answer
  <2>2. \A k \in known : Answer(contents, o) = expects[c][k]
    BY <1>3, <2>1
  <2> QED
    BY <1>4, <2>2 DEF Agrees
<1>5. CASE o.kind = "has"
  <2>1. Touches(o) = {o.key} /\ Answer(contents, o) = (contents[o.key] # None)
    BY <1>5 DEF Touches, Answer
  <2>2. \A k \in known : Answer(contents, o) = (expects[c][k] # None)
    BY <1>3, <2>1
  <2> QED
    BY <1>5, <2>2 DEF Agrees
<1>6. CASE o.kind = "available"
  <2>1. /\ Touches(o) = {k \in Keys : k.resource = o.resource}
        /\ Answer(contents, o) = {k.index : k \in {j \in Touches(o) : contents[j] # None}}
    BY <1>6 DEF Touches, Answer
  <2>2. ASSUME NEW k \in known PROVE k.index \in Answer(contents, o) <=> contents[k] # None
    <3>1. ASSUME NEW j \in Touches(o), contents[j] # None, k.index = j.index PROVE contents[k] # None
      <4>1. j.resource = k.resource
        BY <2>1, <2>2, <3>1
      <4>2. j = k
        BY <1>2, <2>2, <3>1, <4>1, KeysAssumption
      <4> QED
        BY <3>1, <4>2
    <3> QED
      BY <2>1, <2>2, <3>1
  <2>3. \A k \in known : k.index \in Answer(contents, o) <=> expects[c][k] # None
    BY <1>3, <2>2
  <2> QED
    BY <1>6, <2>3 DEF Agrees
<1>7. CASE o.kind \notin {"get", "has", "available"}
  BY <1>7 DEF Agrees
<1> QED
  BY <1>4, <1>5, <1>6, <1>7

\* The two stores a call may run on.
LEMMA MemoryFresh ==
    ASSUME Inv, FInv, NEW c \in Calls, RunOnMemory(c)
    PROVE  FInv' /\ Agrees(reply'.call, reply'.value)
<1>1. /\ c \in fallenBack /\ fallenBack' = fallenBack \ {c} /\ memory' = Changed(memory, op[c])
      /\ Resolves(c, memory, handle # "open") /\ UNCHANGED <<supported, handle, database>>
  BY DEF RunOnMemory
<1>2. c \in Busy
  BY <1>1 DEF Inv, NoCallForgotten
<1>3. \A k \in Keys : memory'[k] = IF Alters(op[c], k) THEN Becomes(op[c]) ELSE memory[k]
  BY <1>1, ChangedAt
<1>4. \A k \in Keys : Store'[k] = IF handle # "open" /\ Alters(op[c], k) THEN Becomes(op[c]) ELSE Store[k]
  BY <1>1, <1>3 DEF Store
<1>5. Ends(c) /\ \A k \in Keys : settled'[k] = IF (handle # "open") /\ Alters(op[c], k)
                                                   /\ ~\E d \in Busy \ {c} : Alters(op[d], k)
                                              THEN Becomes(op[c]) ELSE settled[k]
  BY <1>1 DEF Resolves, Alters
<1>6. FInv'
  <2>1. (handle # "open") \in BOOLEAN /\ fallenBack' \subseteq fallenBack
    BY <1>1
  <2> QED
    BY <1>1, <1>2, <1>4, <1>5, <2>1, EndFresh
<1>7. \A k \in Keys : expects[c][k] # Unknown => memory[k] = expects[c][k]
  BY <1>1, <1>2 DEF FInv, ExpectsHold, Store
<1>8. reply'.call = c /\ reply'.value = Answer(memory, op[c])
  BY <1>1 DEF Resolves
<1> QED
  BY <1>2, <1>6, <1>7, <1>8, AnswerAgrees

LEMMA TransactionFresh ==
    ASSUME Inv, FInv, NEW c \in Calls,
           TransactionSucceeds(c) \/ TransactionFails(c) \/ TransactionAborts(c)
    PROVE  FInv' /\ (reply' # NoReply => Agrees(reply'.call, reply'.value))
<1>1. /\ queue # <<>> /\ c = Head(queue) /\ UNCHANGED <<supported, handle, fallenBack, memory>>
  BY DEF TransactionSucceeds, TransactionFails, TransactionAborts, Runs
<1>2. c \in Busy /\ handle = "open"
  <2>1. queue \in Seq(Calls) /\ Distinct(queue)
    BY DEF Inv, TypeOK, NoCallForgotten
  <2>2. c \in ToSet(queue)
    BY <1>1, <2>1, TailSet
  <2> QED
    BY <1>1, <2>2 DEF Inv, NoCallForgotten
<1>3. \A k \in Keys : expects[c][k] # Unknown => database[k] = expects[c][k]
  BY <1>2 DEF FInv, ExpectsHold, Store
<1>4. Store = database /\ Store' = database' /\ fallenBack' \subseteq fallenBack
  BY <1>1, <1>2 DEF Store
<1>5. CASE TransactionSucceeds(c)
  <2>1. database' = Changed(database, op[c]) /\ Resolves(c, database, TRUE)
    BY <1>5 DEF TransactionSucceeds
  <2>2. \A k \in Keys : Store'[k] = IF TRUE /\ Alters(op[c], k) THEN Becomes(op[c]) ELSE Store[k]
    BY <1>4, <2>1, ChangedAt
  <2>3. Ends(c) /\ \A k \in Keys : settled'[k] = IF TRUE /\ Alters(op[c], k)
                                                     /\ ~\E d \in Busy \ {c} : Alters(op[d], k)
                                                THEN Becomes(op[c]) ELSE settled[k]
    BY <2>1 DEF Resolves, Alters
  <2>4. FInv'
    BY <1>1, <1>2, <1>4, <2>2, <2>3, EndFresh
  <2>5. reply'.call = c /\ reply'.value = Answer(database, op[c])
    BY <2>1 DEF Resolves
  <2> QED
    BY <1>2, <1>3, <2>4, <2>5, AnswerAgrees
<1>6. CASE TransactionFails(c)
  <2>1. Ends(c) /\ reply' = NoReply /\ UNCHANGED <<settled, database>>
    BY <1>6 DEF TransactionFails, Rejects
  <2>2. /\ \A k \in Keys : Store'[k] = IF FALSE /\ Alters(op[c], k) THEN Becomes(op[c]) ELSE Store[k]
        /\ \A k \in Keys : settled'[k] = IF FALSE /\ Alters(op[c], k)
                                             /\ ~\E d \in Busy \ {c} : Alters(op[d], k)
                                        THEN Becomes(op[c]) ELSE settled[k]
    BY <1>4, <2>1
  <2>3. FInv'
    BY <1>1, <1>2, <1>4, <2>1, <2>2, EndFresh
  <2> QED
    BY <2>1, <2>3
<1>7. CASE TransactionAborts(c)
  <2>1. Resolves(c, database, FALSE) /\ UNCHANGED database
    BY <1>7 DEF TransactionAborts
  <2>2. \A k \in Keys : Store'[k] = IF FALSE /\ Alters(op[c], k) THEN Becomes(op[c]) ELSE Store[k]
    BY <1>4, <2>1
  <2>3. Ends(c) /\ \A k \in Keys : settled'[k] = IF FALSE /\ Alters(op[c], k)
                                                     /\ ~\E d \in Busy \ {c} : Alters(op[d], k)
                                                THEN Becomes(op[c]) ELSE settled[k]
    BY <2>1 DEF Resolves, Alters
  <2>4. FInv'
    BY <1>1, <1>2, <1>4, <2>2, <2>3, EndFresh
  <2>5. reply'.call = c /\ reply'.value = Answer(database, op[c])
    BY <2>1 DEF Resolves
  <2> QED
    BY <1>2, <1>3, <2>4, <2>5, AnswerAgrees
<1> QED
  BY <1>5, <1>6, <1>7

LEMMA NextFresh ==
    Inv /\ FInv /\ [Next]_vars
        => FInv' /\ ((reply' # NoReply => Agrees(reply'.call, reply'.value)) \/ UNCHANGED vars)
<1> SUFFICES ASSUME Inv, FInv, [Next]_vars
             PROVE  FInv' /\ ((reply' # NoReply => Agrees(reply'.call, reply'.value)) \/ UNCHANGED vars)
  OBVIOUS
<1>1. CASE OpenSucceeds
  <2>1. /\ handle = "opening" /\ supported' = supported /\ reply' = NoReply
        /\ settled' = NoBelief /\ expects' = [c \in Calls |-> NoBelief] /\ UNCHANGED op
    BY <1>1 DEF OpenSucceeds
  <2>2. SettledHolds' /\ ExpectsHold'
    BY <2>1 DEF SettledHolds, ExpectsHold, NoBelief, Busy
  <2> QED
    BY <2>1, <2>2 DEF FInv
<1>2. CASE OpenFails
  BY <1>2, OpenFailsFresh DEF OpenFails
<1>3. ASSUME NEW c \in Calls, Call(c)
      PROVE  FInv' /\ reply' = NoReply
  BY <1>3, CallFresh DEF Call, CallUnsupported, CallWaits, CallQueues, Starts
<1>4. ASSUME NEW c \in Calls, Proceeds(c)
      PROVE  FInv' /\ (reply' # NoReply => Agrees(reply'.call, reply'.value))
  BY <1>4, MemoryFresh, TransactionFresh DEF Proceeds
<1>5. CASE UNCHANGED vars
  BY <1>5 DEF vars, FInv, SettledHolds, ExpectsHold, Store, Busy, Alters, Changes, Touches
<1> QED
  BY <1>1, <1>2, <1>3, <1>4, <1>5 DEF Next, OpenAnswers

\* A read answers with what the calls that resolved before it started have left, whether these
\* waited for the database to open, met one that was open, or went to memory; what nobody can
\* rely on is named in the property (getDb, put, getFallback).
THEOREM FreshReads == Spec => ReadsAreFresh
<1>1. Init => FInv
  BY DEF Init, FInv, SettledHolds, ExpectsHold, NoBelief, Busy
<1>2. Inv /\ FInv /\ [Next]_vars => FInv'
  BY NextFresh
<1>3. Inv /\ FInv /\ [Next]_vars => [reply' # NoReply => Agrees(reply'.call, reply'.value)]_vars
  BY NextFresh
<1> QED
  BY <1>1, <1>2, <1>3, InitInv, NextInv, PTL DEF Spec, ReadsAreFresh
=============================================================================
