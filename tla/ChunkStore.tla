------------------------------ MODULE ChunkStore ------------------------------
(***************************************************************************)
(* The browser's chunk store (apps/web/src/p2p/storage/chunk.store.ts):    *)
(* IndexedDbChunkStore, which opens its database on the first call and     *)
(* falls back to a MemoryChunkStore when that fails.                       *)
(*                                                                         *)
(* A call awaits getDb, that is, the open request in progress, and then    *)
(* runs as one transaction of the database or on the memory store.  The    *)
(* database (its open request, its transactions and their failures) is the *)
(* browser's: the transactions of one object store run one after the       *)
(* other, in the order of their creation.                                  *)
(*                                                                         *)
(* Bytes are abstracted to which data a chunk holds.                       *)
(***************************************************************************)
EXTENDS Naturals, Sequences, SequencesExt

CONSTANTS
    Keys,     \* records of a resourceId and a chunkIndex
    Data,
    None,     \* no data: a chunk that is not there
    Unknown,  \* no expectation
    NoOp,     \* no operation
    Calls     \* bound: calls in progress at the same time

ASSUME KeysAssumption == \A k \in Keys : k = [resource |-> k.resource, index |-> k.index]
ASSUME DataAssumption == None \notin Data /\ Unknown \notin Data \cup {None}

Contents == [Keys -> Data \cup {None}]
Beliefs == [Keys -> Data \cup {None, Unknown}]
Resources == {k.resource : k \in Keys}
NoBelief == [k \in Keys |-> Unknown]

Operations ==
    [kind : {"put"}, key : Keys, data : Data]
        \cup [kind : {"get", "has", "delete"}, key : Keys]
        \cup [kind : {"available", "clear"}, resource : Resources]

ASSUME NoOpAssumption == NoOp \notin Operations

VARIABLES
    supported,     \* indexedDB is defined
    handle,        \* dbPromise: "none", "opening" or "open"
    op,            \* of each call, while it is in progress
    waiting,       \* calls that await dbPromise, the one that created it first
    queue,         \* calls whose transaction was created, oldest first
    fallenBack,    \* calls that go on with the memory store
    database,
    memory,        \* memoryFallback
    reply,         \* what the call that resolved in the last step answered
    \* The client's view:
    settled,       \* what a chunk holds by the calls that resolved, if none may change it
    expects        \* what a call may rely on since it started

vars == <<supported, handle, op, waiting, queue, fallenBack, database, memory, reply, settled,
          expects>>

Busy == {c \in Calls : op[c] # NoOp}

NoReply == <<>>

TypeOK ==
    /\ supported \in BOOLEAN
    /\ handle \in {"none", "opening", "open"}
    /\ op \in [Calls -> Operations \cup {NoOp}]
    /\ waiting \in Seq(Calls) /\ queue \in Seq(Calls) /\ fallenBack \subseteq Calls
    /\ database \in Contents /\ memory \in Contents
    /\ reply = NoReply \/ reply.call \in Calls
    /\ settled \in Beliefs /\ expects \in [Calls -> Beliefs]

(***************************************************************************)
(* The operations, on either store                                         *)
(***************************************************************************)
\* The chunks an operation is about.  Those of a resource have its prefix (in memory) or its
\* index entry (in the database).
Touches(o) ==
    IF o.kind \in {"clear", "available"} THEN {k \in Keys : k.resource = o.resource} ELSE {o.key}

Changes(o) == o.kind \in {"put", "delete", "clear"}
Becomes(o) == IF o.kind = "put" THEN o.data ELSE None

Changed(contents, o) ==
    [k \in Keys |-> IF Changes(o) /\ k \in Touches(o) THEN Becomes(o) ELSE contents[k]]

\* What a call resolves with.
Answer(contents, o) ==
    CASE o.kind = "get" -> contents[o.key]
      [] o.kind = "has" -> contents[o.key] # None
      [] o.kind = "available" -> {k.index : k \in {j \in Touches(o) : contents[j] # None}}
      [] OTHER -> "done"

-----------------------------------------------------------------------------
Init ==
    /\ supported \in BOOLEAN
    /\ handle = "none"
    /\ op = [c \in Calls |-> NoOp]
    /\ waiting = <<>>
    /\ queue = <<>>
    /\ fallenBack = {}
    /\ database \in Contents   \* of earlier visits
    /\ ~supported => database = [k \in Keys |-> None]
    /\ memory = [k \in Keys |-> None]
    /\ reply = NoReply
    /\ settled = NoBelief
    /\ expects = [c \in Calls |-> NoBelief]

\* What o may change, nobody can rely on from its start.
Doubt(belief, o) == [k \in Keys |-> IF Changes(o) /\ k \in Touches(o) THEN Unknown ELSE belief[k]]

Starts(c, o) ==
    /\ c \notin Busy
    /\ op' = [op EXCEPT ![c] = o]
    /\ reply' = NoReply
    /\ settled' = Doubt(settled, o)
    /\ expects' = [d \in Calls |-> IF d = c THEN settled
                                   ELSE IF d \in Busy THEN Doubt(expects[d], o) ELSE NoBelief]

\* c is no longer in progress.
Ends(c) ==
    /\ op' = [op EXCEPT ![c] = NoOp]
    /\ expects' = [expects EXCEPT ![c] = NoBelief]

Rejects(c) == Ends(c) /\ reply' = NoReply /\ UNCHANGED settled

\* c resolves.  If it took effect, what it changed is known again, unless others in progress may
\* change it too.
Resolves(c, contents, effective) ==
    LET contested(k) == \E d \in Busy \ {c} : Changes(op[d]) /\ k \in Touches(op[d])
    IN  /\ Ends(c)
        /\ reply' = [call |-> c, value |-> Answer(contents, op[c])]
        /\ settled' = [k \in Keys |->
               IF effective /\ Changes(op[c]) /\ k \in Touches(op[c]) /\ ~contested(k)
               THEN Becomes(op[c]) ELSE settled[k]]

\* Without indexedDB, every call goes to the memory store.
CallUnsupported(c, o) ==
    /\ ~supported
    /\ Starts(c, o)
    /\ fallenBack' = fallenBack \cup {c}
    /\ UNCHANGED <<supported, handle, waiting, queue, database, memory>>

\* The first call, or the first one after a failure, opens the database; others join it.
CallWaits(c, o) ==
    /\ supported /\ handle \in {"none", "opening"}
    /\ Starts(c, o)
    /\ handle' = "opening"
    /\ waiting' = Append(waiting, c)
    /\ UNCHANGED <<supported, queue, fallenBack, database, memory>>

CallQueues(c, o) ==
    /\ supported /\ handle = "open"
    /\ Starts(c, o)
    /\ queue' = Append(queue, c)
    /\ UNCHANGED <<supported, handle, waiting, fallenBack, database, memory>>

\* Broken OpenSucceeds: only the call that opened the database goes on.
OpenSucceedsForFirst ==
    /\ handle = "opening"
    /\ handle' = "open"
    /\ queue' = <<Head(waiting)>>
    /\ waiting' = Tail(waiting)
    /\ reply' = NoReply
    /\ settled' = NoBelief
    /\ expects' = [c \in Calls |-> NoBelief]
    /\ UNCHANGED <<supported, op, fallenBack, database, memory>>

\* Those that awaited the database create their transactions in the order of the calls.  What
\* is in memory from failed attempts is out of sight: nobody can rely on it.
OpenSucceeds ==
    /\ handle = "opening"
    /\ handle' = "open"
    /\ queue' = waiting
    /\ waiting' = <<>>
    /\ reply' = NoReply
    /\ settled' = NoBelief
    /\ expects' = [c \in Calls |-> NoBelief]
    /\ UNCHANGED <<supported, op, fallenBack, database, memory>>

\* Broken OpenFails: the rejected promise stays in dbPromise.
OpenFailsKeepsPromise ==
    LET rejected == ToSet(Tail(waiting)) IN
    /\ handle = "opening"
    /\ waiting' = <<>>
    /\ fallenBack' = fallenBack \cup {Head(waiting)}
    /\ op' = [c \in Calls |-> IF c \in rejected THEN NoOp ELSE op[c]]
    /\ expects' = [c \in Calls |-> IF c \in rejected THEN NoBelief ELSE expects[c]]
    /\ reply' = NoReply
    /\ UNCHANGED <<supported, handle, queue, database, memory, settled>>

\* The catch in getDb is that of the call that opened the database: it forgets the promise and
\* falls back to memory.  The others have returned the promise itself, and reject with it.
OpenFails ==
    LET rejected == ToSet(Tail(waiting)) IN
    /\ handle = "opening"
    /\ handle' = "none"
    /\ waiting' = <<>>
    /\ fallenBack' = fallenBack \cup {Head(waiting)}
    /\ op' = [c \in Calls |-> IF c \in rejected THEN NoOp ELSE op[c]]
    /\ expects' = [c \in Calls |-> IF c \in rejected THEN NoBelief ELSE expects[c]]
    /\ reply' = NoReply
    /\ UNCHANGED <<supported, queue, database, memory, settled>>

\* Broken RunOnMemory: getFallback makes a new store each time.
RunOnNewMemory(c) ==
    LET empty == [k \in Keys |-> None] IN
    /\ c \in fallenBack
    /\ fallenBack' = fallenBack \ {c}
    /\ memory' = Changed(empty, op[c])
    /\ Resolves(c, empty, handle # "open")
    /\ UNCHANGED <<supported, handle, waiting, queue, database>>

RunOnMemory(c) ==
    /\ c \in fallenBack
    /\ fallenBack' = fallenBack \ {c}
    /\ memory' = Changed(memory, op[c])
    /\ Resolves(c, memory, handle # "open")
    /\ UNCHANGED <<supported, handle, waiting, queue, database>>

\* c has the oldest transaction, which runs now.
Runs(c) ==
    /\ queue # <<>> /\ c = Head(queue)
    /\ queue' = Tail(queue)
    /\ UNCHANGED <<supported, handle, waiting, fallenBack, memory>>

\* Its request succeeds, and with it the call.
TransactionSucceeds(c) ==
    /\ Runs(c)
    /\ database' = Changed(database, op[c])
    /\ Resolves(c, database, TRUE)

TransactionFails(c) ==
    /\ Runs(c)
    /\ Rejects(c)
    /\ UNCHANGED database

\* The request succeeds, and the transaction aborts when it commits (the quota is exceeded):
\* the call has resolved already, for nothing listens to the transaction.
TransactionAborts(c) ==
    /\ Runs(c)
    /\ Changes(op[c])
    /\ Resolves(c, database, FALSE)
    /\ UNCHANGED database

Call(c) == \E o \in Operations : CallUnsupported(c, o) \/ CallWaits(c, o) \/ CallQueues(c, o)

OpenAnswers == OpenSucceeds \/ OpenFails

Proceeds(c) == RunOnMemory(c) \/ TransactionSucceeds(c) \/ TransactionFails(c) \/ TransactionAborts(c)

Next == OpenAnswers \/ \E c \in Calls : Call(c) \/ Proceeds(c)

Spec == Init /\ [][Next]_vars

\* The browser answers its requests.
FairSpec == Spec /\ WF_vars(OpenAnswers) /\ \A c \in Calls : WF_vars(Proceeds(c))

-----------------------------------------------------------------------------
\* An answer of call c agrees with what c may rely on.
Agrees(c, value) ==
    LET known == {k \in Touches(op[c]) : expects[c][k] # Unknown}
        held(k) == expects[c][k] # None
    IN  CASE op[c].kind = "get" -> \A k \in known : value = expects[c][k]
          [] op[c].kind = "has" -> \A k \in known : value = held(k)
          [] op[c].kind = "available" -> \A k \in known : k.index \in value <=> held(k)
          [] OTHER -> TRUE

\* A read answers with what the calls that resolved before it started have left, if none that
\* may change it runs at the same time, whether these calls waited for the database to open, met
\* one that was open, or went to memory.  In two cases the code loses sight of a chunk it has
\* acknowledged, and the chunk is unknown until it is written again: the database opens after an
\* attempt failed, and what is in memory is not looked for there (getDb, line 110); a transaction
\* aborts when it commits (put resolves on the request's success, line 140).
ReadsAreFresh == [][reply' # NoReply => Agrees(reply'.call, reply'.value)]_vars

Distinct(s) == \A i, j \in DOMAIN s : s[i] = s[j] => i = j

\* A call that has not settled will be taken care of, in one place: it awaits the open request
\* in progress, is in the queue of transactions, once, or goes on with the memory store.  In
\* particular none awaits a request that has failed, and none is in the queue of a database that
\* is not open (getDb, lines 88-112).
NoCallForgotten ==
    /\ Busy = ToSet(waiting) \cup ToSet(queue) \cup fallenBack
    /\ ToSet(waiting) \cap ToSet(queue) = {}
    /\ fallenBack \cap (ToSet(waiting) \cup ToSet(queue)) = {}
    /\ Distinct(waiting) /\ Distinct(queue)
    /\ handle = "opening" <=> waiting # <<>>
    /\ queue # <<>> => handle = "open"

\* Every call settles, if the browser answers.  (The scheduler awaits put, startDownload awaits
\* getAvailableChunks: a call that does not settle leaves a download where it is.)
EveryCallSettles == \A c \in Calls : c \in Busy ~> c \notin Busy
=============================================================================
