-------------------------- MODULE ResourceStoreProofs --------------------------
(***************************************************************************)
(* Theorems about ResourceStore: its safety, and that it keeps the         *)
(* promises of ResourceCatalog.                                            *)
(***************************************************************************)
EXTENDS ResourceStore, TLAPS

Finished == {"recorded", "created", "lost"}

\* What holds of one upload: which of its file, its row and its leftovers it can have so far.
Sound(u) ==
    /\ u \in rows => upload[u] \in Finished /\ file[u] = "whole" /\ deletion[u] = "none"
    /\ deletion[u] # "none" => upload[u] \in Finished
    /\ upload[u] \in {"recorded", "created"} => u \in rows \/ deletion[u] # "none"
    /\ upload[u] \in {"clearing", "moved"} => file[u] = "whole"
    /\ upload[u] \in {"new", "saving", "hashing", "moving"} => file[u] = "absent"
    /\ upload[u] \in {"new", "moved"} => u \notin temps
    /\ upload[u] = "cleaning" => file[u] = "absent" \/ mishaps[u] # {}
    /\ upload[u] \notin Working =>
          /\ u \in temps => mishaps[u] \cap {"crash", "unlink"} # {}
          /\ file[u] # "absent" /\ u \notin rows /\ deletion[u] # "unlinking" => mishaps[u] # {}

\* A chunk request is of a resource that was published, and failed only if it was deleted.
SoundRead(r) ==
    LET u == read[r].of IN
    read[r].stage # "new" =>
        /\ u \in rows \/ deletion[u] # "none"
        /\ read[r].stage \in {"missing", "broken"} => deletion[u] # "none"

IInv ==
    /\ TypeOK
    /\ \A u \in Uploads : Sound(u)
    /\ \A r \in Reads : SoundRead(r)

State(u) == <<upload[u], u \in temps, file[u], u \in rows, deletion[u], mishaps[u]>>

-----------------------------------------------------------------------------
LEMMA TypeInit == Init => IInv
BY UploadsAssumption, BoundsAssumption DEF Init, IInv, TypeOK, Sound, SoundRead, Working, Mishap

\* A step of one upload, which leaves the requests, rows, deletions and the class alone, keeps
\* the types.
LEMMA UploadTypes ==
    ASSUME TypeOK, NEW u \in Uploads, UploadStep(u)
    PROVE  TypeOK'
<1> USE DEF TypeOK, Working, Mishap
<1>1. CASE AcceptUpload(u)
  BY <1>1 DEF AcceptUpload, Goes
<1>2. CASE Save(u) \/ Hash(u) \/ Fail(u)
  BY <1>2 DEF Save, Hash, Fail, Goes
<1>3. CASE Rename(u) \/ CrossDevice(u) \/ Copy(u) \/ CopyFails(u)
  BY <1>3 DEF Rename, CrossDevice, Copy, CopyFails, Goes
<1>4. CASE ClearSource(u) \/ ClearSourceFails(u)
  BY <1>4 DEF ClearSource, ClearSourceFails, Goes, Befalls
<1>5. CASE Record(u) \/ RecordFails(u) \/ ReplyCreated(u)
  BY <1>5 DEF Record, RecordFails, ReplyCreated, Goes, Befalls
<1>6. CASE CleanUp(u)
  BY <1>6 DEF CleanUp, Goes, Befalls
<1> QED
  BY <1>1, <1>2, <1>3, <1>4, <1>5, <1>6 DEF UploadStep

LEMMA OtherTypes ==
    ASSUME TypeOK,
           \/ \E u \in Uploads : Delete(u) \/ Unlink(u)
           \/ \E r \in Reads : (\E u \in Uploads : AcceptRead(r, u)) \/ CheckExists(r) \/ OpenFile(r)
           \/ Overdue \/ EndSession \/ Crash
    PROVE  TypeOK'
<1> USE UploadsAssumption DEF TypeOK, Working, Mishap
<1>1. ASSUME NEW u \in Uploads, Delete(u) PROVE TypeOK'
  BY <1>1 DEF Delete
<1>2. ASSUME NEW u \in Uploads, Unlink(u) PROVE TypeOK'
  BY <1>2 DEF Unlink, Befalls
<1>3. ASSUME NEW r \in Reads, NEW u \in Uploads, AcceptRead(r, u) PROVE TypeOK'
  BY <1>3 DEF AcceptRead
<1>4. ASSUME NEW r \in Reads, CheckExists(r) \/ OpenFile(r) PROVE TypeOK'
  BY <1>4 DEF CheckExists, OpenFile
<1>5. ASSUME Overdue \/ EndSession PROVE TypeOK'
  BY <1>5 DEF Overdue, EndSession
<1>6. ASSUME Crash PROVE TypeOK'
  BY <1>6, BoundsAssumption DEF Crash
<1> QED
  BY <1>1, <1>2, <1>3, <1>4, <1>5, <1>6

-----------------------------------------------------------------------------
\* A step that leaves the state of an upload, and what requests of it rest on, alone.
LEMMA SoundElsewhere ==
    ASSUME NEW v \in Uploads, Sound(v), State(v)' = State(v)
    PROVE  Sound(v)'
BY DEF Sound, State, Working, Finished

\* Once published, a resource stays listed until it is deleted, and deleted from then on.
LEMMA SoundReadKept ==
    ASSUME \A r \in Reads : SoundRead(r), UNCHANGED read, TypeOK,
           \A v \in Uploads : /\ v \in rows => v \in rows' \/ deletion'[v] # "none"
                              /\ deletion[v] # "none" => deletion'[v] # "none"
    PROVE  \A r \in Reads : SoundRead(r)'
<1> SUFFICES ASSUME NEW r \in Reads, read[r].stage # "new" PROVE SoundRead(r)'
  BY DEF SoundRead
<1>1. read[r].of \in Uploads
  BY DEF TypeOK
<1> QED
  BY <1>1 DEF SoundRead

\* One step of one upload.
LEMMA SoundUpload ==
    ASSUME IInv, NEW u \in Uploads, UploadStep(u)
    PROVE  /\ \A v \in Uploads : Sound(v)'
           /\ \A r \in Reads : SoundRead(r)'
<1>1. \A v \in Uploads \ {u} : State(v)' = State(v)
  BY DEF IInv, TypeOK, State, UploadStep, AcceptUpload, Save, Hash, Fail, Rename, CrossDevice,
     Copy, CopyFails, ClearSource, ClearSourceFails, Record, RecordFails, ReplyCreated, CleanUp,
     Goes, Befalls
<1>2. Sound(u)'
  <2> USE DEF IInv, TypeOK, Sound, Working, Mishap, Finished, Goes, Befalls
  <2>1. CASE AcceptUpload(u) \/ Save(u) \/ Hash(u) \/ Fail(u)
    BY <2>1 DEF AcceptUpload, Save, Hash, Fail
  <2>2. CASE Rename(u) \/ CrossDevice(u)
    BY <2>2 DEF Rename, CrossDevice
  <2>3. CASE Copy(u) \/ CopyFails(u)
    BY <2>3 DEF Copy, CopyFails
  <2>4. CASE ClearSource(u)
    BY <2>4 DEF ClearSource
  <2>5. CASE ClearSourceFails(u) \/ RecordFails(u)
    <3>1. upload'[u] = "cleaning"
      BY <2>5 DEF ClearSourceFails, RecordFails
    <3>2. \E m \in Mishap : m \in mishaps'[u]
      BY <2>5 DEF ClearSourceFails, RecordFails
    <3>3. u \notin rows /\ deletion[u] = "none" /\ UNCHANGED <<file, rows, deletion>>
      BY <2>5 DEF ClearSourceFails, RecordFails
    <3> QED
      BY <3>1, <3>2, <3>3
  <2>6. CASE Record(u)
    BY <2>6 DEF Record
  <2>7. CASE ReplyCreated(u)
    BY <2>7 DEF ReplyCreated
  <2>8. CASE CleanUp(u)
    <3>1. /\ upload'[u] = "failed" /\ u \notin rows /\ deletion[u] = "none"
          /\ UNCHANGED <<file, rows, deletion>>
      BY <2>8 DEF CleanUp
    <3>2. file[u] # "absent" => mishaps[u] # {}
      BY <2>8 DEF CleanUp
    <3>3. CASE temps' = temps \ {u} /\ UNCHANGED mishaps
      BY <3>1, <3>2, <3>3
    <3>4. CASE "unlink" \in mishaps'[u] /\ UNCHANGED temps
      BY <3>1, <3>4
    <3> QED
      BY <2>8, <3>3, <3>4 DEF CleanUp
  <2> QED
    BY <2>1, <2>2, <2>3, <2>4, <2>5, <2>6, <2>7, <2>8 DEF UploadStep
<1>3. /\ UNCHANGED <<read, deletion>>
      /\ rows \subseteq rows'
  BY DEF UploadStep, AcceptUpload, Save, Hash, Fail, Rename, CrossDevice,
     Copy, CopyFails, ClearSource, ClearSourceFails, Record, RecordFails, ReplyCreated, CleanUp
<1>4. \A v \in Uploads : Sound(v)'
  BY <1>1, <1>2, SoundElsewhere DEF IInv
<1>5. \A r \in Reads : SoundRead(r)'
  BY <1>3, SoundReadKept DEF IInv
<1> QED
  BY <1>4, <1>5

LEMMA SoundDeletion ==
    ASSUME IInv, NEW u \in Uploads, Delete(u) \/ Unlink(u)
    PROVE  /\ \A v \in Uploads : Sound(v)'
           /\ \A r \in Reads : SoundRead(r)'
<1>1. \A v \in Uploads \ {u} : State(v)' = State(v)
  BY DEF IInv, TypeOK, State, Delete, Unlink, Befalls
<1>2. CASE Delete(u)
  <2>1. Sound(u)'
    BY <1>2 DEF IInv, TypeOK, Sound, Working, Finished, Delete
  <2>2. \A v \in Uploads : /\ v \in rows => v \in rows' \/ deletion'[v] # "none"
                           /\ deletion[v] # "none" => deletion'[v] # "none"
    BY <1>2 DEF IInv, TypeOK, Delete
  <2>3. UNCHANGED read
    BY <1>2 DEF Delete
  <2> QED
    BY <1>1, <2>1, <2>2, <2>3, SoundElsewhere, SoundReadKept DEF IInv
<1>3. CASE Unlink(u)
  <2>1. Sound(u)'
    BY <1>3 DEF IInv, TypeOK, Sound, Working, Finished, Mishap, Unlink, Befalls
  <2>2. \A v \in Uploads : /\ v \in rows => v \in rows' \/ deletion'[v] # "none"
                           /\ deletion[v] # "none" => deletion'[v] # "none"
    BY <1>3 DEF IInv, TypeOK, Unlink
  <2>3. UNCHANGED read
    BY <1>3 DEF Unlink
  <2> QED
    BY <1>1, <2>1, <2>2, <2>3, SoundElsewhere, SoundReadKept DEF IInv
<1> QED
  BY <1>2, <1>3

LEMMA SoundRequests ==
    ASSUME IInv, NEW r \in Reads,
           (\E u \in Uploads : AcceptRead(r, u)) \/ CheckExists(r) \/ OpenFile(r)
    PROVE  /\ \A v \in Uploads : Sound(v)'
           /\ \A q \in Reads : SoundRead(q)'
<1>1. \A v \in Uploads : State(v)' = State(v)
  BY DEF State, AcceptRead, CheckExists, OpenFile
<1>2. \A q \in Reads \ {r} : SoundRead(q)'
  BY DEF IInv, TypeOK, SoundRead, AcceptRead, CheckExists, OpenFile
<1>3. ASSUME NEW u \in Uploads, AcceptRead(r, u) PROVE SoundRead(r)'
  BY <1>3 DEF IInv, TypeOK, SoundRead, AcceptRead
<1>4. ASSUME CheckExists(r) \/ OpenFile(r) PROVE SoundRead(r)'
  <2>1. read[r].of \in Uploads
    BY <1>4 DEF IInv, TypeOK, CheckExists, OpenFile
  <2>2. /\ read[r].of \in rows \/ deletion[read[r].of] # "none"
        /\ read[r].of \in rows => file[read[r].of] = "whole"
    BY <1>4, <2>1 DEF IInv, Sound, SoundRead, CheckExists, OpenFile
  <2> QED
    BY <1>4, <2>2 DEF IInv, TypeOK, SoundRead, CheckExists, OpenFile
<1> QED
  BY <1>1, <1>2, <1>3, <1>4, SoundElsewhere DEF IInv

LEMMA SoundCrash ==
    ASSUME IInv, Crash
    PROVE  /\ \A v \in Uploads : Sound(v)'
           /\ \A r \in Reads : SoundRead(r)'
<1>1. \A v \in Uploads : Sound(v)'
  BY DEF IInv, TypeOK, Sound, Working, Finished, Mishap, Crash
<1>2. \A v \in Uploads : deletion'[v] = "none" <=> deletion[v] = "none"
  BY DEF Crash
<1>3. \A r \in Reads : SoundRead(r)'
  <2> SUFFICES ASSUME NEW r \in Reads, read[r].stage # "new" PROVE SoundRead(r)'
    BY DEF SoundRead, Crash, IInv, TypeOK
  <2>1. read[r].of \in Uploads
    BY DEF IInv, TypeOK
  <2> QED
    BY <1>2, <2>1 DEF IInv, TypeOK, SoundRead, Crash
<1> QED
  BY <1>1, <1>3

LEMMA SoundStep == IInv /\ [Next]_vars => IInv'
<1> SUFFICES ASSUME IInv, [Next]_vars PROVE IInv'
  OBVIOUS
<1>1. ASSUME NEW u \in Uploads, UploadStep(u) PROVE IInv'
  BY <1>1, UploadTypes, SoundUpload DEF IInv
<1>2. ASSUME NEW u \in Uploads, Delete(u) \/ Unlink(u) PROVE IInv'
  BY <1>2, OtherTypes, SoundDeletion DEF IInv
<1>3. ASSUME NEW r \in Reads,
             (\E u \in Uploads : AcceptRead(r, u)) \/ CheckExists(r) \/ OpenFile(r)
      PROVE  IInv'
  BY <1>3, OtherTypes, SoundRequests DEF IInv
<1>4. ASSUME Crash PROVE IInv'
  BY <1>4, OtherTypes, SoundCrash DEF IInv
<1>5. ASSUME Overdue \/ EndSession PROVE IInv'
  <2>1. TypeOK'
    BY <1>5, OtherTypes DEF IInv
  <2>2. UNCHANGED read /\ \A v \in Uploads : State(v)' = State(v)
    BY <1>5 DEF Overdue, EndSession, State
  <2>3. UNCHANGED <<rows, deletion>>
    BY <1>5 DEF Overdue, EndSession
  <2> QED
    BY <2>1, <2>2, <2>3, SoundElsewhere, SoundReadKept DEF IInv
<1>6. ASSUME UNCHANGED vars PROVE IInv'
  BY <1>6 DEF IInv, TypeOK, Sound, SoundRead, Working, Mishap, Finished, vars
<1> QED
  BY <1>1, <1>2, <1>3, <1>4, <1>5, <1>6 DEF Next

LEMMA SoundHolds == Spec => []IInv
BY TypeInit, SoundStep, PTL DEF Spec

-----------------------------------------------------------------------------
\* The types of ResourceStore hold, for any number of uploads, requests and crashes.
THEOREM TypeCorrect == Spec => []TypeOK
<1>1. IInv => TypeOK
  BY DEF IInv
<1> QED
  BY <1>1, SoundHolds, PTL

\* A listed resource has its whole file, whenever the process dies.
THEOREM RowHasFile == Spec => []ReadyRowHasFile
<1>1. IInv => ReadyRowHasFile
  BY DEF IInv, TypeOK, Sound, ReadyRowHasFile
<1> QED
  BY <1>1, SoundHolds, PTL

\* A chunk request that found the row fails in storage only if the resource was deleted.
THEOREM ReadsFail == Spec => []ReadsFailOnlyByDeletion
<1>1. IInv => ReadsFailOnlyByDeletion
  BY DEF IInv, TypeOK, Sound, SoundRead, ReadsFailOnlyByDeletion
<1> QED
  BY <1>1, SoundHolds, PTL

\* A file nobody will take care of has a crash, an unlink or a commit that failed to explain it.
THEOREM Leftovers == Spec => []LeftoversExplained
<1>1. IInv => LeftoversExplained
  BY DEF IInv, Sound, LeftoversExplained
<1> QED
  BY <1>1, SoundHolds, PTL

-----------------------------------------------------------------------------
Listed == {u \in rows : file[u] = "whole"}
Deleted == {u \in Uploads : deletion[u] # "none"}
Answer == [u \in Uploads |-> IF upload[u] \in {"created", "failed"} THEN upload[u] ELSE "none"]
Seen == <<Listed, Deleted, Answer>>

\* What is listed is what has a row.
LEMMA ListedRows == IInv => Listed = rows
BY DEF IInv, TypeOK, Sound, Listed

\* What a step of one upload does to what clients see of it.
LEMMA UploadSeen ==
    ASSUME IInv, IInv', NEW u \in Uploads, UploadStep(u)
    PROVE  [Catalog!Next]_Seen
<1>1. Listed = rows /\ Listed' = rows'
  BY ListedRows, IInv, IInv' DEF IInv, TypeOK, Sound, Listed
<1>2. CASE Record(u)
  <2>1. u \notin Listed /\ u \notin Deleted /\ Answer[u] = "none"
    BY <1>1, <1>2 DEF IInv, Sound, Finished, Record, Goes, Deleted, Answer
  <2>2. Listed' = Listed \cup {u} /\ Deleted' = Deleted /\ Answer' = Answer
    BY <1>1, <1>2 DEF IInv, TypeOK, Record, Goes, Deleted, Answer
  <2>3. Catalog!Publish(u)
    BY <2>1, <2>2 DEF Catalog!Publish, Listed, Deleted, Answer
  <2> QED
    BY <2>3 DEF Catalog!Next
<1>3. CASE ReplyCreated(u)
  <2>1. u \in Listed \cup Deleted /\ Answer[u] = "none"
    BY <1>1, <1>3 DEF IInv, Sound, ReplyCreated, Goes, Deleted, Answer
  <2>2. Listed' = Listed /\ Deleted' = Deleted /\ Answer' = [Answer EXCEPT ![u] = "created"]
    BY <1>1, <1>3 DEF IInv, TypeOK, ReplyCreated, Goes, Deleted, Answer
  <2>3. Catalog!AnswerCreated(u)
    BY <2>1, <2>2 DEF Catalog!AnswerCreated, Listed, Deleted, Answer
  <2> QED
    BY <2>3 DEF Catalog!Next
<1>4. CASE CleanUp(u)
  <2>1. u \notin Listed \cup Deleted /\ Answer[u] = "none"
    BY <1>1, <1>4 DEF IInv, Sound, Finished, CleanUp, Goes, Deleted, Answer
  <2>2. Listed' = Listed /\ Deleted' = Deleted /\ Answer' = [Answer EXCEPT ![u] = "failed"]
    BY <1>1, <1>4 DEF IInv, TypeOK, CleanUp, Goes, Deleted, Answer
  <2>3. Catalog!AnswerFailed(u)
    BY <2>1, <2>2 DEF Catalog!AnswerFailed, Listed, Deleted, Answer
  <2> QED
    BY <2>3 DEF Catalog!Next
<1>5. ASSUME NEW from \in Working \cup {"new"}, NEW to \in Working, Goes(u, from, to),
             UNCHANGED <<rows, deletion>>
      PROVE  UNCHANGED Seen
  <2>1. Answer' = Answer
    BY <1>5 DEF IInv, TypeOK, Working, Goes, Answer
  <2> QED
    BY <1>1, <1>5, <2>1 DEF Seen, Deleted
<1>6. CASE AcceptUpload(u) \/ Save(u) \/ Hash(u) \/ Fail(u)
  BY <1>5, <1>6 DEF AcceptUpload, Save, Hash, Fail, Goes, Working
<1>7. CASE Rename(u) \/ CrossDevice(u) \/ Copy(u) \/ CopyFails(u)
  BY <1>5, <1>7 DEF Rename, CrossDevice, Copy, CopyFails, Goes, Working
<1>8. CASE ClearSource(u) \/ ClearSourceFails(u) \/ RecordFails(u)
  BY <1>5, <1>8 DEF ClearSource, ClearSourceFails, RecordFails, Goes, Working
<1> QED
  BY <1>2, <1>3, <1>4, <1>6, <1>7, <1>8 DEF UploadStep

LEMMA DeletionSeen ==
    ASSUME IInv, IInv', NEW u \in Uploads, Delete(u) \/ Unlink(u)
    PROVE  [Catalog!Next]_Seen
<1>1. Listed = rows /\ Listed' = rows'
  BY ListedRows, IInv, IInv' DEF IInv, TypeOK, Sound, Listed
<1>2. Answer' = Answer
  BY DEF Delete, Unlink, Answer
<1>3. CASE Delete(u)
  <2>1. u \in Listed /\ Listed' = Listed \ {u} /\ Deleted' = Deleted \cup {u}
    BY <1>1, <1>3 DEF IInv, TypeOK, Delete, Deleted
  <2>2. Catalog!Delete(u)
    BY <1>2, <2>1 DEF Catalog!Delete, Listed, Deleted, Answer
  <2> QED
    BY <2>2 DEF Catalog!Next
<1>4. CASE Unlink(u)
  <2>1. Listed' = Listed /\ Deleted' = Deleted
    BY <1>1, <1>4 DEF IInv, TypeOK, Unlink, Deleted
  <2> QED
    BY <1>2, <2>1 DEF Seen
<1> QED
  BY <1>3, <1>4

LEMMA StepSeen == IInv /\ IInv' /\ [Next]_vars => [Catalog!Next]_Seen
<1> SUFFICES ASSUME IInv, IInv', [Next]_vars PROVE [Catalog!Next]_Seen
  OBVIOUS
<1>1. Listed = rows /\ Listed' = rows'
  BY ListedRows, IInv, IInv' DEF IInv, TypeOK, Sound, Listed
<1>2. ASSUME UNCHANGED <<upload, rows, deletion>> PROVE UNCHANGED Seen
  BY <1>1, <1>2 DEF Seen, Deleted, Answer
<1>3. ASSUME NEW r \in Reads,
             (\E u \in Uploads : AcceptRead(r, u)) \/ CheckExists(r) \/ OpenFile(r)
      PROVE  UNCHANGED Seen
  BY <1>2, <1>3 DEF AcceptRead, CheckExists, OpenFile
<1>4. ASSUME Overdue \/ EndSession \/ UNCHANGED vars PROVE UNCHANGED Seen
  BY <1>2, <1>4 DEF Overdue, EndSession, vars
<1>5. ASSUME Crash PROVE UNCHANGED Seen
  <2>1. Deleted' = Deleted
    BY <1>5 DEF Crash, Deleted
  <2>2. Answer' = Answer
    BY <1>5 DEF Crash, Answer, Working
  <2> QED
    BY <1>1, <1>5, <2>1, <2>2 DEF Seen, Crash
<1> QED
  BY <1>3, <1>4, <1>5, UploadSeen, DeletionSeen DEF Next

\* Uploads, deletions and crashes implement the catalog: what clients see changes as if an
\* upload were one step, for any number of uploads, requests and crashes.
THEOREM Implements == Spec => KeepsPromises
<1>1. Init => Catalog!Init
  BY DEF Init, Catalog!Init
<1>2. IInv /\ IInv' /\ [Next]_vars => [Catalog!Next]_<<Listed, Deleted, Answer>>
  BY StepSeen DEF Seen
<1> QED
  BY <1>1, <1>2, SoundHolds, PTL DEF Spec, KeepsPromises, Catalog!Spec, Listed, Deleted, Answer
=============================================================================
