----------------------------- MODULE ResourceStore -----------------------------
(***************************************************************************)
(* The resources of one class on the origin server: uploads, chunk         *)
(* requests and deletions as apps/server/src/resources/resource.service.ts *)
(* runs them, over the files of local-disk.storage.ts and the rows of      *)
(* resource.repository.ts.  Requests interleave at their awaits; the       *)
(* process may die between any two steps and start again.                  *)
(*                                                                         *)
(* Every upload makes a resource of its own, with a random name, so the    *)
(* upload stands for it.  A resource's row and its chunk rows are written  *)
(* in one transaction and deleted together: they are one row here.  The    *)
(* process dies, the machine does not: what was written is on disk.        *)
(***************************************************************************)
EXTENDS Naturals

CONSTANTS
    Uploads,
    Reads,        \* requests for a chunk
    NoUpload,
    MaxCrashes    \* bound: deaths of the process

ASSUME UploadsAssumption == NoUpload \notin Uploads
ASSUME BoundsAssumption == MaxCrashes \in Nat

VARIABLES
    upload,    \* how far each upload is
    temps,     \* the uploads with a file in temporary/
    file,      \* each resource's file in resources/: "absent", "partial" or "whole"
    rows,      \* the resources with a row, which is always 'ready'
    deletion,  \* of each resource: "none", "unlinking" while the file is deleted, "over"
    read,      \* each chunk request: how far it is, and of what
    session,   \* of the class: "active", "overdue" while its row says active, "ended"
    crashes,   \* how many times the process died
    mishaps    \* of each upload: a crash, an unlink that failed, a commit that failed

vars == <<upload, temps, file, rows, deletion, read, session, crashes, mishaps>>

\* Awaiting saveStream, generate, rename, copyFile, the unlink that completes a copy, and the
\* unlink of the catch block; "moved" is the end of the await of move.
Working == {"saving", "hashing", "moving", "copying", "clearing", "moved", "cleaning"}
Mishap == {"crash", "unlink", "commit"}

TypeOK ==
    /\ upload \in [Uploads -> Working \cup {"new", "recorded", "created", "failed", "lost"}]
    /\ temps \subseteq Uploads
    /\ file \in [Uploads -> {"absent", "partial", "whole"}]
    /\ rows \subseteq Uploads
    /\ deletion \in [Uploads -> {"none", "unlinking", "over"}]
    /\ read \in [Reads -> [stage : {"new", "checking", "opening", "served", "missing",
                                    "broken", "cut"},
                           of : Uploads \cup {NoUpload}]]
    /\ \A r \in Reads : read[r].stage = "new" <=> read[r].of = NoUpload
    /\ session \in {"active", "overdue", "ended"}
    /\ crashes \in 0..MaxCrashes
    /\ mishaps \in [Uploads -> SUBSET Mishap]

Init ==
    /\ upload = [u \in Uploads |-> "new"]
    /\ temps = {}
    /\ file = [u \in Uploads |-> "absent"]
    /\ rows = {}
    /\ deletion = [u \in Uploads |-> "none"]
    /\ read = [r \in Reads |-> [stage |-> "new", of |-> NoUpload]]
    /\ session = "active"
    /\ crashes = 0
    /\ mishaps = [u \in Uploads |-> {}]

-----------------------------------------------------------------------------
(***************************************************************************)
(* Uploads                                                                 *)
(***************************************************************************)
Goes(u, from, to) == upload[u] = from /\ upload' = [upload EXCEPT ![u] = to]
Befalls(u, m) == mishaps' = [mishaps EXCEPT ![u] = @ \cup {m}]

AcceptUpload(u) ==
    /\ session = "active"
    /\ Goes(u, "new", "saving")
    /\ temps' = temps \cup {u}
    /\ UNCHANGED <<file, rows, deletion, read, session, crashes, mishaps>>

\* The stream ended, and the size is one that is allowed.
Save(u) ==
    /\ Goes(u, "saving", "hashing")
    /\ UNCHANGED <<temps, file, rows, deletion, read, session, crashes, mishaps>>

Hash(u) ==
    /\ Goes(u, "hashing", "moving")
    /\ UNCHANGED <<temps, file, rows, deletion, read, session, crashes, mishaps>>

\* Broken Fail: the temporary file is left behind.
FailUncleaned(u) ==
    /\ \E stage \in {"saving", "hashing", "moving"} : Goes(u, stage, "failed")
    /\ UNCHANGED <<temps, file, rows, deletion, read, session, crashes, mishaps>>

\* The client goes away, the file is empty, too large or unreadable, or rename is refused.
Fail(u) ==
    /\ \E stage \in {"saving", "hashing", "moving"} : Goes(u, stage, "cleaning")
    /\ UNCHANGED <<temps, file, rows, deletion, read, session, crashes, mishaps>>

Rename(u) ==
    /\ Goes(u, "moving", "moved")
    /\ temps' = temps \ {u}
    /\ file' = [file EXCEPT ![u] = "whole"]
    /\ UNCHANGED <<rows, deletion, read, session, crashes, mishaps>>

\* Broken CrossDevice: copyFile is not awaited.
CrossDeviceUnawaited(u) ==
    /\ Goes(u, "moving", "clearing")
    /\ file' = [file EXCEPT ![u] = "partial"]
    /\ UNCHANGED <<temps, rows, deletion, read, session, crashes, mishaps>>

\* rename says EXDEV, and the file is copied.
CrossDevice(u) ==
    /\ Goes(u, "moving", "copying")
    /\ file' = [file EXCEPT ![u] = "partial"]
    /\ UNCHANGED <<temps, rows, deletion, read, session, crashes, mishaps>>

Copy(u) ==
    /\ Goes(u, "copying", "clearing")
    /\ file' = [file EXCEPT ![u] = "whole"]
    /\ UNCHANGED <<temps, rows, deletion, read, session, crashes, mishaps>>

\* A copyFile that fails removes what it copied.
CopyFails(u) ==
    /\ Goes(u, "copying", "cleaning")
    /\ file' = [file EXCEPT ![u] = "absent"]
    /\ UNCHANGED <<temps, rows, deletion, read, session, crashes, mishaps>>

ClearSource(u) ==
    /\ Goes(u, "clearing", "moved")
    /\ temps' = temps \ {u}
    /\ UNCHANGED <<file, rows, deletion, read, session, crashes, mishaps>>

ClearSourceFails(u) ==
    /\ Goes(u, "clearing", "cleaning")
    /\ Befalls(u, "unlink")
    /\ UNCHANGED <<temps, file, rows, deletion, read, session, crashes>>

\* createWithManifest: whether the class still is in session is not asked again.
Record(u) ==
    /\ Goes(u, "moved", "recorded")
    /\ rows' = rows \cup {u}
    /\ UNCHANGED <<temps, file, deletion, read, session, crashes, mishaps>>

\* Broken RecordFails: what was inserted stays.
RecordFailsUnrolled(u) ==
    /\ Goes(u, "moved", "cleaning")
    /\ rows' = rows \cup {u}
    /\ Befalls(u, "commit")
    /\ UNCHANGED <<temps, file, deletion, read, session, crashes>>

\* The transaction is rolled back.  The file has its final name and is not cleaned up.
RecordFails(u) ==
    /\ Goes(u, "moved", "cleaning")
    /\ Befalls(u, "commit")
    /\ UNCHANGED <<temps, file, rows, deletion, read, session, crashes>>

ReplyCreated(u) ==
    /\ Goes(u, "recorded", "created")
    /\ UNCHANGED <<temps, file, rows, deletion, read, session, crashes, mishaps>>

\* The unlink of the catch block, successful or not, and the error is thrown on.
CleanUp(u) ==
    /\ Goes(u, "cleaning", "failed")
    /\ \/ temps' = temps \ {u} /\ UNCHANGED mishaps
       \/ u \in temps /\ Befalls(u, "unlink") /\ UNCHANGED temps
    /\ UNCHANGED <<file, rows, deletion, read, session, crashes>>

(***************************************************************************)
(* Deletions, by an instructor of the class, in session or not             *)
(***************************************************************************)
\* Broken Delete: the file is deleted first.
DeleteFileFirst(u) ==
    /\ u \in rows
    /\ deletion[u] = "none"
    /\ deletion' = [deletion EXCEPT ![u] = "over"]
    /\ file' = [file EXCEPT ![u] = "absent"]
    /\ UNCHANGED <<upload, temps, rows, read, session, crashes, mishaps>>

Delete(u) ==
    /\ u \in rows
    /\ rows' = rows \ {u}
    /\ deletion' = [deletion EXCEPT ![u] = "unlinking"]
    /\ UNCHANGED <<upload, temps, file, read, session, crashes, mishaps>>

\* The answer is success whether the file could be deleted or not.
Unlink(u) ==
    /\ deletion[u] = "unlinking"
    /\ deletion' = [deletion EXCEPT ![u] = "over"]
    /\ \/ file' = [file EXCEPT ![u] = "absent"] /\ UNCHANGED mishaps
       \/ Befalls(u, "unlink") /\ UNCHANGED file
    /\ UNCHANGED <<upload, temps, rows, read, session, crashes>>

(***************************************************************************)
(* Chunk requests                                                          *)
(***************************************************************************)
AcceptRead(r, u) ==
    /\ read[r].stage = "new"
    /\ u \in rows
    /\ session = "active"
    /\ read' = [read EXCEPT ![r] = [stage |-> "checking", of |-> u]]
    /\ UNCHANGED <<upload, temps, file, rows, deletion, session, crashes, mishaps>>

CheckExists(r) ==
    /\ read[r].stage = "checking"
    /\ read' = [read EXCEPT ![r].stage =
                    IF file[read[r].of] = "absent" THEN "missing" ELSE "opening"]
    /\ UNCHANGED <<upload, temps, file, rows, deletion, session, crashes, mishaps>>

\* The stream opens its file, which stays readable from then on, or fails under the headers.
OpenFile(r) ==
    /\ read[r].stage = "opening"
    /\ read' = [read EXCEPT ![r].stage =
                    IF file[read[r].of] = "whole" THEN "served" ELSE "broken"]
    /\ UNCHANGED <<upload, temps, file, rows, deletion, session, crashes, mishaps>>

(***************************************************************************)
(* The class, and the process                                              *)
(***************************************************************************)
Overdue ==
    /\ session = "active"
    /\ session' = "overdue"
    /\ UNCHANGED <<upload, temps, file, rows, deletion, read, crashes, mishaps>>

\* The class is ended, or a request for an upload, a list, a manifest or a chunk finds it
\* overdue.
EndSession ==
    /\ session # "ended"
    /\ session' = "ended"
    /\ UNCHANGED <<upload, temps, file, rows, deletion, read, crashes, mishaps>>

\* Requests in progress are gone.  Nothing is cleaned up when the process starts again.
Crash ==
    /\ crashes < MaxCrashes
    /\ crashes' = crashes + 1
    /\ upload' = [u \in Uploads |->
                    IF upload[u] \in Working \cup {"recorded"} THEN "lost" ELSE upload[u]]
    /\ deletion' = [u \in Uploads |-> IF deletion[u] = "unlinking" THEN "over" ELSE deletion[u]]
    /\ read' = [r \in Reads |-> IF read[r].stage \in {"checking", "opening"}
                                THEN [read[r] EXCEPT !.stage = "cut"] ELSE read[r]]
    /\ mishaps' = [u \in Uploads |->
                    IF upload[u] \in Working \/ deletion[u] = "unlinking"
                    THEN mishaps[u] \cup {"crash"} ELSE mishaps[u]]
    /\ UNCHANGED <<temps, file, rows, session>>

UploadStep(u) ==
    \/ AcceptUpload(u) \/ Save(u) \/ Hash(u) \/ Fail(u)
    \/ Rename(u) \/ CrossDevice(u) \/ Copy(u) \/ CopyFails(u)
    \/ ClearSource(u) \/ ClearSourceFails(u)
    \/ Record(u) \/ RecordFails(u) \/ ReplyCreated(u) \/ CleanUp(u)

Next ==
    \/ \E u \in Uploads : UploadStep(u) \/ Delete(u) \/ Unlink(u)
    \/ \E r \in Reads : (\E u \in Uploads : AcceptRead(r, u)) \/ CheckExists(r) \/ OpenFile(r)
    \/ Overdue \/ EndSession \/ Crash

Spec == Init /\ [][Next]_vars

-----------------------------------------------------------------------------
\* A resource that is listed has its whole file, at every moment, in particular whenever the
\* process dies: processUpload moves the file before it writes the row (lines 100, 103), and
\* deleteResource deletes the row before the file (lines 276, 279).
ReadyRowHasFile == \A u \in rows : file[u] = "whole"

\* A chunk request that found the row fails in storage only if the resource was deleted
\* meanwhile: between the await of exists and the opening of the stream included
\* (getChunkStream, lines 233-238).
ReadsFailOnlyByDeletion ==
    \A r \in Reads : read[r].stage \in {"missing", "broken"} =>
        read[r].of \notin rows /\ deletion[read[r].of] # "none"

\* A file that no request will take care of and no row refers to is left by a crash, by an
\* unlink that failed or, under its final name, by a transaction that failed: the catch block
\* of processUpload (line 121) cleans up after everything else.
LeftoversExplained ==
    \A u \in Uploads : upload[u] \notin Working =>
        /\ u \in temps => mishaps[u] \cap {"crash", "unlink"} # {}
        /\ file[u] # "absent" /\ u \notin rows /\ deletion[u] # "unlinking" => mishaps[u] # {}

\* The catalog is what is listed and whole on disk.
Catalog == INSTANCE ResourceCatalog WITH
    catalog <- {u \in rows : file[u] = "whole"},
    deleted <- {u \in Uploads : deletion[u] # "none"},
    answer <- [u \in Uploads |-> IF upload[u] \in {"created", "failed"} THEN upload[u] ELSE "none"]

\* Uploads, deletions and crashes keep the promises of ResourceCatalog: an upload is published
\* at once and whole, an answer agrees with what is listed, and what is deleted stays deleted
\* (ResourceService, line 45: "atomically").
KeepsPromises == Catalog!Spec
=============================================================================
