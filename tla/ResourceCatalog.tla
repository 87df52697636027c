---------------------------- MODULE ResourceCatalog ----------------------------
(***************************************************************************)
(* What ResourceService promises of a class's resources: an upload appears *)
(* in the catalog at once and whole, or never; an instructor told that it  *)
(* was created can find it until it is deleted, one told that it failed    *)
(* never will; and what was deleted does not come back.                    *)
(***************************************************************************)
CONSTANT Uploads

VARIABLES
    catalog,   \* the resources that are listed and can be downloaded in full
    deleted,   \* those that were deleted
    answer     \* to each upload: "none" so far, "created" or "failed"

Init ==
    /\ catalog = {}
    /\ deleted = {}
    /\ answer = [u \in Uploads |-> "none"]

Publish(u) ==
    /\ u \notin catalog \cup deleted
    /\ answer[u] = "none"
    /\ catalog' = catalog \cup {u}
    /\ UNCHANGED <<deleted, answer>>

AnswerCreated(u) ==
    /\ u \in catalog \cup deleted
    /\ answer[u] = "none"
    /\ answer' = [answer EXCEPT ![u] = "created"]
    /\ UNCHANGED <<catalog, deleted>>

AnswerFailed(u) ==
    /\ u \notin catalog \cup deleted
    /\ answer[u] = "none"
    /\ answer' = [answer EXCEPT ![u] = "failed"]
    /\ UNCHANGED <<catalog, deleted>>

Delete(u) ==
    /\ u \in catalog
    /\ catalog' = catalog \ {u}
    /\ deleted' = deleted \cup {u}
    /\ UNCHANGED answer

Next == \E u \in Uploads : Publish(u) \/ AnswerCreated(u) \/ AnswerFailed(u) \/ Delete(u)

Spec == Init /\ [][Next]_<<catalog, deleted, answer>>
=============================================================================
