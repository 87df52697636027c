------------------------------ MODULE MCSignaling ------------------------------
(***************************************************************************)
(* Signaling for TLC.  A socket serves one connection, so the number of    *)
(* sockets bounds joins and reconnects.  There are two scenarios, told     *)
(* apart by disturbances.  In the first the class s1 is alone, and         *)
(* MaxDisturbances bounds how often it ends, expires or has its telemetry  *)
(* reset, the server restarts, or a socket fails or begins to close: the   *)
(* events that reach into every other one.  In the second nothing of the   *)
(* kind happens, and messages are relayed within two classes.              *)
(***************************************************************************)
EXTENDS Signaling, TLC

CONSTANTS s1, s2, p1, p2, q1, MaxDisturbances

VARIABLE disturbances   \* how many of those events have happened; more than allowed: none may

TwoClasses == (p1 :> s1) @@ (p2 :> s1) @@ (q1 :> s2)

TwoClassesMeet == disturbances > MaxDisturbances

Disturbance ==
    \/ EndSession(s1) \/ Expire(s1) \/ ResetTelemetry(s1)
    \/ \E k \in Sockets : StartsClosing(k) \/ Errors(k)
    \/ Restart

MCInit == Init /\ disturbances \in {0, MaxDisturbances + 1}

MCNext ==
    \/ /\ disturbances < MaxDisturbances
       /\ disturbances' = disturbances + 1
       /\ Disturbance
    \/ /\ disturbances' = disturbances
       /\ \/ \E k \in Sockets :
               \/ \E p \in Peers : /\ SessionOf[p] = s1 \/ TwoClassesMeet
                                   /\ ConnectRefused(k, p) \/ ConnectAccepted(k, p)
               \/ Heartbeat(k)
               \/ /\ TwoClassesMeet
                  /\ \E claimed \in Sessions, q \in Peers : Relay(k, claimed, q)
               \/ Closes(k)
               \/ LinkDrops(k)
               \/ OnMessage(k)
          \/ Lookup(s1)

MCSpec == MCInit /\ [][MCNext]_<<vars, disturbances>>

\* The students of the first class are alike, and so are the sockets.
Symmetric == Permutations({p1, p2}) \cup Permutations(Sockets)
=============================================================================
