---------------------------- MODULE OrderedDelivery ----------------------------
(***************************************************************************)
(* What the coordinator relies on when it hands messages to                *)
(* WebRtcPeerConnection.send: those accepted are delivered in the order of *)
(* the calls, once, with nothing in between left out, unless the channel   *)
(* goes down, and then everything not delivered yet is lost together.  A   *)
(* fault of the channel's own send may cost one message, never the order.  *)
(***************************************************************************)
EXTENDS Naturals, Sequences, SequencesExt

CONSTANT Messages   \* messages, numbered in the order of the calls of send

VARIABLES
    channel,   \* "new", "up" or "down"
    pending,   \* messages accepted and not delivered, oldest first
    delivered, \* messages delivered, oldest first
    faulty     \* a fault has happened

Init == channel = "new" /\ pending = <<>> /\ delivered = <<>> /\ faulty = FALSE

Newest(m) == \A d \in ToSet(pending) \cup ToSet(delivered) : d < m

Appends(m) == Newest(m) /\ pending' = Append(pending, m)

Open == channel = "new" /\ channel' = "up" /\ UNCHANGED <<pending, delivered, faulty>>

Accept(m) == channel = "up" /\ Appends(m) /\ UNCHANGED <<channel, delivered, faulty>>

Deliver ==
    /\ channel = "up" /\ pending # <<>>
    /\ delivered' = Append(delivered, Head(pending))
    /\ pending' = Tail(pending)
    /\ UNCHANGED <<channel, faulty>>

\* A message is lost, or accepted although its sender is told it was not.
Fault ==
    /\ channel = "up"
    /\ faulty' = TRUE
    /\ \/ \E i \in DOMAIN pending : pending' = RemoveAt(pending, i)
       \/ \E m \in Messages : Appends(m)
    /\ UNCHANGED <<channel, delivered>>

GoDown == channel # "down" /\ channel' = "down" /\ pending' = <<>> /\ UNCHANGED <<delivered, faulty>>

Next == Open \/ (\E m \in Messages : Accept(m)) \/ Deliver \/ Fault \/ GoDown

Spec == Init /\ [][Next]_<<channel, pending, delivered, faulty>>
=============================================================================
