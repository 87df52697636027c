---------------------------- MODULE DataChannelSend ----------------------------
(***************************************************************************)
(* The sending half of a data channel                                      *)
(* (apps/web/src/p2p/webrtc/WebRtcPeerConnection.ts): messages go straight *)
(* to the channel until its bufferedAmount reaches the high watermark,     *)
(* then into sendQueue, which the bufferedamountlow event drains.          *)
(*                                                                         *)
(* A message is its number, in the order of the calls of send, and its     *)
(* size.  The channel itself (its buffer, what it transmits, when it fires *)
(* bufferedamountlow, when its send throws) is the browser's: modelled     *)
(* from the WebRTC interface the code programs against.                    *)
(***************************************************************************)
EXTENDS Naturals, Sequences, SequencesExt

CONSTANTS
    P2P_BUFFER_LOW_THRESHOLD,
    P2P_BUFFER_HIGH_WATERMARK,
    Sizes,        \* sizes of messages
    MaxMessages   \* bound: calls of send

ASSUME ThresholdsAssumption ==
    /\ P2P_BUFFER_LOW_THRESHOLD \in Nat
    /\ P2P_BUFFER_HIGH_WATERMARK \in Nat
    /\ P2P_BUFFER_LOW_THRESHOLD < P2P_BUFFER_HIGH_WATERMARK
ASSUME SizesAssumption == Sizes \subseteq Nat \ {0}
ASSUME BoundsAssumption == MaxMessages \in Nat

VARIABLES
    readyState,      \* of the data channel; "connecting" also before there is one
    isClosed,        \* close was called: dataChannel is null
    sendQueue,
    calls,           \* how many messages were handed to send
    buffer,          \* messages the channel has taken and not transmitted
    bufferedAmount,
    lowEvents,       \* bufferedamountlow events fired and not handled
    delivered,       \* numbers of the messages transmitted
    thrown           \* the channel's own send has thrown

vars == <<readyState, isClosed, sendQueue, calls, buffer, bufferedAmount, lowEvents, delivered,
          thrown>>

Usable == readyState = "open" /\ ~isClosed

Total(msgs) == FoldLeft(LAMBDA sum, m : sum + m.size, 0, msgs)

-----------------------------------------------------------------------------
Init ==
    /\ readyState = "connecting"
    /\ isClosed = FALSE
    /\ sendQueue = <<>>
    /\ calls = 0
    /\ buffer = <<>>
    /\ bufferedAmount = 0
    /\ lowEvents = 0
    /\ delivered = <<>>
    /\ thrown = FALSE

ChannelOpens ==
    /\ readyState = "connecting" /\ ~isClosed
    /\ readyState' = "open"
    /\ UNCHANGED <<isClosed, sendQueue, calls, buffer, bufferedAmount, lowEvents, delivered, thrown>>

\* Broken MustQueue: looks at the buffer only.
MustQueueWhenFull == bufferedAmount >= P2P_BUFFER_HIGH_WATERMARK

\* send queues behind what is queued, and when the channel holds enough.
MustQueue == sendQueue # <<>> \/ bufferedAmount >= P2P_BUFFER_HIGH_WATERMARK

\* The message of the call in progress.
Handed(z) == [id |-> calls + 1, size |-> z]

Call == calls < MaxMessages /\ calls' = calls + 1

SendRefused ==
    /\ Call /\ ~Usable
    /\ UNCHANGED <<readyState, isClosed, sendQueue, buffer, bufferedAmount, lowEvents, delivered, thrown>>

SendQueues(z) ==
    /\ Call /\ Usable /\ MustQueue
    /\ sendQueue' = Append(sendQueue, Handed(z))
    /\ UNCHANGED <<readyState, isClosed, buffer, bufferedAmount, lowEvents, delivered, thrown>>

SendPasses(z) ==
    /\ Call /\ Usable /\ ~MustQueue
    /\ buffer' = Append(buffer, Handed(z))
    /\ bufferedAmount' = bufferedAmount + z
    /\ UNCHANGED <<readyState, isClosed, sendQueue, lowEvents, delivered, thrown>>

\* The channel's send throws: the message is queued and the caller told no.
SendThrows(z) ==
    /\ Call /\ Usable /\ ~MustQueue
    /\ sendQueue' = Append(sendQueue, Handed(z))
    /\ thrown' = TRUE
    /\ UNCHANGED <<readyState, isClosed, buffer, bufferedAmount, lowEvents, delivered>>

\* Broken Drains: an if in place of the loop, one message for each event.
DrainsOne(n) ==
    /\ n = IF sendQueue = <<>> \/ bufferedAmount >= P2P_BUFFER_HIGH_WATERMARK THEN 0 ELSE 1
    /\ buffer' = buffer \o SubSeq(sendQueue, 1, n)
    /\ bufferedAmount' = bufferedAmount + Total(SubSeq(sendQueue, 1, n))
    /\ sendQueue' = SubSeq(sendQueue, n + 1, Len(sendQueue))
    /\ UNCHANGED thrown

\* The loop of drainSendQueue moves n messages: as many as it takes to empty the
\* queue or to reach the high watermark again.
Drains(n) ==
    LET after(i) == bufferedAmount + Total(SubSeq(sendQueue, 1, i))
    IN  /\ n \in 0..Len(sendQueue)
        /\ \A i \in 0..(n - 1) : after(i) < P2P_BUFFER_HIGH_WATERMARK
        /\ n = Len(sendQueue) \/ after(n) >= P2P_BUFFER_HIGH_WATERMARK
        /\ buffer' = buffer \o SubSeq(sendQueue, 1, n)
        /\ bufferedAmount' = after(n)
        /\ sendQueue' = SubSeq(sendQueue, n + 1, Len(sendQueue))
        /\ UNCHANGED thrown

\* The send of message n + 1 throws out of the loop: it was shifted, and is lost.
DrainThrows(n) ==
    LET after(i) == bufferedAmount + Total(SubSeq(sendQueue, 1, i))
    IN  /\ n \in 0..(Len(sendQueue) - 1)
        /\ \A i \in 0..n : after(i) < P2P_BUFFER_HIGH_WATERMARK
        /\ buffer' = buffer \o SubSeq(sendQueue, 1, n)
        /\ bufferedAmount' = after(n)
        /\ sendQueue' = SubSeq(sendQueue, n + 2, Len(sendQueue))
        /\ thrown' = TRUE

OnBufferedAmountLow ==
    /\ lowEvents > 0
    /\ lowEvents' = lowEvents - 1
    /\ IF Usable
       THEN \E n \in 0..Len(sendQueue) : Drains(n) \/ DrainThrows(n)
       ELSE UNCHANGED <<sendQueue, buffer, bufferedAmount, thrown>>
    /\ UNCHANGED <<readyState, isClosed, calls, delivered>>

\* The channel transmits its oldest message; bufferedamountlow fires when that
\* takes bufferedAmount from above the threshold to the threshold or below.
Transmit ==
    LET less == bufferedAmount - Head(buffer).size
        fires == bufferedAmount > P2P_BUFFER_LOW_THRESHOLD /\ less <= P2P_BUFFER_LOW_THRESHOLD
    IN  /\ readyState = "open" /\ buffer # <<>>
        /\ delivered' = Append(delivered, Head(buffer).id)
        /\ buffer' = Tail(buffer)
        /\ bufferedAmount' = less
        /\ lowEvents' = IF fires THEN lowEvents + 1 ELSE lowEvents
        /\ UNCHANGED <<readyState, isClosed, sendQueue, calls, thrown>>

\* The channel goes down from the other end, or because the network failed.
ChannelCloses ==
    /\ readyState = "open"
    /\ readyState' = "closed"
    /\ buffer' = <<>>
    /\ UNCHANGED <<isClosed, sendQueue, calls, bufferedAmount, lowEvents, delivered, thrown>>

\* close: the queue is dropped, and with the connection what the channel held.
Close ==
    /\ ~isClosed
    /\ isClosed' = TRUE
    /\ readyState' = "closed"
    /\ sendQueue' = <<>>
    /\ buffer' = <<>>
    /\ UNCHANGED <<calls, bufferedAmount, lowEvents, delivered, thrown>>

Send == SendRefused \/ \E z \in Sizes : SendQueues(z) \/ SendPasses(z) \/ SendThrows(z)

Next == ChannelOpens \/ Send \/ OnBufferedAmountLow \/ Transmit \/ ChannelCloses \/ Close

Spec == Init /\ [][Next]_vars

\* The network moves, and the browser runs the event handlers it queued.
FairSpec == Spec /\ WF_vars(Transmit) /\ WF_vars(OnBufferedAmountLow)

-----------------------------------------------------------------------------
\* A message that waits in the queue reaches the other end, unless the channel
\* goes down or a send throws.
QueuedArrives ==
    \A n \in 1..MaxMessages :
        (\E i \in DOMAIN sendQueue : sendQueue[i].id = n)
            ~> (\E i \in DOMAIN delivered : delivered[i] = n) \/ ~Usable \/ thrown

\* A channel implements OrderedDelivery: what is accepted and not delivered is
\* in the buffer and, behind it, in the queue.
Ordered == INSTANCE OrderedDelivery WITH
    Messages <- 1..MaxMessages,
    channel <- IF Usable THEN "up" ELSE IF readyState = "connecting" /\ ~isClosed THEN "new" ELSE "down",
    pending <- IF Usable THEN [i \in 1..(Len(buffer) + Len(sendQueue)) |-> (buffer \o sendQueue)[i].id]
                         ELSE <<>>,
    faulty <- thrown

\* A message send accepts, whether it passes or waits in the queue, is delivered
\* after all accepted before it and with none left out (send queues behind a
\* queue that is not empty, drainSendQueue shifts and sends in one go).  An
\* exception of the channel's send loses the message drainSendQueue had shifted,
\* and only that one.
DeliversInOrder == Ordered!Spec
=============================================================================
