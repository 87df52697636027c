------------------------- MODULE AvailabilityExchange -------------------------
(***************************************************************************)
(* How one student learns which chunks another one has                     *)
(* (apps/web/src/p2p/PeerMeshCoordinator.ts): a sender downloads one       *)
(* resource after the other and tells about it with BITFIELD and HAVE      *)
(* frames, and serves chunks as PIECE frames, over the data channel of     *)
(* DataChannelSend; a receiver, which downloads too, decodes the frames    *)
(* and keeps one bitfield for the sender, whatever resource it is of,      *)
(* shared with its scheduler.                                              *)
(*                                                                         *)
(* Downloads of one browser do not overlap here (DownloadSession has that) *)
(* and none starts twice.                                                  *)
(***************************************************************************)
EXTENDS DataChannelSend, WireProtocol

CONSTANTS
    Resources,   \* resource ids, as their bytes
    TotalOf,     \* totalChunks of each
    Visited,     \* what the store may hold of each from earlier visits
    Traded,      \* bound: the chunks delivered to the sender, of each
    NoResource

\* encodeCommonHeader throws for ids of more than 255 bytes; setUint32 has 32 bits.
ASSUME ResourcesAssumption ==
    /\ NoResource \notin Resources
    /\ \A r \in Resources : /\ r \in Seq(0..255) /\ Len(r) <= 255
                            /\ TotalOf[r] \in Nat /\ TotalOf[r] \div 65536 < 65536
                            /\ Traded[r] \subseteq 0..(TotalOf[r] - 1)
                            /\ \A s \in Visited[r] : s \subseteq 0..(TotalOf[r] - 1)

VARIABLES
    \* The sender:
    started,     \* resources it has called startDownload for
    manifest,    \* currentManifest
    loading,     \* startDownload awaits the store
    offered,     \* the resource of this.scheduler
    loaded,      \* resources a scheduler was made for; one that was stopped may still deliver
    held,        \* the chunks of each resource
    outbox,      \* frames the handler that runs is about to hand to send
    frames,      \* frames handed to send, by the number of the message
    \* The receiver:
    wanted,      \* currentManifest
    seeking,     \* the resource of this.scheduler
    view,        \* peerBitfields.get(sender)
    known,       \* the same in its scheduler
    shared,      \* view and known are the same object
    asked        \* REQUESTs on their way to the sender

senderVars == <<started, manifest, loading, offered, loaded, held>>
receiverVars == <<wanted, seeking, view, known, shared>>
exchangeVars == <<senderVars, outbox, frames, receiverVars, asked>>
allVars == <<vars, exchangeVars>>

NoView == EmptyBitfield(0)   \* no entry: it says as little

\* Two blocks of one byte: P2P_BLOCK_SIZE is 1 here.
ChunkData(r, c) == <<c % 256, c % 256>>

\* A PIECE is large, the others are small.
SizeOf(frame) == IF frame[2] = TypePiece THEN 2 ELSE 1

ExchangeInit ==
    /\ Init
    /\ started = {} /\ manifest = NoResource /\ loading = FALSE /\ offered = NoResource
    /\ loaded = {}
    /\ held = [r \in Resources |-> {}]
    /\ outbox = <<>> /\ frames = <<>>
    /\ wanted = NoResource /\ seeking = NoResource
    /\ view = NoView /\ known = NoView /\ shared = FALSE
    /\ asked = {}

(***************************************************************************)
(* The sender                                                              *)
(***************************************************************************)
\* A handler of the sender begins, and may send n messages (MaxMessages bounds them all).
Handler(n) == outbox = <<>> /\ calls + n <= MaxMessages

\* Bound: once the channel is down, nothing more is started or stored.
InUse == readyState # "closed" /\ ~isClosed

\* To all open channels.
Broadcast(frame) == outbox' = IF Usable THEN <<frame>> ELSE <<>>

LocalBitfield(r) == BitfieldOf(TotalOf[r], held[r])

\* startDownload up to its await.
StartDownload(r) ==
    /\ InUse /\ Handler(0) /\ ~loading /\ r \notin started
    /\ started' = started \cup {r}
    /\ manifest' = r
    /\ loading' = TRUE
    /\ \E chunks \in Visited[r] : held' = [held EXCEPT ![r] = chunks]
    /\ UNCHANGED <<vars, offered, loaded, outbox, frames, receiverVars, asked>>

\* startDownload after its await, with chunks missing: a scheduler is made and the bitfield told.
Resume ==
    /\ Handler(1) /\ loading
    /\ ~IsComplete(LocalBitfield(manifest))
    /\ loading' = FALSE
    /\ offered' = manifest
    /\ loaded' = loaded \cup {manifest}
    /\ Broadcast(EncodeBitfield(manifest, TotalOf[manifest], LocalBitfield(manifest)))
    /\ UNCHANGED <<vars, started, manifest, held, frames, receiverVars, asked>>

\* The same when the store has it all, or could not be read (getAvailableChunks rejects, and
\* startDownload with it): nothing is made, and nothing told.
ResumeWithNothing ==
    /\ Handler(0) /\ loading
    /\ loading' = FALSE
    /\ UNCHANGED <<vars, started, manifest, offered, loaded, held, outbox, frames, receiverVars,
                   asked>>

\* Broken Stores: tells of the chunk before the store has it.
StoresAfterTelling(r, c) ==
    /\ InUse /\ Handler(1) /\ r \in loaded
    /\ c \in Traded[r] \ held[r]
    /\ Broadcast(EncodeHave(r, c))
    /\ UNCHANGED <<vars, senderVars, frames, receiverVars, asked>>

\* A chunk is verified and stored, by the scheduler that runs or one that was stopped.
Stores(r, c) ==
    /\ InUse /\ Handler(1) /\ r \in loaded
    /\ c \in Traded[r] \ held[r]
    /\ held' = [held EXCEPT ![r] = @ \cup {c}]
    /\ Broadcast(EncodeHave(r, c))
    /\ UNCHANGED <<vars, started, manifest, loading, offered, loaded, frames, receiverVars, asked>>

\* handleChannelOpen.  While a download loads, the bits of the one before go under its name.
OnChannelOpen ==
    /\ Handler(2) /\ ChannelOpens
    /\ outbox' = IF manifest = NoResource \/ offered = NoResource THEN <<>>
                 ELSE <<EncodeBitfield(manifest, TotalOf[manifest], LocalBitfield(offered)),
                        EncodeUnchoke(manifest)>>
    /\ UNCHANGED <<senderVars, frames, receiverVars, asked>>

\* A REQUEST has come, and the store has answered: the chunk goes out in blocks, if it is there.
Serve(r, c) ==
    LET data == ChunkData(r, c)
        block(k) == EncodePiece(r, c, k - 1, Len(data), <<data[k]>>)
    IN  /\ Handler(Len(data)) /\ [resource |-> r, chunk |-> c] \in asked
        /\ asked' = asked \ {[resource |-> r, chunk |-> c]}
        /\ outbox' = IF c \in held[r] /\ Usable THEN [k \in DOMAIN data |-> block(k)] ELSE <<>>
        /\ UNCHANGED <<vars, senderVars, frames, receiverVars>>

\* The sender's scheduler asks the receiver for a chunk: the channel is not looked at, and it
\* may be going down.
Ask(c) ==
    /\ Handler(1) /\ offered # NoResource /\ ~loading
    /\ readyState # "connecting" /\ ~isClosed
    /\ c \in Traded[offered] \ held[offered]
    /\ outbox' = <<EncodeRequest(offered, c)>>
    /\ UNCHANGED <<vars, senderVars, frames, receiverVars, asked>>

\* The next frame is handed to send.
SendNext ==
    /\ outbox # <<>>
    /\ LET z == SizeOf(Head(outbox))
       IN  SendRefused \/ SendQueues(z) \/ SendPasses(z) \/ SendThrows(z)
    /\ frames' = Append(frames, Head(outbox))
    /\ outbox' = Tail(outbox)
    /\ UNCHANGED <<senderVars, receiverVars, asked>>

OnLow == Handler(0) /\ OnBufferedAmountLow /\ UNCHANGED exchangeVars

(***************************************************************************)
(* The receiver                                                            *)
(***************************************************************************)
\* startDownload up to its await.  Bound: after one that makes no scheduler, none is started.
Seek(r) ==
    /\ InUse /\ wanted = seeking /\ r # wanted
    /\ wanted' = r
    /\ UNCHANGED <<vars, senderVars, outbox, frames, seeking, view, known, shared, asked>>

\* The scheduler is made, and given the bitfields the coordinator has.
SeekLoaded ==
    /\ wanted # seeking
    /\ seeking' = wanted
    /\ known' = view
    /\ shared' = (view # NoView)
    /\ UNCHANGED <<vars, senderVars, outbox, frames, wanted, view, asked>>

\* Broken TakeBitfield: the scheduler is not told.
TakeBitfieldQuietly(m) ==
    /\ view' = m.bitfield
    /\ shared' = FALSE
    /\ UNCHANGED <<wanted, seeking, known>>

TakeBitfield(m) ==
    /\ view' = m.bitfield
    /\ known' = IF m.resource = seeking THEN m.bitfield ELSE known
    /\ shared' = (m.resource = seeking)
    /\ UNCHANGED <<wanted, seeking>>

\* The bit of a HAVE is set in the one bitfield there is, of whatever resource; a chunk it has
\* not throws, and the scheduler is not told.
TakeHave(m) ==
    LET bf == IF view = NoView /\ wanted # NoResource THEN EmptyBitfield(TotalOf[wanted]) ELSE view
        own == IF shared THEN WithBit(bf, m.chunk)
               ELSE IF known = NoView THEN EmptyBitfield(TotalOf[seeking]) ELSE known
    IN  /\ IF bf # NoView /\ ~InBounds(bf, m.chunk)
           THEN view' = bf /\ UNCHANGED known
           ELSE /\ view' = IF bf = NoView THEN view ELSE WithBit(bf, m.chunk)
                /\ known' = IF m.resource = seeking /\ InBounds(own, m.chunk)
                            THEN WithBit(own, m.chunk)
                            ELSE IF shared THEN view' ELSE known
        /\ UNCHANGED <<wanted, seeking, shared>>

\* handleDataMessage.  A REQUEST finds nothing to serve, a PIECE is the scheduler's affair, and
\* what is malformed is ignored.
Take(m) ==
    CASE m.type = TypeBitfield -> TakeBitfield(m)
      [] m.type = TypeHave -> TakeHave(m)
      [] OTHER -> UNCHANGED receiverVars

\* The oldest message arrives.
Arrives ==
    /\ Transmit
    /\ Take(DecodeMessage(frames[Head(buffer).id]))
    /\ UNCHANGED <<senderVars, outbox, frames, asked>>

\* The receiver's scheduler asks for a chunk it thinks the sender has, one at a time.
Request(c) ==
    /\ seeking # NoResource /\ asked = {} /\ Usable
    /\ c \in AvailableIndices(known)
    /\ asked' = {[resource |-> seeking, chunk |-> c]}
    /\ UNCHANGED <<vars, senderVars, outbox, frames, receiverVars>>

\* handlePeerLeft, in both browsers.
GoesDown ==
    /\ Handler(0) /\ (ChannelCloses \/ Close)
    /\ view' = NoView /\ known' = NoView /\ shared' = FALSE
    /\ asked' = {}
    /\ UNCHANGED <<senderVars, outbox, frames, wanted, seeking>>

ExchangeNext ==
    \/ \E r \in Resources : StartDownload(r) \/ Seek(r)
    \/ \E r \in Resources : \E c \in Traded[r] : Stores(r, c) \/ Serve(r, c) \/ Ask(c)
    \/ \E c \in AvailableIndices(known) : Request(c)
    \/ Resume \/ ResumeWithNothing \/ SeekLoaded
    \/ OnChannelOpen \/ SendNext \/ OnLow \/ Arrives \/ GoesDown

ExchangeSpec == ExchangeInit /\ [][ExchangeNext]_allVars

\* The network moves, handlers run to their end, and the browser runs those it queued.
ExchangeFairSpec ==
    ExchangeSpec /\ WF_allVars(Arrives) /\ WF_allVars(SendNext) /\ WF_allVars(OnLow)

-----------------------------------------------------------------------------
Quiet == outbox = <<>> /\ sendQueue = <<>> /\ buffer = <<>>

\* Once everything sent has arrived, the receiver's scheduler knows of every chunk the sender has
\* of the resource both download, however their downloads, the opening of the channel, frames of
\* other resources and stragglers of stopped schedulers were interleaved (handleChannelOpen,
\* startDownload, handleDataMessage), if no send has thrown and the sender is not between
\* resources.
KnowsWhatIsOffered ==
    Usable /\ Quiet /\ ~thrown /\ ~loading /\ offered # NoResource /\ offered = manifest
        /\ offered = seeking
    => held[offered] \subseteq AvailableIndices(known)

\* As long as both have downloaded the same resource only, the receiver never takes a chunk for
\* available that the sender does not have.  (With a second resource it may: the bitfield is not
\* kept by resource, PeerMeshCoordinator.ts:341.)
NoFalseClaims ==
    \A r \in Resources :
        started \subseteq {r} /\ {wanted, seeking} \subseteq {r, NoResource}
            => AvailableIndices(view) \cup AvailableIndices(known) \subseteq held[r]

\* What an encoder has written decodes to what it was given, and a frame that was cut short
\* anywhere, or is of another version, is refused, never taken for another message: the codec
\* and the bitfields in it do what the exchange relies on (protocol.wire.ts, bitfield.ts).  Of
\* the frames the sender really writes, only a BITFIELD can be refused: one with the name of a
\* resource and the bits of another (handleChannelOpen while a download loads).
WireFaithful ==
    /\ BitfieldsFaithful
    /\ CodecFaithful
    /\ \A n \in DOMAIN frames :
         frames[n][2] # TypeBitfield => DecodeMessage(frames[n]) # Malformed
=============================================================================
