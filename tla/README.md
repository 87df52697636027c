# Campus Mesh: TLA+ models, checks and proofs

Campus Mesh distributes course files in a classroom: students' browsers exchange
256 KB chunks over WebRTC data channels, an HTTP origin server fills the gaps, and
the same server runs the class sessions and the signaling that lets browsers find
each other. This directory holds TLA+ models of the parts where the order of events
decides whether the system is right, the TLC configurations that check them, and
TLAPS proofs of what matters most. Paths are relative to `src/`.

## 1. The system

| component | code | state it keeps | operations |
|---|---|---|---|
| chunk scheduler | `apps/web/src/p2p/scheduler/ChunkScheduler.ts` | local bitfield, bitfield and choke state of each peer, requests in flight with their timers, blocks being reassembled, chunks claimed for the origin | start, stop, updatePeerBitfield, updatePeerHave, setPeerChoked, removePeer, handlePiece, handleTimeout, the settled fetch, digest and put |
| integrity verifier | `apps/web/src/p2p/integrity/` | none | verify |
| peer connection | `apps/web/src/p2p/webrtc/WebRtcPeerConnection.ts` | data channel, send queue, queued ICE candidates | createOffer, setRemoteOffer, setRemoteAnswer, addIceCandidate, send, drain, close |
| mesh coordinator | `apps/web/src/p2p/PeerMeshCoordinator.ts` | connections, bitfields of the peers, the current manifest and scheduler, the download's progress | peer discovered or left, offer, answer, ICE, channel open and close, wire messages, startDownload, assembleFile, stop |
| chunk store | `apps/web/src/p2p/storage/chunk.store.ts` | IndexedDB connection, memory fallback | put, get, has, delete, getAvailableChunks, clear |
| download telemetry | `apps/web/src/p2p/telemetry/` | counters, latencies, event feed | startSession, record..., getSnapshot |
| signaling hook | `apps/web/src/hooks/useSignaling.ts` | the WebSocket, the list of peers | connect, onmessage, onclose with backoff |
| signaling server | `apps/server/src/signaling/signaling.server.ts`, `room.manager.ts` | the socket registered for each peer of each session | connect, heartbeat, relay, error and close |
| swarm telemetry | `apps/server/src/signaling/telemetry.manager.ts` | latest report of each peer | updatePeerReport, removePeer, clearSession, getMetrics |
| class sessions | `apps/server/src/sessions/`, `database/session.repository.ts` | session rows (code, expiry, is_active) | create, join, info, end |
| resources | `apps/server/src/resources/`, `storage/`, `database/resource.repository.ts` | files on disk, resource and chunk rows | upload, list, manifest, chunk, delete |
| authentication | `apps/server/src/auth/` | sliding windows of the rate limiters | token, password, checkLimit |
| bitfield, wire protocol | `packages/shared/src/p2p/` | none | set, has, encode, decode |
| user interface, routes, start-up | the rest of `apps/` | form state | rendering, request checks |

### How the parts interact

- The coordinator turns wire messages into calls of the scheduler and gives it
  callbacks: `sendToPeer` (a peer connection's `send`), `broadcastToPeers`,
  `fetchFromOrigin` (HTTP), the chunk store's `put`. A peer's channel that closes, or
  a `PEER_LEFT` from signaling, ends in `scheduler.removePeer`.
- The signaling server is one process for all classes. A WebSocket handler calls the
  room map and the telemetry map; HTTP requests (end of session, telemetry reset)
  reach into the same maps. Browsers learn of each other only from what it sends.
- Sessions and resources are in SQLite, rooms and reports in memory, chunks in each
  browser's IndexedDB.

### What is hard, and what makes each part correct

- *Scheduler.* One-threaded, but every chunk has up to five things in progress at
  once: a request with its timer, blocks of an abandoned attempt, a digest, a write
  and an origin download. Correct means: only verified chunks are stored and
  announced; no chunk is lost (asked from nobody, waited for by nobody), none is
  downloaded from the origin twice at once; first attempts respect the caps; it ends.
- *Signaling.* Browsers lose connections and redial before the server notices; errors
  and closes come late, sessions end, expire and are looked up, the process restarts.
  Correct means: a room lists exactly the live connections of its class, each browser
  can rebuild it from the messages it got, and ended sessions stay empty.
- *Data channel.* Backpressure by two thresholds, a queue drained by an event.
  Correct means: nothing accepted is lost, overtaken or left waiting for an event
  that does not come.
- *Coordinator.* `startDownload` awaits the store while messages, a second download
  or `stop` arrive; what peers said about one resource is used for another. Correct
  means: what is announced is stored, and one scheduler runs, that of the resource shown.
- *Resources.* An upload is a file, a move and a transaction; any may fail.
- *Sessions.* The uniqueness of the code is checked before an await and used after, the
  class before the passcode; rows survive a restart and rooms do not. Correct means: a
  code names one class, and a class that is over admits nobody.
- *Chunk store.* Calls that share one attempt to open the database, which may fail for
  all and be taken up again. Correct means: each call settles, and a read sees what was
  written.
- *Exchange of bitfields.* Two lists of bits per browser, told in frames over a channel
  that queues, while both ends change resources. Correct means: in the end the other side
  knows what is on offer, and is told of nothing that is not.
- *Telemetry.* Counters, heartbeats, reports, pushes and polls. Correct means: what the
  instructor's page ends up with is what the students counted.

## 2. The modules

| module | models | status |
|---|---|---|
| `ChunkDeliveries` | abstract: what the coordinator relies on of a scheduler | abstract specification |
| `ChunkScheduler` | the scheduler, all operations | checked, proved, implements `ChunkDeliveries` |
| `ChunkSchedulerProofs` | theorems about it, the refinement among them | proved |
| `MCChunkScheduler` | its instances for TLC | |
| `Signaling` | signaling server, rooms, report lifetimes, the session operations that touch them, the browsers' rosters | checked, proved |
| `SignalingProofs` | theorems about it | proved |
| `MCSignaling` | its instances for TLC | |
| `DownloadSession` | the coordinator's downloads, one after the other or crossing, and what peers and the student are told | checked, proved |
| `DownloadSessionProofs` | theorems about it | proved |
| `MCDownloadSession` | its instances for TLC | |
| `ResourceCatalog` | abstract: what clients see of uploads and deletions | abstract specification |
| `ResourceStore` | uploads, deletions and chunk requests over files and rows, with failures and crashes | checked, proved, implements `ResourceCatalog` |
| `ResourceStoreProofs` | theorems about it, the refinement among them | proved |
| `PeerMesh` | discovery, glare rule, offers, answers, candidates and connection slots of the browsers of a class, over the server's relay | checked, proved |
| `PeerMeshProofs` | theorems about it | proved |
| `OrderedDelivery` | abstract: what a sender relies on | abstract specification |
| `DataChannelSend` | `WebRtcPeerConnection`'s sending half | checked, proved, implements `OrderedDelivery` |
| `Bitfield`, `WireProtocol` | `bitfield.ts` and `protocol.wire.ts`, to the bit and the byte | checked, proved |
| `AvailabilityExchange` | composes the three: what a student tells another of its chunks, over the channel | checked, proved |
| `AvailabilityExchangeProofs` | theorems about the channel, bitfields and codec, and the exchange built on them | proved |
| `MCAvailabilityExchange` | its instances for TLC, and what the encoders are tried on | |
| `ChunkStore` | the chunk store over IndexedDB and memory | checked, proved |
| `ChunkStoreProofs` | theorems about it | proved |
| `MCChunkStore` | its instances for TLC | |
| `ClassSessions` | classes from creation to end: routes, limiters, codes, rows, tokens | checked, proved |
| `ClassSessionsProofs` | theorems about it | proved |
| `MCClassSessions` | its instances for TLC | |
| `TelemetryCalculations` | the figures, rounded as the code rounds them | checked |
| `SwarmDashboard` | counters, heartbeats, reports, pushes, polls and the instructor's page | checked |
| `MCSwarmDashboard` | its instances for TLC | |

What could follow: `EfficiencyAgrees` for every number of students, once a prover takes
products of variables.

### ChunkScheduler

One action is one JavaScript callback; what follows an `await` is a separate action.
The tasks waiting at an `await` are a bag `tasks`, so the same chunk may have several.

| variable | code |
|---|---|
| `phase` | `isRunning`, with "never started" and "stopped" told apart |
| `have`, `store`, `announced` | `localBitfield`, the chunk store's contents, the HAVE messages broadcast |
| `avail`, `choked`, `open` | `peerBitfields`, `peerChoked`, whose channel takes a send |
| `inFlight` | `inFlight`: peer and retries of the request of each chunk |
| `reassembly` | `reassembly`: which blocks, and whether intact |
| `originInFlight` | `originInFlight` |
| `tasks` | promises: origin fetches, digests, puts |
| `rejected` | history: chunks of which a peer's delivery made `handlePiece` reject since `scheduleNext` last ran |

`scheduleNext`, `scheduleChunk`, `dispatchP2PRequest` and `dispatchOriginFallback`
are synchronous, so they are operators from a scheduling state to the set of states
they may leave (several where the order of a JavaScript `Map` decides). A loop that
assigns chunks to peers is described by the plans it can produce: each chunk goes to
a least-loaded peer, the load counting what the loop has asked for before. A send that
fails makes `scheduleChunk` sort the same peers by the same loads; nothing changed,
so it meets the same peer again. Where the channel is not open that goes on until the
retries run out and the chunk goes to the origin. Where `dataChannel.send` throws, the
message has been queued (`WebRtcPeerConnection.ts`:206), so the second `send` finds a
queue, appends to it and succeeds: the request in flight is one attempt later than the
one that failed, or two later than the request it replaces (`Throws`, `Attempt`, `Asked`),
or goes to the origin if no attempt is left; once per peer, since the queue takes what
comes after it. `Carry` does all this in one step. Details worth knowing:

- a block may come from any peer, because the code never compares the sender of a
  PIECE with the peer it asked; and bytes may be corrupt wherever they come from;
- the end of a task is one action, although the code's `finally` and the caller's
  continuation are further microtasks: no other event can run between microtasks of
  one settled promise except microtasks of another, which the model orders freely;
- a second copy of a block is ignored, as in the code (`parts.has`);
- `CanFail` names what may throw in `handlePiece`: the copy of a block that reaches past
  the length of the chunk (`HandleOverrun`, a RangeError at line 354), the digest, where a
  page served over plain http has no `crypto.subtle`, and the store's put (`TaskRejects`).
  Each leaves `handlePiece` after the request, its timer and its blocks are forgotten and
  before `scheduleNext` (line 360). An origin download catches the last two and begins again;
- a block that lies about the length of its chunk can make it complete early, with bytes
  that will not verify;
- `Stop` leaves tasks running; what they do afterwards is in the model.

`ChunkDeliveries` says the same from outside: deliveries of chunks, from peers or the
origin, begin and end in the store or in nothing. Under the mapping (`Deliveries`, near the
end of the module) the tasks of a chunk and a source, at whichever await, are so many
deliveries of it; the store has the chunks it has intact; requests, blocks, claims and
timers are not seen.

Broken variants of definitions (`FinishKeepsClaim`, `HandleTimeoutKeepsBlocks`, ...) sit
beside the originals. No specification uses them. For each property of each passing
run one of them, put in place of its original, makes TLC report the property violated:
evidence that the property watches the code it claims to watch. The other models have
theirs.

### Signaling

One action is one event of a socket or one HTTP request. A socket serves one
connection; the server's view of it (`sock`) is apart from the browser's (`link`), so
a browser can redial while its old connection is still registered, and what it sent
on the old one can still arrive. `inbox` carries what the server sent, in order, and
`view` is the list `useSignaling` builds from it.

| variable | code |
|---|---|
| `active`, `overdue`, `ended` | `is_active`, `expires_at` passed, ended by the instructor |
| `sock`, `owner` | readyState of each server-side socket, the peer of its token |
| `rooms` | `RoomManager.rooms`: the socket registered for each peer |
| `reports` | `TelemetryManager.reports`: who has one |
| `link`, `inbox`, `view` | the browsers: sockets they hold, messages under way, peers listed |

A heartbeat records a report whichever socket of the class it comes on, also one that was
replaced or evicted and has not closed. `Relay` stands for the signals the pages send; the
server would forward an envelope of any type, and a page that wrote a roster or a departure
of its own making would be believed. No page of this repository does.

Left out: the numbers in reports and the metrics broadcasts, which touch no roster
(`SwarmDashboard` has them); the contents of SDP and ICE. Nothing in the code detects a dead connection
(there is no ping), so a half-open socket stays registered until its close event, and
`NoGhostMembers` says exactly that much.

### DownloadSession

A download is the number of its call of `startDownload`. The call is split at its one
await: `StartDownload`, `ReadAvailable` (the store's transaction takes its snapshot
some time before the call resumes), then `ResumeStart` or `ResumeComplete`; or `ReadFails`,
when the store cannot be read: the call rejects, the scheduler is stopped, the manifest is
the new one and telemetry is at zero, and the page goes on showing the download before.

| variable | code |
|---|---|
| `starts`, `stage`, `resource` | the calls made, where each stands, the manifest it was given |
| `have`, `knows` | `localBitfield` of each call, the keys of its scheduler's `peerBitfields` |
| `scheduler`, `manifest` | `this.scheduler` (as the number of its call), `currentManifest` |
| `deliveries` | origin fetches begun and peers' chunks being verified, of every scheduler |
| `repeats` | how many of them were begun after, or beside, another of the same chunk |
| `conn`, `peerBitfields` | `this.peers` and whether the channel is open; `this.peerBitfields` |
| `told` | the chunks named in each BITFIELD and HAVE sent so far |
| `shown`, `telemetry` | `state.download` and the chunk counters of `P2PTelemetry` |

`this.scheduler` and the scheduler that runs are not the same thing: between
`StartDownload` and the resumption it names a stopped one, and after a download that
found everything stored it still names the one before. A scheduler is here what the
coordinator sees of it: deliveries that land, fail, or turn from a peer's chunk into an
origin fetch, before or after it was stopped; that this is how `ChunkScheduler` behaves is
what `ChunkDeliveries` states and the proofs show. One element of `deliveries` stands for all
deliveries in progress of the same scheduler, chunk and source: when one of several ends, the
element stays (`Ends`). Which chunks a peer claims is left out, because a wrong bitfield costs a scheduler time and nothing else, but
whether a peer has one is kept. `crossed` and `strayed` record that a call came while
another was at its await, and that a delivery of a stopped scheduler landed.

### ResourceStore

An upload stands for the resource it makes, which has a random name of its own. Each
await of `processUpload`, `move`, `deleteResource` and `getChunkStream` is a stage:

| variable | code |
|---|---|
| `upload` | where `processUpload` is: `saving`, `hashing`, `moving` (rename), `copying` and `clearing` (the fallback for EXDEV), `moved`, `recorded`, `cleaning` (the catch block), and the answer |
| `temps`, `file` | files in `temporary/`; each resource's file in `resources/`, absent, partial or whole |
| `rows` | `resources` with their `chunk_manifests`, written in one transaction and deleted by cascade |
| `deletion`, `read` | deletions after their DELETE statement; chunk requests after their checks |
| `session` | whether the class is in session, which uploads and requests ask once, at their start |
| `mishaps` | history: a crash, a failed unlink, a failed commit |

A failing client, an empty or oversized file, an unreadable one and a refused rename
all end in the catch block, so they are one action, `Fail`. `Crash` is the death of the
process, not of the machine: files written stay written, and SQLite keeps what it
committed. That a file once opened stays readable after its unlink is POSIX.

### PeerMesh

Browsers, the room they meet in, and one link up and one down between each and the
server. A browser's coordinator has at most one connection to each peer (`conn`); its
handlers run to the first await (`Receive`), and what follows each await is an action:

| variable | code |
|---|---|
| `life`, `online`, `dials` | in class or not; whether `useSignaling`'s socket is open, and how many it made |
| `room` | the socket registered for each peer |
| `up`, `inbox` | frames on their way to the server on each socket, and from it on the current one |
| `conn`, `made` | `peers` of each coordinator, and how many connections it made to each peer |
| `failures`, `shaken` | history: sockets and channels that broke, and whose |

| field of a connection | code |
|---|---|
| `initiator`, `queued` | `isInitiator`, `pendingIceCandidates` |
| `local`, `remote` | the descriptions of the `RTCPeerConnection` |
| `todo`, `replying` | calls of setRemoteOffer or setRemoteAnswer at their awaits |
| `reachable`, `gathered`, `open` | the peer's candidate added, its own sent, the data channel |

The glare rule compares peerIds, so they are numbers. A description or a candidate is
the number of the connection it belongs to: one that survives a reconnection is applied
to the wrong connection and establishes nothing, as in a browser. One candidate stands
for all. A refused description (an answer in the stable state) changes nothing; an
offer to a connection that has a description may be refused or taken. An instructor's
browser joins the room and has no coordinator, yet students take a slot for it. A
socket that breaks loses everything sent down and any suffix of what was sent up, and
the server notices its end late, perhaps after the browser redialled.

### DataChannelSend

`sendQueue` and `isClosed` are the code's; `buffer`, `bufferedAmount`, `lowEvents`,
`readyState` and `delivered` are the browser's data channel, modelled from the
interface the code programs against (bufferedamountlow fires when the amount falls
from above the threshold to it or below). An open channel's `send` may throw at any
time; `thrown` remembers that it did. The refinement mapping to `OrderedDelivery`
takes the buffer followed by the queue as the messages accepted and not delivered.
The channel is reliable and ordered, as the code makes it: `README.md`:181 documents
`maxRetransmits: 5`, and `WebRtcPeerConnection.ts`:48 creates the channel with
`ordered: true` alone. With limited retransmissions the network could drop frames, and
neither `QueuedArrives` nor the properties of the exchange built on it would hold.

### AvailabilityExchange, Bitfield, WireProtocol

A sender and a receiver, with one data channel of `DataChannelSend` from the one to the
other. Frames are the bytes `protocol.wire.ts` writes, and the receiver acts on what
`DecodeMessage` makes of them. A handler fills `outbox` with the frames it sends; they
are handed to `send` one by one before the next handler of the sender begins, as
JavaScript runs it.

| variable | code |
|---|---|
| `manifest`, `loading`, `offered` | `currentManifest`, the await of `startDownload`, the resource of `this.scheduler` |
| `loaded`, `held` | schedulers made, stopped ones included; the chunks in the store, which are also the bits of the `localBitfield` of each |
| `outbox`, `frames` | frames the running handler is about to send, and all handed to `send` |
| `wanted`, `seeking` | the receiver's `currentManifest` and the resource of its scheduler |
| `view`, `known`, `shared` | `peerBitfields.get(sender)` in its coordinator and in its scheduler, and whether they are the same object |
| `asked` | REQUESTs on their way to the sender |

`shared` matters: the coordinator hands its `Bitfield` object to the scheduler, so a bit
set for a HAVE appears in both, until a HAVE or BITFIELD replaces one of them. The
opposite direction of the channel is its own instance of the same thing, and is left out
but for the REQUESTs. `P2P_BLOCK_SIZE` is one byte and a chunk two. A bitfield is its
number of chunks and its bytes; the masks are powers of two added and taken away, which
is what `|=` and `&= ~` do to a bit that is tested first. Resource ids are at most 255
bytes (the encoder throws for a longer one) and numbers of chunks fit `setUint32`.
`SomeIds`, `SomeNumbers`, `SomeDatas` and `SomeTotals` are what the codec is tried on where
it is compared with its meaning; `InputsAssumption` keeps them to what the encoders take.

### ChunkStore

| variable | code |
|---|---|
| `supported` | `typeof indexedDB !== 'undefined'` |
| `handle` | `dbPromise`: null, pending, fulfilled |
| `op`, `waiting`, `queue`, `fallenBack` | calls in progress: all, those awaiting `dbPromise`, those whose transaction was created, those that go on with memory |
| `database`, `memory` | IndexedDB's object store; `memoryFallback` |
| `reply` | what the call that resolved in the last step answered |
| `settled`, `expects` | history: what the calls that resolved say of each chunk, and what each call may rely on since it started |

The one `catch` in `getDb` belongs to the call that opened the database: when the attempt
fails that call goes on in memory and the others, which returned the promise itself,
reject. The next call tries again. IndexedDB runs the transactions of one object store in
the order of their creation; a request may fail, and a transaction may abort after its
request succeeded, when the call has resolved already.

### ClassSessions

One action is one HTTP request, or one of the two halves of it where scrypt is awaited.

| variable | code |
|---|---|
| `now` | the clock, in units that matter to windows and expirations |
| `rows` | the `sessions` table: code, is_active, expires_at |
| `pending` | `createSession` and `joinSession` at their await |
| `tokens` | tokens signed so far: what they name, and `exp` |
| `room` | the roles let into the room by `handleSignalingConnection` |
| `records`, `recent` | the limiters' timestamps, as sets of entries (the time and its number among those of that time); history: the calls let through within the window, by the life of the server that let them through |
| `restarts` | how often the server has restarted: its present life |
| `over` | history: classes of which a caller was told that they have ended or expired |

A session id is a random UUID and never comes twice; codes are few here, so that they do.
Nothing deletes a row. Worth knowing, and in the model: a code of an ended class passes
the generator's check, which looks at active classes only, and the UNIQUE column then
refuses the row (500); an expired class goes on for those inside until someone asks about
it; a token lives for `sessionTtlHours`, whatever `durationHours` the class has; limiters are in
memory, so a window with a restart in it lets up to twice the limit through; a join
that awaits the passcode while the class ends is handed a token that opens nothing.

### SwarmDashboard, TelemetryCalculations

| variable | code |
|---|---|
| `class`, `running` | the instructor's latest class and whether it has not ended |
| `on`, `counters`, `sent` | students' pages in the class, `P2PTelemetry`'s byte counters with the number of open channels, the heartbeat under way on the socket in the room |
| `late` | heartbeats under way on sockets that were replaced or evicted |
| `members`, `reports` | the room; `TelemetryManager.reports`, of each class |
| `revived` | history: students out of the room of whom a late heartbeat brought back a report |
| `listening`, `pushes` | the instructor's socket and the SWARM_METRICS_UPDATEs on it |
| `fetches` | the page's requests: polls and resets, asked or answered |
| `page`, `metrics` | `sessionData`, `swarmMetrics` |

Percentages are counted in tenths and rounded as `Math.round` does. Pushes come in order;
an answer comes when it comes, to whatever class the page shows by then, and polls may
overlap. A student's page that redials has its new socket in the room while the old one may
still deliver a heartbeat (`Redials`, `LateHeartbeatArrives`), and when the old one closes
nothing is cleaned up (`OldSocketCloses`, `room.manager.ts`:36). Worth knowing: such a
heartbeat that comes after the student has left brings the report back, and nothing takes it
away again but a reset, the end of the class or a restart; a reset lasts until the next
heartbeat, because the counters of the students are not reset with it, although
`README.md`:39, 348 and 368 say that it zeroes the counters; starting another download zeroes
the student's counters, so that totals fall; the answer to a poll of an ended class may show in the
next class until the next poll.

## 3. What the runs check

| run | configuration | result |
|---|---|---|
| `scheduler` | 2 chunks of 2 blocks, 2 peers, 1 retry, caps 1 and 2, sends, blocks past the end, digests and puts may throw, 2 peer events | holds, 238 880 states |
| `scheduler_live` | 2 chunks of 1 block, 2 peers, 2 retries, caps 1, sends and blocks past the end may throw, 2 deliveries of a chunk by peers at once, fair | holds, 38 113 states |
| `scheduler_put_failure` | 1 chunk, 1 peer, the store may refuse, fair | violated |
| `signaling` | 2 classes, 3 students, 3 connections; 3 disturbances in one class alone, or relays between two | holds, 827 122 states |
| `downloads` | resources of 1 and 2 chunks, 1 peer, 2 downloads, or one and a delivery that repeats, 1 connection | holds, 2 407 247 states |
| `downloads_open` | the same | violated |
| `resources` | 2 uploads, 1 chunk request, 2 crashes | holds, 35 481 states |
| `peer_mesh` | 2 students and an instructor, 1 slot each, 2 sockets each, 1 failure, fair | holds, 502 426 states |
| `data_channel` | low mark 1, high mark 2, frames of size 1 and 2, 4 sends; resources of 2 and 9 chunks, fair | holds, 348 714 states |
| `chunk_store` | 2 calls at a time, a chunk of each of 2 resources, fair | holds, 171 645 states |
| `class_sessions` | 2 classes, 2 codes, 2 requests at a time, limits 2 and 1, windows 2 and 1, clock to 2, 1 restart | holds, 1 155 034 states |
| `dashboard` | 2 students, 2 classes, 2 fetches at a time, 2 changes, fair | holds, 808 858 states |

What they show:

- `scheduler`: the store never holds corrupt bytes and only verified, stored chunks
  are announced (`AdvertisedOnlyVerified`); a claim for the origin stands exactly
  while one download of the chunk is in progress (`OriginClaimsBacked`); blocks and
  requests do not outlive their attempt (`NoLeftovers`); what is held is never asked
  for again (`HeldNeverRefetched`); first attempts respect both caps even after
  retries overran them (`FirstAttemptsWithinCaps`). Something is always outstanding, unless
  a chunk a peer delivered made `handlePiece` reject and nothing has been scheduled since
  (`WorkOutstanding`). The exception is needed: see the runs that end in a violation.
- `scheduler_live`: a request that ends is followed up in the same callback, as the next
  attempt, as the one after if a send threw, by the origin or by a digest
  (`LostRequestMovesOn`); and the download completes, unless `handlePiece` rejects
  (`EventuallyComplete`). Whatever happens between, a scheduler is what
  `DownloadSession` takes it for (`DeliversChunks`): a delivery ends once; one that lands
  leaves its chunk in the store, in the bitfield and in a HAVE, all in one step; a running
  scheduler never has two origin downloads of a chunk in progress, and begins none of a chunk
  it holds.
- `signaling`: no ghosts, no evicted live connection, no member of an ended session,
  every roster adds up, and nothing crosses between classes. A departure takes the report
  along, and a student who is gone is counted only through a heartbeat that comes later, on
  a connection that student had replaced or after the class has ended
  (`AbsentCountedOnlyIfLate`); the code does not prevent those.
- `downloads`: chunks named in a HAVE or in the BITFIELD of a start are stored under
  that resource, also when a replaced scheduler delivers late (`AnnouncedIsStored`); a
  peer that left is forgotten by the scheduler in charge, although it may leave during
  the await (`DepartedForgotten`). As long as no call of `startDownload` or `stop` comes
  while another awaits, one scheduler runs at most, the one of the resource shown
  (`OneScheduler`); as long as moreover no stopped scheduler's delivery lands, the
  progress shown counts chunks in the store, each once although peers may deliver one
  twice, and a download shown as complete is in the store (`ProgressIsStored`), and the
  progress agrees with the telemetry (`CountersAgree`); after a call that could not read the
  store, telemetry is zero and what is shown is the download before. The conditions are
  needed: the code has no guard against either (`PROJECT.json` lists both as hazards at their
  lines).
- `resources`: a listed resource has its whole file whenever the process dies
  (`ReadyRowHasFile`), because the file is moved before the row is written and the row
  deleted before the file; a chunk request that found the row fails only if the resource
  was deleted, also between its two looks at the disk (`ReadsFailOnlyByDeletion`); files
  left behind have a crash, a failed unlink or a failed transaction to explain them
  (`LeftoversExplained`; the last is the catch block's blind spot: it knows the
  temporary name only); and clients see the atomic uploads of `ResourceCatalog`
  (`KeepsPromises`).
- `peer_mesh`: no offer reaches a connection with an offer of its own, whatever breaks
  and reconnects in between (`NoGlare`); between browsers whose sockets and channels
  never broke, a slot held for one who left has its notice under way (`NoGhostSlots`),
  although an offer may make a connection too; and two students who stay, and nothing of
  whose breaks, end up connected unless one of them used its slots for others first
  (`PairsUp`; a candidate never flushed would keep them apart). The conditions are needed: a signal lost with a socket is never repeated,
  and a slot that becomes free is not offered to those already there.
- `data_channel`: the sender gets what `OrderedDelivery` promises, exceptions of the
  channel's send included (`DeliversInOrder`), and what waits in the queue arrives
  (`QueuedArrives`: no state is left with messages queued and no event to come, on a channel
  none of whose sends threw; after one that threw the queue may wait for good). What an
  encoder wrote decodes to what it was given, frames cut short are refused, and bitfields
  are the sets they stand for (`WireFaithful`). Once everything has arrived, the
  receiver's scheduler knows every chunk on offer of the resource both download
  (`KnowsWhatIsOffered`), and as long as both have traded one resource only it believes
  of no chunk that is not there (`NoFalseClaims`). The condition is needed: the bits of a
  second resource land in the list of the first.
- `chunk_store`: a call in progress is in one place where it will be taken care of
  (`NoCallForgotten`), settles (`EveryCallSettles`), and a read answers with what the
  calls before it left (`ReadsAreFresh`). In two cases the code loses sight of a chunk it
  has acknowledged, and the property says so: a database that opens after an attempt
  failed leaves what went to memory out of sight, and a transaction that aborts at commit
  takes back a put that has resolved. The chunk is then downloaded again.
- `class_sessions`: in each life of the server a limiter lets no more through than its limit
  within the window, and it goes by exactly the calls this life has let through, none it
  refused (`LimiterExact`); a code names one class
  for good (`CodeNamesOneClass`), and a class of which anyone was told that it is over
  admits nobody, also after a restart (`OverForGood`).
- `dashboard`: the page ends up with what the students in the room have counted, whatever was
  lost, reset, overlapping or late (`EventuallyAccurate`). A late heartbeat of a student who
  left is in it too, for as long as the server keeps it; a page free of the departed the code
  does not promise, nor, whatever `README.md` says of the reset, one that stays at zero. The
  efficiency of the swarm is never outside that of its students, after all rounding
  (`EfficiencyAgrees`).

The runs that end in a violation are disagreements between the code and what the
repository says of it:

- *The download **always** finishes* (`README.md`:36). A `put` that rejects for a chunk a
  peer delivered skips `scheduleNext`; with nothing else outstanding the download
  stops for good. After an origin download the same failure is retried.
- *BITFIELD: Compressed bit vector representing chunk availability* (`README.md`:380).
  `handleChannelOpen` sends the bits of `this.scheduler` under the name of
  `currentManifest`. A channel that opens during the await of a second download, or
  after one that found everything stored, is told of chunks of the new resource
  because the old resource's are held.

Further remarks have no run of their own:

- `ChunkScheduler.ts`:265 says "Attempt alternate peer if available", and `scheduleChunk`
  considers the peer that timed out like the others. The chunk is not lost by it, since
  retries are bounded.
- A block past the end of its chunk, and a digest that throws, keep a download from finishing
  as the refused put does: `WorkOutstanding` and `EventuallyComplete` name the case. The pages
  `README.md`:279 opens at a LAN address over plain http have no `crypto.subtle`; there every
  verification throws, and the origin is asked again and again.
- `README.md`:181 gives the data channels `maxRetransmits: 5`, and the code does not
  (`WebRtcPeerConnection.ts`:48). What is said here of the channel is said of the code's.
- `README.md`:39 and 368 say that a reset puts the telemetry back to zero, and line 348 that it
  keeps numbers from carrying over. It empties the server's reports; students go on counting,
  and their next heartbeats bring the numbers back.
- `chunk-scheduler.test.ts`:119 says "In-flight chunk must not be requested redundantly".
  `handlePiece` forgets the request (line 349) before the digest and the put are awaited,
  so the chunk may be asked for again in between; `HeldNeverRefetched` is what holds.
- `phase6-hardening.test.ts`:491 says that ending a session removes all its reports. A
  heartbeat that arrives before a socket's close completes puts one back, in a session
  nobody can look at any more.
- A HAVE for a chunk that the receiver's list, of another resource, is too short for
  throws, and the scheduler is not told; the next BITFIELD makes up for it.
- `P2PTelemetry` infers completion from the number of chunks received: duplicates count
  twice, chunks found in the store at the start do not count. The progress and the status
  on the page do not go by it (`ProgressIsStored`).

### Bounds

Bounds are constants or budgets of the MC modules; nothing else is cut off.

- Scheduler: two chunks let one's events fall anywhere in the other's life and make the
  total cap bite; two blocks are needed for mixed attempts; two peers for a choice of
  the least loaded; one retry for a retry that is not the last
  resort and for its exhaustion. `CanFail` lets all that can throw in `handlePiece` throw.
  `MaxP2PTasks` = 1 allows one delivery of a chunk by
  peers being verified while the chunk is requested again or downloaded from the
  origin. `MaxPeerEvents` = 2 bounds bitfields, HAVEs, chokes, departures and channel
  changes; the theorems have no such bound. `scheduler_live` has a retry more, so that an attempt
  can be followed by the one after the next, which a send that throws brings about, and two
  deliveries of a chunk by peers at a time; one block to a chunk, as mixed attempts are the
  other run's matter. Digests and puts do not throw there, because completion needs them; what
  the refinement says when they do is proved.
  One thing is left out: a queue that an earlier callback filled would keep the next send from
  throwing. That is the same as a send that does not throw.
- Signaling: three connections let a student reconnect while the other watches;
  three disturbances (errors, closings, ends, expiries, resets, restarts) combine any
  three. The second class matters only to what is relayed and reported next to it, so it
  runs without disturbances. `MaxInbox` bounds only relayed messages.
- Downloads: two calls are the least that can cross, replace and stray; a resource of
  one chunk and one of two let a bitfield be right for the one and wrong for the other,
  and a download be complete at its start or not; the store begins with any of the
  chunks. One peer suffices, since nothing the coordinator does about a peer depends on
  another; it connects at most once. With repeats two downloads have more states than can be
  run through, and what repeats concern is within one download: `MaxStarts` = 2 bounds
  the downloads and the repeated deliveries together, so there are two downloads or one with
  a repeat. The theorems have any number of both.
- Resources: uploads touch no file or row of each other, so two show every
  interleaving of a pair; a request changes nothing that anything reads, so one
  suffices; the second crash may hit what was begun after the first.
- Peer mesh: two students make a pair, the instructor takes the slot one of them needs;
  with one slot each every case of a full coordinator occurs. Two sockets let each
  browser come back once, three connections to one peer are all that two sockets
  and one failure bring about (a bound of four reaches the same states).
- Data channel: the marks 1 and 2 keep the order of the real 64 KB and 192 KB, with
  frames at the low mark and at the high; four sends fill the buffer and the queue and let
  one more follow. A chunk of two blocks, a BITFIELD with its UNCHOKE, HAVEs and a REQUEST
  compete for them. A resource of two chunks has a bitfield of one byte, one of nine a
  bitfield of two, so that bits of the one are out of range, or mislabelled, in the other;
  the store begins with a part or all of the first.
- Chunk store: what a call does depends on the calls that await the same attempt, or were
  queued before it, so two at a time show each relation of a pair; the theorems have no
  such bound.
- Class sessions: two classes and two codes for a code used twice; two requests for a
  create and a join, or two creates of one code, at their awaits together; a duration on
  either side of the token's life, and a clock that runs past the shorter one and past
  both windows; one restart, before, in or after a window and at any await; one caller,
  because limiters keep callers apart; limits of one and two for
  the first refusal and for a window with older and younger calls in it.
- Dashboard: two students for sums and channels with two ends, of which the model begins
  in the middle of a class, one served more by peers and one by the server; a class after
  another for late answers; two changes (a chunk, a failing socket, a reset, a leave, a
  restart, a redial, a poll beside an unanswered fetch ...) that combine any two, between any
  number of heartbeats and polls. Two fetches can be answered in either order. A heartbeat is
  sent when it says something the server does not have; a redial is made when a heartbeat is
  under way; the next class begins when nothing sent in the one before is under way any more;
  and a peer id is used again when nothing of it is left, as the code's peer ids are new.

Peers, and the blocks of a chunk, are symmetric in safety runs; no symmetry is used where a
liveness property is checked. `CHECK_DEADLOCK FALSE` stands where the system may really stop:
a finished or stopped download, sockets used up, a closed channel.

### Fairness

- Scheduler: a timer fires unless it is cleared (weak fairness of `HandleTimeout`),
  promises settle (weak fairness of each task's settlement), and the origin, asked
  again and again for the same chunk, at some time answers with it (strong fairness of
  `FetchResolves`). That is what "never-fail" rests on: `dispatchOriginFallback` has no
  limit on attempts. Nothing is assumed of peers.
- Data channel: the network transmits, a handler runs to its end, and the browser runs the
  handler of an event it queued (weak fairness).
- Chunk store: the browser answers its requests, the open request and each transaction
  (weak fairness); how it answers is open.
- Dashboard: heartbeat and poll timers run, frames and answers arrive, the server notices
  a page that went away, and the page learns that its class ended (weak fairness). Of late
  heartbeats and the sockets they are on nothing is assumed: they may come or not.
  Nobody's socket has to come back. Changes are bounded, so they stop.
- Peer mesh: frames are delivered and handled on connections that hold (weak fairness of
  `Relay` and `Receive`), the promises of `RTCPeerConnection` settle, candidates are
  gathered, and the channel of two browsers that can reach each other opens (weak
  fairness of `Step`, one for each pair). Nobody has to join, leave or redial.
- Signaling has no liveness property: the server promises none. Nor have
  `DownloadSession` (that a download ends is the scheduler's matter), `ResourceStore` and
  `ClassSessions`.

## 4. What is proved

All theorems hold for every value of the constants under the assumptions named in the
modules (finite non-empty sets, caps of at least one, and so on): for every number of
chunks, peers, connections, calls or downloads, where the runs have two or three.

**`ChunkSchedulerProofs`.**

- `TypeCorrect`, `Integrity`, `NoLeftoversHolds`, by the inductive invariant `IInv`:
  types, every put task carries intact bytes (a digest comes first), the store holds what
  the bitfield and the announcements say, blocks only for requests, no request unless
  running. The lemmas say once what a plan, a dispatch and the scheduling loop may change,
  so that each action's step only cites them. `Integrity` is not inductive without the
  statement about put tasks.
- `ClaimsAreBacked`, by `CInv`: `IInv` and, until `stop`, `BackedIn`: a claimed chunk has
  one origin task, an unclaimed one has none. Scheduling `Schedules` from one state to
  another: claims are added for chunks not held, each with one fetch, and requests are
  added for chunks that had none. `StepKinds` sorts every step of the specification:
  either it schedules from a state its handler prepared (`ScheduledStep`) or it moves one
  task on and asks for nothing (`QuietStep`).
- `NeverRefetched`, `LostRequestsMoveOn`, `CapsRespected` are action properties that follow
  from the same two kinds of step. In the second a request that ends has the attempt number of
  the one before plus one, or plus two where a send threw (`AskedRequests`), unless its chunk
  went to the origin, to a digest, or to `rejected`. The last needs the order of the loop:
  `scheduleNext` plans until the room is used up or every peer is full (`PlanWithinRoom`,
  `PlanWithinLoad`, `SeedWithinRoom`), and retries, which ignore the caps, come before it
  in every handler.
- `ChunksDelivered`: the scheduler implements `ChunkDeliveries`, by `CInv`. The proof counts
  tasks: how many are at an await of a chunk and a source changes by one when a task is
  retired or spawned (`RetireUnderway`, `SpawnUnderway`), not at all when it moves from one
  await to the next (`MoveUnderway`), and when the scheduler runs by one for each chunk newly
  claimed (`SchedulesUnderway`); that there was none before is `BackedIn`. Each callback is
  then a step of `ChunkDeliveries` (`StepDelivers`): a handler of messages or timers is
  `Begin` or nothing, an end of a task is `Land`, `Fail` or `Refetch`, with what its
  `scheduleNext` begins.
- `NeverIdle`, by `IInv` and "every claim for the origin has a task pending". The key lemma:
  if `scheduleNext` runs on an incomplete download and leaves nothing outstanding, some chunk
  was missing, unclaimed and there was room; the first such chunk in rarest-first order finds
  every peer below its cap, so it is asked for, or no peer has it and it goes to the origin.
  Every callback runs `scheduleNext` or leaves something outstanding, but for a `handlePiece`
  that rejects; `rejected` is what those leave behind, until `scheduleNext` runs again. That
  the code can stop there for good is `scheduler_put_failure`.

**`SignalingProofs`.**

- `NoGhosts`, `LiveConnectionsStay`, `EndedRoomsEmpty`, together inductive with the types
  and "every socket in use has an owner": a close removes an entry only if it names the
  closing socket, which needs that entries name sockets of their own peer.
- `RostersCorrect`: on top of them, for every connected browser, what it lists after
  handling its inbox is the room. The lemmas `AppendEnds` and `HandleEnds` say what a
  message does to that outcome when it is sent and when it is handled.
- `ClassesIsolated`: every message under way, roster and report is about peers of the
  right session.
- `AbsentReportsAreLate`: no step takes a peer out of a room and leaves its report, and of a
  peer that is not there a report is recorded only on a connection it had replaced or when the
  class has ended. By `LateInv`: a socket that still delivers is of a peer in the room, of one
  that has had another connection, or of a class that has ended (`DeliveringExplained`). The
  cleanup after a close touches the report only when it touches the room, and the end of a
  class and a restart empty both.

**`DownloadSessionProofs`.**

- `TypeCorrect`, `Announced`, `Departed`, `OneSchedulerHolds`. The first rests on `Typed`:
  each download's bits and deliveries are among the chunks of its resource, so that what
  is counted is finite, and no call is used before it is made. `Announced` adds that a
  scheduler's bits are stored. `OneScheduler` is not inductive: `OneAtATime` adds that a
  call at its await is alone, with no other scheduler running and the current manifest its
  own.
- `ProgressHolds`: with `OneAtATime`, whoever shows progress, or finds its bits complete, is
  the scheduler whose resource is shown; it shows the number of its bits, these are stored,
  and the store only grows (`Progress`).
- `CountersHold`: with `OneAtATime`, telemetry has been reset and stays at zero for as long
  as the call awaits the store, and the state shown is set from the same bits that the
  telemetry then counts (`Counting`). It adds that only the last call can be at its await, and
  that nothing runs after it has failed there, so that telemetry then stays at zero. The two are
  set at different moments, which is why
  the property says nothing of the time in between.

**`ResourceStoreProofs`.** `TypeCorrect`, `RowHasFile`, `ReadsFail`, `Leftovers`,
`Implements`, by `IInv`: for each upload, `Sound` says what its stage allows of its file,
its temporary file, its row and its mishaps; for each request, `SoundRead` says that what
it is of was published, and is listed or deleted since. `Implements` proves
`Spec => ResourceCatalog!Spec` under the mapping at the end of `ResourceStore`: by `IInv`
what is listed is what has a row, so `Record` is the step that publishes, `ReplyCreated`
and `CleanUp` are the answers, `Delete` deletes, and every other step, a crash included,
changes nothing a client sees.

**`PeerMeshProofs`.**

- `TypeCorrect`, `GlareFree`, `CandidatesFlushed`, by `IInv`: offers under way go from the
  higher peerId to the lower and are handed to their addressee, a connection that
  initiates is the higher peerId's, one that answers has the offer it answers, and one
  with a description has no candidate waiting. The slot bound needs this too:
  `handleSignalOffer` makes a connection to whoever sent the offer, and that it is never
  the browser itself follows from the direction of offers. `ConnsBegin` and `ConnGoesOn`
  say what new connections and steps of existing ones do to the slots.
- `SlotsAreFreed`, by `GInv`, for each pair of browsers neither of which lost a socket or
  a channel. `Placed`: connections are held, and frames received, only by those in the
  class, and what one sends is from it. `Steady(p)`: such a browser had one socket, and its
  close is the last frame on it. `Freeing(p, q)`: if `q` is no longer registered and `p`
  holds a connection to it, or has a frame coming that would make one, then the notice
  that `q` left comes behind the last such frame (`AnnouncedAppend` says what another
  frame does to that).

**`ChunkStoreProofs`.**

- `TypeCorrect`, `CallsCaredFor`: `NoCallForgotten` with the types is inductive once each
  list of calls is known to have no call twice, for a call that ends must leave all of
  them; the lemmas say what adding to, and taking the head off, a sequence without
  repetitions does to its set.
- `FreshReads`, by `FInv`: what the client knows of a chunk is what the store in charge
  holds (the database if it is open, the memory if it is not) and nothing in progress may
  change it; the same is true of what a call expects, but for the call itself, and that
  call will read this store. It needs to know, too, that no database opens in a browser
  without IndexedDB.

**`ClassSessionsProofs`.**

- `TypeCorrect`, `CodesNameClasses`, `OverStaysOver`, by `IInv`: a code is in one row, what
  names a class (a token, a join at its await) agrees with the class's row on the code, and
  what is over is not active. `CodeNamesOneClass` alone is not inductive: that the next row
  will not take a code some token carries needs the row the token agrees with.
  `DeactivationKeepsIInv` serves the four ways a class is ended.
- `LimitersExact`, by `LInv`: a record is a finite set of entries none of which is of a
  time to come, those of the current time are numbered from zero (so that one more is a new
  one), and the calls this life of the server let through in the window are the record's
  younger part. Those of the lives before stay on the books; each life's are within the limit
  and no life adds to another's (`Bounded`), so a window with a restart in it has at most the
  limit of each (`RestartKeepsLInv`). Trimming a record early (`TrimmedSound`) and letting time
  pass (`TickKeepsLInv`) lose nothing that the window still covers.

**`AvailabilityExchangeProofs`.**

- `ChannelDeliversInOrder` and `ExchangeDeliversInOrder`: `DataChannelSend`, by itself and
  as the coordinators use it, implements `OrderedDelivery`. By `SInv` what the buffer and
  the queue hold was handed over in the calls so far, and nothing is held before the
  channel opens. The mapping takes the numbers of the one behind the other as what is
  accepted and not yet delivered: a send, a send that throws, a delivery, an opening and a
  close are steps of `OrderedDelivery`, and a message that goes from the queue to the
  buffer is a stutter (`QueueGoesOver`). The handlers of the exchange send bitfields, HAVEs
  and blocks; each of their steps is one of the channel's (`ChannelStep`) or leaves it
  alone.
- Lemmas about the bits, for every number of chunks: setting a bit adds its chunk to the set
  and no other (`WithBitSets`: the eight masks are different powers of two, `AddingMask`
  takes them one by one), and the bits set for a set of chunks are that set
  (`BitfieldOfSets`). The second is about a fold, a function defined by recursion over
  sets: that there is such a function (`FillingIsDefined`), and that its value is right, both
  follow by induction on the size of the set, over a set of numbers (`Induct`) in place of
  a predicate.
  Likewise clearing a bit takes its chunk away and no other (`WithoutBitClears`), and
  `isComplete` says that the set is all of them (`CompleteIsAll`); together
  `BitfieldsStandForSets`.
- `WireHolds`: for every resource id of at most 255 bytes, every number below 2^32, every
  block of data and every bitfield, each of the six messages decodes to what its encoder was
  given, and to no other; a frame cut short anywhere, or of another version, is refused
  (`CodecIsFaithful`); and every frame handed to the channel is one the decoder reads (`RInv`:
  the numbers of chunks and blocks fit), but for a BITFIELD that goes under another
  resource's name, which it may refuse. The header is read as written, and what follows it decides the rest (`IndexDecodes`,
  `BitfieldDecodes`, `PieceReads`); a frame cut inside the header has no header, one cut
  behind it carries a shorter rest (`CutShort`), and each decoder asks for all of it.
- `ClaimsAreTrue`, by `EInv`: `NoFalseClaims` alone is not inductive, because a false frame
  may be on its way. `Truth(r)` says that nothing handed over, sent or taken names a chunk
  which is not held, as long as only `r` was started; chunks are only added, so what was
  true when it was sent still is when it arrives. That the channel delivers frames that
  were handed to it, and no other, is `SInv`.
- `AllIsKnown`, by `KInv` on top of both. `KnowsWhatIsOffered` speaks of the moment when
  nothing is on its way; `Informed` says for every moment what will be known then. The
  frames on their way are one sequence, `OnTheWay`: buffer, queue and what the running
  handler has yet to hand over. Either the last BITFIELD among them is of the resource on
  offer and the HAVEs behind it tell the rest (`ToCome`), or none is on its way and the HAVEs
  tell what the receiver's two lists lack (`Taken`). Storing a chunk appends its HAVE, opening
  or starting appends a BITFIELD, queueing and draining leave the sequence as it is
  (`SendMoves`, `LowMoves`), and an arrival takes its head. A BITFIELD that was sent under the
  name of the next resource (`downloads_open`) does no harm in the end: the call that makes
  the next scheduler sends another one.

Only model-checked, and why:

- `EventuallyComplete`, `PairsUp`, `QueuedArrives`, `EveryCallSettles`,
  `EventuallyAccurate`: liveness under fairness, for which the prover has no rules here.
- `EfficiencyAgrees`: sums over students and rounded quotients; arithmetic that is not linear
  is not within the provers' reach.
- The two runs that end in a violation.

## 5. Not modelled

- Rendering, forms and toasts of the user interface (`LandingPage`, `ResourceList`,
  `SwarmVisualizer`, `InstructorDashboard` and the rest of the views): they show state and
  call what is modelled.
- `assembleFile`: it reads the chunks, hashes the whole and changes nothing; a wrong file
  is refused by its hash.
- Latencies, transfer rates, the health label, the time of completion and the event feed
  of `P2PTelemetry`; uploads and progress in reports.
- SHA-256, scrypt, the signing of tokens, the byte ranges of chunks on disk (computed once
  at upload, from the size), the copying of buffers.
- Reading the configuration, opening the database, the health route; texts of errors.
- Which peers the network lets connect, and a machine that loses what SQLite or the
  browser committed.
