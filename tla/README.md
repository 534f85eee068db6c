# A verification project for RayTraceRenderer

RayTraceRenderer is a Unity project with three parts of its own: a Monte Carlo
ray tracer that runs inside the editor (`Assets/RayTraceRenderer`), a native
plugin around Embree that intersects rays (`NativePlugin/Src`), and a set of
network servers that are to drive the renderer from outside (`Assets/Net`).
This directory has TLA+ models of that code, TLC configurations that check them
on small instances, and theorems that TLAPS proves for every value of the
constants. `PROJECT.json` lists the components, the runs, for each property a
mutation of the code that breaks it, the source lines of every definition, the
hazards, the findings and the theorems. Paths below are relative to
`src/TestRayTrace.unity/Assets/` unless they start with `src/`.

## 1. Inventory

### AsyncTcpServer - `Net/NetFrame.cs`

* State: `IsRunning`, `disposed`, the listener, `lastSid`; per connection a
  `TcpClientState` with its socket, one buffer and its session id `Sid`.
* Operations: `Start`, `Stop`, `Dispose`, `Send`, `Disconnect`; the callbacks
  `HandleTcpClientAccepted`, `HandleDatagramReceived`, `HandleDatagramWritten`.
* Interaction: calls `OnClientConnected`, `OnDatagramReceived` and
  `OnClientDisconnected` of its owner, on the pool thread of the callback.
* Hard: every callback posts its own successor (`BeginAcceptTcpClient`,
  `BeginRead`), so a callback that throws ends a chain for good; the callbacks
  of an accept and of the reads run at the same time and share fields without
  a lock; `Stop` and `Start` race with callbacks under way; peers abort.
* Correct when: no callback of a session precedes its announcement; bytes are
  handed over in order although the buffer is reused; session ids differ;
  accepting goes on.

### NetServer and its application - `Net/NetServer.cs`, `Net/Server.cs`, `Net/TestTcpServer.cs`

* State: `dataQueue` and the dictionary `clients`, each with its lock;
  `Server.clients`, a list of session ids.
* Operations: `Start`, `Tick`, `Send`, `Disconnect`, `Close` on Unity's main
  thread; `MT_OnClientConnected`, `MT_OnClientDisconnected`,
  `MT_OnDatagramReceived` on the pool.
* Interaction: the `MT_` callbacks turn transport callbacks into queued events;
  `Tick` hands the events to the application while it holds the queue's lock,
  and the application may call `Send` there.
* Hard: each `MT_` callback has two critical sections with a gap; an exception
  of the application leaves `Tick` in the middle; `Close` stops at the first
  session whose `Disconnect` throws.
* Correct when: the application sees per session one announcement, all bytes in
  order, at most one end; dictionary, queue and list agree.

### Render session - `RayTraceRenderer/Scripts/RayTraceRenderer.cs`, `RayTraceRenderer/Editor/RayTraceRendererEditor.cs`, `RayTraceRenderer/Scripts/RayTrace.cs`, `src/NativePlugin/Src/interface.cpp`

* State: the field `scene` with its models, the output `texture`, the static
  texture cache `SimpleMaterial.textures`; in the plugin the static device and
  scene with the geometries; the editor's progress bar.
* Operations: the buttons Render (`Init`, `Render`, `Release`) and Clear,
  `OnEnable`; natively `Init`, `AddMesh`, `Commit`, `Intersect`, `Release`.
* Interaction: a hit is a geometry id of the plugin, used as an index of
  `scene.models`; nothing but the order of two calls ties the two together.
* Hard: an exception anywhere in a press of the button skips all that follows,
  and statics survive until the next press.
* Correct when: a hit finds the model it was made from; textures are those of
  the present; the image is what was traced; scene and bar go away.

### TraceColor and light paths - `RayTraceRenderer/Scripts/RayTraceRenderer.cs` 701-906

* State: the call stack; scene, `sampleNum`, `antiAliasing` are read only.
* Operations: a recursion that splits its samples at every hit among reflected
  and diffuse rays at the next depth and one ray straight on at the same depth;
  at every hit `GetAllLightsColor`, and towards each light the recursion of
  `GetLightPathColor` through transparent surfaces.
* Hard: the depth does not bound the ray that goes straight on, and nothing but
  the shrinking direction bounds a light path, which starts on the surface it
  has just hit; the factors are not a partition on back faces; the divisor may
  be zero.
* Correct when: it ends, with bounded nesting and work, and a colour is a number.

### Samplers - `RayTraceRenderer/Scripts/RayTraceRenderer.cs` 30-74

Texel lookups with wrap-around, without state. Hard: `(int)` and `%` round
towards zero, so negative coordinates (which meshes do have) are another case.
Correct when: indices stay inside, and samples lie between their texels.

### TcpServer - `Net/TcpServer.cs`

A worker thread that serves one client after the other with blocking calls;
`SocketQuit` on the main thread closes its sockets and aborts it. Hard: the two
threads share the fields `clientSocket` and `serverSocket`. Correct when: one
connection is open at a time, waiting clients have their turn, quitting ends.

### NetMqPublisher2 - `Net/TestNetMQ.cs`

A listener thread with a REP socket polls, queues what it receives and answers;
`Update` empties the queue; `OnDestroy` sets a flag and joins the thread. Hard:
clients that give up between request and answer, stopping in any place of the
loop. Correct when: messages arrive in order and once, an answer means the
message is not lost, stopping returns.

### Server2 - `Net/Test2.cs`

Accept and receive callbacks on pool threads around one field `_buffer`. Hard:
every callback assigns the field and reads it again. Correct when: a packet is
what its client sent, and accepting goes on.

### MsgProtocol - `Net/MsgProtocol.cs`, `Net/Server.cs`

* State: one static `MemoryStream` with its array.
* Operations: `Pack` writes a message and hands out the array; `Server.Send`
  gives it to an asynchronous write; `Unpack` reads what one read returned.
* Hard: the next `Pack` overwrites an array whose write is still pending; a
  stream of bytes has no borders of messages.
* Correct when: what arrives are the messages sent. It is not, since `Unpack`
  takes the length for the id; the run `msgprotocol` shows what still holds of
  the blocks and of what is read behind a length.

### BatchIntersect and other index arithmetic - `src/NativePlugin/Src/interface.cpp`, `src/NativePlugin/Src/render.cpp`

A batch of rays is cut into blocks of eight and a rest; triangles change their
orientation on the way into the plugin and weights on the way back; terrains
become triangles; an image is written around its middle. Hard: the edges (a
rest of zero, odd sizes), and a field that one of two paths does not reset.
Correct when: both paths answer alike, and every ray, entry or pixel is touched
once.

### Not modelled

`PROJECT.json` gives the reason for each of these. `TestMQVentilator` keeps no
state between frames. The Renderer program parses two arguments and stops. The
TGA loader is a third-party reader nobody calls. The vendored libraries
(ZeroMQ, Embree, the argument parsers) are not the program's own: they are
nearly all of the repository's C++, so the lines of C++ that these modules
cover are few, and stay few; Embree is modelled where `interface.cpp` calls it,
and nothing calls ZeroMQ yet. Of the components above, the following is left
out: `Save` (an encoder and a file dialog), the values of colours and
directions (floating point), and the Halton tables, which are computed but no
longer read (`Halton2` and `Halton3` return random numbers, and nothing calls
`Halton5`).

## 2. Modules

| Module | Models | Extends |
|---|---|---|
| `AsyncTcpServer` | the transport | |
| `NetServer` | locks, queue, dictionary, application thread | `AsyncTcpServer` |
| `SessionEvents` | what the application is promised (abstract) | |
| `RenderSession` | presses of the Render button | |
| `TraceColor` | the recursions for one pixel after another | `Samplers` |
| `Samplers` | texel lookups (operators) | |
| `Geometry` | batches, orientation, terrain and image indices (operators) | |
| `MsgProtocol` | packing, the pending write, unpacking | |
| `TcpServer`, `NetMqPublisher2`, `Server2` | the server of that name | |
| `MCAsyncTcpServer`, `MCNetServer`, `MCRenderSession`, `MCTraceColor` | symmetry, bounds on the environment, checks of operators for TLC | |
| `AsyncTcpServerProofs`, `NetServerProofs`, `RenderSessionProofs`, `TraceColorProofs`, `TcpServerProofs`, `NetMqPublisher2Proofs`, `Server2Proofs`, `MsgProtocolProofs` | theorems | the module of that name (`RenderSessionProofs` and `TraceColorProofs` its MC module, and so `Geometry` and `Samplers`) |

### How state and actions correspond to the code

**AsyncTcpServer.** A peer is one connection. `accPc[c]` is where the chain of
accepts begun by the c-th `Start` stands: the posted operation, or the statement
of `HandleTcpClientAccepted` that is next. `rd[p]` is the same for the reads of
a connection. `GetNewSid` takes three steps (read the field, write it, read it
for the return value), since it has no lock. `buf` is the interval of bytes in
the connection's buffer. What a peer can do is connect, send, close, abort; what
the kernel can do is complete an operation with as many bytes as it likes.
`MayThrow` is the assumption on the runtime: `GetStream`, `BeginRead`,
`Disconnect` may, but need not, throw on a connection that was aborted or
disconnected, and never on another one. An exception that leaves a pool
callback ends that callback only (Mono logs it). `BeginWrite` has no effect on
the modelled state, and its callback always throws (see section 6).

**NetServer** replaces the three callbacks of the transport by the `MT_`
methods, one action for each critical section (`half` remembers who is in
between). `mainPc` is the place of the main thread. While it is in `tick`,
`callback` or `reply` it holds `lock(dataQueue)`; in `close` it holds
`lock(clients)`. The application is `Server.cs` for the list and
`TestTcpServer.cs` for the reply, both taken as alternatives in `AppData`:
decoding may throw, data may be answered. `stage` and `upto` are histories of
what the application was told. In
`AsyncTcpServer` alone the owner may use a connection from its announcement on,
also while `OnClientConnected` is still running (`Known`).

**RenderSession.** `pc` is the place in the handler of the button. Every press
finds its own visible parts, terrains after meshes as in `Init`. A part that
throws does so before `AddMesh`, between `AddMesh` and the texture, or after
it. Native scenes are numbered by press, so that one whose handle was
overwritten is still counted. Textures have versions; editing makes a new one.

**TraceColor.** A frame of `stack` is a running call with what its loops have
left to do. Alpha, grayscale and the reflection factor of a hit are chosen in
`Unit`-ths, the reflection factor up to `MaxReflect`: Schlick's formula with the
cosine of a back face gives up to 32. `layer` counts the surfaces that the
straight line of a call has passed; a line meets at most `Layers`. A colour is
reduced to whether it is a number: all operations on colours pass an undefined
one on. Alpha and grayscale are in 0..1 unless the scene is `extrapolated`: a
mesh has negative texture coordinates, where `LinearSample` leaves the range of
the texels by up to `Beyond`. `shadow` counts the nested calls of
`GetLightPathColor`; a path may hit the surface it starts on again, so its only
end is that its direction, a hundredth of the one before, becomes zero after
`MaxShadow` calls (about twenty in single precision).

**Samplers, Geometry** are operators, translated from the loops and
expressions. `SamplesAgree` puts together what is to hold of the samplers; it is
exact about where `PointSample` looks (`IsPoint`): a claim that it takes one of
the two nearest texels is true of small textures, where all texels are near, and
false at negative coordinates of larger ones. Coordinates and weights are fractions of `q`, so that lookups are
exact. A ray has the geometry id it comes in with and the nearest surface on its
line; `rtcIntersect` writes an id only on a hit.

**MsgProtocol.** The unit is the 32-bit integer. Each statement of `Pack` is an
action; the pool takes the array word by word at any later time, one write after
the other; a read returns any portion. `msgs` are the messages that `Pack` is
called for, chosen at the start. Their fields are members of `Bodies`: 0, which a
new `MsgTest` has since nothing but its `Unpack` assigns them, or what a client
had sent. The write that makes the stream longer after `SetLength(0)` clears what
was dropped, so the words of the last message become zero before the new body is
written. The array has `Words` words, 64 in the code.

**TcpServer, NetMqPublisher2, Server2.** One action for every blocking call or
access to shared state; clients and sockets are external. In `Server2` arrays
are numbered and an array that nothing refers to may be allocated again. An abort
of the thread of `TcpServer` may take effect at any statement, or never: a worker
inside a native socket call is not interrupted by it. One `Receive` takes any
number of messages.

## 3. Runs

Each run is of a distinct question; `PROJECT.json` has the properties of each
and a mutant of the code for each property.

| Run | Instance | Shows |
|---|---|---|
| `transport_restart` | 2 connections, 2 chains of accepts, 1 byte each | order of announcement and read; ids of a chain differ; the accept chain ends only by an abort |
| `netserver` | 2 connections, 1 byte, 1 Close | dictionary, queue and list agree; refinement of `SessionEvents` |
| `netserver_close` | 1 connection with 3 bytes through a buffer of 2 and 1 Close, or 2 silent connections | no byte lost or repeated; a proper close reaches the application after all bytes; all connections are served while none is aborted |
| `render_session` | 3 presses, up to 3 parts, 2 textures with 2 versions, 3 x 2 pixels | matching, freshness, image, leaks, bar; batches of up to 19 rays against single rays |
| `trace_color` | depth 3, 2 samples, lines with 1 surface, factors in halves up to 3/2, light paths of 2 calls, samplers on textures up to 3 x 2 | the recursions end, bounded; undefined colours only without a light; the samplers agree and lie between texels |
| `msgprotocol` | 3 messages with fields 0 or 1, an array of 5 words, reads of up to 4 | what a block may hold of its message; what is unpacked of a portion cut after the length |
| `tcpserver` | 2 clients with 2 messages, quitting anywhere | one connection; turns; quitting ends the worker once the greeted clients leave |
| `netmq` | 2 clients with 2 requests | order, once, not lost, Stop returns |
| `server2` | 2 clients with 2 bytes | a lone connection is right; accepting goes on |
| `netserver_running` | as `netserver` without Close | finding: see section 6 |
| `tcpserver_quit` | as `tcpserver` | finding |
| `server2_shared` | as `server2`, buffer of 2 | finding |

### Why the bounds are enough

*Connections.* The code treats connections alike and shares state among them
only through one field, one dictionary or one queue; two connections give every
pair of accesses an order. *Chains.* A second chain of accepts exists only after
`Stop` and `Start` around a callback; two are the first interesting number.
*Bytes.* A buffer of 2 and 3 bytes give partial reads, a full buffer, and the
reuse of the buffer; what holds for every length is proved. *Presses.* Three
presses are one that fails, one that overwrites what it left, and one after it.
*Samples.* With 2 samples and a reflection factor up to 3/2 a hit casts more
reflected rays than it has samples, also none (anti-aliasing divides 2 by 9);
depth 3 is the code's own. `Layers = 1` and a depth of 3 give each call the
choice of going straight on once; the theorems are for all of them. *Light
paths.* Two nested calls are one that goes on and one that ends.
`RaysWithinBudget` stops counting one ray beyond the budget and does not count
in scenes with extrapolated texels, for which it claims nothing. *Textures.*
Widths up to 3 tell a texel from both of its neighbours, and a height of 1 or 2
from one; coordinates from -9/4 to 9/4 are every fraction of a texel on both
sides of zero. *Batches.* 19 rays
are two blocks and a rest, and all smaller numbers. *Messages.* Three are one
written, one pending and one being packed; a message has four words, and the
fifth stands for the unused rest of the array. Two values of a field tell the
message of a block from a later one, and 0 is also what the array is cleared
to; the theorems are for all values. Reads of four words are a whole message, and
all shorter portions. *Environment.* In
`netserver_close` the action constraint `CrowdsAreSilent` lets a second
connection come only where nothing is sent and `Close` is not called; it forbids
only steps of peers and of the application, none of which is fair. Session ids,
closes and requests are cut off by guards (`MaxSid`, `MaxCloses`,
`MaxRequests`), so these models may stop: `CHECK_DEADLOCK FALSE` stands where a
client, a press or an id runs out. `TraceColor` never stops and is checked for
deadlock. Symmetry is used for invariants and refinement only, never in a run
with a liveness property.

### Fairness

* `AsyncTcpServer` with `NetServer`: a posted operation that can complete does
  (kernel); the pool runs a callback to its end; Unity calls `Tick` in every
  frame; `Tick` and `Close` go on. Locks need weak fairness only: `Tick` holds
  `lock(dataQueue)` while it empties a queue nobody else can fill, so both locks
  are free again and again, and after the last event for good. Peers, `Close`
  and the application's own calls are not fair.
* `TcpServer`: the worker runs on, `SocketQuit` and `InitSocket` go on. Nothing
  is assumed of the abort: quitting ends the worker because the sockets are
  closed under it. A client's turn, and the end of the worker, assume that
  greeted clients leave, which is a premise of the properties: for the end, only
  because of the connection that `SocketQuit` leaves open (section 6).
* `NetMqPublisher2`: the listener polls without waiting; `Update` runs every
  frame; `Join` returns when the thread is over. Clients are not fair.
* `Server2`: the pool. `TraceColor`: the main thread computes.

## 4. Properties worth knowing

* `SessionsInOrder` (refinement): whatever threads, aborts and exceptions do,
  the application sees an execution of `SessionEvents`.
* `DictionaryFollowsConnections`: bytes for a session never go to another one;
  a connection whose read chain died without a report stays in the dictionary
  for good, but only one that was aborted or disconnected.
* `AcceptLoopEndsByAbort` (checked and proved) and `UnreportedOnlyByAbort`
  (proved): the only ways in which a chain dies, stated positively.
* `GracefulCloseIsReported`, `EveryConnectionIsServed`: without aborts nothing
  is lost, also when `OnDataReceived` throws.
* `HitsFindTheirModel`, `TexturesAreFresh`: a press that failed half-way leaves
  lists of different lengths and a filled cache, which the next press resets.
* `StackBounded`, `RaysWithinBudget`: nesting is at most a line of surfaces per
  depth; rays grow with the samples, not with a power of them, because only the
  surfaces on the line of the camera's ray are sampled with more than one ray.
* `BlocksHoldTheirMessages`: a block whose write was finished before the next
  `Pack` is its message; another may be torn, but only towards later messages.
* `BodiesAreRestored`: `Unpack` reads what `Pack` writes behind the length. A
  portion that begins there gives the message of its block, or, if the write was
  overtaken, fields of later messages and zeros, and never throws once the body
  is there.
* `QuitEndsWorker`: the worker of `TcpServer` ends after `SocketQuit` wherever it
  was, also when the abort never reaches it.
* `BatchAnswersLikeIntersect`: exactly the rays of a block that were used before
  and miss now are answered differently from `Intersect`.

## 5. Proofs

`tlapm` checks all of the following with no assumption besides the named
assumptions on the constants.

**AsyncTcpServerProofs** (774 obligations). `TransportTyped`: the only
arithmetic is that a read takes no more than was sent. `TransportConnectsFirst`
is not inductive: a step of one chain might post a read of a connection that
another chain owns. `OwnInv` adds that a connection in the backlog has no read
(`BacklogInv`), that one owned by a running callback has left the backlog and
has none yet (`OwnedInv`), and that no two callbacks own the same connection
(`OneOwnerInv`). `TransportDatagramsContiguous` is inductive together with
`OwnInv`, which is needed to know that the accept callback does not reset a
read chain. `TransportUniqueSids`: with one chain at most one callback runs
(`ChainInv`), and an id that was written and not returned yet is above all ids
given so far (`FreshInv`). `TransportLoopEndsByAbort`: when no chain lives, some
connection was wasted by the exception that ended the last one (`LoopInv`); that
this stays so needs that the connection of a running callback has not been
dropped (`HeldInv`) and that one without a read has delivered nothing
(`UnreadInv`).

**NetServerProofs** (1702 obligations). One inductive invariant `ServerInv` has
everything: the transport's invariants (the server's steps are steps of the
transport, `ServerUsesTransport`, so they are reused), which connections have an
id and which callback is between its lock sections (`NamedInv`, `HalfInv`), what
the dictionary has (`DictionaryInv`), the order of the events of one session in
the queue (`OpenInv`: a Connect first; `CloseInv`: a Disconnect last; `BytesInv`:
the bytes in between without a gap, from what the application has to what the
transport has given), and that the list is behind by the event Tick is handing
over (`ListInv`). `ServerTyped`, `ServerKnowsOpenSessions`, `ServerDictionary`
and `ServerList` follow from it. `ServerImplementsSessions` is the refinement:
under `ServerInv` only `TickDequeue` changes what the application has seen, and
each event at the head of the queue is the step of `SessionEvents` that is
allowed then. `ServerReportsEnds` needs `RunInv`: the server never stops its
transport, so only an exception ends a read chain silently; `ServerDictionary`
uses it for the connections that stay in the dictionary.

**RenderSessionProofs** (715 obligations). `RenderTyped` needs
`failures <= clicks`. `HitsAreMatched` and `TexturesAreRead` follow from
`SceneInv`: during a press both lists have the entries 1..n of the parts and the
cache has present versions. `ScenesAreDeleted` counts finite sets; it needs that
scenes are numbered by presses, so that a new one is new. `ImageIsComplete`
needs that exactly the last `column` columns are painted while Render runs.
`BarIsCleared`: a scene is alive whenever a press is under way (`BarInv`). The
theorems about `Geometry` say for every size what the run checks for small ones,
and what has no state to check: `EachRayOnce` and `BatchIsIntersect` (and with
them `BatchIsRight`, the property of the run), `WeightsAgree`, `TerrainFits`,
`ImageCoverage`.

**TraceColorProofs** (2422 obligations). `TraceTyped`: without extrapolated
texels no count of samples is ever negative, which depends on the clamp of the
diffuse factor. `RecursionIsBounded`: the bound of a frame depends on its depth,
layer and light path; the invariant `HitInv` adds that a call past its hit has a
depth and a layer left. One depth less is worth `Layers + 1` frames.
`PixelsAreDefined`: with a light the divisor is positive whatever the samples
are, unless they are negative.

`RaysAreBounded` is not inductive as it stands: how many rays were cast says
nothing about those to come. `RaysToCome` counts the most that one running call
may still cast, with the calls it has yet to make; `Owed` says that these numbers
for all calls on the stack add up to no more than the budget has left
(`BudgetInv`). A call that returns gives up what it had left; one that calls
hands over a part (`SecondaryTakes`, `FurtherTakes`, `BehindTakes`); a hit spends
one ray and shares out the rest, which is enough because, however the factors
add up, the truncated numbers of reflected and diffuse samples together are at
most `MaxSamples`, and no more samples go on behind the surface than came
(`SamplesSplit`). The budget itself is defined by recursion over the depth. That
there is a function with this definition, and that its values are natural
numbers, needs induction (`RecursionExists`, `RaysOfOneIsDefined`). The library's
theorem of induction takes an operator as a parameter and cannot be used here;
its theorem that a non-empty set has a minimal element takes a set, and
`AllNaturals` derives from it that a set that has 0, and with every number the
next, has them all.

`IndexWraps`, `SamplesInRange` and `SamplesAreRight` are about the samplers, for
every size of a texture, coordinate, resolution and range of colours;
`SamplesAreUsed` is the property of the run.

**TcpServerProofs** (145 obligations). `TcpInv` adds to the two properties that
the worker has a client while it serves (`ServesInv`), that replies are one
ahead of messages at most (`RepliesInv`), and that nothing is open when it
accepts (`AcceptInv`).

**NetMqPublisher2Proofs** (264 obligations). All three invariants are about
`accepted`, what was delivered followed by the queue, which `Tick` does not
change at all. `NetMqInv` adds that what is under way is the latest request of
its client, which is not in `accepted` yet (`RequestInv`, `AcceptedInv`), and
that the listener answers what it has queued (`ReplyInv`).

**Server2Proofs** (380 obligations). `Server2Typed`: an array for the field and
one for each client leave one free. `Server2AloneIsRight`: a connection that is
alone finds its own array in the field whenever its callback reads it
(`RightInv`); which connections there were only grows (`Seen`), so `Alone` was
true before if it is true now.

**MsgProtocolProofs** (811 obligations). `BlocksAreRight` relates the one array
to the writes that are pending on it. `MsgInv` adds what the array holds at each
statement of `Pack` (`BufferInv`: the body of the message before, then zeros, then
its own), that only older messages were sent than the one being packed
(`PackInv`), and that a write which is pending and not disturbed is of the message
the array holds (`PendingInv`). `MsgTyped` needs that no more arrives than was
sent. `BodiesAreRight`: a portion that begins at place 1 of a block has the id
first, since no block ever holds anything else there, and then the two words of
the body (`BlockRead`); what a block may hold of a message it may hold later, too
(`MayStillHold`). All three are for any number of messages and any bodies.

**Only model-checked.** Liveness, which is all under fairness and out of the
prover's reach: `GracefulCloseIsReported`, `EveryConnectionIsServed`,
`WaitingClientsAreGreeted`, `QuitEndsWorker`, `StopReturns`,
`AnsweredIsDelivered`, `ConnectionsAreAccepted`, `PixelsAreDone`. Every
invariant that a passing run checks, and the refinement, is proved as well.

## 6. What was found

Runs that TLC violates, each against a line of the repository:

* `netserver_running`: a connection that is reset while it is accepted makes
  `EndAcceptTcpClient`, `NetworkStream` or `BeginRead` throw (NetFrame.cs:191,
  197, 198). `BeginAcceptTcpClient` (200) is skipped; `IsRunning` stays true and
  nothing is accepted again.
* `tcpserver_quit`: a connection accepted after `SocketQuit` has closed
  `clientSocket` is not closed.
* `server2_shared`: with two connections the packet logged for one may be zeros
  or the other's bytes.

Observed while modelling; they follow from single statements and have no run:

* `Dispose` (NetFrame.cs:305) stops the listener but leaves the accepted
  connections open with a read posted; a later `Start` sets `IsRunning` and then
  throws on the null listener.
* `HandleDatagramWritten` (NetFrame.cs:267) casts a `TcpClientState` to
  `TcpClient`, so every write ends in an exception and `EndWrite` is not called.
* `ReceivedCallback` (Test2.cs:64) treats the end of the stream as success and
  posts the next receive, again and again; the message of line 74 says that a
  receive of no bytes closes.
* The connection that `SocketQuit` (TcpServer.cs:99) leaves open keeps the thread
  alive, too: the worker waits in its native `Receive` (79), which an abort (103)
  does not interrupt, until the client leaves or resets. `QuitEndsWorker` has
  this as its premise.
* The stopwatch behind `Connected` (TestNetMQ.cs:40) is never reset.
* `TraceColor` divides by zero samples and lights (RayTraceRenderer.cs:820);
  `UndefinedOnlyInTheDark` says when.
* `Unpack` (MsgProtocol.cs:73) reads the id where `Pack` (61-62) puts the length;
  a whole message is never unpacked, but throws, since `Create` returns null.
* `PointSample` (RayTraceRenderer.cs:50) rounds by adding a half and truncating:
  at negative coordinates it picks a texel that is up to one and a half texels
  away. Light paths use it (898), the shading of a hit `LinearSample` (765), and
  at negative coordinates the two differ even on the texels.
* `LinearSample` (RayTraceRenderer.cs:31) extrapolates at negative coordinates;
  an alpha above one makes the number of samples behind a surface negative.
* `RenderToImage` (render.cpp:17) leaves the last column or row of an image with
  an odd side unwritten.
* `RayIntersect8` (interface.cpp:93) starts from the id of the ray's last use.

## 7. What is left

1. That every step of `TraceColor` uses up something, as an action property: the
   part of `PixelsAreDone` that needs no fairness, with the calls to come counted
   as `RaysToCome` counts the rays.
2. Two chains of accepts and their ids under `NetServer`, if the server ever
   stops and starts its transport; today it does not.
3. `MsgProtocol` over the portions of `NetServer` in one model, once messages
   have borders in the code.
