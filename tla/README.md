# asabru-handlers: TLA+ specification

Models, checks and proofs for the handlers and pipeline plugins of the
ChistaDATA database proxy. Paths below are relative to `src/src/`.

## 1. The system

A pipeline plugin is a C function the proxy engine runs in a thread of its own
for every client connection it accepts. It resolves a target through the load
balancer, connects, and relays bytes until one side goes away. What passes
through is shown to a *proxy handler*, which parses it to log queries and may
rewrite it or throw. Sockets, `SocketSelect`, the load balancer, the HTTP and
wire-protocol parsers and the engine live in other repositories; they are
modelled from how the code here uses them.

| Component | State | Operations | Interacts with |
|---|---|---|---|
| TCP pipelines (`DefaultProxyPipeline`, `ClickHousePipeline`, `PassthroughPipeline`) | two sockets, `still_connected`, `data_sent`, `correlation_id`, `exec_context` | connect, poll, relay up, relay down, close | handler, peers |
| TLS pipelines (`ClickHouseTLSStart/Terminate/Exchange`) | the same, partly | the same; exceptions are logged and the loop goes on | handler, peers |
| Proxy handlers (9 classes) | none; they read and write `exec_context` | `HandleUpstreamData`, `HandleDownStreamData` | pipeline |
| `HttpRedirectPipeline` | client socket, one target socket per request, poll counter | route, connect, forward, relay, give up | services |
| `MySQLPipeline`, `PostgreSQLPipeline` | as the TCP pipelines, plus handshake state and a pair of replaced sockets | handshake, switch to TLS, split into packets, relay | handler, peers |
| `CStreamPipeline` | open file, transferred size | handshake, meta data, chunks, EOF | one file shared by all connections |
| `ClickHouseLibuvPipeline` | event loop, pending writes | callbacks | libuv |
| `CProtocolPipeline`, `CHttpProtocolHandler` | request read so far, retry counter | accumulate, dispatch, answer | request commands |
| request commands | token store and files (outside) | login, logout, check, upload, send file | protocol server |

What is hard here, and what makes each part correct:

- *Relaying.* Two byte streams cut anywhere, two directions served in turn in
  one iteration, and an exception possible at every read, handler call and
  send. A peer must see an unbroken prefix of the other's stream; nothing read
  may be lost while the connection goes on; a closed peer's last bytes must
  get through; the thread must end once a peer is gone; each exchange must be
  logged once.
- *Gateway.* A connection per request while the client goes on sending;
  answers must not tear or interleave, the right service must be chosen, and
  the thread must not hang.
- *Handshakes.* Sockets replaced half-way, packets cut by TCP, errors in each step.
- *File transfer, protocol server, libuv.* Concurrent writers of one file,
  counters that are never reset, buffers that die before a write completes.

`PROJECT.json` lists every component and, under `hazards`, each place where
this bites.

## 2. Modules

| Module | Models |
|---|---|
| `ProxyHandlers` | what every handler returns, throws and leaves in `exec_context` (constant level) |
| `ProxyPipelines` | the thread of the six relay plugins, their two sockets and two peers; composes `ProxyHandlers` |
| `HandshakePipelines` | the thread of `MySQLPipeline` and `PostgreSQLPipeline`: handshake, switch to TLS, loop; composes `ProxyHandlers` |
| `FifoRelay` | abstract specification: each peer is given a growing prefix of what the other sent. `ProxyPipelines` and `HandshakePipelines` implement it (`Relay`, with the mapping, at the end of each) |
| `SocketTable` | the descriptors that all connections of the two handshake plugins share |
| `QueryText` | byte by byte: `extract_packets`, and the query text the MySQL and PostgreSQL handlers log |
| `HttpRedirectPipeline` | the API gateway's thread, client, and successive services |
| `StreamPipeline` | the file transfer plugin: several threads, one file |
| `ProtocolServer` | the protocol server's threads, dispatch, and the login, logout, check, upload and download commands |
| `LibuvPipeline` | the libuv plugin's callbacks and the life of its write requests; composes `ProxyHandlers` |
| `MCProxyPipelines`, `MCHandshake`, `MCSocketTable`, `MCQueryText`, `MCHttpRedirect`, `MCStream`, `MCProtocol`, `MCLibuv` | instances for TLC |
| `ProxyPipelines_proofs`, `HandshakePipelines_proofs`, `HttpRedirectPipeline_proofs`, `StreamPipeline_proofs`, `ProtocolServer_proofs`, `LibuvPipeline_proofs`, `SocketTable_proofs`, `QueryText_proofs` | TLAPS proofs about the module each is named after |

One action is one step of a thread or a callback between two points where
another actor can interfere. In every module peers send, close their end or
disappear at any time, and a call that can throw has a disjunct in which it
does. A definition that begins with the comment "Mutant of" is a plausible
mistake in the definition it names; a property is kept only if such a mistake
breaks it.

**ProxyPipelines.** The six plugins have the same loop, written six times with
small differences. A record names these differences per plugin (does it call
the handler, does it hand on an empty read, where does the correlation id come
from, does an exception end the connection, is a failed connect caught), and
the actions read them:

| Action | Code (`DefaultProxyPipeline.cpp`) |
|---|---|
| `HandlerMissing` | 11-15: null handler, return |
| `ConnectTarget`, `ConnectFails` | 17-45 |
| `CreateSelect`, `SelectFails` | 47-50, 110-113 |
| `ReadClient`, `ForwardUp` | 51-77 |
| `ReadTarget`, `ForwardDown` | 79-105 |
| `CheckConnected` | 107-109 |
| `CloseSockets` | 115-120, and `PassthroughPipeline.cpp` 95-101 |
| `PeerSends`, `PeerCloses`, `PeerResets` | the peers (external) |

A buffer is a sequence of packets. A packet is its number in the sender's
stream, the kind its first bytes have for a parser and the form a handler left
it in; one `ReceiveBytes` returns any number of waiting packets, which covers
both coalescing and splitting (a `"rest"` packet is the continuation of a split
message). A handler call yields a *set* of results where the outcome depends
on bytes that are abstracted (a body that is cut short). `exec_context` keeps the
keys the handlers cast; a key that was never set makes the cast throw.

**HandshakePipelines.** `pc` runs through the messages of the opening. MySQL:
the server's greeting, the client's response (which carries the capabilities,
is refused if they are too old, and may ask for TLS), after a switch to TLS the
login, and the server's verdict. PostgreSQL: the length word, the body it
announces, the reply to an SSLRequest, and the start-up message in two parts.
`SwitchToTLS` replaces the two sockets one after the other, and either step may
throw; any error of the handshake leads to the closes (`HandshakeError`).
Every unit remembers whether its sender sent it under TLS, whether it was
read through a TLS socket and whether it left through one. In the loop
a MySQL buffer goes through `extract_packets` and the handler is called per
packet, as in the code.

**SocketTable.** Leaves out what is relayed and keeps who holds which
descriptor number. `Accept` and `ConnectTarget` take a free number, as the
system does; `ReplaceClient` and `ReplaceTarget` put a second socket object
over the same number; the four deletes at the end of the plugins come one at
a time, and other connections run between them. The socket classes are in
another repository: that a deleted socket closes its descriptor is taken from
the comments at the deletes.

**QueryText.** Bytes are numbers from 0 to 255 and lengths use the code's real
bases and markers (0xfb to 0xfe), so that the borders of the encodings are
the real ones. Bytes past the end are read as 0, and where the code throws
for a position behind the end the text is empty. What TCP does is the choice of
where a buffer ends. `Messages` and `Fits` are what a client may send: texts of
any bytes, of a length that the message's header can hold.

**HttpRedirectPipeline.** Paths and configured URIs are sequences of numbers so
that prefix tests and the key order of `std::map` are the real ones. An unknown
host dereferences `hostname_map.end()`: the model crashes or goes on with an
empty map. `count` is the poll counter, `PollCap` stands for 5000.

**StreamPipeline.** A chunk is two cells on the wire, so a read may return half
a chunk, one, or parts of several. `file` is the file all threads open;
`buffered` is what a thread's stdio stream has not flushed, and `pos` its offset:
a stream that writes behind a truncation leaves a hole. `ChunkIn` is what the
plugin may make of bytes that look like a chunk: a read may end in its data,
before its size or before its number, and a read that starts inside a chunk
takes the file's own bytes for a number, above the limit or not. The code looks
at no result of stdio. A `Flush` that cannot write loses what was buffered; an
`fopen` that fails leaves a null pointer whose first use ends the process
(`NullStream`). A client that has reset
the connection keeps the loop that waits for its first packets reading for ever
(`Spins`). `alone`, `aligned` and `lost` are history: nobody else touched the file,
every read so far returned one packet, the stream could not write all.

**ProtocolServer.** A request comes in two parts and `retry` counts the polls
that found nothing, over the whole request, as in the code (`RetryCap` stands
for 100). `HandleData` parses, dispatches and turns exceptions into status
codes; a command then runs in steps: the upload prepares what it needs, which is
where it can fail (`UploadPrepare`), waits for the mutex, truncates and writes
the two parts of the file, and unlocks. Its `ofstream` may fail at each of these
steps (`good`), which the code does not notice: the answer is 200 all the same. A
context without an authentication strategy and a pattern `std::regex` refuses are
answered 500; without a handler every thread returns at once. Tokens are numbers that the
store (external) issues in order, knows and forgets; a client carries a token
only once it has been issued, since it has no other way to know it.

**LibuvPipeline.** Each callback is one action, since a loop runs it to its end.
A packet has a `shape`: it holds a NUL byte, the byte behind it in the buffer is
NUL, or that byte is left from an earlier read. `buf->base` is turned into a
string by it. `uv_write` either sends at once or leaves a request whose
memory is gone when the callback returns: in `FinishWrite` it is still intact,
overwritten, or ends the process.

## 3. Runs

| Run | Instance | Shows |
|---|---|---|
| `relay` | six plugins, 7 handlers and none, 2 packets a side, 1 select fault | `InOrder`, `NoLoss`, `ImplementsRelay` for the plugins that close on an exception; for the others too `NoRepeat`, `LossIsLogged`, `LatencyAccount`, `DrainedOnCleanClose` |
| `relay_live` | 3 closing plugins, 2 handlers and none, 1 packet a side | `PeerGoneClosed` |
| `tls_exchange_gap`, `tls_start_loss` | one TLS plugin with `CHttpHandler` | violate `Unbroken` and `NothingLost` |
| `handshake` | both plugins with their handler or none, every opening, 3 units a side for MySQL, 4 and 2 for PostgreSQL, 1 select fault | `InOrder`, `NoLoss`, `ProtectionKept`, `ContextReady`, `LatencyAccount`, `SocketsClosed`, `ImplementsRelay`, `PeerGoneClosed` |
| `table` | 3 connections (symmetric), 4 descriptors | `OwnUntilClosedTwice`, `OnlyEscapesLeak` |
| `query_text` | pairs of commands with every width of the two counts, texts on both sides of 251 and of 256; short pairs cut everywhere | `PiecesMakeStream`, `PiecesArePackets`, `LogsTheQueries` |
| `redirect` | 3 buffers, 2 chunks per answer, cap 2, two nested URIs and the wildcard | `ShortestUri`, `AnswersInOrder`, `CompleteWhenClosed`, `RequestsForwarded`, `ExchangeEnds` |
| `redirect_cap` | 1 buffer, 3 chunks | violates `CapOnlyWhenStuck` |
| `stream` | 2 clients, files of 3 and none, 1 and 0 chunks, limit 2 | `AckMeansStored`, `ClosedUnlessPastLimit`, `CloseEnds` |
| `protocol` | 2 clients, eight pairs of requests, five routes, cap 2 | `UploadsDoNotMix`, `OnlyItsLogoutEndsIt`, `NoEntryAfterLogout`, `ThreadEnds` |
| `libuv` | 3 handlers and none, 2 packets from the client and 1 from the target | `CloseOnce`, `ForwardsReceived`, `BothClosed` |

The runs `relay`, `redirect` and `protocol` check `TypeOK` too; in the
other modules it documents the shape of the state.

*Bounds.* The proofs remove every bound from the safety properties; what follows is about the liveness properties, and about whether
a mistake in the model would show. Two packets a side are enough for a lost
buffer followed by a forwarded one, a coalesced and a split read, two exchanges
with their ids, and bytes that wait while a direction fails. The units of `handshake` are what the longest
opening takes; where the opening is shorter the rest reaches the loop. One
`SocketSelect` failure reaches the outer catch from every state. A cap of 2
(for 5000 polls, 100 retries, 10 chunks) allows a step below, at and above it.
Three connections and four descriptors let a third thread get the number that a
second delete of another one closes.

*Fairness.* Weak fairness of each thread: the operating system keeps scheduling
it and none of its calls blocks for ever (polls do not block, reads have a
timeout; a send that blocks for ever is outside the model). An upload that waits
for the mutex has no other step than taking it. Weak fairness is enough, for each
connection takes it once; a mutex that stays taken would leave `ThreadEnds` false
and TLC in a deadlock. `LibuvPipeline` has weak fairness of each
callback, since a turn of the loop polls every handle and runs every finished
write. The peers promise nothing. `SocketSelect` fails a bounded number of
times: if it always failed the loops would spin, with or without a peer.

*Findings* (in `PROJECT.json`, with the lines they contradict). (1) The TLS
exchange plugin drops a buffer its handler cannot parse and forwards the next
one. (2) The TLS start plugin never sets `correlation_id`, so `CHttpHandler`
throws on every buffer; `ClickHouseTLSTerminatePipeline` has the same defect.
(3) The gateway's cap also ends exchanges that are delivering bytes.

*Known deviations.* The passing properties name the cases in which the code
does something else as their conditions; removing the condition gives TLC's
counterexample:

| Condition | What the code does there |
|---|---|
| `Has("client", {"gssencCode"})` in `SocketsClosed`, `PeerGoneClosed` | a GSSENC request throws a string literal past every `catch (std::exception)`; both sockets stay open (`PostgreSQLPipeline.cpp:95`) |
| `ClosedTwice` in `OwnUntilClosedTwice` | after a switch to TLS two objects close one descriptor number; between the two another thread may have been given it (`MySQLPipeline.cpp:226`) |
| `alone` in `AckMeansStored` | all transfers write `DEST_WIRE.out` (`CStreamPipeline.cpp:130`) |
| `aligned` in `AckMeansStored`, `ClosedUnlessPastLimit` | one read is taken for one packet; the bytes of a chunk that was cut may be taken for one above the limit (`CStreamPipeline.cpp:140`, `166`) |
| `~ lost` in `AckMeansStored` | bytes that `fwrite` or `fclose` could not write are acknowledged (`CStreamPipeline.cpp:146`, `174`) |
| `seq > SeqLimit` in `ClosedUnlessPastLimit` | a chunk above the limit leaves the file open (`CStreamPipeline.cpp:170`) |
| `read = 2` in `UploadsDoNotMix` | a request that is slow to arrive is handled half read and its upload answered 200 (`CProtocolPipeline.cpp:44`, `HttpFileUploadCommand.cpp:61`) |
| `good` in `UploadsDoNotMix` | an upload whose `ofstream` failed is answered 200 (`HttpFileUploadCommand.cpp:77`) |
| `shape = "ended"` in `ForwardsReceived` | a buffer is cut at its first NUL byte, or goes on behind its end (`ClickHouseLibuvPipeline.cpp:36`) |
| `~ waited` in `ForwardsReceived` | a write that waits uses memory that is gone (`ClickHouseLibuvPipeline.cpp:39`) |
| `uncut` in `PiecesArePackets` | a packet that TCP cut is shown to the handler in pieces (`MySQLPipeline.cpp:55`); no byte is lost |
| `Regular` in `LogsTheQueries` | names and values of query attributes are logged as text (`CMySQLHandler.cpp:137`), a MySQL text ends at its first NUL byte (`CMySQLHandler.cpp:151`), and a Parse message whose length is a multiple of 256 is cut at the wrong NUL (`CPostgreSQLHandler.cpp:69`) |
| `Forwarded` in `ProxyPipelines` | `GzipHandler::HandleDownStreamData` returns an empty string (`assign(buffer, buffer_length)` is `assign(string, position)`) |

## 4. Proofs

Every safety property and every refinement that a passing run checks is proved.
Each theorem holds for all values of the constants that
satisfy the named assumptions of its module, and TLC evaluates these on the
runs. They say what the code fixes (which plugins, handlers, opening messages
and commands exist), that bounds and caps are naturals, that paths and URIs are
sequences of characters, that tokens are numbers, and that clients send
well-formed messages (`StreamsAssumption`, below). TLC checked the inductive
invariants on the instances of section 3 before they were proved.

| Theorem | States | Inductive invariant |
|---|---|---|
| **ProxyPipelines** `TypeCorrect` | `[]TypeOK` | `TypeInv` |
| `RelaysInOrder`, `RelaysEverything` | `[]InOrder`, `[]NoLoss` | `pipe.closesOnError => RelayInv` |
| `NeverRepeats`, `LossesAreLogged` | `[]NoRepeat`, `[]LossIsLogged` | `LoggedInv` |
| `CleanClose` | `[]DrainedOnCleanClose` | `LoggedInv`, `DrainInv` |
| `LatencyLogged` | `[]LatencyAccount` | `LatencyInv` |
| `LoopRefinesRelay` | `ImplementsRelay` | `RefineInv`, all of these |
| **HandshakePipelines** `HandshakeTypeCorrect` | `[]TypeOK` | `RelayInv` |
| `HandshakeInOrder`, `HandshakeNoLoss` | `[]InOrder`, `[]NoLoss` | `RelayInv` |
| `HandshakeRefinesRelay` | `ImplementsRelay` | `RelayInv` |
| `HandlerContext`, `HandshakeLatency`, `HandshakeCloses` | `[]ContextReady`, `[]LatencyAccount`, `[]SocketsClosed` | `BooksInv` |
| `ProtectionHolds` | `[]ProtectionKept` | `SealedInv` |
| **HttpRedirectPipeline** `RedirectTypeCorrect`, `ForwardsAll` | `[]TypeOK`, `[]RequestsForwarded` | `RedirectInv` |
| `InOrderAnswers`, `AnswersComplete` | `[]AnswersInOrder`, `[]CompleteWhenClosed` | `AnswerInv` |
| `RoutesToShortest` | `[]ShortestUri` | `RouteInv` |
| **StreamPipeline** `StreamTypeCorrect`, `StreamsClosed`, `AcknowledgedIsStored` | `[]TypeOK`, `[]ClosedUnlessPastLimit`, `[]AckMeansStored` | `StreamInv` |
| **ProtocolServer** `ServerTypeCorrect` | `[]TypeOK` | `TypeInv` |
| `UploadsExclude` | `[]UploadsDoNotMix` | `UploadInv` |
| `LogoutIsFinal` | `NoEntryAfterLogout` (an action property) | `LogoutInv` |
| `LoginsLast` | `[]OnlyItsLogoutEndsIt` | with `TokensKept` |
| **LibuvPipeline** `NoDoubleClose` | `[]CloseOnce` | `ClosedLast` |
| `LibuvForwards` | `[]ForwardsReceived` | `Shape`, `ForwardInv` |
| `LibuvTypeCorrect` | `[]TypeOK` | `LibuvTypeInv` |
| **SocketTable** `TableTypeCorrect`, `NothingElseLeaks` | `[]TypeOK`, `[]OnlyEscapesLeak` | `TypeOK` and the property |
| `ConnectionsKeepTheirs` | `[]OwnUntilClosedTwice` | with `OriginalsReplaced` |
| **QueryText** `PiecesMakeTheStream` | `[]PiecesMakeStream` | `Held` and the property |
| `PacketsComeApart` | `[]PiecesArePackets` | `Held`, `Whole` |
| `QueriesAreLogged` | `[]LogsTheQueries` | `Held` and the property |
| `QueryTextTypeCorrect` | `[]TypeOK` | `Held`, `LogKept` |

Why the properties are not inductive as they stand, and what carries them:

**ProxyPipelines.** A null handler has no results, so `TypeInv` adds that the
loop runs with a handler only. `RelayInv` says that the packets in hand are the
last ones read (`Numbered`) and that, for each direction, what was sent plus
what is in hand is what was read (`Exact`); `Exact` may fail only between an
exception and the end of the same iteration, and then `still_connected` is
false (`After`): this carries a failure of the upstream direction past the
downstream one to the check. The plugins that go on after an exception keep less:
in `LoggedInv` what a peer was sent rises (`Rising`) and is older than what is
in hand (`Behind`), and `Exact` holds until the first exception. `DrainInv` gives
each verdict of the loop its reason, a peer that is `Gone` or a caught exception.
`LatencyInv` keeps the log equal to the ids up to the open exchange. For the
refinement a forward is one `Deliver` and all else stutters; that the peer's
stream holds what is delivered is in `DrainInv`. The lemmas at the start of the
proof module say that no handler changes the numbers of the packets it returns.

**HandshakePipelines.** Each step keeps the units, drops what is in hand, takes
the next k of a peer or gives the first k away (`Kept`, `Lost`, `Took`, `Gave`);
a lemma per action says which. `Control` names the labels at which something is
in hand and from whom, `Flow` that everything read was forwarded or is in hand
(`Intact`), which may fail after an error only, and even then not for the
target, whose turn still comes in the same iteration (`Turn`). `ProtectionHolds`
needs to know where in the streams the peers change to TLS. `Opening` is
what the peers can have sent (TLS is asked for once, at the start, and the other
side waits), `Marked` that their units are TLS exactly behind the `Cut`, and
`Placed` how far the thread has read at each label: before the decision
exactly the units before the cut, between the two replacements
nothing new, and after it both sockets are what the peers agreed on.

**HttpRedirectPipeline.** `Buffers` says that the buffers in hand are those read
last and everything before them was forwarded; `Exchanges` that the current exchange
is open while the thread is in it and never has more chunks read than
sent. `Answering` adds that what the client was sent last is the chunk read
last. For the route, `BeforeIsShorter` shows that among prefixes of one path the
order of a `std::map` is the order of length, so the first match is the shortest;
that there is a first match uses the library's theorem that the naturals are
well founded.

**StreamPipeline.** `Scripted` is what a client may have sent, `Acked` relates
the acknowledgements to it. `Faithful` says, for a thread whose reads have
returned one packet each, that it has read two cells for every chunk transferred
and that what its stream flushed plus what it buffers are the chunks so far;
while it is alone and no write was lost the file is what it flushed. `Fresh` and
`OpenStream` cover a thread before its `fopen` and after its loop.

**ProtocolServer.** The core of `UploadInv` is mutual exclusion (`LockHeld`);
`FileState` says what the file holds at each step of the holder. `LogoutInv`
needs that a token that was logged out had been issued before (`Carried`), so
that no later login makes it again. `TokensKept` says that an issued token the
store no longer has was taken away by its own logout.

**LibuvPipeline.** `ForwardInv`: as long as no write had to wait and the packets
end where their buffers do, libuv holds empty requests only and the peer has
every packet that was read. `LibuvTypeInv` adds to `Shape` what is in the
requests and what was written, whole, cut or garbage; that libuv never holds more
requests for an end than packets were read at the other needs the step that
reads a packet and the step that writes it to be one callback.

**SocketTable.** `OriginalsReplaced`: a thread is at the delete of an original
only if that socket was replaced. `TwiceStays`, that a thread which has closed
twice has done so for good, lets the condition of the new state be used
in the old one; within it every step that takes a number takes a free one, and
every delete frees a number of its own.

**QueryText.** The property of the bytes is a property of three recursive
functions: `extract_packets`, the readers of integers, and `FlattenSeq`. The
library's induction theorems take an operator, which the installed provers
cannot instantiate, so induction is done over *sets*: `LeastNumber` is the
library's well-foundedness of the naturals, `AllNumbers` says that a set with 0
which has with each number the next one has them all, and each induction is
that lemma for the set of numbers a fact holds for. A function
definition is a `CHOOSE` in TLA+ and says something only if such a function
exists, so for each recursive function there is first a lemma that it does
(`FlattenExists`, `ValueExists`, `FromExists`).

`PiecesMakeTheStream` needs of the bytes only that they are numbers: from any position,
`extract_packets` steps forward by at least four, hands on the bytes it steps
over, and stops at the end, also where the length it reads is made of the bytes
of a text. For `PacketsComeApart` the length read is the length written:
`readLEInt` of `LEBytes` gives the number back if it fits, so one step of
`extract_packets` takes one message, and `Whole` says that after each buffer the
pieces are the first *k* messages. `QueriesAreLogged` follows the code to
the text: the four encodings of the two counts, the prefix it skips, the
search for the NUL byte. There is none in a regular MySQL text, which makes
the packet's end the end of the text; a Parse message's name ends where the
search finds it unless the last byte of the length is 0, which is the condition
in `Regular`.

`StreamsAssumption` says what the two protocols do: a stream is one protocol's
messages, each well formed; the query attributes were agreed on once, in the
handshake; and a message's length fits its header (a longer MySQL command is not
one packet). How long texts are, how many messages there are and where TCP
cuts them is left open.

Only model-checked:

- liveness under fairness, which is out of the prover's reach: `PeerGoneClosed`
  (twice), `ExchangeEnds`, `CloseEnds`, `ThreadEnds`, `BothClosed`.

## 5. What is left

1. Shorter proofs: `HandshakePipelines_proofs` treats handshake and loop
   separately where a common lemma about `Took` and `Gave` would do for both.
2. A buffer with several PostgreSQL messages: only the first is looked at, and
   `LogsTheQueries` is about calls with one message.

## 6. Not modelled

- `IsAuthorizedCommand`, `PythonCommand`, `HTTPRequestCommand` and the update
  commands: each hands its input to one call of another library and keeps no
  state. `PingHandler` returns a constant.
- The engine that starts the threads (another repository): where an exception
  ends up that leaves a plugin is the end of the model (`"escaped"`).
- Of several patterns that match a path `CHttpProtocolHandler` asks the first
  only; this is modelled, and no property is about it, since nothing in the
  repository says what should happen.
- That a request head which TCP cut makes `string_to_request` throw is an
  assumption about the HTTP library (`HttpUp`, `HandleData`).
- The wording of logs, latency values, keep-alive and time-out options of the
  sockets, TLS itself, and a send that blocks because the receiver does not
  read.
- A libuv read of zero bytes, which only leaks its buffer.
