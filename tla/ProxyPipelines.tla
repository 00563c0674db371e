--------------------------- MODULE ProxyPipelines ---------------------------
(***************************************************************************)
(* One connection of the proxy: the thread that runs a pipeline plugin,    *)
(* relaying bytes between a client and the target the load balancer chose, *)
(* together with the two peers and the two sockets between them.           *)
(*                                                                         *)
(* Six plugins share this loop: poll both sockets, relay what the client   *)
(* sent, relay what the target sent, leave when either was found closed.   *)
(* They differ in a few places, which the records below name.              *)
(***************************************************************************)
EXTENDS ProxyHandlers

CONSTANTS
    Pipelines,       \* the plugins under study, among AllPipelines
    Handlers,        \* the handlers they may be configured with
    MaxPackets,      \* bound: packets each peer sends
    MaxSelectFaults  \* bound: how often constructing a SocketSelect throws

(***************************************************************************)
(* A plugin.                                                               *)
(*   callsHandler   the relayed bytes go through the proxy handler         *)
(*   skipsEmptyUp   an empty read from the client (its end of stream) is   *)
(*                  not handed to the handler and the target socket        *)
(*   skipsEmptyDown the same for an empty read from the target             *)
(*   correlation    a new correlation id per "exchange" (the first bytes   *)
(*                  to go up since the last bytes came down), one per      *)
(*                  "connection", or "none" at all                         *)
(*   closesOnError  an exception while relaying ends the connection; else  *)
(*                  it is logged and the loop goes on                      *)
(*   catchesConnect a failure to set up the sockets is caught, and the     *)
(*                  client socket closed; else the exception leaves the    *)
(*                  plugin                                                 *)
(***************************************************************************)
DefaultProxyPipeline ==
    [name |-> "DefaultProxyPipeline", callsHandler |-> TRUE,
     skipsEmptyUp |-> TRUE, skipsEmptyDown |-> TRUE, correlation |-> "exchange",
     closesOnError |-> TRUE, catchesConnect |-> TRUE]

ClickHousePipeline ==
    [name |-> "ClickHousePipeline", callsHandler |-> TRUE,
     skipsEmptyUp |-> TRUE, skipsEmptyDown |-> TRUE, correlation |-> "exchange",
     closesOnError |-> TRUE, catchesConnect |-> TRUE]

PassthroughPipeline ==
    [name |-> "PassthroughPipeline", callsHandler |-> FALSE,
     skipsEmptyUp |-> TRUE, skipsEmptyDown |-> FALSE, correlation |-> "connection",
     closesOnError |-> TRUE, catchesConnect |-> TRUE]

ClickHouseTLSStartPipeline ==
    [name |-> "ClickHouseTLSStartPipeline", callsHandler |-> TRUE,
     skipsEmptyUp |-> FALSE, skipsEmptyDown |-> FALSE, correlation |-> "none",
     closesOnError |-> FALSE, catchesConnect |-> FALSE]

ClickHouseTLSTerminatePipeline ==
    [name |-> "ClickHouseTLSTerminatePipeline", callsHandler |-> TRUE,
     skipsEmptyUp |-> FALSE, skipsEmptyDown |-> FALSE, correlation |-> "none",
     closesOnError |-> FALSE, catchesConnect |-> FALSE]

ClickHouseTLSExchangePipeline ==
    [name |-> "ClickHouseTLSExchangePipeline", callsHandler |-> TRUE,
     skipsEmptyUp |-> TRUE, skipsEmptyDown |-> TRUE, correlation |-> "exchange",
     closesOnError |-> FALSE, catchesConnect |-> FALSE]

AllPipelines == {DefaultProxyPipeline, ClickHousePipeline, PassthroughPipeline,
                 ClickHouseTLSStartPipeline, ClickHouseTLSTerminatePipeline,
                 ClickHouseTLSExchangePipeline}

ASSUME PipelinesAssumption == Pipelines \subseteq AllPipelines
ASSUME HandlersAssumption  == Handlers \subseteq HandlerNames \cup {NoHandler}
ASSUME BoundsAssumption    == MaxPackets \in Nat /\ MaxSelectFaults \in Nat

-----------------------------------------------------------------------------

VARIABLES
    pipe, handler,    \* the configuration; never changes
    pc,               \* where the thread is
    readable,         \* the sides SocketSelect reported readable
    still_connected,  \* the loop's verdict on this iteration
    bytes,            \* what ReceiveBytes returned, until it is relayed
    data_sent,        \* bytes went up and nothing came down since
    correlation_id,   \* number of UUIDs generated so far; the last one is it
    exec_context,
    latency,          \* ids passed to LOG_LATENCY, in order
    failed,           \* history: an exception was caught on this connection
    selectFaults,     \* SocketSelect constructions that threw
    \* the sockets
    open,             \* which of its sockets the proxy holds open
    link,             \* per peer: "up", "fin" (closed its end) or "rst" (gone)
    sent,             \* per peer: the kinds of the packets it sent so far
    read,             \* per peer: how many of them the proxy has read
    outbox            \* per peer: the packets the proxy sent to it

config  == <<pipe, handler>>
thread  == <<readable, still_connected, bytes, data_sent, correlation_id,
             exec_context, latency, failed, selectFaults>>
sockets == <<open, link, sent, read, outbox>>
vars    == <<config, pc, thread, sockets>>

Sides == {"client", "target"}
Other(s) == IF s = "client" THEN "target" ELSE "client"
KindsOf(s) == IF s = "client" THEN ClientKinds ELSE TargetKinds

Labels == {"start", "select", "readClient", "forwardUp", "readTarget",
           "forwardDown", "check", "close", "done", "escaped"}

TypeOK ==
    /\ pipe \in Pipelines
    /\ handler \in Handlers
    /\ pc \in Labels
    /\ readable \in SUBSET Sides
    /\ still_connected \in BOOLEAN
    /\ bytes \in Seq(Packet)
    /\ data_sent \in BOOLEAN
    /\ correlation_id \in Nat
    /\ exec_context \in ContextType
    /\ latency \in Seq(Nat)
    /\ failed \in BOOLEAN
    /\ selectFaults \in 0..MaxSelectFaults
    /\ open \in [Sides -> BOOLEAN]
    /\ link \in [Sides -> {"up", "fin", "rst"}]
    /\ sent \in [Sides -> Seq(ClientKinds \cup TargetKinds)]
    /\ read \in [Sides -> Nat]
    /\ outbox \in [Sides -> Seq(Packet)]

Init ==
    /\ pipe \in Pipelines
    /\ handler \in Handlers
    /\ pc = "start"
    /\ readable = {}
    /\ still_connected = TRUE
    /\ bytes = <<>>
    /\ data_sent = FALSE
    /\ correlation_id = (IF pipe.correlation = "connection" THEN 1 ELSE 0)
    /\ exec_context = EmptyContext
    /\ latency = <<>>
    /\ failed = FALSE
    /\ selectFaults = 0
    /\ open = [s \in Sides |-> s = "client"]
    /\ link = [s \in Sides |-> "up"]
    /\ sent = [s \in Sides |-> <<>>]
    /\ read = [s \in Sides |-> 0]
    /\ outbox = [s \in Sides |-> <<>>]

-----------------------------------------------------------------------------
(* The sockets, as the plugins use them.                                   *)

Arrived(s) == Len(sent[s]) - read[s]

\* A socket polls readable when bytes wait in it or its peer is gone.
Readable(s) == Arrived(s) > 0 \/ link[s] # "up"

\* The next k packets of s, as one buffer.
NextPackets(s, k) ==
    [i \in 1..k |-> [n |-> read[s] + i, kind |-> sent[s][read[s] + i], form |-> "raw"]]

\* ReceiveBytes returns some of what waits, or nothing at the end of stream.
ReceiveBytes(s) ==
    \E k \in 0..Arrived(s) :
        /\ IF k = 0 THEN link[s] = "rst" \/ (link[s] = "fin" /\ Arrived(s) = 0)
                    ELSE link[s] # "rst"
        /\ bytes' = NextPackets(s, k)
        /\ read' = [read EXCEPT ![s] = @ + k]

\* SendBytes to a peer that closed may still be accepted; once a send has
\* failed, or the peer has reset the connection, every later one fails.
SendBytes(s, out) ==
    /\ link[s] # "rst"
    /\ outbox' = [outbox EXCEPT ![s] = @ \o out]
    /\ UNCHANGED link

SendThrows(s) ==
    /\ link[s] # "up"
    /\ link' = [link EXCEPT ![s] = "rst"]
    /\ UNCHANGED outbox

-----------------------------------------------------------------------------
(* Before the loop.                                                        *)

\* No handler: the plugin returns and leaves the client socket as it is.
HandlerMissing ==
    /\ pc = "start"
    /\ handler = NoHandler
    /\ pc' = "done"
    /\ UNCHANGED <<config, thread, sockets>>

ConnectTarget ==
    /\ pc = "start"
    /\ handler # NoHandler
    /\ open' = [open EXCEPT !["target"] = TRUE]
    /\ exec_context' = [exec_context EXCEPT !.correlation_id = correlation_id]
    /\ pc' = "select"
    /\ UNCHANGED <<config, readable, still_connected, bytes, data_sent, correlation_id,
                   latency, failed, selectFaults, link, sent, read, outbox>>

ConnectFails ==
    /\ pc = "start"
    /\ handler # NoHandler
    /\ failed' = TRUE
    /\ IF pipe.catchesConnect
         THEN /\ open' = [open EXCEPT !["client"] = FALSE]
              /\ pc' = "done"
         ELSE /\ pc' = "escaped"
              /\ UNCHANGED open
    /\ UNCHANGED <<config, readable, still_connected, bytes, data_sent, correlation_id,
                   exec_context, latency, selectFaults, link, sent, read, outbox>>

-----------------------------------------------------------------------------
(* The loop.                                                               *)

CreateSelect ==
    /\ pc = "select"
    /\ readable' = {s \in Sides : Readable(s)}
    /\ still_connected' = TRUE
    /\ pc' = "readClient"
    /\ UNCHANGED <<config, bytes, data_sent, correlation_id, exec_context, latency,
                   failed, selectFaults, sockets>>

\* The constructor threw: the outer catch logs it and the loop goes round.
SelectFails ==
    /\ pc = "select"
    /\ selectFaults < MaxSelectFaults
    /\ selectFaults' = selectFaults + 1
    /\ failed' = TRUE
    /\ UNCHANGED <<config, pc, readable, still_connected, bytes, data_sent,
                   correlation_id, exec_context, latency, sockets>>

\* Mutant of Caught: the catch block forgets still_connected = false.
CaughtGoesOn ==
    /\ failed' = TRUE
    /\ UNCHANGED still_connected

\* The catch block of either direction.
Caught ==
    /\ still_connected' = (still_connected /\ ~pipe.closesOnError)
    /\ failed' = TRUE

\* One direction's read: skip a side that was not readable, read, or fail.
Read(s, forward, next) ==
    /\ \/ /\ s \notin readable
          /\ pc' = next
          /\ UNCHANGED <<bytes, read, still_connected, failed>>
       \/ /\ s \in readable
          /\ ReceiveBytes(s)
          /\ pc' = forward
          /\ UNCHANGED <<still_connected, failed>>
       \/ /\ s \in readable
          /\ link[s] = "rst"
          /\ Caught
          /\ pc' = next
          /\ UNCHANGED <<bytes, read>>
    /\ UNCHANGED <<config, readable, data_sent, correlation_id, exec_context, latency,
                   selectFaults, open, link, sent, outbox>>

ReadClient == pc = "readClient" /\ Read("client", "forwardUp", "readTarget")
ReadTarget == pc = "readTarget" /\ Read("target", "forwardDown", "check")

\* The first bytes of an exchange get a fresh UUID.
StartsExchange == pipe.correlation = "exchange" /\ ~data_sent

UpContext == IF StartsExchange
               THEN [exec_context EXCEPT !.correlation_id = correlation_id + 1]
               ELSE exec_context

UpResults == IF pipe.callsHandler
               THEN HandleUpstreamData(handler, bytes, UpContext)
               ELSE {Returns(bytes, exec_context)}

\* Handle the client's bytes and send the outcome to the target.
ForwardUp ==
    /\ pc = "forwardUp"
    /\ \/ /\ bytes = <<>> /\ pipe.skipsEmptyUp
          /\ still_connected' = FALSE
          /\ UNCHANGED <<data_sent, correlation_id, exec_context, failed, link, outbox>>
       \/ /\ bytes # <<>> \/ ~pipe.skipsEmptyUp
          /\ correlation_id' = correlation_id + (IF StartsExchange THEN 1 ELSE 0)
          /\ \E r \in UpResults :
                /\ exec_context' = r.ctx
                /\ \/ /\ r.throws
                      /\ Caught
                      /\ UNCHANGED <<data_sent, link, outbox>>
                   \/ /\ ~r.throws
                      /\ SendThrows("target")
                      /\ Caught
                      /\ UNCHANGED data_sent
                   \/ /\ ~r.throws
                      /\ SendBytes("target", r.out)
                      /\ data_sent' = (pipe.correlation = "exchange")
                      /\ still_connected' = (still_connected /\ bytes # <<>>)
                      /\ UNCHANGED failed
    /\ bytes' = <<>>
    /\ pc' = "readTarget"
    /\ UNCHANGED <<config, readable, latency, selectFaults, open, sent, read>>

DownContext == IF pipe.correlation = "exchange"
                 THEN [exec_context EXCEPT !.request_stop_time = TRUE, !.target_host = TRUE]
                 ELSE exec_context

DownResults == IF pipe.callsHandler
                 THEN HandleDownStreamData(handler, bytes, DownContext)
                 ELSE {Returns(bytes, exec_context)}

\* Mutant of LogLatency: data_sent is not reset.
LogLatencyAgain ==
    /\ latency' = IF data_sent THEN Append(latency, correlation_id) ELSE latency
    /\ UNCHANGED data_sent

\* The first bytes to come down end the exchange and log its latency.
LogLatency ==
    /\ latency' = IF data_sent THEN Append(latency, correlation_id) ELSE latency
    /\ data_sent' = FALSE

\* Handle the target's bytes and send the outcome to the client.
ForwardDown ==
    /\ pc = "forwardDown"
    /\ \/ /\ bytes = <<>> /\ pipe.skipsEmptyDown
          /\ still_connected' = FALSE
          /\ UNCHANGED <<data_sent, exec_context, latency, failed, link, outbox>>
       \/ /\ bytes # <<>> \/ ~pipe.skipsEmptyDown
          /\ LogLatency
          /\ \E r \in DownResults :
                /\ exec_context' = r.ctx
                /\ \/ /\ r.throws
                      /\ Caught
                      /\ UNCHANGED <<link, outbox>>
                   \/ /\ ~r.throws
                      /\ SendThrows("client")
                      /\ Caught
                   \/ /\ ~r.throws
                      /\ SendBytes("client", r.out)
                      /\ still_connected' = (still_connected /\ bytes # <<>>)
                      /\ UNCHANGED failed
    /\ bytes' = <<>>
    /\ pc' = "check"
    /\ UNCHANGED <<config, readable, correlation_id, selectFaults, open, sent, read>>

\* Mutant of CheckConnected: the break outside its if.
CheckConnectedBreaks ==
    /\ pc = "check"
    /\ pc' = "close"
    /\ UNCHANGED <<config, thread, sockets>>

CheckConnected ==
    /\ pc = "check"
    /\ pc' = IF still_connected THEN "select" ELSE "close"
    /\ UNCHANGED <<config, thread, sockets>>

\* After the loop: the passthrough plugin logs the connection's duration, and
\* both sockets are deleted.
CloseSockets ==
    /\ pc = "close"
    /\ open' = [s \in Sides |-> FALSE]
    /\ latency' = IF pipe.correlation = "connection"
                    THEN Append(latency, correlation_id) ELSE latency
    /\ pc' = "done"
    /\ UNCHANGED <<config, readable, still_connected, bytes, data_sent, correlation_id,
                   exec_context, failed, selectFaults, link, sent, read, outbox>>

Thread ==
    \/ HandlerMissing \/ ConnectTarget \/ ConnectFails
    \/ CreateSelect \/ SelectFails
    \/ ReadClient \/ ForwardUp \/ ReadTarget \/ ForwardDown
    \/ CheckConnected \/ CloseSockets

-----------------------------------------------------------------------------
(* The peers: they send, close their end or vanish at any moment.          *)

PeerSends(s) ==
    /\ open[s]
    /\ link[s] = "up"
    /\ Len(sent[s]) < MaxPackets
    /\ \E k \in KindsOf(s) : sent' = [sent EXCEPT ![s] = Append(@, k)]
    /\ UNCHANGED <<config, pc, thread, open, link, read, outbox>>

PeerCloses(s) ==
    /\ open[s]
    /\ link[s] = "up"
    /\ link' = [link EXCEPT ![s] = "fin"]
    /\ UNCHANGED <<config, pc, thread, open, sent, read, outbox>>

PeerResets(s) ==
    /\ open[s]
    /\ link[s] # "rst"
    /\ link' = [link EXCEPT ![s] = "rst"]
    /\ UNCHANGED <<config, pc, thread, open, sent, read, outbox>>

Peers == \E s \in Sides : PeerSends(s) \/ PeerCloses(s) \/ PeerResets(s)

\* The plugin has returned (or its exception has left it): nothing more.
Ended == pc \in {"done", "escaped"} /\ UNCHANGED vars

Next == Thread \/ Peers \/ Ended

Spec == Init /\ [][Next]_vars

\* The operating system keeps running the thread; the peers promise nothing.
FairSpec == Spec /\ WF_vars(Thread)

-----------------------------------------------------------------------------
(* What the relay promises.                                                *)

\* GzipHandler::HandleDownStreamData drops every buffer: what reaches the
\* client through it is not part of the promises below.
Forwarded(s) == s = "client" \/ ~pipe.callsHandler \/ handler # "GzipHandler"

\* Whatever a peer receives is what the other one sent, from the first packet
\* on, without a gap, a repetition or a swap.
Unbroken == \A s \in Sides : \A i \in DOMAIN outbox[s] : outbox[s][i].n = i

\* The plugins that close on a caught exception relay in order: a buffer that
\* could not be handled or sent (the catch blocks) is never followed by a later
\* one.
InOrder == pipe.closesOnError => Unbroken

\* The weaker promise that also the plugins which log an exception and go on
\* keep: they may drop a buffer, but never repeat or reorder what they forward.
NoRepeat ==
    \A s \in Sides : \A i, j \in DOMAIN outbox[s] :
        i < j => outbox[s][i].n < outbox[s][j].n

\* Every byte read from one socket has been sent to the other by the time the
\* loop polls again, however the reads cut the stream.
NothingLost ==
    pc = "select" =>
        \A s \in Sides : Forwarded(s) => Len(outbox[Other(s)]) = read[s]

\* In the plugins that close on a caught exception no path through an iteration
\* reads bytes, loses them and goes on.
NoLoss == pipe.closesOnError => NothingLost

\* In every plugin bytes are lost only together with an exception that it logged.
LossIsLogged == ~failed => NothingLost

\* The plugin gives up a connection without an error only because a peer went
\* away; if it closed its end in order, all it sent has been forwarded first.
DrainedOnCleanClose ==
    pc = "done" /\ handler # NoHandler /\ ~failed =>
        \E s \in Sides :
            \/ link[s] = "rst"
            \/ /\ link[s] = "fin"
               /\ read[s] = Len(sent[s])
               /\ Forwarded(s) => Len(outbox[Other(s)]) = Len(sent[s])

\* Each correlation id is logged once, in the order the ids were made, and all
\* of them but the one whose exchange is still open: several client buffers
\* before the answer share an id, and an answer in several buffers logs it once.
\* (A plugin that goes on after an exception may have dropped an answer.)
LatencyAccount ==
    pc = "select" /\ pipe.correlation = "exchange" /\ (pipe.closesOnError \/ ~failed) =>
        latency = [i \in 1..(IF data_sent THEN correlation_id - 1 ELSE correlation_id) |-> i]

\* Once a peer is gone the thread leaves its loop and gives both sockets back,
\* even while the other peer keeps sending.
PeerGoneClosed ==
    \A s \in Sides :
        (link[s] # "up" /\ handler # NoHandler) ~> (\A t \in Sides : ~open[t])

-----------------------------------------------------------------------------
(* The abstract relay: the packets' numbers are all it sees of them.  A    *)
(* plugin that goes on after an exception is not claimed to implement it   *)
(* and appears as one that delivers nothing.                               *)

relaySent      == [s \in Sides |-> Len(sent[s])]
relayDelivered == [s \in Sides |-> IF pipe.closesOnError
                                     THEN [i \in DOMAIN outbox[s] |-> outbox[s][i].n]
                                     ELSE <<>>]
relayRunning   == pc \notin {"done", "escaped"}

Relay == INSTANCE FifoRelay
           WITH sent <- relaySent, delivered <- relayDelivered, running <- relayRunning

\* The loop of the plugins that close on an error implements the relay: polls,
\* cut reads, handlers and caught exceptions only ever deliver a prefix of what
\* the other peer has sent, and nothing after the plugin has returned.
ImplementsRelay == Relay!RelaySpec
=============================================================================
