------------------------- MODULE HandshakePipelines -------------------------
(***************************************************************************)
(* One connection of MySQLPipeline or PostgreSQLPipeline: the thread that  *)
(* first relays the opening messages of the protocol one by one, replacing *)
(* both sockets by TLS ones over the same descriptors when the peers agree *)
(* on TLS, and then runs a poll loop like that of the other proxy plugins. *)
(*                                                                         *)
(* A unit is what the handshake reads in one piece: a MySQL packet, the    *)
(* length word of a PostgreSQL message, or its body.  In the loop a buffer *)
(* is any number of units, each of them a message or a part of one.        *)
(***************************************************************************)
EXTENDS ProxyHandlers

CONSTANTS
    Plugins,         \* the plugins under study
    Handlers,        \* per plugin: the handlers it may be configured with
    Offers,          \* what a client may open its connection with
    MaxUnits,        \* bound: units sent, per plugin and per peer
    MaxSelectFaults  \* bound: how often constructing a SocketSelect throws

PluginNames == {"MySQLPipeline", "PostgreSQLPipeline"}

\* The client's half of the opening.  MySQL: the handshake response, without
\* CLIENT_PROTOCOL_41, with it, or with CLIENT_SSL too.  PostgreSQL: a length
\* word of 8, of 16 or of anything else, and the body of the request that a
\* length of 8 announces.
OfferKinds == {"oldResponse", "response", "sslResponse",
               "length8", "length16", "length", "sslCode", "gssencCode", "otherCode"}

\* The target's answer to an SSLRequest: 'S' or another byte.
ReplyKinds == {"S", "N"}

HandshakeHandlers == {"BaseProxyHandler", "CMySQLHandler", "CPostgreSQLHandler"}

ASSUME PluginsAssumption == Plugins \subseteq PluginNames
ASSUME HandlersAssumption ==
    Handlers \in [Plugins -> SUBSET (HandshakeHandlers \cup {NoHandler})]
ASSUME OffersAssumption == Offers \subseteq OfferKinds
ASSUME BoundsAssumption ==
    /\ MaxUnits \in [Plugins -> [{"client", "target"} -> Nat]]
    /\ MaxSelectFaults \in Nat

VARIABLES
    plugin, handler,  \* the configuration; never changes
    pc,               \* where the thread is
    readable,         \* the sides SocketSelect reported readable
    has_error,
    from, bytes,      \* the units in hand, and whose they are
    latency_logged,
    correlation_id,   \* number of UUIDs generated so far; the last one is it
    exec_context,
    latency,          \* ids passed to LOG_LATENCY, in order
    selectFaults,
    secure,           \* per side: conn's socket was replaced by a TLS socket
    open,             \* per side: the proxy holds the descriptor open
    link,             \* per peer: "up", "fin" (closed its end) or "rst" (gone)
    sent,             \* per peer: what it sent, [kind, tls]
    read,             \* per peer: how many of these units the proxy has read
    outbox            \* per peer: what the proxy sent to it

config  == <<plugin, handler>>
logging == <<latency_logged, correlation_id, latency>>
sockets == <<secure, open, link, sent, read, outbox>>
vars    == <<config, pc, readable, has_error, from, bytes, logging, exec_context,
             selectFaults, sockets>>

Sides == {"client", "target"}
Other(s) == IF s = "client" THEN "target" ELSE "client"

Kinds == OfferKinds \cup ReplyKinds \cup ClientKinds \cup TargetKinds

\* via and over: the unit was read from, and sent through, a TLS socket.
Unit     == [n : Nat, kind : Kinds, form : Forms, tls : BOOLEAN, via : BOOLEAN]
SentUnit == [n : Nat, kind : Kinds, form : Forms, tls : BOOLEAN, via : BOOLEAN,
             over : BOOLEAN]

HandshakeLabels ==
    {"readGreeting", "sendGreeting", "readResponse", "checkCapabilities",
     "sendResponse", "readLogin", "sendLogin", "readVerdict", "sendVerdict",
     "readLength", "sendLength", "readBody", "sendBody", "readReply", "sendReply",
     "readStartupLength", "readStartupBody", "sendStartup", "acceptTLS", "connectTLS"}

LoopLabels == {"select", "readClient", "forwardUp", "readTarget", "forwardDown"}

TypeOK ==
    /\ plugin \in Plugins
    /\ handler \in Handlers[plugin]
    /\ pc \in {"start", "close", "done", "escaped"} \cup HandshakeLabels \cup LoopLabels
    /\ readable \in SUBSET Sides
    /\ has_error \in BOOLEAN
    /\ from \in Sides
    /\ bytes \in Seq(Unit)
    /\ latency_logged \in BOOLEAN
    /\ correlation_id \in Nat
    /\ exec_context \in ContextType
    /\ latency \in Seq(Nat)
    /\ selectFaults \in 0..MaxSelectFaults
    /\ secure \in [Sides -> BOOLEAN]
    /\ open \in [Sides -> BOOLEAN]
    /\ link \in [Sides -> {"up", "fin", "rst"}]
    /\ sent \in [Sides -> Seq([kind : Kinds, tls : BOOLEAN])]
    /\ read \in [Sides -> Nat]
    /\ outbox \in [Sides -> Seq(SentUnit)]

Init ==
    /\ plugin \in Plugins
    /\ handler \in Handlers[plugin]
    /\ pc = "start"
    /\ readable = {}
    /\ has_error = FALSE
    /\ from = "client" /\ bytes = <<>>
    /\ latency_logged = TRUE
    /\ correlation_id = 0
    /\ exec_context = EmptyContext
    /\ latency = <<>>
    /\ selectFaults = 0
    /\ secure = [s \in Sides |-> FALSE]
    /\ open = [s \in Sides |-> s = "client"]
    /\ link = [s \in Sides |-> "up"]
    /\ sent = [s \in Sides |-> <<>>]
    /\ read = [s \in Sides |-> 0]
    /\ outbox = [s \in Sides |-> <<>>]

-----------------------------------------------------------------------------
(* The sockets, as the plugins use them.                                   *)

Arrived(s) == Len(sent[s]) - read[s]

\* The next k units of s, read through the socket that conn holds for it.
NextUnits(s, k) ==
    [i \in 1..k |-> [n    |-> read[s] + i,
                     kind |-> sent[s][read[s] + i].kind,
                     form |-> "raw",
                     tls  |-> sent[s][read[s] + i].tls,
                     via  |-> secure[s]]]

Through(s, out) ==
    [i \in DOMAIN out |-> [n |-> out[i].n, kind |-> out[i].kind, form |-> out[i].form,
                           tls |-> out[i].tls, via |-> out[i].via, over |-> secure[s]]]

\* SendBytes to a peer that closed may still be accepted; once a send has
\* failed, or the peer has reset the connection, every later one fails.
SendBytes(s, out) ==
    /\ link[s] # "rst"
    /\ outbox' = [outbox EXCEPT ![s] = @ \o Through(s, out)]
    /\ UNCHANGED link

SendThrows(s) ==
    /\ link[s] # "up"
    /\ link' = [link EXCEPT ![s] = "rst"]
    /\ UNCHANGED outbox

-----------------------------------------------------------------------------
(* Before the handshake.                                                   *)

\* No handler: the plugin returns and leaves the client socket as it is.
HandlerMissing ==
    /\ pc = "start" /\ handler = NoHandler
    /\ pc' = "done"
    /\ UNCHANGED <<config, readable, has_error, from, bytes, logging, exec_context,
                   selectFaults, sockets>>

ConnectTarget ==
    /\ pc = "start" /\ handler # NoHandler
    /\ open' = [open EXCEPT !["target"] = TRUE]
    /\ exec_context' = [exec_context EXCEPT !.target_host = TRUE]
    /\ pc' = IF plugin = "MySQLPipeline" THEN "readGreeting" ELSE "readLength"
    /\ UNCHANGED <<config, readable, has_error, from, bytes, logging, selectFaults,
                   secure, link, sent, read, outbox>>

\* The constructor of the target's socket throws outside any try.
ConnectFails ==
    /\ pc = "start" /\ handler # NoHandler
    /\ pc' = "escaped"
    /\ UNCHANGED <<config, readable, has_error, from, bytes, logging, exec_context,
                   selectFaults, sockets>>

-----------------------------------------------------------------------------
(* The handshakes.                                                         *)

\* Mutant of HandshakeError: the plugin returns at once.
HandshakeErrorReturns ==
    /\ has_error' = TRUE
    /\ bytes' = <<>>
    /\ pc' = "done"

\* The catch block around the handshake.
HandshakeError ==
    /\ has_error' = TRUE
    /\ bytes' = <<>>
    /\ pc' = "close"

\* Mutant of InHand: one variable for a message's length word and its body.
InHandOverwritten(s) == NextUnits(s, 1)

\* What the handshake holds after reading one more unit from s.
InHand(s) == bytes \o NextUnits(s, 1)

\* RecvBlocking: the next unit of s, or an exception if s is gone or the
\* unit does not arrive within the socket's time-out.
RecvBlocking(at, s, next) ==
    /\ pc = at
    /\ \/ /\ Arrived(s) > 0 /\ link[s] # "rst"
          /\ bytes' = InHand(s)
          /\ from' = s
          /\ read' = [read EXCEPT ![s] = @ + 1]
          /\ pc' = next
          /\ UNCHANGED has_error
       \/ /\ Arrived(s) = 0 \/ link[s] = "rst"
          /\ HandshakeError
          /\ UNCHANGED <<from, read>>
    /\ UNCHANGED <<config, readable, logging, exec_context, selectFaults, secure, open,
                   link, sent, outbox>>

\* Send what is in hand to the other peer, a unit at a time.
WriteBytes(at, next) ==
    /\ pc = at
    /\ \/ /\ SendBytes(Other(from), IF bytes = <<>> THEN <<>> ELSE <<Head(bytes)>>)
          /\ bytes' = SubSeq(bytes, 2, Len(bytes))
          /\ pc' = IF Len(bytes) > 1 THEN at ELSE next
          /\ UNCHANGED has_error
       \/ /\ SendThrows(Other(from))
          /\ HandshakeError
    /\ UNCHANGED <<config, readable, from, logging, selectFaults, secure, open, sent, read>>

\* A response without CLIENT_PROTOCOL_41 is refused before it is forwarded.
CheckCapabilities ==
    /\ pc = "checkCapabilities"
    /\ \/ /\ bytes[1].kind = "oldResponse"
          /\ HandshakeError
       \/ /\ bytes[1].kind # "oldResponse"
          /\ pc' = "sendResponse"
          /\ UNCHANGED <<has_error, bytes>>
    /\ UNCHANGED <<config, readable, from, logging, exec_context, selectFaults, sockets>>

\* Mutant of SendResponse: the capabilities are not kept.
SendResponseForgets ==
    /\ WriteBytes("sendResponse",
                  IF bytes[1].kind = "sslResponse" THEN "acceptTLS" ELSE "readVerdict")
    /\ UNCHANGED exec_context

SendResponse ==
    /\ WriteBytes("sendResponse",
                  IF bytes[1].kind = "sslResponse" THEN "acceptTLS" ELSE "readVerdict")
    /\ exec_context' = IF pc' = "close" THEN exec_context
                       ELSE [exec_context EXCEPT !.capabilities = TRUE]

MySQLHandshake ==
    \/ RecvBlocking("readGreeting", "target", "sendGreeting")
    \/ WriteBytes("sendGreeting", "readResponse") /\ UNCHANGED exec_context
    \/ RecvBlocking("readResponse", "client", "checkCapabilities")
    \/ CheckCapabilities
    \/ SendResponse
    \/ RecvBlocking("readLogin", "client", "sendLogin")
    \/ WriteBytes("sendLogin", "readVerdict") /\ UNCHANGED exec_context
    \/ RecvBlocking("readVerdict", "target", "sendVerdict")
    \/ WriteBytes("sendVerdict", "select") /\ UNCHANGED exec_context

\* After the body of a message of length 8 or 16: a GSSENC request throws a
\* string literal, which is no std::exception, and so leaves the plugin.
AfterBody(kind) ==
    CASE kind = "sslCode"    -> "readReply"
      [] kind = "gssencCode" -> "escaped"
      [] kind = "otherCode"  -> "readStartupLength"
      [] OTHER               -> "select"

\* A start-up message that comes first has only its length word relayed here;
\* its body is left to the loop.
PostgreSQLHandshake ==
    \/ RecvBlocking("readLength", "client", "sendLength")
    \/ WriteBytes("sendLength", IF bytes[1].kind = "length" THEN "sendStartup" ELSE "readBody")
          /\ UNCHANGED exec_context
    \/ RecvBlocking("readBody", "client", "sendBody")
    \/ WriteBytes("sendBody", AfterBody(bytes[1].kind)) /\ UNCHANGED exec_context
    \/ RecvBlocking("readReply", "target", "sendReply")
    \/ WriteBytes("sendReply", IF bytes[1].kind = "S" THEN "acceptTLS" ELSE "readStartupLength")
          /\ UNCHANGED exec_context
    \/ RecvBlocking("readStartupLength", "client", "readStartupBody")
    \/ RecvBlocking("readStartupBody", "client", "sendStartup")
    \/ WriteBytes("sendStartup", "select") /\ UNCHANGED exec_context

\* Replace one socket of conn by a TLS one over the same descriptor.
Replace(at, s, next) ==
    /\ pc = at
    /\ \/ /\ link[s] # "rst"
          /\ secure' = [secure EXCEPT ![s] = TRUE]
          /\ pc' = next
          /\ UNCHANGED <<has_error, bytes>>
       \/ /\ HandshakeError
          /\ UNCHANGED secure
    /\ UNCHANGED <<config, readable, from, logging, exec_context, selectFaults, open,
                   link, sent, read, outbox>>

\* Mutant of SwitchToTLS: the target's socket is left as it is.
SwitchClientOnly ==
    Replace("acceptTLS", "client",
            IF plugin = "MySQLPipeline" THEN "readLogin" ELSE "readStartupLength")

SwitchToTLS ==
    \/ Replace("acceptTLS", "client", "connectTLS")
    \/ Replace("connectTLS", "target",
               IF plugin = "MySQLPipeline" THEN "readLogin" ELSE "readStartupLength")

Handshake == MySQLHandshake \/ PostgreSQLHandshake \/ SwitchToTLS

-----------------------------------------------------------------------------
(* The loop.                                                               *)

\* while (!has_error), and a SocketSelect over both sockets.
CreateSelect ==
    /\ pc = "select"
    /\ ~has_error
    /\ readable' = {s \in Sides : Arrived(s) > 0 \/ link[s] # "up"}
    /\ pc' = "readClient"
    /\ UNCHANGED <<config, has_error, from, bytes, logging, exec_context, selectFaults,
                   sockets>>

LeaveLoop ==
    /\ pc = "select"
    /\ has_error
    /\ pc' = "close"
    /\ UNCHANGED <<config, readable, has_error, from, bytes, logging, exec_context,
                   selectFaults, sockets>>

\* The constructor threw: the outer catch logs it and the loop goes round.
SelectFails ==
    /\ pc = "select"
    /\ ~has_error
    /\ selectFaults < MaxSelectFaults
    /\ selectFaults' = selectFaults + 1
    /\ UNCHANGED <<config, pc, readable, has_error, from, bytes, logging, exec_context,
                   sockets>>

\* One direction's read: skip a side that was not readable, read units to
\* forward, or find the end of stream or an exception.
Read(s, forward, next) ==
    \/ /\ s \notin readable
       /\ pc' = next
       /\ UNCHANGED <<has_error, from, bytes, read>>
    \/ /\ s \in readable
       /\ link[s] = "rst" \/ (link[s] = "fin" /\ Arrived(s) = 0)
       /\ has_error' = TRUE
       /\ pc' = next
       /\ UNCHANGED <<from, bytes, read>>
    \/ /\ s \in readable
       /\ link[s] # "rst"
       /\ \E k \in 1..Arrived(s) :
             /\ bytes' = NextUnits(s, k)
             /\ read' = [read EXCEPT ![s] = @ + k]
       /\ from' = s
       /\ pc' = forward
       /\ UNCHANGED has_error

\* Mutant of OpenExchange: a new id for every buffer.
OpenExchangeAlways ==
    /\ correlation_id' = correlation_id + 1
    /\ exec_context' = [exec_context EXCEPT !.correlation_id = correlation_id + 1]
    /\ latency_logged' = FALSE

\* The first bytes since the last latency was logged get a fresh UUID.
OpenExchange ==
    IF latency_logged
      THEN /\ correlation_id' = correlation_id + 1
           /\ exec_context' = [exec_context EXCEPT !.correlation_id = correlation_id + 1]
           /\ latency_logged' = FALSE
      ELSE UNCHANGED <<correlation_id, exec_context, latency_logged>>

ReadClient ==
    /\ pc = "readClient"
    /\ Read("client", "forwardUp", "readTarget")
    /\ IF pc' = "forwardUp" THEN OpenExchange
       ELSE UNCHANGED <<correlation_id, exec_context, latency_logged>>
    /\ UNCHANGED <<config, readable, latency, selectFaults, secure, open, link, sent, outbox>>

\* The bytes HandleUpstreamData is called with next.  MySQLPipeline cuts the
\* buffer by the lengths it reads in it (extract_packets): at the packets'
\* borders, or anywhere when the buffer does not begin with a packet.
NextPiece ==
    IF plugin = "MySQLPipeline"
      THEN {SubSeq(bytes, 1, k) : k \in 1..Len(bytes)}
      ELSE {bytes}

\* Mutant of ForwardError: the exception is logged only.
ForwardErrorLogged(next) ==
    /\ bytes' = <<>>
    /\ pc' = next
    /\ UNCHANGED has_error

\* The catch block of either direction.
ForwardError(next) ==
    /\ has_error' = TRUE
    /\ bytes' = <<>>
    /\ pc' = next

\* Handle one piece of the client's bytes and send the outcome to the target.
ForwardUp ==
    /\ pc = "forwardUp"
    /\ \E piece \in NextPiece :
       \E r \in HandleUpstreamData(handler, piece, exec_context) :
          /\ exec_context' = r.ctx
          /\ \/ /\ r.throws
                /\ ForwardError("readTarget")
                /\ UNCHANGED <<link, outbox>>
             \/ /\ ~r.throws
                /\ SendThrows("target")
                /\ ForwardError("readTarget")
             \/ /\ ~r.throws
                /\ SendBytes("target", r.out)
                /\ bytes' = SubSeq(bytes, Len(piece) + 1, Len(bytes))
                /\ pc' = IF Len(piece) < Len(bytes) THEN "forwardUp" ELSE "readTarget"
                /\ UNCHANGED has_error
    /\ UNCHANGED <<config, readable, from, logging, selectFaults, secure, open, sent, read>>

\* The first bytes to come down end the exchange and log its latency.
LogLatency ==
    /\ latency' = IF latency_logged THEN latency ELSE Append(latency, correlation_id)
    /\ latency_logged' = TRUE

ReadTarget ==
    /\ pc = "readTarget"
    /\ Read("target", "forwardDown", "select")
    /\ IF pc' = "forwardDown" THEN LogLatency ELSE UNCHANGED <<latency, latency_logged>>
    /\ UNCHANGED <<config, readable, correlation_id, exec_context, selectFaults, secure,
                   open, link, sent, outbox>>

\* Handle the target's bytes and send the outcome to the client.  An exception
\* of the handler and one of the send are caught alike; of the handlers that go
\* with these plugins none throws here.
ForwardDown ==
    /\ pc = "forwardDown"
    /\ \E r \in HandleDownStreamData(handler, bytes, exec_context) :
          /\ exec_context' = r.ctx
          /\ \/ /\ IF r.throws THEN UNCHANGED <<link, outbox>> ELSE SendThrows("client")
                /\ ForwardError("select")
             \/ /\ ~r.throws
                /\ SendBytes("client", r.out)
                /\ bytes' = <<>>
                /\ pc' = "select"
                /\ UNCHANGED has_error
    /\ UNCHANGED <<config, readable, from, logging, selectFaults, secure, open, sent, read>>

\* Delete conn's sockets, and the ones they replaced.
CloseSockets ==
    /\ pc = "close"
    /\ open' = [s \in Sides |-> FALSE]
    /\ pc' = "done"
    /\ UNCHANGED <<config, readable, has_error, from, bytes, logging, exec_context,
                   selectFaults, secure, link, sent, read, outbox>>

Thread ==
    \/ HandlerMissing \/ ConnectTarget \/ ConnectFails
    \/ Handshake
    \/ CreateSelect \/ LeaveLoop \/ SelectFails
    \/ ReadClient \/ ForwardUp \/ ReadTarget \/ ForwardDown
    \/ CloseSockets

-----------------------------------------------------------------------------
(* The peers: they follow their protocol's opening, then send what they    *)
(* like, and close their end or vanish at any moment.                      *)

Received(s, kinds) == \E i \in DOMAIN outbox[s] : outbox[s][i].kind \in kinds
Has(s, kinds)      == \E i \in DOMAIN sent[s] : sent[s][i].kind \in kinds

\* The peers that agreed on TLS use it from here on.
UsesTLS(s) ==
    CASE plugin = "MySQLPipeline" /\ s = "client" -> Has("client", {"sslResponse"})
      [] plugin = "MySQLPipeline" /\ s = "target" -> Received("target", {"sslResponse"})
      [] plugin = "PostgreSQLPipeline" /\ s = "client" -> Received("client", {"S"})
      [] plugin = "PostgreSQLPipeline" /\ s = "target" -> Has("target", {"S"})

\* What the client may send next.
ClientOffers ==
    LET n == Len(sent["client"])
        kind(i) == sent["client"][i].kind
    IN  CASE plugin = "MySQLPipeline" ->
               IF n > 0 THEN ClientKinds
               ELSE IF outbox["client"] # <<>>
                      THEN Offers \cap {"oldResponse", "response", "sslResponse"}
               ELSE {}
          [] plugin = "PostgreSQLPipeline" ->
               CASE n = 0 -> Offers \cap {"length8", "length16", "length"}
                 [] n = 1 /\ kind(1) = "length8" ->
                      Offers \cap {"sslCode", "gssencCode", "otherCode"}
                 [] n = 2 /\ kind(2) = "sslCode" ->
                      IF outbox["client"] # <<>> THEN {"length"} ELSE {}
                 [] n = 2 /\ kind(2) \in {"gssencCode", "otherCode"} -> {"length"}
                 [] OTHER -> ClientKinds

\* What the target may send next: MySQL greets and answers the response or
\* the login, PostgreSQL answers an SSLRequest and then the start-up message.
TargetOffers ==
    LET n == Len(sent["target"])
        got == Len(outbox["target"])
    IN  CASE plugin = "MySQLPipeline" ->
               IF n = 0 \/ got > 1 \/ (got = 1 /\ ~Received("target", {"sslResponse"}))
                 THEN TargetKinds ELSE {}
          [] plugin = "PostgreSQLPipeline" ->
               CASE n = 0 /\ Received("target", {"sslCode"}) -> ReplyKinds
                 [] n = 1 /\ Has("target", ReplyKinds) -> IF got > 3 THEN TargetKinds ELSE {}
                 [] OTHER -> IF got > 1 THEN TargetKinds ELSE {}

PeerSends(s) ==
    /\ open[s]
    /\ link[s] = "up"
    /\ Len(sent[s]) < MaxUnits[plugin][s]
    /\ \E k \in (IF s = "client" THEN ClientOffers ELSE TargetOffers) :
          sent' = [sent EXCEPT ![s] = Append(@, [kind |-> k, tls |-> UsesTLS(s)])]
    /\ UNCHANGED <<config, pc, readable, has_error, from, bytes, logging, exec_context,
                   selectFaults, secure, open, link, read, outbox>>

PeerLeaves(s) ==
    /\ open[s]
    /\ \/ link[s] = "up" /\ link' \in {[link EXCEPT ![s] = l] : l \in {"fin", "rst"}}
       \/ link[s] = "fin" /\ link' = [link EXCEPT ![s] = "rst"]
    /\ UNCHANGED <<config, pc, readable, has_error, from, bytes, logging, exec_context,
                   selectFaults, secure, open, sent, read, outbox>>

Peers == \E s \in Sides : PeerSends(s) \/ PeerLeaves(s)

\* The plugin has returned, or an exception has left it.
Ended == pc \in {"done", "escaped"} /\ UNCHANGED vars

Next == Thread \/ Peers \/ Ended

Spec == Init /\ [][Next]_vars

\* The operating system keeps running the thread, and SetReadTimeOut bounds a
\* blocking read; the peers promise nothing.
FairSpec == Spec /\ WF_vars(Thread)

-----------------------------------------------------------------------------
(* What the plugins promise.                                               *)

\* From the first message of the handshake on, through the change of sockets
\* and into the loop, each peer receives what the other one sent without a gap,
\* a repetition or a swap.
InOrder == \A s \in Sides : \A i \in DOMAIN outbox[s] : outbox[s][i].n = i

\* Whenever the loop is about to poll, all that was read has been forwarded:
\* nothing is left in the hands of the handshake, of extract_packets or of a
\* catch block.
NoLoss ==
    pc = "select" /\ ~has_error =>
        \A s \in Sides : Len(outbox[Other(s)]) = read[s]

\* The two sockets are replaced at the same point of both streams: what a peer
\* sent under TLS is read as TLS and leaves as TLS, and the rest as plain text.
ProtectionKept ==
    \A s \in Sides : \A i \in DOMAIN outbox[s] :
        outbox[s][i].via = outbox[s][i].tls /\ outbox[s][i].over = outbox[s][i].tls

\* A handler is called only when the handshake and the exchange have put into
\* exec_context what it will cast: CMySQLHandler needs the capabilities, and
\* the id must be that of the exchange that is open.
ContextReady ==
    pc = "forwardUp" =>
        /\ exec_context.correlation_id = correlation_id /\ correlation_id > 0
        /\ exec_context.target_host
        /\ plugin = "MySQLPipeline" => exec_context.capabilities

\* Each correlation id is logged once, in the order the ids were made, and all
\* of them but the one whose exchange is still open.
LatencyAccount ==
    pc = "select" =>
        latency = [i \in 1..(IF latency_logged THEN correlation_id ELSE correlation_id - 1)
                      |-> i]

\* The comments before the deletes, "Close the client socket" and "Close the
\* server socket": a plugin that got as far as a handshake does not end with a
\* socket open, whatever the handshake met.  (Only a GSSENC request does that.)
SocketsClosed ==
    pc \in {"done", "escaped"} /\ exec_context.target_host =>
        Has("client", {"gssencCode"}) \/ \A s \in Sides : ~open[s]

\* Once a peer is gone the thread gives both sockets back, whether it was
\* waiting for a message of the handshake, replacing the sockets or polling.
PeerGoneClosed ==
    \A s \in Sides :
        (link[s] # "up" /\ open["target"]) ~>
            Has("client", {"gssencCode"}) \/ \A t \in Sides : ~open[t]

-----------------------------------------------------------------------------
(* The abstract relay: the units' numbers are all it sees of them.         *)

relaySent      == [s \in Sides |-> Len(sent[s])]
relayDelivered == [s \in Sides |-> [i \in DOMAIN outbox[s] |-> outbox[s][i].n]]
relayRunning   == pc # "done"

Relay == INSTANCE FifoRelay
           WITH sent <- relaySent, delivered <- relayDelivered, running <- relayRunning

\* Handshake, change of sockets and loop together implement the relay: each
\* peer is only ever given a growing prefix of what the other one has sent.
ImplementsRelay == Relay!RelaySpec
=============================================================================
