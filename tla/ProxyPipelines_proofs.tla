----------------------- MODULE ProxyPipelines_proofs -----------------------
(***************************************************************************)
(* Proofs about ProxyPipelines, for any number of packets and any choice   *)
(* of handlers.                                                            *)
(***************************************************************************)
EXTENDS ProxyPipelines, TLAPS

-----------------------------------------------------------------------------
(* What the handlers return, for any buffer and any context.               *)

\* What every call of a handler yields, whatever it is called with: a buffer
\* of packets and a context.
ResultType == [throws : BOOLEAN, out : Seq(Packet), ctx : ContextType]

\* A buffer that carries the same packet numbers as another one.
SameNumbers(out, buf) == Len(out) = Len(buf) /\ \A i \in 1..Len(buf) : out[i].n = buf[i].n

\* Printing a parsed request again (CHttpHandler, CSnowflakeHttpHandler)
\* changes the form of its packets only.
LEMMA InFormKeeps ==
    ASSUME NEW buf \in Seq(Packet), NEW form \in Forms
    PROVE  InForm(buf, form) \in Seq(Packet) /\ SameNumbers(InForm(buf, form), buf)
<1>1. \A i \in 1..Len(buf) : [buf[i] EXCEPT !.form = form] \in Packet
  <2>1. \A p \in Packet : [p EXCEPT !.form = form] \in Packet
    BY DEF Packet
  <2> QED BY <2>1
<1>2. InForm(buf, form) = [i \in 1..Len(buf) |-> [buf[i] EXCEPT !.form = form]]
  BY DEF InForm
<1>3. InForm(buf, form) \in Seq(Packet) /\ Len(InForm(buf, form)) = Len(buf)
  BY <1>1, <1>2
<1>4. \A i \in 1..Len(buf) : buf[i] \in Packet
  OBVIOUS
<1>5. \A i \in 1..Len(buf) : InForm(buf, form)[i].n = buf[i].n
  BY <1>2, <1>4 DEF Packet
<1> QED BY <1>3, <1>5 DEF SameNumbers

LEMMA ResultsTyped ==
    ASSUME NEW out \in Seq(Packet), NEW ctx \in ContextType
    PROVE  Returns(out, ctx) \in ResultType /\ Throws(ctx) \in ResultType
BY DEF Returns, Throws, ResultType

\* HandleUpstreamData of every handler returns well-formed results, and what
\* it returns for a buffer that is not empty carries all of its packets; for
\* an empty one only a handler that has a correlation id makes up a request.
LEMMA UpstreamKeepsNumbers ==
    ASSUME NEW h \in HandlerNames, NEW buf \in Seq(Packet), NEW ctx \in ContextType,
           NEW r \in HandleUpstreamData(h, buf, ctx)
    PROVE  /\ r \in ResultType /\ r.ctx.correlation_id = ctx.correlation_id
           /\ ~r.throws /\ (buf # <<>> \/ ctx.correlation_id = 0) =>
                 SameNumbers(r.out, buf)
<1> DEFINE Good(x) == /\ x \in ResultType /\ x.ctx.correlation_id = ctx.correlation_id
                      /\ ~x.throws /\ (buf # <<>> \/ ctx.correlation_id = 0) =>
                            SameNumbers(x.out, buf)
<1>same. SameNumbers(buf, buf)
  BY DEF SameNumbers
<1>1. \A c \in ContextType : c.correlation_id = ctx.correlation_id =>
          Good(Returns(buf, c)) /\ Good(Throws(c))
  BY <1>same, ResultsTyped DEF Returns, Throws
<1>2. \A form \in Forms : Good(Returns(InForm(buf, form), ctx))
  BY InFormKeeps, ResultsTyped DEF Returns
<1>3. Good(Returns(<<BlankRequest>>, ctx)) \/ buf # <<>> \/ ctx.correlation_id = 0
  <2>1. BlankRequest \in Packet
    BY DEF BlankRequest, Packet, ClientKinds, TargetKinds, Forms
  <2>2. <<BlankRequest>> \in Seq(Packet)
    BY <2>1
  <2> QED BY <2>2, ResultsTyped DEF Returns
<1>http. ASSUME NEW form \in Forms, r \in HttpUp(buf, ctx, form) PROVE Good(r)
  <2>1. CASE ctx.correlation_id = 0
    BY <2>1, <1>1, <1>http DEF HttpUp
  <2>2. CASE ctx.correlation_id # 0 /\ buf = <<>>
    BY <2>2, <1>3, <1>http DEF HttpUp
  <2>3. CASE ctx.correlation_id # 0 /\ buf # <<>>
    BY <2>3, <1>1, <1>2, <1>http DEF HttpUp
  <2> QED BY <2>1, <2>2, <2>3
<1>4. CASE h = "BaseProxyHandler"
  BY <1>4, <1>1 DEF HandleUpstreamData, BaseProxyHandlerUp
<1>5. CASE h = "CHWirePTHandler"
  <2> DEFINE seen == IF StartsWith(buf, "query")
                       THEN [ctx EXCEPT !.query_correlation_id = ctx.correlation_id,
                                        !.query_start_time = TRUE]
                       ELSE ctx
  <2>1. seen \in ContextType /\ seen.correlation_id = ctx.correlation_id
    BY DEF ContextType
  <2>2. r \in {Returns(buf, seen), Throws(seen)}
    BY <1>5 DEF HandleUpstreamData, CHWirePTHandlerUp
  <2> QED BY <2>1, <2>2, <1>1
<1>6. CASE h = "CHttpHandler"
  BY <1>6, <1>http DEF HandleUpstreamData, CHttpHandlerUp, Forms
<1>7. CASE h = "CHttpsHandler"
  BY <1>7, <1>1 DEF HandleUpstreamData, CHttpsHandlerUp
<1>8. CASE h = "CSnowflakeHttpHandler"
  BY <1>8, <1>http DEF HandleUpstreamData, CSnowflakeHttpHandlerUp, Forms
<1>9. CASE h = "GzipHandler"
  BY <1>9, <1>1 DEF HandleUpstreamData, GzipHandlerUp, Compress, Decompress
<1>10. CASE h = "CMongoDBHandler"
  BY <1>10, <1>1 DEF HandleUpstreamData, CMongoDBHandlerUp
<1>11. CASE h = "CPostgreSQLHandler"
  BY <1>11, <1>1 DEF HandleUpstreamData, CPostgreSQLHandlerUp
<1>12. CASE h = "CMySQLHandler"
  BY <1>12, <1>1 DEF HandleUpstreamData, CMySQLHandlerUp
<1> QED BY <1>4, <1>5, <1>6, <1>7, <1>8, <1>9, <1>10, <1>11, <1>12 DEF HandlerNames

\* The same of HandleDownStreamData; GzipHandler returns nothing at all.
LEMMA DownstreamKeepsNumbers ==
    ASSUME NEW h \in HandlerNames, NEW buf \in Seq(Packet), NEW ctx \in ContextType,
           NEW r \in HandleDownStreamData(h, buf, ctx)
    PROVE  /\ r \in ResultType /\ r.ctx.correlation_id = ctx.correlation_id
           /\ ~r.throws => r.out = IF h = "GzipHandler" THEN <<>> ELSE buf
<1>1. CASE h = "CHWirePTHandler"
  <2>1. r \in {Returns(buf, ctx), Throws(ctx)}
    BY <1>1 DEF HandleDownStreamData, CHWirePTHandlerDown
  <2>2. CASE r = Returns(buf, ctx)
    BY <1>1, <2>2, ResultsTyped DEF Returns
  <2>3. CASE r = Throws(ctx)
    <3>1. <<>> \in Seq(Packet)
      OBVIOUS
    <3>2. r \in ResultType
      BY <2>3, <3>1, ResultsTyped
    <3>3. r.throws /\ r.ctx = ctx
      BY <2>3 DEF Throws
    <3> QED BY <3>2, <3>3
  <2> QED BY <2>1, <2>2, <2>3
<1>2. CASE h = "GzipHandler"
  <2>1. SubSeq(buf, Len(buf) + 1, Len(buf)) = <<>>
    OBVIOUS
  <2>2. r = Returns(<<>>, ctx)
    BY <1>2, <2>1 DEF HandleDownStreamData, GzipHandlerDown
  <2>3. <<>> \in Seq(Packet)
    OBVIOUS
  <2> QED BY <1>2, <2>2, <2>3, ResultsTyped DEF Returns
<1>3. CASE h \notin {"CHWirePTHandler", "GzipHandler"}
  BY <1>3, ResultsTyped DEF HandleDownStreamData, OtherHandlersDown, Returns
<1> QED BY <1>1, <1>2, <1>3

\* Appending the next packets to an unbroken stream keeps it unbroken.
LEMMA AppendInOrder ==
    ASSUME NEW box \in Seq(Packet), NEW out \in Seq(Packet),
           \A i \in 1..Len(box) : box[i].n = i,
           \A j \in 1..Len(out) : out[j].n = Len(box) + j
    PROVE  /\ box \o out \in Seq(Packet)
           /\ Len(box \o out) = Len(box) + Len(out)
           /\ \A i \in 1..Len(box \o out) : (box \o out)[i].n = i
<1>1. box \o out \in Seq(Packet) /\ Len(box \o out) = Len(box) + Len(out)
  OBVIOUS
<1>2. ASSUME NEW i \in 1..Len(box \o out) PROVE (box \o out)[i].n = i
  <2>1. CASE i <= Len(box)
    <3>1. i \in 1..Len(box) /\ (box \o out)[i] = box[i]
      BY <2>1
    <3> QED BY <3>1
  <2>2. CASE ~(i <= Len(box))
    <3>1. i - Len(box) \in 1..Len(out) /\ (box \o out)[i] = out[i - Len(box)]
      BY <2>2, <1>1
    <3>2. out[i - Len(box)].n = Len(box) + (i - Len(box))
      BY <3>1
    <3> QED BY <3>1, <3>2
  <2> QED BY <2>1, <2>2
<1> QED BY <1>1, <1>2

-----------------------------------------------------------------------------
(* The results a pipeline gets, with or without a handler.                 *)

LEMMA PacketsTyped ==
    ASSUME TypeOK, NEW s \in Sides, NEW k \in 0..Arrived(s)
    PROVE  /\ NextPackets(s, k) \in Seq(Packet)
           /\ Len(NextPackets(s, k)) = k
           /\ \A i \in 1..k : NextPackets(s, k)[i].n = read[s] + i
<1>1. sent[s] \in Seq(ClientKinds \cup TargetKinds) /\ read[s] \in Nat
  BY DEF TypeOK
<1>2. k \in Nat /\ read[s] + k <= Len(sent[s])
  BY <1>1 DEF Arrived
<1>3. \A i \in 1..k : /\ read[s] + i \in Nat
                      /\ sent[s][read[s] + i] \in ClientKinds \cup TargetKinds
  BY <1>1, <1>2
<1>4. \A i \in 1..k : [n |-> read[s] + i, kind |-> sent[s][read[s] + i], form |-> "raw"]
                         \in Packet
  BY <1>3 DEF Packet, Forms
<1> QED BY <1>2, <1>4 DEF NextPackets

LEMMA UpResultsTyped ==
    ASSUME TypeOK, handler # NoHandler, NEW r \in UpResults
    PROVE  /\ r \in ResultType
           /\ pipe.correlation = "none" => r.ctx.correlation_id = exec_context.correlation_id
           /\ ~r.throws /\ (bytes # <<>> \/ UpContext.correlation_id = 0) =>
                 SameNumbers(r.out, bytes)
<1>1. UpContext \in ContextType
  <2>1. correlation_id + 1 \in Nat /\ exec_context \in ContextType
    BY DEF TypeOK
  <2>2. [exec_context EXCEPT !.correlation_id = correlation_id + 1] \in ContextType
    BY <2>1 DEF ContextType
  <2> QED BY <2>1, <2>2 DEF UpContext
<1>2. handler \in HandlerNames /\ bytes \in Seq(Packet) /\ exec_context \in ContextType
  BY HandlersAssumption DEF TypeOK
<1>3. CASE pipe.callsHandler
  <2>1. pipe.correlation = "none" => UpContext = exec_context
    BY DEF UpContext, StartsExchange
  <2> QED BY <1>1, <1>2, <1>3, <2>1, UpstreamKeepsNumbers DEF UpResults
<1>4. CASE ~pipe.callsHandler
  BY <1>2, <1>4, ResultsTyped DEF UpResults, Returns, SameNumbers
<1> QED BY <1>3, <1>4

LEMMA DownResultsTyped ==
    ASSUME TypeOK, handler # NoHandler, NEW r \in DownResults
    PROVE  /\ r \in ResultType
           /\ r.ctx.correlation_id = exec_context.correlation_id
           /\ ~r.throws => r.out = IF pipe.callsHandler /\ handler = "GzipHandler"
                                     THEN <<>> ELSE bytes
<1>1. /\ DownContext \in ContextType
      /\ DownContext.correlation_id = exec_context.correlation_id
  BY DEF TypeOK, DownContext, ContextType
<1>2. handler \in HandlerNames /\ bytes \in Seq(Packet) /\ exec_context \in ContextType
  BY HandlersAssumption DEF TypeOK
<1>3. CASE pipe.callsHandler
  BY <1>1, <1>2, <1>3, DownstreamKeepsNumbers DEF DownResults
<1>4. CASE ~pipe.callsHandler
  BY <1>2, <1>4, ResultsTyped DEF DownResults, Returns
<1> QED BY <1>3, <1>4

-----------------------------------------------------------------------------
(* Type correctness.                                                       *)

LEMMA CaughtTyped ==
    ASSUME Caught PROVE still_connected' \in BOOLEAN /\ failed' \in BOOLEAN
BY DEF Caught

LEMMA SendTyped ==
    ASSUME TypeOK, NEW s \in Sides, NEW out \in Seq(Packet),
           SendBytes(s, out) \/ SendThrows(s)
    PROVE  /\ link' \in [Sides -> {"up", "fin", "rst"}]
           /\ outbox' \in [Sides -> Seq(Packet)]
<1>1. outbox[s] \o out \in Seq(Packet)
  BY DEF TypeOK
<1> QED BY <1>1 DEF TypeOK, SendBytes, SendThrows

LEMMA ReadTyped ==
    ASSUME TypeOK, NEW s \in Sides, NEW forward \in Labels, NEW next \in Labels,
           Read(s, forward, next)
    PROVE  TypeOK'
<1>1. bytes' \in Seq(Packet) /\ read' \in [Sides -> Nat]
  <2>1. CASE ReceiveBytes(s)
    <3>1. PICK k \in 0..Arrived(s) : /\ bytes' = NextPackets(s, k)
                                    /\ read' = [read EXCEPT ![s] = @ + k]
      BY <2>1 DEF ReceiveBytes
    <3>2. read[s] + k \in Nat
      BY DEF TypeOK
    <3> QED BY <3>1, <3>2, PacketsTyped DEF TypeOK
  <2>2. CASE UNCHANGED <<bytes, read>>
    BY <2>2 DEF TypeOK
  <2> QED BY <2>1, <2>2 DEF Read
<1>2. still_connected' \in BOOLEAN /\ failed' \in BOOLEAN
  BY CaughtTyped DEF Read, TypeOK
<1>3. pc' \in Labels
  BY DEF Read
<1> QED BY <1>1, <1>2, <1>3 DEF Read, TypeOK, config

LEMMA ForwardUpTyped == TypeOK /\ handler # NoHandler /\ ForwardUp => TypeOK'
<1> SUFFICES ASSUME TypeOK, handler # NoHandler, ForwardUp PROVE TypeOK'
  OBVIOUS
<1>1. correlation_id' \in Nat
  BY DEF ForwardUp, TypeOK
<1>2. /\ data_sent' \in BOOLEAN /\ still_connected' \in BOOLEAN /\ failed' \in BOOLEAN
      /\ exec_context' \in ContextType
      /\ link' \in [Sides -> {"up", "fin", "rst"}]
      /\ outbox' \in [Sides -> Seq(Packet)]
  <2>1. CASE bytes = <<>> /\ pipe.skipsEmptyUp
    BY <2>1 DEF ForwardUp, TypeOK
  <2>2. CASE ~(bytes = <<>> /\ pipe.skipsEmptyUp)
    <3>1. PICK r \in UpResults :
             /\ exec_context' = r.ctx
             /\ \/ Caught /\ UNCHANGED <<data_sent, link, outbox>>
                \/ SendThrows("target") /\ Caught /\ UNCHANGED data_sent
                \/ /\ SendBytes("target", r.out)
                   /\ data_sent' = (pipe.correlation = "exchange")
                   /\ still_connected' = (still_connected /\ bytes # <<>>)
                   /\ UNCHANGED failed
      BY <2>2 DEF ForwardUp
    <3>2. r \in ResultType
      BY UpResultsTyped
    <3>3. r.out \in Seq(Packet) /\ r.ctx \in ContextType
      BY <3>2 DEF ResultType
    <3>4. CASE Caught /\ UNCHANGED <<data_sent, link, outbox>>
      BY <3>1, <3>3, <3>4, CaughtTyped DEF TypeOK
    <3>5. CASE SendThrows("target") /\ Caught /\ UNCHANGED data_sent
      BY <3>1, <3>3, <3>5, CaughtTyped, SendTyped DEF TypeOK, Sides
    <3>6. CASE /\ SendBytes("target", r.out)
               /\ data_sent' = (pipe.correlation = "exchange")
               /\ still_connected' = (still_connected /\ bytes # <<>>)
               /\ UNCHANGED failed
      BY <3>1, <3>3, <3>6, SendTyped DEF TypeOK, Sides
    <3> QED BY <3>1, <3>4, <3>5, <3>6
  <2> QED BY <2>1, <2>2
<1>3. bytes' \in Seq(Packet) /\ pc' \in Labels
  BY DEF ForwardUp, Labels
<1> QED BY <1>1, <1>2, <1>3 DEF ForwardUp, TypeOK, config

LEMMA ForwardDownTyped == TypeOK /\ handler # NoHandler /\ ForwardDown => TypeOK'
<1> SUFFICES ASSUME TypeOK, handler # NoHandler, ForwardDown PROVE TypeOK'
  OBVIOUS
<1>1. data_sent' \in BOOLEAN /\ latency' \in Seq(Nat)
  <2>1. Append(latency, correlation_id) \in Seq(Nat)
    BY DEF TypeOK
  <2> QED BY <2>1 DEF ForwardDown, LogLatency, TypeOK
<1>2. /\ still_connected' \in BOOLEAN /\ failed' \in BOOLEAN
      /\ exec_context' \in ContextType
      /\ link' \in [Sides -> {"up", "fin", "rst"}]
      /\ outbox' \in [Sides -> Seq(Packet)]
  <2>1. CASE bytes = <<>> /\ pipe.skipsEmptyDown
    BY <2>1 DEF ForwardDown, TypeOK
  <2>2. CASE ~(bytes = <<>> /\ pipe.skipsEmptyDown)
    <3>1. PICK r \in DownResults :
             /\ exec_context' = r.ctx
             /\ \/ Caught /\ UNCHANGED <<link, outbox>>
                \/ SendThrows("client") /\ Caught
                \/ /\ SendBytes("client", r.out)
                   /\ still_connected' = (still_connected /\ bytes # <<>>)
                   /\ UNCHANGED failed
      BY <2>2 DEF ForwardDown
    <3>2. r \in ResultType
      BY DownResultsTyped
    <3>3. r.out \in Seq(Packet) /\ r.ctx \in ContextType
      BY <3>2 DEF ResultType
    <3>4. CASE Caught /\ UNCHANGED <<link, outbox>>
      BY <3>1, <3>3, <3>4, CaughtTyped DEF TypeOK
    <3>5. CASE SendThrows("client") /\ Caught
      BY <3>1, <3>3, <3>5, CaughtTyped, SendTyped DEF TypeOK, Sides
    <3>6. CASE /\ SendBytes("client", r.out)
               /\ still_connected' = (still_connected /\ bytes # <<>>)
               /\ UNCHANGED failed
      BY <3>1, <3>3, <3>6, SendTyped DEF TypeOK, Sides
    <3> QED BY <3>1, <3>4, <3>5, <3>6
  <2> QED BY <2>1, <2>2
<1>3. bytes' \in Seq(Packet) /\ pc' \in Labels
  BY DEF ForwardDown, Labels
<1> QED BY <1>1, <1>2, <1>3 DEF ForwardDown, TypeOK, config

\* TypeOK alone is not inductive: what a null handler returns has no type, so
\* the loop must be known to run with a handler only.
HandlerPresent == handler = NoHandler => pc \in {"start", "done"}
TypeInv == TypeOK /\ HandlerPresent

LEMMA TypeInit == Init => TypeInv
<1> SUFFICES ASSUME Init PROVE TypeInv
  OBVIOUS
<1>1. EmptyContext \in ContextType
  BY DEF EmptyContext, ContextType
<1>2. open \in [Sides -> BOOLEAN]
  BY DEF Init
<1>3. /\ link \in [Sides -> {"up", "fin", "rst"}]
      /\ sent \in [Sides -> Seq(ClientKinds \cup TargetKinds)]
      /\ read \in [Sides -> Nat]
      /\ outbox \in [Sides -> Seq(Packet)]
  BY DEF Init
<1>4. /\ bytes \in Seq(Packet) /\ latency \in Seq(Nat)
      /\ correlation_id \in Nat /\ selectFaults \in 0..MaxSelectFaults
  BY BoundsAssumption DEF Init
<1> QED BY <1>1, <1>2, <1>3, <1>4 DEF Init, TypeInv, TypeOK, HandlerPresent, Labels

LEMMA TypeStep == TypeInv /\ [Next]_vars => TypeInv'
<1> SUFFICES ASSUME TypeInv, [Next]_vars PROVE TypeInv'
  OBVIOUS
<1> USE DEF TypeInv
<1>1. CASE HandlerMissing
  BY <1>1 DEF HandlerMissing, TypeOK, HandlerPresent, Labels, config, thread, sockets
<1>2. CASE ConnectTarget
  <2>1. [exec_context EXCEPT !.correlation_id = correlation_id] \in ContextType
    <3>1. exec_context \in ContextType /\ correlation_id \in Nat
      BY DEF TypeOK
    <3> QED BY <3>1 DEF ContextType
  <2>2. open' \in [Sides -> BOOLEAN]
    BY <1>2 DEF ConnectTarget, TypeOK
  <2> QED BY <1>2, <2>1, <2>2 DEF ConnectTarget, TypeOK, HandlerPresent, Labels, config
<1>3. CASE ConnectFails
  BY <1>3 DEF ConnectFails, TypeOK, HandlerPresent, Labels, config
<1>4. CASE CreateSelect
  BY <1>4 DEF CreateSelect, TypeOK, HandlerPresent, Labels, config, sockets
<1>5. CASE SelectFails
  <2>1. selectFaults + 1 \in 0..MaxSelectFaults
    BY <1>5, BoundsAssumption DEF SelectFails, TypeOK
  <2> QED BY <1>5, <2>1 DEF SelectFails, TypeOK, HandlerPresent, config, sockets
<1>6. CASE ReadClient
  <2>1. TypeOK'
    BY <1>6, ReadTyped DEF ReadClient, Labels, Sides
  <2> QED BY <1>6, <2>1 DEF ReadClient, Read, HandlerPresent, config
<1>7. CASE ForwardUp
  BY <1>7, ForwardUpTyped DEF ForwardUp, HandlerPresent, config
<1>8. CASE ReadTarget
  <2>1. TypeOK'
    BY <1>8, ReadTyped DEF ReadTarget, Labels, Sides
  <2> QED BY <1>8, <2>1 DEF ReadTarget, Read, HandlerPresent, config
<1>9. CASE ForwardDown
  BY <1>9, ForwardDownTyped DEF ForwardDown, HandlerPresent, config
<1>10. CASE CheckConnected
  BY <1>10 DEF CheckConnected, TypeOK, HandlerPresent, Labels, config, thread, sockets
<1>11. CASE CloseSockets
  <2>1. Append(latency, correlation_id) \in Seq(Nat)
    BY DEF TypeOK
  <2> QED BY <1>11, <2>1 DEF CloseSockets, TypeOK, HandlerPresent, Labels, config
<1>12. ASSUME NEW s \in Sides, PeerSends(s) PROVE TypeInv'
  <2>1. PICK k \in KindsOf(s) : sent' = [sent EXCEPT ![s] = Append(@, k)]
    BY <1>12 DEF PeerSends
  <2>2. Append(sent[s], k) \in Seq(ClientKinds \cup TargetKinds)
    BY DEF TypeOK, KindsOf
  <2>3. sent' \in [Sides -> Seq(ClientKinds \cup TargetKinds)]
    BY <2>1, <2>2 DEF TypeOK
  <2> QED BY <1>12, <2>3 DEF PeerSends, TypeOK, HandlerPresent, config, thread
<1>13. ASSUME NEW s \in Sides, PeerCloses(s) \/ PeerResets(s) PROVE TypeInv'
  BY <1>13 DEF PeerCloses, PeerResets, TypeOK, HandlerPresent, config, thread
<1>14. CASE UNCHANGED vars
  BY <1>14 DEF vars, config, thread, sockets, TypeOK, HandlerPresent
<1> QED
  BY <1>1, <1>2, <1>3, <1>4, <1>5, <1>6, <1>7, <1>8, <1>9, <1>10, <1>11, <1>12, <1>13, <1>14
     DEF Next, Thread, Peers, Ended

\* Every variable of every plugin's loop keeps its type, for any number of
\* packets: no handler result and no caught exception ever leaves the context,
\* the buffers or the flags in a state the loop does not expect.
THEOREM TypeCorrect == Spec => []TypeOK
<1>1. Spec => []TypeInv
  BY TypeInit, TypeStep, PTL DEF Spec
<1>2. TypeInv => TypeOK
  BY DEF TypeInv
<1> QED BY <1>1, <1>2, PTL

-----------------------------------------------------------------------------
(* The order and the completeness of what is relayed, for the plugins that *)
(* close a connection when an exception is caught.                         *)

\* Packets of s that were read and are not handled yet.
InHand(s) ==
    IF \/ s = "client" /\ pc = "forwardUp"
       \/ s = "target" /\ pc = "forwardDown"
      THEN Len(bytes) ELSE 0

Exact(s) == Forwarded(s) => Len(outbox[Other(s)]) + InHand(s) = read[s]

\* From here to the next poll an exception may have cost a buffer of s; then
\* still_connected is false and the loop is left.
After(s) == IF s = "client"
              THEN {"readTarget", "forwardDown", "check", "close", "done"}
              ELSE {"check", "close", "done"}

Numbered(s) == \A i \in 1..Len(bytes) : bytes[i].n = read[s] - Len(bytes) + i

\* NothingLost and Unbroken are not inductive: what a send appends depends on the
\* buffer in hand, and the failure of one direction must not be forgotten
\* while the other one is served.
RelayInv ==
    /\ \A s \in Sides : still_connected \/ pc \notin After(s) => Exact(s)
    /\ pc = "forwardUp" => Numbered("client")
    /\ pc = "forwardDown" => Numbered("target")
    /\ Unbroken

\* One direction of one iteration: sending the buffer in hand completes and
\* extends what the other peer has, and leaves the first peer's box alone.
LEMMA SendExtends ==
    ASSUME TypeOK, Unbroken, NEW s \in Sides, NEW out \in Seq(Packet),
           SendBytes(Other(s), out),
           \A j \in 1..Len(out) : out[j].n = Len(outbox[Other(s)]) + j
    PROVE  /\ Unbroken'
           /\ Len(outbox'[Other(s)]) = Len(outbox[Other(s)]) + Len(out)
           /\ outbox'[s] = outbox[s]
<1>1. Other(s) \in Sides /\ Other(s) # s
  BY DEF Sides, Other
<1>2. outbox \in [Sides -> Seq(Packet)]
  BY DEF TypeOK
<1>3. outbox' = [outbox EXCEPT ![Other(s)] = outbox[Other(s)] \o out]
  BY DEF SendBytes
<1>4. outbox'[Other(s)] = outbox[Other(s)] \o out /\ outbox'[s] = outbox[s]
  BY <1>1, <1>2, <1>3
<1>5. \A t \in Sides : DOMAIN outbox[t] = 1..Len(outbox[t])
  BY <1>2
<1>6. /\ Len(outbox[Other(s)] \o out) = Len(outbox[Other(s)]) + Len(out)
      /\ \A i \in 1..Len(outbox[Other(s)] \o out) : (outbox[Other(s)] \o out)[i].n = i
  <2>1. outbox[Other(s)] \in Seq(Packet)
    BY <1>1, <1>2
  <2>2. \A i \in 1..Len(outbox[Other(s)]) : outbox[Other(s)][i].n = i
    BY <1>1, <1>5 DEF Unbroken
  <2> QED BY <2>1, <2>2, AppendInOrder
<1>7. DOMAIN outbox'[Other(s)] = 1..Len(outbox'[Other(s)])
  BY <1>1, <1>2, <1>4
<1>8. \A i \in DOMAIN outbox'[Other(s)] : outbox'[Other(s)][i].n = i
  BY <1>4, <1>6, <1>7
<1>9. \A i \in DOMAIN outbox'[s] : outbox'[s][i].n = i
  BY <1>4 DEF Unbroken
<1>10. \A t \in Sides : t = s \/ t = Other(s)
  BY DEF Sides, Other
<1>11. Unbroken'
  BY <1>8, <1>9, <1>10 DEF Unbroken
<1> QED BY <1>4, <1>6, <1>11

LEMMA RelayInit == Init => RelayInv
BY DEF Init, RelayInv, Unbroken, Exact, InHand, Other, Sides

\* What reading one side puts in hand.
LEMMA ReadExtends ==
    ASSUME TypeOK, NEW s \in Sides, ReceiveBytes(s)
    PROVE  /\ Len(bytes') \in Nat
           /\ read'[s] = read[s] + Len(bytes')
           /\ read'[Other(s)] = read[Other(s)]
           /\ \A i \in 1..Len(bytes') : bytes'[i].n = read'[s] - Len(bytes') + i
<1>1. PICK k \in 0..Arrived(s) : /\ bytes' = NextPackets(s, k)
                                /\ read' = [read EXCEPT ![s] = read[s] + k]
  BY DEF ReceiveBytes
<1>2. Other(s) \in Sides /\ Other(s) # s
  BY DEF Sides, Other
<1>3. read \in [Sides -> Nat] /\ k \in Nat
  BY DEF TypeOK
<1>4. Len(bytes') = k /\ \A i \in 1..k : bytes'[i].n = read[s] + i
  BY <1>1, PacketsTyped
<1>5. read'[s] = read[s] + k /\ read'[Other(s)] = read[Other(s)]
  BY <1>1, <1>2, <1>3
<1> QED BY <1>3, <1>4, <1>5

LEMMA ClosingPipe ==
    ASSUME TypeOK, pipe.closesOnError
    PROVE  pipe.skipsEmptyUp
<1>1. pipe \in AllPipelines /\ pipe.closesOnError
  BY PipelinesAssumption DEF TypeOK
<1> QED
  BY <1>1 DEF AllPipelines, DefaultProxyPipeline, ClickHousePipeline, PassthroughPipeline,
              ClickHouseTLSStartPipeline, ClickHouseTLSTerminatePipeline,
              ClickHouseTLSExchangePipeline

LEMMA ReadClientRelays ==
    ASSUME TypeInv, RelayInv, ReadClient PROVE RelayInv'
<1>1. UNCHANGED <<outbox, config>> /\ pc = "readClient"
  BY DEF ReadClient, Read
<1>2. Exact("client") /\ Exact("target")
  BY <1>1 DEF RelayInv, After, Sides
<1>3. \A s \in Sides : Forwarded(s)' = Forwarded(s)
  BY <1>1 DEF Forwarded, config
<1>4. Unbroken'
  BY <1>1 DEF RelayInv, Unbroken
<1>5. CASE pc' = "forwardUp"
  <2>1. ReceiveBytes("client")
    BY <1>5 DEF ReadClient, Read
  <2>2. /\ read'["client"] = read["client"] + Len(bytes')
        /\ read'["target"] = read["target"]
        /\ \A i \in 1..Len(bytes') : bytes'[i].n = read'["client"] - Len(bytes') + i
    BY <2>1, ReadExtends DEF TypeInv, Sides, Other
  <2>3. Exact("client")' /\ Exact("target")'
    BY <1>1, <1>2, <1>3, <1>5, <2>2 DEF Exact, InHand, Other, Sides
  <2> QED BY <1>4, <1>5, <2>2, <2>3 DEF RelayInv, Numbered, Sides
<1>6. CASE pc' = "readTarget"
  <2>1. UNCHANGED read
    BY <1>6 DEF ReadClient, Read
  <2>2. Exact("client")' /\ Exact("target")'
    BY <1>1, <1>2, <1>3, <1>6, <2>1 DEF Exact, InHand, Other, Sides
  <2> QED BY <1>4, <1>6, <2>2 DEF RelayInv, Sides
<1> QED BY <1>5, <1>6 DEF ReadClient, Read

LEMMA ReadTargetRelays ==
    ASSUME TypeInv, RelayInv, ReadTarget PROVE RelayInv'
<1>1. UNCHANGED <<outbox, config>> /\ pc = "readTarget"
  BY DEF ReadTarget, Read
<1>2. (still_connected => Exact("client")) /\ Exact("target")
  BY <1>1 DEF RelayInv, After, Sides
<1>3. \A s \in Sides : Forwarded(s)' = Forwarded(s)
  BY <1>1 DEF Forwarded, config
<1>4. Unbroken'
  BY <1>1 DEF RelayInv, Unbroken
<1>5. still_connected' => still_connected
  BY DEF ReadTarget, Read, Caught
<1>6. CASE pc' = "forwardDown"
  <2>1. ReceiveBytes("target")
    BY <1>6 DEF ReadTarget, Read
  <2>2. /\ read'["target"] = read["target"] + Len(bytes')
        /\ read'["client"] = read["client"]
        /\ \A i \in 1..Len(bytes') : bytes'[i].n = read'["target"] - Len(bytes') + i
    BY <2>1, ReadExtends DEF TypeInv, Sides, Other
  <2>3. (still_connected' => Exact("client")') /\ Exact("target")'
    BY <1>1, <1>2, <1>3, <1>5, <1>6, <2>2 DEF Exact, InHand, Other, Sides
  <2> QED BY <1>4, <1>6, <2>2, <2>3 DEF RelayInv, Numbered, Sides, After
<1>7. CASE pc' = "check"
  <2>1. UNCHANGED read
    BY <1>7 DEF ReadTarget, Read
  <2>2. (still_connected' => Exact("client")') /\ Exact("target")'
    BY <1>1, <1>2, <1>3, <1>5, <1>7, <2>1 DEF Exact, InHand, Other, Sides
  <2> QED BY <1>4, <1>7, <2>2 DEF RelayInv, Sides, After
<1> QED BY <1>6, <1>7 DEF ReadTarget, Read

LEMMA ForwardUpRelays ==
    ASSUME TypeInv, RelayInv, ForwardUp, pipe.closesOnError
    PROVE  RelayInv'
<1>1. pc = "forwardUp" /\ pc' = "readTarget" /\ UNCHANGED <<config, read>>
  BY DEF ForwardUp
<1>2. Exact("client") /\ Exact("target") /\ Numbered("client") /\ Unbroken
  BY <1>1 DEF RelayInv, After, Sides
<1>3. \A s \in Sides : Forwarded(s)' = Forwarded(s)
  BY <1>1 DEF Forwarded, config
<1>4. pipe.closesOnError /\ pipe.skipsEmptyUp
  BY ClosingPipe DEF TypeInv
<1>5. SUFFICES /\ Unbroken'
               /\ Exact("target")'
               /\ still_connected' => Exact("client")'
  BY <1>1 DEF RelayInv, After, Sides
<1>6. CASE UNCHANGED outbox /\ ~still_connected'
  <2>1. Unbroken'
    BY <1>2, <1>6 DEF Unbroken
  <2>2. Exact("target")'
    BY <1>1, <1>2, <1>3, <1>6 DEF Exact, InHand, Other, Sides
  <2> QED BY <1>6, <2>1, <2>2
<1>7. CASE bytes # <<>> /\ \E r \in UpResults : ~r.throws /\ SendBytes("target", r.out)
  <2>1. PICK r \in UpResults : ~r.throws /\ SendBytes("target", r.out)
    BY <1>7
  <2>2. r \in ResultType /\ SameNumbers(r.out, bytes)
    BY <1>1, <1>7, <2>1, UpResultsTyped DEF TypeInv, HandlerPresent
  <2>3. r.out \in Seq(Packet) /\ Len(r.out) = Len(bytes)
    BY <2>2 DEF ResultType, SameNumbers
  <2>4. Len(outbox["target"]) + Len(bytes) = read["client"]
    BY <1>1, <1>2 DEF Exact, InHand, Forwarded, Other
  <2>5. Len(outbox["target"]) \in Nat /\ Len(bytes) \in Nat /\ read["client"] \in Nat
    BY DEF TypeInv, TypeOK, Sides
  <2>6. \A j \in 1..Len(r.out) : r.out[j].n = Len(outbox["target"]) + j
    BY <1>2, <2>2, <2>3, <2>4, <2>5 DEF SameNumbers, Numbered
  <2>7. /\ Unbroken'
        /\ Len(outbox'["target"]) = Len(outbox["target"]) + Len(r.out)
        /\ outbox'["client"] = outbox["client"]
    BY <1>2, <2>1, <2>3, <2>6, SendExtends DEF TypeInv, Sides, Other
  <2>8. Exact("client")'
    BY <1>1, <2>3, <2>4, <2>5, <2>7 DEF Exact, InHand, Other, TypeInv, TypeOK, Sides
  <2>9. Exact("target")'
    BY <1>1, <1>2, <1>3, <2>7 DEF Exact, InHand, Other, Sides
  <2> QED BY <2>7, <2>8, <2>9
<1> QED BY <1>4, <1>6, <1>7 DEF ForwardUp, Caught, SendThrows

LEMMA ForwardDownRelays ==
    ASSUME TypeInv, RelayInv, ForwardDown, pipe.closesOnError
    PROVE  RelayInv'
<1>1. pc = "forwardDown" /\ pc' = "check" /\ UNCHANGED <<config, read>>
  BY DEF ForwardDown
<1>2. /\ still_connected => Exact("client")
      /\ Exact("target") /\ Numbered("target") /\ Unbroken
  BY <1>1 DEF RelayInv, After, Sides
<1>3. \A s \in Sides : Forwarded(s)' = Forwarded(s)
  BY <1>1 DEF Forwarded, config
<1>4. pipe.closesOnError
  BY ClosingPipe DEF TypeInv
<1>5. SUFFICES /\ Unbroken'
               /\ still_connected' => Exact("client")' /\ Exact("target")'
  BY <1>1 DEF RelayInv, After, Sides
<1>6. CASE UNCHANGED outbox /\ ~still_connected'
  BY <1>2, <1>6 DEF Unbroken
<1>7. CASE /\ still_connected' => still_connected
           /\ \E r \in DownResults : ~r.throws /\ SendBytes("client", r.out)
  <2>1. PICK r \in DownResults : ~r.throws /\ SendBytes("client", r.out)
    BY <1>7
  <2>2. /\ r \in ResultType
        /\ r.out = IF pipe.callsHandler /\ handler = "GzipHandler" THEN <<>> ELSE bytes
    BY <1>1, <2>1, DownResultsTyped DEF TypeInv, HandlerPresent
  <2>3. r.out \in Seq(Packet)
    BY <2>2 DEF ResultType
  <2>4. Len(outbox["client"]) \in Nat /\ Len(bytes) \in Nat /\ read["target"] \in Nat
    BY DEF TypeInv, TypeOK, Sides
  <2>5. Forwarded("target") => /\ r.out = bytes
                               /\ Len(outbox["client"]) + Len(bytes) = read["target"]
    BY <1>1, <1>2, <2>2 DEF Exact, InHand, Forwarded, Other
  <2>6. \A j \in 1..Len(r.out) : r.out[j].n = Len(outbox["client"]) + j
    <3>1. CASE Forwarded("target")
      <4>1. \A j \in 1..Len(bytes) : bytes[j].n = read["target"] - Len(bytes) + j
        BY <1>2 DEF Numbered
      <4>2. read["target"] - Len(bytes) = Len(outbox["client"])
        BY <2>4, <2>5, <3>1
      <4> QED BY <2>5, <3>1, <4>1, <4>2
    <3>2. CASE ~Forwarded("target")
      BY <2>2, <3>2 DEF Forwarded
    <3> QED BY <3>1, <3>2
  <2>7. /\ Unbroken'
        /\ Len(outbox'["client"]) = Len(outbox["client"]) + Len(r.out)
        /\ outbox'["target"] = outbox["target"]
    BY <1>2, <2>1, <2>3, <2>6, SendExtends DEF TypeInv, Sides, Other
  <2>8. Exact("target")'
    <3>1. InHand("target")' = 0 /\ Other("target") = "client"
      BY <1>1 DEF InHand, Other
    <3>2. Forwarded("target") => Len(outbox'["client"]) = read["target"]
      BY <2>5, <2>7
    <3>3. Forwarded("target")' => Forwarded("target")
      BY <1>3 DEF Sides
    <3> QED BY <1>1, <2>4, <3>1, <3>2, <3>3 DEF Exact
  <2>9. still_connected' => Exact("client")'
    BY <1>1, <1>2, <1>3, <1>7, <2>7 DEF Exact, InHand, Other, Sides
  <2> QED BY <2>7, <2>8, <2>9
<1> QED BY <1>4, <1>6, <1>7 DEF ForwardDown, Caught, SendThrows

LEMMA RelayStep ==
    ASSUME TypeInv, RelayInv, [Next]_vars, pipe.closesOnError
    PROVE  RelayInv'
<1> USE DEF RelayInv
<1>before. ASSUME pc = "start" \/ pc = "select", UNCHANGED <<config, read, outbox>>,
                  pc' \in {"select", "readClient", "done", "escaped"}
           PROVE  RelayInv'
  <2>1. \A s \in Sides : Exact(s)
    BY <1>before DEF After
  <2>2. \A s \in Sides : Exact(s)'
    BY <2>1, <1>before DEF Exact, InHand, Forwarded, config
  <2> QED BY <2>2, <1>before DEF Unbroken
<1>peer. ASSUME UNCHANGED <<config, pc, bytes, still_connected, read, outbox>>
         PROVE  RelayInv'
  <2>1. \A s \in Sides : Exact(s)' = Exact(s)
    BY <1>peer DEF Exact, InHand, Forwarded, config
  <2> QED BY <2>1, <1>peer DEF Unbroken, Numbered
<1>1. CASE HandlerMissing
  BY <1>1, <1>before DEF HandlerMissing, sockets
<1>2. CASE ConnectTarget
  BY <1>2, <1>before DEF ConnectTarget
<1>3. CASE ConnectFails
  BY <1>3, <1>before DEF ConnectFails
<1>4. CASE CreateSelect
  BY <1>4, <1>before DEF CreateSelect, sockets
<1>5. CASE SelectFails
  BY <1>5, <1>before DEF SelectFails, sockets
<1>6. CASE ReadClient
  BY <1>6, ReadClientRelays
<1>7. CASE ForwardUp
  BY <1>7, ForwardUpRelays
<1>8. CASE ReadTarget
  BY <1>8, ReadTargetRelays
<1>9. CASE ForwardDown
  BY <1>9, ForwardDownRelays
<1>10. CASE CheckConnected
  <2>1. /\ pc = "check" /\ UNCHANGED <<config, still_connected, read, outbox>>
        /\ (still_connected /\ pc' = "select") \/ (~still_connected /\ pc' = "close")
    BY <1>10 DEF CheckConnected, thread, sockets
  <2>2. still_connected => \A s \in Sides : Exact(s)
    OBVIOUS
  <2>3. still_connected => \A s \in Sides : Exact(s)'
    BY <2>1, <2>2 DEF Exact, InHand, Forwarded, config
  <2> QED BY <2>1, <2>3 DEF After, Unbroken
<1>11. CASE CloseSockets
  <2>1. /\ pc = "close" /\ pc' = "done"
        /\ UNCHANGED <<config, still_connected, read, outbox>>
    BY <1>11 DEF CloseSockets
  <2>2. still_connected => \A s \in Sides : Exact(s)'
    BY <2>1 DEF Exact, InHand, Forwarded, config
  <2> QED BY <2>1, <2>2 DEF After, Unbroken
<1>12. CASE Peers
  BY <1>12, <1>peer DEF Peers, PeerSends, PeerCloses, PeerResets, thread
<1>13. CASE UNCHANGED vars
  BY <1>13, <1>peer DEF vars, config, thread, sockets
<1> QED
  BY <1>1, <1>2, <1>3, <1>4, <1>5, <1>6, <1>7, <1>8, <1>9, <1>10, <1>11, <1>12, <1>13
     DEF Next, Thread, Ended

\* The plugin of a connection never changes, so what holds of those that close
\* on an exception can be carried as an implication.
LEMMA RelayInvariant == Spec => [](TypeInv /\ (pipe.closesOnError => RelayInv))
<1>1. Init => TypeInv /\ RelayInv
  BY TypeInit, RelayInit
<1>2. TypeInv /\ (pipe.closesOnError => RelayInv) /\ [Next]_vars
        => (TypeInv /\ (pipe.closesOnError => RelayInv))'
  <2>1. SUFFICES ASSUME TypeInv, pipe.closesOnError => RelayInv, [Next]_vars
                 PROVE  TypeInv' /\ (pipe.closesOnError => RelayInv)'
    OBVIOUS
  <2>2. TypeInv'
    BY <2>1, TypeStep
  <2>3. pipe' = pipe
    BY <2>1 DEF Next, Thread, Peers, Ended, HandlerMissing, ConnectTarget, ConnectFails,
                CreateSelect, SelectFails, ReadClient, Read, ForwardUp, ReadTarget,
                ForwardDown, CheckConnected, CloseSockets, PeerSends, PeerCloses,
                PeerResets, vars, config
  <2>4. CASE pipe.closesOnError
    BY <2>1, <2>2, <2>4, RelayStep
  <2>5. CASE ~ pipe.closesOnError
    BY <2>2, <2>3, <2>5
  <2> QED BY <2>4, <2>5
<1> QED BY <1>1, <1>2, PTL DEF Spec

\* The plugins that close on a caught exception never let a gap, a repetition
\* or a swap reach a peer, for any number of packets, any cutting of the
\* streams and any handler.
THEOREM RelaysInOrder == Spec => []InOrder
<1>1. (pipe.closesOnError => RelayInv) => InOrder
  BY DEF RelayInv, InOrder
<1> QED BY <1>1, RelayInvariant, PTL

\* The same plugins have forwarded all they read whenever they poll again.
THEOREM RelaysEverything == Spec => []NoLoss
<1>1. TypeInv /\ (pipe.closesOnError => RelayInv) => NoLoss
  <2> SUFFICES ASSUME TypeInv, RelayInv, pc = "select", NEW s \in Sides, Forwarded(s)
               PROVE  Len(outbox[Other(s)]) = read[s]
    BY DEF NoLoss, NothingLost
  <2>1. Exact(s) /\ InHand(s) = 0
    BY DEF RelayInv, After, InHand
  <2>2. Len(outbox[Other(s)]) \in Nat
    BY DEF TypeInv, TypeOK, Sides, Other
  <2> QED BY <2>1, <2>2 DEF Exact
<1> QED BY <1>1, RelayInvariant, PTL

-----------------------------------------------------------------------------
(* What all plugins keep, those that log an exception and go on included.  *)

\* A plugin without correlation ids never has one: its handlers make up no
\* request when the client's stream ends.
Uncorrelated ==
    pipe.correlation = "none" => correlation_id = 0 /\ exec_context.correlation_id = 0

Rising(s) == \A i, j \in 1..Len(outbox[s]) : i < j => outbox[s][i].n < outbox[s][j].n

\* Nothing in the outbox is newer than the packets that are not in hand.
Behind(s) == \A i \in 1..Len(outbox[Other(s)]) : outbox[Other(s)][i].n <= read[s] - InHand(s)

LoggedInv ==
    /\ Uncorrelated
    /\ \A s \in Sides : Rising(s) /\ Behind(s)
    /\ pc = "forwardUp" => Numbered("client")
    /\ pc = "forwardDown" => Numbered("target")
    /\ ~failed => \A s \in Sides : Exact(s)

\* What ForwardUp sends, and when it sends nothing.
LEMMA ForwardUpSends ==
    ASSUME TypeInv, Uncorrelated, ForwardUp
    PROVE  \/ UNCHANGED outbox /\ (~failed' => bytes = <<>>)
           \/ \E out \in Seq(Packet) : /\ outbox' = [outbox EXCEPT !["target"] = @ \o out]
                                       /\ SameNumbers(out, bytes)
<1>1. CASE bytes = <<>> /\ pipe.skipsEmptyUp
  BY <1>1 DEF ForwardUp
<1>2. CASE bytes # <<>> \/ ~pipe.skipsEmptyUp
  <2>1. PICK r \in UpResults :
           \/ Caught /\ UNCHANGED outbox
           \/ ~r.throws /\ SendBytes("target", r.out)
    BY <1>2 DEF ForwardUp, SendThrows
  <2>2. CASE Caught /\ UNCHANGED outbox
    BY <2>2 DEF Caught
  <2>3. CASE ~r.throws /\ SendBytes("target", r.out)
    <3>1. bytes # <<>> \/ UpContext.correlation_id = 0
      <4>1. pipe.skipsEmptyUp \/ pipe.correlation = "none"
        <5>1. pipe \in AllPipelines
          BY PipelinesAssumption DEF TypeInv, TypeOK
        <5> QED
          BY <5>1 DEF AllPipelines, DefaultProxyPipeline, ClickHousePipeline,
                      PassthroughPipeline, ClickHouseTLSStartPipeline,
                      ClickHouseTLSTerminatePipeline, ClickHouseTLSExchangePipeline
      <4> QED BY <1>2, <4>1 DEF Uncorrelated, UpContext, StartsExchange
    <3>2. r \in ResultType /\ SameNumbers(r.out, bytes)
      BY <2>3, <3>1, UpResultsTyped DEF TypeInv, HandlerPresent, ForwardUp
    <3> QED BY <2>3, <3>2 DEF SendBytes, ResultType
  <2> QED BY <2>1, <2>2, <2>3
<1> QED BY <1>1, <1>2

\* What ForwardDown sends, and when it sends nothing.
LEMMA ForwardDownSends ==
    ASSUME TypeInv, ForwardDown
    PROVE  \/ UNCHANGED outbox /\ (~failed' => bytes = <<>>)
           \/ UNCHANGED outbox /\ ~Forwarded("target")
           \/ Forwarded("target") /\ outbox' = [outbox EXCEPT !["client"] = @ \o bytes]
<1>1. CASE bytes = <<>> /\ pipe.skipsEmptyDown
  BY <1>1 DEF ForwardDown
<1>2. CASE bytes # <<>> \/ ~pipe.skipsEmptyDown
  <2>1. PICK r \in DownResults :
           \/ Caught /\ UNCHANGED outbox
           \/ ~r.throws /\ SendBytes("client", r.out)
    BY <1>2 DEF ForwardDown, SendThrows
  <2>2. CASE Caught /\ UNCHANGED outbox
    BY <2>2 DEF Caught
  <2>3. CASE ~r.throws /\ SendBytes("client", r.out)
    <3>1. r.out = IF pipe.callsHandler /\ handler = "GzipHandler" THEN <<>> ELSE bytes
      BY <2>3, DownResultsTyped DEF TypeInv, HandlerPresent, ForwardDown
    <3>2. CASE pipe.callsHandler /\ handler = "GzipHandler"
      <4>1. outbox' = [outbox EXCEPT !["client"] = @ \o <<>>]
        BY <2>3, <3>1, <3>2 DEF SendBytes
      <4>2. outbox["client"] \o <<>> = outbox["client"]
        BY DEF TypeInv, TypeOK, Sides
      <4>3. outbox' = outbox
        BY <4>1, <4>2 DEF TypeInv, TypeOK, Sides
      <4> QED BY <3>2, <4>3 DEF Forwarded
    <3>3. CASE ~(pipe.callsHandler /\ handler = "GzipHandler")
      BY <2>3, <3>1, <3>3 DEF SendBytes, Forwarded
    <3> QED BY <3>2, <3>3
  <2> QED BY <2>1, <2>2, <2>3
<1> QED BY <1>1, <1>2

\* Appending the next packets to a rising stream keeps it rising.
LEMMA AppendRising ==
    ASSUME NEW box \in Seq(Packet), NEW out \in Seq(Packet), NEW m \in Int,
           \A i, j \in 1..Len(box) : i < j => box[i].n < box[j].n,
           \A i \in 1..Len(box) : box[i].n <= m,
           \A i \in 1..Len(out) : out[i].n = m + i
    PROVE  /\ Len(box \o out) = Len(box) + Len(out)
           /\ \A i, j \in 1..Len(box \o out) : i < j => (box \o out)[i].n < (box \o out)[j].n
           /\ \A i \in 1..Len(box \o out) : (box \o out)[i].n <= m + Len(out)
<1> DEFINE all == box \o out
<1>1. Len(all) = Len(box) + Len(out) /\ Len(box) \in Nat /\ Len(out) \in Nat
  OBVIOUS
<1>2. ASSUME NEW i \in 1..Len(all)
      PROVE  IF i <= Len(box) THEN all[i] = box[i]
                              ELSE i - Len(box) \in 1..Len(out) /\ all[i] = out[i - Len(box)]
  BY <1>1
<1> HIDE DEF all
<1>3. \A i \in 1..Len(box) : box[i].n \in Nat
  <2>1. \A i \in 1..Len(box) : box[i] \in Packet
    OBVIOUS
  <2> QED BY <2>1 DEF Packet
<1>4. ASSUME NEW i \in 1..Len(all)
      PROVE  IF i <= Len(box) THEN all[i].n = box[i].n ELSE all[i].n = m + (i - Len(box))
  BY <1>1, <1>2
<1>5. ASSUME NEW i \in 1..Len(all), NEW j \in 1..Len(all), i < j PROVE all[i].n < all[j].n
  <2>1. CASE j <= Len(box)
    BY <1>1, <1>4, <1>5, <2>1
  <2>2. CASE i <= Len(box) /\ ~(j <= Len(box))
    BY <1>1, <1>3, <1>4, <1>5, <2>2
  <2>3. CASE ~(i <= Len(box)) /\ ~(j <= Len(box))
    BY <1>1, <1>4, <1>5, <2>3
  <2> QED BY <1>1, <1>5, <2>1, <2>2, <2>3
<1>6. ASSUME NEW i \in 1..Len(all) PROVE all[i].n <= m + Len(out)
  <2>1. CASE i <= Len(box)
    BY <1>1, <1>3, <1>4, <2>1
  <2>2. CASE ~(i <= Len(box))
    BY <1>1, <1>4, <2>2
  <2> QED BY <2>1, <2>2
<1> QED BY <1>1, <1>5, <1>6 DEF all

LEMMA LoggedInit == Init => LoggedInv
BY DEF Init, LoggedInv, Uncorrelated, Rising, Behind, Exact, InHand, Other, Sides, EmptyContext

\* The end of either direction: what was in hand is sent, or dropped and, if it
\* should have been sent, an exception is on record.
LEMMA HandedOn ==
    ASSUME TypeInv, LoggedInv, NEW s \in Sides,
           pc = IF s = "client" THEN "forwardUp" ELSE "forwardDown",
           pc' \in {"readTarget", "check"},
           UNCHANGED <<config, read>>, Uncorrelated', failed => failed', Numbered(s),
           \/ UNCHANGED outbox /\ (~failed' => bytes = <<>> \/ ~Forwarded(s))
           \/ \E out \in Seq(Packet) : /\ outbox' = [outbox EXCEPT ![Other(s)] = @ \o out]
                                       /\ SameNumbers(out, bytes)
    PROVE  LoggedInv'
<1> DEFINE t == Other(s)
<1>1. t \in Sides /\ t # s /\ Other(t) = s /\ \A x \in Sides : x = s \/ x = t
  BY DEF Sides, Other
<1>2. /\ InHand(s) = Len(bytes) /\ InHand(t) = 0
      /\ \A x \in Sides : InHand(x)' = 0 /\ Forwarded(x)' = Forwarded(x)
  BY DEF InHand, Sides, Other, Forwarded, config
<1>3. /\ \A x \in Sides : outbox[x] \in Seq(Packet) /\ read[x] \in Nat
      /\ bytes \in Seq(Packet) /\ Len(bytes) \in Nat
  BY DEF TypeInv, TypeOK
<1>4. \A x \in Sides : Rising(x) /\ Behind(x)
  BY DEF LoggedInv
<1> HIDE DEF t
<1>5. CASE UNCHANGED outbox /\ (~failed' => bytes = <<>> \/ ~Forwarded(s))
  <2>1. \A x \in Sides : Rising(x)'
    BY <1>4, <1>5 DEF Rising
  <2>2. Behind(t)'
    BY <1>1, <1>2, <1>4, <1>5 DEF Behind
  <2>3. Behind(s)'
    <3>1. \A i \in 1..Len(outbox[t]) : outbox[t][i].n <= read[s] - Len(bytes)
      BY <1>1, <1>2, <1>4 DEF Behind, t
    <3>2. \A i \in 1..Len(outbox[t]) : outbox[t][i] \in Packet
      BY <1>1, <1>3
    <3>3. \A i \in 1..Len(outbox[t]) : outbox[t][i].n \in Nat
      BY <3>2 DEF Packet
    <3>4. \A i \in 1..Len(outbox[t]) : outbox[t][i].n <= read[s] - 0
      BY <1>3, <3>1, <3>3
    <3> QED BY <1>1, <1>2, <1>5, <3>4 DEF Behind, t
  <2>4. ~failed' => \A x \in Sides : Exact(x)'
    <3>1. ~failed' => Exact(s) /\ Exact(t)
      BY <1>1 DEF LoggedInv
    <3>2. ~failed' => Exact(t)'
      BY <1>1, <1>2, <1>5, <3>1 DEF Exact
    <3>3. ~failed' => Exact(s)'
      <4>1. CASE bytes = <<>>
        BY <1>1, <1>2, <1>5, <3>1, <4>1 DEF Exact
      <4>2. CASE ~Forwarded(s)
        BY <1>2, <4>2 DEF Exact
      <4> QED BY <1>5, <4>1, <4>2
    <3> QED BY <1>1, <3>2, <3>3
  <2> QED BY <1>1, <2>1, <2>2, <2>3, <2>4 DEF LoggedInv
<1>6. ASSUME NEW out \in Seq(Packet), outbox' = [outbox EXCEPT ![Other(s)] = @ \o out],
             SameNumbers(out, bytes)
      PROVE  LoggedInv'
  <2>1. outbox'[t] = outbox[t] \o out /\ outbox'[s] = outbox[s]
    BY <1>1, <1>6 DEF TypeInv, TypeOK, t
  <2>2. /\ \A i \in 1..Len(out) : out[i].n = (read[s] - Len(bytes)) + i
        /\ Len(out) = Len(bytes)
    BY <1>6 DEF SameNumbers, Numbered
  <2>3. /\ \A i, j \in 1..Len(outbox[t]) : i < j => outbox[t][i].n < outbox[t][j].n
        /\ \A i \in 1..Len(outbox[t]) : outbox[t][i].n <= read[s] - Len(bytes)
    BY <1>1, <1>2, <1>4 DEF Rising, Behind, t
  <2>4. read[s] - Len(bytes) \in Int /\ (read[s] - Len(bytes)) + Len(out) = read[s]
    BY <1>3, <2>2
  <2>5. /\ Len(outbox'[t]) = Len(outbox[t]) + Len(out)
        /\ \A i, j \in 1..Len(outbox'[t]) : i < j => outbox'[t][i].n < outbox'[t][j].n
        /\ \A i \in 1..Len(outbox'[t]) : outbox'[t][i].n <= read[s]
    <3> DEFINE box == outbox[t]
               m == read[s] - Len(bytes)
    <3>1. /\ box \in Seq(Packet) /\ m \in Int /\ m + Len(out) = read[s]
          /\ \A i, j \in 1..Len(box) : i < j => box[i].n < box[j].n
          /\ \A i \in 1..Len(box) : box[i].n <= m
          /\ \A i \in 1..Len(out) : out[i].n = m + i
      BY <1>1, <1>3, <2>2, <2>3, <2>4
    <3>2. outbox'[t] = box \o out
      BY <2>1
    <3> HIDE DEF box, m
    <3>3. /\ Len(box \o out) = Len(box) + Len(out)
          /\ \A i, j \in 1..Len(box \o out) : i < j => (box \o out)[i].n < (box \o out)[j].n
          /\ \A i \in 1..Len(box \o out) : (box \o out)[i].n <= m + Len(out)
      BY <3>1, AppendRising
    <3> QED BY <3>1, <3>2, <3>3 DEF box
  <2>6. \A x \in Sides : Rising(x)'
    BY <1>1, <1>4, <2>1, <2>5 DEF Rising
  <2>7. Behind(s)' /\ Behind(t)'
    BY <1>1, <1>2, <1>3, <1>4, <2>1, <2>5 DEF Behind, t
  <2>8. ~failed' => \A x \in Sides : Exact(x)'
    <3>1. ~failed' => Exact(s) /\ Exact(t)
      BY <1>1 DEF LoggedInv
    <3>2. ~failed' => Exact(t)'
      BY <1>1, <1>2, <2>1, <3>1 DEF Exact
    <3>3. ~failed' => Exact(s)'
      BY <1>1, <1>2, <1>3, <2>2, <2>5, <3>1 DEF Exact, t
    <3> QED BY <1>1, <3>2, <3>3
  <2> QED BY <1>1, <2>6, <2>7, <2>8 DEF LoggedInv
<1> QED BY <1>5, <1>6

\* A read puts the next packets of one side in hand.
LEMMA TakenInHand ==
    ASSUME TypeInv, LoggedInv, NEW s \in Sides, ReceiveBytes(s),
           pc \notin {"forwardUp", "forwardDown"},
           pc' = IF s = "client" THEN "forwardUp" ELSE "forwardDown",
           UNCHANGED <<config, failed, outbox, correlation_id, exec_context>>
    PROVE  LoggedInv'
<1> DEFINE t == Other(s)
<1>1. t \in Sides /\ t # s /\ Other(t) = s /\ \A x \in Sides : x = s \/ x = t
  BY DEF Sides, Other
<1>2. /\ Len(bytes') \in Nat /\ read'[s] = read[s] + Len(bytes')
      /\ read'[t] = read[t] /\ read[s] \in Nat
      /\ \A i \in 1..Len(bytes') : bytes'[i].n = read'[s] - Len(bytes') + i
  BY ReadExtends DEF TypeInv, TypeOK
<1>3. /\ InHand(s)' = Len(bytes') /\ InHand(t)' = 0
      /\ \A x \in Sides : InHand(x) = 0 /\ Forwarded(x)' = Forwarded(x)
  BY DEF InHand, Sides, Other, Forwarded, config
<1> HIDE DEF t
<1>4. \A x \in Sides : Rising(x)'
  BY DEF LoggedInv, Rising
<1>5. Behind(s)' /\ Behind(t)'
  <2>1. read'[s] - InHand(s)' = read[s] - 0 /\ read'[t] - InHand(t)' = read[t] - 0
    BY <1>2, <1>3
  <2> QED BY <1>1, <1>3, <2>1 DEF LoggedInv, Behind
<1>6. ~failed' => Exact(s)' /\ Exact(t)'
  <2>1. ~failed => Exact(s) /\ Exact(t)
    BY <1>1 DEF LoggedInv
  <2>2. \A x \in Sides : Len(outbox[x]) \in Nat
    BY DEF TypeInv, TypeOK
  <2>3. ~failed => Exact(s)'
    BY <1>1, <1>2, <1>3, <2>1, <2>2 DEF Exact, t
  <2>4. ~failed => Exact(t)'
    BY <1>1, <1>2, <1>3, <2>1, <2>2 DEF Exact
  <2> QED BY <2>3, <2>4
<1>7. Uncorrelated'
  BY DEF LoggedInv, Uncorrelated, config
<1>8. Numbered(s)'
  BY <1>2 DEF Numbered
<1> QED BY <1>1, <1>4, <1>5, <1>6, <1>7, <1>8 DEF LoggedInv, Sides

LEMMA LoggedStep == ASSUME TypeInv, LoggedInv, [Next]_vars PROVE LoggedInv'
<1>aside. ASSUME UNCHANGED <<config, read, outbox>>, Uncorrelated', failed => failed',
                 pc \notin {"forwardUp", "forwardDown"},
                 pc' \notin {"forwardUp", "forwardDown"}
          PROVE  LoggedInv'
  <2>1. \A s \in Sides : InHand(s) = 0 /\ InHand(s)' = 0
    BY <1>aside DEF InHand
  <2>2. \A s \in Sides : Exact(s)' = Exact(s)
    BY <1>aside, <2>1 DEF Exact, Forwarded, config
  <2>3. \A s \in Sides : Rising(s)' /\ Behind(s)'
    BY <1>aside, <2>1 DEF LoggedInv, Rising, Behind
  <2> QED BY <1>aside, <2>2, <2>3 DEF LoggedInv
<1>peer. ASSUME UNCHANGED <<config, pc, bytes, failed, correlation_id, exec_context, read, outbox>>
         PROVE  LoggedInv'
  <2>1. \A s \in Sides : Exact(s)' = Exact(s) /\ Rising(s)' = Rising(s) /\ Behind(s)' = Behind(s)
    BY <1>peer DEF Exact, Rising, Behind, InHand, Forwarded, config
  <2> QED BY <1>peer, <2>1 DEF LoggedInv, Uncorrelated, Numbered, config
<1>0. Uncorrelated
  BY DEF LoggedInv
<1>1. CASE HandlerMissing \/ CheckConnected \/ ConnectFails \/ CreateSelect \/ SelectFails
           \/ CloseSockets
  BY <1>0, <1>1, <1>aside DEF HandlerMissing, CheckConnected, ConnectFails, CreateSelect,
        SelectFails, CloseSockets, Uncorrelated, config, thread, sockets
<1>2. CASE ConnectTarget
  <2>1. exec_context \in ContextType
    BY DEF TypeInv, TypeOK
  <2>2. Uncorrelated'
    <3>1. exec_context'.correlation_id = correlation_id /\ UNCHANGED <<config, correlation_id>>
      BY <1>2, <2>1 DEF ConnectTarget, ContextType
    <3> QED BY <1>0, <3>1 DEF Uncorrelated, config
  <2> QED BY <1>2, <1>aside, <2>2 DEF ConnectTarget
<1>3. ASSUME NEW s \in Sides, NEW forward, NEW next, Read(s, forward, next),
             pc \in {"readClient", "readTarget"}, next \in {"readTarget", "check"},
             forward = IF s = "client" THEN "forwardUp" ELSE "forwardDown"
      PROVE  LoggedInv'
  <2>1. UNCHANGED <<config, outbox, correlation_id, exec_context>> /\ Uncorrelated'
    BY <1>0, <1>3 DEF Read, Uncorrelated, config
  <2>2. CASE ReceiveBytes(s) /\ pc' = forward /\ UNCHANGED failed
    BY <1>3, <2>1, <2>2, TakenInHand
  <2>3. CASE pc' = next /\ UNCHANGED read /\ (failed => failed')
    BY <1>3, <1>aside, <2>1, <2>3
  <2> QED BY <1>3, <2>2, <2>3 DEF Read, Caught
<1>4. CASE ReadClient
  BY <1>3, <1>4 DEF ReadClient, Sides
<1>5. CASE ReadTarget
  BY <1>3, <1>5 DEF ReadTarget, Sides
<1>6. CASE ForwardUp
  <2>1. /\ pc = "forwardUp" /\ pc' = "readTarget" /\ UNCHANGED <<config, read>>
        /\ failed => failed'
    BY <1>6 DEF ForwardUp, Caught
  <2>2. Uncorrelated'
    <3>1. pipe.correlation = "none" => correlation_id' = correlation_id
      <4>1. correlation_id \in Nat
        BY DEF TypeInv, TypeOK
      <4> QED BY <1>6, <4>1 DEF ForwardUp, StartsExchange
    <3>2. pipe.correlation = "none" =>
             exec_context'.correlation_id = exec_context.correlation_id
      BY <1>6, UpResultsTyped DEF ForwardUp, TypeInv, HandlerPresent
    <3> QED BY <1>0, <2>1, <3>1, <3>2 DEF Uncorrelated, config
  <2>3. Numbered("client")
    BY <2>1 DEF LoggedInv
  <2> QED BY <1>0, <1>6, <2>1, <2>2, <2>3, ForwardUpSends, HandedOn DEF Sides, Other
<1>7. CASE ForwardDown
  <2>1. /\ pc = "forwardDown" /\ pc' = "check" /\ UNCHANGED <<config, read, correlation_id>>
        /\ failed => failed'
    BY <1>7 DEF ForwardDown, Caught
  <2>2. Uncorrelated'
    <3>1. exec_context'.correlation_id = exec_context.correlation_id
      BY <1>7, DownResultsTyped DEF ForwardDown, TypeInv, HandlerPresent
    <3> QED BY <1>0, <2>1, <3>1 DEF Uncorrelated, config
  <2>3. Numbered("target")
    BY <2>1 DEF LoggedInv
  <2>4. bytes \in Seq(Packet) /\ SameNumbers(bytes, bytes)
    BY DEF TypeInv, TypeOK, SameNumbers
  <2> QED BY <1>7, <2>1, <2>2, <2>3, <2>4, ForwardDownSends, HandedOn DEF Sides, Other
<1>8. CASE Peers
  BY <1>8, <1>peer DEF Peers, PeerSends, PeerCloses, PeerResets, thread
<1>9. CASE UNCHANGED vars
  BY <1>9, <1>peer DEF vars, config, thread, sockets
<1> QED BY <1>1, <1>2, <1>4, <1>5, <1>6, <1>7, <1>8, <1>9 DEF Next, Thread, Ended

LEMMA LoggedInvariant == Spec => [](TypeInv /\ LoggedInv)
<1>1. Init => TypeInv /\ LoggedInv
  BY TypeInit, LoggedInit
<1>2. TypeInv /\ LoggedInv /\ [Next]_vars => (TypeInv /\ LoggedInv)'
  BY TypeStep, LoggedStep
<1> QED BY <1>1, <1>2, PTL DEF Spec

\* No plugin repeats or reorders what it forwards, not even one that drops a
\* buffer, logs the exception and goes on.
THEOREM NeverRepeats == Spec => []NoRepeat
<1>1. TypeInv /\ LoggedInv => NoRepeat
  <2> SUFFICES ASSUME TypeInv, LoggedInv, NEW s \in Sides,
                      NEW i \in DOMAIN outbox[s], NEW j \in DOMAIN outbox[s], i < j
               PROVE  outbox[s][i].n < outbox[s][j].n
    BY DEF NoRepeat
  <2>1. DOMAIN outbox[s] = 1..Len(outbox[s])
    BY DEF TypeInv, TypeOK
  <2> QED BY <2>1 DEF LoggedInv, Rising
<1> QED BY <1>1, LoggedInvariant, PTL

\* In every plugin, bytes that were read and not sent on have an exception on
\* record: no path through the loop loses them silently.
THEOREM LossesAreLogged == Spec => []LossIsLogged
<1>1. TypeInv /\ LoggedInv => LossIsLogged
  <2> SUFFICES ASSUME TypeInv, LoggedInv, ~failed, pc = "select", NEW s \in Sides, Forwarded(s)
               PROVE  Len(outbox[Other(s)]) = read[s]
    BY DEF LossIsLogged, NothingLost
  <2>1. Exact(s) /\ InHand(s) = 0
    BY DEF LoggedInv, InHand
  <2>2. Len(outbox[Other(s)]) \in Nat
    BY DEF TypeInv, TypeOK, Sides, Other
  <2> QED BY <2>1, <2>2 DEF Exact
<1> QED BY <1>1, LoggedInvariant, PTL

-----------------------------------------------------------------------------
(* Why a connection is given up.                                           *)

\* The peer has reset the connection, or closed its end and all it sent is read.
Gone(s) == link[s] = "rst" \/ (link[s] = "fin" /\ read[s] = Len(sent[s]))

\* The loop's verdict has a reason, also while the other direction is served,
\* and the loop is left by its verdict only.
DrainInv ==
    /\ \A s \in Sides : read[s] <= Len(sent[s])
    /\ pc = "forwardUp" /\ bytes = <<>> => Gone("client")
    /\ pc = "forwardDown" /\ bytes = <<>> => Gone("target")
    /\ ~still_connected => failed \/ \E s \in Sides : Gone(s)
    /\ pc \in {"close", "done"} /\ handler # NoHandler => failed \/ ~still_connected

\* A read stays within what was sent and returns nothing only when the peer
\* is gone; who is gone stays so.
LEMMA ReadBounded ==
    ASSUME TypeOK, NEW s \in Sides, ReceiveBytes(s), UNCHANGED <<link, sent>>,
           \A t \in Sides : read[t] <= Len(sent[t])
    PROVE  /\ \A t \in Sides : read'[t] <= Len(sent'[t])
           /\ bytes' = <<>> => Gone(s)'
           /\ \A t \in Sides : Gone(t) => Gone(t)'
<1>1. PICK k \in 0..Arrived(s) :
         /\ IF k = 0 THEN link[s] = "rst" \/ (link[s] = "fin" /\ Arrived(s) = 0)
                     ELSE link[s] # "rst"
         /\ bytes' = NextPackets(s, k)
         /\ read' = [read EXCEPT ![s] = @ + k]
  BY DEF ReceiveBytes
<1>2. /\ read \in [Sides -> Nat] /\ \A t \in Sides : Len(sent[t]) \in Nat
  BY DEF TypeOK
<1>3. k \in Nat /\ k <= Len(sent[s]) - read[s]
  BY <1>1, <1>2 DEF Arrived
<1>4. read'[s] = read[s] + k /\ \A t \in Sides : t # s => read'[t] = read[t]
  BY <1>1, <1>2
<1>5. \A t \in Sides : read'[t] <= Len(sent'[t]) /\ read[t] <= read'[t]
  BY <1>2, <1>3, <1>4
<1>6. bytes' = <<>> => k = 0
  BY <1>1, <1>3, PacketsTyped
<1>7. k = 0 => Gone(s)'
  BY <1>1, <1>2, <1>4 DEF Gone, Arrived
<1>8. ASSUME NEW t \in Sides, Gone(t) PROVE Gone(t)'
  <2>1. CASE link[t] = "rst"
    BY <2>1 DEF Gone
  <2>2. CASE link[t] = "fin" /\ read[t] = Len(sent[t])
    BY <1>2, <1>4, <1>5, <2>2 DEF Gone
  <2> QED BY <1>8, <2>1, <2>2 DEF Gone
<1> QED BY <1>5, <1>6, <1>7, <1>8

LEMMA DrainInit == Init => DrainInv
BY DEF Init, DrainInv

LEMMA DrainStep == ASSUME TypeInv, DrainInv, [Next]_vars PROVE DrainInv'
<1>aside. ASSUME UNCHANGED <<link, sent, read, still_connected, handler>>, failed => failed',
                 pc' \notin {"forwardUp", "forwardDown"},
                 pc' \in {"close", "done"} /\ handler # NoHandler => failed' \/ ~still_connected
          PROVE  DrainInv'
  BY <1>aside DEF DrainInv, Gone
<1>1. CASE HandlerMissing
  BY <1>1, <1>aside DEF HandlerMissing, thread, sockets, config
<1>2. CASE ConnectTarget \/ ConnectFails
  BY <1>2, <1>aside DEF ConnectTarget, ConnectFails, config
<1>3. CASE CheckConnected
  BY <1>3, <1>aside DEF CheckConnected, thread, sockets, config
<1>4. CASE CloseSockets
  <2>1. handler # NoHandler => failed \/ ~still_connected
    BY <1>4 DEF CloseSockets, DrainInv
  <2> QED BY <1>4, <1>aside, <2>1 DEF CloseSockets, config
<1>5. CASE SelectFails
  BY <1>5, <1>aside DEF SelectFails, sockets, config
<1>6. CASE CreateSelect
  BY <1>6 DEF CreateSelect, DrainInv, sockets
<1>7. ASSUME NEW s \in Sides, NEW forward, NEW next, Read(s, forward, next),
             next \in {"readTarget", "check"},
             forward = IF s = "client" THEN "forwardUp" ELSE "forwardDown"
      PROVE  DrainInv'
  <2>1. UNCHANGED <<link, sent, handler>>
    BY <1>7 DEF Read, config
  <2>2. CASE ReceiveBytes(s) /\ pc' = forward /\ UNCHANGED <<still_connected, failed>>
    <3>1. /\ \A t \in Sides : read'[t] <= Len(sent'[t])
          /\ bytes' = <<>> => Gone(s)'
          /\ \A t \in Sides : Gone(t) => Gone(t)'
      BY <2>1, <2>2, ReadBounded DEF TypeInv, DrainInv
    <3>2. ~still_connected' => failed' \/ \E t \in Sides : Gone(t)'
      BY <2>2, <3>1 DEF DrainInv
    <3> QED BY <1>7, <2>2, <3>1, <3>2 DEF DrainInv, Sides
  <2>3. CASE pc' = next /\ UNCHANGED <<read, still_connected, failed>>
    BY <1>7, <1>aside, <2>1, <2>3
  <2>4. CASE pc' = next /\ UNCHANGED read /\ Caught
    BY <1>7, <2>1, <2>4 DEF DrainInv, Caught
  <2> QED BY <1>7, <2>2, <2>3, <2>4 DEF Read
<1>8. CASE ReadClient \/ ReadTarget
  BY <1>7, <1>8 DEF ReadClient, ReadTarget, Sides
<1>9. ASSUME NEW s \in Sides, bytes = <<>> => Gone(s),
             UNCHANGED <<sent, read>>, pc' \in {"readTarget", "check"},
             \A t \in Sides : link'[t] = link[t] \/ link'[t] = "rst",
             failed' \/ (~still_connected' => bytes = <<>> \/ (~still_connected /\ ~failed))
      PROVE  DrainInv'
  <2>1. \A t \in Sides : Gone(t) => Gone(t)'
    BY <1>9 DEF Gone
  <2> QED BY <1>9, <2>1 DEF DrainInv
<1>10. CASE ForwardUp
  <2>1. bytes = <<>> => Gone("client")
    BY <1>10 DEF ForwardUp, DrainInv
  <2>2. /\ UNCHANGED <<sent, read>> /\ pc' = "readTarget"
        /\ \A t \in Sides : link'[t] = link[t] \/ link'[t] = "rst"
    BY <1>10 DEF ForwardUp, SendBytes, SendThrows, TypeInv, TypeOK
  <2>3. failed' \/ (~still_connected' => bytes = <<>> \/ (~still_connected /\ ~failed))
    BY <1>10 DEF ForwardUp, Caught, TypeInv, TypeOK
  <2> QED BY <1>9, <2>1, <2>2, <2>3 DEF Sides
<1>11. CASE ForwardDown
  <2>1. bytes = <<>> => Gone("target")
    BY <1>11 DEF ForwardDown, DrainInv
  <2>2. /\ UNCHANGED <<sent, read>> /\ pc' = "check"
        /\ \A t \in Sides : link'[t] = link[t] \/ link'[t] = "rst"
    BY <1>11 DEF ForwardDown, SendBytes, SendThrows, TypeInv, TypeOK
  <2>3. failed' \/ (~still_connected' => bytes = <<>> \/ (~still_connected /\ ~failed))
    BY <1>11 DEF ForwardDown, Caught, TypeInv, TypeOK
  <2> QED BY <1>9, <2>1, <2>2, <2>3 DEF Sides
<1>12. ASSUME NEW s \in Sides, PeerSends(s) \/ PeerCloses(s) \/ PeerResets(s) PROVE DrainInv'
  <2>1. UNCHANGED <<handler, pc, bytes, still_connected, failed, read>>
    BY <1>12 DEF PeerSends, PeerCloses, PeerResets, config, thread
  <2>2. \A t \in Sides : read'[t] <= Len(sent'[t]) /\ (Gone(t) => Gone(t)')
    <3>1. CASE PeerSends(s)
      <4>1. /\ link[s] = "up" /\ UNCHANGED link
            /\ \A t \in Sides : t # s => sent'[t] = sent[t]
            /\ Len(sent'[s]) = Len(sent[s]) + 1
        BY <3>1 DEF PeerSends, TypeInv, TypeOK
      <4>2. Len(sent[s]) \in Nat /\ read[s] \in Nat
        BY DEF TypeInv, TypeOK
      <4> QED BY <2>1, <4>1, <4>2 DEF DrainInv, Gone
    <3>2. CASE PeerCloses(s) \/ PeerResets(s)
      BY <2>1, <3>2 DEF PeerCloses, PeerResets, DrainInv, Gone, TypeInv, TypeOK
    <3> QED BY <1>12, <3>1, <3>2
  <2> QED BY <2>1, <2>2 DEF DrainInv, Sides
<1>13. CASE UNCHANGED vars
  BY <1>13 DEF vars, config, thread, sockets, DrainInv, Gone
<1> QED BY <1>1, <1>2, <1>3, <1>4, <1>5, <1>6, <1>8, <1>10, <1>11, <1>12, <1>13
        DEF Next, Thread, Peers, Ended

\* Every plugin gives a connection up without an exception only when a peer is
\* gone, and all that one sent before it closed its end has been forwarded.
THEOREM CleanClose == Spec => []DrainedOnCleanClose
<1>1. Init => DrainInv
  BY DrainInit
<1>2. TypeInv /\ LoggedInv /\ DrainInv => DrainedOnCleanClose
  <2> SUFFICES ASSUME TypeInv, LoggedInv, DrainInv, pc = "done", handler # NoHandler, ~failed
               PROVE  \E s \in Sides :
                         \/ link[s] = "rst"
                         \/ /\ link[s] = "fin" /\ read[s] = Len(sent[s])
                            /\ Forwarded(s) => Len(outbox[Other(s)]) = Len(sent[s])
    BY DEF DrainedOnCleanClose
  <2>1. PICK s \in Sides : Gone(s)
    BY DEF DrainInv
  <2>2. Exact(s) /\ InHand(s) = 0
    BY DEF LoggedInv, InHand
  <2>3. Len(outbox[Other(s)]) \in Nat
    BY DEF TypeInv, TypeOK, Sides, Other
  <2> QED BY <2>1, <2>2, <2>3 DEF Gone, Exact
<1>3. TypeInv /\ DrainInv /\ [Next]_vars => DrainInv'
  BY DrainStep
<1> QED BY <1>1, <1>2, <1>3, LoggedInvariant, PTL DEF Spec

-----------------------------------------------------------------------------
(* The latency log.                                                        *)

\* The ids 1, 2, ... n, each once and in order.
UpTo(n) == [i \in 1..n |-> i]

LEMMA AppendUpTo == ASSUME NEW n \in Nat PROVE Append(UpTo(n), n + 1) = UpTo(n + 1)
<1>1. UpTo(n) \in Seq(Nat) /\ Len(UpTo(n)) = n /\ \A i \in 1..n : UpTo(n)[i] = i
  BY DEF UpTo
<1> DEFINE more == Append(UpTo(n), n + 1)
<1>2. /\ more \in Seq(Nat) /\ Len(more) = n + 1 /\ more[n + 1] = n + 1
      /\ \A i \in 1..n : more[i] = i
  BY <1>1
<1> HIDE DEF more
<1>3. DOMAIN more = 1..(n + 1) /\ \A i \in 1..(n + 1) : more[i] = i
  BY <1>2
<1>4. more = [i \in 1..(n + 1) |-> more[i]]
  BY <1>2, <1>3
<1>5. more = [i \in 1..(n + 1) |-> i]
  BY <1>3, <1>4
<1> QED BY <1>5 DEF UpTo, more

\* All ids are logged but the one whose exchange is open.
Logged ==
    /\ data_sent => correlation_id > 0
    /\ latency = UpTo(IF data_sent THEN correlation_id - 1 ELSE correlation_id)

\* An exception on the way up leaves an id that is never logged: the account
\* is right as long as none was caught, and in the plugins that close on one
\* until the iteration that caught it.
LatencyInv ==
    /\ pipe.correlation = "exchange"
    /\ \/ ~failed
       \/ pipe.closesOnError /\ (still_connected \/ pc \notin After("client") \cup {"done"})
    => Logged

LEMMA LatencyStep == ASSUME TypeInv, LatencyInv, [Next]_vars PROVE LatencyInv'
<1>aside. ASSUME UNCHANGED <<config, data_sent, correlation_id, latency>>, failed => failed',
                 \/ still_connected' => still_connected
                 \/ pc \in {"start", "select", "readClient", "forwardUp"},
                 \/ pc \in {"start", "select", "readClient", "forwardUp"}
                 \/ pc' \in After("client")
                 \/ still_connected
          PROVE  LatencyInv'
  BY <1>aside DEF LatencyInv, Logged, After, config
<1>1. CASE HandlerMissing \/ ConnectTarget \/ ConnectFails \/ CreateSelect \/ SelectFails
  BY <1>1, <1>aside DEF HandlerMissing, ConnectTarget, ConnectFails, CreateSelect, SelectFails,
        config, thread
<1>2. CASE ReadClient
  <2>1. failed => failed'
    BY <1>2 DEF ReadClient, Read, Caught
  <2> QED BY <1>2, <1>aside, <2>1 DEF ReadClient, Read
<1>3. CASE ReadTarget
  <2>1. failed => failed'
    BY <1>3 DEF ReadTarget, Read, Caught
  <2>2. still_connected' => still_connected
    BY <1>3 DEF ReadTarget, Read, Caught
  <2> QED BY <1>3, <1>aside, <2>1, <2>2 DEF ReadTarget, Read, After
<1>4. CASE CheckConnected
  BY <1>4, <1>aside DEF CheckConnected, thread, After
<1>5. CASE CloseSockets
  BY <1>5 DEF CloseSockets, LatencyInv, Logged, After, config
<1>6. CASE ForwardUp
  <2>0. /\ pc = "forwardUp" /\ pc' = "readTarget" /\ UNCHANGED <<config, latency>>
        /\ correlation_id \in Nat /\ data_sent \in BOOLEAN
    BY <1>6 DEF ForwardUp, TypeInv, TypeOK
  <2>1. CASE UNCHANGED <<data_sent, correlation_id, failed>> /\ ~still_connected'
    BY <2>0, <2>1 DEF LatencyInv, Logged, After, config
  <2>2. CASE Caught
    BY <2>0, <2>2 DEF LatencyInv, Caught, After, config
  <2>3. CASE /\ correlation_id' = correlation_id + (IF StartsExchange THEN 1 ELSE 0)
             /\ data_sent' = (pipe.correlation = "exchange")
             /\ UNCHANGED failed
    <3> SUFFICES ASSUME pipe.correlation = "exchange", Logged PROVE Logged'
      BY <2>0, <2>3 DEF LatencyInv, After, config
    <3>1. data_sent' = TRUE
      BY <2>3
    <3>2. CASE data_sent
      BY <2>0, <2>3, <3>1, <3>2 DEF Logged, StartsExchange
    <3>3. CASE ~data_sent
      <4>1. correlation_id' = correlation_id + 1
        BY <2>3, <3>3 DEF StartsExchange
      <4>2. latency = UpTo(correlation_id)
        BY <3>3 DEF Logged
      <4>3. correlation_id' - 1 = correlation_id /\ correlation_id' > 0
        BY <2>0, <4>1
      <4> QED BY <2>0, <3>1, <4>2, <4>3 DEF Logged
    <3> QED BY <3>2, <3>3
  <2> QED BY <1>6, <2>1, <2>2, <2>3 DEF ForwardUp
<1>7. CASE ForwardDown
  <2>0. /\ pc = "forwardDown" /\ pc' = "check" /\ UNCHANGED <<config, correlation_id>>
        /\ correlation_id \in Nat /\ data_sent \in BOOLEAN
    BY <1>7 DEF ForwardDown, TypeInv, TypeOK
  <2>1. failed => failed'
    BY <1>7 DEF ForwardDown, Caught
  <2>2. still_connected' => still_connected
    BY <1>7 DEF ForwardDown, Caught
  <2>3. Logged => Logged'
    <3>1. CASE UNCHANGED <<data_sent, latency>>
      BY <2>0, <3>1 DEF Logged
    <3>2. CASE LogLatency
      <4>1. CASE data_sent
        <5> SUFFICES ASSUME Logged PROVE Logged'
          OBVIOUS
        <5>1. correlation_id - 1 \in Nat /\ (correlation_id - 1) + 1 = correlation_id
          BY <2>0, <4>1 DEF Logged
        <5>2. latency = UpTo(correlation_id - 1)
          BY <4>1 DEF Logged
        <5>3. latency' = UpTo(correlation_id)
          BY <3>2, <4>1, <5>1, <5>2, AppendUpTo DEF LogLatency
        <5> QED BY <2>0, <3>2, <5>3 DEF Logged, LogLatency
      <4>2. CASE ~data_sent
        BY <2>0, <3>2, <4>2 DEF Logged, LogLatency
      <4> QED BY <4>1, <4>2
    <3> QED BY <1>7, <3>1, <3>2 DEF ForwardDown
  <2> QED BY <2>0, <2>1, <2>2, <2>3 DEF LatencyInv, After, config
<1>8. CASE Peers
  BY <1>8 DEF Peers, PeerSends, PeerCloses, PeerResets, thread, config, LatencyInv, Logged
<1>9. CASE UNCHANGED vars
  BY <1>9 DEF vars, config, thread, LatencyInv, Logged
<1> QED BY <1>1, <1>2, <1>3, <1>4, <1>5, <1>6, <1>7, <1>8, <1>9 DEF Next, Thread, Ended

\* The latency log has every correlation id once, in order, but the one whose
\* exchange is open, for any interleaving of requests and answers.
THEOREM LatencyLogged == Spec => []LatencyAccount
<1>1. Init => LatencyInv
  BY DEF Init, LatencyInv, Logged, UpTo
<1>2. TypeInv /\ LatencyInv /\ [Next]_vars => (TypeInv /\ LatencyInv)'
  BY TypeStep, LatencyStep
<1>3. LatencyInv => LatencyAccount
  BY DEF LatencyInv, LatencyAccount, Logged, UpTo, After
<1> QED BY <1>1, <1>2, <1>3, TypeInit, PTL DEF Spec

-----------------------------------------------------------------------------
(* The refinement of the abstract relay.                                   *)

\* An unbroken box is the prefix of its length.
LEMMA UnbrokenPrefix ==
    ASSUME NEW box \in Seq(Packet), \A i \in DOMAIN box : box[i].n = i
    PROVE  [i \in DOMAIN box |-> box[i].n] = UpTo(Len(box))
<1>1. DOMAIN box = 1..Len(box)
  OBVIOUS
<1> QED BY <1>1 DEF UpTo

DeliversPrefixes == relayDelivered = [s \in Sides |-> UpTo(Len(outbox[s]))]

LEMMA DeliveredPrefix == TypeOK /\ pipe.closesOnError /\ Unbroken => DeliversPrefixes
<1> SUFFICES ASSUME TypeOK, pipe.closesOnError, Unbroken PROVE DeliversPrefixes
  OBVIOUS
<1>1. \A s \in Sides : [i \in DOMAIN outbox[s] |-> outbox[s][i].n] = UpTo(Len(outbox[s]))
  BY UnbrokenPrefix DEF TypeOK, Unbroken
<1> QED BY <1>1 DEF relayDelivered, DeliversPrefixes

\* Sending to s what brings its outbox to the length upto is Deliver(s).
LEMMA SendDelivers ==
    ASSUME TypeOK, TypeOK', pipe.closesOnError, UNCHANGED <<pipe, sent>>, Unbroken, Unbroken',
           NEW s \in Sides, NEW out \in Seq(Packet),
           outbox' = [outbox EXCEPT ![s] = @ \o out],
           Len(outbox'[s]) <= Len(sent[Other(s)]),
           relayRunning, relayRunning'
    PROVE  Relay!Deliver(s)
<1>1. relayDelivered = [x \in Sides |-> UpTo(Len(outbox[x]))]
  BY DeliveredPrefix DEF DeliversPrefixes
<1>2. relayDelivered' = [x \in Sides |-> UpTo(Len(outbox'[x]))]
  <2>1. (pipe.closesOnError)'
    OBVIOUS
  <2>2. DeliversPrefixes'
    BY <2>1, DeliveredPrefix, PTL
  <2> QED BY <2>2 DEF DeliversPrefixes
<1> DEFINE upto == Len(outbox'[s])
<1>3. /\ Len(outbox[s]) \in Nat /\ upto \in Nat
      /\ outbox'[s] = outbox[s] \o out /\ \A x \in Sides : x # s => outbox'[x] = outbox[x]
  <2>1. outbox \in [Sides -> Seq(Packet)] /\ outbox' \in [Sides -> Seq(Packet)]
    BY DEF TypeOK
  <2>2. outbox[s] \in Seq(Packet) /\ outbox'[s] \in Seq(Packet)
    BY <2>1
  <2>3. Len(outbox[s]) \in Nat /\ Len(outbox'[s]) \in Nat
    BY <2>2
  <2>4. outbox'[s] = outbox[s] \o out /\ \A x \in Sides : x # s => outbox'[x] = outbox[x]
    BY <2>1
  <2> QED BY <2>3, <2>4
<1>4. upto = Len(outbox[s]) + Len(out) /\ Len(out) \in Nat
  BY <1>3 DEF TypeOK
<1> HIDE DEF upto
<1>5. relayDelivered' = [relayDelivered EXCEPT ![s] = UpTo(upto)]
  BY <1>1, <1>2, <1>3 DEF upto
<1>6. Len(relayDelivered[s]) = Len(outbox[s])
  BY <1>1, <1>3 DEF UpTo
<1>7. relaySent[Relay!Opposite(s)] = Len(sent[Other(s)]) /\ Len(sent[Other(s)]) \in Nat
  BY DEF relaySent, Relay!Opposite, Other, Sides, TypeOK
<1>8. upto \in Len(relayDelivered[s]) .. relaySent[Relay!Opposite(s)]
  BY <1>3, <1>4, <1>6, <1>7 DEF upto
<1>9. relaySent' = relaySent
  BY DEF relaySent
<1> QED BY <1>5, <1>8, <1>9 DEF Relay!Deliver, UpTo, relayRunning

RefineInv == TypeInv /\ LoggedInv /\ DrainInv /\ (pipe.closesOnError => RelayInv)

LEMMA RefineStep ==
    ASSUME RefineInv, RefineInv', [Next]_vars
    PROVE  Relay!RelayNext \/ UNCHANGED Relay!relay
<1> USE DEF RefineInv
<1>0. /\ TypeOK /\ TypeOK'
      /\ pipe.closesOnError => Unbroken
      /\ pipe'.closesOnError => Unbroken'
  BY DEF TypeInv, RelayInv
<1>same. ASSUME UNCHANGED <<pipe, sent, outbox>>, relayRunning' = relayRunning
         PROVE  UNCHANGED Relay!relay
  BY <1>same DEF Relay!relay, relaySent, relayDelivered
<1>stop. ASSUME UNCHANGED <<pipe, sent, outbox>>, pc \notin {"done", "escaped"},
                pc' \in {"done", "escaped"}
         PROVE  Relay!Stop
  BY <1>stop DEF Relay!Stop, relaySent, relayDelivered, relayRunning
<1>1. CASE HandlerMissing \/ ConnectFails \/ CloseSockets
  BY <1>1, <1>stop DEF HandlerMissing, ConnectFails, CloseSockets, config, sockets,
                       Relay!RelayNext
<1>2. CASE ConnectTarget \/ CreateSelect \/ SelectFails \/ CheckConnected
  BY <1>2, <1>same DEF ConnectTarget, CreateSelect, SelectFails, CheckConnected, config, sockets,
                       relayRunning
<1>3. CASE ReadClient \/ ReadTarget
  BY <1>3, <1>same DEF ReadClient, ReadTarget, Read, config, relayRunning
<1>4. CASE ForwardUp
  <2>1. /\ pc = "forwardUp" /\ pc' = "readTarget" /\ UNCHANGED <<pipe, sent, read>>
    BY <1>4 DEF ForwardUp, config
  <2>2. relayRunning /\ relayRunning'
    BY <2>1 DEF relayRunning
  <2>3. CASE ~pipe.closesOnError
    BY <2>1, <2>2, <2>3 DEF Relay!relay, relaySent, relayDelivered, relayRunning
  <2>4. CASE pipe.closesOnError
    <3>1. CASE UNCHANGED outbox
      BY <1>same, <2>1, <2>2, <3>1
    <3>2. ASSUME NEW out \in Seq(Packet), outbox' = [outbox EXCEPT !["target"] = @ \o out],
                 SameNumbers(out, bytes)
          PROVE  Relay!Deliver("target")
      <4>1. Len(outbox["target"]) + Len(bytes) = read["client"]
        BY <2>1, <2>4 DEF RelayInv, Exact, InHand, Forwarded, Other, Sides, After
      <4>2. Len(outbox'["target"]) = Len(outbox["target"]) + Len(bytes)
        <5>1. Len(out) = Len(bytes) /\ outbox["target"] \in Seq(Packet)
          BY <1>0, <3>2 DEF SameNumbers, TypeOK, Sides
        <5>2. outbox'["target"] = outbox["target"] \o out
          BY <1>0, <3>2 DEF TypeOK, Sides
        <5>3. \A box \in Seq(Packet) : Len(box \o out) = Len(box) + Len(out)
          OBVIOUS
        <5> QED BY <5>1, <5>2, <5>3
      <4>3. Len(outbox'["target"]) <= Len(sent[Other("target")])
        BY <4>1, <4>2 DEF DrainInv, Other, Sides
      <4> QED BY <1>0, <2>1, <2>2, <2>4, <3>2, <4>3, SendDelivers DEF Sides
    <3> QED BY <1>4, <3>1, <3>2, ForwardUpSends DEF LoggedInv, Relay!RelayNext, Relay!Peer
  <2> QED BY <2>3, <2>4
<1>5. CASE ForwardDown
  <2>1. /\ pc = "forwardDown" /\ pc' = "check" /\ UNCHANGED <<pipe, sent, read>>
    BY <1>5 DEF ForwardDown, config
  <2>2. relayRunning /\ relayRunning'
    BY <2>1 DEF relayRunning
  <2>3. CASE ~pipe.closesOnError
    BY <2>1, <2>2, <2>3 DEF Relay!relay, relaySent, relayDelivered, relayRunning
  <2>4. CASE pipe.closesOnError
    <3>1. CASE UNCHANGED outbox
      BY <1>same, <2>1, <2>2, <3>1
    <3>2. CASE outbox' = [outbox EXCEPT !["client"] = @ \o bytes] /\ Forwarded("target")
      <4>1. Len(outbox["client"]) + Len(bytes) = read["target"]
        BY <2>1, <2>4, <3>2 DEF RelayInv, Exact, InHand, Other, Sides, After
      <4>2. bytes \in Seq(Packet) /\ Len(outbox'["client"]) = Len(outbox["client"]) + Len(bytes)
        BY <1>0, <3>2 DEF TypeOK, Sides
      <4>3. Len(outbox'["client"]) <= Len(sent[Other("client")])
        BY <4>1, <4>2 DEF DrainInv, Other, Sides
      <4>4. Relay!Deliver("client")
        BY <1>0, <2>1, <2>2, <2>4, <3>2, <4>2, <4>3, SendDelivers DEF Sides
      <4> QED BY <4>4 DEF Relay!RelayNext, Relay!Peer
    <3> QED BY <1>5, <3>1, <3>2, ForwardDownSends
  <2> QED BY <2>3, <2>4
<1>6. ASSUME NEW s \in Sides, PeerSends(s) PROVE Relay!RelayNext
  <2>1. /\ UNCHANGED <<pipe, pc, outbox>>
        /\ \E k \in KindsOf(s) : sent' = [sent EXCEPT ![s] = Append(@, k)]
    BY <1>6 DEF PeerSends, config
  <2>2. Len(sent'[s]) = Len(sent[s]) + 1 /\ \A x \in Sides : x # s => sent'[x] = sent[x]
    BY <1>0, <2>1 DEF TypeOK
  <2>3. relaySent' = [relaySent EXCEPT ![s] = @ + 1]
    BY <2>2 DEF relaySent
  <2>4. Relay!Send(s)
    BY <2>1, <2>3 DEF Relay!Send, relayDelivered, relayRunning
  <2> QED BY <2>4 DEF Relay!RelayNext, Relay!Peer, Sides
<1>7. ASSUME NEW s \in Sides, PeerCloses(s) \/ PeerResets(s) PROVE UNCHANGED Relay!relay
  BY <1>7, <1>same DEF PeerCloses, PeerResets, config, relayRunning
<1>8. CASE UNCHANGED vars
  BY <1>8, <1>same DEF vars, config, sockets, relayRunning
<1> QED BY <1>1, <1>2, <1>3, <1>4, <1>5, <1>6, <1>7, <1>8 DEF Next, Thread, Peers, Ended

\* The loop implements the abstract relay, for any number of packets, any
\* handlers and any cutting of the streams: every step of the thread, of a
\* peer or of the catch blocks is a step of FifoRelay or changes nothing in it.
THEOREM LoopRefinesRelay == Spec => ImplementsRelay
<1>1. Init => Relay!RelayInit
  BY DEF Init, Relay!RelayInit, Relay!Peer, Sides, relaySent, relayDelivered, relayRunning
<1>2. Spec => []RefineInv
  <2>1. TypeInv /\ DrainInv /\ [Next]_vars => DrainInv'
    BY DrainStep
  <2> QED BY <2>1, DrainInit, RelayInvariant, LoggedInvariant, PTL DEF Spec, RefineInv
<1>3. RefineInv /\ RefineInv' /\ [Next]_vars => [Relay!RelayNext]_(Relay!relay)
  BY RefineStep
<1> QED BY <1>1, <1>2, <1>3, PTL DEF Spec, ImplementsRelay, Relay!RelaySpec
=============================================================================
