----------------------- MODULE LibuvPipeline_proofs -----------------------
(***************************************************************************)
(* Proofs about LibuvPipeline, for any handlers and any number of packets. *)
(***************************************************************************)
EXTENDS LibuvPipeline, TLAPS

PacketShape == [kind : ClientKinds \cup TargetKinds, shape : Shapes]

\* The part of TypeOK that the proofs need, and that a callback finds a
\* handler: without one the plugin returns before it connects.
Shape ==
    /\ handler \in Handlers
    /\ pc \in {"connecting", "reading"} => handler # NoHandler
    /\ link \in [Ends -> {"up", "fin", "rst"}]
    /\ sent \in [Ends -> Seq(PacketShape)]
    /\ read \in [Ends -> Nat] /\ \A e \in Ends : read[e] <= Len(sent[e])
    /\ waited \in [Ends -> BOOLEAN]
    /\ DOMAIN requests = Ends /\ DOMAIN outbox = Ends

-----------------------------------------------------------------------------
(* Closing.                                                                *)

\* No handle is closed while callbacks that close may still come.
ClosedLast ==
    /\ closes \in [Ends -> Nat]
    /\ pc \in {"start", "connecting", "reading"} => \A e \in Ends : closes[e] = 0
    /\ \A e \in Ends : closes[e] <= 1

LEMMA ClosedStep == ClosedLast /\ [Next]_vars => ClosedLast'
<1> SUFFICES ASSUME ClosedLast, [Next]_vars PROVE ClosedLast'
  OBVIOUS
<1> USE DEF ClosedLast
<1>1. CASE Plugin
  BY <1>1 DEF Plugin, HandlerMissing, ResolveFails, AllocationFails, ConnectTarget, Close, Ends
<1>2. CASE OnTargetConnected
  BY <1>2 DEF OnTargetConnected, Close, Ends
<1>3. ASSUME NEW e \in Ends, OnEnd(e) PROVE ClosedLast'
  BY <1>3 DEF OnEnd, Close
<1>4. ASSUME NEW e \in Ends, OnData(e) PROVE ClosedLast'
  BY <1>4 DEF OnData
<1>5. ASSUME NEW e \in Ends, FinishWrite(e) PROVE ClosedLast'
  BY <1>5 DEF FinishWrite
<1>6. ASSUME NEW e \in Ends, PeerSends(e) \/ PeerLeaves(e) PROVE ClosedLast'
  BY <1>6 DEF PeerSends, PeerLeaves
<1>7. CASE UNCHANGED vars
  BY <1>7 DEF vars
<1> QED BY <1>1, <1>2, <1>3, <1>4, <1>5, <1>6, <1>7 DEF Next, OnRead

\* No handle is given to uv_close() twice, whichever callbacks come in
\* whichever order.
THEOREM NoDoubleClose == Spec => []CloseOnce
<1>1. Init => ClosedLast
  BY DEF Init, ClosedLast
<1>2. ClosedLast => CloseOnce
  BY DEF ClosedLast, CloseOnce
<1> QED BY <1>1, <1>2, ClosedStep, PTL DEF Spec

-----------------------------------------------------------------------------
(* Forwarding.                                                             *)

\* Everything read from this end is a packet that ends at a NUL of the buffer.
AllEnded(e) == \A i \in 1..read[e] : sent[e][i].shape = "ended"

\* GzipHandler hands back nothing of what the target sent.
Swallowed(e) == e = "client" /\ handler = "GzipHandler"

\* A request whose bytes were all taken.
Empty == [bytes |-> <<>>, left |-> FALSE]

Sound(e) ==
    /\ requests[e] \in Seq({Empty})
    /\ outbox[e] \in Seq(Packet)
    /\ Len(outbox[e]) <= read[Other(e)]
    /\ \A i \in 1..Len(outbox[e]) : outbox[e][i].n = i
    /\ Swallowed(e) => outbox[e] = <<>>
    /\ pc # "terminated" /\ link[e] # "rst" /\ ~ Swallowed(e) =>
          Len(outbox[e]) = read[Other(e)]

\* As long as no socket made a write wait and the packets are clean, libuv
\* holds empty requests only, and the peer has got every packet that was read:
\* a packet is appended to an outbox that ends with the one before it.
ForwardInv == \A e \in Ends : ~ waited[e] /\ AllEnded(Other(e)) => Sound(e)

LEMMA Others == \A e \in Ends : Other(e) \in Ends /\ Other(e) # e /\ Other(Other(e)) = e
BY DEF Ends, Other

\* In a context that has nothing, a handler that does not throw hands back the
\* buffer it was called with: without a correlation id no request is rebuilt.
LEMMA HandedBack ==
    ASSUME NEW h \in HandlerNames \ {"GzipHandler"}, NEW buf,
           NEW r \in HandleUpstreamData(h, buf, EmptyContext)
                     \cup HandleDownStreamData(h, buf, EmptyContext),
           ~ r.throws
    PROVE  r.out = buf
<1>1. EmptyContext.correlation_id = 0
  BY DEF EmptyContext
<1>2. \A c : Throws(c).throws
  BY DEF Throws
<1>3. \A c : Returns(buf, c).out = buf
  BY DEF Returns
<1>4. CASE r \in HandleUpstreamData(h, buf, EmptyContext)
  <2>1. PICK c : r \in {Returns(buf, c), Throws(c)}
    BY <1>1, <1>4 DEF HandlerNames, HandleUpstreamData, BaseProxyHandlerUp, CHWirePTHandlerUp,
       CHttpHandlerUp, CSnowflakeHttpHandlerUp, HttpUp, CHttpsHandlerUp, CMongoDBHandlerUp,
       CPostgreSQLHandlerUp, CMySQLHandlerUp
  <2> QED BY <1>2, <1>3, <2>1
<1>5. CASE r \in HandleDownStreamData(h, buf, EmptyContext)
  <2>1. r \in {Returns(buf, EmptyContext), Throws(EmptyContext)}
    BY <1>5 DEF HandleDownStreamData, CHWirePTHandlerDown, OtherHandlersDown
  <2> QED BY <1>2, <1>3, <2>1
<1> QED BY <1>4, <1>5

\* A clean packet comes back from the handler as it is, or not at all.
LEMMA CleanPacket ==
    ASSUME handler \in HandlerNames, NEW e \in Ends, NEW p \in Packet, p.form = "raw",
           NEW r \in Handle(e, CString(p, "ended"), "ended"), ~ r.throws
    PROVE  /\ r.out \in Seq(Packet)
           /\ IF Swallowed(Other(e)) THEN r.out = <<>>
                                     ELSE Len(r.out) = 1 /\ r.out[1].n = p.n
<1> DEFINE buf == <<p>>
<1>1. /\ CString(p, "ended") = buf /\ buf \in Seq(Packet) /\ buf # <<>>
      /\ Len(buf) = 1 /\ buf[1] = p /\ Tail(buf) = <<>>
  BY DEF CString
<1> HIDE DEF buf
<1>3. CASE handler = "GzipHandler" /\ e = "client"
  <2>1. r = Returns(<<buf[1]>>, EmptyContext)
    BY <1>1, <1>3 DEF Handle, GzipByLength
  <2> QED BY <1>1, <1>3, <2>1 DEF Returns, Swallowed, Other
<1>4. CASE handler = "GzipHandler" /\ e = "target"
  <2>1. r = Returns(Tail(buf), EmptyContext)
    BY <1>1, <1>4 DEF Handle, GzipByLength
  <2> QED BY <1>1, <1>4, <2>1 DEF Returns, Swallowed, Other
<1>5. CASE handler # "GzipHandler" /\ e = "client"
  <2>1. r \in HandleUpstreamData(handler, buf, EmptyContext)
    BY <1>1, <1>5 DEF Handle
  <2>2. r.out = buf
    BY <1>5, <2>1, HandedBack
  <2> QED BY <1>1, <1>5, <2>2 DEF Swallowed
<1>6. CASE handler # "GzipHandler" /\ e = "target"
  <2>1. r \in HandleDownStreamData(handler, buf, EmptyContext)
    BY <1>1, <1>6 DEF Handle
  <2>2. r.out = buf
    BY <1>6, <2>1, HandedBack
  <2> QED BY <1>1, <1>6, <2>2 DEF Swallowed
<1> QED BY <1>3, <1>4, <1>5, <1>6 DEF Ends

LEMMA ShapeStep == ASSUME Shape, [Next]_vars PROVE Shape'
<1> USE DEF Shape
<1>1. CASE Plugin
  BY <1>1 DEF Plugin, HandlerMissing, ResolveFails, AllocationFails, ConnectTarget, Close,
              peers, writes
<1>2. CASE OnTargetConnected
  BY <1>2 DEF OnTargetConnected, Close, peers
<1>3. ASSUME NEW e \in Ends, OnEnd(e) PROVE Shape'
  BY <1>3 DEF OnEnd, Close, peers
<1>4. ASSUME NEW e \in Ends, OnData(e) PROVE Shape'
  <2>1. /\ UNCHANGED <<handler, link, sent>> /\ pc = "reading"
        /\ read' = [read EXCEPT ![e] = @ + 1] /\ read[e] < Len(sent[e])
        /\ \/ UNCHANGED writes
           \/ \E out : UvWrite(Other(e), out)
    BY <1>4 DEF OnData, peers
  <2>2. waited' \in [Ends -> BOOLEAN] /\ DOMAIN requests' = Ends /\ DOMAIN outbox' = Ends
    BY <2>1 DEF UvWrite, writes
  <2>3. read' \in [Ends -> Nat] /\ \A x \in Ends : read'[x] <= Len(sent[x])
    BY <2>1
  <2> QED BY <2>1, <2>2, <2>3
<1>5. ASSUME NEW e \in Ends, FinishWrite(e) PROVE Shape'
  BY <1>5 DEF FinishWrite, peers
<1>6. ASSUME NEW e \in Ends, PeerSends(e) PROVE Shape'
  <2>1. \E p \in PacketShape : sent' = [sent EXCEPT ![e] = Append(@, p)]
    BY <1>6 DEF PeerSends, PacketShape
  <2> QED BY <1>6, <2>1 DEF PeerSends, writes
<1>7. ASSUME NEW e \in Ends, PeerLeaves(e) PROVE Shape'
  BY <1>7 DEF PeerLeaves, writes
<1>8. CASE UNCHANGED vars
  BY <1>8 DEF vars, peers, writes
<1> QED BY <1>1, <1>2, <1>3, <1>4, <1>5, <1>6, <1>7, <1>8 DEF Next, OnRead

\* An end whose writes, outbox and input stay as they are stays sound.
LEMMA EndAside ==
    ASSUME Shape, ForwardInv, NEW e \in Ends, UNCHANGED handler,
           ~ waited'[e], AllEnded(Other(e))',
           waited'[e] = waited[e], requests'[e] = requests[e] \/ requests'[e] = <<>>,
           outbox'[e] = outbox[e], read'[Other(e)] = read[Other(e)],
           \A i \in 1..read[Other(e)] : sent'[Other(e)][i] = sent[Other(e)][i],
           pc = "terminated" => pc' = "terminated",
           link[e] = "rst" => link'[e] = "rst"
    PROVE  Sound(e)'
<1>1. Sound(e)
  BY DEF ForwardInv, AllEnded
<1>2. requests'[e] \in Seq({Empty})
  <2>1. <<>> \in Seq({Empty})
    OBVIOUS
  <2> QED BY <1>1, <2>1 DEF Sound
<1>3. /\ outbox'[e] \in Seq(Packet) /\ Len(outbox'[e]) <= read'[Other(e)]
      /\ \A i \in 1..Len(outbox'[e]) : outbox'[e][i].n = i
  BY <1>1 DEF Sound
<1>4. Swallowed(e)' = Swallowed(e)
  BY DEF Swallowed
<1> QED BY <1>1, <1>2, <1>3, <1>4 DEF Sound

LEMMA Joined ==
    ASSUME NEW box \in Seq(Packet), NEW out \in Seq(Packet)
    PROVE  /\ box \o out \in Seq(Packet) /\ Len(box \o out) = Len(box) + Len(out)
           /\ Len(box) \in Nat
           /\ \A i \in 1..Len(box) : (box \o out)[i] = box[i]
           /\ \A i \in 1..Len(out) : (box \o out)[Len(box) + i] = out[i]
OBVIOUS

\* The next packet behind an unbroken stream.
LEMMA OneMore ==
    ASSUME NEW box \in Seq(Packet), NEW out \in Seq(Packet), Len(out) = 1,
           out[1].n = Len(box) + 1, \A i \in 1..Len(box) : box[i].n = i
    PROVE  /\ box \o out \in Seq(Packet) /\ Len(box \o out) = Len(box) + 1
           /\ \A i \in 1..Len(box \o out) : (box \o out)[i].n = i
<1>1. PICK k \in Nat, both \in Seq(Packet) : k = Len(box) /\ both = box \o out
  BY Joined
<1>2. both \in Seq(Packet) /\ Len(both) = k + 1 /\ both[k + 1] = out[1]
  <2>1. both \in Seq(Packet) /\ Len(both) = k + Len(out)
    <3>1. box \o out \in Seq(Packet) /\ Len(box \o out) = Len(box) + Len(out)
      BY Joined
    <3> QED BY <1>1, <3>1, Zenon
  <2>2. both[k + 1] = out[1]
    <3>1. \A i \in 1..Len(out) : (box \o out)[Len(box) + i] = out[i]
      BY Joined
    <3>2. 1 \in 1..Len(out)
      OBVIOUS
    <3> QED BY <1>1, <3>1, <3>2, Zenon
  <2> QED BY <2>1, <2>2
<1>3. \A i \in 1..k : both[i] = box[i]
  BY <1>1, Joined
<1>4. \A i \in 1..(k + 1) : both[i].n = i
  <2>1. \A i \in 1..k : both[i].n = i
    BY <1>1, <1>3
  <2>2. both[k + 1].n = k + 1
    BY <1>1, <1>2
  <2> QED BY <2>1, <2>2
<1> QED BY <1>1, <1>2, <1>4

\* The packet that on_read hands over reaches the other end as the next one.
LEMMA WriteForwards ==
    ASSUME Shape, NEW e \in Ends, Sound(e), pc = "reading", UNCHANGED <<handler, pc, link>>,
           read'[Other(e)] = read[Other(e)] + 1, read[Other(e)] \in Nat,
           NEW out \in Seq(Packet),
           IF Swallowed(e) THEN out = <<>> ELSE Len(out) = 1 /\ out[1].n = read[Other(e)] + 1,
           UvWrite(e, out), ~ waited'[e]
    PROVE  Sound(e)'
<1>1. /\ outbox'[e] = IF link[e] = "rst" THEN outbox[e] ELSE outbox[e] \o out
      /\ requests'[e] = Append(requests[e], Empty)
  BY DEF UvWrite, Shape, Empty
<1>2. requests'[e] \in Seq({Empty})
  BY <1>1 DEF Sound
<1>3. CASE link[e] = "rst"
  BY <1>1, <1>2, <1>3 DEF Sound, Swallowed
<1>4. CASE link[e] # "rst" /\ Swallowed(e)
  <2>1. outbox'[e] = <<>> \o out /\ out = <<>>
    BY <1>1, <1>4 DEF Sound
  <2>2. outbox'[e] = <<>>
    BY <2>1
  <2> QED BY <1>2, <1>4, <2>2 DEF Sound, Swallowed
<1>5. CASE link[e] # "rst" /\ ~ Swallowed(e)
  <2>1. /\ outbox'[e] = outbox[e] \o out /\ outbox[e] \in Seq(Packet)
        /\ Len(outbox[e]) = read[Other(e)] /\ Len(out) = 1 /\ out[1].n = read[Other(e)] + 1
        /\ \A i \in 1..Len(outbox[e]) : outbox[e][i].n = i
    BY <1>1, <1>5 DEF Sound
  <2>2. /\ outbox'[e] \in Seq(Packet) /\ Len(outbox'[e]) = read[Other(e)] + 1
        /\ \A i \in 1..Len(outbox'[e]) : outbox'[e][i].n = i
    BY <2>1, OneMore
  <2> QED BY <1>2, <1>5, <2>2 DEF Sound, Swallowed
<1> QED BY <1>3, <1>4, <1>5

LEMMA ForwardStep == ASSUME Shape, ForwardInv, [Next]_vars PROVE ForwardInv'
<1> SUFFICES ASSUME NEW x \in Ends, ~ waited'[x], AllEnded(Other(x))' PROVE Sound(x)'
  BY DEF ForwardInv
<1>o. Other(x) \in Ends /\ Other(x) # x /\ Other(Other(x)) = x
  BY Others
<1>1. CASE Plugin
  BY <1>1, <1>o, EndAside DEF Plugin, HandlerMissing, ResolveFails, AllocationFails,
          ConnectTarget, Close, peers, writes
<1>2. CASE OnTargetConnected
  BY <1>2, <1>o, EndAside DEF OnTargetConnected, Close, peers
<1>3. ASSUME NEW e \in Ends, OnEnd(e) PROVE Sound(x)'
  BY <1>3, <1>o, EndAside DEF OnEnd, Close, peers
<1>4. ASSUME NEW e \in Ends, OnData(e) PROVE Sound(x)'
  <2>1. /\ UNCHANGED <<handler, link, sent>> /\ pc = "reading"
        /\ read' = [read EXCEPT ![e] = @ + 1] /\ read[e] < Len(sent[e])
    BY <1>4 DEF OnData, peers
  <2>2. CASE x = e
    <3>1. /\ waited'[x] = waited[x] /\ requests'[x] = requests[x] /\ outbox'[x] = outbox[x]
          /\ read'[Other(x)] = read[Other(x)]
      BY <1>4, <1>o, <2>1, <2>2 DEF OnData, UvWrite, writes, Shape
    <3> QED BY <1>o, <2>1, <3>1, EndAside
  <2>3. CASE x # e
    <3>1. e = Other(x) /\ x = Other(e)
      BY <1>o, <2>3 DEF Ends, Other
    <3> DEFINE p == NextPacket(e)
    <3>2. /\ read[e] \in Nat /\ read[e] + 1 \in 1..Len(sent[e])
          /\ sent[e] \in Seq(PacketShape) /\ read'[e] = read[e] + 1
      BY <2>1 DEF Shape
    <3>3. p \in Packet /\ p.form = "raw" /\ p.n = read[e] + 1
      <4>0. sent[e][read[e] + 1] \in PacketShape
        BY <3>2
      <4>1. sent[e][read[e] + 1].kind \in ClientKinds \cup TargetKinds
        BY <4>0 DEF PacketShape
      <4> QED BY <3>2, <4>1 DEF NextPacket, Packet, Forms
    <3>4. sent[e][read[e] + 1].shape = "ended"
      BY <2>1, <3>1, <3>2 DEF AllEnded
    <3>5. ~ waited[x] /\ AllEnded(e)
      <4>1. ~ waited[x]
        BY <1>4, <3>1 DEF OnData, UvWrite, writes, Shape
      <4>2. AllEnded(e)
        BY <2>1, <3>1, <3>2 DEF AllEnded
      <4> QED BY <4>1, <4>2
    <3>6. Sound(x)
      BY <3>1, <3>5 DEF ForwardInv
    <3>7. PICK r \in Handle(e, CString(p, "ended"), "ended") :
             \/ r.throws /\ pc' = "terminated" /\ UNCHANGED writes
             \/ ~ r.throws /\ UvWrite(x, r.out) /\ UNCHANGED pc
      BY <1>4, <3>1, <3>4 DEF OnData
    <3> HIDE DEF p
    <3>8. CASE r.throws /\ pc' = "terminated" /\ UNCHANGED writes
      BY <2>1, <3>1, <3>2, <3>6, <3>8 DEF Sound, Swallowed, writes
    <3>9. CASE ~ r.throws /\ UvWrite(x, r.out) /\ UNCHANGED pc
      <4>1. handler \in HandlerNames
        BY <2>1, HandlersAssumption DEF Shape
      <4>2. /\ r.out \in Seq(Packet)
            /\ IF Swallowed(x) THEN r.out = <<>> ELSE Len(r.out) = 1 /\ r.out[1].n = p.n
        BY <3>1, <3>3, <3>9, <4>1, CleanPacket
      <4> QED BY <2>1, <3>1, <3>2, <3>3, <3>6, <3>9, <4>2, WriteForwards
    <3> QED BY <3>7, <3>8, <3>9
  <2> QED BY <2>2, <2>3
<1>5. ASSUME NEW e \in Ends, FinishWrite(e) PROVE Sound(x)'
  <2>1. UNCHANGED <<handler, link, sent, read, waited>> /\ pc = "reading"
    BY <1>5 DEF FinishWrite, peers
  <2>2. CASE UNCHANGED <<requests, outbox>>
    BY <1>o, <2>1, <2>2, EndAside
  <2>3. CASE x # e /\ ~ UNCHANGED <<requests, outbox>>
    <3>1. requests'[x] = requests[x] /\ outbox'[x] = outbox[x]
      BY <1>5, <2>3 DEF FinishWrite, Shape
    <3> QED BY <1>o, <2>1, <3>1, EndAside
  <2>4. CASE x = e /\ ~ UNCHANGED <<requests, outbox>>
    <3>1. Sound(x)
      BY <2>1 DEF ForwardInv, AllEnded
    <3>2. requests[x] \in Seq({Empty}) /\ requests[x] # <<>>
      BY <1>5, <2>4, <3>1 DEF FinishWrite, Sound
    <3>3. Head(requests[x]) \in {Empty}
      <4>1. ASSUME NEW S, NEW q \in Seq(S), q # <<>> PROVE Head(q) \in S
        BY <4>1
      <4> QED BY <3>2, <4>1
    <3>4. /\ requests'[x] = Tail(requests[x])
          /\ outbox'[x] = outbox[x] \/ outbox'[x] = outbox[x] \o <<>>
          /\ UNCHANGED pc
      <4>1. Head(requests[x]).bytes = <<>> /\ ~ Head(requests[x]).left
        BY <3>3 DEF Empty
      <4>2. /\ requests' = [requests EXCEPT ![x] = Tail(@)] /\ UNCHANGED pc
            /\ \E bytes \in {Head(requests[x]).bytes} \cup
                              (IF Head(requests[x]).left THEN {<<Garbage>>} ELSE {}) :
                  outbox' = IF link[x] = "rst" THEN outbox ELSE [outbox EXCEPT ![x] = @ \o bytes]
        BY <1>5, <2>4 DEF FinishWrite
      <4>3. outbox' = outbox \/ outbox' = [outbox EXCEPT ![x] = @ \o <<>>]
        BY <4>1, <4>2
      <4> QED BY <4>2, <4>3 DEF Shape
    <3>5. requests'[x] \in Seq({Empty})
      BY <3>2, <3>4
    <3>6. outbox'[x] = outbox[x]
      BY <3>1, <3>4 DEF Sound
    <3> QED BY <2>1, <3>1, <3>4, <3>5, <3>6 DEF Sound, Swallowed
  <2> QED BY <2>2, <2>3, <2>4
<1>6. ASSUME NEW e \in Ends, PeerSends(e) PROVE Sound(x)'
  <2>1. UNCHANGED <<handler, pc, link, read, requests, outbox, waited>>
    BY <1>6 DEF PeerSends, writes
  <2>2. PICK p \in PacketShape : sent' = [sent EXCEPT ![e] = Append(@, p)]
    BY <1>6 DEF PeerSends, PacketShape
  <2>3. \A i \in 1..read[Other(x)] : sent'[Other(x)][i] = sent[Other(x)][i]
    BY <1>o, <2>2 DEF Shape
  <2> QED BY <1>o, <2>1, <2>3, EndAside
<1>7. ASSUME NEW e \in Ends, PeerLeaves(e) PROVE Sound(x)'
  <2>1. /\ UNCHANGED <<handler, pc, sent, read, requests, outbox, waited>>
        /\ link[x] = "rst" => link'[x] = "rst"
    BY <1>7 DEF PeerLeaves, writes, Shape
  <2> QED BY <1>o, <2>1, EndAside
<1>8. CASE UNCHANGED vars
  BY <1>8, <1>o, EndAside DEF vars, peers, writes
<1> QED BY <1>1, <1>2, <1>3, <1>4, <1>5, <1>6, <1>7, <1>8 DEF Next, OnRead

\* As long as the sockets take the writes at once and the packets hold no NUL
\* and end at one, each peer gets an unbroken prefix of what the other sent,
\* whatever the handler: the theorem says exactly which of on_read's liberties
\* with memory the relay depends on.
THEOREM LibuvForwards == Spec => []ForwardsReceived
<1>1. Init => Shape /\ ForwardInv
  BY DEF Init, Shape, ForwardInv, Sound, Swallowed, Ends, Other
<1>2. Shape /\ ForwardInv /\ [Next]_vars => (Shape /\ ForwardInv)'
  BY ShapeStep, ForwardStep
<1>3. Shape /\ ForwardInv => ForwardsReceived
  <2> SUFFICES ASSUME Shape, ForwardInv, NEW e \in Ends, ~ waited[e], AllEnded(Other(e))
               PROVE  /\ Len(outbox[e]) <= Len(sent[Other(e)])
                      /\ \A i \in DOMAIN outbox[e] :
                            outbox[e][i].n = i /\ outbox[e][i].form \in Forms
    BY DEF ForwardsReceived, AllEnded
  <2>1. Sound(e)
    BY DEF ForwardInv
  <2>2. Len(outbox[e]) <= Len(sent[Other(e)])
    BY <2>1, Others DEF Sound, Shape
  <2>3. \A i \in DOMAIN outbox[e] : outbox[e][i] \in Packet /\ outbox[e][i].n = i
    BY <2>1 DEF Sound
  <2> QED BY <2>2, <2>3 DEF Packet
<1> QED BY <1>1, <1>2, <1>3, PTL DEF Spec

-----------------------------------------------------------------------------
(* Type correctness.                                                       *)

Written == [n : Nat, kind : ClientKinds \cup TargetKinds, form : Forms \cup {"cut"}]

Request == [bytes : Seq(Written), left : BOOLEAN]

\* libuv holds no more requests for an end than packets were read at the other
\* one; all that waits or was written consists of packets, whole, cut or of
\* bytes nobody sent.
EndTyped(e) ==
    /\ requests[e] \in Seq(Request) /\ Len(requests[e]) <= read[Other(e)]
    /\ outbox[e] \in Seq(Written)

LibuvTypeInv ==
    /\ Shape
    /\ pc \in {"start", "connecting", "reading", "idle", "terminated"}
    /\ closes \in [Ends -> Nat]
    /\ \A e \in Ends : EndTyped(e)

LEMMA InSeq == ASSUME NEW S, NEW a \in Seq(S), NEW b \in Seq(S) PROVE a \o b \in Seq(S)
OBVIOUS

LEMMA GarbageTyped == Garbage \in Written
BY DEF Garbage, Written, Forms, ClientKinds, TargetKinds

\* What a handler returns for a packet of any shape.
LEMMA HandledTyped ==
    ASSUME handler \in HandlerNames, NEW e \in Ends, NEW p \in Packet, NEW shape \in Shapes,
           NEW r \in Handle(e, CString(p, shape), shape), ~ r.throws
    PROVE  r.out \in Seq(Written)
<1>1. p \in Written /\ [p EXCEPT !.form = "cut"] \in Written
  BY DEF Packet, Written
<1>2. PICK buf \in Seq(Written) : buf = CString(p, shape) /\ buf # <<>>
  <2>1. \A a \in Written, b \in Written : /\ <<a>> \in Seq(Written) /\ <<a, b>> \in Seq(Written)
                                          /\ <<a>> # <<>> /\ <<a, b>> # <<>>
    OBVIOUS
  <2> QED BY <1>1, <2>1, GarbageTyped DEF CString, Shapes
<1>3. buf[1] \in Written /\ Tail(buf) \in Seq(Written)
  <2>1. ASSUME NEW S, NEW q \in Seq(S), q # <<>> PROVE q[1] \in S /\ Tail(q) \in Seq(S)
    BY <2>1
  <2> QED BY <1>2, <2>1
<1>4. CASE handler = "GzipHandler"
  <2>1. r \in GzipByLength(e, buf, shape)
    BY <1>2, <1>4 DEF Handle
  <2>2. \/ r = Returns(<<buf[1]>>, EmptyContext) \/ r = Returns(<<buf[1], Garbage>>, EmptyContext)
        \/ r = Returns(Tail(buf), EmptyContext) \/ r = Throws(EmptyContext)
    BY <2>1 DEF GzipByLength, Ends
  <2>3. <<buf[1]>> \in Seq(Written) /\ <<buf[1], Garbage>> \in Seq(Written)
    BY <1>3, GarbageTyped
  <2>4. Throws(EmptyContext).throws /\ \A out : Returns(out, EmptyContext).out = out
    BY DEF Throws, Returns
  <2> QED BY <1>3, <2>2, <2>3, <2>4
<1>5. CASE handler # "GzipHandler"
  <2>1. r \in HandleUpstreamData(handler, buf, EmptyContext)
                 \cup HandleDownStreamData(handler, buf, EmptyContext)
    BY <1>2, <1>5 DEF Handle, Ends
  <2>2. r.out = buf
    BY <1>5, <2>1, HandedBack
  <2> QED BY <2>2
<1> QED BY <1>4, <1>5

\* Writing keeps the end that is written to typed.
LEMMA WriteTyped ==
    ASSUME Shape, NEW e \in Ends, EndTyped(e), NEW out \in Seq(Written), UvWrite(e, out),
           read'[Other(e)] = read[Other(e)] + 1, read[Other(e)] \in Nat
    PROVE  EndTyped(e)'
<1>1. PICK q \in Request : requests'[e] = Append(requests[e], q)
  <2>1. [bytes |-> out, left |-> TRUE] \in Request /\ [bytes |-> <<>>, left |-> FALSE] \in Request
    BY DEF Request
  <2> QED BY <2>1 DEF UvWrite, Shape
<1>2. outbox'[e] = outbox[e] \/ outbox'[e] = outbox[e] \o out
  BY DEF UvWrite, Shape
<1>3. outbox'[e] \in Seq(Written)
  <2>1. outbox[e] \in Seq(Written)
    BY DEF EndTyped
  <2>2. outbox[e] \o out \in Seq(Written)
    BY <2>1, InSeq
  <2> QED BY <1>2, <2>1, <2>2
<1>4. requests'[e] \in Seq(Request) /\ Len(requests'[e]) = Len(requests[e]) + 1
  BY <1>1 DEF EndTyped
<1>5. Len(requests[e]) \in Nat /\ Len(requests[e]) <= read[Other(e)]
  BY DEF EndTyped
<1> QED BY <1>3, <1>4, <1>5 DEF EndTyped

\* An end that is not written to, or whose requests are given up.
LEMMA TypedAside ==
    ASSUME NEW e \in Ends, EndTyped(e), outbox'[e] = outbox[e],
           requests'[e] = requests[e] \/ requests'[e] = <<>>,
           read[Other(e)] \in Nat,
           read'[Other(e)] = read[Other(e)] \/ read'[Other(e)] = read[Other(e)] + 1
    PROVE  EndTyped(e)'
<1>1. <<>> \in Seq(Request) /\ Len(<<>>) = 0
  OBVIOUS
<1>2. /\ requests[e] \in Seq(Request) /\ Len(requests[e]) <= read[Other(e)]
      /\ outbox[e] \in Seq(Written)
  BY DEF EndTyped
<1>3. Len(requests[e]) \in Nat
  BY <1>2
<1>4. requests'[e] \in Seq(Request)
  BY <1>1, <1>2
<1>5. Len(requests'[e]) = Len(requests[e]) \/ Len(requests'[e]) = 0
  BY <1>1
<1>6. Len(requests'[e]) <= read'[Other(e)]
  BY <1>2, <1>3, <1>5
<1>7. outbox'[e] \in Seq(Written)
  BY <1>2
<1> QED BY <1>4, <1>6, <1>7 DEF EndTyped

LEMMA LibuvTypeStep == ASSUME LibuvTypeInv, [Next]_vars PROVE LibuvTypeInv'
<1> USE DEF LibuvTypeInv
<1>0. Shape'
  BY ShapeStep
<1>r. \A x \in Ends : Other(x) \in Ends /\ read[Other(x)] \in Nat
  BY Others DEF Shape
<1>1. CASE Plugin
  <2>1. \A x \in Ends : EndTyped(x)'
    BY <1>1, <1>r, TypedAside DEF Plugin, HandlerMissing, ResolveFails, AllocationFails,
       ConnectTarget, Close, writes
  <2> QED BY <1>0, <1>1, <2>1 DEF Plugin, HandlerMissing, ResolveFails, AllocationFails,
       ConnectTarget, Close
<1>2. CASE OnTargetConnected
  <2>1. \A x \in Ends : EndTyped(x)'
    BY <1>2, <1>r, TypedAside DEF OnTargetConnected, Close
  <2> QED BY <1>0, <1>2, <2>1 DEF OnTargetConnected, Close
<1>3. ASSUME NEW e \in Ends, OnEnd(e) PROVE LibuvTypeInv'
  <2>1. \A x \in Ends : EndTyped(x)'
    BY <1>3, <1>r, TypedAside DEF OnEnd, Close
  <2> QED BY <1>0, <1>3, <2>1 DEF OnEnd, Close
<1>4. ASSUME NEW e \in Ends, OnData(e) PROVE LibuvTypeInv'
  <2>1. /\ UNCHANGED <<handler, closes, sent>> /\ pc = "reading"
        /\ read' = [read EXCEPT ![e] = @ + 1] /\ read[e] < Len(sent[e])
    BY <1>4 DEF OnData, peers
  <2>2. PICK p \in PacketShape : p = sent[e][read[e] + 1]
    <3>1. read[e] + 1 \in 1..Len(sent[e]) /\ sent[e] \in Seq(PacketShape)
      BY <2>1 DEF Shape
    <3> QED BY <3>1
  <2>3. p.shape \in Shapes /\ NextPacket(e) \in Packet
    BY <2>1, <2>2 DEF PacketShape, NextPacket, Packet, Forms, Shape
  <2>4. PICK r \in Handle(e, CString(NextPacket(e), p.shape), p.shape) :
           \/ r.throws /\ pc' = "terminated" /\ UNCHANGED writes
           \/ ~ r.throws /\ UvWrite(Other(e), r.out) /\ UNCHANGED pc
    BY <1>4, <2>2 DEF OnData
  <2>5. ASSUME NEW x \in Ends PROVE EndTyped(x)'
    <3>1. CASE r.throws /\ UNCHANGED writes
      <4>1. \/ read'[Other(x)] = read[Other(x)]
            \/ read'[Other(x)] = read[Other(x)] + 1
        BY <1>r, <2>1 DEF Shape
      <4> QED BY <1>r, <3>1, <4>1, TypedAside DEF writes
    <3>2. CASE x = e /\ UvWrite(Other(e), r.out)
      <4>1. outbox'[x] = outbox[x] /\ requests'[x] = requests[x]
        BY <3>2, Others DEF UvWrite, Shape
      <4>2. read'[Other(x)] = read[Other(x)]
        BY <2>1, <3>2, Others DEF Shape
      <4> QED BY <1>r, <4>1, <4>2, TypedAside
    <3>3. CASE x # e /\ ~ r.throws /\ UvWrite(Other(e), r.out)
      <4>1. x = Other(e) /\ e = Other(x)
        BY <3>3 DEF Ends, Other
      <4>2. handler \in HandlerNames
        BY <2>1, HandlersAssumption DEF Shape
      <4>3. r.out \in Seq(Written)
        BY <2>3, <3>3, <4>2, HandledTyped
      <4>4. read'[Other(x)] = read[Other(x)] + 1
        BY <2>1, <4>1 DEF Shape
      <4> QED BY <1>r, <3>3, <4>1, <4>3, <4>4, WriteTyped
    <3> QED BY <2>4, <3>1, <3>2, <3>3
  <2> QED BY <1>0, <2>1, <2>4, <2>5
<1>5. ASSUME NEW e \in Ends, FinishWrite(e) PROVE LibuvTypeInv'
  <2>1. UNCHANGED <<closes, read>> /\ pc = "reading" /\ pc' \in {"reading", "terminated"}
    BY <1>5 DEF FinishWrite
  <2>2. ASSUME NEW x \in Ends PROVE EndTyped(x)'
    <3>1. CASE x # e \/ UNCHANGED <<requests, outbox>>
      <4>1. outbox'[x] = outbox[x] /\ requests'[x] = requests[x]
        BY <1>5, <3>1 DEF FinishWrite, Shape
      <4> QED BY <1>r, <2>1, <4>1, TypedAside
    <3>2. CASE x = e /\ ~ UNCHANGED <<requests, outbox>>
      <4>1. /\ requests[x] \in Seq(Request) /\ requests[x] # <<>>
            /\ requests'[x] = Tail(requests[x])
        BY <1>5, <3>2 DEF FinishWrite, Shape, EndTyped
      <4>2. /\ Head(requests[x]) \in Request /\ Tail(requests[x]) \in Seq(Request)
            /\ Len(Tail(requests[x])) <= Len(requests[x]) /\ Len(requests[x]) \in Nat
            /\ Len(Tail(requests[x])) \in Nat
        <5>1. ASSUME NEW S, NEW q \in Seq(S), q # <<>>
              PROVE  /\ Head(q) \in S /\ Tail(q) \in Seq(S) /\ Len(Tail(q)) <= Len(q)
                     /\ Len(q) \in Nat /\ Len(Tail(q)) \in Nat
          BY <5>1
        <5> QED BY <4>1, <5>1
      <4>3. PICK bytes \in Seq(Written) : outbox'[x] = outbox[x] \/ outbox'[x] = outbox[x] \o bytes
        <5>1. <<Garbage>> \in Seq(Written) /\ Head(requests[x]).bytes \in Seq(Written)
          BY <4>2, GarbageTyped DEF Request
        <5>2. \E bytes \in {Head(requests[x]).bytes, <<Garbage>>} :
                 outbox'[x] = outbox[x] \/ outbox'[x] = outbox[x] \o bytes
          <6>1. \E bytes \in {Head(requests[e]).bytes} \cup
                             (IF Head(requests[e]).left THEN {<<Garbage>>} ELSE {}) :
                   outbox' = IF link[e] = "rst" THEN outbox ELSE [outbox EXCEPT ![e] = @ \o bytes]
            BY <1>5, <3>2 DEF FinishWrite
          <6>2. PICK bytes \in {Head(requests[x]).bytes, <<Garbage>>} :
                   outbox' = IF link[e] = "rst" THEN outbox ELSE [outbox EXCEPT ![e] = @ \o bytes]
            BY <3>2, <6>1, Zenon
          <6>3. DOMAIN outbox = Ends
            BY DEF Shape
          <6> QED BY <3>2, <6>2, <6>3
        <5> QED BY <5>1, <5>2
      <4>4. outbox'[x] \in Seq(Written)
        <5>1. outbox[x] \in Seq(Written)
          BY DEF EndTyped
        <5>2. outbox[x] \o bytes \in Seq(Written)
          BY <5>1, InSeq
        <5> QED BY <4>3, <5>1, <5>2
      <4>5. Len(requests'[x]) <= read'[Other(x)]
        BY <1>r, <2>1, <4>1, <4>2 DEF EndTyped
      <4> QED BY <4>1, <4>2, <4>4, <4>5 DEF EndTyped
    <3> QED BY <3>1, <3>2
  <2> QED BY <1>0, <2>1, <2>2
<1>6. ASSUME NEW e \in Ends, PeerSends(e) \/ PeerLeaves(e) PROVE LibuvTypeInv'
  <2>1. UNCHANGED <<pc, closes, read, writes>>
    BY <1>6 DEF PeerSends, PeerLeaves
  <2>2. \A x \in Ends : EndTyped(x)'
    BY <1>r, <2>1, TypedAside DEF writes
  <2> QED BY <1>0, <2>1, <2>2
<1>7. CASE UNCHANGED vars
  <2>1. \A x \in Ends : EndTyped(x)'
    BY <1>7, <1>r, TypedAside DEF vars, writes
  <2> QED BY <1>0, <1>7, <2>1 DEF vars
<1> QED BY <1>1, <1>2, <1>3, <1>4, <1>5, <1>6, <1>7 DEF Next, OnRead

\* The type invariant of the plugin's callbacks; of what is more than a type,
\* that libuv never holds more write requests for one end than packets were
\* read at the other.
THEOREM LibuvTypeCorrect == Spec => []TypeOK
<1>1. Init => LibuvTypeInv
  <2> SUFFICES ASSUME Init PROVE LibuvTypeInv
    OBVIOUS
  <2>1. Shape
    BY DEF Init, Shape, Ends
  <2>2. \A e \in Ends : EndTyped(e)
    BY Others DEF Init, EndTyped
  <2> QED BY <2>1, <2>2 DEF Init, LibuvTypeInv
<1>2. LibuvTypeInv => TypeOK
  <2> SUFFICES ASSUME LibuvTypeInv PROVE TypeOK
    OBVIOUS
  <2>1. ASSUME NEW e \in Ends
        PROVE  /\ \A i \in DOMAIN requests[e] : /\ requests[e][i].left \in BOOLEAN
                                                /\ requests[e][i].bytes \in Seq(Written)
               /\ \A i \in DOMAIN outbox[e] : outbox[e][i].form \in Forms \cup {"cut"}
    <3>1. \A i \in DOMAIN requests[e] : requests[e][i] \in Request
      BY DEF LibuvTypeInv, EndTyped
    <3>2. \A i \in DOMAIN outbox[e] : outbox[e][i] \in Written
      BY DEF LibuvTypeInv, EndTyped
    <3> QED BY <3>1, <3>2 DEF Request, Written
  <2>2. \A e \in Ends : read[e] \in 0..Len(sent[e]) /\ Len(requests[e]) <= read[Other(e)]
    BY DEF LibuvTypeInv, EndTyped, Shape
  <2> QED BY <2>1, <2>2 DEF LibuvTypeInv, Shape, TypeOK, Written, PacketShape
<1> QED BY <1>1, <1>2, LibuvTypeStep, PTL DEF Spec
===========================================================================
