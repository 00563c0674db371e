--------------------- MODULE HandshakePipelines_proofs ---------------------
(***************************************************************************)
(* Proofs about HandshakePipelines: both plugins, any handler they may     *)
(* have, any number of units and any interleaving with the peers.          *)
(***************************************************************************)
EXTENDS HandshakePipelines, SequenceTheorems, TLAPS

-----------------------------------------------------------------------------
(* The handshakes as a table: where a message is read or sent, whose it    *)
(* is, and what comes next.                                                *)

ReadLabels == {"readGreeting", "readResponse", "readLogin", "readVerdict", "readLength",
               "readBody", "readReply", "readStartupLength", "readStartupBody"}

SendLabels == {"sendGreeting", "sendResponse", "sendLogin", "sendVerdict", "sendLength",
               "sendBody", "sendReply", "sendStartup"}

\* Whose message is read at, or in hand at, a label.
Whose(at) == IF at \in {"readGreeting", "sendGreeting", "readVerdict", "sendVerdict",
                        "readReply", "sendReply", "forwardDown"}
               THEN "target" ELSE "client"

AfterRead(at) ==
    CASE at = "readGreeting"      -> "sendGreeting"
      [] at = "readResponse"      -> "checkCapabilities"
      [] at = "readLogin"         -> "sendLogin"
      [] at = "readVerdict"       -> "sendVerdict"
      [] at = "readLength"        -> "sendLength"
      [] at = "readBody"          -> "sendBody"
      [] at = "readReply"         -> "sendReply"
      [] at = "readStartupLength" -> "readStartupBody"
      [] at = "readStartupBody"   -> "sendStartup"

AfterSend(at) ==
    CASE at = "sendGreeting" -> "readResponse"
      [] at = "sendResponse" -> IF bytes[1].kind = "sslResponse" THEN "acceptTLS"
                                ELSE "readVerdict"
      [] at = "sendLogin"    -> "readVerdict"
      [] at = "sendVerdict"  -> "select"
      [] at = "sendLength"   -> IF bytes[1].kind = "length" THEN "sendStartup" ELSE "readBody"
      [] at = "sendBody"     -> AfterBody(bytes[1].kind)
      [] at = "sendReply"    -> IF bytes[1].kind = "S" THEN "acceptTLS" ELSE "readStartupLength"
      [] at = "sendStartup"  -> "select"

AfterTLS == IF plugin = "MySQLPipeline" THEN "readLogin" ELSE "readStartupLength"

\* A message of the handshake is forwarded; the response leaves the client's
\* capabilities in the context.
Forwards(at) ==
    /\ WriteBytes(at, AfterSend(at))
    /\ exec_context' = IF at = "sendResponse" /\ pc' # "close"
                         THEN [exec_context EXCEPT !.capabilities = TRUE]
                         ELSE exec_context

LEMMA HandshakeTable ==
    ASSUME Handshake
    PROVE  \/ \E at \in ReadLabels : RecvBlocking(at, Whose(at), AfterRead(at))
           \/ \E at \in SendLabels : Forwards(at)
           \/ CheckCapabilities
           \/ Replace("acceptTLS", "client", "connectTLS")
           \/ Replace("connectTLS", "target", AfterTLS)
<1>1. CASE MySQLHandshake
  <2>1. RecvBlocking("readGreeting", "target", "sendGreeting") =>
            \E at \in ReadLabels : RecvBlocking(at, Whose(at), AfterRead(at))
    BY DEF ReadLabels, Whose, AfterRead
  <2>2. RecvBlocking("readResponse", "client", "checkCapabilities") =>
            \E at \in ReadLabels : RecvBlocking(at, Whose(at), AfterRead(at))
    BY DEF ReadLabels, Whose, AfterRead
  <2>3. RecvBlocking("readLogin", "client", "sendLogin") =>
            \E at \in ReadLabels : RecvBlocking(at, Whose(at), AfterRead(at))
    BY DEF ReadLabels, Whose, AfterRead
  <2>4. RecvBlocking("readVerdict", "target", "sendVerdict") =>
            \E at \in ReadLabels : RecvBlocking(at, Whose(at), AfterRead(at))
    BY DEF ReadLabels, Whose, AfterRead
  <2>5. WriteBytes("sendGreeting", "readResponse") /\ UNCHANGED exec_context =>
            \E at \in SendLabels : Forwards(at)
    BY DEF SendLabels, Forwards, AfterSend
  <2>6. SendResponse => \E at \in SendLabels : Forwards(at)
    BY DEF SendLabels, Forwards, AfterSend, SendResponse
  <2>7. WriteBytes("sendLogin", "readVerdict") /\ UNCHANGED exec_context =>
            \E at \in SendLabels : Forwards(at)
    BY DEF SendLabels, Forwards, AfterSend
  <2>8. WriteBytes("sendVerdict", "select") /\ UNCHANGED exec_context =>
            \E at \in SendLabels : Forwards(at)
    BY DEF SendLabels, Forwards, AfterSend
  <2> QED BY <1>1, <2>1, <2>2, <2>3, <2>4, <2>5, <2>6, <2>7, <2>8 DEF MySQLHandshake
<1>2. CASE PostgreSQLHandshake
  <2>1. RecvBlocking("readLength", "client", "sendLength") =>
            \E at \in ReadLabels : RecvBlocking(at, Whose(at), AfterRead(at))
    BY DEF ReadLabels, Whose, AfterRead
  <2>2. RecvBlocking("readBody", "client", "sendBody") =>
            \E at \in ReadLabels : RecvBlocking(at, Whose(at), AfterRead(at))
    BY DEF ReadLabels, Whose, AfterRead
  <2>3. RecvBlocking("readReply", "target", "sendReply") =>
            \E at \in ReadLabels : RecvBlocking(at, Whose(at), AfterRead(at))
    BY DEF ReadLabels, Whose, AfterRead
  <2>4. RecvBlocking("readStartupLength", "client", "readStartupBody") =>
            \E at \in ReadLabels : RecvBlocking(at, Whose(at), AfterRead(at))
    BY DEF ReadLabels, Whose, AfterRead
  <2>5. RecvBlocking("readStartupBody", "client", "sendStartup") =>
            \E at \in ReadLabels : RecvBlocking(at, Whose(at), AfterRead(at))
    BY DEF ReadLabels, Whose, AfterRead
  <2>6. WriteBytes("sendLength", IF bytes[1].kind = "length" THEN "sendStartup" ELSE "readBody")
          /\ UNCHANGED exec_context => \E at \in SendLabels : Forwards(at)
    BY DEF SendLabels, Forwards, AfterSend
  <2>7. WriteBytes("sendBody", AfterBody(bytes[1].kind)) /\ UNCHANGED exec_context =>
            \E at \in SendLabels : Forwards(at)
    BY DEF SendLabels, Forwards, AfterSend
  <2>8. WriteBytes("sendReply", IF bytes[1].kind = "S" THEN "acceptTLS" ELSE "readStartupLength")
          /\ UNCHANGED exec_context => \E at \in SendLabels : Forwards(at)
    BY DEF SendLabels, Forwards, AfterSend
  <2>9. WriteBytes("sendStartup", "select") /\ UNCHANGED exec_context =>
            \E at \in SendLabels : Forwards(at)
    BY DEF SendLabels, Forwards, AfterSend
  <2> QED BY <1>2, <2>1, <2>2, <2>3, <2>4, <2>5, <2>6, <2>7, <2>8, <2>9 DEF PostgreSQLHandshake
<1>3. CASE SwitchToTLS
  BY <1>3 DEF SwitchToTLS, AfterTLS
<1> QED BY <1>1, <1>2, <1>3 DEF Handshake

-----------------------------------------------------------------------------
(* Sequences.                                                              *)

LEMMA FirstAndRest ==
    ASSUME NEW S, NEW q \in Seq(S), NEW k \in 0..Len(q)
    PROVE  /\ SubSeq(q, 1, k) \in Seq(S) /\ Len(SubSeq(q, 1, k)) = k
           /\ \A i \in 1..k : SubSeq(q, 1, k)[i] = q[i]
           /\ SubSeq(q, k + 1, Len(q)) \in Seq(S)
           /\ Len(SubSeq(q, k + 1, Len(q))) = Len(q) - k
           /\ \A i \in 1..(Len(q) - k) : SubSeq(q, k + 1, Len(q))[i] = q[k + i]
<1>1. PICK n \in Nat : n = Len(q)
  OBVIOUS
<1>2. k \in Nat /\ k <= n
  BY <1>1
<1>3. \A i \in 1..n : q[i] \in S
  BY <1>1
<1>4. /\ SubSeq(q, 1, k) \in Seq(S) /\ Len(SubSeq(q, 1, k)) = k
      /\ \A i \in 1..k : SubSeq(q, 1, k)[i] = q[i]
  <2>1. \A i \in 1..k : q[i] \in S
    BY <1>2, <1>3
  <2>2. /\ SubSeq(q, 1, k) \in Seq(S) /\ Len(SubSeq(q, 1, k)) = IF 1 <= k THEN k - 1 + 1 ELSE 0
        /\ \A i \in 1..(k - 1 + 1) : SubSeq(q, 1, k)[i] = q[1 + i - 1]
    BY <1>2, <2>1, SubSeqProperties
  <2>3. k - 1 + 1 = k /\ (IF 1 <= k THEN k - 1 + 1 ELSE 0) = k /\ \A i \in 1..k : 1 + i - 1 = i
    BY <1>2
  <2> QED BY <2>2, <2>3
<1>5. /\ SubSeq(q, k + 1, n) \in Seq(S)
      /\ Len(SubSeq(q, k + 1, n)) = n - k
      /\ \A i \in 1..(n - k) : SubSeq(q, k + 1, n)[i] = q[k + i]
  <2>1. \A i \in (k + 1)..n : q[i] \in S
    BY <1>2, <1>3
  <2>2. k + 1 \in Int
    BY <1>2
  <2>3. /\ SubSeq(q, k + 1, n) \in Seq(S)
        /\ Len(SubSeq(q, k + 1, n)) = IF k + 1 <= n THEN n - (k + 1) + 1 ELSE 0
        /\ \A i \in 1..(n - (k + 1) + 1) : SubSeq(q, k + 1, n)[i] = q[k + 1 + i - 1]
    BY <2>1, <2>2, SubSeqProperties
  <2>4. /\ n - (k + 1) + 1 = n - k /\ (IF k + 1 <= n THEN n - (k + 1) + 1 ELSE 0) = n - k
        /\ \A i \in 1..(n - k) : k + 1 + i - 1 = k + i
    BY <1>2
  <2> QED BY <2>3, <2>4
<1> QED BY <1>1, <1>4, <1>5

LEMMA HeadFirst ==
    ASSUME NEW S, NEW q \in Seq(S), q # <<>>
    PROVE  1 \in 0..Len(q) /\ SubSeq(q, 1, 1) = <<Head(q)>>
<1>1. Len(q) \in Nat \ {0}
  BY EmptySeq
<1>2. 1 \in 0..Len(q)
  BY <1>1
<1>3. /\ SubSeq(q, 1, 1) \in Seq(S) /\ Len(SubSeq(q, 1, 1)) = 1
      /\ \A i \in 1..1 : SubSeq(q, 1, 1)[i] = q[i]
  BY <1>2, FirstAndRest
<1>4. q[1] \in S
  BY <1>1
<1>5. <<q[1]>> \in Seq(S) /\ Len(<<q[1]>>) = 1 /\ <<q[1]>>[1] = q[1]
  BY <1>4
<1>6. SubSeq(q, 1, 1)[1] = q[1]
  BY <1>3
<1>7. SubSeq(q, 1, 1) = <<q[1]>>
  <2> DEFINE a == SubSeq(q, 1, 1)
             w == <<q[1]>>
  <2>1. a \in Seq(S) /\ w \in Seq(S) /\ Len(a) = 1 /\ Len(w) = 1 /\ a[1] = w[1]
    BY <1>3, <1>5, <1>6
  <2> HIDE DEF a, w
  <2>2. Len(a) = Len(w) /\ \A i \in 1..Len(a) : a[i] = w[i]
    BY <2>1
  <2>3. a = w
    BY <2>1, <2>2, SeqEqual
  <2> QED BY <2>3 DEF a, w
<1> QED BY <1>2, <1>7 DEF Head

-----------------------------------------------------------------------------
(* The handlers of these plugins.                                          *)

\* They hand back what they are given, or throw, and leave the context alone.
LEMMA HandlersHandBack ==
    ASSUME NEW h \in HandshakeHandlers, NEW buf, NEW ctx
    PROVE  /\ \A r \in HandleUpstreamData(h, buf, ctx) :
                 r.ctx = ctx /\ (~ r.throws => r.out = buf)
           /\ \A r \in HandleDownStreamData(h, buf, ctx) :
                 r.ctx = ctx /\ r.out = buf /\ ~ r.throws
<1>1. \A r \in {Returns(buf, ctx), Throws(ctx)} : r.ctx = ctx /\ (~ r.throws => r.out = buf)
  BY DEF Returns, Throws
<1>2. HandleUpstreamData(h, buf, ctx) \subseteq {Returns(buf, ctx), Throws(ctx)}
  BY DEF HandshakeHandlers, HandleUpstreamData, BaseProxyHandlerUp, CMySQLHandlerUp,
         CPostgreSQLHandlerUp
<1>3. HandleDownStreamData(h, buf, ctx) = {Returns(buf, ctx)}
  BY DEF HandshakeHandlers, HandleDownStreamData, OtherHandlersDown
<1> QED BY <1>1, <1>2, <1>3 DEF Returns

-----------------------------------------------------------------------------
(* What a step does to the units: nothing, drop what is in hand, take the  *)
(* next k of a peer, or give the first k in hand to the other one.         *)

Kept == UNCHANGED <<sent, read, outbox, from, bytes>>

Lost == bytes' = <<>> /\ UNCHANGED <<sent, read, outbox, from>>

Took(s, k) ==
    /\ k \in 1..Arrived(s)
    /\ bytes' = bytes \o NextUnits(s, k)
    /\ from' = s
    /\ read' = [read EXCEPT ![s] = @ + k]
    /\ UNCHANGED <<sent, outbox>>

Gave(k) ==
    /\ k \in 0..Len(bytes)
    /\ outbox' = [outbox EXCEPT ![Other(from)] =
                     @ \o Through(Other(from), SubSeq(bytes, 1, k))]
    /\ bytes' = SubSeq(bytes, k + 1, Len(bytes))
    /\ UNCHANGED <<sent, read, from>>

\* Where units are in hand, and where that is exactly one.
Single == {"sendGreeting", "checkCapabilities", "sendResponse", "sendLogin", "sendVerdict",
           "sendLength", "sendBody", "sendReply", "readStartupBody"}
Holding == Single \cup {"sendStartup", "forwardUp", "forwardDown"}

\* Where no error has been met yet.
Clean == HandshakeLabels \cup {"start", "readClient", "forwardUp"}

MySQLLabels == {"readGreeting", "sendGreeting", "readResponse", "checkCapabilities",
                "sendResponse", "readLogin", "sendLogin", "readVerdict", "sendVerdict"}
PostgreSQLLabels == {"readLength", "sendLength", "readBody", "sendBody", "readReply",
                     "sendReply", "readStartupLength", "readStartupBody", "sendStartup"}

Control ==
    /\ pc \in Holding => from = Whose(pc)
    /\ pc \notin Holding => bytes = <<>>
    /\ pc \in Single => Len(bytes) = 1
    /\ pc \in Clean => ~ has_error
    /\ pc \in MySQLLabels => plugin = "MySQLPipeline"
    /\ pc \in PostgreSQLLabels => plugin = "PostgreSQLPipeline"
    /\ pc \notin {"start", "done", "escaped"} => handler # NoHandler

\* The shape of each action of the thread that moves units.
LEMMA RecvShape ==
    ASSUME NEW at, NEW s, NEW next, RecvBlocking(at, s, next), TypeOK, s \in Sides
    PROVE  /\ pc = at
           /\ UNCHANGED <<config, readable, logging, exec_context, selectFaults, secure, open,
                          link, sent, outbox>>
           /\ \/ Took(s, 1) /\ pc' = next /\ has_error' = has_error /\ link[s] # "rst"
              \/ Lost /\ pc' = "close" /\ has_error' = TRUE
<1>1. /\ pc = at
      /\ UNCHANGED <<config, readable, logging, exec_context, selectFaults, secure, open,
                     link, sent, outbox>>
  BY DEF RecvBlocking
<1>2. CASE /\ Arrived(s) > 0 /\ link[s] # "rst"
           /\ bytes' = InHand(s) /\ from' = s /\ read' = [read EXCEPT ![s] = @ + 1]
           /\ pc' = next /\ UNCHANGED has_error
  <2>1. Arrived(s) \in Int
    BY DEF Arrived, TypeOK
  <2>2. 1 \in 1..Arrived(s)
    BY <1>2, <2>1
  <2> QED BY <1>1, <1>2, <2>2 DEF Took, InHand
<1>3. CASE HandshakeError /\ UNCHANGED <<from, read>>
  BY <1>1, <1>3 DEF HandshakeError, Lost
<1> QED BY <1>1, <1>2, <1>3 DEF RecvBlocking

LEMMA WriteShape ==
    ASSUME NEW at \in SendLabels, Forwards(at), TypeOK
    PROVE  /\ pc = at
           /\ UNCHANGED <<config, readable, logging, selectFaults, secure, open, sent, read>>
           /\ exec_context' \in {exec_context, [exec_context EXCEPT !.capabilities = TRUE]}
           /\ \/ /\ Gave(IF bytes = <<>> THEN 0 ELSE 1)
                 /\ pc' = IF Len(bytes) > 1 THEN at ELSE AfterSend(at)
                 /\ has_error' = has_error
              \/ Lost /\ pc' = "close" /\ has_error' = TRUE
<1>1. /\ pc = at
      /\ UNCHANGED <<config, readable, from, logging, selectFaults, secure, open, sent, read>>
  BY DEF Forwards, WriteBytes
<1>2. exec_context' \in {exec_context, [exec_context EXCEPT !.capabilities = TRUE]}
  BY DEF Forwards
<1>3. CASE SendThrows(Other(from)) /\ HandshakeError
  BY <1>1, <1>2, <1>3 DEF SendThrows, HandshakeError, Lost
<1>4. CASE /\ SendBytes(Other(from), IF bytes = <<>> THEN <<>> ELSE <<Head(bytes)>>)
           /\ bytes' = SubSeq(bytes, 2, Len(bytes))
           /\ pc' = IF Len(bytes) > 1 THEN at ELSE AfterSend(at)
           /\ UNCHANGED has_error
  <2>0. bytes \in Seq(Unit)
    BY DEF TypeOK
  <2>1. CASE bytes = <<>>
    <3>1. SubSeq(bytes, 2, Len(bytes)) = SubSeq(bytes, 1, Len(bytes)) /\ 0 \in 0..Len(bytes)
      BY <2>0, <2>1
    <3>2. SubSeq(bytes, 1, 0) = <<>>
      BY SubSeqEmpty
    <3>3. bytes' = SubSeq(bytes, 0 + 1, Len(bytes))
      BY <1>4, <3>1
    <3>4. outbox' = [outbox EXCEPT ![Other(from)] = @ \o Through(Other(from), SubSeq(bytes, 1, 0))]
      BY <1>4, <2>1, <3>2 DEF SendBytes
    <3>5. Gave(0)
      BY <1>1, <3>1, <3>3, <3>4 DEF Gave
    <3> QED BY <1>1, <1>2, <1>4, <2>1, <3>5
  <2>2. CASE bytes # <<>>
    <3>1. 1 \in 0..Len(bytes) /\ SubSeq(bytes, 1, 1) = <<Head(bytes)>>
      BY <2>0, <2>2, HeadFirst
    <3>2. bytes' = SubSeq(bytes, 1 + 1, Len(bytes))
      BY <1>4
    <3>3. Gave(1)
      BY <1>1, <1>4, <2>2, <3>1, <3>2 DEF Gave, SendBytes
    <3> QED BY <1>1, <1>2, <1>4, <2>2, <3>3
  <2> QED BY <2>1, <2>2
<1> QED BY <1>1, <1>3, <1>4 DEF Forwards, WriteBytes

LEMMA UnitsTyped ==
    ASSUME TypeOK, NEW s \in Sides, NEW k \in 0..Arrived(s)
    PROVE  /\ NextUnits(s, k) \in Seq(Unit) /\ Len(NextUnits(s, k)) = k
           /\ \A i \in 1..k : NextUnits(s, k)[i] =
                 [n |-> read[s] + i, kind |-> sent[s][read[s] + i].kind, form |-> "raw",
                  tls |-> sent[s][read[s] + i].tls, via |-> secure[s]]
<1>0. /\ read[s] \in Nat /\ Len(sent[s]) \in Nat
      /\ sent[s] \in Seq([kind : Kinds, tls : BOOLEAN]) /\ secure[s] \in BOOLEAN
  <2>1. /\ read \in [Sides -> Nat] /\ secure \in [Sides -> BOOLEAN]
        /\ sent \in [Sides -> Seq([kind : Kinds, tls : BOOLEAN])]
    BY DEF TypeOK
  <2>2. sent[s] \in Seq([kind : Kinds, tls : BOOLEAN])
    BY <2>1, Zenon
  <2>3. Len(sent[s]) \in Nat
    BY <2>2, LenProperties
  <2>4. read[s] \in Nat /\ secure[s] \in BOOLEAN
    BY <2>1, Zenon
  <2> QED BY <2>2, <2>3, <2>4
<1>1. k \in Nat /\ read[s] + k <= Len(sent[s])
  BY <1>0 DEF Arrived
<1>2. ASSUME NEW i \in 1..k
      PROVE  [n |-> read[s] + i, kind |-> sent[s][read[s] + i].kind, form |-> "raw",
              tls |-> sent[s][read[s] + i].tls, via |-> secure[s]] \in Unit
  <2>1. read[s] + i \in 1..Len(sent[s])
    BY <1>0, <1>1
  <2>2. sent[s][read[s] + i] \in [kind : Kinds, tls : BOOLEAN]
    BY <1>0, <2>1, ElementOfSeq
  <2>3. read[s] + i \in Nat
    BY <1>0, <1>1
  <2> QED BY <1>0, <2>2, <2>3 DEF Unit, Forms
<1>3. NextUnits(s, k) \in Seq(Unit) /\ Len(NextUnits(s, k)) = k
  BY <1>1, <1>2 DEF NextUnits
<1> QED BY <1>3 DEF NextUnits

LEMMA ReadShape ==
    ASSUME TypeOK, bytes = <<>>, NEW s \in Sides, NEW forward, NEW next, Read(s, forward, next),
           UNCHANGED <<sent, outbox>>
    PROVE  \/ Kept /\ pc' = next /\ has_error' \in {has_error, TRUE}
           \/ /\ \E k \in 1..Arrived(s) : Took(s, k)
              /\ pc' = forward /\ has_error' = has_error
<1>1. ASSUME NEW k \in 1..Arrived(s), bytes' = NextUnits(s, k), from' = s,
             read' = [read EXCEPT ![s] = @ + k]
      PROVE  Took(s, k)
  <2>1. k \in 0..Arrived(s)
    BY DEF Arrived, TypeOK
  <2>2. NextUnits(s, k) \in Seq(Unit)
    BY <2>1, UnitsTyped
  <2>3. <<>> \o NextUnits(s, k) = NextUnits(s, k)
    BY <2>2
  <2> QED BY <1>1, <2>3 DEF Took
<1> QED BY <1>1 DEF Read, Kept

-----------------------------------------------------------------------------
(* Type correctness.                                                       *)

Msg == [kind : Kinds, tls : BOOLEAN]

UnitsType ==
    /\ from \in Sides /\ bytes \in Seq(Unit)
    /\ sent \in [Sides -> Seq(Msg)]
    /\ read \in [Sides -> Nat]
    /\ outbox \in [Sides -> Seq(SentUnit)]

LEMMA UnitsTypeOK == TypeOK => UnitsType
BY DEF TypeOK, UnitsType, Msg

LEMMA OtherSide ==
    ASSUME NEW s \in Sides
    PROVE  Other(s) \in Sides /\ Other(s) # s /\ Other(Other(s)) = s
           /\ \A d \in Sides : d # s => d = Other(s)
BY DEF Sides, Other

LEMMA TookTyped ==
    ASSUME TypeOK, NEW s \in Sides, NEW k, Took(s, k)
    PROVE  /\ UnitsType'
           /\ k \in Nat /\ k >= 1 /\ Len(bytes') = Len(bytes) + k
           /\ \A i \in 1..Len(bytes) : bytes'[i] = bytes[i]
           /\ \A i \in 1..k : bytes'[Len(bytes) + i] =
                 [n |-> read[s] + i, kind |-> sent[s][read[s] + i].kind, form |-> "raw",
                  tls |-> sent[s][read[s] + i].tls, via |-> secure[s]]
           /\ read'[s] = read[s] + k /\ read[s] + k <= Len(sent[s])
           /\ \A d \in Sides : d # s => read'[d] = read[d]
<1>0. UnitsType
  BY UnitsTypeOK
<1>1. bytes \in Seq(Unit) /\ Len(bytes) \in Nat /\ read[s] \in Nat /\ Len(sent[s]) \in Nat
  BY <1>0 DEF UnitsType
<1>2. k \in Nat /\ k >= 1 /\ read[s] + k <= Len(sent[s]) /\ k \in 0..Arrived(s)
  BY <1>1 DEF Took, Arrived
<1> DEFINE u == NextUnits(s, k)
<1>3. /\ u \in Seq(Unit) /\ Len(u) = k
      /\ \A i \in 1..k : u[i] =
            [n |-> read[s] + i, kind |-> sent[s][read[s] + i].kind, form |-> "raw",
             tls |-> sent[s][read[s] + i].tls, via |-> secure[s]]
  BY <1>2, UnitsTyped
<1>4. bytes' = bytes \o u
  BY DEF Took
<1> HIDE DEF u
<1>5. /\ bytes' \in Seq(Unit) /\ Len(bytes') = Len(bytes) + k
      /\ \A i \in 1..Len(bytes) : bytes'[i] = bytes[i]
      /\ \A i \in 1..k : bytes'[Len(bytes) + i] = u[i]
  <2>1. u \in Seq(Unit) /\ Len(u) = k
    BY <1>3
  <2>2. /\ bytes \o u \in Seq(Unit) /\ Len(bytes \o u) = Len(bytes) + Len(u)
        /\ \A i \in 1..Len(bytes) : (bytes \o u)[i] = bytes[i]
        /\ \A i \in 1..Len(u) : (bytes \o u)[Len(bytes) + i] = u[i]
    BY <1>1, <2>1
  <2> QED BY <1>4, <2>1, <2>2
<1>6. read' = [read EXCEPT ![s] = read[s] + k] /\ from' = s /\ UNCHANGED <<sent, outbox>>
  BY DEF Took
<1>7. /\ read' \in [Sides -> Nat] /\ read'[s] = read[s] + k
      /\ \A d \in Sides : d # s => read'[d] = read[d]
  BY <1>0, <1>1, <1>2, <1>6 DEF UnitsType
<1>8. UnitsType'
  BY <1>0, <1>5, <1>6, <1>7 DEF UnitsType
<1> QED BY <1>2, <1>3, <1>5, <1>7, <1>8

LEMMA ThroughTyped ==
    ASSUME NEW s \in Sides, secure[s] \in BOOLEAN, NEW out \in Seq(Unit)
    PROVE  /\ Through(s, out) \in Seq(SentUnit) /\ Len(Through(s, out)) = Len(out)
           /\ \A i \in 1..Len(out) :
                 /\ Through(s, out)[i].n = out[i].n /\ Through(s, out)[i].kind = out[i].kind
                 /\ Through(s, out)[i].tls = out[i].tls /\ Through(s, out)[i].via = out[i].via
                 /\ Through(s, out)[i].over = secure[s]
<1> DEFINE T(i) == [n |-> out[i].n, kind |-> out[i].kind, form |-> out[i].form,
                    tls |-> out[i].tls, via |-> out[i].via, over |-> secure[s]]
<1>1. PICK m \in Nat : m = Len(out)
  OBVIOUS
<1>2. Through(s, out) = [i \in 1..m |-> T(i)]
  BY <1>1 DEF Through
<1>3. ASSUME NEW i \in 1..m PROVE T(i) \in SentUnit
  <2>1. out[i] \in Unit
    BY <1>1
  <2> QED BY <2>1 DEF Unit, SentUnit
<1>4. \A i \in 1..m : /\ T(i).n = out[i].n /\ T(i).kind = out[i].kind /\ T(i).tls = out[i].tls
                      /\ T(i).via = out[i].via /\ T(i).over = secure[s]
  OBVIOUS
<1> HIDE DEF T
<1> QED BY <1>1, <1>2, <1>3, <1>4

LEMMA GaveTyped ==
    ASSUME TypeOK, NEW k, Gave(k)
    PROVE  /\ UnitsType'
           /\ k \in Nat /\ k <= Len(bytes) /\ Len(bytes') = Len(bytes) - k
           /\ \A i \in 1..(Len(bytes) - k) : bytes'[i] = bytes[k + i]
           /\ Len(outbox'[Other(from)]) = Len(outbox[Other(from)]) + k
           /\ \A i \in 1..Len(outbox[Other(from)]) :
                 outbox'[Other(from)][i] = outbox[Other(from)][i]
           /\ \A i \in 1..k :
                 LET u == outbox'[Other(from)][Len(outbox[Other(from)]) + i]
                 IN  /\ u.n = bytes[i].n /\ u.kind = bytes[i].kind /\ u.tls = bytes[i].tls
                     /\ u.via = bytes[i].via /\ u.over = secure[Other(from)]
           /\ outbox'[from] = outbox[from]
<1>0. UnitsType
  BY UnitsTypeOK
<1> DEFINE t == Other(from)
           q == SubSeq(bytes, 1, k)
           out == Through(t, q)
<1>1. bytes \in Seq(Unit) /\ Len(bytes) \in Nat /\ t \in Sides /\ t # from /\ from \in Sides
  BY <1>0, OtherSide DEF UnitsType
<1>2. k \in 0..Len(bytes)
  BY DEF Gave
<1>3. k \in Nat /\ k <= Len(bytes)
  BY <1>1, <1>2
<1>4. /\ q \in Seq(Unit) /\ Len(q) = k /\ \A i \in 1..k : q[i] = bytes[i]
  BY <1>1, <1>2, FirstAndRest
<1>5. /\ bytes' \in Seq(Unit) /\ Len(bytes') = Len(bytes) - k
      /\ \A i \in 1..(Len(bytes) - k) : bytes'[i] = bytes[k + i]
  <2>1. bytes' = SubSeq(bytes, k + 1, Len(bytes))
    BY DEF Gave
  <2> QED BY <1>1, <1>2, <2>1, FirstAndRest
<1>6. secure[t] \in BOOLEAN
  BY <1>1 DEF TypeOK
<1> HIDE DEF t, q
<1>7. /\ out \in Seq(SentUnit) /\ Len(out) = k
      /\ \A i \in 1..k : /\ out[i].n = bytes[i].n /\ out[i].kind = bytes[i].kind
                         /\ out[i].tls = bytes[i].tls /\ out[i].via = bytes[i].via
                         /\ out[i].over = secure[t]
  BY <1>1, <1>4, <1>6, ThroughTyped
<1>8. outbox' = [outbox EXCEPT ![t] = outbox[t] \o out]
  BY DEF Gave, t, q
<1> HIDE DEF out
<1>9. outbox[t] \in Seq(SentUnit) /\ Len(outbox[t]) \in Nat
  BY <1>0, <1>1 DEF UnitsType
<1>10. /\ outbox[t] \o out \in Seq(SentUnit)
       /\ Len(outbox[t] \o out) = Len(outbox[t]) + k
       /\ \A i \in 1..Len(outbox[t]) : (outbox[t] \o out)[i] = outbox[t][i]
       /\ \A i \in 1..k : (outbox[t] \o out)[Len(outbox[t]) + i] = out[i]
  <2>1. out \in Seq(SentUnit) /\ Len(out) = k
    BY <1>7
  <2>2. /\ outbox[t] \o out \in Seq(SentUnit)
        /\ Len(outbox[t] \o out) = Len(outbox[t]) + Len(out)
        /\ \A i \in 1..Len(outbox[t]) : (outbox[t] \o out)[i] = outbox[t][i]
        /\ \A i \in 1..Len(out) : (outbox[t] \o out)[Len(outbox[t]) + i] = out[i]
    BY <1>9, <2>1
  <2> QED BY <2>1, <2>2
<1>11. /\ outbox' \in [Sides -> Seq(SentUnit)]
       /\ outbox'[t] = outbox[t] \o out /\ outbox'[from] = outbox[from]
  BY <1>0, <1>1, <1>8, <1>10 DEF UnitsType
<1>12. UnitsType'
  <2>1. UNCHANGED <<sent, read, from>>
    BY DEF Gave
  <2> QED BY <1>0, <1>5, <1>11, <2>1 DEF UnitsType
<1>13. \A i \in 1..k :
          LET u == outbox'[t][Len(outbox[t]) + i]
          IN  /\ u.n = bytes[i].n /\ u.kind = bytes[i].kind /\ u.tls = bytes[i].tls
              /\ u.via = bytes[i].via /\ u.over = secure[t]
  BY <1>7, <1>10, <1>11
<1>14. /\ Len(outbox'[t]) = Len(outbox[t]) + k
       /\ \A i \in 1..Len(outbox[t]) : outbox'[t][i] = outbox[t][i]
  BY <1>10, <1>11
<1> QED BY <1>3, <1>5, <1>11, <1>12, <1>13, <1>14 DEF t

LEMMA MovesTyped ==
    ASSUME TypeOK, Kept \/ Lost \/ (\E s \in Sides : \E k \in Int : Took(s, k))
                        \/ (\E k \in Int : Gave(k))
    PROVE  UnitsType'
<1>0. UnitsType
  BY UnitsTypeOK
<1>1. CASE Kept
  BY <1>0, <1>1 DEF UnitsType, Kept
<1>2. CASE Lost
  BY <1>0, <1>2 DEF UnitsType, Lost
<1> QED BY <1>1, <1>2, TookTyped, GaveTyped

\* What the loop does with the units of one direction.
LEMMA UpShape ==
    ASSUME TypeOK, Control, ForwardUp
    PROVE  /\ pc = "forwardUp" /\ exec_context' = exec_context
           /\ UNCHANGED <<config, readable, from, logging, selectFaults, secure, open, sent, read>>
           /\ \/ Lost /\ has_error' = TRUE /\ pc' = "readTarget"
              \/ \E k \in 0..Len(bytes) :
                    /\ Gave(k) /\ has_error' = has_error
                    /\ pc' = IF k < Len(bytes) THEN "forwardUp" ELSE "readTarget"
<1>1. /\ pc = "forwardUp" /\ from = "client"
      /\ UNCHANGED <<config, readable, from, logging, selectFaults, secure, open, sent, read>>
  BY DEF ForwardUp, Control, Holding, Whose
<1>2. handler \in HandshakeHandlers
  <2>1. handler \in Handlers[plugin] /\ plugin \in Plugins /\ handler # NoHandler
    BY <1>1 DEF TypeOK, Control
  <2> QED BY <2>1, HandlersAssumption
<1>3. PICK piece \in NextPiece : \E r \in HandleUpstreamData(handler, piece, exec_context) :
          /\ exec_context' = r.ctx
          /\ \/ /\ r.throws
                /\ ForwardError("readTarget")
                /\ UNCHANGED <<link, outbox>>
             \/ /\ ~r.throws
                /\ SendThrows("target")
                /\ ForwardError("readTarget")
             \/ /\ ~r.throws
                /\ SendBytes("target", r.out)
                /\ bytes' = SubSeq(bytes, Len(piece) + 1, Len(bytes))
                /\ pc' = IF Len(piece) < Len(bytes) THEN "forwardUp" ELSE "readTarget"
                /\ UNCHANGED has_error
  BY DEF ForwardUp
<1>4. PICK r \in HandleUpstreamData(handler, piece, exec_context) :
          /\ exec_context' = r.ctx
          /\ \/ /\ ForwardError("readTarget")
                /\ UNCHANGED outbox
             \/ /\ ~r.throws
                /\ SendBytes("target", r.out)
                /\ bytes' = SubSeq(bytes, Len(piece) + 1, Len(bytes))
                /\ pc' = IF Len(piece) < Len(bytes) THEN "forwardUp" ELSE "readTarget"
                /\ UNCHANGED has_error
  BY <1>3 DEF SendThrows
<1>5. r.ctx = exec_context /\ (~ r.throws => r.out = piece)
  BY <1>2, HandlersHandBack
<1>6. exec_context' = exec_context
  BY <1>4, <1>5
<1>7. \E k \in 0..Len(bytes) : piece = SubSeq(bytes, 1, k) /\ Len(piece) = k
  <2>1. bytes \in Seq(Unit)
    BY DEF TypeOK
  <2>2. CASE plugin = "MySQLPipeline"
    <3>1. PICK k \in 1..Len(bytes) : piece = SubSeq(bytes, 1, k)
      BY <2>2 DEF NextPiece
    <3>2. k \in 0..Len(bytes)
      OBVIOUS
    <3>3. Len(SubSeq(bytes, 1, k)) = k
      BY <2>1, <3>2, FirstAndRest
    <3> QED BY <3>1, <3>2, <3>3
  <2>3. CASE plugin # "MySQLPipeline"
    <3>1. piece = bytes
      BY <2>3 DEF NextPiece
    <3>2. SubSeq(bytes, 1, Len(bytes)) = bytes
      BY <2>1, SubSeqFull
    <3>3. Len(bytes) \in 0..Len(bytes)
      BY <2>1, LenProperties
    <3> QED BY <3>1, <3>2, <3>3
  <2> QED BY <2>2, <2>3
<1>8. CASE ForwardError("readTarget") /\ UNCHANGED outbox
  BY <1>1, <1>6, <1>8 DEF ForwardError, Lost
<1>9. CASE /\ SendBytes("target", piece)
           /\ bytes' = SubSeq(bytes, Len(piece) + 1, Len(bytes))
           /\ pc' = IF Len(piece) < Len(bytes) THEN "forwardUp" ELSE "readTarget"
           /\ UNCHANGED has_error
  <2>1. PICK k \in 0..Len(bytes) : piece = SubSeq(bytes, 1, k) /\ Len(piece) = k
    BY <1>7
  <2>2. Other(from) = "target"
    BY <1>1 DEF Other
  <2>3. Gave(k)
    BY <1>1, <1>9, <2>1, <2>2 DEF Gave, SendBytes
  <2> QED BY <1>1, <1>6, <1>9, <2>1, <2>3
<1> QED BY <1>4, <1>5, <1>8, <1>9

LEMMA DownShape ==
    ASSUME TypeOK, Control, ForwardDown
    PROVE  /\ pc = "forwardDown" /\ pc' = "select" /\ exec_context' = exec_context
           /\ UNCHANGED <<config, readable, from, logging, selectFaults, secure, open, sent, read>>
           /\ \/ Lost /\ has_error' = TRUE
              \/ Gave(Len(bytes)) /\ has_error' = has_error
<1>1. /\ pc = "forwardDown" /\ from = "target"
      /\ UNCHANGED <<config, readable, from, logging, selectFaults, secure, open, sent, read>>
  BY DEF ForwardDown, Control, Holding, Whose
<1>2. handler \in HandshakeHandlers
  <2>1. handler \in Handlers[plugin] /\ plugin \in Plugins /\ handler # NoHandler
    BY <1>1 DEF TypeOK, Control
  <2> QED BY <2>1, HandlersAssumption
<1>3. PICK r \in HandleDownStreamData(handler, bytes, exec_context) :
          /\ exec_context' = r.ctx
          /\ \/ /\ IF r.throws THEN UNCHANGED <<link, outbox>> ELSE SendThrows("client")
                /\ ForwardError("select")
             \/ /\ ~ r.throws
                /\ SendBytes("client", r.out)
                /\ bytes' = <<>>
                /\ pc' = "select"
                /\ UNCHANGED has_error
  BY DEF ForwardDown
<1>4. r.ctx = exec_context /\ r.out = bytes /\ ~ r.throws
  BY <1>2, HandlersHandBack
<1>5. CASE SendThrows("client") /\ ForwardError("select")
  BY <1>1, <1>3, <1>4, <1>5 DEF SendThrows, ForwardError, Lost
<1>6. CASE SendBytes("client", bytes) /\ bytes' = <<>> /\ pc' = "select" /\ UNCHANGED has_error
  <2>1. bytes \in Seq(Unit)
    BY DEF TypeOK
  <2>2. Len(bytes) \in 0..Len(bytes) /\ Len(bytes) < Len(bytes) + 1 /\ Len(bytes) \in Int
    BY <2>1, LenProperties
  <2>3. SubSeq(bytes, 1, Len(bytes)) = bytes
    BY <2>1, SubSeqFull
  <2>4. SubSeq(bytes, Len(bytes) + 1, Len(bytes)) = <<>>
    BY <2>2, SubSeqEmpty
  <2>5. Other(from) = "client"
    BY <1>1 DEF Other
  <2>6. Gave(Len(bytes))
    BY <1>1, <1>6, <2>2, <2>3, <2>4, <2>5 DEF Gave, SendBytes
  <2> QED BY <1>1, <1>3, <1>4, <1>6, <2>6
<1> QED BY <1>3, <1>4, <1>5, <1>6

Labels == {"start", "close", "done", "escaped"} \cup HandshakeLabels \cup LoopLabels

RestType ==
    /\ plugin \in Plugins /\ handler \in Handlers[plugin] /\ pc \in Labels
    /\ readable \in SUBSET Sides /\ has_error \in BOOLEAN
    /\ latency_logged \in BOOLEAN /\ correlation_id \in Nat /\ exec_context \in ContextType
    /\ latency \in Seq(Nat) /\ selectFaults \in 0..MaxSelectFaults
    /\ secure \in [Sides -> BOOLEAN] /\ open \in [Sides -> BOOLEAN]
    /\ link \in [Sides -> {"up", "fin", "rst"}]

LEMMA TypeParts == TypeOK <=> UnitsType /\ RestType
BY DEF TypeOK, UnitsType, RestType, Msg, Labels

LEMMA CapabilitiesTyped ==
    ASSUME exec_context \in ContextType
    PROVE  [exec_context EXCEPT !.capabilities = TRUE] \in ContextType
BY DEF ContextType

LEMMA AfterTyped ==
    ASSUME TRUE
    PROVE  /\ \A at \in ReadLabels : AfterRead(at) \in Labels
           /\ \A at \in SendLabels : AfterSend(at) \in Labels
           /\ AfterTLS \in Labels /\ SendLabels \subseteq Labels
<1>1. \A at \in ReadLabels : AfterRead(at) \in Labels
  BY DEF ReadLabels, AfterRead, Labels, HandshakeLabels
<1>2. \A at \in SendLabels : AfterSend(at) \in Labels
  BY DEF SendLabels, AfterSend, AfterBody, Labels, HandshakeLabels, LoopLabels
<1>3. AfterTLS \in Labels /\ SendLabels \subseteq Labels
  BY DEF AfterTLS, SendLabels, Labels, HandshakeLabels
<1> QED BY <1>1, <1>2, <1>3

LEMMA HandshakeTyped ==
    ASSUME TypeOK, Handshake PROVE TypeOK'
<1>0. UnitsType /\ RestType
  BY TypeParts
<1>1. ASSUME NEW at \in ReadLabels, RecvBlocking(at, Whose(at), AfterRead(at)) PROVE TypeOK'
  <2>1. Whose(at) \in Sides
    BY DEF Whose, Sides
  <2>2. /\ UNCHANGED <<config, readable, logging, exec_context, selectFaults, secure, open, link>>
        /\ \/ Took(Whose(at), 1) /\ pc' = AfterRead(at) /\ has_error' = has_error
           \/ Lost /\ pc' = "close" /\ has_error' = TRUE
    BY <1>1, <2>1, RecvShape
  <2>3. UnitsType'
    BY <2>1, <2>2, MovesTyped
  <2>4. pc' \in Labels /\ has_error' \in BOOLEAN
    BY <1>0, <2>2, AfterTyped DEF RestType, Labels
  <2>5. RestType'
    BY <1>0, <2>2, <2>4 DEF RestType, config, logging
  <2> QED BY <2>3, <2>5, TypeParts, PTL
<1>2. ASSUME NEW at \in SendLabels, Forwards(at) PROVE TypeOK'
  <2>1. /\ UNCHANGED <<config, readable, logging, selectFaults, secure, open>>
        /\ exec_context' \in {exec_context, [exec_context EXCEPT !.capabilities = TRUE]}
        /\ \/ /\ Gave(IF bytes = <<>> THEN 0 ELSE 1)
              /\ pc' = IF Len(bytes) > 1 THEN at ELSE AfterSend(at)
              /\ has_error' = has_error
           \/ Lost /\ pc' = "close" /\ has_error' = TRUE
    BY <1>2, WriteShape
  <2>2. UnitsType'
    BY <2>1, MovesTyped
  <2>3. pc' \in Labels /\ has_error' \in BOOLEAN
    BY <1>0, <2>1, AfterTyped DEF RestType, Labels
  <2>4. link' \in [Sides -> {"up", "fin", "rst"}]
    BY <1>0, <1>2 DEF Forwards, WriteBytes, SendBytes, SendThrows, RestType
  <2>5. exec_context' \in ContextType
    BY <1>0, <2>1, CapabilitiesTyped DEF RestType
  <2>6. RestType'
    BY <1>0, <2>1, <2>3, <2>4, <2>5 DEF RestType, config, logging
  <2> QED BY <2>2, <2>6, TypeParts, PTL
<1>3. CASE CheckCapabilities
  <2>1. /\ UNCHANGED <<config, readable, from, logging, exec_context, selectFaults, sockets>>
        /\ pc' \in {"close", "sendResponse"} /\ has_error' \in {has_error, TRUE}
        /\ bytes' \in {bytes, <<>>}
    BY <1>3 DEF CheckCapabilities, HandshakeError
  <2>2. UnitsType'
    <3>1. bytes' \in Seq(Unit)
      BY <1>0, <2>1, EmptySeq DEF UnitsType
    <3> QED BY <1>0, <2>1, <3>1 DEF UnitsType, sockets
  <2>3. pc' \in Labels /\ has_error' \in BOOLEAN
    BY <1>0, <2>1 DEF RestType, Labels, HandshakeLabels
  <2>4. RestType'
    BY <1>0, <2>1, <2>3 DEF RestType, config, logging, sockets
  <2> QED BY <2>2, <2>4, TypeParts, PTL
<1>4. ASSUME NEW at, NEW s \in Sides, NEW next \in Labels, Replace(at, s, next) PROVE TypeOK'
  <2>1. /\ UNCHANGED <<config, readable, from, logging, exec_context, selectFaults, open,
                       link, sent, read, outbox>>
        /\ pc' \in {next, "close"} /\ has_error' \in {has_error, TRUE}
        /\ bytes' \in {bytes, <<>>} /\ secure' \in {secure, [secure EXCEPT ![s] = TRUE]}
    BY <1>4 DEF Replace, HandshakeError
  <2>2. UnitsType'
    <3>1. bytes' \in Seq(Unit)
      BY <1>0, <2>1, EmptySeq DEF UnitsType
    <3> QED BY <1>0, <2>1, <3>1 DEF UnitsType
  <2>3. pc' \in Labels /\ has_error' \in BOOLEAN
    BY <1>0, <2>1 DEF RestType, Labels
  <2>4. secure' \in [Sides -> BOOLEAN]
    BY <1>0, <2>1 DEF RestType
  <2>5. RestType'
    BY <1>0, <2>1, <2>3, <2>4 DEF RestType, config, logging
  <2> QED BY <2>2, <2>5, TypeParts, PTL
<1>5. "connectTLS" \in Labels /\ "client" \in Sides /\ "target" \in Sides
  BY DEF Labels, HandshakeLabels, Sides
<1> QED BY <1>1, <1>2, <1>3, <1>4, <1>5, HandshakeTable, AfterTyped

LEMMA ReadTyped ==
    ASSUME TypeOK, Control, ReadClient \/ ReadTarget PROVE TypeOK'
<1>0. UnitsType /\ RestType
  BY TypeParts
<1>1. bytes = <<>>
  BY DEF ReadClient, ReadTarget, Control, Holding, Single
<1>2. \E s \in Sides : \E forward, next \in Labels : Read(s, forward, next)
  BY DEF ReadClient, ReadTarget, Sides, Labels, LoopLabels
<1>3. UNCHANGED <<config, readable, selectFaults, secure, open, link, sent, outbox>>
  BY DEF ReadClient, ReadTarget
<1>4. UnitsType' /\ pc' \in Labels /\ has_error' \in BOOLEAN
  <2>1. PICK s \in Sides : \E forward, next \in Labels : Read(s, forward, next)
    BY <1>2
  <2>2. PICK forward \in Labels, next \in Labels : Read(s, forward, next)
    BY <2>1
  <2>3. \/ Kept /\ pc' = next /\ has_error' \in {has_error, TRUE}
        \/ /\ \E k \in 1..Arrived(s) : Took(s, k)
           /\ pc' = forward /\ has_error' = has_error
    BY <1>1, <1>3, <2>2, ReadShape
  <2>4. UnitsType'
    <3>1. \A k \in 1..Arrived(s) : k \in Int
      OBVIOUS
    <3> QED BY <2>3, <3>1, MovesTyped
  <2> QED BY <1>0, <2>3, <2>4 DEF RestType
<1>5. /\ correlation_id' \in Nat /\ exec_context' \in ContextType
      /\ latency_logged' \in BOOLEAN /\ latency' \in Seq(Nat)
  <2>1. CASE ReadClient
    <3>1. OpenExchange \/ UNCHANGED <<correlation_id, exec_context, latency_logged>>
      BY <2>1 DEF ReadClient
    <3>2. correlation_id + 1 \in Nat
      BY <1>0 DEF RestType
    <3>3. [exec_context EXCEPT !.correlation_id = correlation_id + 1] \in ContextType
      BY <1>0, <3>2 DEF RestType, ContextType
    <3>4. UNCHANGED latency
      BY <2>1 DEF ReadClient
    <3> QED BY <1>0, <3>1, <3>2, <3>3, <3>4 DEF RestType, OpenExchange
  <2>2. CASE ReadTarget
    <3>1. /\ LogLatency \/ UNCHANGED <<latency, latency_logged>>
          /\ UNCHANGED <<correlation_id, exec_context>>
      BY <2>2 DEF ReadTarget
    <3>2. Append(latency, correlation_id) \in Seq(Nat)
      BY <1>0 DEF RestType
    <3> QED BY <1>0, <3>1, <3>2 DEF LogLatency, RestType
  <2> QED BY <2>1, <2>2
<1>6. RestType'
  BY <1>0, <1>3, <1>4, <1>5 DEF RestType, config
<1> QED BY <1>4, <1>6, TypeParts, PTL

LEMMA ForwardTyped ==
    ASSUME TypeOK, Control, ForwardUp \/ ForwardDown PROVE TypeOK'
<1>0. UnitsType /\ RestType
  BY TypeParts
<1>1. link' \in [Sides -> {"up", "fin", "rst"}]
  BY <1>0 DEF ForwardUp, ForwardDown, SendBytes, SendThrows, RestType
<1>2. /\ UNCHANGED <<config, readable, logging, selectFaults, secure, open, exec_context>>
      /\ pc' \in {"forwardUp", "readTarget", "select"} /\ has_error' \in {has_error, TRUE}
      /\ Lost \/ \E k \in Int : Gave(k)
  <2>1. CASE ForwardUp
    <3>1. \A k \in 0..Len(bytes) : k \in Int
      OBVIOUS
    <3> QED BY <2>1, <3>1, UpShape
  <2>2. CASE ForwardDown
    <3>1. Len(bytes) \in Int
      BY <1>0 DEF UnitsType
    <3> QED BY <2>2, <3>1, DownShape
  <2> QED BY <2>1, <2>2
<1>3. UnitsType'
  BY <1>2, MovesTyped
<1>4. pc' \in Labels /\ has_error' \in BOOLEAN
  BY <1>0, <1>2 DEF RestType, Labels, LoopLabels
<1>5. RestType'
  BY <1>0, <1>1, <1>2, <1>4 DEF RestType, config, logging
<1> QED BY <1>3, <1>5, TypeParts, PTL

LEMMA OffersTyped ==
    ASSUME plugin \in PluginNames
    PROVE  ClientOffers \subseteq Kinds /\ TargetOffers \subseteq Kinds
<1>1. CASE plugin = "MySQLPipeline"
  BY <1>1, OffersAssumption DEF ClientOffers, TargetOffers, Kinds, OfferKinds
<1>2. CASE plugin = "PostgreSQLPipeline"
  BY <1>2, OffersAssumption DEF ClientOffers, TargetOffers, Kinds, OfferKinds
<1> QED BY <1>1, <1>2 DEF PluginNames

LEMMA PeersTyped ==
    ASSUME TypeOK, Peers PROVE TypeOK'
<1>0. UnitsType /\ RestType
  BY TypeParts
<1>1. ASSUME NEW s \in Sides, PeerSends(s) PROVE TypeOK'
  <2>1. PICK k \in Kinds : sent' = [sent EXCEPT ![s] = Append(@, [kind |-> k, tls |-> UsesTLS(s)])]
    <3>1. plugin \in PluginNames
      BY <1>0, PluginsAssumption DEF RestType
    <3> QED BY <1>1, <3>1, OffersTyped DEF PeerSends
  <2>2. UsesTLS(s) \in BOOLEAN
    BY <1>0, PluginsAssumption DEF UsesTLS, Sides, RestType, PluginNames, Has, Received
  <2>3. [kind |-> k, tls |-> UsesTLS(s)] \in Msg
    BY <2>2 DEF Msg
  <2>4. sent' \in [Sides -> Seq(Msg)]
    BY <1>0, <2>1, <2>3 DEF UnitsType
  <2>5. UNCHANGED <<config, pc, readable, has_error, from, bytes, logging, exec_context,
                    selectFaults, secure, open, link, read, outbox>>
    BY <1>1 DEF PeerSends
  <2>6. UnitsType' /\ RestType'
    BY <1>0, <2>4, <2>5 DEF UnitsType, RestType, config, logging
  <2> QED BY <2>6, TypeParts, PTL
<1>2. ASSUME NEW s \in Sides, PeerLeaves(s) PROVE TypeOK'
  <2>1. link' \in [Sides -> {"up", "fin", "rst"}]
    BY <1>0, <1>2 DEF PeerLeaves, RestType
  <2>2. UNCHANGED <<config, pc, readable, has_error, from, bytes, logging, exec_context,
                    selectFaults, secure, open, sent, read, outbox>>
    BY <1>2 DEF PeerLeaves
  <2>3. UnitsType' /\ RestType'
    BY <1>0, <2>1, <2>2 DEF UnitsType, RestType, config, logging
  <2> QED BY <2>3, TypeParts, PTL
<1> QED BY <1>1, <1>2 DEF Peers

LEMMA TypeStep ==
    ASSUME TypeOK, Control, [Next]_vars PROVE TypeOK'
<1>0. UnitsType /\ RestType
  BY TypeParts
<1>1. CASE HandlerMissing \/ ConnectTarget \/ ConnectFails
  <2>1. UnitsType'
    BY <1>0, <1>1 DEF HandlerMissing, ConnectTarget, ConnectFails, sockets, UnitsType
  <2>2. /\ UNCHANGED <<config, readable, has_error, logging, selectFaults, secure, link>>
        /\ pc' \in Labels /\ open' \in {open, [open EXCEPT !["target"] = TRUE]}
        /\ exec_context' \in {exec_context, [exec_context EXCEPT !.target_host = TRUE]}
    BY <1>1 DEF HandlerMissing, ConnectTarget, ConnectFails, sockets, Labels, HandshakeLabels
  <2>3. exec_context' \in ContextType
    BY <1>0, <2>2 DEF RestType, ContextType
  <2>4. open' \in [Sides -> BOOLEAN]
    BY <1>0, <2>2 DEF RestType
  <2>5. RestType'
    BY <1>0, <2>2, <2>3, <2>4 DEF RestType, config, logging
  <2> QED BY <2>1, <2>5, TypeParts, PTL
<1>2. CASE CreateSelect \/ LeaveLoop \/ SelectFails
  <2>1. UnitsType'
    BY <1>0, <1>2 DEF CreateSelect, LeaveLoop, SelectFails, sockets, UnitsType
  <2>2. selectFaults' \in 0..MaxSelectFaults
    BY <1>0, <1>2, BoundsAssumption DEF CreateSelect, LeaveLoop, SelectFails, RestType
  <2>3. /\ UNCHANGED <<config, has_error, logging, exec_context, secure, open, link>>
        /\ pc' \in {pc, "readClient", "close"} /\ readable' \in SUBSET Sides
    BY <1>0, <1>2 DEF CreateSelect, LeaveLoop, SelectFails, sockets, RestType
  <2>4. RestType'
    BY <1>0, <2>2, <2>3 DEF RestType, config, logging, Labels, LoopLabels
  <2> QED BY <2>1, <2>4, TypeParts, PTL
<1>3. CASE CloseSockets
  <2>1. UnitsType'
    BY <1>0, <1>3 DEF CloseSockets, UnitsType
  <2>2. RestType'
    BY <1>0, <1>3 DEF CloseSockets, RestType, config, logging, Labels
  <2> QED BY <2>1, <2>2, TypeParts, PTL
<1>4. CASE UNCHANGED vars
  <2>1. UnitsType' /\ RestType'
    BY <1>0, <1>4 DEF vars, config, logging, sockets, UnitsType, RestType
  <2> QED BY <2>1, TypeParts, PTL
<1> QED BY <1>1, <1>2, <1>3, <1>4, HandshakeTyped, ReadTyped, ForwardTyped, PeersTyped
        DEF Next, Thread, Ended

-----------------------------------------------------------------------------
(* Where the thread is says what it holds.                                 *)

LEMMA ReadEdges ==
    ASSUME NEW at \in ReadLabels
    PROVE  /\ AfterRead(at) \in Holding /\ at \in Clean /\ AfterRead(at) \in Clean
           /\ Whose(AfterRead(at)) = Whose(at)
           /\ at \in Holding => at = "readStartupBody"
           /\ AfterRead(at) \in Single => at # "readStartupBody"
           /\ AfterRead(at) \in MySQLLabels => at \in MySQLLabels
           /\ AfterRead(at) \in PostgreSQLLabels => at \in PostgreSQLLabels
           /\ at \notin {"start", "done", "escaped"}
BY DEF ReadLabels, AfterRead, Holding, Single, Clean, HandshakeLabels, Whose, MySQLLabels,
       PostgreSQLLabels

LEMMA SendEdges ==
    ASSUME NEW at \in SendLabels
    PROVE  /\ at \in Holding /\ at \in Clean
           /\ at \in Single \/ at = "sendStartup"
           /\ AfterSend(at) \in Holding => at = "sendLength" /\ AfterSend(at) = "sendStartup"
           /\ AfterSend(at) \in MySQLLabels => at \in MySQLLabels
           /\ AfterSend(at) \in PostgreSQLLabels => at \in PostgreSQLLabels
           /\ AfterSend(at) \notin {"forwardUp", "readClient", "start", "done"}
           /\ at \notin {"start", "done", "escaped"}
<1>1. /\ at \in Holding /\ at \in Clean
      /\ at \in Single \/ at = "sendStartup"
      /\ at \notin {"start", "done", "escaped"}
  BY DEF SendLabels, Holding, Single, Clean, HandshakeLabels
<1>2. AfterBody(bytes[1].kind) \in {"readReply", "escaped", "readStartupLength", "select"}
  BY DEF AfterBody
<1>3. /\ AfterSend(at) \in Holding => at = "sendLength" /\ AfterSend(at) = "sendStartup"
      /\ AfterSend(at) \in MySQLLabels => at \in MySQLLabels
      /\ AfterSend(at) \in PostgreSQLLabels => at \in PostgreSQLLabels
      /\ AfterSend(at) \notin {"forwardUp", "readClient", "start", "done"}
  BY <1>2 DEF SendLabels, AfterSend, Holding, Single, MySQLLabels, PostgreSQLLabels
<1> QED BY <1>1, <1>3

LEMMA RecvControl ==
    ASSUME TypeOK, Control, NEW at \in ReadLabels, RecvBlocking(at, Whose(at), AfterRead(at))
    PROVE  Control'
<1>1. Whose(at) \in Sides
  BY DEF Whose, Sides
<1>2. /\ pc = at /\ UNCHANGED config
      /\ \/ Took(Whose(at), 1) /\ pc' = AfterRead(at) /\ has_error' = has_error
         \/ Lost /\ pc' = "close" /\ has_error' = TRUE
  BY <1>1, RecvShape
<1>3. CASE Lost /\ pc' = "close" /\ has_error' = TRUE
  <2>1. bytes' = <<>>
    BY <1>3 DEF Lost
  <2> QED BY <1>2, <1>3, <2>1, ReadEdges
          DEF Control, config, Holding, Single, Clean, HandshakeLabels, MySQLLabels,
              PostgreSQLLabels
<1>4. CASE Took(Whose(at), 1) /\ pc' = AfterRead(at) /\ has_error' = has_error
  <2>1. Len(bytes') = Len(bytes) + 1 /\ from' = Whose(at)
    BY <1>1, <1>4, TookTyped DEF Took
  <2>2. at # "readStartupBody" => Len(bytes') = 1
    <3>1. at # "readStartupBody" => bytes = <<>>
      BY <1>2, ReadEdges DEF Control
    <3> QED BY <2>1, <3>1
  <2>3. pc' \in Holding /\ from' = Whose(pc')
    BY <1>4, <2>1, ReadEdges
  <2>4. pc' \in Single => Len(bytes') = 1
    BY <1>4, <2>2, ReadEdges
  <2>5. ~ has_error'
    BY <1>2, <1>4, ReadEdges DEF Control
  <2>6. /\ pc' \in MySQLLabels => plugin' = "MySQLPipeline"
        /\ pc' \in PostgreSQLLabels => plugin' = "PostgreSQLPipeline"
        /\ handler' # NoHandler
    BY <1>2, <1>4, ReadEdges DEF Control, config
  <2> QED BY <2>3, <2>4, <2>5, <2>6 DEF Control
<1> QED BY <1>2, <1>3, <1>4

LEMMA ForwardsControl ==
    ASSUME TypeOK, Control, NEW at \in SendLabels, Forwards(at)
    PROVE  Control'
<1>1. /\ pc = at /\ UNCHANGED config
      /\ \/ /\ Gave(IF bytes = <<>> THEN 0 ELSE 1)
            /\ pc' = IF Len(bytes) > 1 THEN at ELSE AfterSend(at)
            /\ has_error' = has_error
         \/ Lost /\ pc' = "close" /\ has_error' = TRUE
  BY WriteShape
<1>2. /\ at \in Holding /\ at \in Clean
      /\ at \in Single \/ at = "sendStartup"
      /\ at \notin {"start", "done", "escaped"}
  BY SendEdges
<1>3. CASE Lost /\ pc' = "close" /\ has_error' = TRUE
  <2>1. bytes' = <<>>
    BY <1>3 DEF Lost
  <2> QED BY <1>1, <1>2, <1>3, <2>1
          DEF Control, config, Holding, Single, Clean, HandshakeLabels, MySQLLabels,
              PostgreSQLLabels
<1>4. CASE /\ Gave(IF bytes = <<>> THEN 0 ELSE 1)
           /\ pc' = IF Len(bytes) > 1 THEN at ELSE AfterSend(at)
           /\ has_error' = has_error
  <2>0. bytes \in Seq(Unit) /\ bytes' \in Seq(Unit)
    BY <1>4, GaveTyped, UnitsTypeOK DEF UnitsType
  <2>1. Len(bytes') = Len(bytes) - (IF bytes = <<>> THEN 0 ELSE 1)
    BY <1>4, GaveTyped
  <2>2. from' = from
    BY <1>4 DEF Gave
  <2>3. ~ has_error' /\ UNCHANGED <<plugin, handler>> /\ handler # NoHandler
    BY <1>1, <1>2, <1>4 DEF Control, config
  <2>4. CASE Len(bytes) > 1
    <3>1. at = "sendStartup"
      <4>1. at \in Single => Len(bytes) = 1
        BY <1>1 DEF Control
      <4> QED BY <1>2, <2>4, <4>1
    <3>2. pc' = "sendStartup" /\ pc = "sendStartup"
      BY <1>1, <1>4, <2>4, <3>1
    <3>3. pc' \in Holding /\ pc' \notin Single
      BY <3>2 DEF Holding, Single
    <3> QED BY <1>2, <2>2, <2>3, <3>2, <3>3 DEF Control
  <2>5. CASE ~ (Len(bytes) > 1)
    <3>1. pc' = AfterSend(at)
      BY <1>4, <2>5
    <3>2. bytes' = <<>>
      <4>1. Len(bytes) \in Nat
        BY <2>0, LenProperties
      <4>2. bytes # <<>> => Len(bytes) = 1
        <5>1. bytes # <<>> => Len(bytes) # 0
          BY <2>0, EmptySeq
        <5>2. PICK n \in Nat : n = Len(bytes)
          BY <4>1
        <5>3. ~ (n > 1) /\ (bytes # <<>> => n # 0)
          BY <2>5, <5>1, <5>2
        <5>4. bytes # <<>> => n = 1
          BY <5>3
        <5> QED BY <5>2, <5>4
      <4>3. bytes = <<>> => Len(bytes) = 0
        OBVIOUS
      <4>4. Len(bytes') = 0
        BY <2>1, <4>2, <4>3
      <4> QED BY <2>0, <4>4, EmptySeq
    <3>3. pc' \in Holding => pc' = "sendStartup" /\ at = "sendLength"
      BY <3>1, SendEdges
    <3>4. pc' \in Holding => from' = Whose(pc') /\ pc' \notin Single
      <4>1. "sendLength" \in Holding /\ "sendStartup" \notin Single
            /\ Whose("sendLength") = Whose("sendStartup")
        BY DEF Holding, Single, Whose
      <4> QED BY <1>1, <2>2, <3>3, <4>1 DEF Control
    <3>5. pc' \in Single => pc' \in Holding
      BY DEF Holding
    <3>6. /\ pc' \in MySQLLabels => plugin = "MySQLPipeline"
          /\ pc' \in PostgreSQLLabels => plugin = "PostgreSQLPipeline"
      BY <1>1, <3>1, SendEdges DEF Control
    <3> QED BY <2>3, <3>2, <3>4, <3>5, <3>6 DEF Control
  <2> QED BY <2>4, <2>5
<1> QED BY <1>1, <1>3, <1>4

LEMMA ControlStep ==
    ASSUME TypeOK, Control, [Next]_vars PROVE Control'
<1>1. CASE HandlerMissing \/ ConnectTarget \/ ConnectFails
  <2>1. plugin \in PluginNames
    BY PluginsAssumption DEF TypeOK
  <2> QED BY <1>1, <2>1
          DEF HandlerMissing, ConnectTarget, ConnectFails, Control, config, Holding, Single,
              Clean, HandshakeLabels, MySQLLabels, PostgreSQLLabels, PluginNames
<1>2. CASE CreateSelect \/ LeaveLoop \/ SelectFails \/ CloseSockets
  BY <1>2 DEF CreateSelect, LeaveLoop, SelectFails, CloseSockets, Control, config, Holding, Single,
              Clean, HandshakeLabels, MySQLLabels, PostgreSQLLabels
<1>3. CASE Handshake
  <2>1. CASE CheckCapabilities
    BY <2>1 DEF CheckCapabilities, HandshakeError, Control, config, Holding, Single, Clean,
                HandshakeLabels, MySQLLabels, PostgreSQLLabels, Whose
  <2>2. CASE Replace("acceptTLS", "client", "connectTLS")
    BY <2>2 DEF Replace, HandshakeError, Control, config, Holding, Single, Clean,
                HandshakeLabels, MySQLLabels, PostgreSQLLabels
  <2>3. CASE Replace("connectTLS", "target", AfterTLS)
    <3>1. plugin \in PluginNames
      BY PluginsAssumption DEF TypeOK
    <3> QED BY <2>3, <3>1 DEF Replace, AfterTLS, HandshakeError, Control, config, Holding,
                Single, Clean, HandshakeLabels, MySQLLabels, PostgreSQLLabels, PluginNames
  <2> QED BY <1>3, <2>1, <2>2, <2>3, HandshakeTable, RecvControl, ForwardsControl
<1>4. CASE ReadClient
  <2>1. /\ pc = "readClient" /\ bytes = <<>> /\ UNCHANGED <<config, sent, outbox>> /\ ~ has_error
        /\ Read("client", "forwardUp", "readTarget") /\ "client" \in Sides
    BY <1>4 DEF ReadClient, Control, Holding, Single, Clean, Sides
  <2>2. \/ Kept /\ pc' = "readTarget" /\ has_error' \in {has_error, TRUE}
        \/ /\ \E k \in 1..Arrived("client") : Took("client", k)
           /\ pc' = "forwardUp" /\ has_error' = has_error
    BY <2>1, ReadShape
  <2>3. \/ pc' = "readTarget" /\ UNCHANGED <<from, bytes>> /\ has_error' \in {has_error, TRUE}
        \/ pc' = "forwardUp" /\ from' = "client" /\ has_error' = has_error
    BY <2>2 DEF Kept, Took
  <2>4. UNCHANGED <<plugin, handler>> /\ handler # NoHandler
    BY <2>1 DEF config, Control
  <2>5. CASE pc' = "readTarget" /\ UNCHANGED <<from, bytes>>
    BY <2>1, <2>4, <2>5 DEF Control, Holding, Single, Clean, HandshakeLabels,
                            MySQLLabels, PostgreSQLLabels
  <2>6. CASE pc' = "forwardUp" /\ from' = "client" /\ has_error' = has_error
    BY <2>1, <2>4, <2>6 DEF Control, Holding, Single, Clean, HandshakeLabels,
                            MySQLLabels, PostgreSQLLabels, Whose
  <2> QED BY <2>3, <2>5, <2>6
<1>5. CASE ReadTarget
  <2>1. /\ pc = "readTarget" /\ bytes = <<>> /\ UNCHANGED <<config, sent, outbox>>
        /\ Read("target", "forwardDown", "select") /\ "target" \in Sides
    BY <1>5 DEF ReadTarget, Control, Holding, Single, Sides
  <2>2. \/ Kept /\ pc' = "select" /\ has_error' \in {has_error, TRUE}
        \/ /\ \E k \in 1..Arrived("target") : Took("target", k)
           /\ pc' = "forwardDown" /\ has_error' = has_error
    BY <2>1, ReadShape
  <2>3. \/ pc' = "select" /\ UNCHANGED <<from, bytes>> /\ has_error' \in {has_error, TRUE}
        \/ pc' = "forwardDown" /\ from' = "target" /\ has_error' = has_error
    BY <2>2 DEF Kept, Took
  <2>4. UNCHANGED <<plugin, handler>> /\ handler # NoHandler
    BY <2>1 DEF config, Control
  <2>5. CASE pc' = "select" /\ UNCHANGED <<from, bytes>>
    BY <2>1, <2>4, <2>5 DEF Control, Holding, Single, Clean, HandshakeLabels,
                            MySQLLabels, PostgreSQLLabels
  <2>6. CASE pc' = "forwardDown" /\ from' = "target" /\ has_error' = has_error
    BY <2>1, <2>4, <2>6 DEF Control, Holding, Single, Clean, HandshakeLabels,
                            MySQLLabels, PostgreSQLLabels, Whose
  <2> QED BY <2>3, <2>5, <2>6
<1>6. CASE ForwardUp
  <2>1. /\ pc = "forwardUp" /\ UNCHANGED <<config, from>>
        /\ \/ Lost /\ has_error' = TRUE /\ pc' = "readTarget"
           \/ \E k \in 0..Len(bytes) :
                 /\ Gave(k) /\ has_error' = has_error
                 /\ pc' = IF k < Len(bytes) THEN "forwardUp" ELSE "readTarget"
    BY <1>6, UpShape
  <2>2. pc' = "readTarget" => bytes' = <<>>
    <3>1. ASSUME NEW k \in 0..Len(bytes), Gave(k), ~ (k < Len(bytes)) PROVE bytes' = <<>>
      <4>1. bytes' \in Seq(Unit) /\ Len(bytes') = Len(bytes) - k
        BY <3>1, GaveTyped DEF UnitsType
      <4>2. Len(bytes) \in Nat
        BY DEF TypeOK
      <4>3. Len(bytes') = 0
        BY <3>1, <4>1, <4>2
      <4> QED BY <4>1, <4>3, EmptySeq
    <3> QED BY <2>1, <3>1 DEF Lost
  <2>3. pc' = "forwardUp" => ~ has_error'
    BY <2>1 DEF Control, Clean
  <2>4. pc' \in {"forwardUp", "readTarget"}
    BY <2>1
  <2> QED BY <2>1, <2>2, <2>3, <2>4
          DEF Control, config, Holding, Single, Clean, HandshakeLabels, MySQLLabels,
              PostgreSQLLabels, Whose
<1>7. CASE ForwardDown
  <2>1. /\ pc = "forwardDown" /\ pc' = "select" /\ UNCHANGED <<config, from>>
    BY <1>7, DownShape
  <2>2. bytes' = <<>>
    BY <1>7 DEF ForwardDown, ForwardError
  <2> QED BY <2>1, <2>2
          DEF Control, config, Holding, Single, Clean, HandshakeLabels, MySQLLabels,
              PostgreSQLLabels
<1>8. CASE Peers
  BY <1>8 DEF Peers, PeerSends, PeerLeaves, Control, config
<1>9. CASE UNCHANGED vars
  BY <1>9 DEF vars, config, Control
<1> QED BY <1>1, <1>2, <1>3, <1>4, <1>5, <1>6, <1>7, <1>8, <1>9 DEF Next, Thread, Ended

-----------------------------------------------------------------------------
(* Nothing is lost, repeated or swapped.                                   *)

\* What is in hand or was sent on is the i-th unit of s.
Copy(u, s, i) == u.n = i /\ u.kind = sent[s][i].kind /\ u.tls = sent[s][i].tls

\* All that was read from s was forwarded or is in hand.
Intact(s) == Len(outbox[Other(s)]) + (IF from = s THEN Len(bytes) ELSE 0) = read[s]

\* The target's turn in the loop: it comes even after an error on the client's side.
Turn == {"readTarget", "forwardDown"}

Relayed(s) ==
    /\ Len(outbox[Other(s)]) <= read[s] /\ read[s] <= Len(sent[s])
    /\ \A i \in 1..Len(outbox[Other(s)]) : Copy(outbox[Other(s)][i], s, i)

Flow ==
    /\ \A s \in Sides : Relayed(s)
    /\ \A i \in 1..Len(bytes) : Copy(bytes[i], from, read[from] - Len(bytes) + i)
    /\ bytes # <<>> => Intact(from)
    /\ ~ has_error => \A s \in Sides : Intact(s)
    /\ pc \in Turn => Intact("target")

\* A peer sent one more unit.
Grew(s) ==
    /\ \E m \in Msg : sent' = [sent EXCEPT ![s] = Append(@, m)]
    /\ UNCHANGED <<pc, has_error, read, outbox, from, bytes>>

\* Every step as the units see it.
LEMMA Steps ==
    ASSUME TypeOK, Control, [Next]_vars
    PROVE  /\ pc' \in Turn => pc \in Turn \cup Clean
           /\ pc = "done" => pc' = "done"
           /\ \/ Kept /\ has_error' \in {has_error, TRUE}
              \/ Lost /\ has_error' = TRUE /\ (pc' \in Turn => from = "client")
              \/ \E s \in Sides : \E k \in Int :
                    /\ Took(s, k) /\ has_error' = has_error
                    /\ bytes # <<>> => from = s
                    /\ has_error => s = "target" /\ pc \in Turn
              \/ \E k \in Int :
                    Gave(k) /\ has_error' = has_error /\ pc # "done" /\ pc' # "done"
              \/ \E s \in Sides : Grew(s)
<1>1. CASE HandlerMissing \/ ConnectTarget \/ ConnectFails
  BY <1>1 DEF HandlerMissing, ConnectTarget, ConnectFails, Kept, sockets, Turn
<1>2. CASE CreateSelect \/ LeaveLoop \/ SelectFails \/ CloseSockets
  BY <1>2 DEF CreateSelect, LeaveLoop, SelectFails, CloseSockets, Kept, sockets, Turn
<1>3. CASE Handshake
  <2>1. ASSUME NEW at \in ReadLabels, RecvBlocking(at, Whose(at), AfterRead(at))
        PROVE  /\ pc' \notin Turn /\ pc # "done"
               /\ \/ Lost /\ has_error' = TRUE
                  \/ /\ Took(Whose(at), 1) /\ has_error' = has_error
                     /\ bytes # <<>> => from = Whose(at)
                     /\ ~ has_error
    <3>1. Whose(at) \in Sides
      BY DEF Whose, Sides
    <3>2. /\ pc = at
          /\ \/ Took(Whose(at), 1) /\ pc' = AfterRead(at) /\ has_error' = has_error
             \/ Lost /\ pc' = "close" /\ has_error' = TRUE
      BY <2>1, <3>1, RecvShape
    <3>3. AfterRead(at) \notin Turn
      BY DEF AfterRead, ReadLabels, Turn
    <3>4. at \in Clean /\ (at \in Holding => at = "readStartupBody")
      BY ReadEdges
    <3>5. ~ has_error /\ (bytes # <<>> => from = Whose(at))
      BY <3>2, <3>4 DEF Control
    <3>6. at # "done"
      BY ReadEdges
    <3> QED BY <3>2, <3>3, <3>5, <3>6 DEF Turn
  <2>2. ASSUME NEW at \in SendLabels, Forwards(at)
        PROVE  /\ pc' \notin Turn /\ pc # "done" /\ pc' # "done"
               /\ \/ Lost /\ has_error' = TRUE
                  \/ \E k \in Int : Gave(k) /\ has_error' = has_error
    <3>0. pc = at /\ at # "done" /\ AfterSend(at) # "done"
      BY <2>2, WriteShape, SendEdges
    <3>1. \/ /\ Gave(IF bytes = <<>> THEN 0 ELSE 1)
             /\ pc' = IF Len(bytes) > 1 THEN at ELSE AfterSend(at)
             /\ has_error' = has_error
          \/ Lost /\ pc' = "close" /\ has_error' = TRUE
      BY <2>2, WriteShape
    <3>2. at \notin Turn /\ AfterSend(at) \notin Turn
      BY DEF SendLabels, AfterSend, AfterBody, Turn
    <3>3. (IF bytes = <<>> THEN 0 ELSE 1) \in Int
      OBVIOUS
    <3> QED BY <3>0, <3>1, <3>2, <3>3 DEF Turn
  <2>3. CASE CheckCapabilities
    BY <2>3 DEF CheckCapabilities, HandshakeError, Kept, Lost, sockets, Turn
  <2>4. CASE Replace("acceptTLS", "client", "connectTLS")
    BY <2>4 DEF Replace, HandshakeError, Kept, Lost, Turn
  <2>5. CASE Replace("connectTLS", "target", AfterTLS)
    BY <2>5 DEF Replace, AfterTLS, HandshakeError, Kept, Lost, Turn
  <2>6. \A at : Whose(at) \in Sides
    BY DEF Whose, Sides
  <2>7. 1 \in Int
    OBVIOUS
  <2> QED BY <1>3, <2>1, <2>2, <2>3, <2>4, <2>5, <2>6, <2>7, HandshakeTable
<1>4. CASE ReadClient
  <2>1. /\ pc = "readClient" /\ bytes = <<>> /\ UNCHANGED <<sent, outbox>> /\ ~ has_error
        /\ Read("client", "forwardUp", "readTarget") /\ "client" \in Sides /\ pc \in Clean
    BY <1>4 DEF ReadClient, Control, Holding, Single, Clean, Sides
  <2>2. \/ Kept /\ pc' = "readTarget" /\ has_error' \in {has_error, TRUE}
        \/ /\ \E k \in 1..Arrived("client") : Took("client", k)
           /\ pc' = "forwardUp" /\ has_error' = has_error
    BY <2>1, ReadShape
  <2>3. \A k \in 1..Arrived("client") : k \in Int
    OBVIOUS
  <2> QED BY <2>1, <2>2, <2>3
<1>5. CASE ReadTarget
  <2>1. /\ pc = "readTarget" /\ bytes = <<>> /\ UNCHANGED <<sent, outbox>>
        /\ Read("target", "forwardDown", "select") /\ "target" \in Sides /\ pc \in Turn
    BY <1>5 DEF ReadTarget, Control, Holding, Single, Sides, Turn
  <2>2. \/ Kept /\ pc' = "select" /\ has_error' \in {has_error, TRUE}
        \/ /\ \E k \in 1..Arrived("target") : Took("target", k)
           /\ pc' = "forwardDown" /\ has_error' = has_error
    BY <2>1, ReadShape
  <2>3. \A k \in 1..Arrived("target") : k \in Int
    OBVIOUS
  <2> QED BY <2>1, <2>2, <2>3
<1>6. CASE ForwardUp
  <2>1. /\ pc = "forwardUp" /\ pc' # "done"
        /\ \/ Lost /\ has_error' = TRUE
           \/ \E k \in 0..Len(bytes) : Gave(k) /\ has_error' = has_error
    BY <1>6, UpShape
  <2>2. pc \in Clean /\ from = "client"
    BY <2>1 DEF Control, Clean, Holding, Whose
  <2>3. \A k \in 0..Len(bytes) : k \in Int
    OBVIOUS
  <2> QED BY <2>1, <2>2, <2>3
<1>7. CASE ForwardDown
  <2>1. /\ pc = "forwardDown" /\ pc' = "select"
        /\ \/ Lost /\ has_error' = TRUE
           \/ Gave(Len(bytes)) /\ has_error' = has_error
    BY <1>7, DownShape
  <2>2. Len(bytes) \in Int
    BY DEF TypeOK
  <2> QED BY <2>1, <2>2 DEF Turn
<1>8. CASE Peers
  <2>1. ASSUME NEW s \in Sides, PeerSends(s) PROVE Grew(s)
    <3>1. PICK k \in Kinds :
              sent' = [sent EXCEPT ![s] = Append(@, [kind |-> k, tls |-> UsesTLS(s)])]
      <4>1. plugin \in PluginNames
        BY PluginsAssumption DEF TypeOK
      <4> QED BY <2>1, <4>1, OffersTyped DEF PeerSends
    <3>2. UsesTLS(s) \in BOOLEAN
      BY PluginsAssumption DEF UsesTLS, Sides, TypeOK, PluginNames, Has, Received
    <3>3. [kind |-> k, tls |-> UsesTLS(s)] \in Msg
      BY <3>2 DEF Msg
    <3> QED BY <2>1, <3>1, <3>3 DEF PeerSends, Grew
  <2>2. ASSUME NEW s \in Sides, PeerLeaves(s) PROVE Kept /\ has_error' = has_error /\ pc' = pc
    BY <2>2 DEF PeerLeaves, Kept
  <2>3. \A s \in Sides : Grew(s) => pc' = pc
    BY DEF Grew
  <2> QED BY <1>8, <2>1, <2>2, <2>3 DEF Peers
<1>9. CASE UNCHANGED vars
  BY <1>9 DEF vars, Kept, sockets
<1> QED BY <1>1, <1>2, <1>3, <1>4, <1>5, <1>6, <1>7, <1>8, <1>9 DEF Next, Thread, Ended

\* Before the step that begins the target's turn, and during it, nothing that
\* was read from the target is missing.
LEMMA TurnIntact ==
    ASSUME Control, Flow, pc \in Turn \cup Clean
    PROVE  Intact("target")
BY DEF Control, Flow, Sides

LEMMA KeptFlow ==
    ASSUME Control, Flow, Kept, has_error' \in {has_error, TRUE},
           pc' \in Turn => pc \in Turn \cup Clean
    PROVE  Flow'
<1>1. pc' \in Turn => Intact("target")
  BY TurnIntact
<1>2. \A s \in Sides : Relayed(s)' /\ (Intact(s) => Intact(s)')
  BY DEF Kept, Flow, Relayed, Intact, Copy
<1>3. \A i \in 1..Len(bytes') : Copy(bytes[i], from, read[from] - Len(bytes) + i)'
  BY DEF Kept, Flow, Copy
<1>4. from' \in Sides /\ bytes' # <<>> => Intact(from)'
  BY <1>2 DEF Kept, Flow, Intact
<1>5. bytes' # <<>> => Intact(from)'
  BY DEF Kept, Flow, Intact
<1>6. ~ has_error' => ~ has_error
  OBVIOUS
<1> QED BY <1>1, <1>2, <1>3, <1>5, <1>6 DEF Flow, Sides

LEMMA LostFlow ==
    ASSUME TypeOK, Control, Flow, Lost, has_error' = TRUE,
           pc' \in Turn => pc \in Turn \cup Clean, pc' \in Turn => from = "client"
    PROVE  Flow'
<1>1. pc' \in Turn => Intact("target") /\ from = "client"
  BY TurnIntact
<1>2. \A s \in Sides : Relayed(s)'
  BY DEF Lost, Flow, Relayed, Copy
<1>3. bytes' = <<>> /\ Len(bytes') = 0
  BY DEF Lost
<1>4. pc' \in Turn => Intact("target")'
  BY <1>1 DEF Intact, Lost
<1> QED BY <1>2, <1>3, <1>4 DEF Flow

LEMMA TookFlow ==
    ASSUME TypeOK, Control, Flow, NEW s \in Sides, NEW k \in Int, Took(s, k),
           has_error' = has_error, bytes # <<>> => from = s,
           has_error => s = "target" /\ pc \in Turn,
           pc' \in Turn => pc \in Turn \cup Clean
    PROVE  Flow'
<1>1. Intact(s) /\ Relayed(s) /\ Relayed(Other(s))
  BY OtherSide DEF Flow
<1>2. /\ k \in Nat /\ k >= 1 /\ Len(bytes') = Len(bytes) + k
      /\ \A i \in 1..Len(bytes) : bytes'[i] = bytes[i]
      /\ \A i \in 1..k : bytes'[Len(bytes) + i] =
            [n |-> read[s] + i, kind |-> sent[s][read[s] + i].kind, form |-> "raw",
             tls |-> sent[s][read[s] + i].tls, via |-> secure[s]]
      /\ read'[s] = read[s] + k /\ read[s] + k <= Len(sent[s])
      /\ \A d \in Sides : d # s => read'[d] = read[d]
      /\ UnitsType'
  BY TookTyped
<1>3. UNCHANGED <<sent, outbox>> /\ from' = s
  BY DEF Took
<1>4. PICK b \in Nat, r \in Nat, o \in Nat, t \in Nat :
          b = Len(bytes) /\ r = read[s] /\ o = Len(outbox[Other(s)]) /\ t = Len(sent[s])
  <2>1. UnitsType
    BY UnitsTypeOK
  <2> QED BY <2>1, OtherSide DEF UnitsType
<1>5. o + b = r
  <2>1. CASE from = s
    BY <1>1, <1>4, <2>1 DEF Intact
  <2>2. CASE from # s
    <3>1. bytes = <<>> /\ b = 0
      BY <1>4, <2>2
    <3> QED BY <1>1, <1>4, <2>2, <3>1 DEF Intact
  <2> QED BY <2>1, <2>2
<1>6. Intact(s)'
  <2>1. (Len(outbox[Other(s)]))' = o /\ (Len(bytes))' = b + k /\ (read[s])' = r + k /\ from' = s
    BY <1>2, <1>3, <1>4
  <2>2. o + (b + k) = r + k
    BY <1>2, <1>5
  <2> QED BY <2>1, <2>2 DEF Intact
<1>7. Relayed(s)'
  <2>1. o <= r + k /\ r + k <= t
    BY <1>2, <1>4, <1>5
  <2>2. Len(outbox'[Other(s)]) <= read'[s] /\ read'[s] <= Len(sent'[s])
    BY <1>2, <1>3, <1>4, <2>1
  <2> QED BY <1>1, <1>3, <2>2 DEF Relayed, Copy
<1>8. ASSUME NEW d \in Sides, d # s
      PROVE  Relayed(d)' /\ (Intact(d) => Intact(d)')
  <2>1. Relayed(d) /\ read'[d] = read[d]
    BY <1>2, <1>8 DEF Flow
  <2>2. Relayed(d)'
    BY <1>3, <2>1 DEF Relayed, Copy
  <2>3. Intact(d) => Len(outbox[Other(d)]) = read[d]
    <3>1. from = d => bytes = <<>> /\ Len(bytes) = 0
      BY <1>8
    <3>2. PICK p \in Nat, l \in Nat, q \in Nat :
              p = Len(outbox[Other(d)]) /\ l = Len(bytes) /\ q = read[d]
      BY UnitsTypeOK, OtherSide DEF UnitsType
    <3>3. Intact(d) => p + (IF from = d THEN l ELSE 0) = q
      BY <3>2 DEF Intact
    <3>4. from = d => l = 0
      BY <3>1, <3>2
    <3>5. Intact(d) => p = q
      BY <3>3, <3>4
    <3> QED BY <3>2, <3>5
  <2>4. Len(outbox[Other(d)]) = read[d] => Intact(d)'
    <3>1. Len(outbox[Other(d)]) \in Nat
      BY UnitsTypeOK, OtherSide DEF UnitsType
    <3> QED BY <1>3, <1>8, <2>1, <3>1 DEF Intact
  <2> QED BY <2>2, <2>3, <2>4
<1>9. ASSUME NEW i \in 1..(b + k)
      PROVE  /\ bytes'[i].n = o + i /\ bytes'[i].kind = sent[s][o + i].kind
             /\ bytes'[i].tls = sent[s][o + i].tls
  <2>1. CASE i <= b
    <3>1. i \in 1..b /\ b # 0
      BY <2>1
    <3>2. from = s /\ bytes'[i] = bytes[i]
      BY <1>2, <1>4, <3>1
    <3>3. r - b + i = o + i
      BY <1>5
    <3>4. Copy(bytes[i], s, read[s] - Len(bytes) + i)
      BY <1>4, <3>1, <3>2 DEF Flow
    <3>5. Copy(bytes[i], s, o + i)
      BY <1>4, <3>3, <3>4
    <3> QED BY <3>2, <3>5 DEF Copy
  <2>2. CASE i > b
    <3>1. PICK j \in 1..k : i = b + j
      <4>1. i - b \in 1..k /\ i = b + (i - b)
        BY <1>2, <2>2
      <4> QED BY <4>1
    <3>2. r + j = o + i
      BY <1>5, <3>1
    <3>3. bytes'[b + j] = [n |-> r + j, kind |-> sent[s][r + j].kind, form |-> "raw",
                           tls |-> sent[s][r + j].tls, via |-> secure[s]]
      BY <1>2, <1>4
    <3> QED BY <3>1, <3>2, <3>3
  <2> QED BY <2>1, <2>2
<1>10. \A i \in 1..Len(bytes') : Copy(bytes[i], from, read[from] - Len(bytes) + i)'
  <2>1. Len(bytes') = b + k /\ read'[s] = r + k
    BY <1>2, <1>4
  <2>2. \A i \in 1..(b + k) : (r + k) - (b + k) + i = o + i
    BY <1>2, <1>5
  <2> QED BY <1>3, <1>9, <2>1, <2>2 DEF Copy
<1>11. \A d \in Sides : Relayed(d)' /\ (Intact(d) => Intact(d)')
  BY <1>6, <1>7, <1>8
<1>12. pc' \in Turn => Intact("target")'
  BY <1>11, TurnIntact DEF Sides
<1>13. ~ has_error' => \A d \in Sides : Intact(d)'
  BY <1>11 DEF Flow
<1> QED BY <1>3, <1>6, <1>10, <1>11, <1>12, <1>13 DEF Flow

LEMMA GaveFlow ==
    ASSUME TypeOK, Control, Flow, NEW k \in Int, Gave(k), has_error' = has_error,
           pc' \in Turn => pc \in Turn \cup Clean
    PROVE  Flow'
<1>0. UnitsType
  BY UnitsTypeOK
<1>1. PICK s \in Sides : s = from
  BY <1>0 DEF UnitsType
<1>2. PICK t \in Sides : t = Other(s)
  BY OtherSide
<1>3. t # s /\ Other(t) = s /\ \A d \in Sides : d # s => d = t
  BY <1>2, OtherSide
<1>4. PICK b \in Nat, r \in Nat, o \in Nat :
          b = Len(bytes) /\ r = read[s] /\ o = Len(outbox[t])
  BY <1>0 DEF UnitsType
<1>5. /\ UNCHANGED <<sent, read, from>>
      /\ k \in Nat /\ k <= b /\ Len(bytes') = b - k
      /\ \A i \in 1..(b - k) : bytes'[i] = bytes[k + i]
      /\ Len(outbox'[t]) = o + k
      /\ \A i \in 1..o : outbox'[t][i] = outbox[t][i]
      /\ \A i \in 1..k : /\ outbox'[t][o + i].n = bytes[i].n
                         /\ outbox'[t][o + i].kind = bytes[i].kind
                         /\ outbox'[t][o + i].tls = bytes[i].tls
      /\ outbox'[s] = outbox[s]
  BY <1>1, <1>2, <1>4, GaveTyped DEF Gave
<1>6. Relayed(s) /\ Relayed(t)
  BY DEF Flow
<1>7. b # 0 => o + b = r
  <2>1. b # 0 => bytes # <<>>
    BY <1>4
  <2> QED BY <1>1, <1>2, <1>4, <2>1 DEF Flow, Intact
<1>8. \A i \in 1..b : Copy(bytes[i], s, o + i)
  <2>1. \A i \in 1..b : Copy(bytes[i], s, r - b + i)
    BY <1>1, <1>4 DEF Flow
  <2>2. \A i \in 1..b : r - b + i = o + i
    BY <1>7
  <2> QED BY <2>1, <2>2
<1>9. Intact(s) => Intact(s)'
  <2>1. Intact(s) => o + b = r
    BY <1>1, <1>2, <1>4 DEF Intact
  <2>2. (o + k) + (b - k) = o + b
    BY <1>5
  <2>3. (Len(outbox[Other(s)]))' = o + k /\ (Len(bytes))' = b - k /\ (read[s])' = r /\ from' = s
    BY <1>1, <1>2, <1>4, <1>5
  <2> QED BY <2>1, <2>2, <2>3 DEF Intact
<1>10. Intact(t) => Intact(t)'
  BY <1>1, <1>3, <1>5 DEF Intact
<1>11. Relayed(t)'
  BY <1>3, <1>5, <1>6 DEF Relayed, Copy
<1>12. Relayed(s)'
  <2>1. o + k <= r /\ o <= r
    <3>1. o <= r
      BY <1>2, <1>4, <1>6 DEF Relayed
    <3>2. CASE b = 0
      BY <1>5, <3>1, <3>2
    <3>3. CASE b # 0
      BY <1>5, <1>7, <3>1, <3>3
    <3> QED BY <3>2, <3>3
  <2>2. \A i \in 1..o : Copy(outbox[t][i], s, i)
    BY <1>2, <1>4, <1>6 DEF Relayed
  <2>3. ASSUME NEW i \in 1..(o + k)
        PROVE  /\ outbox'[t][i].n = i /\ outbox'[t][i].kind = sent[s][i].kind
               /\ outbox'[t][i].tls = sent[s][i].tls
    <3>1. CASE i <= o
      <4>1. i \in 1..o
        BY <3>1
      <4> QED BY <1>5, <2>2, <4>1 DEF Copy
    <3>2. CASE i > o
      <4>1. PICK j \in 1..k : i = o + j
        <5>1. i - o \in 1..k /\ i = o + (i - o)
          BY <1>5, <3>2
        <5> QED BY <5>1
      <4>2. j \in 1..b
        BY <1>5
      <4> QED BY <1>5, <1>8, <4>1, <4>2 DEF Copy
    <3> QED BY <3>1, <3>2
  <2>4. read[s] <= Len(sent[s])
    BY <1>6 DEF Relayed
  <2> QED BY <1>2, <1>4, <1>5, <2>1, <2>3, <2>4 DEF Relayed, Copy
<1>13. \A i \in 1..Len(bytes') : Copy(bytes[i], from, read[from] - Len(bytes) + i)'
  <2>1. ASSUME NEW i \in 1..(b - k)
        PROVE  /\ bytes'[i].n = r - (b - k) + i
               /\ bytes'[i].kind = sent[s][r - (b - k) + i].kind
               /\ bytes'[i].tls = sent[s][r - (b - k) + i].tls
    <3>1. k + i \in 1..b /\ b # 0
      BY <1>5
    <3>2. r - (b - k) + i = o + (k + i)
      BY <1>5, <1>7, <3>1
    <3>3. Copy(bytes[k + i], s, o + (k + i)) /\ bytes'[i] = bytes[k + i]
      BY <1>5, <1>8, <3>1
    <3> QED BY <3>2, <3>3 DEF Copy
  <2> QED BY <1>1, <1>4, <1>5, <2>1 DEF Copy
<1>14. bytes' # <<>> => Intact(from)'
  <2>1. bytes' # <<>> => Len(bytes') # 0
    BY GaveTyped, EmptySeq DEF UnitsType
  <2>2. bytes' # <<>> => b # 0
    BY <1>4, <1>5, <2>1
  <2>3. b # 0 => bytes # <<>>
    BY <1>4
  <2>4. bytes' # <<>> => Intact(s)
    BY <1>1, <2>2, <2>3 DEF Flow
  <2>5. bytes' # <<>> => Intact(s)'
    BY <1>9, <2>4
  <2>6. from' = s
    BY <1>1, <1>5
  <2> QED BY <2>5, <2>6 DEF Intact
<1>15. \A d \in Sides : Relayed(d)' /\ (Intact(d) => Intact(d)')
  BY <1>3, <1>9, <1>10, <1>11, <1>12
<1>16. pc' \in Turn => Intact("target")'
  BY <1>15, TurnIntact DEF Sides
<1>17. ~ has_error' => \A d \in Sides : Intact(d)'
  BY <1>15 DEF Flow
<1> QED BY <1>13, <1>14, <1>15, <1>16, <1>17 DEF Flow

LEMMA GrewExtends ==
    ASSUME TypeOK, NEW s \in Sides, Grew(s)
    PROVE  \A d \in Sides : /\ Len(sent[d]) \in Nat /\ Len(sent'[d]) \in Nat
                            /\ Len(sent[d]) <= Len(sent'[d])
                            /\ \A i \in 1..Len(sent[d]) : sent'[d][i] = sent[d][i]
<1>1. PICK m \in Msg : sent' = [sent EXCEPT ![s] = Append(@, m)]
  BY DEF Grew
<1>2. sent \in [Sides -> Seq(Msg)]
  BY UnitsTypeOK DEF UnitsType
<1>3. /\ Append(sent[s], m) \in Seq(Msg) /\ Len(Append(sent[s], m)) = Len(sent[s]) + 1
      /\ \A i \in 1..Len(sent[s]) : Append(sent[s], m)[i] = sent[s][i]
  <2>1. sent[s] \in Seq(Msg)
    BY <1>2
  <2> QED BY <2>1, AppendProperties
<1>4. sent'[s] = Append(sent[s], m) /\ \A d \in Sides : d # s => sent'[d] = sent[d]
  BY <1>1, <1>2
<1>5. \A d \in Sides : sent[d] \in Seq(Msg) /\ Len(sent[d]) \in Nat
  BY <1>2
<1> QED BY <1>3, <1>4, <1>5

LEMMA GrewFlow ==
    ASSUME TypeOK, Flow, NEW s \in Sides, Grew(s)
    PROVE  Flow'
<1>0. UnitsType
  BY UnitsTypeOK
<1>2. UNCHANGED <<pc, has_error, read, outbox, from, bytes>>
  BY DEF Grew
<1>3. \A d \in Sides : /\ Len(sent[d]) \in Nat /\ Len(sent'[d]) \in Nat
                       /\ Len(sent[d]) <= Len(sent'[d])
                       /\ \A i \in 1..Len(sent[d]) : sent'[d][i] = sent[d][i]
  BY GrewExtends
<1>4. ASSUME NEW d \in Sides PROVE Relayed(d)'
  <2>1. /\ Len(outbox[Other(d)]) <= read[d] /\ read[d] <= Len(sent[d])
        /\ \A i \in 1..Len(outbox[Other(d)]) : Copy(outbox[Other(d)][i], d, i)
    BY DEF Flow, Relayed
  <2>2. PICK o \in Nat, r \in Nat, t \in Nat :
            o = Len(outbox[Other(d)]) /\ r = read[d] /\ t = Len(sent[d])
    BY <1>0, OtherSide DEF UnitsType
  <2>3. r <= Len(sent'[d])
    BY <1>3, <2>1, <2>2
  <2>4. \A i \in 1..o : i \in 1..t
    BY <2>1, <2>2
  <2>5. \A i \in 1..o : sent'[d][i] = sent[d][i]
    BY <1>3, <2>2, <2>4
  <2> QED BY <1>2, <2>1, <2>2, <2>3, <2>5 DEF Relayed, Copy
<1>5. \A d \in Sides : Intact(d) => Intact(d)'
  BY <1>2 DEF Intact
<1>6. \A i \in 1..Len(bytes') : Copy(bytes[i], from, read[from] - Len(bytes) + i)'
  <2>1. PICK b \in Nat, f \in Sides : b = Len(bytes) /\ f = from
    BY <1>0 DEF UnitsType
  <2>2. PICK o \in Nat, r \in Nat, t \in Nat :
            o = Len(outbox[Other(f)]) /\ r = read[f] /\ t = Len(sent[f])
    BY <1>0, OtherSide DEF UnitsType
  <2>3. ASSUME NEW i \in 1..b PROVE r - b + i \in 1..t
    <3>1. bytes # <<>>
      BY <2>1
    <3>2. o + b = r
      BY <2>1, <2>2, <3>1 DEF Flow, Intact
    <3>3. r <= t
      BY <2>2 DEF Flow, Relayed
    <3> QED BY <3>2, <3>3
  <2>4. \A i \in 1..b : Copy(bytes[i], f, r - b + i)
    BY <2>1, <2>2 DEF Flow
  <2>5. \A i \in 1..b : sent'[f][r - b + i] = sent[f][r - b + i]
    BY <1>3, <2>2, <2>3
  <2>6. ASSUME NEW i \in 1..b
        PROVE  /\ bytes'[i].n = r - b + i /\ bytes'[i].kind = sent'[f][r - b + i].kind
               /\ bytes'[i].tls = sent'[f][r - b + i].tls
    BY <1>2, <2>4, <2>5 DEF Copy
  <2>7. Len(bytes') = b /\ from' = f /\ read'[f] = r
    BY <1>2, <2>1, <2>2
  <2> QED BY <2>6, <2>7 DEF Copy
<1>7. bytes' # <<>> => Intact(from)'
  BY <1>2 DEF Flow, Intact
<1> QED BY <1>2, <1>4, <1>5, <1>6, <1>7 DEF Flow, Sides

LEMMA FlowStep ==
    ASSUME TypeOK, Control, Flow, [Next]_vars PROVE Flow'
BY Steps, KeptFlow, LostFlow, TookFlow, GaveFlow, GrewFlow

RelayInv == TypeOK /\ Control /\ Flow

LEMMA RelayInit == Init => RelayInv
<1> SUFFICES ASSUME Init PROVE RelayInv
  OBVIOUS
<1>1. TypeOK
  <2>1. bytes \in Seq(Unit) /\ latency \in Seq(Nat)
    BY EmptySeq DEF Init
  <2>2. /\ sent \in [Sides -> Seq([kind : Kinds, tls : BOOLEAN])]
        /\ outbox \in [Sides -> Seq(SentUnit)] /\ read \in [Sides -> Nat]
    BY EmptySeq DEF Init
  <2>3. exec_context \in ContextType
    BY DEF Init, EmptyContext, ContextType
  <2>4. /\ secure \in [Sides -> BOOLEAN] /\ open \in [Sides -> BOOLEAN]
        /\ link \in [Sides -> {"up", "fin", "rst"}]
    BY DEF Init
  <2>5. selectFaults \in 0..MaxSelectFaults
    BY BoundsAssumption DEF Init
  <2> QED BY <2>1, <2>2, <2>3, <2>4, <2>5 DEF Init, TypeOK, Sides
<1>2. Control
  BY DEF Init, Control, Holding, Single, MySQLLabels, PostgreSQLLabels
<1>3. Flow
  <2>1. \A s \in Sides : Len(outbox[s]) = 0 /\ Len(sent[s]) = 0 /\ read[s] = 0
    BY DEF Init
  <2>2. bytes = <<>> /\ Len(bytes) = 0
    BY DEF Init
  <2>3. \A s \in Sides : Relayed(s) /\ Intact(s)
    BY <2>1, <2>2, OtherSide DEF Relayed, Intact
  <2> QED BY <2>2, <2>3 DEF Flow, Init, Sides
<1> QED BY <1>1, <1>2, <1>3 DEF RelayInv

LEMMA RelayTyped == RelayInv => UnitsType
BY UnitsTypeOK DEF RelayInv

LEMMA RelayInvariant == Spec => []RelayInv
<1>1. RelayInv /\ [Next]_vars => RelayInv'
  BY TypeStep, ControlStep, FlowStep DEF RelayInv
<1> QED BY <1>1, RelayInit, PTL DEF Spec

\* Whatever the plugin, the handler, the offers of the peers and the faults,
\* each variable keeps its type, and a handler is never called that is not there.
THEOREM HandshakeTypeCorrect == Spec => []TypeOK
<1>1. RelayInv => TypeOK
  BY DEF RelayInv
<1> QED BY <1>1, RelayInvariant, PTL

\* Through the handshake, the change of sockets and the loop, each peer gets
\* the units of the other one in order, without a gap or a repetition.
THEOREM HandshakeInOrder == Spec => []InOrder
<1>1. RelayInv => InOrder
  <2> SUFFICES ASSUME TypeOK, Flow, NEW s \in Sides, NEW i \in DOMAIN outbox[s]
               PROVE  outbox[s][i].n = i
    BY DEF RelayInv, InOrder
  <2>1. Other(s) \in Sides /\ Other(Other(s)) = s
    BY OtherSide
  <2>2. i \in 1..Len(outbox[s])
    BY UnitsTypeOK DEF UnitsType
  <2>3. Copy(outbox[s][i], Other(s), i)
    BY <2>1, <2>2 DEF Flow, Relayed
  <2> QED BY <2>3 DEF Copy
<1> QED BY <1>1, RelayInvariant, PTL

\* When the loop is about to poll and no error was met, all that was read in
\* the handshake and in the loop has been forwarded.
THEOREM HandshakeNoLoss == Spec => []NoLoss
<1>1. RelayInv => NoLoss
  <2> SUFFICES ASSUME RelayInv, pc = "select", ~ has_error, NEW s \in Sides
               PROVE  Len(outbox[Other(s)]) = read[s]
    BY DEF NoLoss
  <2>1. bytes = <<>> /\ Len(bytes) = 0
    BY DEF RelayInv, Control, Holding, Single
  <2>2. Intact(s)
    BY DEF RelayInv, Flow
  <2>3. PICK o \in Nat : o = Len(outbox[Other(s)])
    BY UnitsTypeOK, OtherSide DEF RelayInv, UnitsType
  <2>4. o + 0 = read[s]
    BY <2>1, <2>2, <2>3 DEF Intact
  <2> QED BY <2>3, <2>4
<1> QED BY <1>1, RelayInvariant, PTL

-----------------------------------------------------------------------------
(* The refinement of the abstract relay.                                   *)

\* The numbers 1, 2, ... n.
UpTo(n) == [i \in 1..n |-> i]

DeliversPrefixes == relayDelivered = [s \in Sides |-> UpTo(Len(outbox[s]))]

LEMMA DeliveredPrefix == RelayInv => DeliversPrefixes
<1> SUFFICES ASSUME RelayInv PROVE DeliversPrefixes
  OBVIOUS
<1>1. ASSUME NEW s \in Sides
      PROVE  [i \in DOMAIN outbox[s] |-> outbox[s][i].n] = UpTo(Len(outbox[s]))
  <2>1. Other(s) \in Sides /\ Other(Other(s)) = s
    BY OtherSide
  <2>2. DOMAIN outbox[s] = 1..Len(outbox[s])
    BY UnitsTypeOK DEF UnitsType, RelayInv
  <2>3. \A i \in 1..Len(outbox[s]) : Copy(outbox[s][i], Other(s), i)
    BY <2>1 DEF RelayInv, Flow, Relayed
  <2> QED BY <2>2, <2>3 DEF Copy, UpTo
<1> QED BY <1>1 DEF relayDelivered, DeliversPrefixes

\* Giving the first k units in hand to the other peer is Deliver.
LEMMA GaveDelivers ==
    ASSUME RelayInv, RelayInv', NEW k \in Int, Gave(k), pc # "done", pc' # "done"
    PROVE  \E s \in Sides : Relay!Deliver(s)
<1>0. UnitsType /\ UnitsType'
  BY RelayTyped, PTL
<1>1. PICK t \in Sides, f \in Sides : f = from /\ t = Other(f) /\ Other(t) = f
  BY <1>0, OtherSide DEF UnitsType
<1>2. t # f /\ \A x \in Sides : x # t => x = f
  BY <1>1, OtherSide
<1>3. relayDelivered = [x \in Sides |-> UpTo(Len(outbox[x]))]
  BY DeliveredPrefix DEF DeliversPrefixes
<1>4. relayDelivered' = [x \in Sides |-> UpTo(Len(outbox'[x]))]
  <2>1. DeliversPrefixes'
    BY DeliveredPrefix, PTL
  <2> QED BY <2>1 DEF DeliversPrefixes
<1>5. PICK o \in Nat, upto \in Nat, r \in Nat, e \in Nat :
          /\ o = Len(outbox[t]) /\ upto = Len(outbox'[t])
          /\ r = read'[f] /\ e = Len(sent'[f])
  <2>1. outbox[t] \in Seq(SentUnit) /\ outbox'[t] \in Seq(SentUnit)
    BY <1>0 DEF UnitsType
  <2>2. sent'[f] \in Seq(Msg) /\ read'[f] \in Nat
    BY <1>0 DEF UnitsType
  <2>3. /\ Len(outbox[t]) \in Nat /\ Len(outbox'[t]) \in Nat
        /\ Len(sent'[f]) \in Nat
    BY <2>1, <2>2, LenProperties
  <2> QED BY <2>2, <2>3
<1>6. upto = o + k /\ k \in Nat /\ outbox'[f] = outbox[f]
  BY <1>1, <1>5, GaveTyped DEF RelayInv
<1>7. upto <= r /\ r <= e
  <2>1. Relayed(f)'
    BY DEF RelayInv, Flow
  <2> QED BY <1>1, <1>5, <2>1 DEF Relayed
<1>8. sent' = sent
  BY DEF Gave
<1>9. relayDelivered' = [relayDelivered EXCEPT ![t] = UpTo(upto)]
  BY <1>2, <1>3, <1>4, <1>5, <1>6
<1>10. Len(relayDelivered[t]) = o
  BY <1>3, <1>5 DEF UpTo
<1>11. relaySent[Relay!Opposite(t)] = e
  BY <1>1, <1>5, <1>8 DEF relaySent, Relay!Opposite, Other, Sides
<1>12. upto \in Len(relayDelivered[t]) .. relaySent[Relay!Opposite(t)]
  BY <1>6, <1>7, <1>10, <1>11
<1>13. relaySent' = relaySent /\ relayRunning /\ relayRunning' = relayRunning
  BY <1>8 DEF relaySent, relayRunning
<1>14. Relay!Deliver(t)
  BY <1>9, <1>12, <1>13 DEF Relay!Deliver, UpTo
<1> QED BY <1>14

LEMMA RefineStep ==
    ASSUME RelayInv, RelayInv', [Next]_vars
    PROVE  Relay!RelayNext \/ UNCHANGED Relay!relay
<1>0. TypeOK /\ Control
  BY DEF RelayInv
<1>1. ASSUME UNCHANGED <<sent, outbox>>, pc = "done" => pc' = "done"
      PROVE  Relay!RelayNext \/ UNCHANGED Relay!relay
  <2>1. UNCHANGED <<relaySent, relayDelivered>>
    BY <1>1 DEF relaySent, relayDelivered
  <2>2. relayRunning' = relayRunning \/ (relayRunning /\ relayRunning' = FALSE)
    BY <1>1 DEF relayRunning
  <2> QED BY <2>1, <2>2 DEF Relay!relay, Relay!RelayNext, Relay!Stop
<1>2. ASSUME NEW k \in Int, Gave(k), pc # "done", pc' # "done" PROVE Relay!RelayNext
  BY <1>2, GaveDelivers DEF Relay!RelayNext, Relay!Peer, Sides
<1>3. ASSUME NEW s \in Sides, Grew(s) PROVE Relay!RelayNext
  <2>1. PICK m \in Msg : sent' = [sent EXCEPT ![s] = Append(@, m)]
    BY <1>3 DEF Grew
  <2>2. UNCHANGED <<pc, outbox>>
    BY <1>3 DEF Grew
  <2>3. Len(sent'[s]) = Len(sent[s]) + 1 /\ \A x \in Sides : x # s => sent'[x] = sent[x]
    <3>1. sent \in [Sides -> Seq(Msg)] /\ sent[s] \in Seq(Msg)
      BY <1>0, UnitsTypeOK DEF UnitsType
    <3>2. Len(Append(sent[s], m)) = Len(sent[s]) + 1
      BY <3>1, AppendProperties
    <3> QED BY <2>1, <3>1, <3>2
  <2>4. relaySent' = [relaySent EXCEPT ![s] = @ + 1]
    BY <2>3 DEF relaySent
  <2>5. Relay!Send(s)
    BY <2>2, <2>4 DEF Relay!Send, relayDelivered, relayRunning
  <2> QED BY <2>5 DEF Relay!RelayNext, Relay!Peer, Sides
<1>4. /\ Kept => UNCHANGED <<sent, outbox>>
      /\ Lost => UNCHANGED <<sent, outbox>>
      /\ \A s, k : Took(s, k) => UNCHANGED <<sent, outbox>>
  BY DEF Kept, Lost, Took
<1> QED BY <1>0, <1>1, <1>2, <1>3, <1>4, Steps

\* Handshake, change of sockets and loop together implement the abstract relay:
\* every step of the thread or of a peer is a step of FifoRelay or none.
THEOREM HandshakeRefinesRelay == Spec => ImplementsRelay
<1>1. Init => Relay!RelayInit
  BY DEF Init, Relay!RelayInit, Relay!Peer, Sides, relaySent, relayDelivered, relayRunning
<1>2. RelayInv /\ RelayInv' /\ [Next]_vars => [Relay!RelayNext]_(Relay!relay)
  BY RefineStep
<1> QED BY <1>1, <1>2, RelayInvariant, PTL DEF Spec, ImplementsRelay, Relay!RelaySpec

-----------------------------------------------------------------------------
(* The context, the latency log and the sockets.                           *)

\* Where the client's response, and so its capabilities, have been seen.
PastResponse == {"acceptTLS", "connectTLS", "readLogin", "sendLogin", "readVerdict",
                 "sendVerdict"} \cup LoopLabels

\* The context holds the last id; it has the target from the connect on and,
\* with MySQL, the capabilities from the response on.
ContextInv ==
    /\ exec_context.correlation_id = correlation_id
    /\ pc = "forwardUp" => latency_logged = FALSE
    /\ pc = "start" => exec_context.target_host = FALSE
    /\ pc \notin {"start", "done", "escaped"} => exec_context.target_host = TRUE
    /\ plugin = "MySQLPipeline" /\ pc \in PastResponse => exec_context.capabilities = TRUE

\* Every id is logged, once and in order, but the one whose exchange is open.
LatencyInv ==
    /\ latency_logged = FALSE => correlation_id > 0
    /\ latency = UpTo(IF latency_logged THEN correlation_id ELSE correlation_id - 1)

\* A plugin that had a target is done when both sockets are closed, and only
\* the exception a GSSENC request raises leaves it before that.
ClosedInv ==
    /\ pc = "done" /\ exec_context.target_host = TRUE => \A s \in Sides : open[s] = FALSE
    /\ pc = "escaped" /\ exec_context.target_host = TRUE => Has("client", {"gssencCode"})

\* A step that leaves log and context alone and goes on inside the same part
\* of the plugin.
Quiet ==
    /\ UNCHANGED <<config, logging, exec_context>>
    /\ pc' = "forwardUp" => pc = "forwardUp"
    /\ pc' = "start" => pc = "start"
    /\ pc' \notin {"start", "done", "escaped"} => pc \notin {"start", "done", "escaped"}
    /\ plugin = "MySQLPipeline" /\ pc' \in PastResponse => pc \in PastResponse

LEMMA QuietKeeps ==
    ASSUME Quiet
    PROVE  /\ ContextInv => ContextInv'
           /\ LatencyInv => LatencyInv'
<1>1. ContextInv => ContextInv'
  BY DEF Quiet, ContextInv, config, logging
<1>2. LatencyInv => LatencyInv'
  BY DEF Quiet, LatencyInv, logging
<1> QED BY <1>1, <1>2

LEMMA RecvQuiet ==
    ASSUME TypeOK, Control, NEW at \in ReadLabels, RecvBlocking(at, Whose(at), AfterRead(at))
    PROVE  Quiet /\ pc' \notin {"start", "done", "escaped"}
<1>1. Whose(at) \in Sides
  BY DEF Whose, Sides
<1>2. /\ pc = at /\ UNCHANGED <<config, logging, exec_context>>
      /\ pc' \in {AfterRead(at), "close"}
  BY <1>1, RecvShape
<1>3. AfterRead(at) \notin {"start", "done", "escaped", "forwardUp"}
      /\ at \notin {"start", "done", "escaped", "forwardUp"}
  BY DEF ReadLabels, AfterRead
<1>4. plugin = "MySQLPipeline" /\ AfterRead(at) \in PastResponse => at \in PastResponse
  BY DEF ReadLabels, AfterRead, PastResponse, LoopLabels
<1>5. "close" \notin PastResponse
  BY DEF PastResponse, LoopLabels
<1> QED BY <1>2, <1>3, <1>4, <1>5 DEF Quiet

LEMMA ForwardsBooks ==
    ASSUME TypeOK, Control, ContextInv, LatencyInv, NEW at \in SendLabels, Forwards(at)
    PROVE  /\ ContextInv' /\ LatencyInv' /\ pc' # "done"
           /\ pc' = "escaped" => bytes[1].kind = "gssencCode" /\ at = "sendBody"
<1>1. /\ pc = at /\ UNCHANGED <<config, logging>>
      /\ pc' = "close" \/ pc' \in {at, AfterSend(at)}
  BY WriteShape
<1>2. at \notin {"start", "done", "escaped", "forwardUp"}
  BY DEF SendLabels
<1>3. AfterSend(at) \notin {"start", "done", "forwardUp"}
  BY SendEdges
<1>4. AfterSend(at) = "escaped" => bytes[1].kind = "gssencCode" /\ at = "sendBody"
  BY DEF SendLabels, AfterSend, AfterBody
<1>5. exec_context' = IF at = "sendResponse" /\ pc' # "close"
                        THEN [exec_context EXCEPT !.capabilities = TRUE]
                        ELSE exec_context
  BY DEF Forwards
<1>6. exec_context \in ContextType
  BY DEF TypeOK
<1>7. /\ exec_context'.correlation_id = exec_context.correlation_id
      /\ exec_context'.target_host = exec_context.target_host
      /\ exec_context'.capabilities \in {exec_context.capabilities, TRUE}
      /\ at = "sendResponse" /\ pc' # "close" => exec_context'.capabilities = TRUE
  BY <1>5, <1>6 DEF ContextType
<1>8. LatencyInv'
  BY <1>1 DEF LatencyInv, logging
<1>9. exec_context.target_host = TRUE
  BY <1>1, <1>2 DEF ContextInv
<1>10. plugin' = "MySQLPipeline" /\ pc' \in PastResponse => exec_context'.capabilities = TRUE
  <2> SUFFICES ASSUME plugin = "MySQLPipeline", pc' \in PastResponse
               PROVE  exec_context'.capabilities = TRUE
    BY <1>1 DEF config
  <2>1. at \notin PostgreSQLLabels /\ "PostgreSQLPipeline" # "MySQLPipeline"
    BY <1>1 DEF Control
  <2>2. pc' # "close" /\ pc' \in {at, AfterSend(at)}
    BY <1>1 DEF PastResponse, LoopLabels
  <2>3. at \in {"sendGreeting", "sendResponse", "sendLogin", "sendVerdict"}
    BY <2>1 DEF SendLabels, PostgreSQLLabels
  <2>4. CASE at = "sendResponse"
    BY <1>7, <2>2, <2>4
  <2>5. CASE at = "sendGreeting"
    BY <2>2, <2>5 DEF AfterSend, PastResponse, LoopLabels
  <2>6. CASE at \in {"sendLogin", "sendVerdict"}
    <3>1. exec_context.capabilities = TRUE
      BY <1>1, <2>6 DEF ContextInv, PastResponse
    <3> QED BY <1>7, <3>1
  <2> QED BY <2>3, <2>4, <2>5, <2>6
<1>11. pc' \notin {"start", "done", "forwardUp"}
  BY <1>1, <1>2, <1>3
<1>12. ContextInv'
  BY <1>1, <1>7, <1>9, <1>10, <1>11 DEF ContextInv, logging
<1> QED BY <1>1, <1>2, <1>4, <1>8, <1>11, <1>12

LEMMA AppendUpTo == ASSUME NEW n \in Nat PROVE Append(UpTo(n), n + 1) = UpTo(n + 1)
<1>1. UpTo(n) \in Seq(Nat) /\ Len(UpTo(n)) = n /\ \A i \in 1..n : UpTo(n)[i] = i
  BY DEF UpTo
<1> DEFINE more == Append(UpTo(n), n + 1)
<1>2. /\ more \in Seq(Nat) /\ Len(more) = n + 1 /\ more[n + 1] = n + 1
      /\ \A i \in 1..n : more[i] = i
  BY <1>1
<1> HIDE DEF more
<1>3. DOMAIN more = 1..(n + 1) /\ \A i \in 1..(n + 1) : more[i] = i
  BY <1>2
<1>4. more = [i \in 1..(n + 1) |-> more[i]]
  BY <1>2, <1>3
<1>5. more = [i \in 1..(n + 1) |-> i]
  BY <1>3, <1>4
<1> QED BY <1>5 DEF UpTo, more

LEMMA ReadClientBooks ==
    ASSUME TypeOK, ContextInv, LatencyInv, ReadClient
    PROVE  ContextInv' /\ LatencyInv'
<1>1. /\ pc = "readClient" /\ pc' \in {"forwardUp", "readTarget"}
      /\ UNCHANGED <<plugin, latency>>
      /\ pc' = "forwardUp" => OpenExchange
      /\ pc' # "forwardUp" => UNCHANGED <<correlation_id, exec_context, latency_logged>>
  BY DEF ReadClient, Read, config
<1>2. /\ exec_context \in ContextType /\ correlation_id \in Nat /\ latency_logged \in BOOLEAN
  BY DEF TypeOK
<1>3. /\ exec_context.correlation_id = correlation_id /\ exec_context.target_host = TRUE
      /\ plugin = "MySQLPipeline" => exec_context.capabilities = TRUE
  BY <1>1 DEF ContextInv, PastResponse, LoopLabels
<1>4. CASE UNCHANGED <<correlation_id, exec_context, latency_logged>>
  <2>1. LatencyInv'
    BY <1>1, <1>4 DEF LatencyInv
  <2>2. pc' = "forwardUp" => latency_logged' = FALSE
    BY <1>1, <1>2, <1>4 DEF OpenExchange
  <2> QED BY <1>1, <1>3, <1>4, <2>1, <2>2 DEF ContextInv
<1>5. CASE /\ latency_logged = TRUE /\ correlation_id' = correlation_id + 1
           /\ exec_context' = [exec_context EXCEPT !.correlation_id = correlation_id + 1]
           /\ latency_logged' = FALSE
  <2>1. correlation_id' > 0 /\ correlation_id' - 1 = correlation_id
    BY <1>2, <1>5
  <2>2. LatencyInv'
    BY <1>1, <1>5, <2>1 DEF LatencyInv
  <2>3. /\ exec_context'.correlation_id = correlation_id'
        /\ exec_context'.target_host = exec_context.target_host
        /\ exec_context'.capabilities = exec_context.capabilities
    BY <1>2, <1>5 DEF ContextType
  <2> QED BY <1>1, <1>3, <1>5, <2>2, <2>3 DEF ContextInv
<1> QED BY <1>1, <1>2, <1>4, <1>5 DEF OpenExchange

LEMMA ReadTargetBooks ==
    ASSUME TypeOK, ContextInv, LatencyInv, ReadTarget
    PROVE  ContextInv' /\ LatencyInv'
<1>1. /\ pc = "readTarget" /\ pc' \in {"forwardDown", "select"}
      /\ UNCHANGED <<plugin, correlation_id, exec_context>>
      /\ LogLatency \/ UNCHANGED <<latency, latency_logged>>
  BY DEF ReadTarget, Read, config
<1>2. correlation_id \in Nat /\ latency_logged \in BOOLEAN
  BY DEF TypeOK
<1>3. ContextInv'
  BY <1>1 DEF ContextInv, PastResponse, LoopLabels
<1>4. CASE UNCHANGED <<latency, latency_logged>>
  BY <1>1, <1>3, <1>4 DEF LatencyInv
<1>5. CASE LogLatency /\ latency_logged = TRUE
  BY <1>1, <1>3, <1>5 DEF LatencyInv, LogLatency
<1>6. CASE LogLatency /\ latency_logged = FALSE
  <2>1. latency' = Append(latency, correlation_id) /\ latency_logged' = TRUE
    BY <1>6 DEF LogLatency
  <2>2. correlation_id - 1 \in Nat /\ (correlation_id - 1) + 1 = correlation_id
    BY <1>2, <1>6 DEF LatencyInv
  <2>3. latency = UpTo(correlation_id - 1)
    BY <1>6 DEF LatencyInv
  <2>4. latency' = UpTo(correlation_id)
    BY <2>1, <2>2, <2>3, AppendUpTo
  <2> QED BY <1>1, <1>3, <2>1, <2>4 DEF LatencyInv
<1> QED BY <1>1, <1>2, <1>4, <1>5, <1>6

LEMMA ConnectBooks ==
    ASSUME TypeOK, ContextInv, LatencyInv, ConnectTarget
    PROVE  ContextInv' /\ LatencyInv'
<1>1. /\ pc' \in {"readGreeting", "readLength"} /\ UNCHANGED <<config, logging>>
      /\ exec_context' = [exec_context EXCEPT !.target_host = TRUE]
  BY DEF ConnectTarget
<1>2. /\ exec_context'.correlation_id = exec_context.correlation_id
      /\ exec_context'.target_host = TRUE
  BY <1>1 DEF TypeOK, ContextType
<1>3. LatencyInv'
  BY <1>1 DEF LatencyInv, logging
<1> QED BY <1>1, <1>2, <1>3 DEF ContextInv, PastResponse, LoopLabels, logging

LEMMA BooksStep ==
    ASSUME TypeOK, Control, ContextInv, LatencyInv, [Next]_vars
    PROVE  ContextInv' /\ LatencyInv'
<1>1. CASE HandlerMissing \/ ConnectFails
  BY <1>1, QuietKeeps DEF HandlerMissing, ConnectFails, Quiet, PastResponse, LoopLabels
<1>2. CASE CreateSelect \/ LeaveLoop \/ SelectFails \/ CloseSockets
  BY <1>2, QuietKeeps DEF CreateSelect, LeaveLoop, SelectFails, CloseSockets, Quiet,
                          PastResponse, LoopLabels
<1>3. CASE Handshake
  <2>1. CASE CheckCapabilities
    BY <2>1, QuietKeeps DEF CheckCapabilities, HandshakeError, Quiet, PastResponse, LoopLabels
  <2>2. CASE Replace("acceptTLS", "client", "connectTLS")
    BY <2>2, QuietKeeps DEF Replace, HandshakeError, Quiet, PastResponse, LoopLabels
  <2>3. CASE Replace("connectTLS", "target", AfterTLS)
    BY <2>3, QuietKeeps DEF Replace, AfterTLS, HandshakeError, Quiet, PastResponse, LoopLabels
  <2> QED BY <1>3, <2>1, <2>2, <2>3, HandshakeTable, RecvQuiet, QuietKeeps, ForwardsBooks
<1>4. CASE ForwardUp
  <2>1. /\ pc = "forwardUp" /\ UNCHANGED <<config, logging, exec_context>>
        /\ pc' \in {"forwardUp", "readTarget"}
    BY <1>4, UpShape
  <2> QED BY <2>1, QuietKeeps DEF Quiet, PastResponse, LoopLabels
<1>5. CASE ForwardDown
  <2>1. /\ pc = "forwardDown" /\ UNCHANGED <<config, logging, exec_context>> /\ pc' = "select"
    BY <1>5, DownShape
  <2> QED BY <2>1, QuietKeeps DEF Quiet, PastResponse, LoopLabels
<1>6. CASE Peers
  BY <1>6, QuietKeeps DEF Peers, PeerSends, PeerLeaves, Quiet
<1>7. CASE UNCHANGED vars
  BY <1>7, QuietKeeps DEF vars, Quiet
<1> QED BY <1>1, <1>2, <1>3, <1>4, <1>5, <1>6, <1>7, ConnectBooks, ReadClientBooks,
           ReadTargetBooks DEF Next, Thread, Ended

\* A GSSENC request was sent, and is never unsent.
LEMMA GssencStays ==
    ASSUME TypeOK, Has("client", {"gssencCode"}),
           sent' = sent \/ \E s \in Sides : Grew(s)
    PROVE  Has("client", {"gssencCode"})'
<1>1. CASE sent' = sent
  BY <1>1 DEF Has
<1>2. ASSUME NEW s \in Sides, Grew(s) PROVE Has("client", {"gssencCode"})'
  <2>1. PICK i \in DOMAIN sent["client"] : sent["client"][i].kind \in {"gssencCode"}
    BY DEF Has
  <2>2. sent["client"] \in Seq(Msg) /\ "client" \in Sides
    BY UnitsTypeOK DEF UnitsType, Sides
  <2>3. sent'["client"] \in Seq(Msg)
    <3>1. PICK m \in Msg : sent' = [sent EXCEPT ![s] = Append(@, m)]
      BY <1>2 DEF Grew
    <3>2. sent \in [Sides -> Seq(Msg)]
      BY UnitsTypeOK DEF UnitsType
    <3>3. sent' \in [Sides -> Seq(Msg)]
      BY <3>1, <3>2, AppendProperties
    <3> QED BY <2>2, <3>3
  <2>4. i \in 1..Len(sent["client"])
    BY <2>1, <2>2
  <2>5. /\ Len(sent["client"]) \in Nat /\ Len(sent'["client"]) \in Nat
        /\ Len(sent["client"]) <= Len(sent'["client"])
        /\ sent'["client"][i] = sent["client"][i]
    BY <1>2, <2>2, <2>4, GrewExtends
  <2>6. i \in 1..Len(sent'["client"])
    BY <2>4, <2>5
  <2>7. i \in DOMAIN sent'["client"]
    BY <2>3, <2>6
  <2> QED BY <2>1, <2>5, <2>7 DEF Has
<1> QED BY <1>1, <1>2

\* Only a GSSENC request makes the handshake leave the plugin.
LEMMA EscapeAsked ==
    ASSUME RelayInv, pc = "sendBody", bytes[1].kind = "gssencCode", sent' = sent
    PROVE  Has("client", {"gssencCode"})'
<1>1. Len(bytes) = 1 /\ from = "client" /\ bytes # <<>>
  BY DEF RelayInv, Control, Single, Holding, Whose
<1>2. PICK r \in Nat, e \in Nat, o \in Nat :
          r = read["client"] /\ e = Len(sent["client"]) /\ o = Len(outbox["target"])
  <2>1. UnitsType /\ "client" \in Sides /\ "target" \in Sides
    BY RelayTyped DEF Sides
  <2> QED BY <2>1 DEF UnitsType
<1>3. o + 1 = r
  BY <1>1, <1>2 DEF RelayInv, Flow, Intact, Other
<1>4. r <= e
  BY <1>2 DEF RelayInv, Flow, Relayed, Sides
<1>5. Copy(bytes[1], "client", r)
  <2>1. Copy(bytes[1], "client", read["client"] - 1 + 1)
    BY <1>1 DEF RelayInv, Flow
  <2> QED BY <1>2, <2>1
<1>6. sent["client"][r].kind = "gssencCode" /\ r \in 1..e
  BY <1>3, <1>4, <1>5 DEF Copy
<1>7. sent["client"] \in Seq(Msg)
  BY RelayTyped DEF UnitsType, Sides
<1>8. r \in DOMAIN sent["client"]
  BY <1>2, <1>6, <1>7
<1> QED BY <1>6, <1>8 DEF Has

LEMMA ClosedStep ==
    ASSUME RelayInv, ContextInv, LatencyInv, ClosedInv, [Next]_vars
    PROVE  ClosedInv'
<1>0. TypeOK /\ Control
  BY DEF RelayInv
<1>away. ASSUME pc' \notin {"done", "escaped"} PROVE ClosedInv'
  BY <1>away DEF ClosedInv
<1>1. CASE HandlerMissing \/ ConnectFails
  BY <1>1 DEF HandlerMissing, ConnectFails, ContextInv, ClosedInv
<1>2. CASE ConnectTarget \/ CreateSelect \/ LeaveLoop \/ SelectFails
  BY <1>2, <1>away DEF ConnectTarget, CreateSelect, LeaveLoop, SelectFails
<1>3. CASE CloseSockets
  BY <1>3 DEF CloseSockets, ClosedInv
<1>4. CASE Handshake
  <2>1. CASE CheckCapabilities
    BY <2>1, <1>away DEF CheckCapabilities, HandshakeError
  <2>2. CASE Replace("acceptTLS", "client", "connectTLS")
    BY <2>2, <1>away DEF Replace, HandshakeError
  <2>3. CASE Replace("connectTLS", "target", AfterTLS)
    BY <2>3, <1>away DEF Replace, AfterTLS, HandshakeError
  <2>4. ASSUME NEW at \in ReadLabels, RecvBlocking(at, Whose(at), AfterRead(at)) PROVE ClosedInv'
    BY <1>0, <1>away, <2>4, RecvQuiet
  <2>5. ASSUME NEW at \in SendLabels, Forwards(at) PROVE ClosedInv'
    <3>1. /\ pc' # "done"
          /\ pc' = "escaped" => bytes[1].kind = "gssencCode" /\ at = "sendBody"
      BY <1>0, <2>5, ForwardsBooks
    <3>2. pc = at /\ sent' = sent
      BY <1>0, <2>5, WriteShape
    <3>3. pc' = "escaped" => Has("client", {"gssencCode"})'
      BY <3>1, <3>2, EscapeAsked
    <3> QED BY <3>1, <3>3 DEF ClosedInv
  <2> QED BY <1>4, <2>1, <2>2, <2>3, <2>4, <2>5, HandshakeTable
<1>5. CASE ReadClient \/ ReadTarget
  BY <1>5, <1>away DEF ReadClient, ReadTarget, Read
<1>6. CASE ForwardUp
  <2>1. pc' \in {"forwardUp", "readTarget"}
    BY <1>0, <1>6, UpShape
  <2> QED BY <1>away, <2>1
<1>7. CASE ForwardDown
  <2>1. pc' = "select"
    BY <1>0, <1>7, DownShape
  <2> QED BY <1>away, <2>1
<1>8. CASE Peers \/ UNCHANGED vars
  <2>1. UNCHANGED <<pc, exec_context, open>>
    BY <1>8 DEF Peers, PeerSends, PeerLeaves, vars, sockets
  <2>2. Has("client", {"gssencCode"}) => Has("client", {"gssencCode"})'
    <3>1. sent' = sent \/ \E s \in Sides : Grew(s)
      BY <1>0, Steps DEF Kept, Lost, Took, Gave
    <3> QED BY <1>0, <3>1, GssencStays
  <2> QED BY <2>1, <2>2 DEF ClosedInv
<1> QED BY <1>1, <1>2, <1>3, <1>4, <1>5, <1>6, <1>7, <1>8 DEF Next, Thread, Ended

BooksInv == RelayInv /\ ContextInv /\ LatencyInv /\ ClosedInv

LEMMA BooksInvariant == Spec => []BooksInv
<1>1. Init => ContextInv /\ LatencyInv /\ ClosedInv
  <2>1. Init => ContextInv
    BY DEF Init, ContextInv, EmptyContext, PastResponse, LoopLabels
  <2>2. Init => LatencyInv
    BY DEF Init, LatencyInv, UpTo
  <2>3. Init => ClosedInv
    BY DEF Init, ClosedInv
  <2> QED BY <2>1, <2>2, <2>3
<1>2. BooksInv /\ [Next]_vars => (ContextInv /\ LatencyInv /\ ClosedInv)'
  BY BooksStep, ClosedStep DEF BooksInv, RelayInv
<1> QED BY <1>1, <1>2, RelayInvariant, PTL DEF Spec, BooksInv

\* A handler finds in exec_context the id of the exchange that is open, the
\* target and, with MySQL, the capabilities its cast needs.
THEOREM HandlerContext == Spec => []ContextReady
<1>1. BooksInv => ContextReady
  BY DEF BooksInv, ContextInv, LatencyInv, ContextReady, PastResponse, LoopLabels
<1> QED BY <1>1, BooksInvariant, PTL

\* Each correlation id is logged once and in order, whatever errors cut the
\* exchanges short.
THEOREM HandshakeLatency == Spec => []LatencyAccount
<1>1. BooksInv => LatencyAccount
  BY DEF BooksInv, LatencyInv, LatencyAccount, UpTo
<1> QED BY <1>1, BooksInvariant, PTL

\* However the handshake ends, the sockets are closed, unless a GSSENC request
\* made it throw what no catch block takes.
THEOREM HandshakeCloses == Spec => []SocketsClosed
<1>1. BooksInv => SocketsClosed
  <2> SUFFICES ASSUME BooksInv, pc \in {"done", "escaped"}, exec_context.target_host
               PROVE  Has("client", {"gssencCode"}) \/ \A s \in Sides : ~open[s]
    BY DEF SocketsClosed
  <2>1. exec_context.target_host = TRUE
    BY DEF BooksInv, RelayInv, TypeOK, ContextType
  <2> QED BY <2>1 DEF BooksInv, ClosedInv
<1> QED BY <1>1, BooksInvariant, PTL

-----------------------------------------------------------------------------
(* The sockets are replaced at the same point of both streams.             *)

\* The i-th unit of s has been sent, and is (or is not) a k.
Is(s, i, k)    == Len(sent[s]) >= i /\ sent[s][i].kind = k
IsNot(s, i, k) == Len(sent[s]) >= i /\ sent[s][i].kind # k

\* The peers have agreed on TLS, or will never do so any more.
Agreed ==
    IF plugin = "MySQLPipeline" THEN Is("client", 1, "sslResponse") ELSE Is("target", 1, "S")

Refused ==
    IF plugin = "MySQLPipeline"
      THEN IsNot("client", 1, "sslResponse")
      ELSE \/ IsNot("target", 1, "S")
           \/ IsNot("client", 1, "length8") \/ IsNot("client", 2, "sslCode")

\* How many units of s precede the change of sockets.
Cut(s) == IF plugin = "MySQLPipeline" \/ s = "target" THEN 1 ELSE 2

\* How the peers open a MySQL connection: the target greets first, the client
\* asks for TLS with its first packet only, and the target waits for that.
MySQLOpening ==
    /\ \A i \in 1..Len(sent["client"]) : sent["client"][i].kind = "sslResponse" => i = 1
    /\ Len(sent["client"]) >= 1 => Len(sent["target"]) >= 1
    /\ Len(sent["target"]) >= 2 => Len(sent["client"]) >= 1

\* PostgreSQL: an SSLRequest is the client's first message, 'S' is only the
\* answer to it, and the client waits for the answer.
PostgreSQLOpening ==
    /\ \A i \in 1..Len(sent["client"]) :
          sent["client"][i].kind = "sslCode" => i = 2 /\ sent["client"][1].kind = "length8"
    /\ \A i \in 1..Len(sent["target"]) :
          sent["target"][i].kind = "S" => i = 1 /\ Is("client", 2, "sslCode")
    /\ Len(sent["client"]) >= 3 /\ Is("client", 2, "sslCode") => Len(outbox["client"]) >= 1

Opening ==
    /\ plugin = "MySQLPipeline" => MySQLOpening
    /\ plugin = "PostgreSQLPipeline" => PostgreSQLOpening

\* The peers use TLS from the cut on, and only if they have agreed.
Marked ==
    \A s \in Sides : \A i \in 1..Len(sent[s]) : sent[s][i].tls = (Agreed /\ i > Cut(s))

OpeningInv == Opening /\ Marked

\* What a peer received is what the other one sent.
LEMMA ReceivedSent ==
    ASSUME RelayInv, NEW s \in Sides, NEW k
    PROVE  /\ Received(s, {k}) <=> \E i \in 1..Len(outbox[s]) : sent[Other(s)][i].kind = k
           /\ Len(outbox[s]) \in Nat /\ Len(outbox[s]) <= Len(sent[Other(s)])
<1>1. Other(s) \in Sides /\ Other(Other(s)) = s
  BY OtherSide
<1>2. Relayed(Other(s))
  BY <1>1 DEF RelayInv, Flow
<1>3. \A i \in 1..Len(outbox[s]) : outbox[s][i].kind = sent[Other(s)][i].kind
  BY <1>1, <1>2 DEF Relayed, Copy
<1>4. DOMAIN outbox[s] = 1..Len(outbox[s])
  BY RelayTyped DEF UnitsType
<1>5. PICK o \in Nat, r \in Nat, e \in Nat :
          o = Len(outbox[s]) /\ r = read[Other(s)] /\ e = Len(sent[Other(s)])
  <2>1. outbox[s] \in Seq(SentUnit) /\ sent[Other(s)] \in Seq(Msg) /\ read[Other(s)] \in Nat
    BY <1>1, RelayTyped DEF UnitsType
  <2> QED BY <2>1, LenProperties
<1>6. o <= r /\ r <= e
  BY <1>1, <1>2, <1>5 DEF Relayed
<1>7. o <= e
  BY <1>6
<1> QED BY <1>3, <1>4, <1>5, <1>7 DEF Received

LEMMA OneMore ==
    ASSUME TypeOK, NEW s \in Sides, PeerSends(s)
    PROVE  /\ UNCHANGED <<plugin, outbox>> /\ sent'[Other(s)] = sent[Other(s)]
           /\ Len(sent[s]) \in Nat /\ Len(sent'[s]) = Len(sent[s]) + 1
           /\ \A i \in 1..Len(sent[s]) : sent'[s][i] = sent[s][i]
           /\ sent'[s][Len(sent[s]) + 1].kind \in
                 (IF s = "client" THEN ClientOffers ELSE TargetOffers)
           /\ sent'[s][Len(sent[s]) + 1].tls = UsesTLS(s)
<1>1. PICK k \in (IF s = "client" THEN ClientOffers ELSE TargetOffers) :
          sent' = [sent EXCEPT ![s] = Append(@, [kind |-> k, tls |-> UsesTLS(s)])]
  BY DEF PeerSends
<1> DEFINE m == [kind |-> k, tls |-> UsesTLS(s)]
<1>2. m \in Msg /\ m.kind = k /\ m.tls = UsesTLS(s)
  <2>1. plugin \in PluginNames
    BY PluginsAssumption DEF TypeOK
  <2>2. k \in Kinds
    BY <2>1, OffersTyped
  <2>3. UsesTLS(s) \in BOOLEAN
    BY <2>1 DEF UsesTLS, Sides, PluginNames, Has, Received
  <2> QED BY <2>2, <2>3 DEF Msg
<1>3. sent \in [Sides -> Seq(Msg)] /\ sent[s] \in Seq(Msg)
  BY UnitsTypeOK DEF UnitsType
<1>4. sent' = [sent EXCEPT ![s] = Append(sent[s], m)]
  BY <1>1
<1> HIDE DEF m
<1>5. /\ Len(Append(sent[s], m)) = Len(sent[s]) + 1 /\ Len(sent[s]) \in Nat
      /\ \A i \in 1..Len(sent[s]) : Append(sent[s], m)[i] = sent[s][i]
      /\ Append(sent[s], m)[Len(sent[s]) + 1] = m
  BY <1>2, <1>3, AppendProperties, LenProperties
<1>6. sent'[s] = Append(sent[s], m) /\ sent'[Other(s)] = sent[Other(s)]
  BY <1>3, <1>4, OtherSide
<1> QED BY <1>1, <1>2, <1>5, <1>6 DEF PeerSends, config

LEMMA MySQLClientSends ==
    ASSUME RelayInv, plugin = "MySQLPipeline", OpeningInv, PeerSends("client")
    PROVE  OpeningInv'
<1>0. TypeOK /\ "client" \in Sides /\ "target" \in Sides /\ Other("client") = "target"
  BY DEF RelayInv, Sides, Other
<1>1. PICK n \in Nat, m \in Nat : n = Len(sent["client"]) /\ m = Len(sent["target"])
  <2>1. sent["client"] \in Seq(Msg) /\ sent["target"] \in Seq(Msg)
    BY <1>0, UnitsTypeOK DEF UnitsType
  <2> QED BY <2>1, LenProperties
<1> DEFINE u == sent'["client"][n + 1]
<1>2. /\ UNCHANGED <<plugin, outbox>> /\ sent'["target"] = sent["target"]
      /\ Len(sent'["client"]) = n + 1
      /\ \A i \in 1..n : sent'["client"][i] = sent["client"][i]
      /\ u.kind \in ClientOffers /\ u.tls = UsesTLS("client")
  BY <1>0, <1>1, OneMore
<1> HIDE DEF u
<1>3. n > 0 => u.kind # "sslResponse"
  BY <1>1, <1>2 DEF ClientOffers, ClientKinds
<1>4. n = 0 => m >= 1
  <2>1. n = 0 => outbox["client"] # <<>>
    BY <1>1, <1>2 DEF ClientOffers
  <2>2. outbox["client"] # <<>> => Len(outbox["client"]) # 0
    BY <1>0, UnitsTypeOK, EmptySeq DEF UnitsType
  <2>3. Len(outbox["client"]) \in Nat /\ Len(outbox["client"]) <= m
    BY <1>0, <1>1, ReceivedSent
  <2> QED BY <2>1, <2>2, <2>3
<1>5. /\ \A i \in 1..n : sent["client"][i].kind = "sslResponse" => i = 1
      /\ n >= 1 => m >= 1
      /\ m >= 2 => n >= 1
  BY <1>1 DEF OpeningInv, Opening, MySQLOpening
<1>6. UsesTLS("client") = (n >= 1 /\ sent["client"][1].kind = "sslResponse")
  <2>1. DOMAIN sent["client"] = 1..n
    BY <1>0, <1>1, UnitsTypeOK DEF UnitsType
  <2>2. UsesTLS("client") = Has("client", {"sslResponse"})
    BY DEF UsesTLS
  <2>3. Has("client", {"sslResponse"}) <=> (n >= 1 /\ sent["client"][1].kind = "sslResponse")
    BY <1>5, <2>1 DEF Has
  <2> QED BY <2>2, <2>3 DEF Has
<1>7. Opening'
  <2>1. ASSUME NEW i \in 1..(n + 1), sent'["client"][i].kind = "sslResponse" PROVE i = 1
    <3>1. CASE i \in 1..n
      BY <1>2, <1>5, <2>1, <3>1
    <3>2. CASE i = n + 1
      BY <1>3, <2>1, <3>2 DEF u
    <3> QED BY <3>1, <3>2
  <2>2. m >= 1 /\ n + 1 >= 1
    BY <1>4, <1>5
  <2>3. Len(sent'["target"]) = m
    BY <1>1, <1>2
  <2>4. MySQLOpening'
    BY <1>2, <2>1, <2>2, <2>3 DEF MySQLOpening
  <2> QED BY <1>2, <2>4 DEF Opening
<1>8. /\ \A i \in 1..n : sent["client"][i].tls = (Agreed /\ i > 1)
      /\ \A i \in 1..m : sent["target"][i].tls = (Agreed /\ i > 1)
  BY <1>0, <1>1 DEF OpeningInv, Marked, Cut
<1>9. Agreed <=> (n >= 1 /\ sent["client"][1].kind = "sslResponse")
  BY <1>1 DEF Agreed, Is
<1>10. n >= 1 => (Agreed' <=> Agreed)
  <2>1. n >= 1 => sent'["client"][1] = sent["client"][1] /\ n + 1 >= 1
    BY <1>2
  <2> QED BY <1>2, <1>9, <2>1 DEF Agreed, Is
<1>11. ASSUME NEW i \in 1..(n + 1) PROVE sent'["client"][i].tls = (Agreed' /\ i > 1)
  <2>1. CASE n = 0
    BY <1>2, <1>6, <2>1 DEF u
  <2>2. CASE n >= 1 /\ i \in 1..n
    BY <1>2, <1>8, <1>10, <2>2
  <2>3. CASE n >= 1 /\ i = n + 1
    <3>1. sent'["client"][i].tls = Agreed /\ i > 1
      BY <1>2, <1>6, <1>9, <2>3 DEF u, Agreed, Is
    <3>2. Agreed' = Agreed
      BY <1>10, <2>3 DEF Agreed, Is
    <3>3. (Agreed' /\ i > 1) = Agreed'
      BY <3>1 DEF Agreed, Is
    <3> QED BY <3>1, <3>2, <3>3
  <2> QED BY <2>1, <2>2, <2>3
<1>12. ASSUME NEW i \in 1..m PROVE sent'["target"][i].tls = (Agreed' /\ i > 1)
  <2>1. CASE n = 0
    <3>1. ~ (i > 1)
      BY <1>5, <2>1
    <3> QED BY <1>2, <1>8, <3>1
  <2>2. CASE n >= 1
    BY <1>2, <1>8, <1>10, <2>2
  <2> QED BY <2>1, <2>2
<1>13. Marked'
  <2>1. Len(sent'["target"]) = m
    BY <1>1, <1>2
  <2> QED BY <1>2, <1>11, <1>12, <2>1 DEF Marked, Cut, Sides
<1> QED BY <1>7, <1>13 DEF OpeningInv

LEMMA MySQLTargetSends ==
    ASSUME RelayInv, plugin = "MySQLPipeline", OpeningInv, PeerSends("target")
    PROVE  OpeningInv'
<1>0. TypeOK /\ "client" \in Sides /\ "target" \in Sides /\ Other("target") = "client"
  BY DEF RelayInv, Sides, Other
<1>1. PICK n \in Nat, m \in Nat : n = Len(sent["client"]) /\ m = Len(sent["target"])
  <2>1. sent["client"] \in Seq(Msg) /\ sent["target"] \in Seq(Msg)
    BY <1>0, UnitsTypeOK DEF UnitsType
  <2> QED BY <2>1, LenProperties
<1> DEFINE u == sent'["target"][m + 1]
<1>2. /\ UNCHANGED <<plugin, outbox>> /\ sent'["client"] = sent["client"]
      /\ Len(sent'["target"]) = m + 1
      /\ \A i \in 1..m : sent'["target"][i] = sent["target"][i]
      /\ u.kind \in TargetOffers /\ u.tls = UsesTLS("target")
  BY <1>0, <1>1, OneMore
<1> HIDE DEF u
<1>3. PICK g \in Nat : g = Len(outbox["target"]) /\ g <= n
  BY <1>0, <1>1, ReceivedSent
<1>4. m = 0 \/ g >= 1
  <2>1. ~ (m = 0 \/ g > 1 \/ g = 1) => TargetOffers = {}
    BY <1>1, <1>3 DEF TargetOffers
  <2> QED BY <1>2, <2>1
<1>5. /\ \A i \in 1..n : sent["client"][i].kind = "sslResponse" => i = 1
      /\ n >= 1 => m >= 1
  BY <1>1 DEF OpeningInv, Opening, MySQLOpening
<1>6. Agreed <=> (n >= 1 /\ sent["client"][1].kind = "sslResponse")
  BY <1>1 DEF Agreed, Is
<1>7. UsesTLS("target") = (g >= 1 /\ sent["client"][1].kind = "sslResponse")
  <2>1. UsesTLS("target") = Received("target", {"sslResponse"})
    BY DEF UsesTLS
  <2>2. Received("target", {"sslResponse"}) <=>
            \E i \in 1..g : sent["client"][i].kind = "sslResponse"
    <3>1. Received("target", {"sslResponse"}) <=>
             \E i \in 1..Len(outbox["target"]) : sent[Other("target")][i].kind = "sslResponse"
      BY <1>0, ReceivedSent
    <3> QED BY <1>0, <1>3, <3>1
  <2>3. \A i \in 1..g : i \in 1..n
    BY <1>3
  <2>4. Received("target", {"sslResponse"}) <=>
            (g >= 1 /\ sent["client"][1].kind = "sslResponse")
    BY <1>5, <2>2, <2>3
  <2> QED BY <2>1, <2>4 DEF Received
<1>8. Agreed' <=> Agreed
  BY <1>2 DEF Agreed, Is
<1>9. Opening'
  <2>1. m + 1 >= 2 => n >= 1
    BY <1>3, <1>4
  <2>2. Len(sent'["client"]) = n
    BY <1>1, <1>2
  <2>3. MySQLOpening'
    BY <1>2, <1>5, <2>1, <2>2 DEF MySQLOpening
  <2> QED BY <1>2, <2>3 DEF Opening
<1>10. /\ \A i \in 1..n : sent["client"][i].tls = (Agreed /\ i > 1)
       /\ \A i \in 1..m : sent["target"][i].tls = (Agreed /\ i > 1)
  BY <1>0, <1>1 DEF OpeningInv, Marked, Cut
<1>11. u.tls = (Agreed /\ m + 1 > 1)
  <2>1. CASE m = 0
    <3>1. g = 0
      BY <1>3, <1>5, <2>1
    <3> QED BY <1>2, <1>7, <2>1, <3>1
  <2>2. CASE m # 0
    <3>1. g >= 1 /\ n >= 1 /\ m + 1 > 1
      BY <1>3, <1>4, <2>2
    <3> QED BY <1>2, <1>6, <1>7, <3>1
  <2> QED BY <2>1, <2>2
<1>12. \A i \in 1..(m + 1) : sent'["target"][i].tls = (Agreed' /\ i > 1)
  <2>1. \A i \in 1..(m + 1) : i \in 1..m \/ i = m + 1
    OBVIOUS
  <2> QED BY <1>2, <1>8, <1>10, <1>11, <2>1 DEF u
<1>13. Marked'
  <2>1. Len(sent'["client"]) = n
    BY <1>1, <1>2
  <2> QED BY <1>2, <1>8, <1>10, <1>12, <2>1 DEF Marked, Cut, Sides
<1> QED BY <1>9, <1>13 DEF OpeningInv

LEMMA PostgreSQLClientSends ==
    ASSUME RelayInv, plugin = "PostgreSQLPipeline", OpeningInv, PeerSends("client")
    PROVE  OpeningInv'
<1>0. TypeOK /\ "client" \in Sides /\ "target" \in Sides /\ Other("client") = "target"
  BY DEF RelayInv, Sides, Other
<1>1. PICK n \in Nat, m \in Nat : n = Len(sent["client"]) /\ m = Len(sent["target"])
  <2>1. sent["client"] \in Seq(Msg) /\ sent["target"] \in Seq(Msg)
    BY <1>0, UnitsTypeOK DEF UnitsType
  <2> QED BY <2>1, LenProperties
<1> DEFINE u == sent'["client"][n + 1]
           c == sent["client"]
<1>2. /\ UNCHANGED <<plugin, outbox>> /\ sent'["target"] = sent["target"]
      /\ Len(sent'["client"]) = n + 1
      /\ \A i \in 1..n : sent'["client"][i] = c[i]
      /\ u.kind \in ClientOffers /\ u.tls = UsesTLS("client")
  BY <1>0, <1>1, OneMore
<1> HIDE DEF u
<1>3. PICK g \in Nat : g = Len(outbox["client"]) /\ g <= m
  BY <1>0, <1>1, ReceivedSent
<1>4. /\ \A i \in 1..n : c[i].kind = "sslCode" => i = 2 /\ c[1].kind = "length8"
      /\ \A i \in 1..m : sent["target"][i].kind = "S" => i = 1 /\ n >= 2 /\ c[2].kind = "sslCode"
      /\ n >= 3 /\ c[2].kind = "sslCode" => g >= 1
  BY <1>1, <1>3 DEF OpeningInv, Opening, PostgreSQLOpening, Is
<1>5. u.kind = "sslCode" => n = 1 /\ c[1].kind = "length8"
  <2>1. ~ (n = 1 /\ c[1].kind = "length8") => "sslCode" \notin ClientOffers
    BY <1>1 DEF ClientOffers, ClientKinds
  <2> QED BY <1>2, <2>1
<1>6. n = 2 /\ c[2].kind = "sslCode" => g >= 1
  <2>1. n = 2 /\ c[2].kind = "sslCode" /\ outbox["client"] = <<>> => ClientOffers = {}
    BY <1>1 DEF ClientOffers
  <2>2. outbox["client"] # <<>> => Len(outbox["client"]) # 0
    BY <1>0, UnitsTypeOK, EmptySeq DEF UnitsType
  <2>3. n = 2 /\ c[2].kind = "sslCode" => g # 0
    BY <1>2, <1>3, <2>1, <2>2
  <2> QED BY <1>3, <2>3
<1>7. UsesTLS("client") = (g >= 1 /\ sent["target"][1].kind = "S")
  <2>1. UsesTLS("client") = Received("client", {"S"})
    BY DEF UsesTLS
  <2>2. Received("client", {"S"}) <=> \E i \in 1..g : sent["target"][i].kind = "S"
    <3>1. Received("client", {"S"}) <=>
             \E i \in 1..Len(outbox["client"]) : sent[Other("client")][i].kind = "S"
      BY <1>0, ReceivedSent
    <3> QED BY <1>0, <1>3, <3>1
  <2>3. \A i \in 1..g : i \in 1..m
    BY <1>3
  <2>4. Received("client", {"S"}) <=> (g >= 1 /\ sent["target"][1].kind = "S")
    BY <1>4, <2>2, <2>3
  <2> QED BY <2>1, <2>4 DEF Received
<1>8. (Agreed <=> (m >= 1 /\ sent["target"][1].kind = "S")) /\ Agreed' = Agreed
  BY <1>1, <1>2 DEF Agreed, Is
<1>9. Opening'
  <2>1. ASSUME NEW i \in 1..(n + 1), sent'["client"][i].kind = "sslCode"
        PROVE  i = 2 /\ sent'["client"][1].kind = "length8"
    <3>1. CASE i \in 1..n
      BY <1>2, <1>4, <2>1, <3>1
    <3>2. CASE i = n + 1
      <4>1. n = 1 /\ c[1].kind = "length8"
        BY <1>5, <2>1, <3>2 DEF u
      <4> QED BY <1>2, <3>2, <4>1
    <3> QED BY <3>1, <3>2
  <2>2. n >= 2 => sent'["client"][2] = c[2] /\ n + 1 >= 2
    BY <1>2
  <2>3. ASSUME NEW i \in 1..m, sent'["target"][i].kind = "S"
        PROVE  i = 1 /\ Is("client", 2, "sslCode")'
    <3>1. i = 1 /\ n >= 2 /\ c[2].kind = "sslCode"
      BY <1>2, <1>4, <2>3
    <3> QED BY <1>2, <2>2, <3>1 DEF Is
  <2>4. n + 1 >= 3 /\ sent'["client"][2].kind = "sslCode" => g >= 1
    <3>1. n + 1 >= 3 => n >= 2 /\ (n = 2 \/ n >= 3)
      OBVIOUS
    <3> QED BY <1>4, <1>6, <2>2, <3>1
  <2>5. Len(sent'["target"]) = m /\ Len(outbox'["client"]) = g
    BY <1>1, <1>2, <1>3
  <2>6. PostgreSQLOpening'
    <3>1. Len(sent'["client"]) >= 3 /\ Is("client", 2, "sslCode")' => Len(outbox'["client"]) >= 1
      BY <1>2, <2>4, <2>5 DEF Is
    <3> QED BY <1>2, <2>1, <2>3, <2>5, <3>1 DEF PostgreSQLOpening
  <2> QED BY <1>2, <2>6 DEF Opening
<1>10. /\ \A i \in 1..n : c[i].tls = (Agreed /\ i > 2)
       /\ \A i \in 1..m : sent["target"][i].tls = (Agreed /\ i > 1)
  BY <1>0, <1>1 DEF OpeningInv, Marked, Cut
<1>11. u.tls = (Agreed /\ n + 1 > 2)
  <2>1. Agreed => n >= 2 /\ c[2].kind = "sslCode"
    BY <1>4, <1>8
  <2>2. Agreed => g >= 1
    <3>1. n >= 2 => n = 2 \/ n >= 3
      OBVIOUS
    <3> QED BY <1>4, <1>6, <2>1, <3>1
  <2>3. (g >= 1 /\ sent["target"][1].kind = "S") <=> Agreed
    BY <1>3, <1>8, <2>2
  <2>4. Agreed <=> (Agreed /\ n + 1 > 2)
    BY <2>1
  <2> QED BY <1>2, <1>7, <2>3, <2>4
<1>12. \A i \in 1..(n + 1) : sent'["client"][i].tls = (Agreed' /\ i > 2)
  <2>1. \A i \in 1..(n + 1) : i \in 1..n \/ i = n + 1
    OBVIOUS
  <2> QED BY <1>2, <1>8, <1>10, <1>11, <2>1 DEF u
<1>13. Marked'
  <2>1. Len(sent'["target"]) = m
    BY <1>1, <1>2
  <2>2. Cut("client")' = 2 /\ Cut("target")' = 1
    BY <1>2 DEF Cut
  <2>3. \A i \in 1..m : sent'["target"][i].tls = (Agreed' /\ i > 1)
    BY <1>2, <1>8, <1>10
  <2> QED BY <1>2, <1>12, <2>1, <2>2, <2>3 DEF Marked, Sides
<1> QED BY <1>9, <1>13 DEF OpeningInv

LEMMA PostgreSQLTargetSends ==
    ASSUME RelayInv, plugin = "PostgreSQLPipeline", OpeningInv, PeerSends("target")
    PROVE  OpeningInv'
<1>0. /\ TypeOK /\ "client" \in Sides /\ "target" \in Sides
      /\ Other("target") = "client" /\ Other("client") = "target"
  BY DEF RelayInv, Sides, Other
<1>1. PICK n \in Nat, m \in Nat : n = Len(sent["client"]) /\ m = Len(sent["target"])
  <2>1. sent["client"] \in Seq(Msg) /\ sent["target"] \in Seq(Msg)
    BY <1>0, UnitsTypeOK DEF UnitsType
  <2> QED BY <2>1, LenProperties
<1> DEFINE u == sent'["target"][m + 1]
           c == sent["client"]
<1>2. /\ UNCHANGED <<plugin, outbox>> /\ sent'["client"] = c
      /\ Len(sent'["target"]) = m + 1
      /\ \A i \in 1..m : sent'["target"][i] = sent["target"][i]
      /\ u.kind \in TargetOffers /\ u.tls = UsesTLS("target")
  BY <1>0, <1>1, OneMore
<1> HIDE DEF u
<1>3. PICK g \in Nat, h \in Nat :
          /\ g = Len(outbox["client"]) /\ g <= m
          /\ h = Len(outbox["target"]) /\ h <= n
  BY <1>0, <1>1, ReceivedSent
<1>4. /\ \A i \in 1..n : c[i].kind = "sslCode" => i = 2 /\ c[1].kind = "length8"
      /\ \A i \in 1..m : sent["target"][i].kind = "S" => i = 1 /\ n >= 2 /\ c[2].kind = "sslCode"
      /\ n >= 3 /\ c[2].kind = "sslCode" => g >= 1
  BY <1>1, <1>3 DEF OpeningInv, Opening, PostgreSQLOpening, Is
<1>5. u.kind = "S" => m = 0 /\ n >= 2 /\ c[2].kind = "sslCode"
  <2>1. ~ (m = 0 /\ Received("target", {"sslCode"})) => "S" \notin TargetOffers
    BY <1>1 DEF TargetOffers, TargetKinds
  <2>2. Received("target", {"sslCode"}) => \E i \in 1..h : c[i].kind = "sslCode"
    <3>1. Received("target", {"sslCode"}) <=>
             \E i \in 1..Len(outbox["target"]) : sent[Other("target")][i].kind = "sslCode"
      BY <1>0, ReceivedSent
    <3> QED BY <1>0, <1>3, <3>1
  <2>3. \A i \in 1..h : i \in 1..n
    BY <1>3
  <2>4. (\E i \in 1..h : c[i].kind = "sslCode") => n >= 2 /\ c[2].kind = "sslCode"
    BY <1>4, <2>3
  <2> QED BY <1>2, <2>1, <2>2, <2>4
<1>6. UsesTLS("target") = (m >= 1 /\ sent["target"][1].kind = "S")
  <2>1. DOMAIN sent["target"] = 1..m
    BY <1>0, <1>1, UnitsTypeOK DEF UnitsType
  <2>2. UsesTLS("target") = Has("target", {"S"})
    BY DEF UsesTLS
  <2>3. Has("target", {"S"}) <=> (m >= 1 /\ sent["target"][1].kind = "S")
    BY <1>4, <2>1 DEF Has
  <2> QED BY <2>2, <2>3 DEF Has
<1>7. Agreed <=> (m >= 1 /\ sent["target"][1].kind = "S")
  BY <1>1 DEF Agreed, Is
<1>8. Agreed' <=> sent'["target"][1].kind = "S"
  BY <1>2 DEF Agreed, Is
<1>9. m >= 1 => Agreed' = Agreed
  <2>1. m >= 1 => sent'["target"][1] = sent["target"][1]
    BY <1>2
  <2>2. m >= 1 => (Agreed' <=> Agreed)
    BY <1>7, <1>8, <2>1
  <2> QED BY <2>2 DEF Agreed, Is
<1>10. Opening'
  <2>1. ASSUME NEW i \in 1..(m + 1), sent'["target"][i].kind = "S"
        PROVE  i = 1 /\ Is("client", 2, "sslCode")'
    <3>1. i = 1 /\ n >= 2 /\ c[2].kind = "sslCode"
      <4>1. CASE i \in 1..m
        BY <1>2, <1>4, <2>1, <4>1
      <4>2. CASE i = m + 1
        BY <1>5, <2>1, <4>2 DEF u
      <4> QED BY <4>1, <4>2
    <3> QED BY <1>1, <1>2, <3>1 DEF Is
  <2>2. Len(sent'["client"]) = n /\ Len(outbox'["client"]) = g
    BY <1>1, <1>2, <1>3
  <2>3. Len(sent'["client"]) >= 3 /\ Is("client", 2, "sslCode")' => Len(outbox'["client"]) >= 1
    BY <1>2, <1>4, <2>2 DEF Is
  <2>4. PostgreSQLOpening'
    BY <1>2, <1>4, <2>1, <2>2, <2>3 DEF PostgreSQLOpening
  <2> QED BY <1>2, <2>4 DEF Opening
<1>11. /\ \A i \in 1..n : c[i].tls = (Agreed /\ i > 2)
       /\ \A i \in 1..m : sent["target"][i].tls = (Agreed /\ i > 1)
  BY <1>0, <1>1 DEF OpeningInv, Marked, Cut
<1>12. ASSUME NEW i \in 1..n PROVE c[i].tls = (Agreed' /\ i > 2)
  <2>1. CASE m >= 1
    BY <1>9, <1>11, <2>1
  <2>2. CASE m = 0
    <3>1. ~ Agreed /\ g = 0
      BY <1>3, <1>7, <2>2
    <3>2. Agreed' => n >= 2 /\ c[2].kind = "sslCode"
      BY <1>5, <1>8, <2>2 DEF u
    <3>3. Agreed' => ~ (i > 2)
      BY <1>4, <3>1, <3>2
    <3>4. c[i].tls = FALSE
      BY <1>11, <3>1
    <3> QED BY <3>3, <3>4
  <2> QED BY <2>1, <2>2
<1>13. ASSUME NEW i \in 1..(m + 1) PROVE sent'["target"][i].tls = (Agreed' /\ i > 1)
  <2>1. CASE m = 0
    BY <1>2, <1>6, <2>1 DEF u
  <2>2. CASE m >= 1 /\ i \in 1..m
    BY <1>2, <1>9, <1>11, <2>2
  <2>3. CASE m >= 1 /\ i = m + 1
    <3>1. sent'["target"][i].tls = (m >= 1 /\ sent["target"][1].kind = "S") /\ i > 1
      BY <1>2, <1>6, <2>3 DEF u
    <3>2. (m >= 1 /\ sent["target"][1].kind = "S") <=> (Agreed' /\ i > 1)
      BY <1>7, <1>9, <2>3, <3>1
    <3> QED BY <3>1, <3>2
  <2> QED BY <2>1, <2>2, <2>3
<1>14. Marked'
  <2>1. Len(sent'["client"]) = n /\ sent'["client"] = c
    BY <1>1, <1>2
  <2>2. Cut("client")' = 2 /\ Cut("target")' = 1
    BY <1>2 DEF Cut
  <2> QED BY <1>2, <1>12, <1>13, <2>1, <2>2 DEF Marked, Sides
<1> QED BY <1>10, <1>14 DEF OpeningInv

LEMMA SentSteps ==
    ASSUME [Next]_vars
    PROVE  plugin' = plugin /\ (sent' = sent \/ \E s \in Sides : PeerSends(s))
<1>1. CASE HandlerMissing \/ ConnectTarget \/ ConnectFails \/ CreateSelect \/ LeaveLoop
           \/ SelectFails \/ CloseSockets
  BY <1>1 DEF HandlerMissing, ConnectTarget, ConnectFails, CreateSelect, LeaveLoop,
              SelectFails, CloseSockets, config, sockets
<1>2. CASE Handshake
  <2>1. \A at, s, next : RecvBlocking(at, s, next) => plugin' = plugin /\ sent' = sent
    BY DEF RecvBlocking, config
  <2>2. \A at : Forwards(at) => plugin' = plugin /\ sent' = sent
    BY DEF Forwards, WriteBytes, config
  <2>3. CheckCapabilities => plugin' = plugin /\ sent' = sent
    BY DEF CheckCapabilities, config, sockets
  <2>4. \A at, s, next : Replace(at, s, next) => plugin' = plugin /\ sent' = sent
    BY DEF Replace, config
  <2> QED BY <1>2, <2>1, <2>2, <2>3, <2>4, HandshakeTable
<1>3. CASE ReadClient \/ ForwardUp \/ ReadTarget \/ ForwardDown
  BY <1>3 DEF ReadClient, ForwardUp, ReadTarget, ForwardDown, config
<1>4. CASE Peers
  BY <1>4 DEF Peers, PeerSends, PeerLeaves, config
<1>5. CASE UNCHANGED vars
  BY <1>5 DEF vars, config, sockets
<1> QED BY <1>1, <1>2, <1>3, <1>4, <1>5 DEF Next, Thread, Ended

LEMMA OpeningStep ==
    ASSUME RelayInv, OpeningInv, [Next]_vars
    PROVE  OpeningInv'
<1>0. TypeOK /\ Control /\ plugin \in PluginNames
  BY PluginsAssumption DEF RelayInv, TypeOK
<1>1. CASE sent' = sent
  <2>1. plugin' = plugin
    BY SentSteps
  <2>2. Agreed' = Agreed /\ \A s \in Sides : Cut(s)' = Cut(s)
    BY <1>1, <2>1 DEF Agreed, Is, Cut
  <2>3. Marked'
    BY <1>1, <2>2 DEF OpeningInv, Marked
  <2>4. Len(outbox["client"]) >= 1 => Len(outbox'["client"]) >= 1
    <3>1. CASE outbox' = outbox
      BY <3>1
    <3>2. ASSUME NEW k \in Int, Gave(k) PROVE Len(outbox["client"]) >= 1 => Len(outbox'["client"]) >= 1
      <4>1. PICK o \in Nat, t \in Sides : t = Other(from) /\ o = Len(outbox[t])
        BY <1>0, UnitsTypeOK, OtherSide DEF UnitsType
      <4>2. k \in Nat /\ Len(outbox'[t]) = o + k /\ outbox'[from] = outbox[from]
        BY <1>0, <3>2, <4>1, GaveTyped
      <4>3. t = "client" \/ from = "client"
        BY <1>0, <4>1, UnitsTypeOK DEF UnitsType, Sides, Other
      <4> QED BY <4>1, <4>2, <4>3
    <3>3. outbox' = outbox \/ \E k \in Int : Gave(k)
      BY <1>0, Steps DEF Kept, Lost, Took, Grew
    <3> QED BY <3>1, <3>2, <3>3
  <2>5. MySQLOpening => MySQLOpening'
    BY <1>1 DEF MySQLOpening
  <2>6. PostgreSQLOpening => PostgreSQLOpening'
    BY <1>1, <2>4 DEF PostgreSQLOpening, Is
  <2>7. Opening'
    BY <2>1, <2>5, <2>6 DEF OpeningInv, Opening
  <2> QED BY <2>3, <2>7 DEF OpeningInv
<1>2. ASSUME NEW s \in Sides, PeerSends(s) PROVE OpeningInv'
  BY <1>0, <1>2, MySQLClientSends, MySQLTargetSends, PostgreSQLClientSends,
     PostgreSQLTargetSends DEF PluginNames, Sides
<1> QED BY <1>1, <1>2, SentSteps

\* What was agreed on, or refused, stays so.
LEMMA AgreementStays ==
    ASSUME RelayInv, [Next]_vars
    PROVE  (Agreed => Agreed') /\ (Refused => Refused')
<1>0. TypeOK
  BY DEF RelayInv
<1>1. plugin' = plugin
  BY SentSteps
<1>2. ASSUME NEW s \in Sides, NEW i \in Nat, i >= 1, NEW k
      PROVE  (Is(s, i, k) => Is(s, i, k)') /\ (IsNot(s, i, k) => IsNot(s, i, k)')
  <2>1. CASE sent' = sent
    BY <2>1 DEF Is, IsNot
  <2>2. ASSUME NEW d \in Sides, PeerSends(d)
        PROVE  (Is(s, i, k) => Is(s, i, k)') /\ (IsNot(s, i, k) => IsNot(s, i, k)')
    <3>1. CASE s = d
      <4>1. PICK n \in Nat : n = Len(sent[s])
        BY <1>0, UnitsTypeOK DEF UnitsType
      <4>2. Len(sent'[s]) = n + 1 /\ \A j \in 1..n : sent'[s][j] = sent[s][j]
        BY <1>0, <2>2, <3>1, <4>1, OneMore
      <4>3. n >= i => n + 1 >= i /\ sent'[s][i] = sent[s][i]
        BY <1>2, <4>2
      <4> QED BY <4>1, <4>2, <4>3 DEF Is, IsNot
    <3>2. CASE s # d
      <4>1. sent'[s] = sent[s]
        BY <1>0, <2>2, <3>2, OneMore, OtherSide
      <4> QED BY <4>1 DEF Is, IsNot
    <3> QED BY <3>1, <3>2
  <2> QED BY <2>1, <2>2, SentSteps
<1>3. 1 \in Nat /\ 1 >= 1 /\ 2 \in Nat /\ 2 >= 1 /\ "client" \in Sides /\ "target" \in Sides
  BY DEF Sides
<1>4. /\ Is("client", 1, "sslResponse") => Is("client", 1, "sslResponse")'
      /\ Is("target", 1, "S") => Is("target", 1, "S")'
  BY <1>2, <1>3
<1>5. /\ IsNot("client", 1, "sslResponse") => IsNot("client", 1, "sslResponse")'
      /\ IsNot("target", 1, "S") => IsNot("target", 1, "S")'
      /\ IsNot("client", 1, "length8") => IsNot("client", 1, "length8")'
      /\ IsNot("client", 2, "sslCode") => IsNot("client", 2, "sslCode")'
  BY <1>2, <1>3
<1> QED BY <1>1, <1>4, <1>5 DEF Agreed, Refused

LEMMA AgreedOrRefused ==
    ASSUME RelayInv, OpeningInv, Refused
    PROVE  ~ Agreed
<1>1. CASE plugin = "MySQLPipeline"
  BY <1>1 DEF Agreed, Refused, Is, IsNot
<1>2. CASE plugin = "PostgreSQLPipeline"
  <2>1. PICK n \in Nat, m \in Nat : n = Len(sent["client"]) /\ m = Len(sent["target"])
    <3>1. sent["client"] \in Seq(Msg) /\ sent["target"] \in Seq(Msg)
      BY RelayTyped DEF UnitsType, Sides
    <3> QED BY <3>1, LenProperties
  <2>2. PostgreSQLOpening
    BY <1>2 DEF OpeningInv, Opening
  <2>3. m >= 1 /\ sent["target"][1].kind = "S" => n >= 2 /\ sent["client"][2].kind = "sslCode"
    BY <2>1, <2>2 DEF PostgreSQLOpening, Is
  <2>4. n >= 2 /\ sent["client"][2].kind = "sslCode" => sent["client"][1].kind = "length8"
    BY <2>1, <2>2 DEF PostgreSQLOpening
  <2> QED BY <1>2, <2>1, <2>3, <2>4 DEF Agreed, Refused, Is, IsNot
<1>3. plugin \in PluginNames
  BY PluginsAssumption DEF RelayInv, TypeOK
<1> QED BY <1>1, <1>2, <1>3 DEF PluginNames

\* The part of the handshake before the decision, and after it.
Before == {"start", "readGreeting", "sendGreeting", "readResponse", "checkCapabilities",
           "sendResponse", "readLength", "sendLength", "readBody", "sendBody", "readReply",
           "sendReply"}
After  == {"readLogin", "sendLogin", "readVerdict", "sendVerdict", "readStartupLength",
           "readStartupBody", "sendStartup"} \cup LoopLabels

\* Before the decision the label tells how much was read of s.
ReadSoFar(at, s) ==
    IF s = "client"
      THEN IF at \in {"sendBody", "readReply", "sendReply"} THEN 2
           ELSE IF at \in {"checkCapabilities", "sendResponse", "sendLength", "readBody"} THEN 1
           ELSE 0
      ELSE IF at \in {"sendGreeting", "readResponse", "checkCapabilities", "sendResponse",
                      "sendReply"} THEN 1 ELSE 0

Secure(v) == \A s \in Sides : secure[s] = v

\* Both sockets are plain before the decision; between the two replacements
\* nothing is read; and after it both are what the peers agreed on, with all
\* that was sent before the cut read.
Placed ==
    /\ pc \in Before => Secure(FALSE) /\ \A s \in Sides : read[s] = ReadSoFar(pc, s)
    /\ pc \in {"acceptTLS", "connectTLS"} =>
          /\ Agreed /\ \A s \in Sides : read[s] = Cut(s)
          /\ secure["client"] = (pc = "connectTLS") /\ secure["target"] = FALSE
    /\ pc \in After =>
          \/ Agreed /\ Secure(TRUE) /\ \A s \in Sides : read[s] >= Cut(s)
          \/ Refused /\ Secure(FALSE)

\* What is in hand came in under TLS if it was sent so, and will leave so.
HandSealed ==
    \A i \in 1..Len(bytes) : bytes[i].via = bytes[i].tls /\ Secure(bytes[i].tls)

\* The labels of one part lead to the labels of that part.
LEMMA BeforeEdges ==
    ASSUME NEW at \in ReadLabels
    PROVE  /\ at \in Before \/ at \in After
           /\ at \in Before => /\ AfterRead(at) \in Before
                               /\ \A s \in Sides : ReadSoFar(AfterRead(at), s) =
                                     ReadSoFar(at, s) + (IF s = Whose(at) THEN 1 ELSE 0)
           /\ at \in After => AfterRead(at) \in After
<1>1. at \in Before \/ at \in After
  BY DEF ReadLabels, Before, After
<1>2. ASSUME at \in Before PROVE AfterRead(at) \in Before
  BY <1>2 DEF ReadLabels, Before, AfterRead
<1>3. ASSUME at \in Before
      PROVE  ReadSoFar(AfterRead(at), "client") =
                ReadSoFar(at, "client") + (IF "client" = Whose(at) THEN 1 ELSE 0)
  BY <1>3 DEF ReadLabels, Before, AfterRead, ReadSoFar, Whose
<1>4. ASSUME at \in Before
      PROVE  ReadSoFar(AfterRead(at), "target") =
                ReadSoFar(at, "target") + (IF "target" = Whose(at) THEN 1 ELSE 0)
  BY <1>4 DEF ReadLabels, Before, AfterRead, ReadSoFar, Whose
<1>5. at \in After => AfterRead(at) \in After
  BY DEF ReadLabels, After, AfterRead, LoopLabels
<1> QED BY <1>1, <1>2, <1>3, <1>4, <1>5 DEF Sides

LEMMA Apart == After \cap Before = {} /\ {"acceptTLS", "connectTLS"} \cap (After \cup Before) = {}
BY DEF After, Before, LoopLabels

LEMMA StaysAfter ==
    ASSUME pc \in After, Placed, pc' \in After, plugin' = plugin, secure' = secure,
           read \in [Sides -> Nat], \A s \in Sides : read'[s] \in Nat /\ read'[s] >= read[s],
           Agreed => Agreed', Refused => Refused'
    PROVE  Placed'
<1>1. pc' \notin Before /\ pc' \notin {"acceptTLS", "connectTLS"}
  BY Apart
<1>2. \A s \in Sides : Cut(s)' = Cut(s) /\ Cut(s) \in Nat
  BY DEF Cut
<1>3. \A s \in Sides : read[s] >= Cut(s) => read'[s] >= Cut(s)'
  BY <1>2
<1> QED BY <1>1, <1>3 DEF Placed, Secure

LEMMA RecvPlaced ==
    ASSUME RelayInv, Placed, Agreed => Agreed', Refused => Refused', plugin' = plugin,
           NEW at \in ReadLabels, RecvBlocking(at, Whose(at), AfterRead(at))
    PROVE  Placed'
<1>0. TypeOK /\ Whose(at) \in Sides /\ read \in [Sides -> Nat]
  BY DEF RelayInv, TypeOK, Whose, Sides
<1>1. /\ pc = at /\ secure' = secure
      /\ \/ Took(Whose(at), 1) /\ pc' = AfterRead(at)
         \/ pc' = "close"
  BY <1>0, RecvShape
<1>2. CASE pc' = "close"
  BY <1>2 DEF Placed, Before, After, LoopLabels
<1>3. CASE Took(Whose(at), 1) /\ pc' = AfterRead(at)
  <2>1. /\ read'[Whose(at)] = read[Whose(at)] + 1
        /\ \A d \in Sides : d # Whose(at) => read'[d] = read[d]
    BY <1>0, <1>3, TookTyped
  <2>2. CASE at \in Before
    <3>1. Secure(FALSE) /\ \A s \in Sides : read[s] = ReadSoFar(at, s)
      BY <1>1, <2>2 DEF Placed
    <3>2. pc' \in Before
      BY <1>3, <2>2, BeforeEdges
    <3>3. ASSUME NEW s \in Sides PROVE read'[s] = ReadSoFar(AfterRead(at), s)
      <4>1. ReadSoFar(AfterRead(at), s) = ReadSoFar(at, s) + (IF s = Whose(at) THEN 1 ELSE 0)
        BY <2>2, BeforeEdges
      <4>2. ReadSoFar(at, s) \in Nat
        BY DEF ReadSoFar
      <4> QED BY <2>1, <3>1, <4>1, <4>2
    <3>4. \A s \in Sides : read'[s] = ReadSoFar(pc', s)
      BY <1>3, <3>3
    <3>5. Secure(FALSE)'
      BY <1>1, <3>1 DEF Secure
    <3>6. (\A s \in Sides : read[s] = ReadSoFar(pc, s))'
      BY <3>4 DEF ReadSoFar
    <3> QED BY <3>2, <3>5, <3>6, Apart DEF Placed
  <2>3. CASE at \in After
    <3>1. pc' \in After /\ pc \in After
      BY <1>1, <1>3, <2>3, BeforeEdges
    <3>2. \A s \in Sides : read'[s] \in Nat /\ read'[s] >= read[s]
      BY <1>0, <2>1
    <3> QED BY <1>0, <1>1, <3>1, <3>2, StaysAfter
  <2> QED BY <2>2, <2>3, BeforeEdges
<1> QED BY <1>1, <1>2, <1>3

\* The message that is about to be sent is the last one read.
LEMMA LastRead ==
    ASSUME RelayInv, pc \in Single, pc # "readStartupBody", NEW s \in Sides, s = Whose(pc)
    PROVE  /\ Len(bytes) = 1 /\ read[s] \in Nat /\ read[s] >= 1 /\ read[s] <= Len(sent[s])
           /\ bytes[1].kind = sent[s][read[s]].kind
<1>1. Len(bytes) = 1 /\ from = s /\ bytes # <<>>
  BY DEF RelayInv, Control, Holding
<1>2. PICK r \in Nat, e \in Nat, o \in Nat :
          r = read[s] /\ e = Len(sent[s]) /\ o = Len(outbox[Other(s)])
  <2>1. read[s] \in Nat /\ sent[s] \in Seq(Msg) /\ outbox[Other(s)] \in Seq(SentUnit)
    BY RelayTyped, OtherSide DEF UnitsType
  <2> QED BY <2>1, LenProperties
<1>3. o + 1 = r
  BY <1>1, <1>2 DEF RelayInv, Flow, Intact
<1>4. r <= e
  BY <1>2 DEF RelayInv, Flow, Relayed
<1>5. Copy(bytes[1], s, r - 1 + 1)
  BY <1>1, <1>2 DEF RelayInv, Flow
<1>6. r - 1 + 1 = r /\ r >= 1
  BY <1>3
<1> QED BY <1>1, <1>2, <1>4, <1>5, <1>6 DEF Copy

LEMMA ForwardsPlaced ==
    ASSUME RelayInv, Placed, Agreed => Agreed', Refused => Refused', plugin' = plugin,
           NEW at \in SendLabels, Forwards(at)
    PROVE  Placed'
<1>0. TypeOK /\ Control /\ read \in [Sides -> Nat] /\ plugin \in PluginNames
  BY PluginsAssumption DEF RelayInv, TypeOK
<1>1. /\ pc = at /\ UNCHANGED <<secure, read, sent>>
      /\ pc' = "close" \/ pc' = IF Len(bytes) > 1 THEN at ELSE AfterSend(at)
  BY <1>0, WriteShape
<1>2. CASE pc' = "close"
  BY <1>2 DEF Placed, Before, After, LoopLabels
<1>3. CASE at \in {"sendLogin", "sendVerdict", "sendStartup"} /\ pc' # "close"
  <2>1. pc' \in After /\ pc \in After
    BY <1>1, <1>3 DEF After, AfterSend, LoopLabels
  <2>2. \A s \in Sides : read'[s] \in Nat /\ read'[s] >= read[s]
    BY <1>0, <1>1
  <2> QED BY <1>0, <1>1, <2>1, <2>2, StaysAfter
<1>4. CASE at \in {"sendGreeting", "sendResponse", "sendLength", "sendBody", "sendReply"}
           /\ pc' # "close"
  <2>1. at \in Before /\ at \in Single /\ at # "readStartupBody"
    BY <1>4 DEF Before, Single
  <2>2. PICK w \in Sides : w = Whose(at)
    BY DEF Whose, Sides
  <2>3. /\ Len(bytes) = 1 /\ read[w] >= 1 /\ read[w] <= Len(sent[w])
        /\ bytes[1].kind = sent[w][read[w]].kind
    BY <1>1, <2>1, <2>2, LastRead
  <2>4. pc' = AfterSend(at)
    BY <1>1, <1>4, <2>3
  <2>5. Secure(FALSE) /\ \A s \in Sides : read[s] = ReadSoFar(at, s)
    BY <1>1, <2>1 DEF Placed
  <2>6. Secure(FALSE)' /\ secure'["client"] = FALSE /\ secure'["target"] = FALSE
    BY <1>1, <2>5 DEF Secure, Sides
  <2>on. ASSUME pc' \in Before, \A s \in Sides : ReadSoFar(pc', s) = ReadSoFar(at, s)
         PROVE  Placed'
    <3>1. \A s \in Sides : read'[s] = ReadSoFar(pc', s)
      BY <1>1, <2>5, <2>on
    <3>2. (\A s \in Sides : read[s] = ReadSoFar(pc, s))'
      BY <3>1 DEF ReadSoFar
    <3> QED BY <2>6, <2>on, <3>2, Apart DEF Placed
  <2>no. ASSUME pc' \in After, Refused PROVE Placed'
    <3>1. Refused'
      BY <2>no
    <3> QED BY <2>6, <2>no, <3>1, Apart DEF Placed
  <2>yes. ASSUME pc' = "acceptTLS", Agreed, \A s \in Sides : ReadSoFar(at, s) = Cut(s)
          PROVE  Placed'
    <3>1. Agreed' /\ \A s \in Sides : Cut(s)' = Cut(s)
      BY <2>yes DEF Cut
    <3>2. \A s \in Sides : read'[s] = Cut(s)'
      BY <1>1, <2>5, <2>yes, <3>1
    <3>3. pc' \notin Before /\ pc' \notin After
      BY <2>yes, Apart
    <3> QED BY <2>6, <2>yes, <3>1, <3>2, <3>3 DEF Placed
  <2>7. CASE at = "sendGreeting"
    <3>1. pc' = "readResponse"
      BY <2>4, <2>7 DEF AfterSend
    <3> QED BY <2>7, <2>on, <3>1 DEF Before, ReadSoFar
  <2>8. CASE at = "sendResponse"
    <3>0. plugin = "MySQLPipeline"
      BY <1>0, <1>1, <2>8 DEF Control, MySQLLabels
    <3>1. w = "client" /\ read[w] = 1
      BY <2>2, <2>5, <2>8 DEF Whose, ReadSoFar
    <3>2. Len(sent["client"]) >= 1 /\ bytes[1].kind = sent["client"][1].kind
      BY <2>3, <3>1
    <3>3. CASE bytes[1].kind = "sslResponse"
      <4>1. pc' = "acceptTLS"
        BY <2>4, <2>8, <3>3 DEF AfterSend
      <4>2. Agreed
        BY <3>0, <3>2, <3>3 DEF Agreed, Is
      <4> QED BY <2>8, <2>yes, <3>0, <4>1, <4>2 DEF ReadSoFar, Cut
    <3>4. CASE bytes[1].kind # "sslResponse"
      <4>1. pc' = "readVerdict"
        BY <2>4, <2>8, <3>4 DEF AfterSend
      <4>2. Refused
        BY <3>0, <3>2, <3>4 DEF Refused, IsNot
      <4> QED BY <2>no, <4>1, <4>2 DEF After
    <3> QED BY <3>3, <3>4
  <2>9. CASE at = "sendLength"
    <3>0. plugin # "MySQLPipeline"
      BY <1>0, <1>1, <2>9 DEF Control, PostgreSQLLabels
    <3>1. w = "client" /\ read[w] = 1
      BY <2>2, <2>5, <2>9 DEF Whose, ReadSoFar
    <3>2. Len(sent["client"]) >= 1 /\ bytes[1].kind = sent["client"][1].kind
      BY <2>3, <3>1
    <3>3. CASE bytes[1].kind = "length"
      <4>1. pc' = "sendStartup"
        BY <2>4, <2>9, <3>3 DEF AfterSend
      <4>2. Refused
        BY <3>0, <3>2, <3>3 DEF Refused, IsNot
      <4> QED BY <2>no, <4>1, <4>2 DEF After
    <3>4. CASE bytes[1].kind # "length"
      <4>1. pc' = "readBody"
        BY <2>4, <2>9, <3>4 DEF AfterSend
      <4> QED BY <2>9, <2>on, <4>1 DEF Before, ReadSoFar
    <3> QED BY <3>3, <3>4
  <2>10. CASE at = "sendBody"
    <3>0. plugin # "MySQLPipeline"
      BY <1>0, <1>1, <2>10 DEF Control, PostgreSQLLabels
    <3>1. w = "client" /\ read[w] = 2
      BY <2>2, <2>5, <2>10 DEF Whose, ReadSoFar
    <3>2. Len(sent["client"]) >= 2 /\ bytes[1].kind = sent["client"][2].kind
      BY <2>3, <3>1
    <3>3. pc' = AfterBody(bytes[1].kind)
      BY <2>4, <2>10 DEF AfterSend
    <3>4. CASE bytes[1].kind = "sslCode"
      <4>1. pc' = "readReply"
        BY <3>3, <3>4 DEF AfterBody
      <4> QED BY <2>10, <2>on, <4>1 DEF Before, ReadSoFar
    <3>5. CASE bytes[1].kind # "sslCode"
      <4>1. pc' \in {"escaped", "readStartupLength", "select"}
        BY <3>3, <3>5 DEF AfterBody
      <4>2. Refused
        BY <3>0, <3>2, <3>5 DEF Refused, IsNot
      <4>3. CASE pc' = "escaped"
        BY <4>3 DEF Placed, Before, After, LoopLabels
      <4> QED BY <2>no, <4>1, <4>2, <4>3 DEF After, LoopLabels
    <3> QED BY <3>4, <3>5
  <2>11. CASE at = "sendReply"
    <3>0. plugin # "MySQLPipeline"
      BY <1>0, <1>1, <2>11 DEF Control, PostgreSQLLabels
    <3>1. w = "target" /\ read[w] = 1
      BY <2>2, <2>5, <2>11 DEF Whose, ReadSoFar
    <3>2. Len(sent["target"]) >= 1 /\ bytes[1].kind = sent["target"][1].kind
      BY <2>3, <3>1
    <3>3. CASE bytes[1].kind = "S"
      <4>1. pc' = "acceptTLS"
        BY <2>4, <2>11, <3>3 DEF AfterSend
      <4>2. Agreed
        BY <3>0, <3>2, <3>3 DEF Agreed, Is
      <4>3. \A s \in Sides : ReadSoFar(at, s) = Cut(s)
        BY <2>11, <3>0 DEF ReadSoFar, Cut, Sides
      <4> QED BY <2>yes, <4>1, <4>2, <4>3
    <3>4. CASE bytes[1].kind # "S"
      <4>1. pc' = "readStartupLength"
        BY <2>4, <2>11, <3>4 DEF AfterSend
      <4>2. Refused
        BY <3>0, <3>2, <3>4 DEF Refused, IsNot
      <4> QED BY <2>no, <4>1, <4>2 DEF After
    <3> QED BY <3>3, <3>4
  <2> QED BY <1>4, <2>7, <2>8, <2>9, <2>10, <2>11
<1> QED BY <1>2, <1>3, <1>4 DEF SendLabels

LEMMA ReplacePlaced ==
    ASSUME RelayInv, Placed, Agreed => Agreed', plugin' = plugin,
           Replace("acceptTLS", "client", "connectTLS") \/ Replace("connectTLS", "target", AfterTLS)
    PROVE  Placed'
<1>0. read \in [Sides -> Nat] /\ secure \in [Sides -> BOOLEAN]
  BY DEF RelayInv, TypeOK
<1>1. read' = read /\ \A s \in Sides : Cut(s)' = Cut(s) /\ Cut(s) \in Nat
  BY DEF Replace, Cut
<1>2. CASE pc' = "close"
  BY <1>2 DEF Placed, Before, After, LoopLabels
<1>3. CASE /\ pc = "acceptTLS" /\ pc' = "connectTLS"
           /\ secure' = [secure EXCEPT !["client"] = TRUE]
  <2>1. /\ Agreed /\ \A s \in Sides : read[s] = Cut(s)
        /\ secure["target"] = FALSE
    BY <1>3 DEF Placed
  <2>2. secure'["client"] = TRUE /\ secure'["target"] = FALSE
    BY <1>0, <1>3, <2>1 DEF Sides
  <2>3. \A s \in Sides : read'[s] = Cut(s)'
    BY <1>1, <2>1
  <2>4. pc' \notin Before /\ pc' \notin After
    BY <1>3, Apart
  <2> QED BY <1>3, <2>1, <2>2, <2>3, <2>4 DEF Placed
<1>4. CASE /\ pc = "connectTLS" /\ pc' = AfterTLS
           /\ secure' = [secure EXCEPT !["target"] = TRUE]
  <2>1. /\ Agreed /\ \A s \in Sides : read[s] = Cut(s)
        /\ secure["client"] = TRUE
    BY <1>4 DEF Placed
  <2>2. Secure(TRUE)'
    BY <1>0, <1>4, <2>1 DEF Secure, Sides
  <2>3. \A s \in Sides : read'[s] >= Cut(s)'
    BY <1>1, <2>1
  <2>4. pc' \in After
    BY <1>4 DEF After, AfterTLS
  <2> QED BY <2>1, <2>2, <2>3, <2>4, Apart DEF Placed
<1> QED BY <1>2, <1>3, <1>4 DEF Replace, HandshakeError

LEMMA PlacedStep ==
    ASSUME RelayInv, OpeningInv, Placed, [Next]_vars
    PROVE  Placed'
<1>0. /\ TypeOK /\ Control /\ plugin' = plugin /\ read \in [Sides -> Nat]
      /\ (Agreed => Agreed') /\ (Refused => Refused')
  <2>1. (Agreed => Agreed') /\ (Refused => Refused')
    BY AgreementStays
  <2> QED BY <2>1, SentSteps DEF RelayInv, TypeOK
<1>out. ASSUME pc' \in {"close", "done", "escaped"} PROVE Placed'
  BY <1>out DEF Placed, Before, After, LoopLabels
<1>in. ASSUME pc \in LoopLabels, pc' \in LoopLabels, UNCHANGED <<secure, read>> PROVE Placed'
  <2>1. pc \in After /\ pc' \in After
    BY <1>in DEF After
  <2>2. \A s \in Sides : read'[s] \in Nat /\ read'[s] >= read[s]
    BY <1>0, <1>in
  <2> QED BY <1>0, <1>in, <2>1, <2>2, StaysAfter
<1>same. ASSUME UNCHANGED <<pc, secure, read>> PROVE Placed'
  <2>1. \A s \in Sides : Cut(s)' = Cut(s)
    BY <1>0 DEF Cut
  <2> QED BY <1>0, <1>same, <2>1 DEF Placed, Secure, ReadSoFar
<1>1. CASE HandlerMissing \/ ConnectFails \/ LeaveLoop \/ CloseSockets
  BY <1>1, <1>out DEF HandlerMissing, ConnectFails, LeaveLoop, CloseSockets
<1>2. CASE ConnectTarget
  <2>1. pc = "start" /\ pc' \in {"readGreeting", "readLength"} /\ UNCHANGED <<secure, read>>
    BY <1>2 DEF ConnectTarget
  <2>2. Secure(FALSE) /\ \A s \in Sides : read[s] = 0
    BY <2>1 DEF Placed, Before, ReadSoFar
  <2>3. pc' \in Before /\ \A s \in Sides : ReadSoFar(pc', s) = 0
    BY <2>1 DEF Before, ReadSoFar
  <2>4. (\A s \in Sides : read[s] = ReadSoFar(pc, s))'
    BY <2>1, <2>2, <2>3 DEF ReadSoFar
  <2> QED BY <2>1, <2>2, <2>3, <2>4, Apart DEF Placed, Secure
<1>3. CASE CreateSelect \/ SelectFails
  BY <1>3, <1>in DEF CreateSelect, SelectFails, sockets, LoopLabels
<1>4. CASE Handshake
  <2>1. CASE CheckCapabilities
    <3>1. /\ pc = "checkCapabilities" /\ pc' \in {"close", "sendResponse"}
          /\ UNCHANGED <<secure, read>>
      BY <2>1 DEF CheckCapabilities, HandshakeError, sockets
    <3>2. CASE pc' = "sendResponse"
      <4>1. Secure(FALSE) /\ \A s \in Sides : read[s] = 1
        BY <3>1 DEF Placed, Before, ReadSoFar
      <4>2. pc' \in Before /\ \A s \in Sides : ReadSoFar(pc', s) = 1
        BY <3>2 DEF Before, ReadSoFar
      <4>3. (\A s \in Sides : read[s] = ReadSoFar(pc, s))'
        BY <3>1, <4>1, <4>2 DEF ReadSoFar
      <4> QED BY <3>1, <4>1, <4>2, <4>3, Apart DEF Placed, Secure
    <3> QED BY <1>out, <3>1, <3>2
  <2> QED BY <1>0, <1>4, <2>1, HandshakeTable, RecvPlaced, ForwardsPlaced, ReplacePlaced
<1>5. CASE ReadClient \/ ReadTarget
  <2>1. /\ pc \in After /\ pc' \in After /\ secure' = secure
    BY <1>5 DEF ReadClient, ReadTarget, Read, After, LoopLabels
  <2>2. \A s \in Sides : read'[s] \in Nat /\ read'[s] >= read[s]
    <3>1. PICK s \in Sides : read' = read \/ \E k \in 1..Arrived(s) : read' = [read EXCEPT ![s] = @ + k]
      BY <1>5 DEF ReadClient, ReadTarget, Read, Sides
    <3>2. \A k \in 1..Arrived(s) : k \in Nat
      BY <1>0 DEF Arrived, TypeOK
    <3> QED BY <1>0, <3>1, <3>2
  <2> QED BY <1>0, <2>1, <2>2, StaysAfter
<1>6. CASE ForwardUp
  <2>1. pc = "forwardUp" /\ pc' \in {"forwardUp", "readTarget"} /\ UNCHANGED <<secure, read>>
    BY <1>0, <1>6, UpShape
  <2> QED BY <1>in, <2>1 DEF LoopLabels
<1>7. CASE ForwardDown
  <2>1. pc = "forwardDown" /\ pc' = "select" /\ UNCHANGED <<secure, read>>
    BY <1>0, <1>7, DownShape
  <2> QED BY <1>in, <2>1 DEF LoopLabels
<1>8. CASE Peers \/ UNCHANGED vars
  BY <1>8, <1>same DEF Peers, PeerSends, PeerLeaves, vars, sockets
<1> QED BY <1>1, <1>2, <1>3, <1>4, <1>5, <1>6, <1>7, <1>8 DEF Next, Thread, Ended

\* After the decision every unit still to be read was sent under the
\* protection that both sockets have.
LEMMA NextSealed ==
    ASSUME RelayInv, OpeningInv, Placed, pc \in After, NEW s \in Sides,
           NEW i \in 1..Len(sent[s]), i > read[s]
    PROVE  Secure(sent[s][i].tls)
<1>1. sent[s][i].tls = (Agreed /\ i > Cut(s))
  BY DEF OpeningInv, Marked
<1>2. i \in Int /\ read[s] \in Nat /\ Cut(s) \in Nat
  BY RelayTyped DEF UnitsType, Cut
<1>3. CASE Agreed /\ Secure(TRUE) /\ \A d \in Sides : read[d] >= Cut(d)
  <2>1. i > Cut(s)
    BY <1>2, <1>3
  <2>2. sent[s][i].tls = TRUE
    BY <1>1, <1>3, <2>1
  <2> QED BY <1>3, <2>2
<1>4. CASE Refused /\ Secure(FALSE)
  <2>1. ~ Agreed
    BY <1>4, AgreedOrRefused
  <2>2. sent[s][i].tls = FALSE
    BY <1>1, <2>1
  <2> QED BY <1>4, <2>2
<1> QED BY <1>3, <1>4 DEF Placed

\* Before it, the one unit to be read is a plain one.
LEMMA FirstSealed ==
    ASSUME RelayInv, OpeningInv, Placed, pc \in Before, pc \in ReadLabels, NEW s \in Sides,
           s = Whose(pc), read[s] + 1 <= Len(sent[s])
    PROVE  Secure(sent[s][read[s] + 1].tls)
<1>1. Secure(FALSE) /\ read[s] = ReadSoFar(pc, s)
  BY DEF Placed
<1>2. ReadSoFar(pc, s) + 1 <= Cut(s) /\ ReadSoFar(pc, s) \in Nat /\ Cut(s) \in Nat
  <2>1. pc \in {"readGreeting", "readResponse", "readLength", "readReply"} =>
           ReadSoFar(pc, s) = 0 /\ Cut(s) >= 1
    BY DEF Whose, ReadSoFar, Cut
  <2>2. pc = "readBody" => ReadSoFar(pc, s) = 1 /\ Cut(s) = 2
    BY DEF RelayInv, Control, PostgreSQLLabels, Whose, ReadSoFar, Cut
  <2>3. pc \in {"readGreeting", "readResponse", "readLength", "readReply", "readBody"}
    BY DEF Before, ReadLabels
  <2>4. Cut(s) \in Nat
    BY DEF Cut
  <2> QED BY <2>1, <2>2, <2>3, <2>4
<1>3. read[s] + 1 \in 1..Len(sent[s])
  <2>1. Len(sent[s]) \in Nat
    BY RelayTyped DEF UnitsType
  <2> QED BY <1>1, <1>2, <2>1
<1>4. sent[s][read[s] + 1].tls = (Agreed /\ read[s] + 1 > Cut(s))
  BY <1>3 DEF OpeningInv, Marked
<1>5. ~ (read[s] + 1 > Cut(s))
  BY <1>1, <1>2
<1>6. sent[s][read[s] + 1].tls = FALSE
  BY <1>4, <1>5
<1> QED BY <1>1, <1>6

LEMMA TookSealed ==
    ASSUME RelayInv, HandSealed, NEW s \in Sides, NEW k \in Int, Took(s, k), secure' = secure,
           \A i \in 1..k : Secure(sent[s][read[s] + i].tls)
    PROVE  HandSealed'
<1>1. PICK b \in Nat : b = Len(bytes)
  BY RelayTyped DEF UnitsType
<1>2. /\ k \in Nat /\ Len(bytes') = b + k
      /\ \A i \in 1..b : bytes'[i] = bytes[i]
      /\ \A i \in 1..k : bytes'[b + i] =
            [n |-> read[s] + i, kind |-> sent[s][read[s] + i].kind, form |-> "raw",
             tls |-> sent[s][read[s] + i].tls, via |-> secure[s]]
  BY <1>1, TookTyped DEF RelayInv
<1>3. ASSUME NEW i \in 1..(b + k)
      PROVE  bytes'[i].via = bytes'[i].tls /\ \A d \in Sides : secure[d] = bytes'[i].tls
  <2>1. CASE i \in 1..b
    BY <1>1, <1>2, <2>1 DEF HandSealed, Secure
  <2>2. CASE i \notin 1..b
    <3>1. PICK j \in 1..k : i = b + j
      <4>1. i - b \in 1..k /\ i = b + (i - b)
        BY <1>2, <2>2
      <4> QED BY <4>1
    <3>2. bytes'[i].via = secure[s] /\ bytes'[i].tls = sent[s][read[s] + j].tls
      <4>1. bytes'[b + j] =
              [n |-> read[s] + j, kind |-> sent[s][read[s] + j].kind, form |-> "raw",
               tls |-> sent[s][read[s] + j].tls, via |-> secure[s]]
        BY <1>2
      <4>2. bytes'[i] = bytes'[b + j]
        BY <3>1
      <4> QED BY <4>1, <4>2
    <3> QED BY <3>2 DEF Secure
  <2> QED BY <2>1, <2>2
<1> QED BY <1>2, <1>3 DEF HandSealed, Secure

LEMMA GaveSealed ==
    ASSUME RelayInv, HandSealed, ProtectionKept, NEW k \in Int, Gave(k), secure' = secure
    PROVE  HandSealed' /\ ProtectionKept'
<1>0. UnitsType /\ UnitsType'
  BY RelayTyped, GaveTyped DEF RelayInv
<1>1. PICK t \in Sides, f \in Sides : f = from /\ t = Other(f)
  BY <1>0, OtherSide DEF UnitsType
<1>2. PICK b \in Nat, o \in Nat : b = Len(bytes) /\ o = Len(outbox[t])
  BY <1>0 DEF UnitsType
<1>3. /\ k \in Nat /\ k <= b /\ Len(bytes') = b - k
      /\ \A i \in 1..(b - k) : bytes'[i] = bytes[k + i]
      /\ Len(outbox'[t]) = o + k
      /\ \A i \in 1..o : outbox'[t][i] = outbox[t][i]
      /\ \A i \in 1..k : /\ outbox'[t][o + i].tls = bytes[i].tls
                         /\ outbox'[t][o + i].via = bytes[i].via
                         /\ outbox'[t][o + i].over = secure[t]
      /\ outbox'[f] = outbox[f]
  BY <1>1, <1>2, GaveTyped DEF RelayInv
<1>4. \A i \in 1..b : bytes[i].via = bytes[i].tls /\ \A d \in Sides : secure[d] = bytes[i].tls
  BY <1>2 DEF HandSealed, Secure
<1>5. HandSealed'
  <2>1. \A i \in 1..(b - k) : k + i \in 1..b
    BY <1>3
  <2> QED BY <1>3, <1>4, <2>1 DEF HandSealed, Secure
<1>6. ASSUME NEW i \in 1..(o + k)
      PROVE  outbox'[t][i].via = outbox'[t][i].tls /\ outbox'[t][i].over = outbox'[t][i].tls
  <2>1. CASE i \in 1..o
    <3>1. i \in DOMAIN outbox[t]
      BY <1>0, <1>2, <2>1 DEF UnitsType
    <3> QED BY <1>3, <2>1, <3>1 DEF ProtectionKept
  <2>2. CASE i \notin 1..o
    <3>1. PICK j \in 1..k : i = o + j
      <4>1. i - o \in 1..k /\ i = o + (i - o)
        BY <1>3, <2>2
      <4> QED BY <4>1
    <3>2. j \in 1..b
      BY <1>3
    <3> QED BY <1>3, <1>4, <3>1, <3>2
  <2> QED BY <2>1, <2>2
<1>7. ProtectionKept'
  <2>1. DOMAIN outbox'[t] = 1..(o + k)
    BY <1>0, <1>3 DEF UnitsType
  <2>2. \A d \in Sides : d = t \/ d = f
    BY <1>1, OtherSide
  <2> QED BY <1>3, <1>6, <2>1, <2>2 DEF ProtectionKept
<1> QED BY <1>5, <1>7

LEMMA SealedStep ==
    ASSUME RelayInv, OpeningInv, Placed, HandSealed, ProtectionKept, [Next]_vars
    PROVE  HandSealed' /\ ProtectionKept'
<1>0. TypeOK /\ Control /\ UnitsType
  BY RelayTyped DEF RelayInv
<1>keep. ASSUME outbox' = outbox, bytes' = <<>> \/ UNCHANGED <<bytes, secure>>
         PROVE  HandSealed' /\ ProtectionKept'
  <2>1. ProtectionKept'
    BY <1>keep DEF ProtectionKept
  <2>2. HandSealed'
    BY <1>keep DEF HandSealed, Secure
  <2> QED BY <2>1, <2>2
<1>took. ASSUME NEW s \in Sides, NEW k \in Int, Took(s, k), secure' = secure, pc \in After
         PROVE  HandSealed' /\ ProtectionKept'
  <2>1. PICK r \in Nat, e \in Nat : r = read[s] /\ e = Len(sent[s])
    BY <1>0 DEF UnitsType
  <2>2. r + k <= e /\ k \in Nat
    BY <1>0, <1>took, <2>1, TookTyped
  <2>3. \A i \in 1..k : r + i \in 1..e /\ r + i > r
    BY <2>2
  <2>4. \A i \in 1..k : Secure(sent[s][read[s] + i].tls)
    BY <1>took, <2>1, <2>3, NextSealed
  <2>5. HandSealed'
    BY <1>took, <2>4, TookSealed
  <2>6. outbox' = outbox
    BY <1>took DEF Took
  <2> QED BY <2>5, <2>6 DEF ProtectionKept
<1>1. CASE HandlerMissing \/ ConnectTarget \/ ConnectFails \/ CreateSelect \/ LeaveLoop
           \/ SelectFails \/ CloseSockets
  BY <1>1, <1>keep DEF HandlerMissing, ConnectTarget, ConnectFails, CreateSelect, LeaveLoop,
                       SelectFails, CloseSockets, sockets
<1>2. CASE Handshake
  <2>1. CASE CheckCapabilities
    BY <2>1, <1>keep DEF CheckCapabilities, HandshakeError, sockets
  <2>2. ASSUME NEW at, NEW s, NEW next, Replace(at, s, next), at \in {"acceptTLS", "connectTLS"}
        PROVE  HandSealed' /\ ProtectionKept'
    <3>1. outbox' = outbox /\ pc = at /\ bytes' \in {bytes, <<>>}
      BY <2>2 DEF Replace, HandshakeError
    <3>2. bytes = <<>>
      BY <1>0, <2>2, <3>1 DEF Control, Holding, Single
    <3> QED BY <1>keep, <3>1, <3>2
  <2>3. ASSUME NEW at \in ReadLabels, RecvBlocking(at, Whose(at), AfterRead(at))
        PROVE  HandSealed' /\ ProtectionKept'
    <3>0. PICK s \in Sides : s = Whose(at)
      BY DEF Whose, Sides
    <3>1. pc = at /\ UNCHANGED <<secure, outbox>> /\ (Took(s, 1) \/ bytes' = <<>>)
      BY <1>0, <2>3, <3>0, RecvShape DEF Lost
    <3>2. CASE bytes' = <<>>
      <4>1. outbox' = outbox
        BY <2>3 DEF RecvBlocking
      <4> QED BY <1>keep, <3>2, <4>1
    <3>3. CASE Took(s, 1) /\ bytes' # <<>>
      <4>1. pc = at /\ secure' = secure /\ outbox' = outbox
        BY <3>1, <3>3
      <4>2. CASE at \in After
        BY <1>took, <3>3, <4>1, <4>2
      <4>3. CASE at \in Before
        <5>1. read[s] + 1 <= Len(sent[s])
          BY <1>0, <3>3, TookTyped
        <5>2. Secure(sent[s][read[s] + 1].tls)
          BY <3>0, <4>1, <4>3, <5>1, FirstSealed
        <5>3. \A i \in 1..1 : Secure(sent[s][read[s] + i].tls)
          BY <5>2
        <5>4. HandSealed'
          BY <3>3, <4>1, <5>3, TookSealed
        <5> QED BY <4>1, <5>4 DEF ProtectionKept
      <4> QED BY <4>2, <4>3, BeforeEdges
    <3> QED BY <3>1, <3>2, <3>3
  <2>4. ASSUME NEW at \in SendLabels, Forwards(at) PROVE HandSealed' /\ ProtectionKept'
    <3>1. /\ secure' = secure
          /\ \/ Gave(IF bytes = <<>> THEN 0 ELSE 1)
             \/ Lost
      BY <1>0, <2>4, WriteShape
    <3>2. CASE Lost
      BY <1>keep, <3>2 DEF Lost
    <3>3. (IF bytes = <<>> THEN 0 ELSE 1) \in Int
      OBVIOUS
    <3> QED BY <3>1, <3>2, <3>3, GaveSealed
  <2> QED BY <1>2, <2>1, <2>2, <2>3, <2>4, HandshakeTable
<1>3. CASE ReadClient \/ ReadTarget
  <2>1. /\ UNCHANGED <<secure, sent, outbox>> /\ bytes = <<>> /\ pc \in After
        /\ \E s \in Sides : \E forward, next : Read(s, forward, next)
    BY <1>0, <1>3 DEF ReadClient, ReadTarget, Control, Holding, Single, After, LoopLabels, Sides
  <2>2. PICK s \in Sides : Kept \/ \E k \in 1..Arrived(s) : Took(s, k)
    BY <1>0, <2>1, ReadShape
  <2>3. \A k \in 1..Arrived(s) : k \in Int
    OBVIOUS
  <2>4. Kept => UNCHANGED bytes
    BY DEF Kept
  <2> QED BY <1>keep, <1>took, <2>1, <2>2, <2>3, <2>4
<1>4. CASE ForwardUp
  <2>1. secure' = secure /\ (Lost \/ \E k \in 0..Len(bytes) : Gave(k))
    BY <1>0, <1>4, UpShape
  <2>2. \A k \in 0..Len(bytes) : k \in Int
    OBVIOUS
  <2>3. CASE Lost
    BY <1>keep, <2>3 DEF Lost
  <2> QED BY <2>1, <2>2, <2>3, GaveSealed
<1>5. CASE ForwardDown
  <2>1. secure' = secure /\ (Lost \/ Gave(Len(bytes)))
    BY <1>0, <1>5, DownShape
  <2>2. Len(bytes) \in Int
    BY <1>0 DEF UnitsType
  <2>3. CASE Lost
    BY <1>keep, <2>3 DEF Lost
  <2> QED BY <2>1, <2>2, <2>3, GaveSealed
<1>6. CASE Peers \/ UNCHANGED vars
  BY <1>6, <1>keep DEF Peers, PeerSends, PeerLeaves, vars, sockets
<1> QED BY <1>1, <1>2, <1>3, <1>4, <1>5, <1>6 DEF Next, Thread, Ended

SealedInv == OpeningInv /\ Placed /\ HandSealed /\ ProtectionKept

LEMMA SealedInit == Init => SealedInv
<1> SUFFICES ASSUME Init PROVE SealedInv
  OBVIOUS
<1>1. /\ \A s \in Sides : Len(outbox[s]) = 0 /\ Len(sent[s]) = 0 /\ read[s] = 0
      /\ Len(bytes) = 0 /\ pc = "start" /\ "client" \in Sides /\ "target" \in Sides
      /\ \A s \in Sides : DOMAIN outbox[s] = {}
  BY DEF Init, Sides
<1>2. OpeningInv
  BY <1>1 DEF OpeningInv, Opening, MySQLOpening, PostgreSQLOpening, Marked
<1>3. Placed
  <2>1. Secure(FALSE) /\ \A s \in Sides : ReadSoFar("start", s) = 0
    BY DEF Init, Secure, ReadSoFar
  <2> QED BY <1>1, <2>1 DEF Placed, After, LoopLabels
<1>4. HandSealed
  BY <1>1 DEF HandSealed
<1>5. ProtectionKept
  BY <1>1 DEF ProtectionKept
<1> QED BY <1>2, <1>3, <1>4, <1>5 DEF SealedInv

\* For any offers, answers and interleaving, the two sockets are replaced at
\* the same point of both streams: nothing sent under TLS is read as plain text
\* or sent on as such, nor the reverse.
THEOREM ProtectionHolds == Spec => []ProtectionKept
<1>1. RelayInv /\ SealedInv /\ [Next]_vars => SealedInv'
  BY OpeningStep, PlacedStep, SealedStep DEF SealedInv
<1>2. SealedInv => ProtectionKept
  BY DEF SealedInv
<1> QED BY <1>1, <1>2, SealedInit, RelayInvariant, PTL DEF Spec
=============================================================================
