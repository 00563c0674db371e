-------------------- MODULE HttpRedirectPipeline_proofs --------------------
(***************************************************************************)
(* Proofs about HttpRedirectPipeline, for any configured URIs, any         *)
(* requests, any cap on the polls and any number of buffers and chunks.    *)
(***************************************************************************)
EXTENDS HttpRedirectPipeline, SequenceTheorems, WellFoundedInduction, TLAPS

-----------------------------------------------------------------------------
(* Routing.                                                                *)

\* The configured URIs that a path starts with.
Matching(path) == {u \in UriMap : IsPrefixOf(u, path)}

\* A set of naturals that is not empty has a least element.
LEMMA LeastNatural ==
    ASSUME NEW T \in SUBSET Nat, T # {}
    PROVE  \E m \in T : \A n \in T : m <= n
<1> DEFINE Less == {ss \in Nat \X Nat : ss[1] < ss[2]}
<1>1. IsWellFoundedOn(Less, Nat)
  BY NatLessThanWellFounded, Zenon DEF OpToRel
<1>2. \A m \in Nat, n \in Nat : <<n, m>> \in Less <=> n < m
  OBVIOUS
<1> HIDE DEF Less
<1>3. PICK m \in T : \A n \in T : ~ (<<n, m>> \in Less)
  BY <1>1, WFMin
<1>4. ASSUME NEW n \in T PROVE m <= n
  <2>1. m \in Nat /\ n \in Nat
    OBVIOUS
  <2>2. ~ (n < m)
    BY <1>2, <1>3, <2>1, Zenon
  <2> QED BY <2>1, <2>2
<1> QED BY <1>4

\* Two prefixes of a path of the same length are the same.
LEMMA PrefixesOfOneLength ==
    ASSUME NEW path, NEW u \in Matching(path), NEW v \in Matching(path), Len(u) = Len(v)
    PROVE  u = v
<1>1. u \in Seq(Nat) /\ v \in Seq(Nat)
  BY UriMapAssumption DEF Matching
<1>2. u \in [1..Len(u) -> Nat] /\ v \in [1..Len(u) -> Nat]
  BY <1>1, LenProperties
<1>3. \A i \in 1..Len(u) : u[i] = path[i] /\ v[i] = path[i]
  BY DEF Matching, IsPrefixOf
<1> QED BY <1>2, <1>3

\* A key that comes before another in the map, where both are prefixes of the
\* same path, is the shorter one.
LEMMA BeforeIsShorter ==
    ASSUME NEW path, NEW u \in Matching(path), NEW v \in Matching(path)
    PROVE  Before(u, v) <=> Len(u) < Len(v)
<1>1. u \in Seq(Nat) /\ v \in Seq(Nat)
  BY UriMapAssumption DEF Matching
<1>2. PICK m \in Nat, n \in Nat : m = Len(u) /\ n = Len(v)
  BY <1>1, LenProperties
<1>3. /\ \A i \in 1..m : u[i] = path[i] /\ u[i] \in Nat
      /\ \A i \in 1..n : v[i] = path[i] /\ v[i] \in Nat
  BY <1>1, <1>2, ElementOfSeq DEF Matching, IsPrefixOf
<1>4. ASSUME Before(u, v) PROVE m < n
  <2>1. PICK i \in 1..n : i > m \/ u[i] < v[i]
    BY <1>2, <1>4 DEF Before
  <2>2. CASE i <= m
    BY <1>3, <2>1, <2>2
  <2> QED BY <2>1, <2>2
<1>5. ASSUME m < n PROVE Before(u, v)
  <2>1. m + 1 \in 1..n
    BY <1>5
  <2>2. \A j \in 1..((m + 1) - 1) : j <= m /\ u[j] = v[j]
    BY <1>3, <1>5
  <2> QED BY <1>2, <2>1, <2>2 DEF Before
<1> QED BY <1>2, <1>4, <1>5

\* What FindUri returns: the shortest configured URI the path starts with.
LEMMA FindUriIsShortest ==
    ASSUME NEW path
    PROVE  /\ Matching(path) = {} => FindUri(path) = IF Star \in UriMap THEN Star ELSE None
           /\ Matching(path) # {} =>
                /\ FindUri(path) \in Matching(path)
                /\ \A v \in Matching(path) : Len(FindUri(path)) <= Len(v)
           /\ FindUri(path) \in UriMap \cup {None}
<1>1. ASSUME Matching(path) = {}
      PROVE  FindUri(path) = IF Star \in UriMap THEN Star ELSE None
  BY <1>1 DEF FindUri, Matching
<1>2. ASSUME Matching(path) # {}
      PROVE  /\ FindUri(path) \in Matching(path)
             /\ \A v \in Matching(path) : Len(FindUri(path)) <= Len(v)
  <2> DEFINE M == Matching(path)
             First(u) == \A v \in M \ {u} : Before(u, v)
  <2>0. \A u \in M : u \in Seq(Nat) /\ Len(u) \in Nat
    BY UriMapAssumption, LenProperties DEF Matching
  <2>1. PICK u \in M : \A v \in M : Len(u) <= Len(v)
    <3> DEFINE T == {Len(u) : u \in M}
    <3>1. T \in SUBSET Nat /\ T # {}
      BY <1>2, <2>0
    <3>2. PICK m \in T : \A n \in T : m <= n
      BY <3>1, LeastNatural
    <3> QED BY <3>2
  <2>2. First(u)
    <3>1. SUFFICES ASSUME NEW v \in M \ {u} PROVE Before(u, v)
      OBVIOUS
    <3>2. Len(u) # Len(v)
      BY PrefixesOfOneLength
    <3>3. Len(u) < Len(v)
      BY <2>0, <2>1, <3>2
    <3> QED BY <3>3, BeforeIsShorter
  <2>3. FindUri(path) = CHOOSE w \in M : First(w)
    BY <1>2 DEF FindUri, Matching
  <2>4. FindUri(path) \in M /\ First(FindUri(path))
    <3> HIDE DEF M, First
    <3> QED BY <2>2, <2>3
  <2>5. ASSUME NEW v \in M PROVE Len(FindUri(path)) <= Len(v)
    <3>1. CASE v = FindUri(path)
      BY <2>0, <3>1
    <3>2. CASE v # FindUri(path)
      <4>1. Before(FindUri(path), v)
        BY <2>4, <3>2
      <4>2. Len(FindUri(path)) < Len(v)
        BY <2>4, <4>1, BeforeIsShorter
      <4> QED BY <2>0, <2>4, <4>2
    <3> QED BY <3>1, <3>2
  <2> QED BY <2>4, <2>5
<1>3. FindUri(path) \in UriMap \cup {None}
  <2>1. CASE Matching(path) = {}
    BY <1>1, <2>1
  <2>2. CASE Matching(path) # {}
    BY <1>2, <2>2 DEF Matching
  <2> QED BY <2>1, <2>2
<1> QED BY <1>1, <1>2, <1>3

-----------------------------------------------------------------------------
(* The buffers and the exchanges.                                          *)

Holding == {"route", "connect", "send"}   \* a buffer was read and not forwarded
Busy    == {"send", "pollTarget"}         \* a connection to a service is open

\* The buffers are read in order and forwarded in order; what is in hand is
\* what was read last.
Buffers ==
    /\ read <= Len(sent) /\ Len(sent) <= MaxBuffers
    /\ \A i \in 1..Len(forwarded) : forwarded[i].n = i
    /\ pc \in {"poll", "pollTarget"} => Len(forwarded) = read
    /\ pc \in Holding =>
          /\ Len(input) > 0 /\ Len(forwarded) + Len(input) = read
          /\ \A i \in 1..Len(input) : input[i] = Len(forwarded) + i

\* An exchange is begun for a buffer that none was begun for, and while the
\* thread is in it it has not ended.
Exchanges ==
    /\ Len(ended) = Len(produced)
    /\ Len(produced) <= read
    /\ pc \in {"route", "connect"} => Len(produced) < read
    /\ pc \in Busy =>
          Len(produced) > 0 /\ ended[current] = "open" /\ taken <= produced[current]
    /\ pc = "send" => taken = 0

RedirectInv == TypeOK /\ Buffers /\ Exchanges

Forwarding == [exchange : 1..MaxBuffers, n : 1..MaxBuffers]
Answer     == [exchange : 1..MaxBuffers, chunk : 1..MaxChunks]

LEMMA Lengths ==
    ASSUME TypeOK
    PROVE  /\ Len(input) \in Nat /\ Len(sent) \in Nat /\ Len(forwarded) \in Nat
           /\ Len(produced) \in Nat /\ Len(ended) \in Nat /\ Len(outbox) \in Nat
           /\ DOMAIN outbox = 1..Len(outbox) /\ DOMAIN forwarded = 1..Len(forwarded)
           /\ DOMAIN input = 1..Len(input) /\ DOMAIN ended = 1..Len(ended)
<1>1. /\ input \in Seq(1..MaxBuffers) /\ sent \in Seq(Requests) /\ forwarded \in Seq(Forwarding)
      /\ produced \in Seq(0..MaxChunks) /\ ended \in Seq(Endings) /\ outbox \in Seq(Answer)
  BY DEF TypeOK, Forwarding, Answer
<1> QED BY <1>1, LenProperties

\* Entries first + 1 to first + k of a sequence that an operation appends.
LEMMA Extended ==
    ASSUME NEW S, NEW s \in Seq(S), NEW k \in Nat, NEW t \in [1..k -> S]
    PROVE  /\ s \o t \in Seq(S) /\ Len(s) \in Nat /\ Len(s \o t) = Len(s) + k
           /\ \A i \in 1..Len(s) : (s \o t)[i] = s[i]
           /\ \A i \in 1..k : (s \o t)[Len(s) + i] = t[i]
<1>1. t \in Seq(S) /\ Len(t) = k
  OBVIOUS
<1>2. Len(s) \in Nat
  BY LenProperties
<1>3. /\ s \o t \in Seq(S) /\ Len(s \o t) = Len(s) + Len(t)
      /\ \A i \in 1..(Len(s) + Len(t)) :
           (s \o t)[i] = IF i <= Len(s) THEN s[i] ELSE t[i - Len(s)]
  BY <1>1, ConcatProperties
<1>4. PICK m \in Nat : m = Len(s)
  BY <1>2
<1>5. \A i \in 1..m : (s \o t)[i] = s[i]
  BY <1>1, <1>3, <1>4
<1>6. \A i \in 1..k : (s \o t)[m + i] = t[i]
  <2> SUFFICES ASSUME NEW i \in 1..k PROVE (s \o t)[m + i] = t[i]
    OBVIOUS
  <2>1. m + i \in 1..(m + k) /\ ~ (m + i <= m) /\ (m + i) - m = i
    OBVIOUS
  <2> QED BY <1>1, <1>3, <1>4, <2>1
<1> QED BY <1>1, <1>2, <1>3, <1>4, <1>5, <1>6

LEMMA Overwritten ==
    ASSUME NEW S, NEW s \in Seq(S), NEW v \in S, NEW j
    PROVE  /\ [s EXCEPT ![j] = v] \in Seq(S)
           /\ Len([s EXCEPT ![j] = v]) = Len(s)
           /\ \A i \in 1..Len(s) : [s EXCEPT ![j] = v][i] = IF i = j THEN v ELSE s[i]
<1>1. Len(s) \in Nat /\ s \in [1..Len(s) -> S]
  BY LenProperties
<1>2. PICK n \in Nat : n = Len(s)
  BY <1>1
<1>3. [s EXCEPT ![j] = v] \in [1..n -> S]
  BY <1>1, <1>2
<1>4. [s EXCEPT ![j] = v] \in Seq(S) /\ Len([s EXCEPT ![j] = v]) = n
  BY <1>3
<1> QED BY <1>1, <1>2, <1>4

\* The buffers of the client that are in hand after a read of k of them.
LEMMA ReceiveTyped ==
    ASSUME RedirectInv, NEW k \in 1..(Len(sent) - read), input' = [i \in 1..k |-> read + i]
    PROVE  /\ input' \in Seq(1..MaxBuffers) /\ Len(input') = k /\ k \in Nat
           /\ \A i \in 1..k : input'[i] = read + i
           /\ read + k \in 0..MaxBuffers /\ read + k <= Len(sent)
<1>1. PICK n \in Nat : n = Len(sent) /\ n <= MaxBuffers /\ read \in Nat /\ read <= n
                       /\ MaxBuffers \in Nat
  BY Lengths, RedirectBounds DEF RedirectInv, TypeOK, Buffers
<1>2. k \in Nat /\ read + k <= n
  BY <1>1
<1>3. \A i \in 1..k : read + i \in 1..MaxBuffers
  BY <1>1, <1>2
<1>4. input' \in Seq(1..MaxBuffers) /\ Len(input') = k
  BY <1>2, <1>3
<1> QED BY <1>1, <1>2, <1>4

LEMMA ReceiveStep == RedirectInv /\ ReceiveFromClient => RedirectInv'
<1> SUFFICES ASSUME RedirectInv, ReceiveFromClient PROVE RedirectInv'
  OBVIOUS
<1>0. /\ read \in Nat /\ Len(produced) \in Nat /\ Len(produced) <= read /\ Len(forwarded) = read
      /\ UNCHANGED <<route, count, idle, exchange, forwarded, outbox, selectFaults>> /\ pc = "poll"
  BY Lengths DEF RedirectInv, TypeOK, Buffers, Exchanges, ReceiveFromClient
<1>1. CASE \E k \in 1..(Len(sent) - read) :
            /\ clientLink # "rst"
            /\ input' = [i \in 1..k |-> read + i]
            /\ read' = read + k
            /\ pc' = "route"
            /\ UNCHANGED <<clientOpen, clientLink, sent>>
  <2>1. PICK k \in 1..(Len(sent) - read) :
            /\ clientLink # "rst"
            /\ input' = [i \in 1..k |-> read + i]
            /\ read' = read + k
            /\ pc' = "route"
            /\ UNCHANGED <<clientOpen, clientLink, sent>>
    BY <1>1
  <2>2. /\ input' \in Seq(1..MaxBuffers) /\ Len(input') = k /\ k \in Nat
        /\ \A i \in 1..k : input'[i] = read + i
        /\ read + k \in 0..MaxBuffers /\ read + k <= Len(sent) /\ k >= 1
    BY <2>1, ReceiveTyped
  <2>3. TypeOK'
    BY <1>0, <2>1, <2>2 DEF RedirectInv, TypeOK, exchange
  <2>4. Buffers'
    <3>1. /\ read' <= Len(sent') /\ Len(sent') <= MaxBuffers
          /\ \A i \in 1..Len(forwarded') : forwarded'[i].n = i
      BY <1>0, <2>1, <2>2 DEF RedirectInv, Buffers
    <3>2. /\ Len(input') > 0 /\ Len(forwarded') = read /\ Len(input') = k
          /\ \A i \in 1..Len(input') : input'[i] = Len(forwarded') + i
      BY <1>0, <2>2
    <3> QED BY <1>0, <2>1, <2>2, <3>1, <3>2 DEF Buffers
  <2>5. Exchanges'
    BY <1>0, <2>1, <2>2 DEF RedirectInv, Exchanges, Busy, exchange, current
  <2> QED BY <2>3, <2>4, <2>5 DEF RedirectInv
<1>2. CASE CloseClient /\ UNCHANGED <<input, read>>
  <2>1. TypeOK'
    BY <1>0, <1>2 DEF RedirectInv, TypeOK, exchange, CloseClient
  <2>2. Buffers'
    BY <1>0, <1>2 DEF RedirectInv, Buffers, Holding, CloseClient
  <2>3. Exchanges'
    BY <1>0, <1>2 DEF RedirectInv, Exchanges, Busy, exchange, current, CloseClient
  <2> QED BY <2>1, <2>2, <2>3 DEF RedirectInv
<1> QED BY <1>1, <1>2 DEF ReceiveFromClient

LEMMA SelectStep == RedirectInv /\ SelectFails => RedirectInv'
<1> SUFFICES ASSUME RedirectInv, SelectFails PROVE RedirectInv'
  OBVIOUS
<1>1. TypeOK'
  BY RedirectBounds DEF RedirectInv, TypeOK, SelectFails, request, client, exchange
<1>2. Buffers' /\ Exchanges'
  BY DEF RedirectInv, Buffers, Exchanges, SelectFails, request, client, exchange, current
<1> QED BY <1>1, <1>2 DEF RedirectInv

LEMMA RouteStep == RedirectInv /\ RouteRequest => RedirectInv'
<1> SUFFICES ASSUME RedirectInv, RouteRequest PROVE RedirectInv'
  OBVIOUS
<1>1. /\ pc = "route" /\ pc' \in {"connect", "done", "crashed"}
      /\ route' \in UriMap \cup {None} /\ clientOpen' \in BOOLEAN
      /\ UNCHANGED <<input, count, idle, exchange, forwarded, outbox, selectFaults, clientLink,
                     sent, read>>
  BY FindUriIsShortest DEF RouteRequest, CloseClient, client, RedirectInv, TypeOK
<1>2. TypeOK'
  BY <1>1 DEF RedirectInv, TypeOK, exchange
<1>3. Buffers'
  BY <1>1 DEF RedirectInv, Buffers, Holding
<1>4. Exchanges'
  BY <1>1 DEF RedirectInv, Exchanges, exchange, current, Busy
<1> QED BY <1>2, <1>3, <1>4 DEF RedirectInv

LEMMA ConnectStep == RedirectInv /\ ConnectTarget => RedirectInv'
<1> SUFFICES ASSUME RedirectInv, ConnectTarget PROVE RedirectInv'
  OBVIOUS
<1>0. /\ pc = "connect" /\ UNCHANGED <<input, route, count, idle, forwarded, outbox, selectFaults>>
      /\ UNCHANGED <<read, sent, clientLink>>
      /\ clientOpen' \in BOOLEAN
  BY DEF ConnectTarget, CloseClient, client, request, RedirectInv, TypeOK
<1>1. CASE /\ targetOpen' = TRUE /\ targetLink' = "up"
           /\ produced' = Append(produced, 0) /\ ended' = Append(ended, "open")
           /\ taken' = 0 /\ pc' = "send"
  <2>1. /\ produced \in Seq(0..MaxChunks) /\ ended \in Seq(Endings)
        /\ 0 \in 0..MaxChunks /\ "open" \in Endings
    BY RedirectBounds DEF RedirectInv, TypeOK, Endings
  <2>2. PICK m \in Nat : m = Len(produced) /\ m = Len(ended) /\ m < read /\ read \in Nat
    BY <1>0, Lengths DEF RedirectInv, TypeOK, Exchanges
  <2>3. /\ produced' \in Seq(0..MaxChunks) /\ ended' \in Seq(Endings)
        /\ Len(produced') = m + 1 /\ Len(ended') = m + 1
        /\ produced'[m + 1] = 0 /\ ended'[m + 1] = "open"
    <3>1. /\ Append(produced, 0) \in Seq(0..MaxChunks)
          /\ Len(Append(produced, 0)) = Len(produced) + 1
          /\ Append(produced, 0)[Len(produced) + 1] = 0
      BY <2>1, AppendProperties
    <3>2. /\ Append(ended, "open") \in Seq(Endings)
          /\ Len(Append(ended, "open")) = Len(ended) + 1
          /\ Append(ended, "open")[Len(ended) + 1] = "open"
      BY <2>1, AppendProperties
    <3> QED BY <1>1, <2>2, <3>1, <3>2
  <2>4. TypeOK'
    BY <1>0, <1>1, <2>1, <2>3 DEF RedirectInv, TypeOK, Links
  <2>5. Buffers'
    BY <1>0, <1>1 DEF RedirectInv, Buffers, Holding
  <2>6. Exchanges'
    BY <1>0, <1>1, <2>2, <2>3 DEF Exchanges, current
  <2> QED BY <2>4, <2>5, <2>6 DEF RedirectInv
<1>2. CASE pc' = "done" /\ UNCHANGED exchange
  <2>1. TypeOK'
    BY <1>0, <1>2 DEF RedirectInv, TypeOK, exchange
  <2>2. Buffers' /\ Exchanges'
    BY <1>0, <1>2 DEF RedirectInv, Buffers, Exchanges, Holding, Busy, exchange, current
  <2> QED BY <2>1, <2>2 DEF RedirectInv
<1> QED BY <1>1, <1>2 DEF ConnectTarget, CloseClient

\* What SendRequest adds to the buffers that reached a service.
LEMMA SendTyped ==
    ASSUME RedirectInv, pc = "send",
           forwarded' = forwarded \o
                [i \in DOMAIN input |-> [exchange |-> current, n |-> input[i]]]
    PROVE  /\ forwarded' \in Seq(Forwarding) /\ Len(forwarded') = read
           /\ \A i \in 1..read : forwarded'[i].n = i
<1>1. PICK f \in Nat, k \in Nat : /\ f = Len(forwarded) /\ k = Len(input) /\ f + k = read
                                  /\ DOMAIN input = 1..k
  BY Lengths DEF RedirectInv, Buffers, Holding
<1>2. forwarded \in Seq(Forwarding) /\ \A i \in 1..f : forwarded[i].n = i
  BY <1>1 DEF RedirectInv, TypeOK, Buffers, Forwarding
<1>3. current \in 1..MaxBuffers
  BY Lengths, RedirectBounds DEF RedirectInv, TypeOK, Exchanges, Busy, current
<1>4. \A i \in 1..k : input[i] \in 1..MaxBuffers /\ input[i] = f + i
  BY <1>1, ElementOfSeq DEF RedirectInv, TypeOK, Buffers, Holding
<1> DEFINE new == [i \in 1..k |-> [exchange |-> current, n |-> input[i]]]
<1>5. new \in [1..k -> Forwarding]
  BY <1>3, <1>4 DEF Forwarding
<1>6. \A i \in 1..k : new[i].n = f + i
  BY <1>4
<1>7. forwarded' = forwarded \o new
  BY <1>1
<1> HIDE DEF new
<1>8. /\ forwarded' \in Seq(Forwarding) /\ Len(forwarded') = f + k
      /\ \A i \in 1..f : forwarded'[i] = forwarded[i]
      /\ \A i \in 1..k : forwarded'[f + i] = new[i]
  <2>1. /\ forwarded \o new \in Seq(Forwarding)
        /\ Len(forwarded \o new) = Len(forwarded) + k
        /\ \A i \in 1..Len(forwarded) : (forwarded \o new)[i] = forwarded[i]
        /\ \A i \in 1..k : (forwarded \o new)[Len(forwarded) + i] = new[i]
    <3>1. forwarded \in Seq(Forwarding) /\ k \in Nat /\ new \in [1..k -> Forwarding]
      BY <1>2, <1>5
    <3> QED BY <3>1, Extended
  <2> QED BY <1>1, <1>7, <2>1
<1>9. ASSUME NEW i \in 1..read PROVE forwarded'[i].n = i
  <2>1. CASE i \in 1..f
    BY <1>2, <1>8, <2>1
  <2>2. CASE i \notin 1..f
    <3>1. PICK j \in 1..k : i = f + j
      <4>1. i - f \in 1..k /\ i = f + (i - f)
        BY <1>1, <2>2
      <4> QED BY <4>1
    <3>2. forwarded'[f + j] = new[j] /\ new[j].n = f + j
      BY <1>6, <1>8
    <3> QED BY <3>1, <3>2
  <2> QED BY <2>1, <2>2
<1> QED BY <1>1, <1>8, <1>9

LEMMA SendStep == RedirectInv /\ SendRequest => RedirectInv'
<1> SUFFICES ASSUME RedirectInv, SendRequest PROVE RedirectInv'
  OBVIOUS
<1>0. /\ pc = "send" /\ UNCHANGED <<input, route, idle, targetOpen, targetLink, produced, taken,
                                    outbox, selectFaults, clientLink, sent, read>>
      /\ clientOpen' \in BOOLEAN
  BY DEF SendRequest, CloseClient, client, request, RedirectInv, TypeOK
<1>1. CASE /\ forwarded' = forwarded \o
                [i \in DOMAIN input |-> [exchange |-> current, n |-> input[i]]]
           /\ count' = 0 /\ pc' = "pollTarget" /\ ended' = ended
  <2>1. /\ forwarded' \in Seq(Forwarding) /\ Len(forwarded') = read
        /\ \A i \in 1..read : forwarded'[i].n = i
    BY <1>0, <1>1, SendTyped
  <2>2. TypeOK'
    BY <1>0, <1>1, <2>1, RedirectBounds DEF RedirectInv, TypeOK, Forwarding
  <2>3. Buffers'
    BY <1>0, <1>1, <2>1 DEF RedirectInv, Buffers, Holding
  <2>4. Exchanges'
    BY <1>0, <1>1 DEF RedirectInv, Exchanges, current, Busy
  <2> QED BY <2>2, <2>3, <2>4 DEF RedirectInv
<1>2. CASE /\ ended' = [ended EXCEPT ![current] = "leaked"] /\ pc' = "done"
           /\ UNCHANGED <<count, forwarded>>
  <2>1. ended' \in Seq(Endings) /\ Len(ended') = Len(ended)
    <3>1. ended \in Seq(Endings) /\ "leaked" \in Endings
      BY DEF RedirectInv, TypeOK, Endings
    <3>2. /\ [ended EXCEPT ![current] = "leaked"] \in Seq(Endings)
          /\ Len([ended EXCEPT ![current] = "leaked"]) = Len(ended)
      BY <3>1, Overwritten
    <3> QED BY <1>2, <3>2
  <2>2. TypeOK'
    BY <1>0, <1>2, <2>1 DEF RedirectInv, TypeOK
  <2>3. Buffers' /\ Exchanges'
    BY <1>0, <1>2, <2>1 DEF RedirectInv, Buffers, Exchanges, Holding, Busy, current
  <2> QED BY <2>2, <2>3 DEF RedirectInv
<1> QED BY <1>1, <1>2 DEF SendRequest, CloseClient, client

\* The exchange ends or it goes on; only an empty read ends it as "closed".
LEMMA CountPollShape ==
    ASSUME RedirectInv, pc = "pollTarget", CountPoll
    PROVE  /\ count' \in 0..PollCap /\ targetOpen' \in BOOLEAN
           /\ \/ pc' = "pollTarget" /\ ended' = ended
              \/ pc' = "poll" /\ ended' = [ended EXCEPT ![current] = "cap"]
<1>1. count \in 0..PollCap /\ PollCap \in Nat /\ targetOpen \in BOOLEAN
  BY RedirectBounds DEF RedirectInv, TypeOK
<1>2. CASE count = PollCap
  BY <1>1, <1>2 DEF CountPoll, EndExchange
<1>3. CASE count # PollCap
  <2>1. count' = count + 1 /\ UNCHANGED <<pc, targetOpen, ended>>
    BY <1>3 DEF CountPoll
  <2>2. count + 1 \in 0..PollCap
    BY <1>1, <1>3
  <2> QED BY <1>1, <2>1, <2>2
<1> QED BY <1>2, <1>3

\* The chunks that a read of k of them adds to what the client was sent.
Chunks(k) == [i \in 1..k |-> [exchange |-> current, chunk |-> taken + i]]

\* How a poll leaves the exchange.
PollEnds ==
    \/ pc' = "pollTarget" /\ ended' = ended
    \/ /\ pc' = "poll"
       /\ \E how \in Endings :
            /\ ended' = [ended EXCEPT ![current] = how]
            /\ how = "closed" => Unread = 0 /\ UNCHANGED <<taken, outbox>>

LEMMA PollShape ==
    ASSUME RedirectInv, PollTarget
    PROVE  /\ pc = "pollTarget" /\ PollEnds
           /\ UNCHANGED <<input, route, clientOpen, sent, read, targetLink, produced, forwarded,
                          selectFaults>>
           /\ count' \in 0..PollCap /\ idle' \in BOOLEAN /\ targetOpen' \in BOOLEAN
           /\ clientLink' \in Links
           /\ \/ UNCHANGED <<taken, outbox>>
              \/ \E k \in 1..Unread :
                   /\ taken' = taken + k
                   /\ \/ outbox' = outbox \o Chunks(k)
                      \/ outbox' = outbox /\ pc' = "poll"
<1>0. /\ pc = "pollTarget" /\ (NothingToRead \/ RelayAnswer \/ TargetGone)
      /\ UNCHANGED <<input, route, clientOpen, sent, read, targetLink, produced, forwarded,
                     selectFaults>>
      /\ count \in 0..PollCap /\ clientLink \in Links
  BY DEF PollTarget, request, RedirectInv, TypeOK
<1>1. CASE NothingToRead
  <2>1. CountPoll /\ UNCHANGED <<taken, outbox, clientLink>> /\ idle' = TRUE
    BY <1>1 DEF NothingToRead
  <2>2. PollEnds
    BY <1>0, <2>1, CountPollShape DEF PollEnds, Endings
  <2> QED BY <1>0, <2>1, <2>2, CountPollShape
<1>2. CASE RelayAnswer
  <2>1. PICK k \in 1..Unread :
         /\ taken' = taken + k
         /\ \/ outbox' = outbox \o Chunks(k) /\ CountPoll /\ UNCHANGED clientLink
            \/ /\ clientLink' = "rst"
               /\ EndExchange("error")
               /\ UNCHANGED <<count, outbox>>
    BY <1>2 DEF RelayAnswer, Chunks
  <2>2. idle' = FALSE
    BY <1>2 DEF RelayAnswer
  <2>3. CASE outbox' = outbox \o Chunks(k) /\ CountPoll /\ UNCHANGED clientLink
    <3>1. PollEnds
      BY <1>0, <2>3, CountPollShape DEF PollEnds, Endings
    <3> QED BY <1>0, <2>1, <2>2, <2>3, <3>1, CountPollShape
  <2>4. CASE clientLink' = "rst" /\ EndExchange("error") /\ UNCHANGED <<count, outbox>>
    <3>1. PollEnds
      BY <2>4 DEF PollEnds, Endings, EndExchange
    <3>2. targetOpen' = FALSE /\ pc' = "poll"
      BY <2>4 DEF EndExchange
    <3> QED BY <1>0, <2>1, <2>2, <2>4, <3>1, <3>2 DEF Links
  <2> QED BY <2>1, <2>3, <2>4
<1>3. CASE TargetGone
  <2>1. /\ idle' = FALSE /\ UNCHANGED <<count, taken, outbox, clientLink>>
        /\ \/ Unread = 0 /\ EndExchange("closed")
           \/ EndExchange("reset")
    BY <1>3 DEF TargetGone
  <2>2. PollEnds /\ targetOpen' = FALSE
    BY <2>1 DEF PollEnds, Endings, EndExchange
  <2> QED BY <1>0, <2>1, <2>2
<1> QED BY <1>0, <1>1, <1>2, <1>3

\* The numbers of an exchange that is under way.
LEMMA Underway ==
    ASSUME RedirectInv, pc \in Busy
    PROVE  /\ current \in 1..MaxBuffers /\ current \in 1..Len(produced) /\ Len(ended) = current
           /\ produced[current] \in 0..MaxChunks /\ taken \in Nat /\ taken <= produced[current]
           /\ Unread \in Nat /\ taken + Unread = produced[current] /\ ended[current] = "open"
<1>1. current \in 1..MaxBuffers /\ current \in 1..Len(produced) /\ Len(ended) = current
  BY Lengths, RedirectBounds DEF RedirectInv, TypeOK, Exchanges, current
<1>2. produced \in Seq(0..MaxChunks) /\ taken \in Nat /\ taken <= produced[current]
      /\ ended[current] = "open"
  BY DEF RedirectInv, TypeOK, Exchanges
<1>3. produced[current] \in 0..MaxChunks
  BY <1>1, <1>2, ElementOfSeq
<1>4. PICK p \in Nat, q \in Nat : p = produced[current] /\ q = taken /\ q <= p
  BY <1>2, <1>3
<1>5. Unread \in Nat /\ taken + Unread = produced[current]
  BY <1>4 DEF Unread
<1> QED BY <1>1, <1>2, <1>3, <1>5

\* What the client is sent when a poll reads k chunks.
LEMMA ChunksTyped ==
    ASSUME RedirectInv, pc = "pollTarget", NEW k \in 1..Unread
    PROVE  /\ k \in Nat /\ k >= 1 /\ taken + k <= produced[current] /\ taken + k \in 0..MaxChunks
           /\ outbox \o Chunks(k) \in Seq(Answer)
           /\ Len(outbox \o Chunks(k)) = Len(outbox) + k
           /\ \A i \in 1..Len(outbox) : (outbox \o Chunks(k))[i] = outbox[i]
           /\ \A i \in 1..k : (outbox \o Chunks(k))[Len(outbox) + i] =
                                [exchange |-> current, chunk |-> taken + i]
<1>1. /\ current \in 1..MaxBuffers /\ produced[current] \in 0..MaxChunks /\ taken \in Nat
      /\ Unread \in Nat /\ taken + Unread = produced[current]
  BY Underway DEF Busy
<1>2. PICK p \in Nat, q \in Nat, u \in Nat, m \in Nat : /\ p = produced[current] /\ q = taken /\ u = Unread
                                            /\ q + u = p /\ m = MaxChunks /\ p <= m
  BY <1>1, RedirectBounds
<1>3. k \in Nat /\ k >= 1 /\ k <= u /\ q + k <= p /\ q + k \in 0..m
  BY <1>2
<1>4. \A i \in 1..k : q + i \in 1..m
  BY <1>2, <1>3
<1>5. Chunks(k) \in [1..k -> Answer]
  BY <1>1, <1>2, <1>4 DEF Chunks, Answer
<1>6. outbox \in Seq(Answer)
  BY DEF RedirectInv, TypeOK, Answer
<1>7. /\ outbox \o Chunks(k) \in Seq(Answer)
      /\ Len(outbox \o Chunks(k)) = Len(outbox) + k
      /\ \A i \in 1..Len(outbox) : (outbox \o Chunks(k))[i] = outbox[i]
      /\ \A i \in 1..k : (outbox \o Chunks(k))[Len(outbox) + i] = Chunks(k)[i]
  BY <1>3, <1>5, <1>6, Extended
<1>8. \A i \in 1..k : Chunks(k)[i] = [exchange |-> current, chunk |-> taken + i]
  BY DEF Chunks
<1> QED BY <1>2, <1>3, <1>7, <1>8

LEMMA PollStep == RedirectInv /\ PollTarget => RedirectInv'
<1> SUFFICES ASSUME RedirectInv, PollTarget PROVE RedirectInv'
  OBVIOUS
<1>0. /\ pc = "pollTarget" /\ PollEnds
      /\ UNCHANGED <<input, route, clientOpen, sent, read, targetLink, produced, forwarded,
                     selectFaults>>
      /\ count' \in 0..PollCap /\ idle' \in BOOLEAN /\ targetOpen' \in BOOLEAN
      /\ clientLink' \in Links
  BY PollShape
<1>1. /\ taken' \in 0..MaxChunks /\ taken' <= produced[current] /\ outbox' \in Seq(Answer)
  <2>1. CASE UNCHANGED <<taken, outbox>>
    BY <1>0, <2>1, Underway DEF RedirectInv, TypeOK, Answer, Busy
  <2>2. CASE \E k \in 1..Unread :
                   /\ taken' = taken + k
                   /\ \/ outbox' = outbox \o Chunks(k)
                      \/ outbox' = outbox /\ pc' = "poll"
    <3>1. PICK k \in 1..Unread :
                   /\ taken' = taken + k
                   /\ \/ outbox' = outbox \o Chunks(k)
                      \/ outbox' = outbox
      BY <2>2
    <3>2. /\ taken + k <= produced[current] /\ taken + k \in 0..MaxChunks
          /\ outbox \o Chunks(k) \in Seq(Answer)
      BY <1>0, ChunksTyped
    <3>3. outbox \in Seq(Answer)
      BY DEF RedirectInv, TypeOK, Answer
    <3> QED BY <3>1, <3>2, <3>3
  <2> QED BY <2>1, <2>2, PollShape
<1>2. ended' \in Seq(Endings) /\ Len(ended') = Len(ended)
  <2>1. ended \in Seq(Endings)
    BY DEF RedirectInv, TypeOK
  <2>2. \A how \in Endings : /\ [ended EXCEPT ![current] = how] \in Seq(Endings)
                             /\ Len([ended EXCEPT ![current] = how]) = Len(ended)
    BY <2>1, Overwritten
  <2> QED BY <1>0, <2>1, <2>2 DEF PollEnds
<1>3. pc' = "poll" \/ (pc' = "pollTarget" /\ ended' = ended)
  BY <1>0 DEF PollEnds
<1>4. TypeOK'
  BY <1>0, <1>1, <1>2, <1>3 DEF RedirectInv, TypeOK, Answer
<1>5. Buffers'
  BY <1>0, <1>3 DEF RedirectInv, Buffers, Holding
<1>6. Exchanges'
  BY <1>0, <1>1, <1>2, <1>3 DEF RedirectInv, Exchanges, Busy, current
<1> QED BY <1>4, <1>5, <1>6 DEF RedirectInv

LEMMA PeersStep ==
    ASSUME RedirectInv, ClientSends \/ ClientLeaves \/ TargetAnswers \/ TargetLeaves
    PROVE  RedirectInv'
<1>1. CASE ClientSends
  <2>1. /\ Len(sent) < MaxBuffers /\ sent \in Seq(Requests) /\ Len(sent) \in Nat
        /\ UNCHANGED <<pc, input, route, count, idle, clientOpen, clientLink, read, exchange,
                       forwarded, outbox, selectFaults>>
    BY <1>1, Lengths DEF ClientSends, request, RedirectInv, TypeOK
  <2>2. PICK r \in Requests : sent' = Append(sent, r)
    BY <1>1 DEF ClientSends
  <2>3. sent' \in Seq(Requests) /\ Len(sent') = Len(sent) + 1
    BY <2>1, <2>2, AppendProperties
  <2>4. TypeOK'
    BY <2>1, <2>3 DEF RedirectInv, TypeOK, exchange
  <2>5. Buffers'
    <3>1. read' <= Len(sent') /\ Len(sent') <= MaxBuffers
      BY <2>1, <2>3, RedirectBounds DEF RedirectInv, TypeOK, Buffers
    <3> QED BY <2>1, <3>1 DEF RedirectInv, Buffers
  <2>6. Exchanges'
    BY <2>1 DEF RedirectInv, Exchanges, exchange, current
  <2> QED BY <2>4, <2>5, <2>6 DEF RedirectInv
<1>2. CASE ClientLeaves \/ TargetLeaves
  <2>1. /\ clientLink' \in Links /\ targetLink' \in Links
        /\ UNCHANGED <<pc, input, route, count, idle, clientOpen, sent, read, targetOpen, produced,
                       taken, ended, forwarded, outbox, selectFaults>>
    BY <1>2 DEF ClientLeaves, TargetLeaves, request, client, exchange, Links, RedirectInv, TypeOK
  <2>2. TypeOK' /\ Buffers' /\ Exchanges'
    BY <2>1 DEF RedirectInv, TypeOK, Buffers, Exchanges, current
  <2> QED BY <2>2 DEF RedirectInv
<1>3. CASE TargetAnswers
  <2>1. /\ pc = "pollTarget" /\ produced[current] < MaxChunks
        /\ produced' = [produced EXCEPT ![current] = @ + 1]
        /\ UNCHANGED <<pc, input, route, count, idle, clientOpen, clientLink, sent, read, targetOpen,
                       targetLink, taken, ended, forwarded, outbox, selectFaults>>
    BY <1>3 DEF TargetAnswers, request, client
  <2>2. /\ current \in 1..Len(produced) /\ produced[current] \in 0..MaxChunks /\ taken \in Nat
        /\ taken <= produced[current] /\ produced \in Seq(0..MaxChunks)
    BY <2>1, Underway DEF Busy, RedirectInv, TypeOK
  <2>3. PICK p \in 0..MaxChunks : p = produced[current] + 1 /\ taken <= p
    BY <2>1, <2>2, RedirectBounds
  <2>4. produced' = [produced EXCEPT ![current] = p]
    BY <2>1, <2>3
  <2>5. /\ [produced EXCEPT ![current] = p] \in Seq(0..MaxChunks)
        /\ Len([produced EXCEPT ![current] = p]) = Len(produced)
        /\ \A i \in 1..Len(produced) :
              [produced EXCEPT ![current] = p][i] = IF i = current THEN p ELSE produced[i]
    BY <2>2, Overwritten
  <2>6. /\ produced' \in Seq(0..MaxChunks) /\ Len(produced') = Len(produced)
        /\ produced'[current] = p
    BY <2>2, <2>4, <2>5
  <2>7. TypeOK'
    BY <2>1, <2>6 DEF RedirectInv, TypeOK
  <2>8. Buffers'
    BY <2>1 DEF RedirectInv, Buffers
  <2>9. Exchanges'
    BY <2>1, <2>3, <2>6 DEF RedirectInv, Exchanges, current
  <2> QED BY <2>7, <2>8, <2>9 DEF RedirectInv
<1> QED BY <1>1, <1>2, <1>3

LEMMA RedirectStep == RedirectInv /\ [Next]_vars => RedirectInv'
<1> SUFFICES ASSUME RedirectInv, [Next]_vars PROVE RedirectInv'
  OBVIOUS
<1>1. CASE UNCHANGED vars
  BY <1>1 DEF vars, request, client, exchange, RedirectInv, TypeOK, Buffers, Exchanges, current
<1> QED BY <1>1, ReceiveStep, SelectStep, RouteStep, ConnectStep, SendStep, PollStep, PeersStep
        DEF Next, Thread, Finished

LEMMA RedirectInit == Init => RedirectInv
<1> SUFFICES ASSUME Init PROVE RedirectInv
  OBVIOUS
<1>1. TypeOK
  <2>1. \A S : <<>> \in Seq(S)
    BY EmptySeq
  <2>2. /\ input \in Seq(1..MaxBuffers) /\ sent \in Seq(Requests) /\ forwarded \in Seq(Forwarding)
        /\ produced \in Seq(0..MaxChunks) /\ ended \in Seq(Endings) /\ outbox \in Seq(Answer)
    BY <2>1 DEF Init
  <2>3. /\ count \in 0..PollCap /\ read \in 0..MaxBuffers /\ taken \in 0..MaxChunks
        /\ selectFaults \in 0..MaxSelectFaults
    BY RedirectBounds DEF Init
  <2>4. /\ pc \in {"poll", "done"} /\ route = None /\ idle = FALSE /\ targetOpen = FALSE
        /\ clientLink = "up" /\ targetLink = "up"
    BY DEF Init
  <2>5. clientOpen \in BOOLEAN
    BY Zenon DEF Init
  <2> QED BY <2>2, <2>3, <2>4, <2>5 DEF TypeOK, Links, Forwarding, Answer
<1>2. Buffers /\ Exchanges
  BY RedirectBounds DEF Init, Buffers, Exchanges, Holding, Busy, current
<1> QED BY <1>1, <1>2 DEF RedirectInv

\* Every action keeps the variables in their types: an exchange has a number
\* the client's buffers bound, a poll is counted up to the cap and no further,
\* and no chunk is read that the service did not send.
THEOREM RedirectTypeCorrect == Spec => []TypeOK
<1>1. RedirectInv => TypeOK
  BY DEF RedirectInv
<1> QED BY <1>1, RedirectInit, RedirectStep, PTL DEF Spec

\* Whenever the gateway waits for the client, the services have got every
\* buffer it read, once and in the order it was sent.
THEOREM ForwardsAll == Spec => []RequestsForwarded
<1>1. RedirectInv => RequestsForwarded
  BY Lengths DEF RedirectInv, Buffers, RequestsForwarded
<1> QED BY <1>1, RedirectInit, RedirectStep, PTL DEF Spec

-----------------------------------------------------------------------------
(* The answers.                                                            *)

\* The client was sent chunks 1 to n of the answer to exchange e.
Delivered(e, n) ==
    \A c \in 1..n : \E i \in 1..Len(outbox) : outbox[i] = [exchange |-> e, chunk |-> c]

\* What the client was sent last belongs to an exchange up to the current one,
\* and while that is under way it is its chunk number "taken".
Answering ==
    /\ \A i \in 1..Len(outbox) : outbox[i].exchange <= current
    /\ pc \in Busy =>
          /\ taken = 0 => \A i \in 1..Len(outbox) : outbox[i].exchange < current
          /\ taken > 0 => /\ Len(outbox) > 0
                          /\ outbox[Len(outbox)] = [exchange |-> current, chunk |-> taken]
          /\ Delivered(current, taken)

AnswerInv == RedirectInv /\ Answering /\ AnswersInOrder /\ CompleteWhenClosed

\* Chunk b may follow chunk a.
Follows(a, b) ==
    IF b.exchange = a.exchange
      THEN b.chunk = a.chunk + 1
      ELSE b.exchange > a.exchange /\ b.chunk = 1

Zero == [exchange |-> 0, chunk |-> 0]

Ordered ==
    \A i \in 1..Len(outbox) : Follows(IF i = 1 THEN Zero ELSE outbox[i - 1], outbox[i])

LEMMA InOrderIff == TypeOK => (AnswersInOrder <=> Ordered)
  BY Lengths DEF AnswersInOrder, Ordered, Follows, Zero

LEMMA InOrderIffNext == TypeOK' => (AnswersInOrder' <=> Ordered')
  BY InOrderIff, PTL

LEMMA CompleteIff ==
    TypeOK => (CompleteWhenClosed <=> \A e \in 1..Len(ended) :
                                       ended[e] = "closed" => Delivered(e, produced[e]))
  BY Lengths DEF CompleteWhenClosed, Delivered

\* Nothing the client was sent is taken back.
Kept == /\ Len(outbox) <= Len(outbox')
        /\ \A i \in 1..Len(outbox) : outbox'[i] = outbox[i]

LEMMA StillDelivered ==
    ASSUME TypeOK, TypeOK', Kept, NEW e, NEW n, Delivered(e, n)
    PROVE  \A c \in 1..n : \E i \in 1..Len(outbox') : outbox'[i] = [exchange |-> e, chunk |-> c]
<1> SUFFICES ASSUME NEW c \in 1..n
             PROVE  \E i \in 1..Len(outbox') : outbox'[i] = [exchange |-> e, chunk |-> c]
  OBVIOUS
<1>1. PICK i \in 1..Len(outbox) : outbox[i] = [exchange |-> e, chunk |-> c]
  BY DEF Delivered
<1>2. i \in 1..Len(outbox') /\ outbox'[i] = outbox[i]
  <2>1. Len(outbox) \in Nat /\ Len(outbox') \in Nat
    <3>1. outbox \in Seq(Answer) /\ outbox' \in Seq(Answer)
      BY DEF TypeOK, Answer
    <3> QED BY <3>1, LenProperties
  <2> QED BY <2>1 DEF Kept
<1> QED BY <1>1, <1>2

\* CompleteWhenClosed stays true while no exchange becomes "closed".
LEMMA StillComplete ==
    ASSUME TypeOK, TypeOK', Kept, CompleteWhenClosed,
           \A e \in 1..Len(ended') : ended'[e] = "closed" =>
               e \in 1..Len(ended) /\ ended[e] = "closed" /\ produced'[e] = produced[e]
    PROVE  CompleteWhenClosed'
<1>1. ASSUME NEW e \in 1..Len(ended'), ended'[e] = "closed", NEW c \in 1..produced'[e]
      PROVE  \E i \in 1..Len(outbox') : outbox'[i] = [exchange |-> e, chunk |-> c]
  <2>1. e \in 1..Len(ended) /\ ended[e] = "closed" /\ produced'[e] = produced[e]
    BY <1>1
  <2>2. Delivered(e, produced[e])
    BY <2>1, CompleteIff
  <2> QED BY <1>1, <2>1, <2>2, StillDelivered
<1>2. DOMAIN ended' = 1..Len(ended') /\ DOMAIN outbox' = 1..Len(outbox')
  <2>1. ended' \in Seq(Endings) /\ outbox' \in Seq(Answer)
    BY DEF TypeOK, Answer
  <2> QED BY <2>1, LenProperties
<1> QED BY <1>1, <1>2 DEF CompleteWhenClosed

\* A step that touches neither the answers nor the exchange.
LEMMA QuietStep ==
    ASSUME AnswerInv, RedirectInv', UNCHANGED <<outbox, produced, ended, taken>>,
           pc' \in Busy => pc \in Busy
    PROVE  AnswerInv'
<1>1. Answering' /\ AnswersInOrder' /\ CompleteWhenClosed'
  BY DEF AnswerInv, Answering, Delivered, AnswersInOrder, CompleteWhenClosed, current
<1> QED BY <1>1 DEF AnswerInv

\* A new exchange: nothing of it has been answered.
LEMMA ConnectAnswers ==
    ASSUME AnswerInv, RedirectInv', ConnectTarget
    PROVE  AnswerInv'
<1>1. CASE UNCHANGED exchange /\ pc' = "done"
  <2>1. UNCHANGED <<outbox, produced, ended, taken>> /\ ~ (pc' \in Busy)
    BY <1>1 DEF ConnectTarget, exchange, Busy
  <2> QED BY <2>1, QuietStep
<1>2. CASE /\ produced' = Append(produced, 0) /\ ended' = Append(ended, "open")
           /\ taken' = 0 /\ pc' = "send"
  <2>0. outbox' = outbox /\ pc = "connect" /\ TypeOK /\ TypeOK'
    BY DEF ConnectTarget, AnswerInv, RedirectInv
  <2>1. PICK m \in Nat : m = Len(produced) /\ m = Len(ended)
    BY <2>0, Lengths DEF AnswerInv, RedirectInv, Exchanges
  <2>2. /\ produced \in Seq(0..MaxChunks) /\ ended \in Seq(Endings)
        /\ 0 \in 0..MaxChunks /\ "open" \in Endings
    BY <2>0, RedirectBounds DEF TypeOK, Endings
  <2>3. /\ Len(produced') = m + 1 /\ \A i \in 1..m : produced'[i] = produced[i]
    <3>1. /\ Len(Append(produced, 0)) = Len(produced) + 1
          /\ \A i \in 1..Len(produced) : Append(produced, 0)[i] = produced[i]
      BY <2>2, AppendProperties
    <3> QED BY <1>2, <2>1, <3>1
  <2>4. /\ Len(ended') = m + 1 /\ \A i \in 1..m : ended'[i] = ended[i]
        /\ ended'[m + 1] = "open"
    <3>1. /\ Len(Append(ended, "open")) = Len(ended) + 1
          /\ \A i \in 1..Len(ended) : Append(ended, "open")[i] = ended[i]
          /\ Append(ended, "open")[Len(ended) + 1] = "open"
      BY <2>2, AppendProperties
    <3> QED BY <1>2, <2>1, <3>1
  <2>5. Answering'
    <3>1. \A i \in 1..Len(outbox) : outbox[i].exchange <= m /\ outbox[i].exchange \in Nat
      <4>1. outbox \in Seq(Answer)
        BY <2>0 DEF TypeOK, Answer
      <4>2. \A i \in 1..Len(outbox) : outbox[i].exchange \in 1..MaxBuffers
        <5>1. \A a \in Answer : a.exchange \in 1..MaxBuffers
          BY DEF Answer
        <5>2. \A i \in 1..Len(outbox) : outbox[i] \in Answer
          BY <4>1, ElementOfSeq
        <5> QED BY <5>1, <5>2
      <4> QED BY <2>1, <4>2 DEF AnswerInv, Answering, current
    <3>2. current' = m + 1
      BY <2>3 DEF current
    <3>3. \A i \in 1..Len(outbox') : outbox'[i].exchange < current'
      BY <2>0, <3>1, <3>2
    <3>4. \A i \in 1..Len(outbox') : outbox'[i].exchange <= current'
      BY <2>0, <3>1, <3>2
    <3> QED BY <1>2, <3>3, <3>4 DEF Answering, Delivered
  <2>6. AnswersInOrder'
    BY <2>0 DEF AnswerInv, AnswersInOrder
  <2>7. CompleteWhenClosed'
    <3>1. Kept
      BY <2>0, Lengths DEF Kept
    <3>2. ASSUME NEW e \in 1..Len(ended'), ended'[e] = "closed"
          PROVE  e \in 1..Len(ended) /\ ended[e] = "closed" /\ produced'[e] = produced[e]
      <4>1. e # m + 1
        BY <2>4, <3>2
      <4>2. e \in 1..m
        BY <2>4, <4>1
      <4> QED BY <2>1, <2>3, <2>4, <3>2, <4>2
    <3> QED BY <2>0, <3>1, <3>2, StillComplete DEF AnswerInv
  <2> QED BY <2>5, <2>6, <2>7 DEF AnswerInv
<1> QED BY <1>1, <1>2 DEF ConnectTarget, CloseClient

\* A request that cannot be sent ends its exchange, unanswered.
LEMMA SendAnswers ==
    ASSUME AnswerInv, RedirectInv', SendRequest
    PROVE  AnswerInv'
<1>0. pc = "send" /\ UNCHANGED <<outbox, produced, taken>>
  BY DEF SendRequest
<1>1. CASE ended' = ended
  BY <1>0, <1>1, QuietStep DEF Busy
<1>2. CASE ended' = [ended EXCEPT ![current] = "leaked"] /\ pc' = "done"
  <2>0. TypeOK /\ TypeOK' /\ Kept
    BY <1>0, Lengths DEF AnswerInv, RedirectInv, Kept
  <2>1. Answering'
    BY <1>0, <1>2 DEF AnswerInv, Answering, Busy, current
  <2>2. AnswersInOrder'
    BY <1>0 DEF AnswerInv, AnswersInOrder
  <2>3. /\ Len([ended EXCEPT ![current] = "leaked"]) = Len(ended)
        /\ \A e \in 1..Len(ended) : [ended EXCEPT ![current] = "leaked"][e] =
                                      IF e = current THEN "leaked" ELSE ended[e]
    <3>1. ended \in Seq(Endings) /\ "leaked" \in Endings
      BY <2>0 DEF TypeOK, Endings
    <3> QED BY <3>1, Overwritten
  <2>4. ASSUME NEW e \in 1..Len(ended'), ended'[e] = "closed"
        PROVE  e \in 1..Len(ended) /\ ended[e] = "closed" /\ produced'[e] = produced[e]
    BY <1>0, <1>2, <2>3, <2>4
  <2>5. CompleteWhenClosed'
    BY <2>0, <2>4, StillComplete DEF AnswerInv
  <2> QED BY <2>1, <2>2, <2>5 DEF AnswerInv
<1> QED BY <1>1, <1>2 DEF SendRequest, CloseClient

\* A chunk that the service sends belongs to an exchange that is not "closed".
LEMMA ServiceAnswers ==
    ASSUME AnswerInv, RedirectInv', TargetAnswers
    PROVE  AnswerInv'
<1>0. /\ pc = "pollTarget" /\ UNCHANGED <<pc, outbox, taken, ended>>
      /\ produced' = [produced EXCEPT ![current] = @ + 1] /\ TypeOK /\ TypeOK' /\ Kept
  BY Lengths DEF TargetAnswers, AnswerInv, RedirectInv, Kept
<1>1. /\ ended[current] = "open" /\ current \in 1..Len(produced) /\ Len(ended) = current
      /\ Len(produced) \in Nat
  BY <1>0, Underway, Lengths DEF AnswerInv, Busy
<1>2. Len(produced') = Len(produced)
  <2>1. produced \in Seq(0..MaxChunks) /\ produced' \in Seq(0..MaxChunks)
    BY <1>0 DEF TypeOK
  <2> QED BY <1>0, <1>1, <2>1
<1>3. Answering'
  BY <1>0, <1>2 DEF AnswerInv, Answering, Delivered, current
<1>4. AnswersInOrder'
  BY <1>0 DEF AnswerInv, AnswersInOrder
<1>5. ASSUME NEW e \in 1..Len(ended'), ended'[e] = "closed"
      PROVE  e \in 1..Len(ended) /\ ended[e] = "closed" /\ produced'[e] = produced[e]
  <2>1. e # current /\ e \in 1..Len(produced)
    BY <1>0, <1>1, <1>5 DEF current
  <2>2. e \in DOMAIN produced
    BY <1>0, <2>1, LenProperties DEF TypeOK
  <2> QED BY <1>0, <1>5, <2>1, <2>2
<1>6. CompleteWhenClosed'
  BY <1>0, <1>5, StillComplete DEF AnswerInv
<1> QED BY <1>3, <1>4, <1>6 DEF AnswerInv

LEMMA PollCounters ==
    ASSUME AnswerInv, pc = "pollTarget"
    PROVE  Len(outbox) \in Nat /\ taken \in Nat /\ current \in Nat /\ current >= 1
<1>1. RedirectInv /\ TypeOK /\ pc \in Busy
  BY DEF AnswerInv, RedirectInv, Busy
<1>2. Len(outbox) \in Nat
  BY <1>1, Lengths
<1>3. taken \in Nat /\ current \in 1..MaxBuffers
  BY <1>1, Underway
<1> QED BY <1>2, <1>3

\* A poll that reads k chunks: they follow what the client was sent before.
LEMMA PollOrdered ==
    ASSUME AnswerInv, pc = "pollTarget", NEW k \in 1..Unread, outbox' = outbox \o Chunks(k)
    PROVE  Ordered' /\ Kept
<1>1. PICK m \in Nat, q \in Nat, x \in Nat : m = Len(outbox) /\ q = taken /\ x = current /\ x >= 1
  BY PollCounters
<1>2. /\ k \in Nat /\ Len(outbox') = m + k
      /\ \A i \in 1..m : outbox'[i] = outbox[i]
      /\ \A i \in 1..k : outbox'[m + i] = [exchange |-> x, chunk |-> q + i]
  BY <1>1, ChunksTyped DEF AnswerInv
<1>3. /\ q = 0 => \A i \in 1..m : outbox[i].exchange < x
      /\ q > 0 => m > 0 /\ outbox[m] = [exchange |-> x, chunk |-> q]
  BY <1>1 DEF AnswerInv, Answering, Busy
<1>4. \A i \in 1..m : Follows(IF i = 1 THEN Zero ELSE outbox[i - 1], outbox[i])
  BY <1>1, InOrderIff DEF AnswerInv, RedirectInv, Ordered
<1>5. ASSUME NEW i \in 1..(m + k)
      PROVE  Follows(IF i = 1 THEN Zero ELSE outbox'[i - 1], outbox'[i])
  <2>1. CASE i \in 1..m
    <3>1. outbox'[i] = outbox[i] /\ (i # 1 => outbox'[i - 1] = outbox[i - 1])
      BY <1>2, <2>1
    <3> QED BY <1>4, <2>1, <3>1
  <2>2. CASE i \notin 1..m
    <3>1. PICK j \in 1..k : i = m + j
      <4>1. i - m \in 1..k /\ i = m + (i - m)
        BY <1>2, <2>2
      <4> QED BY <4>1
    <3>2. outbox'[i] = [exchange |-> x, chunk |-> q + j]
      BY <1>2, <3>1
    <3>3. CASE j > 1
      <4>1. j - 1 \in 1..k /\ i - 1 = m + (j - 1) /\ i # 1
        BY <1>2, <3>1, <3>3
      <4>2. outbox'[i - 1] = [exchange |-> x, chunk |-> q + (j - 1)]
        BY <1>2, <4>1
      <4>3. outbox'[i].exchange = x /\ outbox'[i - 1].exchange = x
            /\ outbox'[i].chunk = outbox'[i - 1].chunk + 1
        BY <1>2, <3>2, <4>2
      <4> QED BY <4>1, <4>3 DEF Follows
    <3>4. CASE j = 1
      <4>1. i = m + 1 /\ outbox'[i].exchange = x /\ outbox'[i].chunk = q + 1
        BY <3>1, <3>2, <3>4
      <4>2. CASE m = 0
        <5>1. q = 0 /\ i = 1
          BY <1>3, <4>1, <4>2
        <5>2. Zero.exchange = 0
          BY DEF Zero
        <5>3. outbox'[i].exchange # Zero.exchange /\ outbox'[i].exchange > Zero.exchange
              /\ outbox'[i].chunk = 1
          BY <1>1, <4>1, <5>1, <5>2
        <5> QED BY <5>1, <5>3 DEF Follows
      <4>3. CASE m # 0
        <5>1. m \in 1..m /\ i # 1 /\ i - 1 = m /\ outbox'[i - 1] = outbox[m]
          BY <1>2, <4>1, <4>3
        <5>2. CASE q = 0
          <6>1. outbox[m].exchange < x
            BY <1>3, <5>1, <5>2
          <6>2. outbox[m].exchange \in Nat
            <7>1. \A a \in Answer : a.exchange \in 1..MaxBuffers
              BY DEF Answer
            <7>2. outbox \in Seq(Answer)
              BY DEF AnswerInv, RedirectInv, TypeOK, Answer
            <7>3. outbox[m] \in Answer
              BY <1>1, <5>1, <7>2, ElementOfSeq
            <7>4. outbox[m].exchange \in 1..MaxBuffers
              BY <7>1, <7>3
            <7> QED BY <7>4
          <6>3. /\ outbox'[i].exchange # outbox'[i - 1].exchange
                /\ outbox'[i].exchange > outbox'[i - 1].exchange /\ outbox'[i].chunk = 1
            BY <4>1, <5>1, <5>2, <6>1, <6>2
          <6> QED BY <5>1, <6>3 DEF Follows
        <5>3. CASE q # 0
          <6>1. outbox[m].exchange = x /\ outbox[m].chunk = q
            BY <1>3, <5>3
          <6>2. /\ outbox'[i].exchange = outbox'[i - 1].exchange
                /\ outbox'[i].chunk = outbox'[i - 1].chunk + 1
            BY <4>1, <5>1, <6>1
          <6> QED BY <5>1, <6>2 DEF Follows
        <5> QED BY <5>2, <5>3
      <4> QED BY <4>2, <4>3
    <3> QED BY <1>2, <3>3, <3>4
  <2> QED BY <2>1, <2>2
<1>6. Ordered'
  BY <1>2, <1>5 DEF Ordered, Follows, Zero
<1>7. Kept
  BY <1>1, <1>2 DEF Kept
<1> QED BY <1>6, <1>7

\* The chunks it read are now with the client, and the last is the newest.
LEMMA PollAnswering ==
    ASSUME AnswerInv, RedirectInv', pc = "pollTarget", NEW k \in 1..Unread,
           outbox' = outbox \o Chunks(k), taken' = taken + k, produced' = produced
    PROVE  Answering'
<1>1. PICK m \in Nat, q \in Nat, x \in Nat : m = Len(outbox) /\ q = taken /\ x = current /\ x >= 1
  BY PollCounters
<1>2. /\ k \in Nat /\ k >= 1 /\ Len(outbox') = m + k
      /\ \A i \in 1..m : outbox'[i] = outbox[i]
      /\ \A i \in 1..k : outbox'[m + i] = [exchange |-> x, chunk |-> q + i]
  BY <1>1, ChunksTyped DEF AnswerInv
<1>3. /\ \A i \in 1..m : outbox[i].exchange <= x
      /\ \A c \in 1..q : \E i \in 1..m : outbox[i] = [exchange |-> x, chunk |-> c]
  BY <1>1 DEF AnswerInv, Answering, Busy, Delivered
<1>4. ASSUME NEW i \in 1..(m + k) PROVE outbox'[i].exchange <= x
  <2>1. CASE i \in 1..m
    BY <1>2, <1>3, <2>1
  <2>2. CASE i \notin 1..m
    <3>1. PICK j \in 1..k : i = m + j
      <4>1. i - m \in 1..k /\ i = m + (i - m)
        BY <1>2, <2>2
      <4> QED BY <4>1
    <3>2. outbox'[m + j] = [exchange |-> x, chunk |-> q + j]
      BY <1>2
    <3>3. outbox'[i].exchange = x
      BY <3>1, <3>2
    <3> QED BY <3>3
  <2> QED BY <2>1, <2>2
<1>5. outbox'[m + k] = [exchange |-> x, chunk |-> q + k]
  <2>1. k \in 1..k
    BY <1>2
  <2> QED BY <1>2, <2>1
<1>6. ASSUME NEW c \in 1..(q + k)
      PROVE  \E i \in 1..(m + k) : outbox'[i] = [exchange |-> x, chunk |-> c]
  <2>1. CASE c \in 1..q
    <3>1. PICK i \in 1..m : outbox[i] = [exchange |-> x, chunk |-> c]
      BY <1>3, <2>1
    <3>2. i \in 1..(m + k) /\ outbox'[i] = outbox[i]
      BY <1>2
    <3> QED BY <3>1, <3>2
  <2>2. CASE c \notin 1..q
    <3>1. c - q \in 1..k /\ m + (c - q) \in 1..(m + k) /\ q + (c - q) = c
      BY <1>2, <2>2
    <3>2. outbox'[m + (c - q)] = [exchange |-> x, chunk |-> q + (c - q)]
      BY <1>2, <3>1
    <3> QED BY <3>1, <3>2
  <2> QED BY <2>1, <2>2
<1>7. current' = x /\ taken' = q + k
  BY <1>1 DEF current
<1>8. Len(outbox') > 0 /\ taken' # 0
  BY <1>2, <1>7
<1> QED BY <1>2, <1>4, <1>5, <1>6, <1>7, <1>8 DEF Answering, Delivered

\* An exchange becomes "closed" at a poll that finds everything read.
LEMMA PollComplete ==
    ASSUME AnswerInv, RedirectInv', PollTarget, Kept
    PROVE  CompleteWhenClosed'
<1>0. /\ pc = "pollTarget" /\ PollEnds /\ produced' = produced /\ TypeOK /\ TypeOK' /\ RedirectInv
  BY PollShape DEF AnswerInv, RedirectInv
<1>1. CASE ended' = ended
  BY <1>0, <1>1, StillComplete DEF AnswerInv
<1>2. CASE ended' # ended
  <2>1. PICK how \in Endings : /\ ended' = [ended EXCEPT ![current] = how]
                               /\ how = "closed" => Unread = 0 /\ UNCHANGED <<taken, outbox>>
    BY <1>0, <1>2 DEF PollEnds
  <2>2. /\ Len([ended EXCEPT ![current] = how]) = Len(ended)
        /\ \A e \in 1..Len(ended) :
              [ended EXCEPT ![current] = how][e] = IF e = current THEN how ELSE ended[e]
    <3>1. ended \in Seq(Endings)
      BY <1>0 DEF TypeOK
    <3> QED BY <3>1, Overwritten
  <2>3. CASE how # "closed"
    <3>1. ASSUME NEW e \in 1..Len(ended'), ended'[e] = "closed"
          PROVE  e \in 1..Len(ended) /\ ended[e] = "closed" /\ produced'[e] = produced[e]
      BY <1>0, <2>1, <2>2, <2>3, <3>1
    <3> QED BY <1>0, <3>1, StillComplete DEF AnswerInv
  <2>4. CASE how = "closed"
    <3>1. outbox' = outbox /\ Unread = 0
      BY <2>1, <2>4
    <3>2. taken = produced[current] /\ Delivered(current, taken)
      <4>1. taken \in Nat /\ taken + Unread = produced[current]
        BY <1>0, Underway DEF Busy
      <4>2. Delivered(current, taken)
        BY <1>0 DEF AnswerInv, Answering, Busy
      <4> QED BY <3>1, <4>1, <4>2
    <3>3. ASSUME NEW e \in 1..Len(ended), ended'[e] = "closed" PROVE Delivered(e, produced[e])
      <4>1. CASE e = current
        BY <3>2, <4>1
      <4>2. CASE e # current
        <5>1. ended[e] = "closed"
          BY <2>1, <2>2, <3>3, <4>2
        <5> QED BY <1>0, <5>1, CompleteIff DEF AnswerInv
      <4> QED BY <4>1, <4>2
    <3>4. DOMAIN ended' = 1..Len(ended) /\ DOMAIN outbox' = 1..Len(outbox)
      BY <1>0, <2>1, <3>1, Lengths
    <3> QED BY <1>0, <3>1, <3>3, <3>4 DEF CompleteWhenClosed, Delivered
  <2> QED BY <2>3, <2>4
<1> QED BY <1>1, <1>2

LEMMA PollAnswers ==
    ASSUME AnswerInv, RedirectInv', PollTarget
    PROVE  AnswerInv'
<1>0. /\ pc = "pollTarget" /\ produced' = produced /\ TypeOK /\ TypeOK' /\ RedirectInv
  BY PollShape DEF AnswerInv, RedirectInv
<1>1. CASE outbox' = outbox
  <2>1. Kept
    BY <1>0, <1>1, Lengths DEF Kept
  <2>2. taken' = taken \/ pc' = "poll" \/ \E k \in 1..Unread : outbox' = outbox \o Chunks(k)
    BY <1>0, PollShape
  <2>3. ~ \E k \in 1..Unread : outbox' = outbox \o Chunks(k)
    <3>1. SUFFICES ASSUME NEW k \in 1..Unread, outbox' = outbox \o Chunks(k) PROVE FALSE
      OBVIOUS
    <3>2. Len(outbox') = Len(outbox) + k /\ k \in Nat /\ k >= 1
      BY <1>0, <3>1, ChunksTyped
    <3> QED BY <1>0, <1>1, <3>2, Lengths
  <2>4. Answering'
    BY <1>0, <1>1, <2>2, <2>3 DEF AnswerInv, Answering, Delivered, current, Busy
  <2>5. AnswersInOrder'
    BY <1>1 DEF AnswerInv, AnswersInOrder
  <2> QED BY <2>1, <2>4, <2>5, PollComplete DEF AnswerInv
<1>2. CASE outbox' # outbox
  <2>1. PICK k \in 1..Unread : taken' = taken + k /\ outbox' = outbox \o Chunks(k)
    BY <1>0, <1>2, PollShape
  <2>2. Ordered' /\ Kept
    BY <1>0, <2>1, PollOrdered
  <2>3. AnswersInOrder'
    BY <1>0, <2>2, InOrderIffNext
  <2>4. Answering'
    BY <1>0, <2>1, PollAnswering
  <2> QED BY <2>2, <2>3, <2>4, PollComplete DEF AnswerInv
<1> QED BY <1>1, <1>2

LEMMA AnswerStep == AnswerInv /\ [Next]_vars => AnswerInv'
<1> SUFFICES ASSUME AnswerInv, [Next]_vars PROVE AnswerInv'
  OBVIOUS
<1>0. RedirectInv'
  BY RedirectStep DEF AnswerInv
<1>1. CASE ReceiveFromClient \/ SelectFails \/ RouteRequest
  <2>1. UNCHANGED exchange /\ outbox' = outbox /\ (pc' \in Busy => pc \in Busy)
    BY <1>1 DEF ReceiveFromClient, SelectFails, RouteRequest, CloseClient, Busy
  <2> QED BY <1>0, <2>1, QuietStep DEF exchange
<1>2. CASE ClientSends \/ ClientLeaves \/ TargetLeaves \/ Finished \/ UNCHANGED vars
  <2>1. UNCHANGED <<outbox, produced, ended, taken, pc>>
    BY <1>2 DEF ClientSends, ClientLeaves, TargetLeaves, Finished, vars, exchange
  <2> QED BY <1>0, <2>1, QuietStep
<1> QED BY <1>0, <1>1, <1>2, ConnectAnswers, SendAnswers, PollAnswers, ServiceAnswers
        DEF Next, Thread

LEMMA AnswerInit == Init => AnswerInv
<1> SUFFICES ASSUME Init PROVE AnswerInv
  OBVIOUS
<1>1. pc \in {"poll", "done"} /\ outbox = <<>> /\ ended = <<>>
  BY DEF Init
<1>2. Answering /\ AnswersInOrder /\ CompleteWhenClosed
  BY <1>1 DEF Answering, AnswersInOrder, CompleteWhenClosed, Busy
<1> QED BY <1>2, RedirectInit DEF AnswerInv

\* The client gets the answers in the order of its requests, each in one piece
\* from its first chunk on and without a gap, although the gateway opens a
\* connection of its own for every exchange.
THEOREM InOrderAnswers == Spec => []AnswersInOrder
<1>1. AnswerInv => AnswersInOrder
  BY DEF AnswerInv
<1> QED BY <1>1, AnswerInit, AnswerStep, PTL DEF Spec

\* When a service closed its end in order, all it sent has reached the client:
\* only the cap, a reset or an error cuts an answer short.
THEOREM AnswersComplete == Spec => []CompleteWhenClosed
<1>1. AnswerInv => CompleteWhenClosed
  BY DEF AnswerInv
<1> QED BY <1>1, AnswerInit, AnswerStep, PTL DEF Spec

-----------------------------------------------------------------------------
(* The route.                                                              *)

\* The route in hand is what the lookup returned for the request at the front
\* of the buffer, which the client cannot change any more.
Routed ==
    pc \in {"connect", "send"} =>
        /\ sent[input[1]] \in Requests \ {Fragment}
        /\ route = FindUri(sent[input[1]].path) /\ route # None

RouteInv == RedirectInv /\ Routed

LEMMA RoutedStep == RouteInv /\ [Next]_vars => RouteInv'
<1> SUFFICES ASSUME RouteInv, [Next]_vars PROVE RouteInv'
  OBVIOUS
<1>0. RedirectInv /\ RedirectInv' /\ TypeOK
  BY RedirectStep DEF RouteInv, RedirectInv
<1>1. CASE RouteRequest
  <2>1. CASE pc' \in {"connect", "send"}
    <3>1. /\ sent[input[1]] # Fragment /\ UNCHANGED <<sent, input>>
          /\ route' = FindUri(sent[input[1]].path) /\ route' # None
      BY <1>1, <2>1 DEF RouteRequest, CloseClient, client
    <3>2. sent[input[1]] \in Requests
      <4>1. pc = "route"
        BY <1>1 DEF RouteRequest
      <4>2. PICK f \in Nat, k \in Nat, n \in Nat :
               /\ f = Len(forwarded) /\ k = Len(input) /\ n = Len(sent)
               /\ k > 0 /\ f + k = read /\ read <= n
        BY <1>0, <4>1, Lengths DEF RedirectInv, Buffers, Holding
      <4>3. input[1] = f + 1
        <5>1. 1 \in 1..Len(input)
          BY <4>2
        <5> QED BY <1>0, <4>1, <4>2, <5>1 DEF RedirectInv, Buffers, Holding
      <4>4. input[1] \in 1..Len(sent)
        BY <4>2, <4>3
      <4> QED BY <1>0, <4>4, ElementOfSeq DEF TypeOK
    <3> QED BY <1>0, <3>1, <3>2 DEF RouteInv, Routed
  <2> QED BY <1>0, <2>1 DEF RouteInv, Routed
<1>2. CASE ClientSends
  <2>1. UNCHANGED <<pc, input, route>>
    BY <1>2 DEF ClientSends, request
  <2>2. CASE pc \in {"connect", "send"}
    <3>1. PICK f \in Nat, k \in Nat, n \in Nat :
               /\ f = Len(forwarded) /\ k = Len(input) /\ n = Len(sent)
               /\ k > 0 /\ f + k = read /\ read <= n
      BY <1>0, <2>2, Lengths DEF RedirectInv, Buffers, Holding
    <3>2. input[1] = f + 1
      <4>1. 1 \in 1..Len(input)
        BY <3>1
      <4> QED BY <1>0, <2>2, <3>1, <4>1 DEF RedirectInv, Buffers, Holding
    <3>3. input[1] \in 1..Len(sent)
      BY <3>1, <3>2
    <3>4. PICK r \in Requests : sent' = Append(sent, r)
      BY <1>2 DEF ClientSends
    <3>5. \A i \in 1..Len(sent) : Append(sent, r)[i] = sent[i]
      <4>1. sent \in Seq(Requests)
        BY <1>0 DEF TypeOK
      <4> QED BY <4>1, AppendProperties
    <3>6. sent'[input[1]] = sent[input[1]]
      BY <3>3, <3>4, <3>5
    <3> QED BY <1>0, <2>1, <3>6 DEF RouteInv, Routed
  <2> QED BY <1>0, <2>1, <2>2 DEF RouteInv, Routed
<1>3. CASE ConnectTarget
  <2>1. pc = "connect" /\ UNCHANGED <<input, route, sent>>
    BY <1>3 DEF ConnectTarget, CloseClient, request, client
  <2> QED BY <1>0, <2>1 DEF RouteInv, Routed
<1>4. CASE ReceiveFromClient \/ SendRequest \/ PollTarget
  <2>1. pc' \notin {"connect", "send"}
    <3>1. CASE PollTarget
      BY <1>0, <3>1, PollShape DEF PollEnds
    <3> QED BY <1>4, <3>1 DEF ReceiveFromClient, SendRequest, CloseClient
  <2> QED BY <1>0, <2>1 DEF RouteInv, Routed
<1>5. CASE SelectFails \/ ClientLeaves \/ TargetAnswers \/ TargetLeaves \/ Finished \/ UNCHANGED vars
  <2>1. UNCHANGED <<pc, input, route, sent>>
    BY <1>5 DEF SelectFails, ClientLeaves, TargetAnswers, TargetLeaves, Finished, vars, request, client
  <2> QED BY <1>0, <2>1 DEF RouteInv, Routed
<1> QED BY <1>1, <1>2, <1>3, <1>4, <1>5 DEF Next, Thread

\* IsPrefixOf compares characters; the property speaks of front parts of the
\* path.  They say the same.
LEMMA PrefixIsFront ==
    ASSUME NEW path \in Seq(Nat), NEW u \in UriMap
    PROVE  IsPrefixOf(u, path) <=> \E n \in 0..Len(path) : u = SubSeq(path, 1, n)
<1>1. u \in Seq(Nat) /\ Len(u) \in Nat /\ Len(path) \in Nat /\ u \in [1..Len(u) -> Nat]
      /\ \A i \in 1..Len(path) : path[i] \in Nat
  BY UriMapAssumption, LenProperties, ElementOfSeq
<1>2. ASSUME NEW n \in 0..Len(path)
      PROVE  /\ SubSeq(path, 1, n) \in Seq(Nat) /\ Len(SubSeq(path, 1, n)) = n
             /\ \A i \in 1..n : SubSeq(path, 1, n)[i] = path[i]
  <2>1. PICK p \in Nat : p = Len(path)
    BY <1>1
  <2>2. n \in Nat /\ n <= p
    BY <2>1
  <2>3. \A i \in 1..n : path[i] \in Nat
    BY <1>1, <2>1, <2>2
  <2>4. /\ SubSeq(path, 1, n) \in Seq(Nat)
        /\ Len(SubSeq(path, 1, n)) = IF 1 <= n THEN n - 1 + 1 ELSE 0
        /\ \A i \in 1..(n - 1 + 1) : SubSeq(path, 1, n)[i] = path[1 + i - 1]
    BY <2>2, <2>3, SubSeqProperties
  <2> QED BY <2>2, <2>4
<1>3. ASSUME IsPrefixOf(u, path) PROVE \E n \in 0..Len(path) : u = SubSeq(path, 1, n)
  <2>1. Len(u) \in 0..Len(path) /\ \A i \in 1..Len(u) : u[i] = path[i]
    BY <1>1, <1>3 DEF IsPrefixOf
  <2>2. /\ SubSeq(path, 1, Len(u)) \in Seq(Nat) /\ Len(SubSeq(path, 1, Len(u))) = Len(u)
        /\ \A i \in 1..Len(u) : SubSeq(path, 1, Len(u))[i] = path[i]
    BY <1>2, <2>1
  <2>3. SubSeq(path, 1, Len(u)) \in [1..Len(u) -> Nat]
    BY <2>2, LenProperties
  <2>4. u = SubSeq(path, 1, Len(u))
    BY <1>1, <2>1, <2>2, <2>3
  <2> QED BY <2>1, <2>4
<1>4. ASSUME NEW n \in 0..Len(path), u = SubSeq(path, 1, n) PROVE IsPrefixOf(u, path)
  <2>1. Len(u) = n /\ n <= Len(path) /\ \A i \in 1..n : u[i] = path[i]
    BY <1>1, <1>2, <1>4
  <2> QED BY <2>1 DEF IsPrefixOf
<1> QED BY <1>3, <1>4

LEMMA RoutedIsShortest == RouteInv => ShortestUri
<1> SUFFICES ASSUME RouteInv, pc \in {"connect", "send"} PROVE ShortestUri
  BY DEF ShortestUri
<1> DEFINE path == sent[input[1]].path
           hits == {u \in UriMap : \E n \in 0..Len(path) : u = SubSeq(path, 1, n)}
<1>1. path \in Seq(Nat) /\ route = FindUri(path) /\ route # None
  BY RequestsAssumption DEF RouteInv, Routed
<1>2. hits = Matching(path)
  <2> HIDE DEF path
  <2>1. \A u \in UriMap : IsPrefixOf(u, path) <=> \E n \in 0..Len(path) : u = SubSeq(path, 1, n)
    BY <1>1, PrefixIsFront
  <2> QED BY <2>1 DEF Matching
<1>3. IF hits = {} THEN route = Star
      ELSE route \in hits /\ \A u \in hits : Len(route) <= Len(u)
  <2> HIDE DEF path, hits
  <2>1. CASE hits = {}
    BY <1>1, <1>2, <2>1, FindUriIsShortest
  <2>2. CASE hits # {}
    BY <1>1, <1>2, <2>2, FindUriIsShortest
  <2> QED BY <2>1, <2>2
<1> QED BY <1>3 DEF ShortestUri

\* The order a std::map keeps its keys in makes the first match of the lookup
\* the shortest configured URI the path starts with, and the wildcard serves
\* only the paths that none of them matches.
THEOREM RoutesToShortest == Spec => []ShortestUri
<1>1. Init => RouteInv
  BY RedirectInit DEF RouteInv, Routed, Init
<1> QED BY <1>1, RoutedStep, RoutedIsShortest, PTL DEF Spec
=============================================================================
