----------------------- MODULE StreamPipeline_proofs -----------------------
(***************************************************************************)
(* Proofs about StreamPipeline, for any number of connections, any files   *)
(* and any limit.                                                          *)
(***************************************************************************)
EXTENDS StreamPipeline, TLAPS

-----------------------------------------------------------------------------
(* What a client sends: the handshake, the meta data, the chunks in order, *)
(* and at any point an EOF or some other packet, which is the last.        *)

One(type) == [type |-> type, seq |-> 0, part |-> "head"]
ChunkHead(j) == [type |-> FileChunk, seq |-> j, part |-> "head"]
ChunkTail(j) == [type |-> FileChunk, seq |-> j, part |-> "tail"]

\* The first m cells are whole packets in the order of the protocol.
Script(c, m) ==
    /\ m \in Nat /\ (m \in {0, 1} \/ \E k \in Nat : m = 2 * k + 2)
    /\ m >= 1 => sent[c][1] = One(HandshakePacket)
    /\ m >= 2 => sent[c][2] = One(FileMeta)
    /\ \A j \in Nat : j >= 1 /\ 2 * j + 2 <= m =>
          sent[c][2 * j + 1] = ChunkHead(j) /\ sent[c][2 * j + 2] = ChunkTail(j)

\* The packet that ends the conversation, behind m cells.
Last(c, m) ==
    /\ Len(sent[c]) = m + 1
    /\ \/ sent[c][m + 1] = One(Other)
       \/ sent[c][m + 1] = One(FileEOF) /\ m = 2 * total[c] + 2

Scripted == \A c \in Conns : \E m \in Nat : Script(c, m) /\ (Len(sent[c]) = m \/ Last(c, m))

-----------------------------------------------------------------------------
(* Where the thread is, by what it has acknowledged.                       *)

\* The acknowledgements a client has got, by the state of its thread, and what
\* it must have sent to get them.
AckedAt(c) ==
    /\ read[c] <= Len(sent[c])
    /\ pc[c] \in {"handshake", "ackHandshake"} => acks[c] = 0
    /\ pc[c] \in {"meta", "ackMeta"} => acks[c] = 1
    /\ pc[c] \in {"open", "receive", "ackEOF"} => acks[c] = 2
    /\ pc[c] \in {"returned", "escaped"} => acks[c] <= 2
    /\ pc[c] = "ackHandshake" \/ acks[c] >= 1 =>
          Len(sent[c]) >= 1 /\ sent[c][1] = One(HandshakePacket)
    /\ pc[c] = "ackMeta" \/ acks[c] >= 2 =>
          Len(sent[c]) >= 2 /\ sent[c][2] = One(FileMeta)

Acked == \A c \in Conns : AckedAt(c)

\* The stream of a thread that reads packet by packet is open in the loop only,
\* but for a chunk above the limit.
PastLimit(c) == \E i \in 1..read[c] : sent[c][i].seq > SeqLimit

OpenAt(c) == streamOpen[c] /\ pc[c] \notin {"receive", "crashed"} /\ aligned[c] => PastLimit(c)

OpenStream == \A c \in Conns : OpenAt(c)

-----------------------------------------------------------------------------
(* What is in the file.                                                    *)

PieceOf(c, i) == [conn |-> c, seq |-> i, whole |-> TRUE]

\* The pieces first + 1 to last of c.
Pieces(c, first, last) == [i \in 1..(last - first) |-> PieceOf(c, first + i)]

\* A thread that has read packet by packet has transferred one chunk for every
\* two cells behind the first two, and while nobody else touches the file and no
\* write fails its stream has put all of them there, but for those in its buffer.
StreamAt(c) ==
    /\ pos[c] <= transferred[c]
    /\ buffered[c] = Pieces(c, pos[c], transferred[c])
    /\ alone[c] => file = Pieces(c, 0, pos[c])

InLoop(c) ==
    /\ read[c] = 2 * transferred[c] + 2
    /\ ~ lost[c] => StreamAt(c)

Complete(c) ==
    /\ ~ streamOpen[c]
    /\ transferred[c] = total[c]
    /\ alone[c] /\ ~ lost[c] => file = Pieces(c, 0, total[c])

FaithfulAt(c) ==
    /\ pc[c] = "handshake" => read[c] = 0
    /\ pc[c] \in {"ackHandshake", "meta"} => read[c] = 1
    /\ pc[c] \in {"ackMeta", "open"} => read[c] = 2
    /\ pc[c] = "receive" => InLoop(c)
    /\ pc[c] = "ackEOF" \/ acks[c] = 3 => Complete(c)
    /\ acks[c] = 3 => pc[c] \in {"close", "done", "crashed"} /\ ~ mismatch[c]

Faithful == \A c \in Conns : aligned[c] => FaithfulAt(c)

\* Before its fopen a thread has written nothing.
FreshAt(c) ==
    /\ pc[c] \in {"handshake", "ackHandshake", "meta", "ackMeta", "open"} =>
          /\ transferred[c] = 0 /\ pos[c] = 0 /\ buffered[c] = <<>>
          /\ ~ streamOpen[c] /\ ~ alone[c]
    /\ acks[c] < 3 => ~ mismatch[c]

Fresh == \A c \in Conns : FreshAt(c)

-----------------------------------------------------------------------------
(* Type correctness.                                                       *)

LEMMA TakeTyped ==
    ASSUME TypeOK, Acked, NEW c \in Conns, NEW k \in Reads(c), Take(c, k)
    PROVE  /\ link[c] # "rst" /\ k \in Nat /\ k >= 1 /\ read[c] + k <= Len(sent[c])
           /\ read' \in [Conns -> Nat] /\ read'[c] = read[c] + k
           /\ aligned' \in [Conns -> BOOLEAN]
           /\ aligned'[c] => aligned[c] /\ k = OnePacket(c)
           /\ \A d \in Conns : d # c => read'[d] = read[d] /\ aligned'[d] = aligned[d]
           /\ First(c) \in Cell /\ read[c] + 1 \in 1..Len(sent[c])
<1>1. /\ read \in [Conns -> Nat] /\ sent[c] \in Seq(Cell) /\ Len(sent[c]) \in Nat
      /\ read[c] <= Len(sent[c]) /\ aligned \in [Conns -> BOOLEAN]
  BY DEF TypeOK, Acked, AckedAt
<1>2. link[c] # "rst" /\ k \in 1..(Len(sent[c]) - read[c])
  BY <1>1 DEF Reads, Arrived
<1>3. k \in Nat /\ k >= 1 /\ read[c] + k <= Len(sent[c]) /\ read[c] + 1 \in 1..Len(sent[c])
  BY <1>1, <1>2
<1>4. First(c) \in Cell
  BY <1>1, <1>3 DEF First
<1>5. /\ read' \in [Conns -> Nat] /\ read'[c] = read[c] + k
      /\ \A d \in Conns : d # c => read'[d] = read[d]
  BY <1>1, <1>3 DEF Take
<1>6. /\ aligned' \in [Conns -> BOOLEAN]
      /\ aligned'[c] => aligned[c] /\ k = OnePacket(c)
      /\ \A d \in Conns : d # c => aligned'[d] = aligned[d]
  BY <1>1 DEF Take
<1> QED BY <1>2, <1>3, <1>4, <1>5, <1>6

LEMMA ChunkTyped ==
    ASSUME NEW c \in Conns, NEW k \in Nat, k >= 1, First(c) \in Cell, NEW chunk \in ChunkIn(c, k)
    PROVE  chunk.pieces \in Seq(Piece) /\ chunk.seq \in Nat
<1>1. First(c).seq \in Nat /\ First(c).part \in {"head", "tail"} /\ SeqLimit + 1 \in Nat
  BY StreamAssumption DEF Cell
<1>2. /\ Garbage \in Piece
      /\ \A w \in BOOLEAN : [conn |-> c, seq |-> First(c).seq, whole |-> w] \in Piece
  BY <1>1 DEF Piece, Garbage, None
<1> DEFINE Typed(x) == x.pieces \in Seq(Piece) /\ x.seq \in Nat
<1>3. ASSUME NEW n \in Nat, NEW e \in Piece
      PROVE  Typed([seq |-> n, pieces |-> <<e>>]) /\ Typed([seq |-> n, pieces |-> <<>>])
  OBVIOUS
<1> HIDE DEF Typed
<1>4. CASE First(c).part = "tail"
  <2>1. \E n \in {0, SeqLimit + 1} : chunk = [seq |-> n, pieces |-> <<Garbage>>]
    BY <1>4 DEF ChunkIn
  <2>2. Typed(chunk)
    BY <1>1, <1>2, <1>3, <2>1
  <2> QED BY <2>2 DEF Typed
<1>5. CASE First(c).part = "head"
  <2>1. \/ \E w \in BOOLEAN :
              chunk = [seq |-> First(c).seq,
                       pieces |-> <<[conn |-> c, seq |-> First(c).seq, whole |-> w]>>]
        \/ chunk = [seq |-> First(c).seq, pieces |-> <<>>]
        \/ chunk = [seq |-> 0, pieces |-> <<>>]
    <3>1. k > 1 \/ k = 1
      OBVIOUS
    <3> QED BY <1>5, <3>1 DEF ChunkIn
  <2>2. Typed(chunk)
    BY <1>1, <1>2, <1>3, <2>1
  <2> QED BY <2>2 DEF Typed
<1> QED BY <1>1, <1>4, <1>5

LEMMA WrittenTyped ==
    ASSUME TypeOK, NEW c \in Conns, NEW pieces \in Seq(Piece)
    PROVE  Written(c, pieces) \in Seq(Piece)
<1> DEFINE end == pos[c] + Len(pieces)
           n == IF end > Len(file) THEN end ELSE Len(file)
           P(i) == CASE i > pos[c] /\ i <= end -> pieces[i - pos[c]]
                     [] i <= pos[c] /\ i > Len(file) -> Hole
                     [] OTHER -> file[i]
<1>1. pos[c] \in Nat /\ Len(pieces) \in Nat /\ file \in Seq(Piece) /\ Len(file) \in Nat
  BY DEF TypeOK
<1>2. end \in Nat /\ n \in Nat
  BY <1>1
<1>3. ASSUME NEW i \in 1..n PROVE P(i) \in Piece
  <2>1. CASE i > pos[c] /\ i <= end
    <3>1. i - pos[c] \in 1..Len(pieces)
      BY <1>1, <1>2, <2>1
    <3>2. pieces[i - pos[c]] \in Piece
      BY <3>1
    <3>3. P(i) = pieces[i - pos[c]]
      BY <1>1, <1>2, <2>1
    <3> HIDE DEF P
    <3> QED BY <3>2, <3>3
  <2>2. CASE ~(i > pos[c] /\ i <= end) /\ i <= pos[c] /\ i > Len(file)
    BY <1>1, <1>2, <2>2 DEF Hole, Piece, None
  <2>3. CASE ~(i > pos[c] /\ i <= end) /\ ~(i <= pos[c] /\ i > Len(file))
    <3>1. i \in 1..Len(file)
      BY <1>1, <1>2, <2>3
    <3>2. file[i] \in Piece
      BY <1>1, <3>1
    <3> QED BY <2>3, <3>2
  <2> QED BY <2>1, <2>2, <2>3
<1>4. Written(c, pieces) = [i \in 1..n |-> P(i)]
  BY DEF Written
<1> HIDE DEF P, n
<1> QED BY <1>2, <1>3, <1>4

LEMMA FlushTyped ==
    ASSUME TypeOK, NEW c \in Conns, NEW pieces \in Seq(Piece), Flush(c, pieces)
    PROVE  /\ file' \in Seq(Piece) /\ pos' \in [Conns -> Nat]
           /\ buffered' \in [Conns -> Seq(Piece)] /\ alone' \in [Conns -> BOOLEAN]
           /\ lost' \in [Conns -> BOOLEAN]
<1>1. file' \in Seq(Piece)
  <2>1. file \in Seq(Piece) /\ Written(c, pieces) \in Seq(Piece)
    BY WrittenTyped DEF TypeOK
  <2>2. file' = file \/ file' = Written(c, pieces)
    BY DEF Flush
  <2> QED BY <2>1, <2>2
<1>2. pos' \in [Conns -> Nat]
  <2>1. pos[c] + Len(pieces) \in Nat
    BY DEF TypeOK
  <2> QED BY <2>1 DEF Flush, TypeOK
<1>3. buffered' \in [Conns -> Seq(Piece)]
  BY DEF Flush, TypeOK
<1>4. alone' \in [Conns -> BOOLEAN] /\ lost' \in [Conns -> BOOLEAN]
  BY DEF Flush, TypeOK
<1> QED BY <1>1, <1>2, <1>3, <1>4

LEMMA GetRequestTyped ==
    ASSUME TypeOK, Acked, NEW c \in Conns, NEW expected, NEW next \in Labels,
           GetRequest(c, expected, next)
    PROVE  TypeOK'
<1>1. UNCHANGED <<peer, acks, stream, socketOpen, mismatch>>
  BY DEF GetRequest
<1>2. \/ \E k \in Reads(c) : Take(c, k)
      \/ UNCHANGED input
  BY DEF GetRequest
<1>3. read' \in [Conns -> Nat] /\ aligned' \in [Conns -> BOOLEAN]
  BY <1>2, TakeTyped DEF TypeOK, input
<1>4. pc' \in [Conns -> Labels]
  BY DEF GetRequest, GoesTo, TypeOK, Labels
<1> QED BY <1>1, <1>3, <1>4 DEF TypeOK, peer, stream

LEMMA AcknowledgeTyped ==
    ASSUME TypeOK, NEW c \in Conns, acks[c] <= 2, NEW next \in Labels,
           \/ Acknowledge(c, next)
           \/ AckEOF(c)
    PROVE  TypeOK'
<1>1. acks' \in [Conns -> 0..3]
  <2>1. acks[c] \in 0..3
    BY DEF TypeOK
  <2>2. acks[c] + 1 \in 0..3
    BY <2>1
  <2> QED BY <2>2 DEF Acknowledge, AckEOF, TypeOK
<1>2. pc' \in [Conns -> Labels]
  BY DEF Acknowledge, AckEOF, GoesTo, TypeOK, Labels
<1>3. mismatch' \in [Conns -> BOOLEAN]
  BY DEF Acknowledge, AckEOF, TypeOK
<1>4. UNCHANGED <<peer, input, stream, socketOpen>>
  BY DEF Acknowledge, AckEOF
<1> QED BY <1>1, <1>2, <1>3, <1>4 DEF TypeOK, peer, input, stream

LEMMA ReceiveChunkTyped ==
    ASSUME TypeOK, Acked, NEW c \in Conns, ReceiveChunk(c)
    PROVE  TypeOK'
<1>1. UNCHANGED <<peer, acks, socketOpen, mismatch>>
  BY DEF ReceiveChunk
<1>2. read' \in [Conns -> Nat] /\ aligned' \in [Conns -> BOOLEAN]
  <2>1. (\E k \in Reads(c) : Take(c, k)) \/ UNCHANGED input
    BY DEF ReceiveChunk
  <2> QED BY <2>1, TakeTyped DEF TypeOK, input
<1>3. SUFFICES /\ pc' \in [Conns -> Labels] /\ transferred' \in [Conns -> Nat]
               /\ file' \in Seq(Piece) /\ pos' \in [Conns -> Nat]
               /\ buffered' \in [Conns -> Seq(Piece)] /\ alone' \in [Conns -> BOOLEAN]
               /\ streamOpen' \in [Conns -> BOOLEAN] /\ lost' \in [Conns -> BOOLEAN]
  BY <1>1, <1>2 DEF TypeOK, peer
<1>4. ASSUME NEW next \in Labels, CloseFile(c, next)
      PROVE  /\ pc' \in [Conns -> Labels] /\ transferred' \in [Conns -> Nat]
             /\ file' \in Seq(Piece) /\ pos' \in [Conns -> Nat]
             /\ buffered' \in [Conns -> Seq(Piece)] /\ alone' \in [Conns -> BOOLEAN]
             /\ streamOpen' \in [Conns -> BOOLEAN] /\ lost' \in [Conns -> BOOLEAN]
  <2>1. buffered[c] \in Seq(Piece) /\ Flush(c, buffered[c])
    BY <1>4 DEF CloseFile, TypeOK
  <2>2. /\ file' \in Seq(Piece) /\ pos' \in [Conns -> Nat]
        /\ buffered' \in [Conns -> Seq(Piece)] /\ alone' \in [Conns -> BOOLEAN]
        /\ lost' \in [Conns -> BOOLEAN]
    BY <2>1, FlushTyped
  <2> QED BY <1>4, <2>2 DEF CloseFile, GoesTo, TypeOK
<1>5. CASE UNCHANGED stream /\ GoesTo(c, "close")
  BY <1>5 DEF stream, GoesTo, TypeOK, Labels
<1>6. ASSUME NEW k \in Reads(c), Take(c, k), NEW chunk \in ChunkIn(c, k),
             WriteChunk(c, chunk.pieces)
      PROVE  /\ pc' \in [Conns -> Labels] /\ transferred' \in [Conns -> Nat]
             /\ file' \in Seq(Piece) /\ pos' \in [Conns -> Nat]
             /\ buffered' \in [Conns -> Seq(Piece)] /\ alone' \in [Conns -> BOOLEAN]
             /\ streamOpen' \in [Conns -> BOOLEAN] /\ lost' \in [Conns -> BOOLEAN]
  <2> DEFINE pieces == buffered[c] \o chunk.pieces
  <2>0. chunk.pieces \in Seq(Piece) /\ Len(chunk.pieces) \in Nat
    BY <1>6, TakeTyped, ChunkTyped
  <2>1. pieces \in Seq(Piece)
    BY <2>0 DEF TypeOK
  <2>2. transferred' \in [Conns -> Nat] /\ UNCHANGED <<pc, streamOpen>>
    BY <1>6, <2>0 DEF WriteChunk, TypeOK
  <2>3. \/ /\ buffered' = [buffered EXCEPT ![c] = pieces]
           /\ UNCHANGED <<file, pos, alone, lost>>
        \/ Flush(c, pieces)
    BY <1>6 DEF WriteChunk
  <2> HIDE DEF pieces
  <2>4. /\ file' \in Seq(Piece) /\ pos' \in [Conns -> Nat]
        /\ buffered' \in [Conns -> Seq(Piece)] /\ alone' \in [Conns -> BOOLEAN]
        /\ lost' \in [Conns -> BOOLEAN]
    <3>1. CASE /\ buffered' = [buffered EXCEPT ![c] = pieces]
               /\ UNCHANGED <<file, pos, alone, lost>>
      BY <2>1, <3>1 DEF TypeOK
    <3>2. CASE Flush(c, pieces)
      BY <2>1, <3>2, FlushTyped
    <3> QED BY <2>3, <3>1, <3>2
  <2> QED BY <2>2, <2>4 DEF TypeOK
<1> QED BY <1>4, <1>5, <1>6 DEF ReceiveChunk, Labels

LEMMA PacketTyped ==
    ASSUME NEW type \in {Other, HandshakePacket, FileMeta, FileChunk, FileEOF}, NEW n \in Nat
    PROVE  Packet(type, n) \in Seq(Cell)
<1>1. /\ [type |-> type, seq |-> n, part |-> "head"] \in Cell
      /\ [type |-> type, seq |-> n, part |-> "tail"] \in Cell
  BY DEF Cell
<1> QED BY <1>1 DEF Packet

-----------------------------------------------------------------------------
(* What the client sends next.                                             *)

LEMMA LastChunkOf ==
    ASSUME TypeOK, NEW c \in Conns, NEW k \in Nat, Script(c, 2 * k + 2),
           Len(sent[c]) = 2 * k + 2
    PROVE  LastChunk(c) = k
<1>1. DOMAIN sent[c] = 1..(2 * k + 2)
  BY DEF TypeOK
<1>2. CASE k = 0
  <2>1. \A i \in 1..2 : sent[c][i].type # FileChunk
    BY <1>2 DEF Script, One, FileChunk, HandshakePacket, FileMeta
  <2>2. Chunks(c) = {}
    BY <1>1, <1>2, <2>1 DEF Chunks
  <2> QED BY <1>2, <2>2 DEF LastChunk
<1>3. CASE k # 0
  <2>1. sent[c][2 * k + 1] = ChunkHead(k) /\ sent[c][2 * k + 2] = ChunkTail(k)
    BY <1>3 DEF Script
  <2>2. 2 * k + 1 \in Chunks(c) /\ 2 * k + 2 \notin Chunks(c)
    BY <1>1, <2>1 DEF Chunks, ChunkHead, ChunkTail
  <2>3. \A j \in Chunks(c) : j \in Int /\ j <= 2 * k + 1
    BY <1>1, <2>2 DEF Chunks
  <2> DEFINE top == CHOOSE i \in Chunks(c) : \A j \in Chunks(c) : j <= i
  <2>4. top \in Chunks(c) /\ \A j \in Chunks(c) : j <= top
    BY <2>2, <2>3
  <2> HIDE DEF top
  <2>5. top = 2 * k + 1
    BY <2>2, <2>3, <2>4
  <2>6. LastChunk(c) = sent[c][top].seq
    BY <2>2 DEF LastChunk, top
  <2> QED BY <2>1, <2>5, <2>6 DEF ChunkHead
<1> QED BY <1>2, <1>3

LEMMA NoChunkYet ==
    ASSUME TypeOK, NEW c \in Conns, NEW m \in {0, 1}, Script(c, m), Len(sent[c]) = m
    PROVE  LastChunk(c) = 0
<1>1. DOMAIN sent[c] = 1..m
  BY DEF TypeOK
<1>2. \A i \in 1..m : sent[c][i].type # FileChunk
  BY DEF Script, One, FileChunk, HandshakePacket
<1>3. Chunks(c) = {}
  BY <1>1, <1>2 DEF Chunks
<1> QED BY <1>3 DEF LastChunk

\* A client that has not ended its conversation has sent whole packets.
LEMMA NotDone ==
    ASSUME TypeOK, Scripted, NEW c \in Conns, ~ Done(c)
    PROVE  Script(c, Len(sent[c])) /\ LastChunk(c) \in Nat
<1>1. PICK m \in Nat : Script(c, m) /\ (Len(sent[c]) = m \/ Last(c, m))
  BY DEF Scripted
<1>2. DOMAIN sent[c] = 1..Len(sent[c])
  BY DEF TypeOK
<1>3. ~ Last(c, m)
  <2>1. SUFFICES ASSUME Last(c, m) PROVE FALSE
    OBVIOUS
  <2>2. m + 1 \in DOMAIN sent[c] /\ sent[c][m + 1].type \in {FileEOF, Other}
    BY <1>2, <2>1 DEF Last, One
  <2> QED BY <2>2 DEF Done
<1>4. Len(sent[c]) = m
  BY <1>1, <1>3
<1>5. CASE m \in {0, 1}
  <2>1. LastChunk(c) = 0
    BY <1>1, <1>4, <1>5, NoChunkYet
  <2> QED BY <1>1, <1>4, <2>1
<1>6. CASE m \notin {0, 1}
  <2>1. PICK k \in Nat : m = 2 * k + 2
    BY <1>1, <1>6 DEF Script
  <2> QED BY <1>1, <1>4, <2>1, LastChunkOf
<1> QED BY <1>5, <1>6

\* What was sent stays; more may come behind it.
Grows ==
    \A d \in Conns : /\ Len(sent[d]) <= Len(sent'[d])
                     /\ \A i \in 1..Len(sent[d]) : sent'[d][i] = sent[d][i]

LEMMA Appended ==
    ASSUME NEW S, NEW s \in Seq(S), NEW t \in Seq(S)
    PROVE  /\ s \o t \in Seq(S) /\ Len(s \o t) = Len(s) + Len(t) /\ Len(t) \in Nat
           /\ \A i \in 1..Len(s) : (s \o t)[i] = s[i]
           /\ \A i \in 1..Len(t) : (s \o t)[Len(s) + i] = t[i]
OBVIOUS

LEMMA ClientSendsTyped ==
    ASSUME TypeOK, Scripted, NEW c \in Conns, ClientSends(c)
    PROVE  TypeOK' /\ Grows
<1>1. PICK type \in {HandshakePacket, FileMeta, FileChunk, FileEOF, Other} :
         sent' = [sent EXCEPT ![c] =
            @ \o Packet(type, IF type = FileChunk THEN LastChunk(c) + 1 ELSE 0)]
  BY DEF ClientSends
<1> DEFINE pk == Packet(type, IF type = FileChunk THEN LastChunk(c) + 1 ELSE 0)
<1>2. pk \in Seq(Cell)
  <2>1. LastChunk(c) \in Nat
    BY NotDone DEF ClientSends
  <2>2. (IF type = FileChunk THEN LastChunk(c) + 1 ELSE 0) \in Nat
    BY <2>1
  <2> QED BY <2>2, PacketTyped
<1>3. sent' = [sent EXCEPT ![c] = sent[c] \o pk]
  BY <1>1
<1> HIDE DEF pk
<1>4. sent \in [Conns -> Seq(Cell)]
  BY DEF TypeOK
<1>5. /\ sent[c] \o pk \in Seq(Cell) /\ Len(sent[c]) <= Len(sent[c] \o pk)
      /\ \A i \in 1..Len(sent[c]) : (sent[c] \o pk)[i] = sent[c][i]
  BY <1>2, <1>4, Appended
<1>6. sent' \in [Conns -> Seq(Cell)] /\ sent'[c] = sent[c] \o pk
  BY <1>3, <1>4, <1>5
<1>7. \A d \in Conns : d # c => sent'[d] = sent[d]
  BY <1>3, <1>4
<1>8. Grows
  <2>1. SUFFICES ASSUME NEW d \in Conns
                 PROVE  /\ Len(sent[d]) <= Len(sent'[d])
                        /\ \A i \in 1..Len(sent[d]) : sent'[d][i] = sent[d][i]
    BY DEF Grows
  <2>2. CASE d = c
    BY <2>2, <1>5, <1>6
  <2>3. CASE d # c
    BY <2>3, <1>4, <1>7
  <2> QED BY <2>2, <2>3
<1>9. UNCHANGED <<pc, link, total, input, acks, stream, socketOpen, mismatch>>
  BY DEF ClientSends
<1> QED BY <1>6, <1>8, <1>9 DEF TypeOK, input, stream

\* A step leaves alone what the client sent, or adds to it.
LEMMA TypeStep ==
    ASSUME TypeOK, Acked, Scripted, [Next]_vars
    PROVE  TypeOK' /\ Grows
<1> USE DEF Labels
<1>1. ASSUME UNCHANGED sent, TypeOK' PROVE TypeOK' /\ Grows
  BY <1>1 DEF TypeOK, Grows
<1>2. CASE UNCHANGED vars
  <2>1. UNCHANGED <<pc, link, total, sent, read, acks, transferred, buffered, pos, streamOpen,
                    socketOpen, file, alone, lost, aligned, mismatch>>
    BY <1>2 DEF vars, peer, input, stream
  <2>2. TypeOK'
    BY <2>1 DEF TypeOK
  <2> QED BY <1>1, <2>1, <2>2
<1>3. ASSUME NEW c \in Conns, Thread(c) PROVE TypeOK' /\ Grows
  <2>1. CASE ReceiveHandshake(c)
    BY <2>1, <1>1, GetRequestTyped DEF ReceiveHandshake, GetRequest, peer
  <2>2. CASE AckHandshake(c)
    <3>1. acks[c] <= 2
      BY <2>2 DEF AckHandshake, Acked, AckedAt
    <3> QED BY <2>2, <3>1, <1>1, AcknowledgeTyped DEF AckHandshake, Acknowledge, peer
  <2>3. CASE ReceiveMeta(c)
    BY <2>3, <1>1, GetRequestTyped DEF ReceiveMeta, GetRequest, peer
  <2>4. CASE AckMeta(c)
    <3>1. acks[c] <= 2
      BY <2>4 DEF AckMeta, Acked, AckedAt
    <3> QED BY <2>4, <3>1, <1>1, AcknowledgeTyped DEF AckMeta, Acknowledge, peer
  <2>5. CASE OpenFile(c)
    <3>1. /\ pc' = [pc EXCEPT ![c] = "receive"]
          /\ UNCHANGED <<peer, input, acks, transferred, buffered, pos, lost, socketOpen, mismatch>>
      BY <2>5 DEF OpenFile, GoesTo
    <3>2. pc' \in [Conns -> Labels] /\ UNCHANGED peer
      BY <3>1 DEF TypeOK, Labels
    <3>3. file' \in Seq(Piece)
      <4>1. <<>> \in Seq(Piece) /\ file \in Seq(Piece)
        BY DEF TypeOK
      <4> QED BY <2>5, <4>1 DEF OpenFile
    <3>4. streamOpen' \in [Conns -> BOOLEAN] /\ alone' \in [Conns -> BOOLEAN]
      BY <2>5 DEF OpenFile, TypeOK
    <3> QED BY <3>1, <3>2, <3>3, <3>4, <1>1 DEF peer, input, TypeOK
  <2>6. CASE ReceiveChunk(c)
    BY <2>6, <1>1, ReceiveChunkTyped DEF ReceiveChunk, peer
  <2>7. CASE AckEOF(c)
    <3>1. acks[c] <= 2
      BY <2>7 DEF AckEOF, Acked, AckedAt
    <3> QED BY <2>7, <3>1, <1>1, AcknowledgeTyped DEF AckEOF, peer
  <2>8. CASE CloseSocket(c)
    BY <2>8, <1>1 DEF CloseSocket, GoesTo, peer, input, stream, TypeOK
  <2> QED BY <1>3, <2>1, <2>2, <2>3, <2>4, <2>5, <2>6, <2>7, <2>8 DEF Thread
<1>4. ASSUME NEW c \in Conns, ClientLeaves(c) PROVE TypeOK' /\ Grows
  <2>1. link' \in [Conns -> {"up", "fin", "rst"}]
    BY <1>4 DEF ClientLeaves, TypeOK
  <2> QED BY <1>4, <2>1, <1>1 DEF ClientLeaves, input, stream, TypeOK
<1>5. ASSUME NEW c \in Conns, NullStream(c) PROVE TypeOK' /\ Grows
  BY <1>5, <1>1 DEF NullStream, peer, input, stream, TypeOK
<1> QED BY <1>2, <1>3, <1>4, <1>5, ClientSendsTyped DEF Next, Ended, Spins

LEMMA WhoSends ==
    ASSUME [Next]_vars
    PROVE  UNCHANGED total /\ (UNCHANGED sent \/ \E c \in Conns : ClientSends(c))
<1>1. CASE UNCHANGED vars
  BY <1>1 DEF vars, peer
<1>2. ASSUME NEW c \in Conns, Thread(c) PROVE UNCHANGED <<total, sent>>
  <2>1. ReceiveHandshake(c) \/ ReceiveMeta(c) => UNCHANGED <<total, sent>>
    BY DEF ReceiveHandshake, ReceiveMeta, GetRequest, peer
  <2>2. AckHandshake(c) \/ AckMeta(c) \/ AckEOF(c) => UNCHANGED <<total, sent>>
    BY DEF AckHandshake, AckMeta, AckEOF, Acknowledge, peer
  <2>3. OpenFile(c) \/ ReceiveChunk(c) \/ CloseSocket(c) => UNCHANGED <<total, sent>>
    BY DEF OpenFile, ReceiveChunk, CloseSocket, peer
  <2> QED BY <1>2, <2>1, <2>2, <2>3 DEF Thread
<1>3. ASSUME NEW c \in Conns, ClientSends(c) PROVE UNCHANGED total
  BY <1>3 DEF ClientSends
<1>4. ASSUME NEW c \in Conns, ClientLeaves(c) PROVE UNCHANGED <<total, sent>>
  BY <1>4 DEF ClientLeaves
<1>5. ASSUME NEW c \in Conns, NullStream(c) PROVE UNCHANGED <<total, sent>>
  BY <1>5 DEF NullStream, peer
<1>6. CASE Next
  <2>1. CASE Ended \/ Spins
    BY <1>1, <2>1 DEF Ended, Spins
  <2>2. CASE \E c \in Conns : Thread(c) \/ NullStream(c) \/ ClientSends(c) \/ ClientLeaves(c)
    BY <1>2, <1>3, <1>4, <1>5, <2>2
  <2> QED BY <1>6, <2>1, <2>2 DEF Next
<1> QED BY <1>1, <1>6

LEMMA ScriptKept ==
    ASSUME Grows, NEW c \in Conns, NEW m \in Nat, Script(c, m), sent[c] \in Seq(Cell),
           m <= Len(sent[c])
    PROVE  Script(c, m)'
<1>1. Len(sent[c]) \in Nat
  OBVIOUS
<1>2. \A i \in 1..m : sent'[c][i] = sent[c][i]
  BY <1>1 DEF Grows
<1>3. /\ m >= 1 => sent'[c][1] = One(HandshakePacket)
      /\ m >= 2 => sent'[c][2] = One(FileMeta)
  <2>1. /\ m >= 1 => sent[c][1] = One(HandshakePacket)
        /\ m >= 2 => sent[c][2] = One(FileMeta)
    BY DEF Script
  <2>2. m >= 1 => 1 \in 1..m
    OBVIOUS
  <2>3. m >= 2 => 2 \in 1..m
    OBVIOUS
  <2>4. m >= 1 => sent'[c][1] = sent[c][1]
    BY <1>2, <2>2
  <2>5. m >= 2 => sent'[c][2] = sent[c][2]
    BY <1>2, <2>3
  <2> QED BY <2>1, <2>4, <2>5
<1>4. ASSUME NEW j \in Nat, j >= 1, 2 * j + 2 <= m
      PROVE  sent'[c][2 * j + 1] = ChunkHead(j) /\ sent'[c][2 * j + 2] = ChunkTail(j)
  <2>1. 2 * j + 1 \in 1..m /\ 2 * j + 2 \in 1..m
    BY <1>4
  <2>2. sent[c][2 * j + 1] = ChunkHead(j) /\ sent[c][2 * j + 2] = ChunkTail(j)
    BY <1>4 DEF Script
  <2> QED BY <1>2, <2>1, <2>2
<1> QED BY <1>3, <1>4 DEF Script

LEMMA ScriptGrows ==
    ASSUME TypeOK, Acked, Scripted, NEW c \in Conns, ClientSends(c)
    PROVE  \E m \in Nat : Script(c, m)' /\ (Len(sent'[c]) = m \/ Last(c, m)')
<1>1. PICK m \in Nat : m = Len(sent[c])
  BY DEF TypeOK
<1>2. sent[c] \in Seq(Cell) /\ Grows
  BY ClientSendsTyped DEF TypeOK
<1>3. Script(c, m) /\ LastChunk(c) \in Nat
  BY <1>1, NotDone DEF ClientSends
<1>4. Script(c, m)'
  BY <1>1, <1>2, <1>3, ScriptKept
<1>5. PICK type \in {HandshakePacket, FileMeta, FileChunk, FileEOF, Other} :
         /\ Offer(c, type)
         /\ sent' = [sent EXCEPT ![c] =
               @ \o Packet(type, IF type = FileChunk THEN LastChunk(c) + 1 ELSE 0)]
  BY DEF ClientSends
<1>6. sent'[c] = sent[c] \o Packet(type, IF type = FileChunk THEN LastChunk(c) + 1 ELSE 0)
  BY <1>5 DEF TypeOK
<1>7. UNCHANGED total
  BY DEF ClientSends
<1>8. ASSUME type # FileChunk PROVE Len(sent'[c]) = m + 1 /\ sent'[c][m + 1] = One(type)
  <2>1. sent'[c] = Append(sent[c], One(type))
    BY <1>2, <1>6, <1>8 DEF Packet, One
  <2> QED BY <1>1, <1>2, <2>1
<1>9. acks[c] = 2 => \E k \in Nat : m = 2 * k + 2 /\ LastChunk(c) = k
  <2>1. SUFFICES ASSUME acks[c] = 2 PROVE \E k \in Nat : m = 2 * k + 2 /\ LastChunk(c) = k
    OBVIOUS
  <2>2. m >= 2
    BY <1>1, <2>1 DEF Acked, AckedAt
  <2>3. PICK k \in Nat : m = 2 * k + 2
    BY <1>3, <2>2 DEF Script
  <2> QED BY <1>1, <1>3, <2>3, LastChunkOf
<1>a. CASE type = HandshakePacket
  <2>1. m = 0
    BY <1>1, <1>5, <1>a DEF Offer, HandshakePacket, FileMeta, FileChunk, FileEOF, Other
  <2>2. Len(sent'[c]) = 1 /\ sent'[c][1] = One(HandshakePacket)
    BY <1>8, <1>a, <2>1 DEF HandshakePacket, FileChunk
  <2>3. Script(c, 1)'
    BY <2>2 DEF Script
  <2> QED BY <2>2, <2>3
<1>b. CASE type = FileMeta
  <2>1. m = 1
    BY <1>1, <1>5, <1>b DEF Offer, HandshakePacket, FileMeta, FileChunk, FileEOF, Other
  <2>2. Len(sent'[c]) = 2 /\ sent'[c][2] = One(FileMeta)
    BY <1>8, <1>b, <2>1 DEF FileMeta, FileChunk
  <2>3. sent'[c][1] = One(HandshakePacket)
    BY <1>4, <2>1 DEF Script
  <2>4. 2 = 2 * 0 + 2 /\ \A j \in Nat : ~(j >= 1 /\ 2 * j + 2 <= 2)
    OBVIOUS
  <2>5. Script(c, 2)'
    BY <2>2, <2>3, <2>4 DEF Script
  <2> QED BY <2>2, <2>5
<1>c. CASE type = FileChunk
  <2>1. PICK k \in Nat : m = 2 * k + 2 /\ LastChunk(c) = k
    BY <1>5, <1>9, <1>c DEF Offer, HandshakePacket, FileMeta, FileChunk, FileEOF, Other
  <2>2. PICK n \in Nat : n = 2 * (k + 1) + 2 /\ n = m + 2
    BY <2>1
  <2>3. sent'[c] = sent[c] \o <<ChunkHead(k + 1), ChunkTail(k + 1)>>
    BY <1>6, <1>c, <2>1 DEF Packet, ChunkHead, ChunkTail
  <2>4. ChunkHead(k + 1) \in Cell /\ ChunkTail(k + 1) \in Cell
    BY DEF ChunkHead, ChunkTail, Cell
  <2>5. /\ Len(sent'[c]) = n /\ sent'[c][m + 1] = ChunkHead(k + 1)
        /\ sent'[c][m + 2] = ChunkTail(k + 1)
    <3> HIDE DEF ChunkHead, ChunkTail
    <3> QED BY <1>1, <1>2, <2>2, <2>3, <2>4
  <2>6. ASSUME NEW j \in Nat, j >= 1, 2 * j + 2 <= n
        PROVE  sent'[c][2 * j + 1] = ChunkHead(j) /\ sent'[c][2 * j + 2] = ChunkTail(j)
    <3>1. CASE 2 * j + 2 <= m
      BY <1>4, <2>6, <3>1 DEF Script
    <3>2. CASE ~(2 * j + 2 <= m)
      <4>1. j = k + 1 /\ 2 * j + 1 = m + 1 /\ 2 * j + 2 = m + 2
        BY <2>1, <2>2, <2>6, <3>2
      <4> QED BY <2>5, <4>1
    <3> QED BY <3>1, <3>2
  <2>7. Script(c, n)'
    <3>1. \E l \in Nat : n = 2 * l + 2
      BY <2>2
    <3>2. sent'[c][1] = One(HandshakePacket) /\ sent'[c][2] = One(FileMeta)
      BY <1>4, <2>1 DEF Script
    <3> QED BY <2>6, <3>1, <3>2 DEF Script
  <2> QED BY <2>5, <2>7
<1>d. CASE type = FileEOF
  <2>1. PICK k \in Nat : m = 2 * k + 2 /\ k = total[c]
    BY <1>5, <1>9, <1>d DEF Offer, HandshakePacket, FileMeta, FileChunk, FileEOF, Other
  <2>2. Last(c, m)'
    BY <1>7, <1>8, <1>d, <2>1 DEF Last, FileChunk, FileEOF
  <2> QED BY <1>4, <2>2
<1>e. CASE type = Other
  <2>1. Last(c, m)'
    BY <1>8, <1>e DEF Last, FileChunk, Other
  <2> QED BY <1>4, <2>1
<1> QED BY <1>a, <1>b, <1>c, <1>d, <1>e

LEMMA ScriptedStep ==
    ASSUME TypeOK, Acked, Scripted, [Next]_vars
    PROVE  Scripted'
<1>1. UNCHANGED total /\ (UNCHANGED sent \/ \E c \in Conns : ClientSends(c))
  BY WhoSends
<1>2. ASSUME NEW d \in Conns, sent'[d] = sent[d]
      PROVE  \E m \in Nat : Script(d, m)' /\ (Len(sent'[d]) = m \/ Last(d, m)')
  <2>1. PICK m \in Nat : Script(d, m) /\ (Len(sent[d]) = m \/ Last(d, m))
    BY DEF Scripted
  <2>2. Script(d, m)'
    BY <1>2, <2>1 DEF Script
  <2>3. Len(sent'[d]) = m \/ Last(d, m)'
    BY <1>1, <1>2, <2>1 DEF Last
  <2> QED BY <2>2, <2>3
<1>3. CASE UNCHANGED sent
  BY <1>2, <1>3 DEF Scripted
<1>4. ASSUME NEW c \in Conns, ClientSends(c) PROVE Scripted'
  <2>1. \A d \in Conns : d # c => sent'[d] = sent[d]
    BY <1>4 DEF ClientSends, TypeOK
  <2>2. \E m \in Nat : Script(c, m)' /\ (Len(sent'[c]) = m \/ Last(c, m)')
    BY <1>4, ScriptGrows
  <2>3. ASSUME NEW d \in Conns
        PROVE \E m \in Nat : Script(d, m)' /\ (Len(sent'[d]) = m \/ Last(d, m)')
    BY <1>2, <2>1, <2>2
  <2> QED BY <2>3 DEF Scripted
<1> QED BY <1>1, <1>3, <1>4

-----------------------------------------------------------------------------
(* What a thread changes.                                                  *)

\* A thread changes nothing that is another's, and when it touches the file it
\* ends the others' being alone.
OthersKept(c) ==
    \A d \in Conns : d # c =>
        /\ pc'[d] = pc[d] /\ acks'[d] = acks[d] /\ read'[d] = read[d]
        /\ aligned'[d] = aligned[d] /\ transferred'[d] = transferred[d]
        /\ buffered'[d] = buffered[d] /\ pos'[d] = pos[d]
        /\ streamOpen'[d] = streamOpen[d] /\ mismatch'[d] = mismatch[d]
        /\ lost'[d] = lost[d]
        /\ alone'[d] => alone[d] /\ file' = file

LEMMA FlushOthers ==
    ASSUME TypeOK, NEW c \in Conns, NEW pieces, Flush(c, pieces), NEW d \in Conns, d # c
    PROVE  /\ buffered'[d] = buffered[d] /\ pos'[d] = pos[d] /\ lost'[d] = lost[d]
           /\ alone'[d] => alone[d] /\ file' = file
<1>1. buffered'[d] = buffered[d] /\ pos'[d] = pos[d] /\ lost'[d] = lost[d]
  BY DEF Flush, TypeOK
<1>2. \/ alone'[d] = (alone[d] /\ (d = c \/ pieces = <<>>))
      \/ UNCHANGED <<file, alone>>
  BY DEF Flush
<1>3. alone'[d] => alone[d] /\ file' = file
  BY <1>2 DEF Flush
<1> QED BY <1>1, <1>3

LEMMA ReceiveChunkOthers ==
    ASSUME TypeOK, Acked, NEW c \in Conns, ReceiveChunk(c)
    PROVE  OthersKept(c)
<1>1. SUFFICES ASSUME NEW d \in Conns, d # c
               PROVE  /\ pc'[d] = pc[d] /\ read'[d] = read[d]
                      /\ aligned'[d] = aligned[d] /\ transferred'[d] = transferred[d]
                      /\ buffered'[d] = buffered[d] /\ pos'[d] = pos[d]
                      /\ streamOpen'[d] = streamOpen[d] /\ lost'[d] = lost[d]
                      /\ alone'[d] => alone[d] /\ file' = file
  BY DEF OthersKept, ReceiveChunk
<1>2. read'[d] = read[d] /\ aligned'[d] = aligned[d]
  <2>1. (\E k \in Reads(c) : Take(c, k)) \/ UNCHANGED input
    BY DEF ReceiveChunk
  <2> QED BY <1>1, <2>1, TakeTyped DEF input
<1>3. ASSUME NEW next, CloseFile(c, next)
      PROVE  /\ pc'[d] = pc[d] /\ transferred'[d] = transferred[d]
             /\ buffered'[d] = buffered[d] /\ pos'[d] = pos[d]
             /\ streamOpen'[d] = streamOpen[d] /\ lost'[d] = lost[d]
             /\ alone'[d] => alone[d] /\ file' = file
  <2>1. /\ buffered'[d] = buffered[d] /\ pos'[d] = pos[d]
        /\ lost'[d] = lost[d]
        /\ alone'[d] => alone[d] /\ file' = file
    BY <1>1, <1>3, FlushOthers DEF CloseFile
  <2> QED BY <1>1, <1>3, <2>1 DEF CloseFile, GoesTo, TypeOK
<1>4. CASE UNCHANGED stream /\ GoesTo(c, "close")
  BY <1>1, <1>2, <1>4 DEF stream, GoesTo, TypeOK
<1>5. ASSUME NEW more, WriteChunk(c, more)
      PROVE  /\ pc'[d] = pc[d] /\ transferred'[d] = transferred[d]
             /\ buffered'[d] = buffered[d] /\ pos'[d] = pos[d]
             /\ streamOpen'[d] = streamOpen[d] /\ lost'[d] = lost[d]
             /\ alone'[d] => alone[d] /\ file' = file
  <2> DEFINE pieces == buffered[c] \o more
  <2>1. \/ /\ buffered' = [buffered EXCEPT ![c] = pieces]
           /\ UNCHANGED <<file, pos, alone, lost>>
        \/ Flush(c, pieces)
    BY <1>5 DEF WriteChunk
  <2> HIDE DEF pieces
  <2>2. /\ buffered'[d] = buffered[d] /\ pos'[d] = pos[d]
        /\ lost'[d] = lost[d]
        /\ alone'[d] => alone[d] /\ file' = file
    BY <1>1, <2>1, FlushOthers DEF TypeOK
  <2> QED BY <1>1, <1>5, <2>2 DEF WriteChunk, TypeOK
<1> QED BY <1>2, <1>3, <1>4, <1>5 DEF ReceiveChunk

LEMMA ThreadOthers ==
    ASSUME TypeOK, Acked, NEW c \in Conns, Thread(c)
    PROVE  OthersKept(c)
<1>1. ASSUME NEW expected, NEW next, GetRequest(c, expected, next) PROVE OthersKept(c)
  <2>1. (\E k \in Reads(c) : Take(c, k)) \/ UNCHANGED input
    BY <1>1 DEF GetRequest
  <2>2. \A d \in Conns : d # c => read'[d] = read[d] /\ aligned'[d] = aligned[d]
    BY <2>1, TakeTyped DEF input
  <2>3. \A d \in Conns : d # c => pc'[d] = pc[d]
    BY <1>1 DEF GetRequest, GoesTo, TypeOK
  <2>4. UNCHANGED <<acks, stream, mismatch>>
    BY <1>1 DEF GetRequest
  <2> QED BY <2>2, <2>3, <2>4 DEF OthersKept, stream
<1>2. ASSUME NEW next, Acknowledge(c, next) PROVE OthersKept(c)
  <2>1. \A d \in Conns : d # c => pc'[d] = pc[d] /\ acks'[d] = acks[d]
    BY <1>2 DEF Acknowledge, GoesTo, TypeOK
  <2>2. UNCHANGED <<input, stream, mismatch>>
    BY <1>2 DEF Acknowledge
  <2> QED BY <2>1, <2>2 DEF OthersKept, stream, input
<1>3. CASE AckEOF(c)
  <2>1. \A d \in Conns : d # c => pc'[d] = pc[d] /\ acks'[d] = acks[d]
                                                 /\ mismatch'[d] = mismatch[d]
    BY <1>3 DEF AckEOF, GoesTo, TypeOK
  <2>2. UNCHANGED <<input, stream>>
    BY <1>3 DEF AckEOF
  <2> QED BY <2>1, <2>2 DEF OthersKept, stream, input
<1>4. CASE OpenFile(c)
  <2>1. \A d \in Conns : d # c => /\ pc'[d] = pc[d] /\ streamOpen'[d] = streamOpen[d]
                                  /\ ~ alone'[d] \/ UNCHANGED <<file, alone>>
    BY <1>4 DEF OpenFile, GoesTo, TypeOK
  <2>2. UNCHANGED <<input, acks, transferred, buffered, pos, lost, mismatch>>
    BY <1>4 DEF OpenFile
  <2> QED BY <2>1, <2>2 DEF OthersKept, input
<1>5. CASE CloseSocket(c)
  <2>1. \A d \in Conns : d # c => pc'[d] = pc[d]
    BY <1>5 DEF CloseSocket, GoesTo, TypeOK
  <2>2. UNCHANGED <<input, acks, stream, mismatch>>
    BY <1>5 DEF CloseSocket
  <2> QED BY <2>1, <2>2 DEF OthersKept, stream, input
<1> QED BY <1>1, <1>2, <1>3, <1>4, <1>5, ReceiveChunkOthers
        DEF Thread, ReceiveHandshake, ReceiveMeta, AckHandshake, AckMeta

\* The process ends.
Crashes == pc' = [d \in Conns |-> "crashed"] /\ UNCHANGED <<acks, input, stream, mismatch>>

LEMMA WhoseStep ==
    ASSUME [Next]_vars
    PROVE  \/ UNCHANGED <<pc, acks, input, stream, mismatch>>
           \/ \E c \in Conns : Thread(c)
           \/ Crashes
<1>1. CASE UNCHANGED vars
  BY <1>1 DEF vars
<1>2. ASSUME NEW c \in Conns, ClientSends(c) \/ ClientLeaves(c)
      PROVE  UNCHANGED <<pc, acks, input, stream, mismatch>>
  BY <1>2 DEF ClientSends, ClientLeaves
<1>3. ASSUME NEW c \in Conns, NullStream(c) PROVE Crashes
  BY <1>3 DEF NullStream, Crashes
<1> QED BY <1>1, <1>2, <1>3 DEF Next, Ended, Spins

-----------------------------------------------------------------------------
(* Acknowledgements.                                                       *)

\* Only the first packet of a client is a handshake, only the second meta data.
LEMMA FrontIs ==
    ASSUME TypeOK, Scripted, NEW c \in Conns, read[c] + 1 \in 1..Len(sent[c])
    PROVE  /\ First(c).type = HandshakePacket =>
                Len(sent[c]) >= 1 /\ sent[c][1] = One(HandshakePacket)
           /\ First(c).type = FileMeta =>
                Len(sent[c]) >= 2 /\ sent[c][2] = One(FileMeta)
<1> USE DEF HandshakePacket, FileMeta, FileEOF, Other
<1>1. PICK m \in Nat : Script(c, m) /\ (Len(sent[c]) = m \/ Last(c, m))
  BY DEF Scripted
<1>2. PICK n \in Nat : n = Len(sent[c])
  BY DEF TypeOK
<1>3. n >= m /\ n <= m + 1
  BY <1>1, <1>2 DEF Last
<1>4. m >= 1 => sent[c][1] = One(HandshakePacket)
  BY <1>1 DEF Script
<1>5. m >= 2 => sent[c][2] = One(FileMeta)
  BY <1>1 DEF Script
<1>6. n = m + 1 => sent[c][m + 1].type \notin {HandshakePacket, FileMeta}
  BY <1>1, <1>2 DEF Last, One
<1>7. PICK i \in 1..n : First(c) = sent[c][i]
  BY <1>2 DEF First
<1>8. CASE m = 0
  <2>1. n = m + 1 /\ i = m + 1
    BY <1>3, <1>7, <1>8
  <2>2. First(c).type \notin {HandshakePacket, FileMeta}
    BY <1>6, <1>7, <2>1
  <2> QED BY <2>2
<1>9. CASE m = 1
  <2>1. One(HandshakePacket).type = HandshakePacket
    BY DEF One
  <2>2. sent[c][1].type # FileMeta
    BY <1>4, <1>9, <2>1
  <2>3. i = 1 \/ (i = m + 1 /\ n = m + 1)
    BY <1>3, <1>7, <1>9
  <2>4. First(c).type # FileMeta
    BY <1>6, <1>7, <2>2, <2>3
  <2> QED BY <1>2, <1>3, <1>4, <1>9, <2>4
<1>a. CASE m >= 2
  BY <1>2, <1>3, <1>4, <1>5, <1>a
<1> QED BY <1>8, <1>9, <1>a

LEMMA AckedKept ==
    ASSUME TypeOK, Grows, NEW d \in Conns, AckedAt(d),
           pc'[d] \in {pc[d], "crashed"}, acks'[d] = acks[d], read'[d] = read[d], TypeOK'
    PROVE  AckedAt(d)'
<1>1. Len(sent[d]) \in Nat /\ Len(sent'[d]) \in Nat /\ Len(sent'[d]) >= Len(sent[d])
  BY DEF Grows, TypeOK
<1>2. read[d] \in Nat /\ acks[d] \in 0..3
  BY DEF TypeOK
<1>3. \A i \in 1..Len(sent[d]) : sent'[d][i] = sent[d][i]
  BY DEF Grows
<1>4. Len(sent[d]) >= 1 => sent'[d][1] = sent[d][1]
  BY <1>1, <1>3
<1>5. Len(sent[d]) >= 2 => sent'[d][2] = sent[d][2]
  BY <1>1, <1>3
<1> QED BY <1>1, <1>2, <1>4, <1>5 DEF AckedAt

LEMMA AckedOwn ==
    ASSUME TypeOK, TypeOK', Scripted, Acked, NEW c \in Conns, Thread(c)
    PROVE  AckedAt(c)'
<1> USE DEF Labels
<1>0. /\ AckedAt(c) /\ acks[c] \in 0..3 /\ Len(sent[c]) \in Nat /\ read[c] \in Nat
      /\ pc[c] \in Labels
  BY DEF Acked, TypeOK
<1>1. UNCHANGED sent
  <2>1. ReceiveHandshake(c) \/ ReceiveMeta(c) => UNCHANGED sent
    BY DEF ReceiveHandshake, ReceiveMeta, GetRequest, peer
  <2>2. AckHandshake(c) \/ AckMeta(c) \/ AckEOF(c) => UNCHANGED sent
    BY DEF AckHandshake, AckMeta, AckEOF, Acknowledge, peer
  <2>3. OpenFile(c) \/ ReceiveChunk(c) \/ CloseSocket(c) => UNCHANGED sent
    BY DEF OpenFile, ReceiveChunk, CloseSocket, peer
  <2> QED BY <2>1, <2>2, <2>3 DEF Thread
<1>2. ASSUME NEW expected \in {HandshakePacket, FileMeta}, NEW next,
             GetRequest(c, expected, next)
      PROVE  /\ read'[c] <= Len(sent[c]) /\ acks' = acks
             /\ \/ pc'[c] = "returned"
                \/ /\ pc'[c] = next /\ First(c).type = expected
                   /\ read[c] + 1 \in 1..Len(sent[c])
  <2>1. UNCHANGED acks
    BY <1>2 DEF GetRequest
  <2>2. CASE UNCHANGED input /\ GoesTo(c, "returned")
    BY <2>1, <2>2, <1>0 DEF input, GoesTo, TypeOK, AckedAt
  <2>3. ASSUME NEW k \in Reads(c), NEW type \in TypesAtFront(c), Take(c, k),
               GoesTo(c, IF type = expected THEN next ELSE "returned")
        PROVE  /\ read'[c] <= Len(sent[c])
               /\ \/ pc'[c] = "returned"
                  \/ /\ pc'[c] = next /\ First(c).type = expected
                     /\ read[c] + 1 \in 1..Len(sent[c])
    <3>1. read'[c] <= Len(sent[c]) /\ read[c] + 1 \in 1..Len(sent[c])
      BY <2>3, TakeTyped
    <3>2. pc'[c] = IF type = expected THEN next ELSE "returned"
      BY <2>3 DEF GoesTo, TypeOK
    <3>3. type = expected => First(c).type = expected
      BY <2>3, <1>2 DEF TypesAtFront, HandshakePacket, FileMeta, FileChunk, FileEOF, Other
    <3> QED BY <3>1, <3>2, <3>3
  <2> QED BY <1>2, <2>1, <2>2, <2>3 DEF GetRequest
<1>3. CASE ReceiveHandshake(c)
  <2>1. pc[c] = "handshake" /\ GetRequest(c, HandshakePacket, "ackHandshake")
    BY <1>3 DEF ReceiveHandshake
  <2>2. /\ read'[c] <= Len(sent[c]) /\ acks' = acks
        /\ \/ pc'[c] = "returned"
           \/ /\ pc'[c] = "ackHandshake" /\ First(c).type = HandshakePacket
              /\ read[c] + 1 \in 1..Len(sent[c])
    BY <2>1, <1>2
  <2>3. pc'[c] = "ackHandshake" => Len(sent[c]) >= 1 /\ sent[c][1] = One(HandshakePacket)
    BY <2>2, FrontIs
  <2> QED BY <1>0, <1>1, <2>1, <2>2, <2>3 DEF AckedAt
<1>4. CASE ReceiveMeta(c)
  <2>1. pc[c] = "meta" /\ GetRequest(c, FileMeta, "ackMeta")
    BY <1>4 DEF ReceiveMeta
  <2>2. /\ read'[c] <= Len(sent[c]) /\ acks' = acks
        /\ \/ pc'[c] = "returned"
           \/ /\ pc'[c] = "ackMeta" /\ First(c).type = FileMeta
              /\ read[c] + 1 \in 1..Len(sent[c])
    BY <2>1, <1>2
  <2>3. pc'[c] = "ackMeta" => Len(sent[c]) >= 2 /\ sent[c][2] = One(FileMeta)
    BY <2>2, FrontIs
  <2> QED BY <1>0, <1>1, <2>1, <2>2, <2>3 DEF AckedAt
<1>5. ASSUME NEW next, Acknowledge(c, next)
      PROVE  /\ read' = read
             /\ \/ acks'[c] = acks[c] + 1 /\ pc'[c] = next
                \/ acks'[c] = acks[c] /\ pc'[c] = "escaped"
  BY <1>5 DEF Acknowledge, GoesTo, TypeOK, input
<1>6. CASE AckHandshake(c)
  <2>1. pc[c] = "ackHandshake" /\ Acknowledge(c, "meta")
    BY <1>6 DEF AckHandshake
  <2>2. /\ read' = read
        /\ \/ acks'[c] = acks[c] + 1 /\ pc'[c] = "meta"
           \/ acks'[c] = acks[c] /\ pc'[c] = "escaped"
    BY <2>1, <1>5
  <2> QED BY <1>0, <1>1, <2>1, <2>2 DEF AckedAt
<1>7. CASE AckMeta(c)
  <2>1. pc[c] = "ackMeta" /\ Acknowledge(c, "open")
    BY <1>7 DEF AckMeta
  <2>2. /\ read' = read
        /\ \/ acks'[c] = acks[c] + 1 /\ pc'[c] = "open"
           \/ acks'[c] = acks[c] /\ pc'[c] = "escaped"
    BY <2>1, <1>5
  <2> QED BY <1>0, <1>1, <2>1, <2>2 DEF AckedAt
<1>8. CASE OpenFile(c)
  <2>1. pc[c] = "open" /\ pc'[c] = "receive" /\ UNCHANGED <<read, acks>>
    BY <1>8 DEF OpenFile, GoesTo, input, TypeOK
  <2> QED BY <1>0, <1>1, <2>1 DEF AckedAt
<1>9. CASE ReceiveChunk(c)
  <2>1. pc[c] = "receive" /\ UNCHANGED acks
    BY <1>9 DEF ReceiveChunk
  <2>2. pc'[c] \in {"receive", "ackEOF", "close"}
    BY <1>9 DEF ReceiveChunk, CloseFile, WriteChunk, GoesTo, TypeOK
  <2>3. read'[c] <= Len(sent[c])
    <3>1. (\E k \in Reads(c) : Take(c, k)) \/ UNCHANGED input
      BY <1>9 DEF ReceiveChunk
    <3> QED BY <1>0, <3>1, TakeTyped DEF input, AckedAt
  <2> QED BY <1>0, <1>1, <2>1, <2>2, <2>3 DEF AckedAt
<1>a. CASE AckEOF(c)
  <2>1. pc[c] = "ackEOF" /\ UNCHANGED read
    BY <1>a DEF AckEOF, input
  <2>2. \/ acks'[c] = acks[c] + 1 /\ pc'[c] = "close"
        \/ acks'[c] = acks[c] /\ pc'[c] = "escaped"
    BY <1>a DEF AckEOF, GoesTo, TypeOK
  <2> QED BY <1>0, <1>1, <2>1, <2>2 DEF AckedAt
<1>b. CASE CloseSocket(c)
  <2>1. pc[c] = "close" /\ pc'[c] = "done" /\ UNCHANGED <<read, acks>>
    BY <1>b DEF CloseSocket, GoesTo, input, TypeOK
  <2> QED BY <1>0, <1>1, <2>1 DEF AckedAt
<1> QED BY <1>3, <1>4, <1>6, <1>7, <1>8, <1>9, <1>a, <1>b DEF Thread

LEMMA AckedStep ==
    ASSUME TypeOK, Acked, Scripted, [Next]_vars
    PROVE  Acked'
<1>1. TypeOK' /\ Grows
  BY TypeStep
<1>2. CASE UNCHANGED <<pc, acks, input, stream, mismatch>>
  BY <1>1, <1>2, AckedKept DEF Acked, input
<1>3. ASSUME NEW c \in Conns, Thread(c) PROVE Acked'
  <2>1. AckedAt(c)'
    BY <1>1, <1>3, AckedOwn
  <2>2. ASSUME NEW d \in Conns, d # c PROVE AckedAt(d)'
    <3>1. pc'[d] = pc[d] /\ acks'[d] = acks[d] /\ read'[d] = read[d]
      BY <1>3, <2>2, ThreadOthers DEF OthersKept
    <3> QED BY <1>1, <3>1, AckedKept DEF Acked
  <2> QED BY <2>1, <2>2 DEF Acked
<1>4. CASE Crashes
  BY <1>1, <1>4, AckedKept DEF Acked, Crashes, input
<1> QED BY <1>2, <1>3, <1>4, WhoseStep

-----------------------------------------------------------------------------
(* What is read, and what a thread has before its fopen.                   *)

LEMMA PastLimitKept ==
    ASSUME TypeOK, TypeOK', Acked, Grows, NEW c \in Conns, PastLimit(c), read'[c] >= read[c]
    PROVE  PastLimit(c)'
<1>1. PICK i \in 1..read[c] : sent[c][i].seq > SeqLimit
  BY DEF PastLimit
<1>2. read[c] \in Nat /\ read'[c] \in Nat /\ Len(sent[c]) \in Nat /\ read[c] <= Len(sent[c])
  BY DEF TypeOK, Acked, AckedAt
<1>3. i \in 1..Len(sent[c]) /\ i \in 1..read'[c]
  BY <1>2
<1>4. sent'[c][i].seq > SeqLimit
  BY <1>1, <1>3 DEF Grows
<1> QED BY <1>3, <1>4 DEF PastLimit

LEMMA ReadGrows ==
    ASSUME TypeOK, Acked, NEW c \in Conns, Thread(c)
    PROVE  read'[c] >= read[c]
<1>1. (\E k \in Reads(c) : Take(c, k)) \/ UNCHANGED read
  <2>1. ReceiveHandshake(c) \/ ReceiveMeta(c) => (\E k \in Reads(c) : Take(c, k)) \/ UNCHANGED read
    BY DEF ReceiveHandshake, ReceiveMeta, GetRequest, input
  <2>2. AckHandshake(c) \/ AckMeta(c) \/ AckEOF(c) => UNCHANGED read
    BY DEF AckHandshake, AckMeta, AckEOF, Acknowledge, input
  <2>3. OpenFile(c) \/ CloseSocket(c) => UNCHANGED read
    BY DEF OpenFile, CloseSocket, input
  <2>4. ReceiveChunk(c) => (\E k \in Reads(c) : Take(c, k)) \/ UNCHANGED read
    BY DEF ReceiveChunk, input
  <2> QED BY <2>1, <2>2, <2>3, <2>4 DEF Thread
<1>2. read[c] \in Nat
  BY DEF TypeOK
<1> QED BY <1>1, <1>2, TakeTyped

LEMMA FreshStep ==
    ASSUME TypeOK, Acked, Fresh, [Next]_vars
    PROVE  Fresh'
<1>1. CASE UNCHANGED <<pc, acks, input, stream, mismatch>>
  BY <1>1 DEF Fresh, FreshAt, stream
<1>2. ASSUME NEW c \in Conns, Thread(c) PROVE Fresh'
  <2>1. ASSUME NEW d \in Conns, d # c PROVE FreshAt(d)'
    BY <1>2, <2>1, ThreadOthers DEF OthersKept, Fresh, FreshAt
  <2>2. FreshAt(c)'
    <3>0. FreshAt(c) /\ acks[c] \in 0..3 /\ AckedAt(c)
      BY DEF Fresh, TypeOK, Acked
    <3>1. CASE ReceiveHandshake(c) \/ ReceiveMeta(c)
      <4>1. pc[c] \in {"handshake", "meta"} /\ UNCHANGED <<acks, stream, mismatch>>
        BY <3>1 DEF ReceiveHandshake, ReceiveMeta, GetRequest
      <4> QED BY <3>0, <4>1 DEF FreshAt, stream
    <3>2. CASE AckHandshake(c) \/ AckMeta(c)
      <4>1. pc[c] \in {"ackHandshake", "ackMeta"} /\ UNCHANGED <<stream, mismatch>>
        BY <3>2 DEF AckHandshake, AckMeta, Acknowledge
      <4>2. acks[c] < 3
        BY <3>0, <4>1 DEF AckedAt
      <4> QED BY <3>0, <4>1, <4>2 DEF FreshAt, stream
    <3>3. CASE OpenFile(c)
      <4>1. pc'[c] = "receive" /\ UNCHANGED <<acks, mismatch>>
        BY <3>3 DEF OpenFile, GoesTo, TypeOK
      <4> QED BY <3>0, <4>1 DEF FreshAt
    <3>4. CASE ReceiveChunk(c)
      <4>1. pc'[c] \in {"receive", "ackEOF", "close"}
        BY <3>4 DEF ReceiveChunk, CloseFile, WriteChunk, GoesTo, TypeOK
      <4>2. UNCHANGED <<acks, mismatch>>
        BY <3>4 DEF ReceiveChunk
      <4> QED BY <3>0, <4>1, <4>2 DEF FreshAt
    <3>5. CASE AckEOF(c)
      <4>1. pc[c] = "ackEOF" /\ pc'[c] \in {"close", "escaped"}
        BY <3>5 DEF AckEOF, GoesTo, TypeOK
      <4>2. acks[c] = 2
        BY <3>0, <4>1 DEF AckedAt
      <4>3. \/ acks'[c] = acks[c] + 1
            \/ acks'[c] = acks[c] /\ UNCHANGED mismatch
        BY <3>5 DEF AckEOF, TypeOK
      <4>4. acks'[c] < 3 => ~ mismatch'[c]
        BY <3>0, <4>2, <4>3 DEF FreshAt
      <4> QED BY <4>1, <4>4 DEF FreshAt
    <3>6. CASE CloseSocket(c)
      <4>1. pc'[c] = "done" /\ UNCHANGED <<acks, mismatch>>
        BY <3>6 DEF CloseSocket, GoesTo, TypeOK
      <4> QED BY <3>0, <4>1 DEF FreshAt
    <3> QED BY <1>2, <3>1, <3>2, <3>3, <3>4, <3>5, <3>6 DEF Thread
  <2> QED BY <2>1, <2>2 DEF Fresh
<1>3. CASE Crashes
  BY <1>3 DEF Fresh, FreshAt, Crashes
<1> QED BY <1>1, <1>2, <1>3, WhoseStep

-----------------------------------------------------------------------------
(* The file of a client that is alone.                                     *)

LEMMA PiecesLen ==
    ASSUME NEW c, NEW first \in Nat, NEW last \in Nat, first <= last
    PROVE  /\ Len(Pieces(c, first, last)) = last - first
           /\ DOMAIN Pieces(c, first, last) = 1..(last - first)
           /\ Pieces(c, first, last) = <<>> <=> first = last
           /\ \A i \in 1..(last - first) : Pieces(c, first, last)[i] = PieceOf(c, first + i)
<1>1. last - first \in Nat
  OBVIOUS
<1>2. /\ DOMAIN Pieces(c, first, last) = 1..(last - first)
      /\ \A i \in 1..(last - first) : Pieces(c, first, last)[i] = PieceOf(c, first + i)
  BY DEF Pieces
<1>3. Len(Pieces(c, first, last)) = last - first
  BY <1>1 DEF Pieces
<1>4. Pieces(c, first, last) = <<>> <=> first = last
  <2>1. ASSUME first = last PROVE Pieces(c, first, last) = <<>>
    <3>1. 1..(last - first) = {}
      BY <2>1
    <3> QED BY <3>1 DEF Pieces
  <2>2. ASSUME Pieces(c, first, last) = <<>> PROVE first = last
    <3>1. Len(Pieces(c, first, last)) = 0
      BY <2>2
    <3> QED BY <1>3, <3>1
  <2> QED BY <2>1, <2>2
<1> QED BY <1>2, <1>3, <1>4

LEMMA PiecesNone ==
    ASSUME NEW c, NEW n \in Nat
    PROVE  Pieces(c, n, n) = <<>>
<1>1. n <= n
  OBVIOUS
<1> QED BY <1>1, PiecesLen

LEMMA PiecesAppend ==
    ASSUME NEW c \in Conns, NEW first \in Nat, NEW last \in Nat, first <= last
    PROVE  Append(Pieces(c, first, last), PieceOf(c, last + 1)) = Pieces(c, first, last + 1)
<1> DEFINE s == Pieces(c, first, last)
           e == PieceOf(c, last + 1)
           n == last - first
<1>1. /\ n \in Nat /\ Len(s) = n /\ s = [i \in 1..n |-> PieceOf(c, first + i)]
      /\ last + 1 - first = n + 1
  BY PiecesLen DEF Pieces
<1>2. s \in Seq(Piece) /\ e \in Piece
  <2>1. \A i \in Nat : PieceOf(c, i) \in Piece
    BY DEF PieceOf, Piece
  <2>2. \A i \in 1..n : PieceOf(c, first + i) \in Piece
    BY <2>1
  <2> HIDE DEF n
  <2> QED BY <1>1, <2>1, <2>2
<1>3. Pieces(c, first, last + 1) = [i \in 1..(n + 1) |-> PieceOf(c, first + i)]
  BY <1>1 DEF Pieces
<1>4. \A i \in 1..n : s[i] = PieceOf(c, first + i)
  BY <1>1
<1>5. e = PieceOf(c, first + (n + 1))
  OBVIOUS
<1> HIDE DEF s, e, n
<1>6. /\ Append(s, e) \in Seq(Piece) /\ Len(Append(s, e)) = n + 1
      /\ \A i \in 1..(n + 1) : Append(s, e)[i] = IF i = n + 1 THEN e ELSE s[i]
  BY <1>1, <1>2
<1>7. \A i \in 1..(n + 1) : Append(s, e)[i] = PieceOf(c, first + i)
  BY <1>1, <1>4, <1>5, <1>6
<1>8. Append(s, e) = [i \in 1..(n + 1) |-> PieceOf(c, first + i)]
  BY <1>1, <1>6, <1>7
<1> QED BY <1>3, <1>8 DEF s, e

\* A stream at the end of its own file extends it.
LEMMA FlushAppends ==
    ASSUME TypeOK, NEW c \in Conns, NEW t \in Nat, pos[c] <= t,
           Flush(c, Pieces(c, pos[c], t)), ~ lost'[c]
    PROVE  /\ pos'[c] = t /\ buffered'[c] = <<>>
           /\ alone'[c] => alone[c]
           /\ file = Pieces(c, 0, pos[c]) => file' = Pieces(c, 0, t)
<1>1. PICK p \in Nat : p = pos[c] /\ p <= t
  BY DEF TypeOK
<1> DEFINE pieces == Pieces(c, p, t)
<1>2. /\ Len(pieces) = t - p /\ (pieces = <<>> <=> p = t)
      /\ \A i \in 1..(t - p) : pieces[i] = PieceOf(c, p + i)
  <2>0. p <= t
    BY <1>1
  <2>1. Len(Pieces(c, p, t)) = t - p
    BY <2>0, PiecesLen
  <2>2. pieces = <<>> <=> p = t
    BY <2>0, PiecesLen
  <2>3. \A i \in 1..(t - p) : pieces[i] = PieceOf(c, p + i)
    BY <2>0, PiecesLen
  <2> QED BY <2>1, <2>2, <2>3
<1>3. /\ file' = IF pieces = <<>> THEN file ELSE Written(c, pieces)
      /\ pos' = [pos EXCEPT ![c] = @ + Len(pieces)]
      /\ alone' = [d \in Conns |-> alone[d] /\ (d = c \/ pieces = <<>>)]
      /\ buffered' = [buffered EXCEPT ![c] = <<>>]
  <2>1. Flush(c, pieces)
    BY <1>1
  <2>2. ~(lost' = [lost EXCEPT ![c] = TRUE])
    BY DEF TypeOK
  <2> QED BY <2>1, <2>2 DEF Flush
<1> HIDE DEF pieces
<1>4. pos'[c] = t
  <2>1. pos'[c] = p + Len(pieces)
    BY <1>1, <1>3 DEF TypeOK
  <2> QED BY <1>1, <1>2, <2>1
<1>5. buffered'[c] = <<>> /\ (alone'[c] => alone[c])
  BY <1>3 DEF TypeOK
<1>6. ASSUME file = Pieces(c, 0, p) PROVE file' = Pieces(c, 0, t)
  <2>1. CASE pieces = <<>>
    BY <1>2, <1>3, <1>6, <2>1
  <2>2. CASE pieces # <<>>
    <3>1. Len(file) = p /\ \A i \in 1..p : file[i] = PieceOf(c, i)
      <4>1. /\ Len(file) = p - 0 /\ \A i \in 1..(p - 0) : file[i] = PieceOf(c, 0 + i)
        BY <1>6, PiecesLen
      <4> QED BY <4>1
    <3>2. file' = Written(c, pieces)
      BY <1>3, <2>2
    <3>3. Written(c, pieces) = [i \in 1..t |-> IF i > p THEN pieces[i - p] ELSE file[i]]
      <4>1. pos[c] + Len(pieces) = t /\ (IF t > Len(file) THEN t ELSE Len(file)) = t
        <5>1. pos[c] + Len(pieces) = p + (t - p)
          BY <1>1, <1>2
        <5>2. Len(file) = p /\ p <= t
          BY <1>1, <3>1
        <5> QED BY <5>1, <5>2
      <4>2. \A i \in 1..t : (CASE i > p /\ i <= t -> pieces[i - p]
                               [] i <= p /\ i > Len(file) -> Hole
                               [] OTHER -> file[i])
                            = IF i > p THEN pieces[i - p] ELSE file[i]
        BY <1>1, <3>1
      <4> QED BY <1>1, <4>1, <4>2 DEF Written
    <3>4. \A i \in 1..t : (IF i > p THEN pieces[i - p] ELSE file[i]) = PieceOf(c, i)
      <4>1. ASSUME NEW i \in 1..t, i > p PROVE pieces[i - p] = PieceOf(c, i)
        <5>1. i - p \in 1..(t - p) /\ p + (i - p) = i
          BY <1>1, <4>1
        <5> QED BY <1>2, <5>1
      <4>2. ASSUME NEW i \in 1..t, ~(i > p) PROVE file[i] = PieceOf(c, i)
        BY <1>1, <3>1, <4>2
      <4> QED BY <4>1, <4>2
    <3>5. Written(c, pieces) = [i \in 1..t |-> PieceOf(c, i)]
      BY <3>3, <3>4
    <3>6. Pieces(c, 0, t) = [i \in 1..t |-> PieceOf(c, i)]
      <4>1. t - 0 = t /\ \A i \in 1..t : 0 + i = i
        OBVIOUS
      <4> QED BY <4>1 DEF Pieces
    <3> QED BY <3>2, <3>5, <3>6
  <2> QED BY <2>1, <2>2
<1> QED BY <1>1, <1>4, <1>5, <1>6

\* What is in front of a thread that has read packet by packet.
LEMMA NextPacket ==
    ASSUME TypeOK, Acked, Scripted, NEW c \in Conns, pc[c] = "receive",
           NEW t \in Nat, read[c] = 2 * t + 2, read[c] + 1 \in 1..Len(sent[c])
    PROVE  \/ First(c) = ChunkHead(t + 1)
           \/ First(c) = One(Other)
           \/ First(c) = One(FileEOF) /\ t = total[c]
<1>1. PICK m \in Nat : Script(c, m) /\ (Len(sent[c]) = m \/ Last(c, m))
  BY DEF Scripted
<1>2. PICK n \in Nat : n = Len(sent[c])
  BY DEF TypeOK
<1>3. n >= m /\ n <= m + 1
  BY <1>1, <1>2 DEF Last
<1>4. 2 * t + 3 <= n /\ First(c) = sent[c][2 * t + 3]
  <2>1. read[c] + 1 = 2 * t + 3
    OBVIOUS
  <2> QED BY <1>2, <2>1 DEF First
<1>5. m >= 2
  BY <1>3, <1>4
<1>6. PICK k \in Nat : m = 2 * k + 2
  BY <1>1, <1>5 DEF Script
<1>7. CASE t < k
  <2>1. t + 1 \in Nat /\ t + 1 >= 1 /\ 2 * (t + 1) + 2 <= m /\ 2 * (t + 1) + 1 = 2 * t + 3
    BY <1>6, <1>7
  <2>2. sent[c][2 * (t + 1) + 1] = ChunkHead(t + 1)
    BY <1>1, <2>1 DEF Script
  <2> QED BY <1>4, <2>1, <2>2
<1>8. CASE ~(t < k)
  <2>1. t = k /\ n = m + 1 /\ 2 * t + 3 = m + 1 /\ n # m
    BY <1>3, <1>4, <1>6, <1>8
  <2>2. Last(c, m)
    BY <1>1, <1>2, <2>1
  <2>3. \/ sent[c][m + 1] = One(Other)
        \/ sent[c][m + 1] = One(FileEOF) /\ m = 2 * total[c] + 2
    BY <2>2 DEF Last
  <2>4. total[c] \in Int
    BY StreamAssumption DEF TypeOK, NoClient
  <2>5. m = 2 * total[c] + 2 => t = total[c]
    BY <1>6, <2>1, <2>4
  <2> QED BY <1>4, <2>1, <2>3, <2>5
<1> QED BY <1>7, <1>8

\* A stream that has lost nothing so far had lost nothing before.
LEMMA StillComplete ==
    ASSUME TypeOK, NEW c \in Conns, ReceiveChunk(c), ~ lost'[c]
    PROVE  ~ lost[c]
<1>1. ASSUME NEW pieces, Flush(c, pieces) PROVE ~ lost[c]
  BY <1>1 DEF Flush, TypeOK
<1>2. ASSUME NEW next, CloseFile(c, next) PROVE ~ lost[c]
  BY <1>1, <1>2 DEF CloseFile
<1>3. ASSUME NEW pieces, WriteChunk(c, pieces) PROVE ~ lost[c]
  BY <1>1, <1>3 DEF WriteChunk
<1>4. CASE UNCHANGED stream
  BY <1>4 DEF stream
<1> QED BY <1>2, <1>3, <1>4 DEF ReceiveChunk

\* A turn of the loop that takes one packet.
LEMMA LoopFaithful ==
    ASSUME TypeOK, Acked, Scripted, NEW c \in Conns, ReceiveChunk(c), aligned'[c],
           FaithfulAt(c), UNCHANGED total
    PROVE  FaithfulAt(c)'
<1>1. PICK t \in Nat : t = transferred[c]
  BY DEF TypeOK
<1>2. PICK p \in Nat : p = pos[c]
  BY DEF TypeOK
<1>3. /\ pc[c] = "receive" /\ acks[c] = 2 /\ acks' = acks
  BY DEF ReceiveChunk, Acked, AckedAt
<1>4. /\ read[c] = 2 * t + 2
      /\ ~ lost'[c] => /\ p <= t /\ buffered[c] = Pieces(c, p, t)
                       /\ alone[c] => file = Pieces(c, 0, p)
  BY <1>1, <1>2, <1>3, StillComplete DEF FaithfulAt, InLoop, StreamAt
<1>5. acks'[c] # 3
  BY <1>3
<1>6. CASE pc'[c] = "close"
  BY <1>5, <1>6 DEF FaithfulAt
<1>7. ASSUME NEW k \in Reads(c), NEW type \in TypesAtFront(c), Take(c, k), type = FileEOF,
             CloseFile(c, "ackEOF")
      PROVE  FaithfulAt(c)'
  <2>1. read[c] + 1 \in 1..Len(sent[c])
    BY <1>7, TakeTyped
  <2>2. \/ First(c) = ChunkHead(t + 1)
        \/ First(c) = One(Other)
        \/ First(c) = One(FileEOF) /\ t = total[c]
    BY <1>3, <1>4, <2>1, NextPacket
  <2>3. t = total[c]
    BY <1>7, <2>2 DEF TypesAtFront, ChunkHead, One, FileChunk, FileEOF, Other
  <2>4. ASSUME ~ lost'[c], alone'[c] PROVE file' = Pieces(c, 0, t)
    <3>1. Flush(c, Pieces(c, pos[c], t)) /\ pos[c] <= t
      BY <1>2, <1>4, <1>7, <2>4 DEF CloseFile
    <3>2. /\ alone'[c] => alone[c]
          /\ file = Pieces(c, 0, pos[c]) => file' = Pieces(c, 0, t)
      BY <2>4, <3>1, FlushAppends
    <3> QED BY <1>2, <1>4, <2>4, <3>2
  <2>5. ~ streamOpen'[c] /\ transferred' = transferred /\ pc'[c] = "ackEOF"
    BY <1>7 DEF CloseFile, GoesTo, TypeOK
  <2>6. Complete(c)'
    BY <1>1, <2>3, <2>4, <2>5 DEF Complete
  <2> QED BY <1>5, <2>5, <2>6 DEF FaithfulAt
<1>8. ASSUME NEW k \in Reads(c), NEW type \in TypesAtFront(c), Take(c, k), type = FileChunk,
             NEW chunk \in ChunkIn(c, k), WriteChunk(c, chunk.pieces)
      PROVE  FaithfulAt(c)'
  <2>1. /\ read[c] + 1 \in 1..Len(sent[c]) /\ k = OnePacket(c) /\ read'[c] = read[c] + k
    BY <1>8, TakeTyped
  <2>2. \/ First(c) = ChunkHead(t + 1)
        \/ First(c) = One(Other)
        \/ First(c) = One(FileEOF) /\ t = total[c]
    BY <1>3, <1>4, <2>1, NextPacket
  <2>3. First(c) = ChunkHead(t + 1)
    BY <1>8, <2>2 DEF TypesAtFront, One, FileChunk, FileEOF, Other
  <2>4. k = 2 /\ chunk.pieces = <<PieceOf(c, t + 1)>>
    <3>1. First(c).type = FileChunk /\ First(c).part = "head" /\ First(c).seq = t + 1
      BY <2>3 DEF ChunkHead
    <3>2. k = 2
      BY <2>1, <3>1 DEF OnePacket
    <3>3. chunk = [seq |-> t + 1, pieces |-> <<PieceOf(c, t + 1)>>]
      BY <1>8, <3>1, <3>2 DEF ChunkIn, PieceOf
    <3> QED BY <3>2, <3>3
  <2>5. transferred'[c] = t + 1 /\ pc'[c] = "receive" /\ read'[c] = 2 * (t + 1) + 2
    <3>1. Len(chunk.pieces) = 1
      BY <2>4
    <3>2. transferred'[c] = t + 1 /\ pc'[c] = "receive"
      BY <1>1, <1>3, <1>8, <3>1 DEF WriteChunk, TypeOK
    <3> QED BY <1>4, <2>1, <2>4, <3>2
  <2>6. ASSUME ~ lost'[c] PROVE StreamAt(c)'
    <3>1. buffered[c] \o chunk.pieces = Pieces(c, p, t + 1)
      <4>1. buffered[c] \in Seq(Piece) /\ PieceOf(c, t + 1) \in Piece
        <5>1. buffered[c] \in Seq(Piece)
          BY DEF TypeOK
        <5>2. PieceOf(c, t + 1) \in Piece
          BY DEF PieceOf, Piece
        <5> QED BY <5>1, <5>2
      <4>2. buffered[c] \o <<PieceOf(c, t + 1)>> = Append(buffered[c], PieceOf(c, t + 1))
        <5> HIDE DEF PieceOf, Piece
        <5> QED BY <4>1
      <4>3. Append(Pieces(c, p, t), PieceOf(c, t + 1)) = Pieces(c, p, t + 1)
        BY <1>4, <2>6, PiecesAppend
      <4> QED BY <1>4, <2>4, <2>6, <4>2, <4>3
    <3>2. t + 1 \in Nat /\ pos[c] <= t + 1 /\ p <= t + 1
      BY <1>2, <1>4, <2>6
    <3>3. CASE /\ buffered' = [buffered EXCEPT ![c] = Pieces(c, p, t + 1)]
               /\ UNCHANGED <<file, pos, alone, lost>>
      <4>1. buffered'[c] = Pieces(c, p, t + 1)
        BY <3>3 DEF TypeOK
      <4> QED BY <1>2, <1>4, <2>5, <2>6, <3>2, <3>3, <4>1 DEF StreamAt
    <3>4. CASE Flush(c, Pieces(c, p, t + 1))
      <4>1. /\ pos'[c] = t + 1 /\ buffered'[c] = <<>> /\ (alone'[c] => alone[c])
            /\ file = Pieces(c, 0, pos[c]) => file' = Pieces(c, 0, t + 1)
        BY <1>2, <2>6, <3>2, <3>4, FlushAppends
      <4>2. Pieces(c, t + 1, t + 1) = <<>>
        BY <3>2, PiecesNone
      <4> QED BY <1>2, <1>4, <2>5, <2>6, <3>2, <4>1, <4>2 DEF StreamAt
    <3> QED BY <1>8, <3>1, <3>3, <3>4 DEF WriteChunk
  <2>7. InLoop(c)'
    BY <2>5, <2>6 DEF InLoop
  <2> QED BY <1>5, <2>5, <2>7 DEF FaithfulAt
<1>9. ASSUME CloseFile(c, "close") \/ GoesTo(c, "close") PROVE pc'[c] = "close"
  BY <1>9 DEF CloseFile, GoesTo, TypeOK
<1> QED BY <1>6, <1>7, <1>8, <1>9 DEF ReceiveChunk

LEMMA OwnFaithful ==
    ASSUME TypeOK, Acked, Scripted, Fresh, NEW c \in Conns, Thread(c), aligned'[c],
           aligned[c] => FaithfulAt(c), UNCHANGED total
    PROVE  FaithfulAt(c)'
<1>0. AckedAt(c) /\ acks[c] \in 0..3 /\ read[c] \in Nat /\ FreshAt(c)
  BY DEF Acked, TypeOK, Fresh
<1>1. ASSUME NEW expected \in {HandshakePacket, FileMeta}, NEW next,
             GetRequest(c, expected, next), acks[c] # 3
      PROVE  /\ aligned[c] /\ acks'[c] # 3
             /\ pc'[c] = "returned" \/ (pc'[c] = next /\ read'[c] = read[c] + 1)
  <2>1. UNCHANGED acks
    BY <1>1 DEF GetRequest
  <2>2. CASE UNCHANGED input /\ GoesTo(c, "returned")
    BY <1>1, <2>1, <2>2 DEF input, GoesTo, TypeOK
  <2>3. ASSUME NEW k \in Reads(c), NEW type \in TypesAtFront(c), Take(c, k),
               GoesTo(c, IF type = expected THEN next ELSE "returned")
        PROVE  /\ aligned[c]
               /\ pc'[c] = "returned" \/ (pc'[c] = next /\ read'[c] = read[c] + 1)
    <3>1. aligned[c] /\ k = OnePacket(c) /\ read'[c] = read[c] + k
      BY <2>3, TakeTyped
    <3>2. pc'[c] = IF type = expected THEN next ELSE "returned"
      BY <2>3 DEF GoesTo, TypeOK
    <3>3. type = expected => First(c).type = expected
      BY <2>3, <1>1 DEF TypesAtFront, HandshakePacket, FileMeta, FileChunk, FileEOF, Other
    <3>4. type = expected => k = 1
      BY <1>1, <3>1, <3>3 DEF OnePacket, HandshakePacket, FileMeta, FileChunk
    <3> QED BY <3>1, <3>2, <3>4
  <2> QED BY <1>1, <2>1, <2>2, <2>3 DEF GetRequest
<1>2. CASE ReceiveHandshake(c)
  <2>1. pc[c] = "handshake" /\ acks[c] # 3 /\ GetRequest(c, HandshakePacket, "ackHandshake")
    BY <1>0, <1>2 DEF ReceiveHandshake, AckedAt
  <2>2. /\ aligned[c] /\ acks'[c] # 3
        /\ pc'[c] = "returned" \/ (pc'[c] = "ackHandshake" /\ read'[c] = read[c] + 1)
    BY <1>1, <2>1
  <2>3. read[c] = 0
    BY <2>1, <2>2 DEF FaithfulAt
  <2> QED BY <2>2, <2>3 DEF FaithfulAt
<1>3. CASE ReceiveMeta(c)
  <2>1. pc[c] = "meta" /\ acks[c] # 3 /\ GetRequest(c, FileMeta, "ackMeta")
    BY <1>0, <1>3 DEF ReceiveMeta, AckedAt
  <2>2. /\ aligned[c] /\ acks'[c] # 3
        /\ pc'[c] = "returned" \/ (pc'[c] = "ackMeta" /\ read'[c] = read[c] + 1)
    BY <1>1, <2>1
  <2>3. read[c] = 1
    BY <2>1, <2>2 DEF FaithfulAt
  <2> QED BY <2>2, <2>3 DEF FaithfulAt
<1>4. CASE AckHandshake(c) \/ AckMeta(c)
  <2>1. /\ aligned[c] /\ UNCHANGED read /\ pc[c] \in {"ackHandshake", "ackMeta"}
        /\ pc'[c] \in {"escaped", IF pc[c] = "ackHandshake" THEN "meta" ELSE "open"}
        /\ acks'[c] \in {acks[c], acks[c] + 1}
    BY <1>4 DEF AckHandshake, AckMeta, Acknowledge, GoesTo, input, TypeOK
  <2>2. acks'[c] # 3
    BY <1>0, <2>1 DEF AckedAt
  <2> QED BY <2>1, <2>2 DEF FaithfulAt
<1>5. CASE OpenFile(c)
  <2>1. /\ aligned[c] /\ pc[c] = "open" /\ pc'[c] = "receive"
        /\ file' = <<>> \/ UNCHANGED alone
        /\ UNCHANGED <<read, acks, transferred, buffered, pos>>
    BY <1>5 DEF OpenFile, GoesTo, input, TypeOK
  <2>2. /\ read[c] = 2 /\ transferred[c] = 0 /\ pos[c] = 0 /\ buffered[c] = <<>>
        /\ acks[c] # 3 /\ ~ alone[c]
    BY <1>0, <2>1 DEF FaithfulAt, FreshAt, AckedAt
  <2>3. Pieces(c, 0, 0) = <<>>
    BY PiecesNone
  <2>4. InLoop(c)'
    BY <2>1, <2>2, <2>3 DEF InLoop, StreamAt
  <2> QED BY <2>1, <2>2, <2>4 DEF FaithfulAt
<1>6. CASE ReceiveChunk(c)
  <2>1. aligned[c]
    <3>1. (\E k \in Reads(c) : Take(c, k)) \/ UNCHANGED input
      BY <1>6 DEF ReceiveChunk
    <3> QED BY <3>1, TakeTyped DEF input
  <2> QED BY <1>6, <2>1, LoopFaithful
<1>7. CASE AckEOF(c)
  <2>1. aligned[c] /\ pc[c] = "ackEOF" /\ UNCHANGED stream /\ acks[c] = 2
    BY <1>0, <1>7 DEF AckEOF, input, AckedAt
  <2>2. Complete(c)
    BY <2>1 DEF FaithfulAt
  <2>3. Complete(c)'
    BY <2>1, <2>2 DEF Complete, stream
  <2>4. \/ pc'[c] = "close" /\ mismatch'[c] = (transferred[c] # total[c])
        \/ pc'[c] = "escaped" /\ acks'[c] = acks[c]
    BY <1>7 DEF AckEOF, GoesTo, TypeOK
  <2>5. acks'[c] = 3 => pc'[c] = "close" /\ ~ mismatch'[c]
    <3>1. transferred[c] = total[c]
      BY <2>2 DEF Complete
    <3>2. acks[c] # 3
      BY <2>1
    <3> QED BY <2>4, <3>1, <3>2
  <2>6. pc'[c] \in {"close", "escaped"}
    BY <2>4
  <2> QED BY <2>3, <2>5, <2>6 DEF FaithfulAt
<1>8. CASE CloseSocket(c)
  <2>1. /\ aligned[c] /\ pc[c] = "close" /\ pc'[c] = "done"
        /\ UNCHANGED <<stream, acks, mismatch>>
    BY <1>8 DEF CloseSocket, GoesTo, input, TypeOK
  <2>2. Complete(c) => Complete(c)'
    BY <2>1 DEF Complete, stream
  <2> QED BY <2>1, <2>2 DEF FaithfulAt
<1> QED BY <1>2, <1>3, <1>4, <1>5, <1>6, <1>7, <1>8 DEF Thread

LEMMA FaithfulStep ==
    ASSUME TypeOK, Acked, Scripted, Fresh, Faithful, [Next]_vars
    PROVE  Faithful'
<1>1. UNCHANGED total
  BY WhoSends
<1>2. CASE UNCHANGED <<pc, acks, input, stream, mismatch>>
  BY <1>1, <1>2 DEF Faithful, FaithfulAt, InLoop, StreamAt, Complete, input, stream
<1>3. ASSUME NEW c \in Conns, Thread(c) PROVE Faithful'
  <2>1. ASSUME NEW d \in Conns, d # c, aligned'[d] PROVE FaithfulAt(d)'
    <3>1. /\ pc'[d] = pc[d] /\ acks'[d] = acks[d] /\ read'[d] = read[d]
          /\ aligned[d] /\ transferred'[d] = transferred[d]
          /\ buffered'[d] = buffered[d] /\ pos'[d] = pos[d]
          /\ streamOpen'[d] = streamOpen[d] /\ mismatch'[d] = mismatch[d]
          /\ lost'[d] = lost[d]
          /\ alone'[d] => alone[d] /\ file' = file
      BY <1>3, <2>1, ThreadOthers DEF OthersKept
    <3>2. FaithfulAt(d)
      BY <3>1 DEF Faithful
    <3>3. InLoop(d) => InLoop(d)'
      BY <3>1 DEF InLoop, StreamAt
    <3>4. Complete(d) => Complete(d)'
      BY <1>1, <3>1 DEF Complete
    <3> QED BY <3>1, <3>2, <3>3, <3>4 DEF FaithfulAt
  <2>2. aligned'[c] => FaithfulAt(c)'
    BY <1>1, <1>3, OwnFaithful DEF Faithful
  <2> QED BY <2>1, <2>2 DEF Faithful
<1>4. CASE Crashes
  <2>1. ASSUME NEW d \in Conns, aligned[d] PROVE FaithfulAt(d)'
    <3>1. /\ pc'[d] = "crashed" /\ FaithfulAt(d) /\ UNCHANGED <<acks, stream, mismatch>>
      BY <1>4, <2>1 DEF Crashes, Faithful
    <3>2. Complete(d) => Complete(d)'
      BY <1>1, <3>1 DEF Complete, stream
    <3> QED BY <3>1, <3>2 DEF FaithfulAt
  <2> QED BY <1>4, <2>1 DEF Crashes, Faithful, input
<1> QED BY <1>2, <1>3, <1>4, WhoseStep

-----------------------------------------------------------------------------
(* Streams that are left open.                                             *)

\* How a turn of the loop leaves the stream.
LEMMA LoopOpens ==
    ASSUME TypeOK, TypeOK', Acked, Scripted, Faithful, NEW c \in Conns, ReceiveChunk(c)
    PROVE  OpenAt(c)'
<1>1. ASSUME NEW next, CloseFile(c, next) PROVE ~ streamOpen'[c]
  BY <1>1 DEF CloseFile, TypeOK
<1>2. ASSUME NEW pieces, WriteChunk(c, pieces) PROVE pc'[c] = "receive"
  BY <1>2 DEF WriteChunk, ReceiveChunk
<1>3. ASSUME NEW k \in Reads(c), NEW type \in TypesAtFront(c), Take(c, k), type = FileChunk,
             NEW chunk \in ChunkIn(c, k), chunk.seq > SeqLimit, aligned'[c]
      PROVE  PastLimit(c)'
  <2>1. /\ k \in Nat /\ k >= 1 /\ read[c] \in Nat /\ read'[c] = read[c] + k
        /\ read[c] + 1 \in 1..Len(sent[c]) /\ aligned[c] /\ k = OnePacket(c)
        /\ UNCHANGED sent
    BY <1>3, TakeTyped DEF TypeOK, ReceiveChunk, peer
  <2>2. PICK t \in Nat : t = transferred[c]
    BY DEF TypeOK
  <2>3. pc[c] = "receive" /\ read[c] = 2 * t + 2
    BY <2>1, <2>2 DEF ReceiveChunk, Faithful, FaithfulAt, InLoop
  <2>4. First(c) = ChunkHead(t + 1)
    <3>1. \/ First(c) = ChunkHead(t + 1)
          \/ First(c) = One(Other)
          \/ First(c) = One(FileEOF) /\ t = total[c]
      BY <2>1, <2>3, NextPacket
    <3> QED BY <1>3, <3>1 DEF TypesAtFront, One, FileChunk, FileEOF, Other
  <2>5. First(c).type = FileChunk /\ First(c).part = "head"
    BY <2>4 DEF ChunkHead
  <2>6. k = 2
    BY <2>1, <2>5 DEF OnePacket
  <2>7. chunk.seq = First(c).seq
    BY <1>3, <2>5, <2>6 DEF ChunkIn
  <2>8. read[c] + 1 \in 1..read'[c]
    BY <2>1
  <2> QED BY <1>3, <2>1, <2>7, <2>8 DEF PastLimit, First
<1> QED BY <1>1, <1>2, <1>3 DEF ReceiveChunk, OpenAt

LEMMA OpenStep ==
    ASSUME TypeOK, Acked, Scripted, Faithful, OpenStream, [Next]_vars
    PROVE  OpenStream'
<1>1. TypeOK' /\ Grows
  BY TypeStep
<1>2. ASSUME NEW d \in Conns, pc'[d] \in {pc[d], "crashed"}, read'[d] = read[d],
             aligned'[d] = aligned[d], streamOpen'[d] = streamOpen[d]
      PROVE  OpenAt(d)'
  <2>1. read[d] \in Nat
    BY DEF TypeOK
  <2>2. read'[d] >= read[d]
    BY <1>2, <2>1
  <2>3. PastLimit(d) => PastLimit(d)'
    BY <1>1, <2>2, PastLimitKept
  <2> QED BY <1>2, <2>3 DEF OpenStream, OpenAt
<1>3. CASE UNCHANGED <<pc, acks, input, stream, mismatch>> \/ Crashes
  BY <1>2, <1>3 DEF OpenStream, Crashes, input, stream
<1>4. ASSUME NEW c \in Conns, Thread(c) PROVE OpenStream'
  <2>1. ASSUME NEW d \in Conns, d # c PROVE OpenAt(d)'
    BY <1>2, <1>4, <2>1, ThreadOthers DEF OthersKept
  <2>2. OpenAt(c)'
    <3>1. CASE ReceiveChunk(c)
      BY <1>1, <3>1, LoopOpens
    <3>2. CASE OpenFile(c)
      BY <3>2 DEF OpenFile, GoesTo, TypeOK, OpenAt
    <3>3. CASE ~ ReceiveChunk(c) /\ ~ OpenFile(c)
      <4>1. /\ pc[c] \notin {"receive", "crashed"} /\ UNCHANGED stream
            /\ aligned'[c] => aligned[c]
        <5>1. pc[c] \notin {"receive", "crashed"} /\ UNCHANGED stream
          BY <1>4, <3>3 DEF Thread, ReceiveHandshake, AckHandshake, ReceiveMeta, AckMeta,
                AckEOF, CloseSocket, GetRequest, Acknowledge
        <5>2. (\E k \in Reads(c) : Take(c, k)) \/ UNCHANGED input
          BY <1>4, <3>3 DEF Thread, ReceiveHandshake, AckHandshake, ReceiveMeta, AckMeta,
                AckEOF, CloseSocket, GetRequest, Acknowledge
        <5> QED BY <5>1, <5>2, TakeTyped DEF input
      <4>2. PastLimit(c) => PastLimit(c)'
        BY <1>1, <1>4, ReadGrows, PastLimitKept
      <4> QED BY <4>1, <4>2 DEF OpenStream, OpenAt, stream
    <3> QED BY <3>1, <3>2, <3>3
  <2> QED BY <2>1, <2>2 DEF OpenStream
<1> QED BY <1>3, <1>4, WhoseStep

-----------------------------------------------------------------------------
(* The theorems.                                                           *)

StreamInv ==
    /\ TypeOK /\ Scripted /\ Acked
    /\ OpenStream /\ Fresh /\ Faithful

LEMMA StreamInit ==
    ASSUME Init PROVE StreamInv
<1> USE DEF Init
<1>1. TypeOK
  BY DEF TypeOK, Labels
<1>2. Scripted
  <2>1. ASSUME NEW c \in Conns PROVE Script(c, 0) /\ Len(sent[c]) = 0
    BY DEF Script
  <2> QED BY <2>1 DEF Scripted
<1>3. Acked
  <2>1. SUFFICES ASSUME NEW c \in Conns PROVE AckedAt(c)
    BY DEF Acked
  <2>2. /\ read[c] = 0 /\ acks[c] = 0 /\ Len(sent[c]) = 0
        /\ pc[c] \in {"done", "handshake"}
    OBVIOUS
  <2> QED BY <2>2 DEF AckedAt
<1>4. OpenStream /\ Fresh
  BY DEF OpenStream, OpenAt, Fresh, FreshAt
<1>5. Faithful
  BY DEF Faithful, FaithfulAt
<1> QED BY <1>1, <1>2, <1>3, <1>4, <1>5 DEF StreamInv

LEMMA StreamStep ==
    ASSUME StreamInv, [Next]_vars PROVE StreamInv'
BY TypeStep, ScriptedStep, AckedStep, OpenStep, FreshStep, FaithfulStep DEF StreamInv

\* Every variable keeps its type, whatever the threads and the clients do.
THEOREM StreamTypeCorrect == Spec => []TypeOK
<1>1. Init => StreamInv
  BY StreamInit
<1>2. StreamInv /\ [Next]_vars => StreamInv'
  BY StreamStep
<1>3. StreamInv => TypeOK
  BY DEF StreamInv
<1> QED BY <1>1, <1>2, <1>3, PTL DEF Spec

\* Whatever ends the loop of a thread that reads packet by packet has closed its
\* file, but for a chunk above the limit: for any number of connections, any
\* files and any limit.
THEOREM StreamsClosed == Spec => []ClosedUnlessPastLimit
<1>1. Init => StreamInv
  BY StreamInit
<1>2. StreamInv /\ [Next]_vars => StreamInv'
  BY StreamStep
<1>3. StreamInv => ClosedUnlessPastLimit
  BY DEF StreamInv, OpenStream, OpenAt, PastLimit, ClosedUnlessPastLimit
<1> QED BY <1>1, <1>2, <1>3, PTL DEF Spec

\* A client that got its last acknowledgement, and each of whose packets was one
\* read, finds its whole file there and nothing else, if nobody else wrote that
\* file and no write to it failed: for files of any size.
THEOREM AcknowledgedIsStored == Spec => []AckMeansStored
<1>1. Init => StreamInv
  BY StreamInit
<1>2. StreamInv /\ [Next]_vars => StreamInv'
  BY StreamStep
<1>3. StreamInv => AckMeansStored
  <2>1. SUFFICES ASSUME StreamInv, NEW c \in Conns, acks[c] = 3, aligned[c]
                 PROVE  /\ ~ streamOpen[c] /\ ~ mismatch[c]
                        /\ alone[c] /\ ~ lost[c] => Stored(c)
    BY DEF AckMeansStored
  <2>2. FaithfulAt(c) /\ total[c] \in Int
    BY <2>1, StreamAssumption DEF StreamInv, Faithful, TypeOK, NoClient
  <2>3. Complete(c) /\ ~ mismatch[c]
    BY <2>1, <2>2 DEF FaithfulAt
  <2>4. Pieces(c, 0, total[c]) = [i \in 1..total[c] |-> PieceOf(c, i)]
    <3>1. total[c] - 0 = total[c] /\ \A i \in 1..total[c] : 0 + i = i
      BY <2>2
    <3> QED BY <3>1 DEF Pieces
  <2> QED BY <2>3, <2>4 DEF Complete, Stored, PieceOf
<1> QED BY <1>1, <1>2, <1>3, PTL DEF Spec
=============================================================================
