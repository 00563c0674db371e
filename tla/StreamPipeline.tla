--------------------------- MODULE StreamPipeline ---------------------------
(***************************************************************************)
(* CStreamPipeline: threads that each receive a file from a client.  The   *)
(* client sends a handshake packet and the file's meta data, each of them  *)
(* acknowledged, then the file in numbered chunks and an EOF packet.       *)
(* Every thread writes the same file, DEST_WIRE.out, through a stdio       *)
(* stream of its own.                                                      *)
(*                                                                         *)
(* A stream of bytes is a sequence of cells: a chunk is two of them, head  *)
(* (with the packet type and number) and tail, any other packet is one.    *)
(***************************************************************************)
EXTENDS Integers, Sequences

CONSTANTS
    Conns,      \* the connections
    SeqLimit,   \* 10 in the code
    Files       \* how many chunks the clients' files may have, or NoClient: a
                \* set of functions on connections

NoClient == -1

ASSUME StreamAssumption ==
    SeqLimit \in Nat /\ Files \subseteq [Conns -> Nat \cup {NoClient}]

\* The packet types of the protocol; Other stands for all that are not named.
Other == 0
HandshakePacket == 1
FileMeta == 3
FileChunk == 4
FileEOF == 5

VARIABLES
    pc,           \* per connection: where its thread is
    link,         \* per client: "up", "fin" (closed its end) or "rst" (gone)
    total,        \* per client: the chunks its file has
    sent,         \* per client: the cells it sent
    read,         \* per client: how many of them were read
    acks,         \* per client: acknowledgements sent to it
    transferred,  \* per connection: transferred_size, in chunks
    buffered,     \* per connection: what its stdio stream has not written yet
    pos,          \* per connection: its stream's position in the file
    streamOpen,   \* per connection: fp is open
    socketOpen,   \* per connection: the client's socket is open
    file,         \* DEST_WIRE.out
    alone,        \* history, per connection: nobody else has opened or
                  \* written the file since it opened it
    lost,         \* history, per connection: its stream could not write all
    aligned,      \* history, per connection: each read returned one packet
    mismatch      \* per connection: the sizes were reported to differ

peer   == <<link, total, sent>>
input  == <<read, aligned>>
stream == <<transferred, buffered, pos, streamOpen, file, alone, lost>>
vars   == <<pc, peer, input, acks, stream, socketOpen, mismatch>>

None == "none"

Cell  == [type : {Other, HandshakePacket, FileMeta, FileChunk, FileEOF},
          seq : Nat, part : {"head", "tail"}]
\* A piece of the file: a chunk (whole, or with its second half missing), what
\* was written for bytes that are no chunk, or a hole.
Piece == [conn : Conns \cup {None}, seq : Nat, whole : BOOLEAN]
Garbage == [conn |-> None, seq |-> 0, whole |-> TRUE]
Hole == [conn |-> None, seq |-> 0, whole |-> FALSE]

Labels == {"handshake", "ackHandshake", "meta", "ackMeta", "open", "receive", "ackEOF",
           "close", "done", "returned", "escaped", "crashed"}

TypeOK ==
    /\ pc \in [Conns -> Labels]
    /\ link \in [Conns -> {"up", "fin", "rst"}]
    /\ total \in Files
    /\ sent \in [Conns -> Seq(Cell)]
    /\ read \in [Conns -> Nat]
    /\ acks \in [Conns -> 0..3]
    /\ transferred \in [Conns -> Nat]
    /\ buffered \in [Conns -> Seq(Piece)]
    /\ pos \in [Conns -> Nat]
    /\ streamOpen \in [Conns -> BOOLEAN]
    /\ socketOpen \in [Conns -> BOOLEAN]
    /\ file \in Seq(Piece)
    /\ alone \in [Conns -> BOOLEAN]
    /\ lost \in [Conns -> BOOLEAN]
    /\ aligned \in [Conns -> BOOLEAN]
    /\ mismatch \in [Conns -> BOOLEAN]

Init ==
    /\ total \in Files
    /\ pc = [c \in Conns |-> IF total[c] = NoClient THEN "done" ELSE "handshake"]
    /\ link = [c \in Conns |-> "up"]
    /\ sent = [c \in Conns |-> <<>>]
    /\ read = [c \in Conns |-> 0]
    /\ acks = [c \in Conns |-> 0]
    /\ transferred = [c \in Conns |-> 0]
    /\ buffered = [c \in Conns |-> <<>>]
    /\ pos = [c \in Conns |-> 0]
    /\ streamOpen = [c \in Conns |-> FALSE]
    /\ socketOpen = [c \in Conns |-> total[c] # NoClient]
    /\ file = <<>>
    /\ alone = [c \in Conns |-> FALSE]
    /\ lost = [c \in Conns |-> FALSE]
    /\ aligned = [c \in Conns |-> TRUE]
    /\ mismatch = [c \in Conns |-> FALSE]

\* The plugin has returned, been left by an exception, or gone with the process.
Over(c) == pc[c] \in {"done", "returned", "escaped", "crashed"}

GoesTo(c, to) == pc' = [pc EXCEPT ![c] = to]

-----------------------------------------------------------------------------
(* Socket and file, as the plugin uses them.                               *)

Arrived(c) == IF link[c] = "rst" THEN 0 ELSE Len(sent[c]) - read[c]

First(c) == sent[c][read[c] + 1]

\* One read returns any number of the cells that have arrived.
Reads(c) == 1..Arrived(c)

OnePacket(c) == IF First(c).type = FileChunk THEN 2 ELSE 1

Take(c, k) ==
    /\ read' = [read EXCEPT ![c] = @ + k]
    /\ aligned' = [aligned EXCEPT ![c] = @ /\ k = OnePacket(c)]

\* The int at the front of what is read.  The tail of a chunk begins with the
\* file's own bytes, which may look like anything.
TypesAtFront(c) ==
    IF First(c).part = "head" THEN {First(c).type} ELSE {Other, FileChunk, FileEOF}

\* The stream of c writes its pieces at its own position; a gap is a hole.
Written(c, pieces) ==
    LET end == pos[c] + Len(pieces)
    IN  [i \in 1..(IF end > Len(file) THEN end ELSE Len(file)) |->
            CASE i > pos[c] /\ i <= end -> pieces[i - pos[c]]
              [] i <= pos[c] /\ i > Len(file) -> Hole
              [] OTHER -> file[i]]

\* What stdio has buffered reaches the file, or cannot be written and is gone:
\* the results of fwrite and fclose are not looked at.
Flush(c, pieces) ==
    /\ \/ /\ file' = IF pieces = <<>> THEN file ELSE Written(c, pieces)
          /\ pos' = [pos EXCEPT ![c] = @ + Len(pieces)]
          /\ alone' = [d \in Conns |-> alone[d] /\ (d = c \/ pieces = <<>>)]
          /\ UNCHANGED lost
       \/ /\ pieces # <<>>
          /\ lost' = [lost EXCEPT ![c] = TRUE]
          /\ UNCHANGED <<file, pos, alone>>
    /\ buffered' = [buffered EXCEPT ![c] = <<>>]

\* SendBytes throws once the client is gone; nothing here catches that.
Acknowledge(c, next) ==
    /\ \/ /\ link[c] # "rst"
          /\ acks' = [acks EXCEPT ![c] = @ + 1]
          /\ GoesTo(c, next)
       \/ /\ link[c] # "up"
          /\ GoesTo(c, "escaped")
          /\ UNCHANGED acks
    /\ UNCHANGED <<peer, input, stream, socketOpen, mismatch>>

-----------------------------------------------------------------------------
(* The thread of a connection.                                             *)

\* Mutant of GetRequest: an empty read does not end the loop.
GetRequestGoesOn(c, expected, next) ==
    /\ \E k \in Reads(c) : \E type \in TypesAtFront(c) :
          /\ Take(c, k)
          /\ GoesTo(c, IF type = expected THEN next ELSE "returned")
    /\ UNCHANGED <<peer, acks, stream, socketOpen, mismatch>>

\* GetRequest: the next bytes, or none at the end of stream, whose "type" is
\* none of the protocol's.  An exception of the read is logged and the loop
\* goes round.  A packet of another type ends the plugin as it is.
GetRequest(c, expected, next) ==
    /\ \/ \E k \in Reads(c) : \E type \in TypesAtFront(c) :
             /\ Take(c, k)
             /\ GoesTo(c, IF type = expected THEN next ELSE "returned")
       \/ /\ link[c] = "fin" /\ Arrived(c) = 0
          /\ GoesTo(c, "returned")
          /\ UNCHANGED input
    /\ UNCHANGED <<peer, acks, stream, socketOpen, mismatch>>

ReceiveHandshake(c) == pc[c] = "handshake" /\ GetRequest(c, HandshakePacket, "ackHandshake")

AckHandshake(c) == pc[c] = "ackHandshake" /\ Acknowledge(c, "meta")
ReceiveMeta(c) == pc[c] = "meta" /\ GetRequest(c, FileMeta, "ackMeta")
AckMeta(c) == pc[c] = "ackMeta" /\ Acknowledge(c, "open")

\* Mutant of OpenFile: the file is opened in append mode, without truncation.
OpenFileAppends(c) ==
    /\ pc[c] = "open"
    /\ \/ /\ pos' = [pos EXCEPT ![c] = Len(file)]
          /\ streamOpen' = [streamOpen EXCEPT ![c] = TRUE]
          /\ alone' = [d \in Conns |-> d = c]
       \/ UNCHANGED <<pos, streamOpen, alone>>
    /\ GoesTo(c, "receive")
    /\ UNCHANGED <<peer, input, acks, transferred, buffered, file, lost, socketOpen, mismatch>>

\* fopen("DEST_WIRE.out", "wb") truncates the file under the other streams, or
\* fails; the loop begins all the same.
OpenFile(c) ==
    /\ pc[c] = "open"
    /\ \/ /\ file' = <<>>
          /\ streamOpen' = [streamOpen EXCEPT ![c] = TRUE]
          /\ alone' = [d \in Conns |-> d = c]
       \/ UNCHANGED <<file, streamOpen, alone>>
    /\ GoesTo(c, "receive")
    /\ UNCHANGED <<peer, input, acks, transferred, buffered, pos, lost, socketOpen, mismatch>>

\* What the plugin may make of k cells that look like a chunk: the number it
\* reads and the pieces it writes.  Only the first packet of a buffer is looked
\* at.  A read may cut a chunk in its data, before its size or before its
\* number, and what is missing reads as zero; in the middle of a chunk the
\* file's own bytes are taken for a number and a size (one that fits).
ChunkIn(c, k) ==
    LET number == First(c).seq
        piece(whole) == [conn |-> c, seq |-> number, whole |-> whole]
    IN  CASE First(c).part = "tail" ->
               {[seq |-> n, pieces |-> <<Garbage>>] : n \in {0, SeqLimit + 1}}
          [] First(c).part = "head" /\ k > 1 ->
               {[seq |-> number, pieces |-> <<piece(TRUE)>>]}
          [] First(c).part = "head" /\ k = 1 ->
               {[seq |-> number, pieces |-> <<piece(FALSE)>>],
                [seq |-> number, pieces |-> <<>>],
                [seq |-> 0, pieces |-> <<>>]}

\* fwrite: into the stream's buffer, which stdio writes out when it is full.
WriteChunk(c, pieces) ==
    /\ streamOpen[c] \/ pieces = <<>>
    /\ transferred' = [transferred EXCEPT ![c] = @ + Len(pieces)]
    /\ \/ /\ buffered' = [buffered EXCEPT ![c] = @ \o pieces]
          /\ UNCHANGED <<file, pos, alone, lost>>
       \/ Flush(c, buffered[c] \o pieces)
    /\ UNCHANGED <<pc, streamOpen>>

\* Mutant of CloseFile: fp is not closed.
CloseFileNot(c, next) ==
    /\ streamOpen[c]
    /\ GoesTo(c, next)
    /\ UNCHANGED stream

CloseFile(c, next) ==
    /\ streamOpen[c]
    /\ Flush(c, buffered[c])
    /\ streamOpen' = [streamOpen EXCEPT ![c] = FALSE]
    /\ GoesTo(c, next)
    /\ UNCHANGED transferred

\* One turn of the loop: an EOF packet, a chunk below the limit, a chunk above
\* it (the loop is left with fp open), or anything else - the zeros of a read
\* that returned nothing included: a time-out, the end of stream, a reset.
ReceiveChunk(c) ==
    /\ pc[c] = "receive"
    /\ \/ \E k \in Reads(c) : \E type \in TypesAtFront(c) :
             /\ Take(c, k)
             /\ \/ type = FileEOF /\ CloseFile(c, "ackEOF")
                \/ type \notin {FileEOF, FileChunk} /\ CloseFile(c, "close")
                \/ /\ type = FileChunk
                   /\ \E chunk \in ChunkIn(c, k) :
                         \/ chunk.seq > SeqLimit /\ GoesTo(c, "close") /\ UNCHANGED stream
                         \/ chunk.seq <= SeqLimit /\ WriteChunk(c, chunk.pieces)
       \/ /\ Arrived(c) = 0
          /\ CloseFile(c, "close")
          /\ UNCHANGED input
    /\ UNCHANGED <<peer, acks, socketOpen, mismatch>>

\* fclose or fwrite with the null pointer of an fopen that failed: it is the end
\* of the process, with all its threads, and of what stdio had buffered.
NullStream(c) ==
    /\ pc[c] = "receive" /\ ~streamOpen[c]
    /\ \/ Arrived(c) = 0
       \/ \E k \in Reads(c) : \E type \in TypesAtFront(c) :
             type = FileChunk =>
                \E chunk \in ChunkIn(c, k) : chunk.seq <= SeqLimit /\ chunk.pieces # <<>>
    /\ pc' = [d \in Conns |-> "crashed"]
    /\ socketOpen' = [d \in Conns |-> FALSE]
    /\ UNCHANGED <<peer, input, acks, stream, mismatch>>

\* The last acknowledgement; then the sizes are compared, for the log.
AckEOF(c) ==
    /\ pc[c] = "ackEOF"
    /\ \/ /\ link[c] # "rst"
          /\ acks' = [acks EXCEPT ![c] = @ + 1]
          /\ mismatch' = [mismatch EXCEPT ![c] = transferred[c] # total[c]]
          /\ GoesTo(c, "close")
       \/ /\ link[c] # "up"
          /\ GoesTo(c, "escaped")
          /\ UNCHANGED <<acks, mismatch>>
    /\ UNCHANGED <<peer, input, stream, socketOpen>>

CloseSocket(c) ==
    /\ pc[c] = "close"
    /\ socketOpen' = [socketOpen EXCEPT ![c] = FALSE]
    /\ GoesTo(c, "done")
    /\ UNCHANGED <<peer, input, acks, stream, mismatch>>

Thread(c) ==
    \/ ReceiveHandshake(c) \/ AckHandshake(c) \/ ReceiveMeta(c) \/ AckMeta(c)
    \/ OpenFile(c) \/ ReceiveChunk(c) \/ AckEOF(c) \/ CloseSocket(c)

-----------------------------------------------------------------------------
(* The client.                                                             *)

Chunks(c) == {i \in DOMAIN sent[c] : sent[c][i].type = FileChunk /\ sent[c][i].part = "head"}
LastChunk(c) == IF Chunks(c) = {} THEN 0
                ELSE sent[c][CHOOSE i \in Chunks(c) : \A j \in Chunks(c) : j <= i].seq
Done(c) == \E i \in DOMAIN sent[c] : sent[c][i].type \in {FileEOF, Other}

Packet(type, seq) ==
    IF type = FileChunk
      THEN <<[type |-> type, seq |-> seq, part |-> "head"],
             [type |-> type, seq |-> seq, part |-> "tail"]>>
      ELSE <<[type |-> type, seq |-> seq, part |-> "head"]>>

\* It waits for the first two acknowledgements and then sends its file; it may
\* also send something else, and then sends no more.
Offer(c, type) ==
    CASE type = HandshakePacket -> sent[c] = <<>>
      [] type = FileMeta        -> Len(sent[c]) = 1 /\ acks[c] = 1
      [] type = FileChunk       -> acks[c] = 2 /\ LastChunk(c) < total[c]
      [] type = FileEOF         -> acks[c] = 2 /\ LastChunk(c) = total[c]
      [] type = Other           -> TRUE

ClientSends(c) ==
    /\ socketOpen[c] /\ link[c] = "up" /\ ~Done(c)
    /\ \E type \in {HandshakePacket, FileMeta, FileChunk, FileEOF, Other} :
          /\ Offer(c, type)
          /\ sent' = [sent EXCEPT ![c] =
                @ \o Packet(type, IF type = FileChunk THEN LastChunk(c) + 1 ELSE 0)]
    /\ UNCHANGED <<pc, link, total, input, acks, stream, socketOpen, mismatch>>

ClientLeaves(c) ==
    /\ socketOpen[c]
    /\ \/ link[c] = "up" /\ link' \in {[link EXCEPT ![c] = l] : l \in {"fin", "rst"}}
       \/ link[c] = "fin" /\ link' = [link EXCEPT ![c] = "rst"]
    /\ UNCHANGED <<pc, total, sent, input, acks, stream, socketOpen, mismatch>>

Ended == (\A c \in Conns : Over(c)) /\ UNCHANGED vars

\* A client that has reset the connection leaves GetRequest reading for ever.
Spinning(c) == pc[c] \in {"handshake", "meta"} /\ link[c] = "rst"

Spins == (\E c \in Conns : Spinning(c)) /\ UNCHANGED vars

Next ==
    \/ Ended \/ Spins
    \/ \E c \in Conns : Thread(c) \/ NullStream(c) \/ ClientSends(c) \/ ClientLeaves(c)

Spec == Init /\ [][Next]_vars

\* The operating system runs every thread; clients promise nothing.
FairSpec == Spec /\ \A c \in Conns : WF_vars(Thread(c) \/ NullStream(c))

-----------------------------------------------------------------------------
(* What a transfer promises.                                               *)

\* The file holds the chunks of c, whole, in order, and nothing else.
Stored(c) == file = [i \in 1..total[c] |-> [conn |-> c, seq |-> i, whole |-> TRUE]]

\* "Receive the file chunk, copy to temporary memory, and write it to
\* desination file" and, at EOF, "Send acknowledment to client": a client that
\* has the last acknowledgement finds all its file there, flushed and closed:
\* neither its silence nor a close, a chunk above the limit or a file that could
\* not be opened is ever acknowledged.  This takes reads that return one packet
\* each, and for the contents a client that is alone in writing the file and a
\* stream that could write all it was given.
AckMeansStored ==
    \A c \in Conns : acks[c] = 3 /\ aligned[c] =>
        /\ ~streamOpen[c] /\ ~mismatch[c]
        /\ alone[c] /\ ~lost[c] => Stored(c)

\* "Loop and receive the file data chunks till we receive EOF packet": whatever
\* ends the loop of a thread that reads packet by packet - an EOF packet, a
\* packet that is no chunk, a read without bytes - fp has been closed, but for a
\* chunk above the limit.  (The bytes of a chunk that was cut may be taken for a
\* number above the limit.)
ClosedUnlessPastLimit ==
    \A c \in Conns :
        pc[c] \in {"ackEOF", "close", "done"} /\ streamOpen[c] /\ aligned[c] =>
            \E i \in 1..read[c] : sent[c][i].seq > SeqLimit

\* A client that closes its end ends the plugin, whatever it had sent before.
CloseEnds ==
    \A c \in Conns :
        (link[c] = "fin") ~> (Over(c) \/ link[c] = "rst")
=============================================================================
