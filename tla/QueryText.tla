----------------------------- MODULE QueryText -----------------------------
(***************************************************************************)
(* How the text of a client's query is found in the bytes of its message,  *)
(* for the query log: MySQLPipeline cuts a buffer into packets, and        *)
(* CMySQLHandler and CPostgreSQLHandler look into the bytes they get.      *)
(*                                                                         *)
(* The other modules treat a packet as one value; this one has its bytes,  *)
(* numbers from 0 to 255.  Positions count from 0 as in the code.  A byte  *)
(* that is read past the end of a buffer is taken as 0; where the code     *)
(* throws for a position behind the end, the text is empty here (what an   *)
(* exception does to the connection is in HandshakePipelines).             *)
(***************************************************************************)
EXTENDS Integers, Sequences, SequencesExt

CONSTANTS
    Streams,      \* what a client may send: sequences of messages
    CutStreams    \* those of them that TCP may cut inside a message

ASSUME CutAssumption == CutStreams \subseteq Streams

At(buffer, pos) == IF pos < Len(buffer) THEN buffer[pos + 1] ELSE 0

\* std::string::substr
Substr(buffer, pos, count) ==
    SubSeq(buffer, pos + 1, IF pos + count < Len(buffer) THEN pos + count ELSE Len(buffer))

\* std::string::find of a NUL byte: the first position from pos on, or the
\* length of the buffer where the code has npos.
FindNul(buffer, pos) ==
    LET nul == {p \in pos..(Len(buffer) - 1) : At(buffer, p) = 0}
    IN  IF nul = {} THEN Len(buffer) ELSE CHOOSE p \in nul : \A q \in nul : p <= q

readCString(buffer, pos) == Substr(buffer, pos, FindNul(buffer, pos) - pos)

\* readLEInt16, readLEInt24 and readLEInt64, by their number of bytes.
readLEInt(buffer, pos, size) ==
    LET value[i \in 0..size] ==
          IF i = 0 THEN 0 ELSE value[i - 1] * 256 + At(buffer, pos + size - i)
    IN  value[size]

readBEInt32(buffer, pos) ==
    LET value[i \in 0..4] == IF i = 0 THEN 0 ELSE value[i - 1] * 256 + At(buffer, pos + i - 1)
    IN  value[4]

-----------------------------------------------------------------------------
(* CMySQLHandler.                                                          *)

readMySQLEncodedLength(buffer, start) ==
    CASE At(buffer, start) = 251 -> 0
      [] At(buffer, start) = 252 -> 2
      [] At(buffer, start) = 253 -> 3
      [] At(buffer, start) = 254 -> 8
      [] OTHER                   -> 1

readMySQLLengthEncodedInt(buffer, start) ==
    CASE readMySQLEncodedLength(buffer, start) = 0 -> 0
      [] readMySQLEncodedLength(buffer, start) = 1 -> At(buffer, start)
      [] OTHER -> readLEInt(buffer, start + 1, readMySQLEncodedLength(buffer, start))

\* Mutant of Skip: the byte that tells the size is not skipped as well.
SkipShort(buffer, pos) == pos + readMySQLEncodedLength(buffer, pos)

\* The position behind the integer at pos.
Skip(buffer, pos) ==
    LET size == readMySQLEncodedLength(buffer, pos)
    IN  pos + 1 + IF size > 1 THEN size ELSE 0

\* Of each parameter, its type and the integer its name starts with.
SkipNames(buffer, pos, count) ==
    LET behind[i \in 0..count] == IF i = 0 THEN pos ELSE Skip(buffer, behind[i - 1] + 2)
    IN  behind[count]

SkipParameters(buffer, pos, count) ==
    LET flag   == pos + (count + 7) \div 8
        values == IF At(buffer, flag) # 0 THEN SkipNames(buffer, flag + 1, count) ELSE flag + 1
    IN  IF count > 0 THEN Skip(buffer, values) ELSE pos

extract_query_from_query_command(attributes, buffer, start) ==
    LET count == readMySQLLengthEncodedInt(buffer, start + 1)
        sets  == Skip(buffer, start + 1)
        pos   == IF attributes THEN SkipParameters(buffer, Skip(buffer, sets), count)
                               ELSE start + 1
    IN  readCString(buffer, pos)

extract_query_from_prepare_command(buffer, start) == readCString(buffer, start + 1)

COM_QUERY        == 3
COM_STMT_PREPARE == 22

\* The texts that one call logs: one, or none.
MySQLLogs(attributes, buffer) ==
    CASE At(buffer, 4) = COM_QUERY ->
            <<extract_query_from_query_command(attributes, buffer, 4)>>
      [] At(buffer, 4) = COM_STMT_PREPARE ->
            <<extract_query_from_prepare_command(buffer, 4)>>
      [] OTHER -> <<>>

-----------------------------------------------------------------------------
(* CPostgreSQLHandler.                                                     *)

MsgTypeQuery == 81
MsgTypeParse == 80

getMessageBodyLength(buffer) == readBEInt32(buffer, 1) - 4

\* A Parse message; the search starts at MSG_LENGTH_LEN.  Where it finds nothing
\* npos + 1 is 0: the text starts with the message itself.
ParseText(buffer) ==
    LET stmt_name_end_idx == FindNul(buffer, 4)
        query_start_idx   == IF stmt_name_end_idx = Len(buffer) THEN 0
                                                                ELSE stmt_name_end_idx + 1
    IN  Substr(buffer, query_start_idx, FindNul(buffer, query_start_idx) - query_start_idx)

PostgreSQLLogs(buffer) ==
    CASE At(buffer, 0) = MsgTypeQuery -> <<Substr(buffer, 5, getMessageBodyLength(buffer) - 1)>>
      [] At(buffer, 0) = MsgTypeParse -> <<ParseText(buffer)>>
      [] OTHER -> <<>>

-----------------------------------------------------------------------------
(* MySQLPipeline: extract_packets().                                       *)

\* Mutant of extract_packets: the header is not counted.
extract_packets_headless(buffer) ==
    LET from[pos \in Nat] ==
          IF pos >= Len(buffer) THEN <<>>
          ELSE <<Substr(buffer, pos, readLEInt(buffer, pos, 3))>>
               \o from[pos + 4 + readLEInt(buffer, pos, 3)]
    IN  from[0]

\* Mutant of extract_packets: the first packet only.
extract_packets_first(buffer) == <<Substr(buffer, 0, readLEInt(buffer, 0, 3) + 4)>>

extract_packets(buffer) ==
    LET from[pos \in Nat] ==
          IF pos >= Len(buffer) THEN <<>>
          ELSE <<Substr(buffer, pos, readLEInt(buffer, pos, 3) + 4)>>
               \o from[pos + 4 + readLEInt(buffer, pos, 3)]
    IN  from[0]

-----------------------------------------------------------------------------
(* The clients: the two wire protocols, as far as they are looked into.    *)

\* The lowest byte first; numbers of up to four bytes.
LEBytes(n, size) ==
    [i \in 1..size |-> CASE i = 1 -> n % 256
                         [] i = 2 -> (n \div 256) % 256
                         [] i = 3 -> (n \div (256 * 256)) % 256
                         [] i = 4 -> (n \div (256 * 256 * 256)) % 256
                         [] OTHER -> 0]
BEBytes(n)       == Reverse(LEBytes(n, 4))

\* A length encoded integer in 1, 2, 3 or 8 bytes; a length encoded string.
LenEncInt(n, size) ==
    CASE size = 1 -> <<n>>
      [] size = 2 -> <<252>> \o LEBytes(n, 2)
      [] size = 3 -> <<253>> \o LEBytes(n, 3)
      [] size = 8 -> <<254>> \o LEBytes(n, 8)

\* Text without NUL bytes in which no two neighbours are the same.
Text(n) == [i \in 1..n |-> 65 + (i % 26)]

Parameters(params) ==
    IF params = <<>> THEN <<>>
    ELSE [i \in 1..((Len(params) + 7) \div 8) |-> 0] \o <<1>>
         \o FlattenSeq([i \in DOMAIN params |->
               <<1, 0>> \o LenEncInt(params[i].name, 1) \o Text(params[i].name)])
         \o FlattenSeq([i \in DOMAIN params |-> Text(params[i].value)])

\* A message: its protocol and type, the text it carries, and what else it has.
Body(m) ==
    CASE m.type = "query" /\ m.attributes ->
            <<COM_QUERY>> \o LenEncInt(Len(m.params), m.size) \o LenEncInt(1, m.setSize)
            \o Parameters(m.params) \o m.text
      [] m.type = "query" /\ ~ m.attributes -> <<COM_QUERY>> \o m.text
      [] m.type = "prepare"                 -> <<COM_STMT_PREPARE>> \o m.text
      [] m.type = "Query"                   -> m.text \o <<0>>
      [] m.type = "Parse"                   -> Text(m.name) \o <<0>> \o m.text \o <<0, 0, 0>>

Bytes(m) ==
    CASE m.type \in {"query", "prepare"} -> LEBytes(Len(Body(m)), 3) \o <<0>> \o Body(m)
      [] m.type = "Query" -> <<MsgTypeQuery>> \o BEBytes(Len(Body(m)) + 4) \o Body(m)
      [] m.type = "Parse" -> <<MsgTypeParse>> \o BEBytes(Len(Body(m)) + 4) \o Body(m)

IsMySQL(m) == m.type \in {"query", "prepare"}

AllBytes(s) == FlattenSeq([i \in DOMAIN s |-> Bytes(s[i])])

\* A text may have any bytes; a parameter's name is short enough for one byte
\* to tell its length.
Byte == 0..255

Messages ==
    [type : {"query"}, attributes : BOOLEAN, size : {1, 2, 3, 8}, setSize : {1, 2, 3, 8},
     params : Seq([name : 0..250, value : Nat]), text : Seq(Byte)]
    \cup [type : {"prepare"}, attributes : BOOLEAN, text : Seq(Byte)]
    \cup [type : {"Query"}, text : Seq(Byte)]
    \cup [type : {"Parse"}, name : Nat, text : Seq(Byte)]

\* The length of a message fits the bytes the protocol has for it: a longer
\* MySQL command is not sent in one packet.
Fits(m) ==
    IF IsMySQL(m) THEN Len(Body(m)) + 1 < 256 * 256 * 256
                  ELSE (Len(Body(m)) + 4) \div (256 * 256 * 256) < 128

\* A connection speaks one protocol, and a MySQL client has agreed to query
\* attributes or has not.
ASSUME StreamsAssumption ==
    \A s \in Streams :
        /\ s \in Seq(Messages) /\ s # <<>>
        /\ \A i \in DOMAIN s : Fits(s[i]) /\ (IsMySQL(s[i]) <=> IsMySQL(s[1]))
        /\ IsMySQL(s[1]) => \A i \in DOMAIN s : s[i].attributes = s[1].attributes

-----------------------------------------------------------------------------

VARIABLES
    stream,   \* what the client sends
    taken,    \* how many of its bytes have been read
    pieces,   \* what the handler was called with, in order
    logged,   \* what it passed to LOG_QUERY, in order
    uncut     \* history: every buffer so far ended with a message

vars == <<stream, taken, pieces, logged, uncut>>

TypeOK ==
    /\ stream \in Streams
    /\ taken \in 0..Len(AllBytes(stream))
    /\ \A i \in DOMAIN pieces : pieces[i] # <<>>
    /\ Len(logged) <= Len(pieces)
    /\ uncut \in BOOLEAN

Init ==
    /\ stream \in Streams
    /\ taken = 0 /\ pieces = <<>> /\ logged = <<>>
    /\ uncut = TRUE

Borders(s) == {Len(AllBytes(SubSeq(s, 1, i))) : i \in 1..Len(s)}

Capable(s) == \E i \in DOMAIN s : IsMySQL(s[i]) /\ s[i].attributes

\* A buffer is read and handled: a MySQL one packet by packet, a PostgreSQL one
\* in one call.
HandleBuffer ==
    \E to \in IF stream \in CutStreams THEN (taken + 1)..Len(AllBytes(stream))
                                       ELSE {b \in Borders(stream) : b > taken} :
        LET buffer == SubSeq(AllBytes(stream), taken + 1, to)
            calls  == IF IsMySQL(stream[1]) THEN extract_packets(buffer) ELSE <<buffer>>
            texts  == [i \in DOMAIN calls |->
                         IF IsMySQL(stream[1]) THEN MySQLLogs(Capable(stream), calls[i])
                                               ELSE PostgreSQLLogs(calls[i])]
        IN  /\ taken' = to
            /\ pieces' = pieces \o calls
            /\ logged' = logged \o FlattenSeq(texts)
            /\ uncut' = (uncut /\ to \in Borders(stream))
            /\ UNCHANGED stream

Next == HandleBuffer

Spec == Init /\ [][Next]_vars

-----------------------------------------------------------------------------
(* What is expected of them.                                               *)

\* However the stream is cut into buffers, also inside the header of a packet
\* and with lengths read from the middle of one, the packets that
\* extract_packets makes are its bytes: none is lost, repeated or moved.
PiecesMakeStream == FlattenSeq(pieces) = SubSeq(AllBytes(stream), 1, taken)

\* The handler was called once for each message, in their order.
OneByOne == \A i \in DOMAIN pieces : i <= Len(stream) /\ pieces[i] = Bytes(stream[i])

\* "This function extracts the different packets from the buffer and returns a
\* vector of the packets": a buffer of whole MySQL packets comes apart into
\* these packets, wherever their lengths put them.
PiecesArePackets == uncut /\ IsMySQL(stream[1]) => OneByOne

\* Messages in which the code finds the query.  It does not step over the
\* names and values of query attributes, takes a MySQL text for a C string, and
\* searches the end of a Parse message's statement name from the last byte of
\* the length on.
Regular(m) ==
    /\ m.type = "query" => m.params = <<>>
    /\ m.type = "Parse" => (Len(Body(m)) + 4) % 256 # 0
    /\ m.type # "Query" => \A i \in DOMAIN m.text : m.text[i] # 0

\* "@return the actual query that was run by the client": of each message the
\* handler was called with, the text it carries is logged, to the last byte.
LogsTheQueries ==
    OneByOne /\ (\A i \in DOMAIN stream : Regular(stream[i])) =>
        logged = [i \in DOMAIN pieces |-> stream[i].text]
=============================================================================
