--------------------------- MODULE ProxyHandlers ---------------------------
(***************************************************************************)
(* The CProxyHandler implementations a pipeline calls on every buffer it   *)
(* relays: HandleUpstreamData (client to target) and HandleDownStreamData  *)
(* (target to client).  A handler keeps no state of its own between calls; *)
(* what it remembers of a connection lives in the pipeline's exec_context, *)
(* a std::map<std::string, std::any>.                                      *)
(*                                                                         *)
(* A buffer is the sequence of packets that one ReceiveBytes() returned.   *)
(* A packet has the number n its sender gave it (1, 2, 3 ...), the kind    *)
(* its first bytes look like to a parser, and the form it is in.  Parsers  *)
(* look at the first packet of a buffer only.                              *)
(*                                                                         *)
(* A call yields one result of a set: more than one where the outcome      *)
(* depends on bytes the model leaves out (a body that is cut short, a read *)
(* past the end of the buffer).                                            *)
(***************************************************************************)
EXTENDS Integers, Sequences

\* What the front of a buffer looks like.  From a client: "query" is the head
\* of a message the handlers parse (a ClickHouse Query packet, a PostgreSQL
\* Query/Parse message, an HTTP request line), "rest" anything else (a
\* handshake packet, the continuation of a message split by TCP).  From a
\* target: "end" is the ClickHouse EndOfStream packet, "data" anything else.
ClientKinds == {"query", "rest"}
TargetKinds == {"data", "end"}

\* "raw" bytes are as received; an HTTP handler parses a request and prints
\* it again ("rebuilt"), the Snowflake handler also replaces its Host header.
Forms == {"raw", "rebuilt", "rehosted"}

Packet == [n : Nat, kind : ClientKinds \cup TargetKinds, form : Forms]

\* exec_context.  0 and FALSE stand for a key that is missing or holds an
\* empty std::any: a std::any_cast of it throws std::bad_any_cast.
EmptyContext == [correlation_id       |-> 0,
                 query_correlation_id |-> 0,
                 query_start_time     |-> FALSE,
                 request_stop_time    |-> FALSE,
                 target_host          |-> FALSE,
                 capabilities         |-> FALSE]

ContextType == [correlation_id       : Nat,
                query_correlation_id : Nat,
                query_start_time     : BOOLEAN,
                request_stop_time    : BOOLEAN,
                target_host          : BOOLEAN,
                capabilities         : BOOLEAN]

\* The two ways a call ends: it returns a buffer or it throws.
Returns(out, ctx) == [throws |-> FALSE, out |-> out, ctx |-> ctx]
Throws(ctx)       == [throws |-> TRUE, out |-> <<>>, ctx |-> ctx]

StartsWith(bytes, kind) == bytes # <<>> /\ bytes[1].kind = kind

InForm(bytes, form) == [i \in DOMAIN bytes |-> [bytes[i] EXCEPT !.form = form]]

\* to_string() of a default constructed HttpRequest: bytes no peer ever sent.
BlankRequest == [n |-> 0, kind |-> "query", form |-> "rebuilt"]

-----------------------------------------------------------------------------
(* Upstream: what the client sent.                                         *)

\* Mutant of BaseProxyHandlerUp: appends to a result that holds the buffer.
BaseProxyHandlerUpTwice(bytes, ctx) == {Returns(bytes \o bytes, ctx)}

BaseProxyHandlerUp(bytes, ctx) == {Returns(bytes, ctx)}

\* A Query packet copies correlation_id - whatever it holds, an empty any
\* included - and stamps the start time before the parser runs.  The parser
\* reads on past a truncated (or empty) buffer, so it may also throw.
CHWirePTHandlerUp(bytes, ctx) ==
    LET seen == IF StartsWith(bytes, "query")
                  THEN [ctx EXCEPT !.query_correlation_id = ctx.correlation_id,
                                   !.query_start_time = TRUE]
                  ELSE ctx
    IN  {Returns(bytes, seen), Throws(seen)}

\* The any_cast of correlation_id comes first; then string_to_request throws
\* on bytes that are no request head or a cut one, and gzip::decompress on a
\* cut body.
HttpUp(bytes, ctx, form) ==
    CASE ctx.correlation_id = 0      -> {Throws(ctx)}
      [] ctx.correlation_id # 0 /\ bytes = <<>> -> {Returns(<<BlankRequest>>, ctx)}
      [] ctx.correlation_id # 0 /\ bytes # <<>> ->
            {Throws(ctx)} \cup
            (IF StartsWith(bytes, "query") THEN {Returns(InForm(bytes, form), ctx)} ELSE {})

CHttpHandlerUp(bytes, ctx) == HttpUp(bytes, ctx, "rebuilt")

CSnowflakeHttpHandlerUp(bytes, ctx) == HttpUp(bytes, ctx, "rehosted")

\* Parses to log the query only, and also when the buffer is empty; a request
\* head that is cut short does not parse either.
CHttpsHandlerUp(bytes, ctx) ==
    {Throws(ctx)} \cup
    (IF StartsWith(bytes, "query") THEN {Returns(bytes, ctx)} ELSE {})

Compress(bytes)   == [gzip |-> bytes]
Decompress(data)  == data.gzip

\* Mutant of GzipHandlerUp: the result is assigned as in GzipHandlerDown.
GzipHandlerUpEmpty(bytes, ctx) == {Returns(<<>>, ctx)}

\* Mutant of GzipHandlerUp: the compressed data is returned.
GzipHandlerUpCompressed(bytes, ctx) == {Returns(InForm(bytes, "gzip"), ctx)}

\* Compresses the buffer and decompresses the result.
GzipHandlerUp(bytes, ctx) == {Returns(Decompress(Compress(bytes)), ctx)}

\* correlation_id is needed for every buffer; the header fields are read at
\* fixed offsets whatever the size of the buffer.
CMongoDBHandlerUp(bytes, ctx) ==
    IF ctx.correlation_id = 0 THEN {Throws(ctx)}
                              ELSE {Returns(bytes, ctx), Throws(ctx)}

\* Only a Query or Parse message needs correlation_id; substr(5, ...) throws
\* when the buffer ends inside the message header.
CPostgreSQLHandlerUp(bytes, ctx) ==
    IF ~StartsWith(bytes, "query") THEN {Returns(bytes, ctx)}
    ELSE IF ctx.correlation_id = 0 THEN {Throws(ctx)}
    ELSE {Returns(bytes, ctx), Throws(ctx)}

\* Needs the capabilities that only MySQLHandshake puts into the context, and
\* correlation_id for a COM_QUERY or COM_STMT_PREPARE; the extraction of their
\* text follows lengths in the buffer and may run past its end.
CMySQLHandlerUp(bytes, ctx) ==
    IF ~ctx.capabilities THEN {Throws(ctx)}
    ELSE IF ~StartsWith(bytes, "query") THEN {Returns(bytes, ctx)}
    ELSE IF ctx.correlation_id = 0 THEN {Throws(ctx)}
    ELSE {Returns(bytes, ctx), Throws(ctx)}

HandlerNames == {"BaseProxyHandler", "CHWirePTHandler", "CHttpHandler",
                 "CHttpsHandler", "CSnowflakeHttpHandler", "GzipHandler",
                 "CMongoDBHandler", "CPostgreSQLHandler", "CMySQLHandler"}

\* ptr->GetHandler() when no handler is configured: a null pointer.
NoHandler == "nullptr"

HandleUpstreamData(h, bytes, ctx) ==
    CASE h = "BaseProxyHandler"      -> BaseProxyHandlerUp(bytes, ctx)
      [] h = "CHWirePTHandler"       -> CHWirePTHandlerUp(bytes, ctx)
      [] h = "CHttpHandler"          -> CHttpHandlerUp(bytes, ctx)
      [] h = "CHttpsHandler"         -> CHttpsHandlerUp(bytes, ctx)
      [] h = "CSnowflakeHttpHandler" -> CSnowflakeHttpHandlerUp(bytes, ctx)
      [] h = "GzipHandler"           -> GzipHandlerUp(bytes, ctx)
      [] h = "CMongoDBHandler"       -> CMongoDBHandlerUp(bytes, ctx)
      [] h = "CPostgreSQLHandler"    -> CPostgreSQLHandlerUp(bytes, ctx)
      [] h = "CMySQLHandler"         -> CMySQLHandlerUp(bytes, ctx)

-----------------------------------------------------------------------------
(* Downstream: what the target sent.                                       *)

\* At EndOfStream the handler casts four entries of the context.
CHWirePTHandlerDown(bytes, ctx) ==
    IF /\ StartsWith(bytes, "end")
       /\ \/ ctx.query_correlation_id = 0
          \/ ~ctx.query_start_time
          \/ ~ctx.request_stop_time
          \/ ~ctx.target_host
      THEN {Throws(ctx)}
      ELSE {Returns(bytes, ctx)}

\* result.assign(buffer, buffer_length) on a std::string is assign(str, pos):
\* what is left of the buffer from position buffer_length on, which is nothing.
GzipHandlerDown(bytes, ctx) == {Returns(SubSeq(bytes, Len(bytes) + 1, Len(bytes)), ctx)}

\* The other handlers hand the buffer back.
OtherHandlersDown(bytes, ctx) == {Returns(bytes, ctx)}

HandleDownStreamData(h, bytes, ctx) ==
    CASE h = "CHWirePTHandler" -> CHWirePTHandlerDown(bytes, ctx)
      [] h = "GzipHandler"     -> GzipHandlerDown(bytes, ctx)
      [] OTHER                 -> OtherHandlersDown(bytes, ctx)
=============================================================================
