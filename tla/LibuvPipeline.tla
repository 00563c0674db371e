--------------------------- MODULE LibuvPipeline ---------------------------
(***************************************************************************)
(* One connection of ClickHouseLibuvPipeline: the plugin starts a connect  *)
(* to the target and returns; everything else happens in callbacks of the  *)
(* event loop, each of which runs to its end before the next.              *)
(*                                                                         *)
(* on_read hands the handler buf->base as a C string and an exec_context   *)
(* made for this call, and starts a write whose request and bytes are      *)
(* local variables of the callback.  uv_write() sends what the socket      *)
(* takes at once; libuv keeps the request, and bytes the socket did not    *)
(* take, for a later turn of the loop, when both are memory that is gone.  *)
(***************************************************************************)
EXTENDS ProxyHandlers

CONSTANTS
    Handlers,      \* the handlers the plugin may be configured with
    MaxPackets     \* bound: packets sent, per peer

ASSUME HandlersAssumption == Handlers \subseteq HandlerNames \cup {NoHandler}
ASSUME BoundAssumption == MaxPackets \in [{"client", "target"} -> Nat]

VARIABLES
    handler,   \* the configured handler
    pc,        \* "start", "connecting", "reading"; "idle" when no callback of
               \* this connection can come any more, "terminated" when the
               \* process has ended
    closes,    \* per end: how often uv_close() was called on its handle
    link,      \* per peer: "up", "fin" (closed its end) or "rst" (gone)
    sent,      \* per peer: the packets it sent, [kind, shape]
    read,      \* per peer: how many of them the loop has read
    requests,  \* per end: the write requests libuv holds, oldest first
    outbox,    \* per peer: what was written to it
    waited     \* history, per end: a socket did not take a write at once

peers == <<link, sent>>
writes == <<requests, outbox, waited>>
vars  == <<handler, pc, closes, peers, read, writes>>

Ends == {"client", "target"}
Other(e) == IF e = "client" THEN "target" ELSE "client"

\* A packet may hold a NUL byte; if not, the allocated buffer may go on behind
\* it with a NUL or with bytes of an earlier use.
Shapes == {"nul", "ended", "dirty"}

\* Bytes nobody sent.
Garbage == [n |-> 0, kind |-> "rest", form |-> "raw"]

TypeOK ==
    /\ handler \in Handlers
    /\ pc \in {"start", "connecting", "reading", "idle", "terminated"}
    /\ closes \in [Ends -> Nat]
    /\ link \in [Ends -> {"up", "fin", "rst"}]
    /\ sent \in [Ends -> Seq([kind : ClientKinds \cup TargetKinds, shape : Shapes])]
    /\ \A e \in Ends : read[e] \in 0..Len(sent[e])
    /\ \A e \in Ends : \A i \in DOMAIN requests[e] :
          /\ requests[e][i].left \in BOOLEAN
          /\ requests[e][i].bytes \in Seq([n : Nat, kind : ClientKinds \cup TargetKinds,
                                           form : Forms \cup {"cut"}])
    /\ \A e \in Ends : Len(requests[e]) <= read[Other(e)]
    /\ \A e \in Ends : \A i \in DOMAIN outbox[e] : outbox[e][i].form \in Forms \cup {"cut"}
    /\ waited \in [Ends -> BOOLEAN]

Init ==
    /\ handler \in Handlers
    /\ pc = "start"
    /\ closes = [e \in Ends |-> 0]
    /\ link = [e \in Ends |-> "up"]
    /\ sent = [e \in Ends |-> <<>>]
    /\ read = [e \in Ends |-> 0]
    /\ requests = [e \in Ends |-> <<>>]
    /\ outbox = [e \in Ends |-> <<>>]
    /\ waited = [e \in Ends |-> FALSE]

\* uv_close() gives up the writes that libuv still holds.
Close(ends) ==
    /\ closes' = [e \in Ends |-> IF e \in ends THEN closes[e] + 1 ELSE closes[e]]
    /\ requests' = [e \in Ends |-> IF e \in ends THEN <<>> ELSE requests[e]]

-----------------------------------------------------------------------------
(* The plugin.                                                             *)

HandlerMissing ==
    /\ pc = "start" /\ handler = NoHandler
    /\ pc' = "idle"
    /\ UNCHANGED <<handler, closes, peers, read, writes>>

\* No service to connect to: the load balancer's exception is caught by nobody.
\* The exception of a name that does not resolve is caught, and the null
\* pointer is dereferenced right after.  Either ends the process.
ResolveFails ==
    /\ pc = "start" /\ handler # NoHandler
    /\ pc' = "terminated"
    /\ UNCHANGED <<handler, closes, peers, read, writes>>

\* No memory for the request: the client is closed and the pair is freed, with
\* a handle in it that libuv has yet to finish closing.
AllocationFails ==
    /\ pc = "start" /\ handler # NoHandler
    /\ Close({"client"})
    /\ pc' \in {"idle", "terminated"}
    /\ UNCHANGED <<handler, peers, read, outbox, waited>>

\* uv_tcp_connect() may refuse at once; its result is not looked at and no
\* callback ever comes.
ConnectTarget ==
    /\ pc = "start" /\ handler # NoHandler
    /\ pc' \in {"connecting", "idle"}
    /\ UNCHANGED <<handler, closes, peers, read, writes>>

OnTargetConnected ==
    /\ pc = "connecting"
    /\ \/ /\ Close({"client"})
          /\ pc' = "idle"
       \/ /\ pc' = "reading"
          /\ UNCHANGED <<closes, requests>>
    /\ UNCHANGED <<handler, peers, read, outbox, waited>>

-----------------------------------------------------------------------------
(* on_read.                                                                *)

\* Mutant of OnEnd: only the end that reported it is closed.
OnEndOne(e) ==
    /\ pc = "reading" /\ closes[e] = 0
    /\ link[e] = "rst" \/ (link[e] = "fin" /\ read[e] = Len(sent[e]))
    /\ Close({e})
    /\ UNCHANGED <<handler, pc, peers, read, outbox, waited>>

\* Mutant of OnEnd: closes the stream and then the client, which may be it.
OnEndStream(e) ==
    /\ pc = "reading" /\ closes[e] = 0
    /\ link[e] = "rst" \/ (link[e] = "fin" /\ read[e] = Len(sent[e]))
    /\ closes' = [x \in Ends |-> IF e = "client" /\ x = e THEN 2 ELSE 1]
    /\ requests' = [x \in Ends |-> <<>>]
    /\ pc' = "idle"
    /\ UNCHANGED <<handler, peers, read, outbox, waited>>

\* nread < 0: the end of the stream, or an error.  Closing goes through the
\* requests libuv still holds (see FinishWrite).
OnEnd(e) ==
    /\ pc = "reading" /\ closes[e] = 0
    /\ link[e] = "rst" \/ (link[e] = "fin" /\ read[e] = Len(sent[e]))
    /\ Close(Ends)
    /\ \/ pc' = "idle"
       \/ /\ \E x \in Ends : requests[x] # <<>>
          /\ pc' = "terminated"
    /\ UNCHANGED <<handler, peers, read, outbox, waited>>

\* The packet that is next on end e, and the string a char* to it becomes: up
\* to its first NUL byte, and on past its end if it has none.
NextPacket(e) ==
    LET n == read[e] + 1
    IN  [n |-> n, kind |-> sent[e][n].kind, form |-> "raw"]

CString(packet, shape) ==
    CASE shape = "nul"   -> <<[packet EXCEPT !.form = "cut"]>>
      [] shape = "ended" -> <<packet>>
      [] shape = "dirty" -> <<packet, Garbage>>

\* The handlers go by the string they get; GzipHandler goes by nread: upstream
\* it compresses that many bytes, downstream it keeps what lies behind them and
\* throws if the string is shorter.
GzipByLength(e, bytes, shape) ==
    CASE e = "client" /\ shape # "nul" -> {Returns(<<bytes[1]>>, EmptyContext)}
      [] e = "client" /\ shape = "nul" -> {Returns(<<bytes[1], Garbage>>, EmptyContext)}
      [] e = "target" /\ shape # "nul" -> {Returns(Tail(bytes), EmptyContext)}
      [] e = "target" /\ shape = "nul" -> {Throws(EmptyContext)}

Handle(e, bytes, shape) ==
    CASE handler = "GzipHandler" -> GzipByLength(e, bytes, shape)
      [] handler # "GzipHandler" /\ e = "client" ->
            HandleUpstreamData(handler, bytes, EmptyContext)
      [] handler # "GzipHandler" /\ e = "target" ->
            HandleDownStreamData(handler, bytes, EmptyContext)

\* Mutant of UvWrite: sends at once and leaves the bytes to libuv as well.
UvWriteTwice(to, bytes) ==
    /\ outbox' = IF link[to] = "rst" THEN outbox ELSE [outbox EXCEPT ![to] = @ \o bytes]
    /\ requests' = [requests EXCEPT ![to] = Append(@, [bytes |-> bytes, left |-> FALSE])]
    /\ UNCHANGED waited

\* uv_write(): its result is not looked at.  A peer that is gone gets nothing;
\* behind a write that is waiting, a write waits.
UvWrite(to, bytes) ==
    \/ /\ \A i \in DOMAIN requests[to] : ~ requests[to][i].left
       /\ outbox' = IF link[to] = "rst" THEN outbox ELSE [outbox EXCEPT ![to] = @ \o bytes]
       /\ requests' = [requests EXCEPT ![to] = Append(@, [bytes |-> <<>>, left |-> FALSE])]
       /\ UNCHANGED waited
    \/ /\ requests' = [requests EXCEPT ![to] = Append(@, [bytes |-> bytes, left |-> TRUE])]
       /\ waited' = [waited EXCEPT ![to] = TRUE]
       /\ UNCHANGED outbox

\* nread > 0.  An exception of the handler leaves the callback and, with no
\* handler in the event loop, ends the process.
OnData(e) ==
    /\ pc = "reading" /\ closes[e] = 0
    /\ link[e] # "rst" /\ read[e] < Len(sent[e])
    /\ read' = [read EXCEPT ![e] = @ + 1]
    /\ LET shape == sent[e][read[e] + 1].shape
       IN \E r \in Handle(e, CString(NextPacket(e), shape), shape) :
          \/ /\ r.throws
             /\ pc' = "terminated"
             /\ UNCHANGED writes
          \/ /\ ~ r.throws
             /\ UvWrite(Other(e), r.out)
             /\ UNCHANGED pc
    /\ UNCHANGED <<handler, closes, peers>>

OnRead(e) == OnEnd(e) \/ OnData(e)

-----------------------------------------------------------------------------
(* libuv's own turn: it goes through the requests it holds.  They lie on   *)
(* the stack of a callback that has returned: still intact, overwritten,   *)
(* or a pointer into nowhere.                                              *)

FinishWrite(e) ==
    /\ pc = "reading" /\ requests[e] # <<>>
    /\ \/ /\ requests' = [requests EXCEPT ![e] = Tail(@)]
          /\ \E bytes \in {Head(requests[e]).bytes} \cup
                          (IF Head(requests[e]).left THEN {<<Garbage>>} ELSE {}) :
                outbox' = IF link[e] = "rst" THEN outbox ELSE [outbox EXCEPT ![e] = @ \o bytes]
          /\ UNCHANGED pc
       \/ /\ pc' = "terminated"
          /\ UNCHANGED <<requests, outbox>>
    /\ UNCHANGED <<handler, closes, peers, read, waited>>

-----------------------------------------------------------------------------
(* The peers.                                                              *)

PeerSends(e) ==
    /\ pc # "terminated" /\ closes[e] = 0 /\ (e = "target" => pc = "reading")
    /\ link[e] = "up" /\ Len(sent[e]) < MaxPackets[e]
    /\ \E kind \in IF e = "client" THEN ClientKinds ELSE TargetKinds, shape \in Shapes :
          sent' = [sent EXCEPT ![e] = Append(@, [kind |-> kind, shape |-> shape])]
    /\ UNCHANGED <<handler, pc, closes, link, read, writes>>

PeerLeaves(e) ==
    /\ pc # "terminated" /\ closes[e] = 0 /\ (e = "target" => pc = "reading")
    /\ \/ link[e] = "up" /\ link' \in {[link EXCEPT ![e] = l] : l \in {"fin", "rst"}}
       \/ link[e] = "fin" /\ link' = [link EXCEPT ![e] = "rst"]
    /\ UNCHANGED <<handler, pc, closes, sent, read, writes>>

Plugin == HandlerMissing \/ ResolveFails \/ AllocationFails \/ ConnectTarget

Next == \/ Plugin \/ OnTargetConnected
        \/ \E e \in Ends : OnRead(e) \/ FinishWrite(e) \/ PeerSends(e) \/ PeerLeaves(e)

Spec == Init /\ [][Next]_vars

\* The loop polls every handle in every turn.
FairSpec ==
    /\ Spec /\ WF_vars(Plugin) /\ WF_vars(OnTargetConnected)
    /\ \A e \in Ends : WF_vars(OnRead(e)) /\ WF_vars(FinishWrite(e))

-----------------------------------------------------------------------------
(* What the plugin promises.                                               *)

\* libuv aborts the process when a handle is closed a second time; whichever
\* ends fail, in whichever order their callbacks come, no handle is.
CloseOnce == \A e \in Ends : closes[e] <= 1

\* "Data received from the client, forward it to the target server", and the
\* other way round: what a peer gets is an unbroken prefix of what the other
\* one sent, nothing added and nothing cut, as long as the packets read hold no
\* NUL byte and end at one in the buffer, and the socket took each write at
\* once.  (GzipHandler returns nothing downstream, and an HTTP request is
\* printed anew.)
ForwardsReceived ==
    \A e \in Ends :
        /\ ~ waited[e]
        /\ \A i \in 1..read[Other(e)] : sent[Other(e)][i].shape = "ended"
        => /\ Len(outbox[e]) <= Len(sent[Other(e)])
           /\ \A i \in DOMAIN outbox[e] :
                 outbox[e][i].n = i /\ outbox[e][i].form \in Forms

\* "Error or end of stream, close both client and target connections": once
\* the ends are relayed, one that goes away takes both with it, unless the
\* process ends.
BothClosed ==
    \A e \in Ends :
        pc = "reading" /\ link[e] # "up" ~>
            pc = "terminated" \/ \A x \in Ends : closes[x] > 0
=============================================================================
