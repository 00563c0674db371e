------------------------ MODULE HttpRedirectPipeline ------------------------
(***************************************************************************)
(* One connection of the API gateway: HttpRedirectPipeline reads a buffer  *)
(* from the client, picks a service by the Host and the URI path of the    *)
(* request at its front, opens a connection to that service for this       *)
(* exchange, forwards the buffer and relays what the service answers until *)
(* it closes or a number of polls has passed.  Then it waits for the next  *)
(* buffer.                                                                 *)
(*                                                                         *)
(* Paths and configured URIs are sequences of small numbers that stand for *)
(* their characters.                                                       *)
(***************************************************************************)
EXTENDS Integers, Sequences

CONSTANTS
    Hostnames,        \* the keys of hostname_map
    UriMap,           \* the URI keys configured for them
    Requests,         \* what a client may send: [host, path], or Fragment
    PollCap,          \* 5000 in the code
    MaxBuffers,       \* bound: buffers the client sends
    MaxChunks,        \* bound: chunks a service answers an exchange with
    MaxSelectFaults   \* bound: how often constructing a SocketSelect throws

\* Bytes that string_to_request rejects, such as the rest of a split request.
Fragment == [host |-> "none", path |-> <<>>]

\* "*", the wildcard URI.  It sorts before "/", the first character of a path.
Star == <<0>>

ASSUME UriMapAssumption == UriMap \subseteq Seq(Nat)
ASSUME RequestsAssumption == \A r \in Requests : r = Fragment \/ r.path \in Seq(Nat)
ASSUME RedirectBounds ==
    /\ PollCap \in Nat /\ MaxBuffers \in Nat /\ MaxChunks \in Nat
    /\ MaxSelectFaults \in Nat

VARIABLES
    pc,            \* where the thread is
    input,         \* input_bytes: the numbers of the client's buffers in it
    route,         \* the URI key found for it
    count,         \* polls of the target socket in this exchange
    idle,          \* history: the last of these polls found nothing to read
    clientOpen, targetOpen,   \* the sockets the proxy holds open
    clientLink, targetLink,   \* "up", "fin" (closed its end) or "rst" (gone)
    sent,          \* what the client sent
    read,          \* how many of these buffers were read
    forwarded,     \* the buffers sent to services: [exchange, n]
    produced,      \* per exchange: how many chunks the service sent
    taken,         \* chunks of the current exchange the proxy has read
    outbox,        \* what the client was sent: [exchange, chunk]
    ended,         \* per exchange: "open" or what ended it
    selectFaults

request  == <<input, route>>
exchange == <<targetOpen, targetLink, produced, taken, ended>>
client   == <<clientOpen, clientLink, sent, read>>
vars     == <<pc, request, count, idle, client, exchange, forwarded, outbox, selectFaults>>

Links == {"up", "fin", "rst"}
Endings == {"open", "closed", "reset", "error", "cap", "leaked"}
None == <<-1>>   \* uri_map.end(): no key of the map

TypeOK ==
    /\ pc \in {"poll", "route", "connect", "send", "pollTarget", "done", "crashed"}
    /\ input \in Seq(1..MaxBuffers)
    /\ route \in UriMap \cup {None}
    /\ count \in 0..PollCap
    /\ idle \in BOOLEAN /\ clientOpen \in BOOLEAN /\ targetOpen \in BOOLEAN
    /\ clientLink \in Links /\ targetLink \in Links
    /\ sent \in Seq(Requests)
    /\ read \in 0..MaxBuffers
    /\ forwarded \in Seq([exchange : 1..MaxBuffers, n : 1..MaxBuffers])
    /\ produced \in Seq(0..MaxChunks) /\ taken \in 0..MaxChunks
    /\ outbox \in Seq([exchange : 1..MaxBuffers, chunk : 1..MaxChunks])
    /\ ended \in Seq(Endings)
    /\ selectFaults \in 0..MaxSelectFaults

\* Without a client socket the plugin returns at once.
Init ==
    /\ \/ pc = "poll" /\ clientOpen = TRUE
       \/ pc = "done" /\ clientOpen = FALSE
    /\ input = <<>>
    /\ route = None
    /\ count = 0
    /\ idle = FALSE
    /\ targetOpen = FALSE
    /\ clientLink = "up" /\ targetLink = "up"
    /\ sent = <<>>
    /\ read = 0
    /\ forwarded = <<>>
    /\ produced = <<>> /\ taken = 0
    /\ outbox = <<>>
    /\ ended = <<>>
    /\ selectFaults = 0

current == Len(produced)

-----------------------------------------------------------------------------
(* Routing.                                                                *)

IsPrefixOf(u, path) == Len(u) <= Len(path) /\ \A i \in 1..Len(u) : u[i] = path[i]

\* The order a std::map keeps its keys in.
Before(u, v) ==
    \E i \in 1..Len(v) :
        /\ \A j \in 1..(i - 1) : j <= Len(u) /\ u[j] = v[j]
        /\ i > Len(u) \/ u[i] < v[i]

\* Mutant of FindUri: the loop does not stop at the first match.
FindUriLast(path) ==
    LET matching == {u \in UriMap : IsPrefixOf(u, path)}
    IN  IF matching # {}
          THEN CHOOSE u \in matching : \A v \in matching \ {u} : Before(v, u)
          ELSE IF Star \in UriMap THEN Star ELSE None

\* The first key of the map that the path starts with, else the wildcard.
FindUri(path) ==
    LET matching == {u \in UriMap : IsPrefixOf(u, path)}
    IN  IF matching # {}
          THEN CHOOSE u \in matching : \A v \in matching \ {u} : Before(u, v)
          ELSE IF Star \in UriMap THEN Star ELSE None

-----------------------------------------------------------------------------
(* The outer loop: the client.                                             *)

\* delete client_socket; return.
CloseClient ==
    /\ clientOpen' = FALSE
    /\ pc' = "done"
    /\ UNCHANGED <<clientLink, sent>>

\* The client's socket is readable: a buffer, the end of stream or an error.
ReceiveFromClient ==
    /\ pc = "poll"
    /\ \/ \E k \in 1..(Len(sent) - read) :
            /\ clientLink # "rst"
            /\ input' = [i \in 1..k |-> read + i]
            /\ read' = read + k
            /\ pc' = "route"
            /\ UNCHANGED <<clientOpen, clientLink, sent>>
       \/ /\ clientLink = "rst" \/ (clientLink = "fin" /\ read = Len(sent))
          /\ CloseClient
          /\ UNCHANGED <<input, read>>
    /\ UNCHANGED <<route, count, idle, exchange, forwarded, outbox, selectFaults>>

\* Both loops log a SocketSelect that cannot be made and go round.
SelectFails ==
    /\ pc \in {"poll", "pollTarget"}
    /\ selectFaults < MaxSelectFaults
    /\ selectFaults' = selectFaults + 1
    /\ UNCHANGED <<pc, request, count, idle, client, exchange, forwarded, outbox>>

\* Parse the front of the buffer and look the service up.  A host that is not
\* configured dereferences hostname_map.end(): the process crashes or goes on
\* with a map that holds nothing.
RouteRequest ==
    /\ pc = "route"
    /\ LET head == sent[input[1]] IN
         IF head # Fragment /\ head.host \in Hostnames /\ FindUri(head.path) # None
           THEN /\ route' = FindUri(head.path)
                /\ pc' = "connect"
                /\ UNCHANGED client
           ELSE /\ \/ CloseClient
                   \/ /\ head # Fragment /\ head.host \notin Hostnames
                      /\ pc' = "crashed"
                      /\ UNCHANGED <<clientOpen, clientLink, sent>>
                /\ UNCHANGED <<route, read>>
    /\ UNCHANGED <<input, count, idle, exchange, forwarded, outbox, selectFaults>>

ConnectTarget ==
    /\ pc = "connect"
    /\ \/ /\ targetOpen' = TRUE
          /\ targetLink' = "up"
          /\ produced' = Append(produced, 0)
          /\ ended' = Append(ended, "open")
          /\ taken' = 0
          /\ pc' = "send"
          /\ UNCHANGED client
       \/ /\ CloseClient
          /\ UNCHANGED <<exchange, read>>
    /\ UNCHANGED <<request, count, idle, forwarded, outbox, selectFaults>>

\* Mutant of SendRequest: only the request that was parsed is sent.
SendRequestHead ==
    /\ pc = "send"
    /\ targetLink # "rst"
    /\ forwarded' = Append(forwarded, [exchange |-> current, n |-> input[1]])
    /\ count' = 0
    /\ pc' = "pollTarget"
    /\ UNCHANGED <<request, idle, client, exchange, outbox, selectFaults>>

\* The buffer goes out as it came in.  If that throws, the handler that closes
\* the client knows nothing of target_socket, which stays open.
SendRequest ==
    /\ pc = "send"
    /\ \/ /\ targetLink # "rst"
          /\ forwarded' = forwarded \o
                [i \in DOMAIN input |-> [exchange |-> current, n |-> input[i]]]
          /\ count' = 0
          /\ pc' = "pollTarget"
          /\ UNCHANGED <<client, ended>>
       \/ /\ targetLink # "up"
          /\ ended' = [ended EXCEPT ![current] = "leaked"]
          /\ CloseClient
          /\ UNCHANGED <<read, count, forwarded>>
    /\ UNCHANGED <<request, idle, targetOpen, targetLink, produced, taken, outbox,
                   selectFaults>>

-----------------------------------------------------------------------------
(* The inner loop: the service's answer.                                   *)

\* delete target_socket; break.
EndExchange(how) ==
    /\ targetOpen' = FALSE
    /\ ended' = [ended EXCEPT ![current] = how]
    /\ pc' = "poll"

\* Mutant of CountPoll: the poll is not counted.
CountPollNever ==
    /\ UNCHANGED <<pc, count, targetOpen, ended>>

\* Mutant of CountPoll: > for ==.
CountPollLate ==
    IF count > PollCap
      THEN EndExchange("cap") /\ UNCHANGED count
      ELSE count' = count + 1 /\ UNCHANGED <<pc, targetOpen, ended>>

\* if (count++ == 5000): the exchange is over whatever the poll found.
CountPoll ==
    IF count = PollCap
      THEN EndExchange("cap") /\ UNCHANGED count
      ELSE count' = count + 1 /\ UNCHANGED <<pc, targetOpen, ended>>

Unread == produced[current] - taken

NothingToRead ==
    /\ Unread = 0 /\ targetLink = "up"
    /\ idle' = TRUE
    /\ CountPoll
    /\ UNCHANGED <<taken, outbox, clientLink>>

\* Mutant of RelayAnswer: a second read overwrites output_bytes unsent.
RelayAnswerOverwritten ==
    /\ targetLink # "rst" /\ clientLink # "rst"
    /\ idle' = FALSE
    /\ \E k \in 1..Unread :
         /\ taken' = taken + k
         /\ outbox' = Append(outbox, [exchange |-> current, chunk |-> taken + k])
         /\ CountPoll
         /\ UNCHANGED clientLink

\* Some chunks arrived and go to the client; a client that is gone ends the
\* exchange before the poll is counted.
RelayAnswer ==
    /\ targetLink # "rst"
    /\ idle' = FALSE
    /\ \E k \in 1..Unread :
         /\ taken' = taken + k
         /\ \/ /\ clientLink # "rst"
               /\ outbox' = outbox \o
                     [i \in 1..k |-> [exchange |-> current, chunk |-> taken + i]]
               /\ CountPoll
               /\ UNCHANGED clientLink
            \/ /\ clientLink # "up"
               /\ clientLink' = "rst"
               /\ EndExchange("error")
               /\ UNCHANGED <<count, outbox>>

\* Mutant of TargetGone: a hang-up counts before the bytes that precede it.
TargetGoneEarly ==
    /\ \/ targetLink = "fin" /\ EndExchange("closed")
       \/ targetLink = "rst" /\ EndExchange("reset")
    /\ idle' = FALSE
    /\ UNCHANGED <<count, taken, outbox, clientLink>>

\* An empty read, or one that throws.
TargetGone ==
    /\ \/ targetLink = "fin" /\ Unread = 0 /\ EndExchange("closed")
       \/ targetLink = "rst" /\ EndExchange("reset")
    /\ idle' = FALSE
    /\ UNCHANGED <<count, taken, outbox, clientLink>>

PollTarget ==
    /\ pc = "pollTarget"
    /\ NothingToRead \/ RelayAnswer \/ TargetGone
    /\ UNCHANGED <<request, clientOpen, sent, read, targetLink, produced, forwarded,
                   selectFaults>>

Thread == \/ ReceiveFromClient \/ SelectFails \/ RouteRequest \/ ConnectTarget
          \/ SendRequest \/ PollTarget

-----------------------------------------------------------------------------
(* The peers: they send, close or vanish at any moment.                    *)

ClientSends ==
    /\ clientOpen /\ clientLink = "up" /\ Len(sent) < MaxBuffers
    /\ \E r \in Requests : sent' = Append(sent, r)
    /\ UNCHANGED <<pc, request, count, idle, clientOpen, clientLink, read, exchange,
                   forwarded, outbox, selectFaults>>

ClientLeaves ==
    /\ clientOpen
    /\ \/ clientLink = "up" /\ clientLink' \in {"fin", "rst"}
       \/ clientLink = "fin" /\ clientLink' = "rst"
    /\ UNCHANGED <<pc, request, count, idle, clientOpen, sent, read, exchange,
                   forwarded, outbox, selectFaults>>

TargetAnswers ==
    /\ pc = "pollTarget" /\ targetLink = "up" /\ produced[current] < MaxChunks
    /\ produced' = [produced EXCEPT ![current] = @ + 1]
    /\ UNCHANGED <<pc, request, count, idle, client, targetOpen, targetLink, taken,
                   ended, forwarded, outbox, selectFaults>>

TargetLeaves ==
    /\ targetOpen /\ clientOpen
    /\ \/ targetLink = "up" /\ targetLink' \in {"fin", "rst"}
       \/ targetLink = "fin" /\ targetLink' = "rst"
    /\ UNCHANGED <<pc, request, count, idle, client, targetOpen, produced, taken,
                   ended, forwarded, outbox, selectFaults>>

Finished == pc \in {"done", "crashed"} /\ UNCHANGED vars

Next == Thread \/ ClientSends \/ ClientLeaves \/ TargetAnswers \/ TargetLeaves \/ Finished

Spec == Init /\ [][Next]_vars

\* The operating system keeps running the thread; the peers promise nothing.
FairSpec == Spec /\ WF_vars(Thread)

-----------------------------------------------------------------------------
(* What the gateway promises.                                              *)

\* The service is that of the shortest configured URI the path starts with -
\* the keys of a std::map come in that order - and the wildcard's only when no
\* configured URI matches.
ShortestUri ==
    pc \in {"connect", "send"} =>
        LET path == sent[input[1]].path
            hits == {u \in UriMap : \E n \in 0..Len(path) : u = SubSeq(path, 1, n)}
        IN  IF hits = {} THEN route = Star
            ELSE route \in hits /\ \A u \in hits : Len(route) <= Len(u)

\* The client gets the answers in the order of its requests, none of them
\* interleaved with another, each from its first chunk on and without a gap,
\* although every exchange runs over a connection of its own.
AnswersInOrder ==
    \A i \in DOMAIN outbox :
        LET before == IF i = 1 THEN [exchange |-> 0, chunk |-> 0] ELSE outbox[i - 1]
        IN  IF outbox[i].exchange = before.exchange
              THEN outbox[i].chunk = before.chunk + 1
              ELSE outbox[i].exchange > before.exchange /\ outbox[i].chunk = 1

\* An answer is cut short only by the cap, a reset or an error: when a service
\* closed its end in order, everything it sent has reached the client.
CompleteWhenClosed ==
    \A e \in DOMAIN ended :
        ended[e] = "closed" =>
            \A c \in 1..produced[e] :
                \E i \in DOMAIN outbox : outbox[i] = [exchange |-> e, chunk |-> c]

\* Whenever the gateway waits for the client, every buffer it read has been
\* forwarded once and in order, several requests read at once included.
RequestsForwarded ==
    pc = "poll" =>
        /\ Len(forwarded) = read
        /\ \A i \in DOMAIN forwarded : forwarded[i].n = i

\* The TODO at the cap: it is there "to exit after a timeout, else will be
\* stuck in the loop as socket won't be readable" - so what it cuts off is an
\* exchange whose socket had nothing to read.
CapOnlyWhenStuck ==
    current > 0 /\ ended[current] = "cap" => idle

\* No exchange holds the thread for ever: a service that neither answers nor
\* closes is given up after a bounded number of polls.
ExchangeEnds == (pc = "pollTarget") ~> (pc # "pollTarget")
=============================================================================
