---------------------------- MODULE SocketTable ----------------------------
(***************************************************************************)
(* The descriptors of the process, shared by all connection threads of     *)
(* MySQLPipeline and PostgreSQLPipeline.  A connection takes a descriptor  *)
(* for its client and one for its target; a switch to TLS makes a second   *)
(* socket object over each of them; at the end every object is deleted,    *)
(* and a deleted object closes its descriptor.  What the connections relay *)
(* is left to HandshakePipelines.                                          *)
(***************************************************************************)
EXTENDS Integers, FiniteSets

CONSTANTS
    Conns,         \* the connections: threads of the proxy
    Descriptors    \* the descriptors the process may have open at a time

ASSUME DescriptorsAssumption == Descriptors \subseteq Nat

VARIABLES
    pc,        \* per connection: where its thread is
    fd,        \* per connection and side: the descriptor its sockets hold
    replaced,  \* per connection and side: conn's socket is not the original
    owner      \* per descriptor: what it was opened for, or Free

vars == <<pc, fd, replaced, owner>>

Sides == {"client", "target"}
Free == <<>>
NoDescriptor == -1
Use == Conns \X Sides

Labels == {"idle", "connect", "handshake", "replaceTarget", "relay", "deleteClient",
           "deleteOriginalClient", "deleteTarget", "deleteOriginalTarget", "done", "escaped"}

TypeOK ==
    /\ pc \in [Conns -> Labels]
    /\ fd \in [Conns -> [Sides -> Descriptors \cup {NoDescriptor}]]
    /\ replaced \in [Conns -> [Sides -> BOOLEAN]]
    /\ owner \in [Descriptors -> Use \cup {Free}]

Init ==
    /\ pc = [c \in Conns |-> "idle"]
    /\ fd = [c \in Conns |-> [s \in Sides |-> NoDescriptor]]
    /\ replaced = [c \in Conns |-> [s \in Sides |-> FALSE]]
    /\ owner = [d \in Descriptors |-> Free]

-----------------------------------------------------------------------------
(* The operating system's table.                                           *)

\* A new descriptor is the lowest one that is free.
Lowest(d) == owner[d] = Free /\ \A e \in Descriptors : owner[e] = Free => d <= e

OpenDescriptor(c, s) ==
    \E d \in Descriptors :
        /\ Lowest(d)
        /\ owner' = [owner EXCEPT ![d] = <<c, s>>]
        /\ fd' = [fd EXCEPT ![c][s] = d]

\* close() frees the number, whoever has it now; of a free one it only fails.
CloseDescriptor(d) == owner' = [owner EXCEPT ![d] = Free]

-----------------------------------------------------------------------------
(* A connection.                                                           *)

GoesTo(c, from, to) ==
    /\ pc[c] = from
    /\ pc' = [pc EXCEPT ![c] = to]

\* The engine accepts a client and starts the plugin.
Accept(c) ==
    /\ GoesTo(c, "idle", "connect")
    /\ OpenDescriptor(c, "client")
    /\ UNCHANGED replaced

ConnectTarget(c) ==
    /\ GoesTo(c, "connect", "handshake")
    /\ OpenDescriptor(c, "target")
    /\ UNCHANGED replaced

\* No handler, no connection to the target, or a GSSENC request: the plugin
\* is left without a close.
Leave(c) ==
    /\ pc[c] \in {"connect", "handshake"}
    /\ pc' = [pc EXCEPT ![c] = "escaped"]
    /\ UNCHANGED <<fd, replaced, owner>>

\* The peers agree on TLS: the client's socket object is replaced, then the
\* target's; each of the two constructors may throw.
ReplaceClient(c) ==
    /\ \/ /\ GoesTo(c, "handshake", "replaceTarget")
          /\ replaced' = [replaced EXCEPT ![c]["client"] = TRUE]
       \/ /\ GoesTo(c, "handshake", "deleteClient")
          /\ UNCHANGED replaced
    /\ UNCHANGED <<fd, owner>>

ReplaceTarget(c) ==
    /\ \/ /\ GoesTo(c, "replaceTarget", "relay")
          /\ replaced' = [replaced EXCEPT ![c]["target"] = TRUE]
       \/ /\ GoesTo(c, "replaceTarget", "deleteClient")
          /\ UNCHANGED replaced
    /\ UNCHANGED <<fd, owner>>

\* A handshake in plain text, or one that fails.
FinishHandshake(c) ==
    /\ GoesTo(c, "handshake", "relay") \/ GoesTo(c, "handshake", "deleteClient")
    /\ UNCHANGED <<fd, replaced, owner>>

LeaveLoop(c) ==
    /\ GoesTo(c, "relay", "deleteClient")
    /\ UNCHANGED <<fd, replaced, owner>>

\* Mutant of AfterDelete: the test that the socket was replaced is missing.
AfterDeleteAlways(c, s, original, next) == original

\* Mutant of AfterDelete: without a replaced socket, nothing more is deleted.
AfterDeleteStops(c, s, original, next) == IF replaced[c][s] THEN original ELSE "done"

\* The original socket object is deleted too if it was replaced.
AfterDelete(c, s, original, next) == IF replaced[c][s] THEN original ELSE next

\* delete conn.client_socket; delete original_client_socket; and the same for
\* the target.
DeleteSocket(c) ==
    /\ \/ /\ GoesTo(c, "deleteClient",
                    AfterDelete(c, "client", "deleteOriginalClient", "deleteTarget"))
          /\ CloseDescriptor(fd[c]["client"])
       \/ /\ GoesTo(c, "deleteOriginalClient", "deleteTarget")
          /\ CloseDescriptor(fd[c]["client"])
       \/ /\ GoesTo(c, "deleteTarget",
                    AfterDelete(c, "target", "deleteOriginalTarget", "done"))
          /\ CloseDescriptor(fd[c]["target"])
       \/ /\ GoesTo(c, "deleteOriginalTarget", "done")
          /\ CloseDescriptor(fd[c]["target"])
    /\ UNCHANGED <<fd, replaced>>

Connection(c) ==
    \/ Accept(c) \/ ConnectTarget(c) \/ Leave(c)
    \/ ReplaceClient(c) \/ ReplaceTarget(c) \/ FinishHandshake(c)
    \/ LeaveLoop(c) \/ DeleteSocket(c)

Next == \E c \in Conns : Connection(c)

Spec == Init /\ [][Next]_vars

-----------------------------------------------------------------------------
(* What the connections may expect of each other.                          *)

\* Where a thread has opened the socket of side s and not begun to close it.
HeldAt(s) ==
    IF s = "client"
      THEN {"connect", "handshake", "replaceTarget", "relay", "deleteClient"}
      ELSE {"handshake", "replaceTarget", "relay", "deleteClient", "deleteOriginalClient",
            "deleteTarget"}

Holds(c) == {s \in Sides : pc[c] \in HeldAt(s)}

\* As long as a connection has not closed a socket itself, the descriptor is
\* still the one it opened: no other thread has closed it, and no other
\* connection shares it.
OwnDescriptors ==
    \A c \in Conns : \A s \in Holds(c) :
        /\ fd[c][s] \in Descriptors
        /\ owner[fd[c][s]] = <<c, s>>

\* The thread of c has deleted a socket and then the original it replaced.
ClosedTwice(c) ==
    \/ replaced[c]["client"] /\ pc[c] \in {"deleteTarget", "deleteOriginalTarget", "done"}
    \/ replaced[c]["target"] /\ pc[c] = "done"

\* The comments at the deletes, "Close the client socket" and "Close the server
\* socket": a thread closes its own sockets only, however the threads interleave
\* and numbers are reused.  Two socket objects over one descriptor do no harm
\* either, until the second of them is deleted: from then on the number may be
\* that of another connection.
OwnUntilClosedTwice == (\A c \in Conns : ~ ClosedTwice(c)) => OwnDescriptors

\* A descriptor in use belongs to a connection that still holds it, or to one
\* whose plugin was left without a close: nothing else leaks.
OnlyEscapesLeak ==
    \A d \in Descriptors, c \in Conns, s \in Sides :
        owner[d] = <<c, s>> => fd[c][s] = d /\ (s \in Holds(c) \/ pc[c] = "escaped")
=============================================================================
