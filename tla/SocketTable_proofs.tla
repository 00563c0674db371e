------------------------- MODULE SocketTable_proofs -------------------------
(***************************************************************************)
(* Proofs about SocketTable, for any number of connections and any set of  *)
(* descriptors: the type invariant, that only plugins which are left       *)
(* without a close leak a descriptor, and that no connection loses one to  *)
(* another thread before a socket is deleted together with its original.   *)
(***************************************************************************)
EXTENDS SocketTable, TLAPS

\* A descriptor in use is not free.
LEMMA UseIsNotFree == \A c, s : <<c, s>> # Free
  BY DEF Free

\* Each step changes the program counter of one connection, as GoesTo says.
LEMMA OpenFacts ==
    ASSUME TypeOK, NEW c \in Conns, NEW s \in Sides, OpenDescriptor(c, s)
    PROVE  \E d \in Descriptors :
              /\ owner[d] = Free
              /\ owner' = [owner EXCEPT ![d] = <<c, s>>]
              /\ fd' = [fd EXCEPT ![c][s] = d]
  BY DEF OpenDescriptor, Lowest

\* An assignment to the table keeps its type.
LEMMA TableTyped ==
    ASSUME TypeOK, NEW d, NEW u \in Use \cup {Free}, owner' = [owner EXCEPT ![d] = u]
    PROVE  owner' \in [Descriptors -> Use \cup {Free}]
  BY DEF TypeOK

\* The type invariant is inductive.
LEMMA TypeStep == TypeOK /\ [Next]_vars => TypeOK'
  <1>1. SUFFICES ASSUME TypeOK, [Next]_vars PROVE TypeOK'
    OBVIOUS
  <1>2. CASE UNCHANGED vars
    BY <1>1, <1>2 DEF TypeOK, vars
  <1>3. ASSUME NEW c \in Conns, Connection(c) PROVE TypeOK'
    <2>1. ASSUME NEW s \in Sides, OpenDescriptor(c, s), UNCHANGED replaced,
                 NEW from \in Labels, NEW to \in Labels, GoesTo(c, from, to)
          PROVE  TypeOK'
      <3>1. PICK d \in Descriptors :
                /\ owner' = [owner EXCEPT ![d] = <<c, s>>]
                /\ fd' = [fd EXCEPT ![c][s] = d]
        BY <1>1, <2>1, OpenFacts
      <3>2. owner' \in [Descriptors -> Use \cup {Free}]
        <4>1. <<c, s>> \in Use \cup {Free}
          BY <1>3, <2>1 DEF Use
        <4> QED BY <1>1, <3>1, <4>1, TableTyped
      <3>3. fd' \in [Conns -> [Sides -> Descriptors \cup {NoDescriptor}]]
        BY <1>1, <3>1, <2>1 DEF TypeOK
      <3>4. pc' \in [Conns -> Labels]
        BY <1>1, <2>1 DEF TypeOK, GoesTo
      <3> QED BY <1>1, <2>1, <3>2, <3>3, <3>4 DEF TypeOK
    <2>2. CASE Accept(c)
      BY <2>1, <2>2 DEF Accept, Sides, Labels
    <2>3. CASE ConnectTarget(c)
      BY <2>1, <2>3 DEF ConnectTarget, Sides, Labels
    <2>4. CASE Leave(c)
      BY <1>1, <2>4 DEF TypeOK, Leave, Labels
    <2>5. CASE ReplaceClient(c)
      <3>1. PICK b \in BOOLEAN : replaced' = [replaced EXCEPT ![c]["client"] = b]
        <4>1. CASE UNCHANGED replaced
          <5>1. replaced' = [replaced EXCEPT ![c]["client"] = replaced[c]["client"]]
            BY <1>1, <4>1 DEF TypeOK, Sides
          <5> QED BY <1>1, <1>3, <5>1 DEF TypeOK, Sides
        <4>2. CASE replaced' = [replaced EXCEPT ![c]["client"] = TRUE]
          BY <4>2
        <4> QED BY <2>5, <4>1, <4>2 DEF ReplaceClient
      <3>2. replaced' \in [Conns -> [Sides -> BOOLEAN]]
        BY <1>1, <3>1 DEF TypeOK
      <3>3. pc' \in [Conns -> Labels]
        BY <1>1, <2>5 DEF TypeOK, ReplaceClient, GoesTo, Labels
      <3> QED BY <1>1, <2>5, <3>2, <3>3 DEF TypeOK, ReplaceClient
    <2>6. CASE ReplaceTarget(c)
      <3>1. PICK b \in BOOLEAN : replaced' = [replaced EXCEPT ![c]["target"] = b]
        <4>1. CASE UNCHANGED replaced
          <5>1. replaced' = [replaced EXCEPT ![c]["target"] = replaced[c]["target"]]
            BY <1>1, <4>1 DEF TypeOK, Sides
          <5> QED BY <1>1, <1>3, <5>1 DEF TypeOK, Sides
        <4>2. CASE replaced' = [replaced EXCEPT ![c]["target"] = TRUE]
          BY <4>2
        <4> QED BY <2>6, <4>1, <4>2 DEF ReplaceTarget
      <3>2. replaced' \in [Conns -> [Sides -> BOOLEAN]]
        BY <1>1, <3>1 DEF TypeOK
      <3>3. pc' \in [Conns -> Labels]
        BY <1>1, <2>6 DEF TypeOK, ReplaceTarget, GoesTo, Labels
      <3> QED BY <1>1, <2>6, <3>2, <3>3 DEF TypeOK, ReplaceTarget
    <2>7. CASE FinishHandshake(c)
      BY <1>1, <2>7 DEF TypeOK, FinishHandshake, GoesTo, Labels
    <2>8. CASE LeaveLoop(c)
      BY <1>1, <2>8 DEF TypeOK, LeaveLoop, GoesTo, Labels
    <2>9. CASE DeleteSocket(c)
      <3>1. PICK d : owner' = [owner EXCEPT ![d] = Free]
        BY <2>9 DEF DeleteSocket, CloseDescriptor
      <3>2. owner' \in [Descriptors -> Use \cup {Free}]
        BY <1>1, <3>1, TableTyped
      <3>3. pc' \in [Conns -> Labels]
        BY <1>1, <2>9 DEF TypeOK, DeleteSocket, GoesTo, AfterDelete, Labels
      <3> QED BY <1>1, <2>9, <3>2, <3>3 DEF TypeOK, DeleteSocket
    <2> QED BY <1>3, <2>2, <2>3, <2>4, <2>5, <2>6, <2>7, <2>8, <2>9 DEF Connection
  <1> QED BY <1>1, <1>2, <1>3 DEF Next

\* Type correctness of the descriptor table and of the threads that use it.
THEOREM TableTypeCorrect == Spec => []TypeOK
  <1>1. Init => TypeOK
    BY DEF Init, TypeOK, Labels
  <1> QED BY <1>1, TypeStep, PTL DEF Spec

-----------------------------------------------------------------------------
(* Nothing but an escape leaks.  The invariant is inductive as it stands.  *)

LEMMA LeakStep == TypeOK /\ OnlyEscapesLeak /\ [Next]_vars => OnlyEscapesLeak'
  <1>1. SUFFICES ASSUME TypeOK, OnlyEscapesLeak, [Next]_vars PROVE OnlyEscapesLeak'
    OBVIOUS
  <1>2. CASE UNCHANGED vars
    BY <1>1, <1>2 DEF OnlyEscapesLeak, Holds, HeldAt, vars
  <1>3. ASSUME NEW c \in Conns, Connection(c) PROVE OnlyEscapesLeak'
    <2>1. SUFFICES ASSUME NEW d \in Descriptors, NEW x \in Conns, NEW s \in Sides,
                          owner'[d] = <<x, s>>
                   PROVE  fd'[x][s] = d /\ (pc'[x] \in HeldAt(s) \/ pc'[x] = "escaped")
      BY DEF OnlyEscapesLeak, Holds, HeldAt
    <2>a. owner[d] = <<x, s>> => fd[x][s] = d /\ (pc[x] \in HeldAt(s) \/ pc[x] = "escaped")
      BY <1>1, <2>1 DEF OnlyEscapesLeak, Holds
    <2>2. CASE Accept(c)
      <3>1. PICK e \in Descriptors : /\ owner[e] = Free
                                     /\ owner' = [owner EXCEPT ![e] = <<c, "client">>]
                                     /\ fd' = [fd EXCEPT ![c]["client"] = e]
        BY <1>1, <2>2, OpenFacts DEF Accept, Sides
      <3>2. pc[c] = "idle" /\ pc' = [pc EXCEPT ![c] = "connect"]
        BY <2>2 DEF Accept, GoesTo
      <3>3. CASE d = e
        <4>1. x = c /\ s = "client"
          BY <1>1, <2>1, <3>1, <3>3 DEF TypeOK
        <4> QED BY <1>1, <3>1, <3>2, <3>3, <4>1 DEF TypeOK, HeldAt, Sides
      <3>4. CASE d # e
        <4>1. owner[d] = <<x, s>>
          BY <1>1, <2>1, <3>1, <3>4 DEF TypeOK
        <4>2. x # c
          BY <2>a, <3>2, <4>1 DEF HeldAt
        <4> QED BY <1>1, <2>a, <3>1, <3>2, <4>1, <4>2 DEF TypeOK
      <3> QED BY <3>3, <3>4
    <2>3. CASE ConnectTarget(c)
      <3>1. PICK e \in Descriptors : /\ owner[e] = Free
                                     /\ owner' = [owner EXCEPT ![e] = <<c, "target">>]
                                     /\ fd' = [fd EXCEPT ![c]["target"] = e]
        BY <1>1, <2>3, OpenFacts DEF ConnectTarget, Sides
      <3>2. pc[c] = "connect" /\ pc' = [pc EXCEPT ![c] = "handshake"]
        BY <2>3 DEF ConnectTarget, GoesTo
      <3>3. CASE d = e
        <4>1. x = c /\ s = "target"
          BY <1>1, <2>1, <3>1, <3>3 DEF TypeOK
        <4> QED BY <1>1, <3>1, <3>2, <3>3, <4>1 DEF TypeOK, HeldAt, Sides
      <3>4. CASE d # e
        <4>1. owner[d] = <<x, s>>
          BY <1>1, <2>1, <3>1, <3>4 DEF TypeOK
        <4>2. x = c => s = "client"
          BY <2>a, <3>2, <4>1 DEF HeldAt
        <4>3. fd'[x][s] = fd[x][s]
          BY <1>1, <3>1, <4>2 DEF TypeOK, Sides
        <4>4. pc'[x] \in HeldAt(s) \/ pc'[x] = "escaped"
          BY <1>1, <2>a, <3>2, <4>1, <4>2 DEF TypeOK, HeldAt
        <4> QED BY <2>a, <4>1, <4>3, <4>4
      <3> QED BY <3>3, <3>4
    <2>4. CASE Leave(c)
      BY <1>1, <2>1, <2>a, <2>4 DEF TypeOK, Leave
    <2>5. CASE ReplaceClient(c) \/ ReplaceTarget(c) \/ FinishHandshake(c) \/ LeaveLoop(c)
      <3>1. UNCHANGED <<fd, owner>>
        BY <2>5 DEF ReplaceClient, ReplaceTarget, FinishHandshake, LeaveLoop
      <3>2. PICK to \in {"replaceTarget", "relay", "deleteClient"} :
               pc' = [pc EXCEPT ![c] = to]
        BY <2>5 DEF ReplaceClient, ReplaceTarget, FinishHandshake, LeaveLoop, GoesTo
      <3>3. to \in HeldAt(s)
        BY <3>2 DEF HeldAt
      <3> QED BY <1>1, <2>1, <2>a, <3>1, <3>2, <3>3 DEF TypeOK
    <2>6. CASE DeleteSocket(c)
      <3>1. PICK t \in Sides : /\ owner' = [owner EXCEPT ![fd[c][t]] = Free]
                               /\ pc[c] # "escaped"
                               /\ s # t /\ pc[c] \in HeldAt(s) => pc'[c] \in HeldAt(s)
        BY <1>1, <2>1, <2>6
           DEF TypeOK, DeleteSocket, CloseDescriptor, GoesTo, AfterDelete, HeldAt, Sides
      <3>2. UNCHANGED fd /\ (x # c => pc'[x] = pc[x])
        BY <1>1, <2>6 DEF TypeOK, DeleteSocket, GoesTo
      <3>3. owner[d] = <<x, s>> /\ d # fd[c][t]
        BY <1>1, <2>1, <3>1, UseIsNotFree DEF TypeOK
      <3> QED BY <2>a, <3>1, <3>2, <3>3
    <2> QED BY <1>3, <2>2, <2>3, <2>4, <2>5, <2>6 DEF Connection
  <1> QED BY <1>1, <1>2, <1>3 DEF Next

\* Whatever connections switch to TLS and whatever their constructors throw, a
\* descriptor in use is held by its connection or was left by an escape.
THEOREM NothingElseLeaks == Spec => []OnlyEscapesLeak
  <1>1. Init => TypeOK /\ OnlyEscapesLeak
    BY UseIsNotFree DEF Init, TypeOK, OnlyEscapesLeak, Labels
  <1>2. TypeOK /\ OnlyEscapesLeak /\ [Next]_vars => (TypeOK /\ OnlyEscapesLeak)'
    BY TypeStep, LeakStep
  <1> QED BY <1>1, <1>2, PTL DEF Spec

-----------------------------------------------------------------------------
(* Whose descriptors are closed.  Until a socket is deleted together with  *)
(* the one it replaced, no thread closes a descriptor it does not hold.    *)

\* A thread deletes an original socket only if it was replaced.
OriginalsReplaced ==
    \A c \in Conns :
        /\ pc[c] = "deleteOriginalClient" => replaced[c]["client"]
        /\ pc[c] = "deleteOriginalTarget" => replaced[c]["target"]

LEMMA OriginalsStep ==
    ASSUME TypeOK, OriginalsReplaced, [Next]_vars
    PROVE  OriginalsReplaced'
  <1>1. CASE UNCHANGED vars
    BY <1>1 DEF OriginalsReplaced, vars
  <1>2. ASSUME NEW c \in Conns, Connection(c) PROVE OriginalsReplaced'
    <2>1. CASE DeleteSocket(c)
      <3>1. PICK to : /\ pc' = [pc EXCEPT ![c] = to]
                      /\ to = "deleteOriginalClient" => replaced[c]["client"]
                      /\ to = "deleteOriginalTarget" => replaced[c]["target"]
        BY <2>1 DEF DeleteSocket, GoesTo, AfterDelete
      <3>2. UNCHANGED replaced
        BY <2>1 DEF DeleteSocket
      <3> QED BY <3>1, <3>2 DEF TypeOK, OriginalsReplaced
    <2>2. CASE ~ DeleteSocket(c)
      <3>1. PICK to \in Labels : /\ pc' = [pc EXCEPT ![c] = to]
                                 /\ to # "deleteOriginalClient"
                                 /\ to # "deleteOriginalTarget"
        BY <1>2, <2>2 DEF Connection, Accept, ConnectTarget, Leave, ReplaceClient,
                          ReplaceTarget, FinishHandshake, LeaveLoop, GoesTo, Labels
      <3>2. \A x \in Conns : x # c => replaced'[x] = replaced[x]
        BY <1>2, <2>2 DEF TypeOK, Connection, Accept, ConnectTarget, Leave, ReplaceClient,
                          ReplaceTarget, FinishHandshake, LeaveLoop
      <3> QED BY <3>1, <3>2 DEF TypeOK, OriginalsReplaced
    <2> QED BY <2>1, <2>2
  <1> QED BY <1>1, <1>2 DEF Next

\* What was closed twice stays so.
LEMMA TwiceStays ==
    ASSUME TypeOK, [Next]_vars, NEW x \in Conns, ClosedTwice(x)
    PROVE  ClosedTwice(x)'
  <1>1. CASE UNCHANGED vars
    BY <1>1 DEF ClosedTwice, vars
  <1>2. ASSUME NEW c \in Conns, Connection(c) PROVE ClosedTwice(x)'
    <2>1. CASE x # c
      <3>1. pc'[x] = pc[x] /\ replaced'[x] = replaced[x]
        BY <1>2, <2>1 DEF TypeOK, Connection, Accept, ConnectTarget, Leave, ReplaceClient,
                          ReplaceTarget, FinishHandshake, LeaveLoop, DeleteSocket, GoesTo
      <3> QED BY <3>1 DEF ClosedTwice
    <2>2. CASE x = c
      <3>1. pc[c] \in {"deleteTarget", "deleteOriginalTarget", "done"}
        BY <2>2 DEF ClosedTwice
      <3>2. DeleteSocket(c)
        BY <1>2, <3>1 DEF Connection, Accept, ConnectTarget, Leave, ReplaceClient,
                          ReplaceTarget, FinishHandshake, LeaveLoop, GoesTo
      <3>3. UNCHANGED replaced /\ pc'[c] \in {"deleteOriginalTarget", "done"}
        BY <3>1, <3>2 DEF TypeOK, DeleteSocket, GoesTo, AfterDelete
      <3>4. pc[c] # "done"
        BY <3>2 DEF DeleteSocket, GoesTo
      <3> QED BY <2>2, <3>1, <3>3, <3>4 DEF ClosedTwice
    <2> QED BY <2>1, <2>2
  <1> QED BY <1>1, <1>2 DEF Next

LEMMA OwnStep ==
    ASSUME TypeOK, OriginalsReplaced, OwnDescriptors, [Next]_vars,
           \A c \in Conns : ~ ClosedTwice(c)'
    PROVE  OwnDescriptors'
  <1>1. CASE UNCHANGED vars
    BY <1>1 DEF OwnDescriptors, Holds, HeldAt, vars
  <1>2. ASSUME NEW c \in Conns, Connection(c) PROVE OwnDescriptors'
    <2>1. SUFFICES ASSUME NEW x \in Conns, NEW s \in Sides, pc'[x] \in HeldAt(s)
                   PROVE  fd'[x][s] \in Descriptors /\ owner'[fd'[x][s]] = <<x, s>>
      BY DEF OwnDescriptors, Holds, HeldAt
    <2>a. pc[x] \in HeldAt(s) => fd[x][s] \in Descriptors /\ owner[fd[x][s]] = <<x, s>>
      BY <2>1 DEF OwnDescriptors, Holds
    <2>2. ASSUME NEW t \in Sides, NEW e \in Descriptors, owner[e] = Free,
                 owner' = [owner EXCEPT ![e] = <<c, t>>],
                 fd' = [fd EXCEPT ![c][t] = e],
                 (x = c /\ s = t) \/ pc[x] \in HeldAt(s)
          PROVE  fd'[x][s] \in Descriptors /\ owner'[fd'[x][s]] = <<x, s>>
      <3>1. CASE x = c /\ s = t
        BY <2>2, <3>1 DEF TypeOK
      <3>2. CASE ~ (x = c /\ s = t)
        <4>1. fd'[x][s] = fd[x][s]
          BY <2>2, <3>2 DEF TypeOK
        <4>2. fd[x][s] # e
          BY <2>a, <2>2, <3>2, UseIsNotFree
        <4> QED BY <2>a, <2>2, <3>2, <4>1, <4>2 DEF TypeOK
      <3> QED BY <3>1, <3>2
    <2>3. CASE Accept(c)
      <3>1. PICK e \in Descriptors : /\ owner[e] = Free
                                     /\ owner' = [owner EXCEPT ![e] = <<c, "client">>]
                                     /\ fd' = [fd EXCEPT ![c]["client"] = e]
        BY <2>3, OpenFacts DEF Accept, Sides
      <3>2. (x = c /\ s = "client") \/ pc[x] \in HeldAt(s)
        BY <2>1, <2>3 DEF TypeOK, Accept, GoesTo, HeldAt, Sides
      <3> QED BY <2>2, <3>1, <3>2 DEF Sides
    <2>4. CASE ConnectTarget(c)
      <3>1. PICK e \in Descriptors : /\ owner[e] = Free
                                     /\ owner' = [owner EXCEPT ![e] = <<c, "target">>]
                                     /\ fd' = [fd EXCEPT ![c]["target"] = e]
        BY <2>4, OpenFacts DEF ConnectTarget, Sides
      <3>2. (x = c /\ s = "target") \/ pc[x] \in HeldAt(s)
        BY <2>1, <2>4 DEF TypeOK, ConnectTarget, GoesTo, HeldAt, Sides
      <3> QED BY <2>2, <3>1, <3>2 DEF Sides
    <2>5. CASE Leave(c)
      BY <2>1, <2>a, <2>5 DEF TypeOK, Leave, HeldAt
    <2>6. CASE ReplaceClient(c) \/ ReplaceTarget(c) \/ FinishHandshake(c) \/ LeaveLoop(c)
      <3>1. UNCHANGED <<fd, owner>>
        BY <2>6 DEF ReplaceClient, ReplaceTarget, FinishHandshake, LeaveLoop
      <3>2. pc[x] \in HeldAt(s)
        BY <2>1, <2>6 DEF TypeOK, ReplaceClient, ReplaceTarget, FinishHandshake, LeaveLoop,
                          GoesTo, HeldAt
      <3> QED BY <2>a, <3>1, <3>2
    <2>7. CASE DeleteSocket(c)
      <3>1. PICK t \in Sides : /\ owner' = [owner EXCEPT ![fd[c][t]] = Free]
                               /\ pc[c] \in HeldAt(t) /\ pc'[c] \notin HeldAt(t)
                               /\ pc'[c] \in HeldAt(s) => pc[c] \in HeldAt(s)
        <4>1. pc[c] # "deleteOriginalClient" /\ pc[c] # "deleteOriginalTarget"
          BY <2>7 DEF TypeOK, OriginalsReplaced, DeleteSocket, GoesTo, ClosedTwice, Labels
        <4>2. CASE pc[c] = "deleteClient"
          BY <2>7, <4>2 DEF TypeOK, DeleteSocket, CloseDescriptor, GoesTo, AfterDelete,
                            HeldAt, Sides
        <4>3. CASE pc[c] = "deleteTarget"
          BY <2>7, <4>3 DEF TypeOK, DeleteSocket, CloseDescriptor, GoesTo, AfterDelete,
                            HeldAt, Sides
        <4> QED BY <2>7, <4>1, <4>2, <4>3 DEF DeleteSocket, GoesTo
      <3>2. UNCHANGED fd /\ (x # c => pc'[x] = pc[x])
        BY <2>7 DEF TypeOK, DeleteSocket, GoesTo
      <3>3. pc[x] \in HeldAt(s) /\ <<x, s>> # <<c, t>>
        BY <2>1, <3>1, <3>2
      <3>4. owner[fd[c][t]] = <<c, t>>
        BY <3>1 DEF OwnDescriptors, Holds
      <3> QED BY <2>a, <3>1, <3>2, <3>3, <3>4 DEF TypeOK
    <2> QED BY <1>2, <2>3, <2>4, <2>5, <2>6, <2>7 DEF Connection
  <1> QED BY <1>1, <1>2 DEF Next

\* Any number of connections close their own descriptors only, however their
\* threads interleave and numbers are reused, until a thread deletes a socket
\* together with the original it replaced.
THEOREM ConnectionsKeepTheirs == Spec => []OwnUntilClosedTwice
  <1> DEFINE IInv == TypeOK /\ OriginalsReplaced /\ OwnUntilClosedTwice
  <1>1. Init => IInv
    BY DEF Init, TypeOK, OriginalsReplaced, OwnUntilClosedTwice, OwnDescriptors, Holds, HeldAt,
           Labels
  <1>2. IInv /\ [Next]_vars => IInv'
    <2>1. SUFFICES ASSUME IInv, [Next]_vars PROVE IInv'
      OBVIOUS
    <2>2. TypeOK' /\ OriginalsReplaced'
      BY <2>1, TypeStep, OriginalsStep
    <2>3. ASSUME \A c \in Conns : ~ ClosedTwice(c)' PROVE OwnDescriptors'
      <3>1. \A c \in Conns : ~ ClosedTwice(c)
        BY <2>1, <2>3, TwiceStays
      <3> QED BY <2>1, <2>3, <3>1, OwnStep DEF OwnUntilClosedTwice
    <2> QED BY <2>2, <2>3 DEF OwnUntilClosedTwice
  <1> QED BY <1>1, <1>2, PTL DEF Spec
=============================================================================
