----------------------- MODULE ProtocolServer_proofs -----------------------
(***************************************************************************)
(* Proofs about ProtocolServer, for any number of connections, any         *)
(* requests and any table of routes.                                       *)
(***************************************************************************)
EXTENDS ProtocolServer, TLAPS

-----------------------------------------------------------------------------
(* Type correctness.                                                       *)

\* The retry counter is below its limit while the loop runs, and a thread that
\* has left the loop with something to handle has read what the client sent.
Counted ==
    \A c \in Conns :
        /\ pc[c] = "poll" => retry[c] < RetryCap
        /\ read[c] <= sent[c]
        /\ pc[c] \notin {"poll", "close", "done", "returned"} => read[c] > 0

TypeInv == TypeOK /\ Counted

LEMMA TypeInit == Init => TypeInv
BY RetryAssumption DEF Init, TypeInv, TypeOK, Counted, Labels, Statuses, Parts

LEMMA CommandsTyped ==
    ASSUME TypeOK, NEW c \in Conns, Execute(c)
    PROVE  /\ pc[c] = "execute" /\ pc' = [pc EXCEPT ![c] = "answer"]
           /\ \E s \in {"200", "401", "500", "505", "engine"} :
                 status' = [status EXCEPT ![c] = s]
           /\ authenticated' \in [Conns -> BOOLEAN]
           /\ tokens' \in SUBSET (1..issued') /\ issued' \in Nat /\ issued <= issued'
<1> USE DEF Answers, GoesTo
<1>0. tokens \in SUBSET (1..issued) /\ issued \in Nat /\ authenticated \in [Conns -> BOOLEAN]
  BY DEF TypeOK
<1>1. CASE NoStrategy(c)
  BY <1>0, <1>1 DEF Execute, NoStrategy
<1>2. CASE Login(c)
  <2>1. /\ tokens \cup {issued + 1} \in SUBSET (1..(issued + 1))
        /\ issued + 1 \in Nat /\ issued <= issued + 1
    BY <1>0
  <2>2. \/ UNCHANGED <<tokens, issued>>
        \/ tokens' = tokens \cup {issued + 1} /\ issued' = issued + 1
    BY <1>2 DEF Login, NoStrategy
  <2>3. tokens' \in SUBSET (1..issued') /\ issued' \in Nat /\ issued <= issued'
    <3>1. CASE UNCHANGED <<tokens, issued>>
      BY <1>0, <3>1
    <3>2. CASE tokens' = tokens \cup {issued + 1} /\ issued' = issued + 1
      BY <2>1, <3>2
    <3> QED BY <2>2, <3>1, <3>2
  <2> QED BY <1>0, <1>1, <1>2, <2>3 DEF Execute, Login
<1>3. CASE Logout(c)
  <2>1. UNCHANGED issued /\ tokens' \subseteq tokens
    BY <1>3 DEF Logout, NoStrategy
  <2>2. tokens' \in SUBSET (1..issued') /\ issued' \in Nat /\ issued <= issued'
    BY <1>0, <2>1
  <2> QED BY <1>0, <1>1, <1>3, <2>2 DEF Execute, Logout
<1>4. CASE IsAuthenticated(c)
  <2>1. CASE /\ authenticated' = [authenticated EXCEPT ![c] = BearerToken(request[c]) \in tokens]
             /\ Answers(c, "engine") /\ UNCHANGED <<tokens, issued>>
    BY <1>0, <2>1 DEF Execute
  <2> QED BY <1>1, <1>4, <2>1 DEF IsAuthenticated
<1>5. CASE SendFile(c)
  BY <1>0, <1>5 DEF Execute, SendFile
<1> QED BY <1>2, <1>3, <1>4, <1>5 DEF Execute

LEMMA TypeStep == TypeInv /\ [Next]_vars => TypeInv'
<1> SUFFICES ASSUME TypeInv, [Next]_vars PROVE TypeInv'
  OBVIOUS
<1> USE DEF TypeInv
<1>1. ASSUME NEW c \in Conns, Poll(c) PROVE TypeInv'
  <2>1. read' \in [Conns -> 0..2] /\ retry' \in [Conns -> 0..RetryCap]
    BY <1>1, RetryAssumption DEF Poll, TypeOK, Counted
  <2>2. pc' \in [Conns -> Labels]
    BY <1>1 DEF Poll, LeaveLoop, GoesTo, TypeOK, Labels
  <2>3. TypeOK'
    BY <1>1, <2>1, <2>2 DEF Poll, TypeOK, shared, uploads
  <2>4. Counted'
    BY <1>1, RetryAssumption DEF Poll, LeaveLoop, GoesTo, TypeOK, Counted, Labels
  <2> QED BY <2>3, <2>4
<1>2. ASSUME NEW c \in Conns, HandleData(c) PROVE TypeInv'
  <2>1. HandleHttpRequest(request[c]) \subseteq {"404", "405", "500", None}
    BY DEF HandleHttpRequest
  <2>2. /\ pc[c] = "handle" /\ UNCHANGED <<request, io, answered, authenticated, shared>>
        /\ \E to \in {"answer", "upload", "execute"} : pc' = [pc EXCEPT ![c] = to]
        /\ status' \in [Conns -> Statuses]
    BY <1>2, <2>1 DEF HandleData, GoesTo, TypeOK, Statuses
  <2> QED BY <2>2 DEF TypeOK, Counted, Labels, io, shared, uploads
<1>3. ASSUME NEW c \in Conns, Execute(c) PROVE TypeInv'
  <2>1. UNCHANGED <<request, io, answered, uploads>>
    BY <1>3 DEF Execute
  <2>2. /\ pc[c] = "execute" /\ pc' = [pc EXCEPT ![c] = "answer"]
        /\ authenticated' \in [Conns -> BOOLEAN]
        /\ tokens' \in SUBSET (1..issued') /\ issued' \in Nat
    BY <1>3, CommandsTyped
  <2>3. status' \in [Conns -> Statuses]
    BY <1>3, CommandsTyped DEF TypeOK, Statuses
  <2> QED BY <2>1, <2>2, <2>3 DEF TypeOK, Counted, Labels, io, uploads
<1>4. ASSUME NEW c \in Conns, Upload(c) PROVE TypeInv'
  <2>1. CASE UploadPrepare(c)
    BY <2>1 DEF UploadPrepare, Answers, GoesTo, TypeOK, Counted, Labels, Statuses, io, shared, uploads
  <2>2. CASE UploadLock(c)
    BY <2>2 DEF UploadLock, GoesTo, TypeOK, Counted, Labels, io
  <2>3. CASE UploadOpen(c)
    BY <2>3 DEF UploadOpen, GoesTo, TypeOK, Counted, Labels, io
  <2>4. CASE UploadWrite(c)
    BY <2>4 DEF UploadWrite, PutsOut, GoesTo, TypeOK, Counted, Labels, io
  <2>5. CASE UploadClose(c)
    BY <2>5 DEF UploadClose, PutsOut, Answers, GoesTo, TypeOK, Counted, Labels, Statuses, io
  <2> QED BY <1>4, <2>1, <2>2, <2>3, <2>4, <2>5 DEF Upload
<1>5. ASSUME NEW c \in Conns, Answer(c) \/ CloseSocket(c) PROVE TypeInv'
  BY <1>5 DEF Answer, CloseSocket, GoesTo, TypeOK, Counted, Labels, io, shared, uploads
<1>6. ASSUME NEW c \in Conns, ClientSends(c) PROVE TypeInv'
  BY <1>6 DEF ClientSends, TypeOK, Counted, shared, uploads
<1>7. ASSUME NEW c \in Conns, ClientLeaves(c) PROVE TypeInv'
  BY <1>7 DEF ClientLeaves, TypeOK, Counted, shared, uploads
<1>8. CASE UNCHANGED vars
  BY <1>8 DEF vars, io, shared, uploads, TypeOK, Counted
<1> QED BY <1>1, <1>2, <1>3, <1>4, <1>5, <1>6, <1>7, <1>8 DEF Next, Thread, Ended

\* Every variable of the server keeps its type, the counter of empty polls its
\* limit, for any number of clients.
THEOREM ServerTypeCorrect == Spec => []TypeOK
<1>1. Spec => []TypeInv
  BY TypeInit, TypeStep, PTL DEF Spec
<1>2. TypeInv => TypeOK
  BY DEF TypeInv
<1> QED BY <1>1, <1>2, PTL
-----------------------------------------------------------------------------
(* Uploads.                                                                *)

Writing == {"uploadOpen", "uploadWrite", "uploadClose"}
Answering == {"answer", "close", "done", "escaped"}

\* The mutex belongs to the thread that is between its lock_guard and the end
\* of the block.
LockHeld == \A c \in Conns : pc[c] \in Writing <=> lock = c

\* A thread has its status once it is about to answer, and keeps it.
Settled == \A c \in Conns : status[c] # "none" => pc[c] \in Answering

WholeFile ==
    file[1] # None =>
        /\ status[file[1]] = "200"
        /\ file[2] \in {file[1], None}
        /\ read[file[1]] = 2 /\ good[file[1]] => file[2] = file[1]

\* What the file holds at each step of the thread that writes it; before its
\* ofstream is open, and when that has failed, it is still that of the upload
\* before, or empty.
FileState ==
    /\ \A c \in Conns : pc[c] = "uploadWrite" /\ good[c] => file[1] = None /\ file[2] = None
    /\ \A c \in Conns : pc[c] = "uploadClose" /\ good[c] => file[1] = c /\ file[2] = None
    /\ (\A c \in Conns : pc[c] \in {"uploadWrite", "uploadClose"} => ~ good[c]) => WholeFile

UploadInv == LockHeld /\ Settled /\ FileState

LEMMA UploadInit == Init => UploadInv
BY ConnsAssumption DEF Init, UploadInv, LockHeld, Settled, FileState, WholeFile, Writing, Parts

\* Steps of other commands and of the clients leave the mutex, the file and
\* every settled connection as they are.
LEMMA Aside ==
    ASSUME TypeOK, UploadInv, UNCHANGED uploads,
           \A d \in Conns : (pc[d] \in Writing \/ pc'[d] \in Writing) => pc'[d] = pc[d],
           \A d \in Conns : status[d] # "none" => /\ status'[d] = status[d]
                                                 /\ read'[d] = read[d]
                                                 /\ pc'[d] \in Answering,
           \A d \in Conns : status'[d] # "none" => pc'[d] \in Answering
    PROVE  UploadInv'
<1>1. LockHeld'
  BY DEF UploadInv, LockHeld, uploads
<1>2. Settled'
  BY DEF Settled
<1>3. WholeFile => WholeFile'
  <2>1. file[1] \in Conns \cup {None}
    BY DEF TypeOK, Parts
  <2> QED BY <2>1 DEF WholeFile, uploads
<1>4. FileState'
  BY <1>3 DEF UploadInv, FileState, Writing, uploads
<1> QED BY <1>1, <1>2, <1>4 DEF UploadInv

LEMMA UploadStep ==
    ASSUME TypeInv, UploadInv, [Next]_vars PROVE UploadInv'
<1> USE DEF TypeInv
<1>0. \A d \in Conns : status[d] # "none" => pc[d] \in Answering
  BY DEF UploadInv, Settled
<1>1. ASSUME NEW c \in Conns, Poll(c) PROVE UploadInv'
  <2>1. /\ pc[c] = "poll" /\ UNCHANGED <<uploads, status>>
        /\ \E to \in {"poll", "handle", "close"} : pc' = [pc EXCEPT ![c] = to]
    BY <1>1 DEF Poll, LeaveLoop, GoesTo, TypeOK, shared, uploads
  <2>2. \A d \in Conns : d # c => read'[d] = read[d]
    BY <1>1 DEF Poll, TypeOK
  <2> QED BY <1>0, <2>1, <2>2, Aside DEF TypeOK, Writing, Answering
<1>2. ASSUME NEW c \in Conns, HandleData(c) PROVE UploadInv'
  <2>2. /\ pc[c] = "handle" /\ UNCHANGED <<uploads, read>>
        /\ \E to \in {"answer", "upload", "execute"} :
              /\ pc' = [pc EXCEPT ![c] = to]
              /\ to = "answer" \/ UNCHANGED status
        /\ \A d \in Conns : d # c => status'[d] = status[d]
    BY <1>2 DEF HandleData, GoesTo, TypeOK, io, shared, uploads
  <2> QED BY <1>0, <2>2, Aside DEF TypeOK, Writing, Answering
<1>3. ASSUME NEW c \in Conns, Execute(c) PROVE UploadInv'
  <2>1. pc[c] = "execute" /\ UNCHANGED <<uploads, read>>
    BY <1>3 DEF Execute, io
  <2>2. pc' = [pc EXCEPT ![c] = "answer"] /\ \A d \in Conns : d # c => status'[d] = status[d]
    BY <1>3, CommandsTyped DEF TypeOK
  <2> QED BY <1>0, <2>1, <2>2, Aside DEF TypeOK, Writing, Answering
<1>4. ASSUME NEW c \in Conns, UploadPrepare(c) PROVE UploadInv'
  <2>1. /\ pc[c] = "upload" /\ UNCHANGED <<uploads, read>>
        /\ \E to \in {"answer", "uploadLock"} :
              /\ pc' = [pc EXCEPT ![c] = to]
              /\ to = "answer" \/ UNCHANGED status
        /\ \A d \in Conns : d # c => status'[d] = status[d]
    BY <1>4 DEF UploadPrepare, Answers, GoesTo, TypeOK, io, shared, uploads
  <2> QED BY <1>0, <2>1, Aside DEF TypeOK, Writing, Answering
<1>5. ASSUME NEW c \in Conns, UploadLock(c) PROVE UploadInv'
  <2>1. /\ pc[c] = "uploadLock" /\ pc' = [pc EXCEPT ![c] = "uploadOpen"]
        /\ lock = None /\ lock' = c /\ UNCHANGED <<file, good, read, status>>
    BY <1>5 DEF UploadLock, GoesTo, io
  <2>2. \A d \in Conns : pc[d] \notin Writing
    BY <2>1, ConnsAssumption DEF UploadInv, LockHeld
  <2>3. LockHeld'
    BY <2>1, <2>2 DEF LockHeld, TypeOK, Writing
  <2>4. Settled'
    BY <2>1 DEF UploadInv, Settled, TypeOK, Answering
  <2>5. WholeFile'
    BY <2>1, <2>2 DEF UploadInv, FileState, WholeFile, Writing
  <2>6. FileState'
    BY <2>1, <2>2, <2>5 DEF FileState, TypeOK, Writing
  <2> QED BY <2>3, <2>4, <2>6 DEF UploadInv
<1>6. ASSUME NEW c \in Conns, UploadOpen(c) \/ UploadWrite(c) PROVE UploadInv'
  <2>1. /\ \/ pc[c] = "uploadOpen" /\ pc' = [pc EXCEPT ![c] = "uploadWrite"]
           \/ pc[c] = "uploadWrite" /\ pc' = [pc EXCEPT ![c] = "uploadClose"]
        /\ UNCHANGED <<lock, read, status>>
        /\ \A d \in Conns : d # c => good'[d] = good[d]
    BY <1>6 DEF UploadOpen, UploadWrite, PutsOut, GoesTo, TypeOK, io
  <2>2. \A d \in Conns : d # c => pc[d] \notin Writing
    BY <2>1 DEF UploadInv, LockHeld, Writing
  <2>3. LockHeld'
    BY <2>1 DEF UploadInv, LockHeld, TypeOK, Writing
  <2>4. Settled'
    BY <2>1 DEF UploadInv, Settled, TypeOK, Answering
  <2>5. file[1] \in Conns \cup {None} /\ good \in [Conns -> BOOLEAN] /\ pc \in [Conns -> Labels]
    BY DEF TypeOK, Parts
  <2>6. ASSUME WholeFile, UNCHANGED file, ~ good'[c] PROVE WholeFile'
    BY <2>1, <2>5, <2>6 DEF WholeFile
  <2>7. /\ \A d \in Conns : d # c => pc'[d] \notin {"uploadWrite", "uploadClose"}
        /\ UploadOpen(c) => pc'[c] = "uploadWrite"
        /\ UploadWrite(c) => pc'[c] = "uploadClose"
    BY <2>1, <2>2, <2>5 DEF UploadOpen, UploadWrite, Writing
  <2>8. ASSUME \/ ~ good'[c] /\ WholeFile'
               \/ pc'[c] = "uploadWrite" /\ good'[c] /\ file'[1] = None /\ file'[2] = None
               \/ pc'[c] = "uploadClose" /\ good'[c] /\ file'[1] = c /\ file'[2] = None
        PROVE  FileState'
    <3>1. CASE ~ good'[c] /\ WholeFile'
      BY <2>7, <3>1 DEF FileState
    <3>2. CASE pc'[c] = "uploadWrite" /\ good'[c] /\ file'[1] = None /\ file'[2] = None
      BY <2>7, <3>2 DEF FileState
    <3>3. CASE pc'[c] = "uploadClose" /\ good'[c] /\ file'[1] = c /\ file'[2] = None
      BY <2>7, <3>3 DEF FileState
    <3> QED BY <2>8, <3>1, <3>2, <3>3
  <2>9. CASE UploadOpen(c)
    <3>1. CASE /\ file' = [p \in Parts |-> None] /\ good'[c]
      <4>1. file'[1] = None /\ file'[2] = None
        BY <3>1 DEF Parts
      <4>2. pc'[c] = "uploadWrite" /\ good'[c]
        BY <2>7, <2>9, <3>1
      <4> QED BY <2>3, <2>4, <2>8, <4>1, <4>2 DEF UploadInv
    <3>2. CASE good' = [good EXCEPT ![c] = FALSE] /\ UNCHANGED file
      <4>1. pc[c] = "uploadOpen"
        BY <2>9 DEF UploadOpen
      <4>2. WholeFile
        BY <2>2, <4>1 DEF UploadInv, FileState, Writing
      <4>3. WholeFile'
        BY <2>5, <2>6, <3>2, <4>2
      <4>4. ~ good'[c]
        BY <2>5, <3>2
      <4> QED BY <2>3, <2>4, <2>8, <4>3, <4>4 DEF UploadInv
    <3> QED BY <2>5, <2>9, <3>1, <3>2 DEF UploadOpen
  <2>10. CASE UploadWrite(c)
    <3>1. pc[c] = "uploadWrite"
      BY <2>10 DEF UploadWrite
    <3>2. CASE good[c] /\ file' = [file EXCEPT ![1] = c] /\ UNCHANGED good
      <4>1. file'[1] = c /\ file'[2] = None
        BY <3>1, <3>2 DEF UploadInv, FileState, TypeOK, Parts
      <4>2. pc'[c] = "uploadClose" /\ good'[c]
        BY <2>7, <2>10, <3>2
      <4> QED BY <2>3, <2>4, <2>8, <4>1, <4>2 DEF UploadInv
    <3>3. CASE good' = [good EXCEPT ![c] = FALSE] /\ UNCHANGED file
      <4>1. WholeFile
        BY <2>2, <3>1 DEF UploadInv, FileState, WholeFile, Writing
      <4>2. WholeFile'
        BY <2>5, <2>6, <3>3, <4>1
      <4>3. ~ good'[c]
        BY <2>5, <3>3
      <4> QED BY <2>3, <2>4, <2>8, <4>2, <4>3 DEF UploadInv
    <3> QED BY <2>10, <3>2, <3>3 DEF UploadWrite, PutsOut
  <2> QED BY <1>6, <2>9, <2>10
<1>7. ASSUME NEW c \in Conns, UploadClose(c) PROVE UploadInv'
  <2>1. /\ pc[c] = "uploadClose" /\ pc' = [pc EXCEPT ![c] = "answer"]
        /\ status' = [status EXCEPT ![c] = "200"]
        /\ lock' = None /\ UNCHANGED read
    BY <1>7 DEF UploadClose, Answers, GoesTo, io
  <2>2. \A d \in Conns : d # c => pc[d] \notin Writing
    BY <2>1 DEF UploadInv, LockHeld, Writing
  <2>3. LockHeld'
    BY <2>1, <2>2, ConnsAssumption DEF LockHeld, TypeOK, Writing
  <2>4. Settled'
    BY <2>1 DEF UploadInv, Settled, TypeOK, Answering
  <2>5. WholeFile'
    <3>0. /\ file[1] \in Conns \cup {None} /\ good \in [Conns -> BOOLEAN]
          /\ status \in [Conns -> Statuses] /\ file \in [Parts -> Conns \cup {None}]
      BY DEF TypeOK, Parts
    <3>1. CASE good[c] /\ UNCHANGED good
      <4>1. file[1] = c /\ file[2] = None
        BY <2>1, <3>1 DEF UploadInv, FileState
      <4>2. CASE read[c] = 2 /\ file' = [file EXCEPT ![2] = c]
        BY <2>1, <3>0, <4>1, <4>2 DEF WholeFile, Parts
      <4>3. CASE read[c] # 2 /\ UNCHANGED file
        BY <2>1, <3>0, <4>1, <4>3 DEF WholeFile
      <4>4. CASE good' = [good EXCEPT ![c] = FALSE] /\ UNCHANGED file
        BY <3>0, <3>1, <4>4
      <4> QED BY <1>7, <4>2, <4>3, <4>4 DEF UploadClose, PutsOut
    <3>2. CASE good' = [good EXCEPT ![c] = FALSE] /\ UNCHANGED file
      <4>1. CASE good[c]
        <5>1. file[1] = c /\ file[2] = None
          BY <2>1, <4>1 DEF UploadInv, FileState
        <5> QED BY <2>1, <3>0, <3>2, <5>1 DEF WholeFile
      <4>2. CASE ~ good[c]
        <5>1. WholeFile
          BY <2>2, <4>2 DEF UploadInv, FileState, Writing
        <5> QED BY <2>1, <3>0, <3>2, <5>1 DEF WholeFile
      <4> QED BY <4>1, <4>2
    <3> QED BY <1>7, <3>1, <3>2 DEF UploadClose, PutsOut
  <2>6. FileState'
    BY <2>1, <2>2, <2>5 DEF FileState, TypeOK, Writing
  <2> QED BY <2>3, <2>4, <2>6 DEF UploadInv
<1>8. ASSUME NEW c \in Conns, Answer(c) \/ CloseSocket(c) PROVE UploadInv'
  <2>1. /\ pc[c] \in {"answer", "close"} /\ UNCHANGED <<uploads, read, status>>
        /\ \E to \in {"close", "escaped", "done"} : pc' = [pc EXCEPT ![c] = to]
    BY <1>8 DEF Answer, CloseSocket, GoesTo, io, shared, uploads
  <2> QED BY <1>0, <2>1, Aside DEF TypeOK, Writing, Answering
<1>9. CASE UNCHANGED <<uploads, read, status, pc>>
  BY <1>0, <1>9, Aside
<1> QED BY <1>1, <1>2, <1>3, <1>4, <1>5, <1>6, <1>7, <1>8, <1>9
        DEF Next, Thread, Upload, Ended, ClientSends, ClientLeaves, vars, io, shared, uploads

LEMMA UploadInvariant == Spec => [](TypeInv /\ UploadInv)
<1>1. Init => TypeInv /\ UploadInv
  BY TypeInit, UploadInit
<1>2. TypeInv /\ UploadInv /\ [Next]_vars => (TypeInv /\ UploadInv)'
  BY TypeStep, UploadStep
<1> QED BY <1>1, <1>2, PTL DEF Spec

\* However many uploads of one name run at the same time, whenever none holds
\* the mutex the file is that of one of them, and all of it if all of the
\* request was read.
THEOREM UploadsExclude == Spec => []UploadsDoNotMix
<1>1. TypeInv /\ UploadInv => UploadsDoNotMix
  BY ConnsAssumption DEF UploadInv, LockHeld, FileState, WholeFile, Writing, UploadsDoNotMix
<1> QED BY <1>1, UploadInvariant, PTL
-----------------------------------------------------------------------------
(* Logging out.                                                            *)

\* A token is on the wire only when it has been issued, or never will be.
Carried == \A c \in Conns : sent[c] > 0 => BearerToken(request[c]) <= issued

Uploading == Writing \cup {"upload", "uploadLock"}

\* The threads in HttpFileUploadCommand are there for an upload.
UploadsOnly == \A c \in Conns : pc[c] \in Uploading => Command(request[c]) = "Upload"

\* The token of a logout that succeeded is not accepted, and since it was
\* issued before, no later login makes it again.
LoggedOut ==
    \A d \in Conns : status[d] = "200" /\ Command(request[d]) = "Logout" =>
        BearerToken(request[d]) \notin tokens /\ BearerToken(request[d]) <= issued

LogoutInv == Carried /\ UploadsOnly /\ LoggedOut

LEMMA TokensAreNumbers == ASSUME TypeOK, NEW c \in Conns PROVE BearerToken(request[c]) \in Int
BY RequestsAssumption DEF TypeOK, BearerToken, NoToken

\* What a command does to the tokens, and who is let in by it.
LEMMA CommandsTokens ==
    ASSUME TypeOK, NEW c \in Conns, Execute(c)
    PROVE  /\ tokens' \subseteq tokens \cup {issued + 1}
           /\ issued' = issued => tokens' \subseteq tokens
           /\ status'[c] = "200" /\ Command(request[c]) = "Logout" =>
                 BearerToken(request[c]) \notin tokens'
           /\ \A d \in Conns : authenticated'[d] /\ ~ authenticated[d] =>
                 BearerToken(request[d]) \in tokens
<1> USE DEF Answers, TypeOK
<1>1. CASE NoStrategy(c)
  BY <1>1 DEF NoStrategy
<1>2. CASE Login(c)
  BY <1>1, <1>2 DEF Login
<1>3. CASE Logout(c)
  BY <1>1, <1>3 DEF Logout
<1>4. CASE IsAuthenticated(c)
  <2>1. CASE /\ authenticated' = [authenticated EXCEPT ![c] = BearerToken(request[c]) \in tokens]
             /\ UNCHANGED <<tokens, issued>>
    BY <1>4, <2>1 DEF IsAuthenticated
  <2> QED BY <1>1, <1>4, <2>1 DEF IsAuthenticated
<1>5. CASE SendFile(c)
  BY <1>5 DEF SendFile
<1> QED BY <1>2, <1>3, <1>4, <1>5 DEF Execute

LEMMA LogoutStep == ASSUME TypeInv, LogoutInv, [Next]_vars PROVE LogoutInv'
<1> USE DEF TypeInv, LogoutInv
<1>0. UNCHANGED request
  BY DEF Next, Thread, Poll, HandleData, Execute, Upload, UploadPrepare, UploadLock, UploadOpen,
         UploadWrite, UploadClose, Answer, CloseSocket, ClientSends, ClientLeaves, Ended, vars
<1>1. ASSUME NEW c \in Conns, Execute(c) PROVE LogoutInv'
  <2>1. /\ pc[c] = "execute" /\ pc' = [pc EXCEPT ![c] = "answer"]
        /\ UNCHANGED sent
        /\ \A d \in Conns : d # c => status'[d] = status[d]
        /\ issued \in Nat /\ issued' \in Nat /\ issued <= issued'
    BY <1>1, CommandsTyped DEF Execute, io, TypeOK
  <2>2. BearerToken(request[c]) <= issued
    BY <2>1 DEF Counted, Carried, TypeOK
  <2>3. \A d \in Conns : BearerToken(request[d]) \in Int
    BY TokensAreNumbers
  <2>4. Carried'
    BY <1>0, <2>1, <2>3 DEF Carried
  <2>5. UploadsOnly'
    BY <1>0, <2>1 DEF UploadsOnly, TypeOK, Uploading, Writing
  <2>6. LoggedOut'
    <3> SUFFICES ASSUME NEW d \in Conns, status'[d] = "200", Command(request[d]) = "Logout"
                 PROVE  BearerToken(request[d]) \notin tokens' /\ BearerToken(request[d]) <= issued'
      BY <1>0 DEF LoggedOut
    <3>1. CASE d = c
      BY <1>1, <2>1, <2>2, <2>3, <3>1, CommandsTokens
    <3>2. CASE d # c
      <4>1. BearerToken(request[d]) \notin tokens /\ BearerToken(request[d]) <= issued
        BY <2>1, <3>2 DEF LoggedOut
      <4>2. tokens' \subseteq tokens \cup {issued + 1}
        BY <1>1, CommandsTokens
      <4> QED BY <2>1, <2>3, <4>1, <4>2
    <3> QED BY <3>1, <3>2
  <2> QED BY <2>4, <2>5, <2>6
<1>2. ASSUME NEW c \in Conns, Upload(c) PROVE LogoutInv'
  <2>1. /\ pc[c] \in Uploading /\ UNCHANGED <<sent, tokens, issued>>
        /\ \A d \in Conns : d # c => status'[d] = status[d] /\ pc'[d] = pc[d]
    BY <1>2 DEF Upload, UploadPrepare, UploadLock, UploadOpen, UploadWrite, UploadClose,
                Answers, GoesTo, TypeOK, Uploading, Writing, io, shared, uploads
  <2>2. Command(request[c]) = "Upload"
    BY <2>1 DEF UploadsOnly
  <2> QED BY <1>0, <2>1, <2>2 DEF Carried, UploadsOnly, LoggedOut
<1>3. ASSUME NEW c \in Conns, HandleData(c) PROVE LogoutInv'
  <2>1. /\ UNCHANGED <<sent, tokens, issued>>
        /\ \A d \in Conns : d # c => pc'[d] = pc[d]
        /\ pc'[c] \in Uploading => Command(request[c]) = "Upload"
    BY <1>3 DEF HandleData, GoesTo, TypeOK, Uploading, Writing, io, shared, uploads
  <2>2. \A d \in Conns : status'[d] = "200" => status[d] = "200"
    <3>1. "200" \notin HandleHttpRequest(request[c])
      BY DEF HandleHttpRequest, None
    <3> QED BY <1>3, <3>1 DEF HandleData, TypeOK
  <2> QED BY <1>0, <2>1, <2>2 DEF Carried, UploadsOnly, LoggedOut
<1>4. ASSUME NEW c \in Conns, ClientSends(c) PROVE LogoutInv'
  <2>1. /\ BearerToken(request[c]) <= issued /\ UNCHANGED <<pc, status, tokens, issued>>
        /\ \A d \in Conns : d # c => sent'[d] = sent[d]
    BY <1>4 DEF ClientSends, TypeOK, shared
  <2> QED BY <1>0, <2>1 DEF Carried, UploadsOnly, LoggedOut
<1>5. ASSUME NEW c \in Conns, Poll(c) \/ Answer(c) \/ CloseSocket(c) PROVE LogoutInv'
  <2>1. /\ UNCHANGED <<sent, status, tokens, issued>>
        /\ \A d \in Conns : pc'[d] \in Uploading => pc'[d] = pc[d]
    BY <1>5 DEF Poll, LeaveLoop, Answer, CloseSocket, GoesTo, TypeOK, Uploading, Writing, io, shared, uploads
  <2> QED BY <1>0, <2>1 DEF Carried, UploadsOnly, LoggedOut
<1>6. CASE UNCHANGED <<sent, status, tokens, issued, pc>>
  BY <1>0, <1>6 DEF Carried, UploadsOnly, LoggedOut
<1> QED BY <1>1, <1>2, <1>3, <1>4, <1>5, <1>6
        DEF Next, Thread, Ended, ClientLeaves, vars, io, shared, uploads

\* Whatever other logins and logouts do meanwhile, the token of a logout that
\* was answered with success lets no request in again.
THEOREM LogoutIsFinal == Spec => NoEntryAfterLogout
<1> DEFINE Step == \A d \in Conns :
              answered[d] /\ status[d] = "200" /\ Command(request[d]) = "Logout"
              => EntersWithout(BearerToken(request[d]))
<1>1. Init => LogoutInv
  BY DEF Init, LogoutInv, Carried, UploadsOnly, LoggedOut, Uploading, Writing
<1>2. TypeInv /\ LogoutInv /\ [Next]_vars => (TypeInv /\ LogoutInv)'
  BY TypeStep, LogoutStep
<1>3. TypeInv /\ LogoutInv /\ [Next]_vars => [Step]_vars
  <2> SUFFICES ASSUME TypeInv, LogoutInv, [Next]_vars,
                      NEW d \in Conns, status[d] = "200", Command(request[d]) = "Logout"
               PROVE  EntersWithout(BearerToken(request[d]))
    OBVIOUS
  <2>1. BearerToken(request[d]) \notin tokens
    BY DEF LogoutInv, LoggedOut
  <2>2. CASE UNCHANGED authenticated
    BY <2>2 DEF EntersWithout
  <2>3. ASSUME NEW c \in Conns, Execute(c) PROVE EntersWithout(BearerToken(request[d]))
    BY <2>1, <2>3, CommandsTokens DEF TypeInv, EntersWithout
  <2> QED BY <2>2, <2>3 DEF Next, Thread, Poll, HandleData, Upload, UploadPrepare, UploadLock,
             UploadOpen, UploadWrite, UploadClose, Answer, CloseSocket, ClientSends,
             ClientLeaves, Ended, vars
<1> QED BY <1>1, <1>2, <1>3, TypeInit, PTL DEF Spec, NoEntryAfterLogout
-----------------------------------------------------------------------------
(* Staying logged in.                                                      *)

\* A logout with the token t went through.
LoggedOutWith(t) ==
    \E d \in Conns : /\ status[d] = "200" /\ Command(request[d]) = "Logout"
                     /\ BearerToken(request[d]) = t

\* Of the tokens made so far, only those of logouts are no longer accepted.
TokensKept == \A t \in 1..issued : t \notin tokens => LoggedOutWith(t)

LEMMA KeptStep ==
    ASSUME TypeInv, UploadInv, LogoutInv, TokensKept, OnlyItsLogoutEndsIt, [Next]_vars
    PROVE  TokensKept' /\ OnlyItsLogoutEndsIt'
<1> USE DEF TypeInv
<1>1. UNCHANGED request
  BY DEF Next, Thread, Poll, HandleData, Execute, Upload, UploadPrepare, UploadLock, UploadOpen,
         UploadWrite, UploadClose, Answer, CloseSocket, ClientSends, ClientLeaves, Ended, vars
<1>2. \A d \in Conns : status[d] # "none" => pc[d] \in Answering
  BY DEF UploadInv, Settled
<1>3. ASSUME NEW c \in Conns, Execute(c) PROVE TokensKept' /\ OnlyItsLogoutEndsIt'
  <2>1. /\ pc[c] = "execute" /\ status[c] = "none"
        /\ \A d \in Conns : d # c => status'[d] = status[d]
        /\ \A d \in Conns : d # c => authenticated'[d] = authenticated[d]
        /\ issued \in Nat
    <3>1. pc[c] = "execute" /\ \A d \in Conns : d # c => status'[d] = status[d]
      BY <1>3, CommandsTyped DEF TypeOK
    <3>2. status[c] = "none"
      BY <1>2, <3>1 DEF Answering
    <3>3. \A d \in Conns : d # c => authenticated'[d] = authenticated[d]
      BY <1>3 DEF Execute, Login, Logout, IsAuthenticated, SendFile, NoStrategy, TypeOK
    <3> QED BY <3>1, <3>2, <3>3 DEF TypeOK
  <2>2. ASSUME NEW t, LoggedOutWith(t) PROVE LoggedOutWith(t)'
    BY <1>1, <2>1, <2>2 DEF LoggedOutWith, Command
  <2>3. BearerToken(request[c]) \in Int /\ BearerToken(request[c]) <= issued
    <3>1. sent[c] > 0
      BY <2>1 DEF Counted, TypeOK
    <3> QED BY <3>1, TokensAreNumbers DEF LogoutInv, Carried
  <2>4. TokensKept'
    <3> SUFFICES ASSUME NEW t \in 1..issued', t \notin tokens' PROVE LoggedOutWith(t)'
      BY DEF TokensKept
    <3>1. CASE t \in 1..issued /\ t \notin tokens
      BY <2>2, <3>1 DEF TokensKept
    <3>2. CASE t \in 1..issued /\ t \in tokens
      <4>1. /\ Logout(c) /\ BearerToken(request[c]) = t
            /\ status' = [status EXCEPT ![c] = "200"]
        BY <1>3, <3>2 DEF Execute, Login, Logout, IsAuthenticated, SendFile, NoStrategy, Answers
      <4>2. status'[c] = "200" /\ Command(request[c]) = "Logout"
        BY <4>1 DEF Logout, TypeOK
      <4> QED BY <1>1, <4>1, <4>2 DEF LoggedOutWith, Command
    <3>3. CASE t \notin 1..issued
      <4>1. issued' # issued
        BY <3>3
      <4>2. issued' = issued + 1 /\ issued + 1 \in tokens'
        BY <1>3, <4>1 DEF Execute, Login, Logout, IsAuthenticated, SendFile, NoStrategy
      <4> QED BY <2>1, <3>3, <4>2
    <3> QED BY <3>1, <3>2, <3>3
  <2>5. OnlyItsLogoutEndsIt'
    <3> SUFFICES ASSUME NEW d \in Conns,
                        (/\ status[d] = "engine" /\ Command(request[d]) = "IsAuthenticated"
                         /\ BearerToken(request[d]) > NoToken /\ ~ authenticated[d])'
                 PROVE  (\E e \in Conns : /\ status[e] = "200" /\ Command(request[e]) = "Logout"
                                          /\ BearerToken(request[e]) = BearerToken(request[d]))'
      BY Zenon DEF OnlyItsLogoutEndsIt
    <3> PICK t : t = BearerToken(request[d])
      OBVIOUS
    <3>0. /\ status'[d] = "engine" /\ Command(request[d]) = "IsAuthenticated"
          /\ BearerToken(request[d]) > NoToken /\ ~ authenticated'[d]
      BY <1>1 DEF Command
    <3> SUFFICES LoggedOutWith(t)'
      BY <1>1 DEF LoggedOutWith
    <3>1. CASE d # c
      <4>1. status[d] = "engine" /\ ~ authenticated[d]
        BY <2>1, <3>1, <3>0
      <4>2. LoggedOutWith(t)
        BY <3>0, <4>1, Zenon DEF OnlyItsLogoutEndsIt, LoggedOutWith
      <4> QED BY <2>2, <4>2
    <3>2. CASE d = c
      <4>1. IsAuthenticated(c)
        BY <1>3, <3>2, <3>0 DEF Execute, Login, Logout, SendFile
      <4>2. /\ authenticated' = [authenticated EXCEPT ![c] = BearerToken(request[c]) \in tokens]
            /\ UNCHANGED tokens
        BY <3>2, <3>0, <4>1 DEF IsAuthenticated, NoStrategy, Answers, TypeOK
      <4>3. BearerToken(request[c]) \notin tokens
        BY <3>2, <3>0, <4>2 DEF TypeOK
      <4>4. BearerToken(request[c]) \in 1..issued
        BY <2>1, <2>3, <3>2, <3>0 DEF NoToken
      <4>5. LoggedOutWith(t)
        BY <3>2, <4>3, <4>4 DEF TokensKept
      <4> QED BY <2>2, <4>5
    <3> QED BY <3>1, <3>2
  <2> QED BY <2>4, <2>5
<1>4. ASSUME UNCHANGED <<tokens, issued, authenticated>>,
             \A d \in Conns : /\ status[d] # "none" => status'[d] = status[d]
                              /\ status'[d] = "engine" => status[d] = "engine"
      PROVE  TokensKept' /\ OnlyItsLogoutEndsIt'
  <2>1. ASSUME NEW t, LoggedOutWith(t) PROVE LoggedOutWith(t)'
    BY <1>1, <1>4, <2>1 DEF LoggedOutWith, Command
  <2>2. TokensKept'
    BY <1>4, <2>1 DEF TokensKept
  <2>3. OnlyItsLogoutEndsIt'
    <3> SUFFICES ASSUME NEW d \in Conns,
                        (/\ status[d] = "engine" /\ Command(request[d]) = "IsAuthenticated"
                         /\ BearerToken(request[d]) > NoToken /\ ~ authenticated[d])'
                 PROVE  (\E e \in Conns : /\ status[e] = "200" /\ Command(request[e]) = "Logout"
                                          /\ BearerToken(request[e]) = BearerToken(request[d]))'
      BY Zenon DEF OnlyItsLogoutEndsIt
    <3> PICK t : t = BearerToken(request[d])
      OBVIOUS
    <3>0. /\ status[d] = "engine" /\ Command(request[d]) = "IsAuthenticated"
          /\ BearerToken(request[d]) > NoToken /\ ~ authenticated[d]
      BY <1>1, <1>4 DEF Command
    <3> SUFFICES LoggedOutWith(t)'
      BY <1>1 DEF LoggedOutWith
    <3>1. LoggedOutWith(t)
      BY <3>0, Zenon DEF OnlyItsLogoutEndsIt, LoggedOutWith
    <3> QED BY <2>1, <3>1
  <2> QED BY <2>2, <2>3
<1>5. ASSUME NEW c \in Conns, HandleData(c) PROVE TokensKept' /\ OnlyItsLogoutEndsIt'
  <2>1. "engine" \notin HandleHttpRequest(request[c])
    BY DEF HandleHttpRequest, None
  <2>2. pc[c] = "handle" /\ status[c] = "none"
    BY <1>2, <1>5 DEF HandleData, Answering
  <2>3. \A d \in Conns : /\ status[d] # "none" => status'[d] = status[d]
                         /\ status'[d] = "engine" => status[d] = "engine"
    BY <1>5, <2>1, <2>2 DEF HandleData, TypeOK
  <2> QED BY <1>4, <1>5, <2>3 DEF HandleData, shared
<1>6. ASSUME NEW c \in Conns, Upload(c) PROVE TokensKept' /\ OnlyItsLogoutEndsIt'
  <2>1. /\ pc[c] \in Uploading /\ UNCHANGED <<tokens, issued, authenticated>>
        /\ \A d \in Conns : d # c => status'[d] = status[d]
        /\ status'[c] = "engine" => status[c] = "engine"
    BY <1>6 DEF Upload, UploadPrepare, UploadLock, UploadOpen, UploadWrite, UploadClose,
                Answers, TypeOK, Uploading, Writing, shared
  <2>2. status[c] = "none"
    BY <1>2, <2>1 DEF Answering, Uploading, Writing
  <2> QED BY <1>4, <2>1, <2>2
<1>7. CASE UNCHANGED <<tokens, issued, authenticated, status>>
  BY <1>4, <1>7
<1> QED BY <1>3, <1>5, <1>6, <1>7
        DEF Next, Thread, Poll, Answer, CloseSocket, ClientSends, ClientLeaves, Ended, vars, shared

\* A token of a login is accepted until a logout with that token goes through,
\* whatever the logins and logouts of any number of other clients do meanwhile.
THEOREM LoginsLast == Spec => []OnlyItsLogoutEndsIt
<1> DEFINE Kept == TypeInv /\ UploadInv /\ LogoutInv /\ TokensKept /\ OnlyItsLogoutEndsIt
<1>1. Init => Kept
  <2> SUFFICES ASSUME Init PROVE Kept
    OBVIOUS
  <2>1. LogoutInv
    BY DEF Init, LogoutInv, Carried, UploadsOnly, LoggedOut, Uploading, Writing
  <2>2. TokensKept
    BY DEF Init, TokensKept
  <2>3. OnlyItsLogoutEndsIt
    BY DEF Init, OnlyItsLogoutEndsIt
  <2> QED BY <2>1, <2>2, <2>3, TypeInit, UploadInit
<1>2. Kept /\ [Next]_vars => Kept'
  BY TypeStep, UploadStep, LogoutStep, KeptStep
<1>3. Kept => OnlyItsLogoutEndsIt
  OBVIOUS
<1> HIDE DEF Kept
<1> QED BY <1>1, <1>2, <1>3, PTL DEF Spec
=============================================================================
