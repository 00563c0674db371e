--------------------------- MODULE ProtocolServer ---------------------------
(***************************************************************************)
(* The protocol server: CProtocolPipeline's threads collect what a client  *)
(* sends, hand it to CHttpProtocolHandler::HandleData as one request, and  *)
(* send back what that returns.  HandleData parses the request, finds the  *)
(* command registered for its path and method, and turns exceptions into   *)
(* status codes.  The commands share the token store of the authentication *)
(* strategy and the files of the downloads folder, of which the model      *)
(* keeps one.                                                              *)
(*                                                                         *)
(* A request is sent in two parts: the head with the start of the body,    *)
(* and the rest of the body.                                               *)
(***************************************************************************)
EXTENDS Integers, Sequences

CONSTANTS
    Conns,      \* the connections
    Requests,   \* what the clients may ask: a set of functions from connections
                \* to [path, method, auth, token, login]
    Routes,     \* request_handlers_, in the order of its keys
    RetryCap    \* 100 in the code

\* A route has the paths its pattern matches and a command per method.
CommandNames == {"Login", "Logout", "IsAuthenticated", "SendFile", "Upload"}

ASSUME RoutesAssumption ==
    /\ Len(Routes) \in Nat /\ DOMAIN Routes = 1..Len(Routes)
    /\ \A i \in DOMAIN Routes :
          \A m \in DOMAIN Routes[i].commands : Routes[i].commands[m] \in CommandNames
ASSUME RequestsAssumption ==
    \A r \in Requests : \A c \in Conns : r[c].auth = "bearer" => r[c].token \in Int
ASSUME RetryAssumption == RetryCap \in Nat \ {0}

VARIABLES
    pc,             \* per connection: where its thread is
    request,        \* per client: what it asks
    link,           \* per client: "up", "fin" (closed its end) or "rst" (gone)
    sent,           \* per client: the parts it has sent
    read,           \* per connection: the parts in its request string
    retry,          \* per connection: polls that found nothing to read
    status,         \* per connection: the answer
    answered,       \* per client: the answer was sent to it
    socketOpen,     \* per connection: the client's socket is open
    authenticated,  \* per connection: what its context says
    \* shared by the threads
    tokens,         \* the tokens the authentication strategy accepts
    issued,         \* number of tokens made so far; a token is its number
    lock,           \* the connection that holds coutMutex, or None
    file,           \* the uploaded file: per part, whose it is
    good            \* per connection: its ofstream is open and has not failed

io      == <<link, sent, read, retry, socketOpen>>
uploads == <<lock, file, good>>
shared  == <<tokens, issued, uploads>>
vars    == <<pc, request, io, status, answered, authenticated, shared>>

None == "none"
NoToken == 0
Parts == 1..2

ASSUME ConnsAssumption == None \notin Conns

Statuses == {"none", "200", "400", "401", "404", "405", "500", "505", "engine"}

Labels == {"poll", "handle", "execute", "upload", "uploadLock", "uploadOpen",
           "uploadWrite", "uploadClose", "answer", "close", "done", "escaped", "returned"}

TypeOK ==
    /\ pc \in [Conns -> Labels]
    /\ request \in Requests
    /\ link \in [Conns -> {"up", "fin", "rst"}]
    /\ sent \in [Conns -> 0..2] /\ read \in [Conns -> 0..2]
    /\ retry \in [Conns -> 0..RetryCap]
    /\ status \in [Conns -> Statuses]
    /\ answered \in [Conns -> BOOLEAN]
    /\ socketOpen \in [Conns -> BOOLEAN]
    /\ authenticated \in [Conns -> BOOLEAN]
    /\ tokens \in SUBSET (1..issued) /\ issued \in Nat
    /\ lock \in Conns \cup {None}
    /\ file \in [Parts -> Conns \cup {None}]
    /\ good \in [Conns -> BOOLEAN]

\* Without a handler every thread returns at once, and leaves the client's
\* socket open.
Init ==
    /\ pc \in {[c \in Conns |-> l] : l \in {"poll", "returned"}}
    /\ request \in Requests
    /\ link = [c \in Conns |-> "up"]
    /\ sent = [c \in Conns |-> 0] /\ read = [c \in Conns |-> 0]
    /\ retry = [c \in Conns |-> 0]
    /\ status = [c \in Conns |-> "none"]
    /\ answered = [c \in Conns |-> FALSE]
    /\ socketOpen = [c \in Conns |-> TRUE]
    /\ authenticated = [c \in Conns |-> FALSE]
    /\ tokens = {1} /\ issued = 1
    /\ lock = None
    /\ file = [p \in Parts |-> None]
    /\ good = [c \in Conns |-> FALSE]

GoesTo(c, to) == pc' = [pc EXCEPT ![c] = to]

-----------------------------------------------------------------------------
(* CProtocolPipeline: collecting the request.                              *)

\* Out of the loop: what was collected is handled, if there is any.
LeaveLoop(c) == GoesTo(c, IF read[c] > 0 THEN "handle" ELSE "close")

\* Mutant of Poll: empty polls are not counted.
PollForever(c) ==
    /\ pc[c] = "poll"
    /\ \/ /\ read[c] < sent[c] /\ link[c] # "rst"
          /\ \E k \in (read[c] + 1)..sent[c] : read' = [read EXCEPT ![c] = k]
          /\ UNCHANGED <<pc, retry>>
       \/ /\ read[c] = sent[c] /\ link[c] = "fin"
          /\ LeaveLoop(c)
          /\ UNCHANGED <<read, retry>>
    /\ UNCHANGED <<request, link, sent, socketOpen, status, answered, authenticated, shared>>

\* Mutant of Poll: the limit is tested before the count goes up.
PollLate(c) ==
    /\ pc[c] = "poll"
    /\ \/ /\ read[c] < sent[c] /\ link[c] # "rst"
          /\ \E k \in (read[c] + 1)..sent[c] : read' = [read EXCEPT ![c] = k]
          /\ UNCHANGED <<pc, retry>>
       \/ /\ read[c] = sent[c] /\ link[c] = "fin"
          /\ LeaveLoop(c)
          /\ UNCHANGED <<read, retry>>
       \/ /\ read[c] = sent[c] /\ link[c] = "up"
          /\ retry' = [retry EXCEPT ![c] = @ + 1]
          /\ IF retry[c] = RetryCap THEN LeaveLoop(c) ELSE UNCHANGED pc
          /\ UNCHANGED read
    /\ UNCHANGED <<request, link, sent, socketOpen, status, answered, authenticated, shared>>

\* One turn of the loop.  Bytes are appended to the request; the end of stream
\* ends it; a poll that finds nothing is counted, over the whole request.  A
\* SocketSelect or a read that throws - a client that has reset the connection
\* makes every read throw - changes nothing, and the loop goes round.
Poll(c) ==
    /\ pc[c] = "poll"
    /\ \/ /\ read[c] < sent[c] /\ link[c] # "rst"
          /\ \E k \in (read[c] + 1)..sent[c] : read' = [read EXCEPT ![c] = k]
          /\ UNCHANGED <<pc, retry>>
       \/ /\ read[c] = sent[c] /\ link[c] = "fin"
          /\ LeaveLoop(c)
          /\ UNCHANGED <<read, retry>>
       \/ /\ read[c] = sent[c] /\ link[c] = "up"
          /\ retry' = [retry EXCEPT ![c] = @ + 1]
          /\ IF retry[c] + 1 = RetryCap THEN LeaveLoop(c) ELSE UNCHANGED pc
          /\ UNCHANGED read
    /\ UNCHANGED <<request, link, sent, socketOpen, status, answered, authenticated, shared>>

-----------------------------------------------------------------------------
(* CHttpProtocolHandler.                                                   *)

\* The first entry of request_handlers_ whose pattern matches, or 0.
FindRoute(r) ==
    LET matching == {i \in DOMAIN Routes : r.path \in Routes[i].paths}
    IN  IF matching = {} THEN 0 ELSE CHOOSE i \in matching : \A j \in matching : i <= j

\* The statuses HandleData may answer with at once; None: a command runs.  The
\* first pattern tried may be one that std::regex refuses: a runtime_error, 500.
HandleHttpRequest(r) ==
    {IF FindRoute(r) = 0 THEN "404"
     ELSE IF r.method \notin DOMAIN Routes[FindRoute(r)].commands THEN "405"
     ELSE None}
    \cup {"500" : i \in DOMAIN Routes}

Command(r) == Routes[FindRoute(r)].commands[r.method]

\* string_to_request throws on a head that is cut: an invalid_argument (400),
\* or another logic_error (505) if the version does not parse.
HandleData(c) ==
    /\ pc[c] = "handle"
    /\ \/ /\ read[c] < 2
          /\ status' \in {[status EXCEPT ![c] = s] : s \in {"400", "505"}}
          /\ GoesTo(c, "answer")
       \/ \E s \in HandleHttpRequest(request[c]) :
          \/ /\ s # None
             /\ status' = [status EXCEPT ![c] = s]
             /\ GoesTo(c, "answer")
          \/ /\ s = None
             /\ GoesTo(c, IF Command(request[c]) = "Upload" THEN "upload" ELSE "execute")
             /\ UNCHANGED status
    /\ UNCHANGED <<request, io, answered, authenticated, shared>>

-----------------------------------------------------------------------------
(* The commands.  A command that puts no response leaves it to the engine  *)
(* what to answer.                                                         *)

Answers(c, s) ==
    /\ status' = [status EXCEPT ![c] = s]
    /\ GoesTo(c, "answer")

\* The context has no authentication strategy: any_cast throws a bad_any_cast.
NoStrategy(c) ==
    /\ Answers(c, "500")
    /\ UNCHANGED <<authenticated, tokens, issued>>

\* A body that is no JSON throws, before the strategy is looked for; else the
\* strategy decides, and makes a token.
Login(c) ==
    /\ Command(request[c]) = "Login"
    /\ \/ NoStrategy(c)
       \/ /\ read[c] < 2 \/ request[c].login = "malformed"
          /\ Answers(c, "500")
          /\ UNCHANGED <<tokens, issued>>
       \/ /\ read[c] = 2 /\ request[c].login = "wrong"
          /\ Answers(c, "401")
          /\ UNCHANGED <<tokens, issued>>
       \/ /\ read[c] = 2 /\ request[c].login = "right"
          /\ issued' = issued + 1
          /\ tokens' = tokens \cup {issued + 1}
          /\ Answers(c, "200")
    /\ UNCHANGED authenticated

\* The token of an Authorization header, NoToken without the Bearer scheme.
BearerToken(r) == IF r.auth = "bearer" THEN r.token ELSE NoToken

\* Mutant of Logout: removeAuthentication is not called.
LogoutForgets(c) ==
    /\ Command(request[c]) = "Logout"
    /\ \/ NoStrategy(c)
       \/ /\ BearerToken(request[c]) = NoToken
          /\ authenticated' = [authenticated EXCEPT ![c] = FALSE]
          /\ Answers(c, "engine")
       \/ /\ BearerToken(request[c]) # NoToken
          /\ Answers(c, "200")
          /\ UNCHANGED authenticated
    /\ UNCHANGED <<tokens, issued>>

\* Mutant of Logout: a header without the Bearer scheme is not refused.
LogoutAnyScheme(c) ==
    /\ Command(request[c]) = "Logout"
    /\ \/ NoStrategy(c)
       \/ /\ request[c].auth = "none"
          /\ authenticated' = [authenticated EXCEPT ![c] = FALSE]
          /\ Answers(c, "engine")
          /\ UNCHANGED tokens
       \/ /\ request[c].auth # "none"
          /\ tokens' = tokens \ {request[c].token}
          /\ Answers(c, "200")
          /\ UNCHANGED authenticated
    /\ UNCHANGED issued

\* Without a bearer token nothing is logged out and no response is put.
Logout(c) ==
    /\ Command(request[c]) = "Logout"
    /\ \/ NoStrategy(c)
       \/ /\ BearerToken(request[c]) = NoToken
          /\ authenticated' = [authenticated EXCEPT ![c] = FALSE]
          /\ Answers(c, "engine")
          /\ UNCHANGED tokens
       \/ /\ BearerToken(request[c]) # NoToken
          /\ tokens' = tokens \ {BearerToken(request[c])}
          /\ Answers(c, "200")
          /\ UNCHANGED authenticated
    /\ UNCHANGED issued

IsAuthenticated(c) ==
    /\ Command(request[c]) = "IsAuthenticated"
    /\ \/ NoStrategy(c)
       \/ /\ authenticated' = [authenticated EXCEPT ![c] = BearerToken(request[c]) \in tokens]
          /\ Answers(c, "engine")
    /\ UNCHANGED <<tokens, issued>>

\* A file that cannot be opened is an empty one.  Without PUBLIC_FOLDER_PATH a
\* std::string is made from a null pointer: a logic_error.
SendFile(c) ==
    /\ Command(request[c]) = "SendFile"
    /\ Answers(c, "200") \/ Answers(c, "505")
    /\ UNCHANGED <<authenticated, tokens, issued>>

Execute(c) ==
    /\ pc[c] = "execute"
    /\ Login(c) \/ Logout(c) \/ IsAuthenticated(c) \/ SendFile(c)
    /\ UNCHANGED <<request, io, answered, uploads>>

\* HttpFileUploadCommand.  What can fail comes before the lock: a missing
\* environment variable is a logic_error, a missing length or end of the file's
\* headers an invalid_argument, a file name without its end an out_of_range.
UploadPrepare(c) ==
    /\ pc[c] = "upload"
    /\ \/ Answers(c, "400") \/ Answers(c, "505")
       \/ GoesTo(c, "uploadLock") /\ UNCHANGED status
    /\ UNCHANGED <<request, io, answered, authenticated, shared>>

\* Mutant of UploadLock: without the lock_guard.
UploadNoLock(c) ==
    /\ pc[c] = "uploadLock"
    /\ GoesTo(c, "uploadOpen")
    /\ UNCHANGED <<request, io, status, answered, authenticated, shared>>

UploadLock(c) ==
    /\ pc[c] = "uploadLock"
    /\ lock = None
    /\ lock' = c
    /\ GoesTo(c, "uploadOpen")
    /\ UNCHANGED <<request, io, status, answered, authenticated, tokens, issued, file, good>>

\* The ofstream truncates the file, or cannot open it.  Nothing looks at the
\* state of the stream.
UploadOpen(c) ==
    /\ pc[c] = "uploadOpen"
    /\ \/ /\ file' = [p \in Parts |-> None]
          /\ good' = [good EXCEPT ![c] = TRUE]
       \/ good' = [good EXCEPT ![c] = FALSE] /\ UNCHANGED file
    /\ GoesTo(c, "uploadWrite")
    /\ UNCHANGED <<request, io, status, answered, authenticated, tokens, issued, lock>>

\* What an ofstream puts out: nothing after a failure, and any output may fail.
PutsOut(c, contents) ==
    \/ good[c] /\ file' = contents /\ UNCHANGED good
    \/ good' = [good EXCEPT ![c] = FALSE] /\ UNCHANGED file

\* write() puts a part of the content out; the rest waits in the buffer.
UploadWrite(c) ==
    /\ pc[c] = "uploadWrite"
    /\ PutsOut(c, [file EXCEPT ![1] = c])
    /\ GoesTo(c, "uploadClose")
    /\ UNCHANGED <<request, io, status, answered, authenticated, tokens, issued, lock>>

\* The end of the block: the ofstream is flushed and closed, then the lock is
\* released.  A content that was cut is saved as far as it goes.
UploadClose(c) ==
    /\ pc[c] = "uploadClose"
    /\ PutsOut(c, IF read[c] = 2 THEN [file EXCEPT ![2] = c] ELSE file)
    /\ lock' = None
    /\ Answers(c, "200")
    /\ UNCHANGED <<request, io, answered, authenticated, tokens, issued>>

Upload(c) ==
    UploadPrepare(c) \/ UploadLock(c) \/ UploadOpen(c) \/ UploadWrite(c) \/ UploadClose(c)

-----------------------------------------------------------------------------
(* CProtocolPipeline: the answer.                                          *)

\* Outside any try: a send that throws leaves the plugin.
Answer(c) ==
    /\ pc[c] = "answer"
    /\ \/ /\ link[c] # "rst"
          /\ answered' = [answered EXCEPT ![c] = TRUE]
          /\ GoesTo(c, "close")
       \/ /\ link[c] # "up"
          /\ GoesTo(c, "escaped")
          /\ UNCHANGED answered
    /\ UNCHANGED <<request, io, status, authenticated, shared>>

CloseSocket(c) ==
    /\ pc[c] = "close"
    /\ socketOpen' = [socketOpen EXCEPT ![c] = FALSE]
    /\ GoesTo(c, "done")
    /\ UNCHANGED <<request, link, sent, read, retry, status, answered, authenticated, shared>>

Thread(c) ==
    Poll(c) \/ HandleData(c) \/ Execute(c) \/ Upload(c) \/ Answer(c) \/ CloseSocket(c)

-----------------------------------------------------------------------------
(* The clients.                                                            *)

\* Tokens cannot be guessed: the one a client carries has been issued, or is
\* a negative number and will never be.
ClientSends(c) ==
    /\ socketOpen[c] /\ link[c] = "up" /\ sent[c] < 2
    /\ BearerToken(request[c]) <= issued
    /\ sent' = [sent EXCEPT ![c] = @ + 1]
    /\ UNCHANGED <<pc, request, link, read, retry, socketOpen, status, answered,
                   authenticated, shared>>

ClientLeaves(c) ==
    /\ socketOpen[c]
    /\ \/ link[c] = "up" /\ link' \in {[link EXCEPT ![c] = l] : l \in {"fin", "rst"}}
       \/ link[c] = "fin" /\ link' = [link EXCEPT ![c] = "rst"]
    /\ UNCHANGED <<pc, request, sent, read, retry, socketOpen, status, answered,
                   authenticated, shared>>

\* A thread is over, or will poll a connection that was reset for ever.
Finished(c) == pc[c] \in {"done", "escaped", "returned"} \/ (pc[c] = "poll" /\ link[c] = "rst")

Ended == (\A c \in Conns : Finished(c)) /\ UNCHANGED vars

Next == Ended \/ \E c \in Conns : Thread(c) \/ ClientSends(c) \/ ClientLeaves(c)

Spec == Init /\ [][Next]_vars

\* Every thread is scheduled; clients promise nothing, and a mutex need not be
\* fair: a connection takes coutMutex once.
FairSpec == Spec /\ \A c \in Conns : WF_vars(Thread(c))

-----------------------------------------------------------------------------
(* What the server promises.                                               *)

\* "Mutex for thread safety" and "File uploaded successfully": whenever no
\* upload holds the mutex, the file is that of one upload from its beginning,
\* and the whole of it if the whole request was read before the retries ran
\* out and its ofstream did not fail; two uploads of the same name never leave
\* a mixture, also when one of them cannot open the file or write to it.
UploadsDoNotMix ==
    lock = None /\ file[1] # None =>
        /\ status[file[1]] = "200"
        /\ file[2] \in {file[1], None}
        /\ read[file[1]] = 2 /\ good[file[1]] => file[2] = file[1]

\* Nobody is logged out by others: a request that carried a token of a login
\* and was not found authenticated comes after a logout with that very token
\* that went through; no login, no other logout and none that was refused takes
\* it away.
OnlyItsLogoutEndsIt ==
    \A c \in Conns :
        /\ status[c] = "engine" /\ Command(request[c]) = "IsAuthenticated"
        /\ BearerToken(request[c]) > NoToken /\ ~ authenticated[c]
        => \E d \in Conns : /\ status[d] = "200" /\ Command(request[d]) = "Logout"
                            /\ BearerToken(request[d]) = BearerToken(request[c])

\* No thread finds a request with the token t authenticated in this step.
EntersWithout(t) ==
    \A c \in Conns : authenticated'[c] /\ ~ authenticated[c] => BearerToken(request[c]) # t

\* Once a client has been told that its logout succeeded, the token it carried
\* opens no door: no thread finds a request with that token authenticated,
\* however its steps and those of other logins and logouts interleave.
NoEntryAfterLogout ==
    [][\A d \in Conns :
          answered[d] /\ status[d] = "200" /\ Command(request[d]) = "Logout"
          => EntersWithout(BearerToken(request[d]))]_vars

\* No client holds a thread for ever: one that goes silent is given up after the
\* retries, and an upload that waits for the mutex gets it, for the one that
\* holds it reaches the end of its block.  (A thread polls a connection that was
\* reset for ever.)
ThreadEnds == \A c \in Conns : <>Finished(c)
=============================================================================
