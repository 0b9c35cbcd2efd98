------------------------------- MODULE WebServer -------------------------------
(***************************************************************************)
(* The web server (src/web-server): connections are accepted one after the *)
(* other, each is read until its header is complete, one response is       *)
(* written, and the connection is closed.  The handlers run on the threads *)
(* of the pool and on main's, with no strand.                              *)
(*                                                                         *)
(* A client's header is HeaderLength units long, and a read brings up to   *)
(* ReadSize of them; what comes behind the header is never looked at.      *)
(***************************************************************************)
EXTENDS RequestPath

CONSTANTS Clients,       \* ids, never reused
          Paths,         \* the paths that clients ask for
          HeaderLength,
          ReadSize       \* m_read_buffer.size(), 2048

ASSUME HeaderAssumption == HeaderLength \in Nat \ {0} /\ ReadSize \in Nat \ {0}

\* A path has as many components as it has slashes, and one more.
ASSUME PathsAssumption == Paths \subseteq Seq(STRING) \ {<<>>}

\* HttpRequestParser's parse: a method and a path, or nothing.
NoRequest == [method |-> "none", path |-> <<>>]
Requests  == {NoRequest} \cup [method : {"GET", "POST"}, path : Paths]

BadRequest == [status |-> 400, body |-> <<>>]
NotFound   == [status |-> 404, body |-> <<>>]
Ok(body)   == [status |-> 200, body |-> body]

\* The one handler that main registers.
Version    == <<"version">>
IsHandled(method, path) == method = "GET" /\ path = Version

--------------------------------------------------------------------------------
(***************************************************************************)
(* The files.  www is the root, www2 lies beside it, and www/prefix_escape *)
(* is a link to it, as tests.sh has it.                                    *)
(***************************************************************************)
\* weakly_canonical of the root and a path: the link is followed.
Canonical(path) ==
    IF path # <<>> /\ Head(path) = "prefix_escape" THEN <<"www2">> \o Tail(path)
    ELSE <<"www">> \o path

IsRegularFile(place) ==
    place \in {<<"www", "index.html">>, <<"www", "my_pic.png">>, <<"www2", "secret.txt">>}

\* Mutant: the names are compared without the slash behind the root.
InsideRootByPrefix(place) == Head(place) \in {"www", "www2"}

\* The canonical path is the root's, or has it and a slash at its front.
InsideRoot(place) == Head(place) = "www"

\* try_handle_static_file_request.
StaticFile(method, path) ==
    LET place == Canonical(IF path = <<>> THEN <<"index.html">> ELSE path)
    IN  IF method = "GET" /\ InsideRoot(place) /\ IsRegularFile(place) THEN Ok(place)
        ELSE NotFound

\* handle_client_read, once the header is complete.
Respond(r) ==
    LET normal == Normalize(r.path)
    IN  IF r = NoRequest \/ ~normal.ok THEN BadRequest
        ELSE IF IsHandled(r.method, normal.path) THEN Ok(Version)
        ELSE StaticFile(r.method, normal.path)

\* What a request is to be answered with, by what its path denotes: 400 for one that
\* is not understood or leads out of the root, the handler's answer, a file of the
\* root, or 404.  A path that ends in "." is found nowhere (WebServer.cpp:82 keeps it).
Expected(r) ==
    LET path == Denotes(r.path)
        file == IF path = <<>> THEN <<"www", "index.html">> ELSE <<"www">> \o path
    IN  IF r = NoRequest THEN BadRequest
        ELSE IF "malformed" \in ToSet(r.path) \/ LeavesRoot(r.path) THEN BadRequest
        ELSE IF r.method # "GET" \/ Last(r.path) = "." THEN NotFound
        ELSE IF path = Version THEN Ok(Version)
        ELSE IF IsRegularFile(file) THEN Ok(file)
        ELSE NotFound

\* What a request is answered with, and what it calls for.
Exchanges == {[response |-> Respond(r), due |-> Expected(r)] : r \in Requests}
Called == {exchange.due : exchange \in Exchanges}

--------------------------------------------------------------------------------
VARIABLES
    clients,     \* ClientManager::m_clients
    phase,       \* the operation that is pending on the reading side of each client
    received,    \* Client::m_request_buffer: how much of the header has arrived
    writing,     \* the number of async_writes pending for each client
    response,    \* Client::m_write_buffer
    sent,        \* the responses that each client got
    due,         \* history: the response that each client's request calls for
    running      \* neither stopped by a signal nor ended by an exception

vars == <<clients, phase, received, writing, response, sent, due, running>>

\* A response tells which file it holds, as the directory and the name.
Responses == {BadRequest, NotFound, Ok(Version)} \cup
             {Ok(<<"www", name>>) : name \in {"index.html", "my_pic.png"}}

TypeOK ==
    /\ clients \subseteq Clients
    /\ phase \in [Clients -> {"new", "accepting", "reading", "done"}]
    /\ received \in [Clients -> 0 .. HeaderLength]
    /\ writing \in [Clients -> Nat]
    /\ response \in [Clients -> Responses]
    /\ sent \in [Clients -> Seq(Responses)]
    /\ due \in [Clients -> Called]
    /\ running \in BOOLEAN

\* The constructor has resolved and bound its endpoint, and called accept().
Init ==
    /\ \E c \in Clients :
          /\ clients = {c}
          /\ phase = [d \in Clients |-> IF d = c THEN "accepting" ELSE "new"]
    /\ received = [c \in Clients |-> 0]
    /\ writing = [c \in Clients |-> 0]
    /\ response = [c \in Clients |-> BadRequest]
    /\ sent = [c \in Clients |-> <<>>]
    /\ due = [c \in Clients |-> BadRequest]
    /\ running = TRUE

--------------------------------------------------------------------------------
Unborn == {c \in Clients : phase[c] = "new"}

\* The accept callback: handle_accept, then accept() for the next client, as long as
\* the bound on their number allows.
HandleAccept(c, error) ==
    /\ running
    /\ phase[c] = "accepting"
    /\ LET next == IF error THEN "done" ELSE "reading"
           kept == IF error THEN clients \ {c} ELSE clients
       IN  \/ /\ Unborn = {}
              /\ phase' = [phase EXCEPT ![c] = next]
              /\ clients' = kept
           \/ \E d \in Unborn :
              /\ phase' = [phase EXCEPT ![c] = next, ![d] = "accepting"]
              /\ clients' = kept \cup {d}
    /\ UNCHANGED <<received, writing, response, sent, due, running>>

\* Client::read, the header is not complete: what came is kept, and more is read.
ReadPart(c, n) ==
    /\ running
    /\ phase[c] = "reading"
    /\ received[c] + n < HeaderLength
    /\ received' = [received EXCEPT ![c] = @ + n]
    /\ UNCHANGED <<clients, phase, writing, response, sent, due, running>>

\* Client::write
Write(c, r) ==
    /\ response' = [response EXCEPT ![c] = r]
    /\ writing' = [writing EXCEPT ![c] = @ + 1]

\* Mutant: the next request is read while the response is being written.
ReadHeaderGoesOn(c, exchange) ==
    /\ running
    /\ phase[c] = "reading"
    /\ received[c] + ReadSize >= HeaderLength
    /\ Write(c, exchange.response)
    /\ due' = [due EXCEPT ![c] = exchange.due]
    /\ UNCHANGED <<clients, phase, received, sent, running>>

\* Client::read and handle_client_read: a read brings the end of the header, the
\* client is still registered, and the response to its request is written.
ReadHeader(c, exchange) ==
    /\ running
    /\ phase[c] = "reading"
    /\ received[c] + ReadSize >= HeaderLength
    /\ phase' = [phase EXCEPT ![c] = "done"]
    /\ received' = [received EXCEPT ![c] = HeaderLength]
    /\ IF c \in clients THEN Write(c, exchange.response) ELSE UNCHANGED <<writing, response>>
    /\ due' = [due EXCEPT ![c] = exchange.due]
    /\ UNCHANGED <<clients, sent, running>>

\* handle_client_read with an error, the client's closing among them.
ReadFails(c) ==
    /\ running
    /\ phase[c] = "reading"
    /\ phase' = [phase EXCEPT ![c] = "done"]
    /\ clients' = clients \ {c}
    /\ UNCHANGED <<received, writing, response, sent, due, running>>

\* Mutant: the client is removed only when the write failed.
WriteDoneKeeps(c, error) ==
    /\ running
    /\ writing[c] > 0
    /\ writing' = [writing EXCEPT ![c] = @ - 1]
    /\ sent' = IF error THEN sent ELSE [sent EXCEPT ![c] = Append(@, response[c])]
    /\ clients' = IF error THEN clients \ {c} ELSE clients
    /\ UNCHANGED <<phase, received, response, due, running>>

\* handle_client_write, whatever the error.  The last reference to the client goes
\* with the handler, and the socket is closed.
WriteDone(c, error) ==
    /\ running
    /\ writing[c] > 0
    /\ writing' = [writing EXCEPT ![c] = @ - 1]
    /\ sent' = IF error THEN sent ELSE [sent EXCEPT ![c] = Append(@, response[c])]
    /\ clients' = clients \ {c}
    /\ UNCHANGED <<phase, received, response, due, running>>

\* stop() on a signal, or a file operation of handle_client_read throws: no handler
\* runs any more.
StopsRunning ==
    /\ running
    /\ running' = FALSE
    /\ UNCHANGED <<clients, phase, received, writing, response, sent, due>>

Answering(c) == (\E exchange \in Exchanges : ReadHeader(c, exchange)) \/ ReadFails(c)
Writing(c) == \E error \in BOOLEAN : WriteDone(c, error)

Next ==
    \/ \E c \in Clients :
          \/ \E error \in BOOLEAN : HandleAccept(c, error)
          \/ \E n \in 1 .. ReadSize : ReadPart(c, n)
          \/ Answering(c) \/ Writing(c)
    \/ StopsRunning

Spec == Init /\ [][Next]_vars

\* A write ends, with or without an error, and the pool's threads run its handler.  A
\* client may stop sending at any time.
FairSpec == Spec /\ \A c \in Clients : WF_vars(Writing(c))

--------------------------------------------------------------------------------
\* ClientManager: m_clients holds exactly the clients that an operation is pending
\* for, so none is leaked, and no handler meets one that is gone.
RegistryIsLive ==
    clients = {c \in Clients : phase[c] \in {"accepting", "reading"} \/ writing[c] > 0}

\* A connection carries one response, and only when a whole header has arrived,
\* however it was cut; the write buffer is not touched while it is written.
OneResponse ==
    \A c \in Clients : Len(sent[c]) + writing[c] <= (IF received[c] = HeaderLength THEN 1 ELSE 0)

\* Whatever its path looks like, a request is answered with what the place that it
\* denotes calls for: normalize_request and try_handle_static_file_request agree with
\* Expected, a link that leads out of the root is not served (tests.sh), and the
\* response that a client gets is the one to its own request.
ResponseMeetsRequest ==
    \A c \in Clients : /\ writing[c] > 0 => response[c] = due[c]
                       /\ sent[c] # <<>> => sent[c] = <<due[c]>>

\* A client whose header has arrived is removed in the end, whichever way its write
\* went: handle_client_write removes it on success and on failure.  What it was sent
\* by then is ResponseMeetsRequest's and OneResponse's.
EveryRequestEnds ==
    \A c \in Clients : received[c] = HeaderLength ~> (c \notin clients \/ ~running)

================================================================================
