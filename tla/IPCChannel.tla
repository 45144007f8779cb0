----------------------------- MODULE IPCChannel ------------------------------
(***************************************************************************)
(* The IPC between a client process (src/ipc/ipc_client.c) and the server  *)
(* (src/ipc/ipc_server.c): byte streams on which neither side looks for    *)
(* where a message begins.  A request goes out in two sends, header and    *)
(* payload; the server reads what is there; a reply goes out in one send   *)
(* and is read in two.  A call waits at most its socket's timeout.         *)
(*                                                                         *)
(* A stream is the sequence of pieces sent and not wholly read, and how    *)
(* many bytes of the first one have been read.  The process's threads      *)
(* share one context.  A process ends, of itself, by a signal or by        *)
(* SIGPIPE, and another one begins with a context of its own; the server,  *)
(* once dead, stays dead.                                                  *)
(***************************************************************************)
EXTENDS IPCRegistry, Sequences, SequencesExt

CONSTANTS
  Callers,   \* the threads of the client process
  Requests,  \* what they ask
  MaxPayload, \* IPC_MAX_PAYLOAD_SIZE, in bytes
  Floats,    \* what four bytes that are no volume may say, in percent
  MaxCalls,  \* bound: calls made
  MaxConns   \* bound: connections made

Pids == {r.pid : r \in Requests}

\* A registration's volume is in range already (app_volume_driver.c:145,
\* app_volume_control.c:134); the server limits what SetVolume sets.
ASSUME IPCChannelAssumption ==
  /\ Requests \subseteq [cmd : Commands, pid : Pids, volume : Int, muted : BOOLEAN]
  /\ \A r \in Requests : r.cmd = "Register" => r.volume \in 0..100
  /\ IsFiniteSet(Requests)
  /\ MaxPayload \in Nat /\ Floats \subseteq Int
  /\ MaxCalls \in Nat /\ MaxConns \in Nat

VARIABLES
  connected, fd,   \* IPCClientContext; fd 0 stands for -1
  call,            \* each thread's call: where it is, what it holds
  calls,           \* bound: calls made
  links,           \* connections, the two ends of each and its streams
  alive,           \* the server runs
  clients,         \* IPCServerContext.clients
  skewed           \* history: connections that may have lost step

ctx  == <<connected, fd>>
vars == <<ctx, call, calls, links, alive, clients, skewed>>

NoReply == [of |-> 0, size |-> 0, status |-> "InvalidHeader", pids |-> {}]
NoCall  == [at |-> "idle", id |-> 0, cmd |-> "Ping", request |-> <<>>,
            reply |-> NoReply, result |-> "none", answered |-> 0, sure |-> FALSE,
            listed |-> {}]
Empty   == [pieces |-> <<>>, skew |-> 0]
Unused  == [up |-> Empty, down |-> Empty, client |-> FALSE, server |-> "none"]

Init ==
  /\ connected = FALSE /\ fd = 0
  /\ call = [c \in Callers |-> NoCall] /\ calls = 0
  /\ links = [l \in 1..MaxConns |-> Unused]
  /\ alive = TRUE /\ clients = {} /\ skewed = {}

-----------------------------------------------------------------------------
(* Streams                                                                  *)

Sized(pieces) ==
  LET upTo[k \in 0..Len(pieces)] == IF k = 0 THEN 0 ELSE upTo[k - 1] + pieces[k].size
  IN  upTo[Len(pieces)]

Available(s) == Sized(s.pieces) - s.skew

Put(s, piece) == [s EXCEPT !.pieces = Append(@, piece)]

\* What recv leaves of s when it returns n bytes.
Taken(s, n) ==
  LET First(k) == Sized(SubSeq(s.pieces, 1, k))
      gone == Max({k \in 0..Len(s.pieces) : First(k) <= s.skew + n})
  IN  [pieces |-> SubSeq(s.pieces, gone + 1, Len(s.pieces)),
       skew   |-> s.skew + n - First(gone)]

AtMost(s, n) == IF Available(s) < n THEN Available(s) ELSE n

\* The next bytes are a whole header: magic, version and command agree.
AtHeader(s) ==
  s.pieces # <<>> /\ s.skew = 0 /\ Head(s.pieces).header

-----------------------------------------------------------------------------
(* The client                                                               *)

\* The context of a process that begins, and every fd of one that ends.
ProcessEnds ==
  /\ connected' = FALSE /\ fd' = 0
  /\ call' = [c \in Callers |-> NoCall]
  /\ links' = [l \in 1..MaxConns |-> [links[l] EXCEPT !.client = FALSE]]
  /\ UNCHANGED <<calls, alive, clients, skewed>>

Used == {l \in 1..MaxConns : links[l].server # "none"}

\* ipc_client_connect, called when the context is not connected: whatever fd
\* it still holds is forgotten.
Connect ==
  /\ ~connected /\ \A c \in Callers : call[c].at = "idle"
  /\ Cardinality(Used) < MaxConns
  /\ connected' = alive
  /\ fd' = IF alive THEN Cardinality(Used) + 1 ELSE 0
  /\ links' = IF alive
              THEN [links EXCEPT ![fd'] = [@ EXCEPT !.client = TRUE, !.server = "queued"]]
              ELSE links
  /\ UNCHANGED <<call, calls, alive, clients, skewed>>

Disconnect ==
  /\ fd # 0 /\ \A c \in Callers : call[c].at = "idle"
  /\ connected' = FALSE /\ fd' = 0
  /\ links' = [links EXCEPT ![fd].client = FALSE]
  /\ UNCHANGED <<call, calls, alive, clients, skewed>>

Exit == (\E l \in 1..MaxConns : links[l].client) /\ ProcessEnds

Fail(c) == call' = [call EXCEPT ![c].at = "idle", ![c].result = "error"]

\* An operation that finds the context connected builds its request, whether
\* or not another thread's is under way on the same connection.
Begin(c, r) ==
  /\ call[c].at = "idle" /\ connected
  /\ calls < MaxCalls
  /\ calls' = calls + 1
  /\ call' = [call EXCEPT ![c] =
       [NoCall EXCEPT !.at = "send_head", !.id = calls + 1, !.cmd = r.cmd, !.request = r]]
  /\ skewed' = IF \A d \in Callers : call[d].at = "idle" THEN skewed ELSE skewed \union {fd}
  /\ UNCHANGED <<ctx, links, alive, clients>>

\* send on a connection the server has left raises SIGPIPE.
Send(piece, next, c) ==
  IF links[fd].server = "closed" THEN ProcessEnds
  ELSE /\ links' = [links EXCEPT ![fd].up = Put(@, piece)]
       /\ call' = [call EXCEPT ![c].at = next]
       /\ UNCHANGED <<ctx, calls, alive, clients, skewed>>

SendHead(c) ==
  /\ call[c].at = "send_head"
  /\ IF ~connected
     THEN Fail(c) /\ UNCHANGED <<ctx, calls, links, alive, clients, skewed>>
     ELSE Send([of |-> call[c].id, size |-> HeaderSize, header |-> TRUE,
                request |-> call[c].request],
               IF PayloadSize[call[c].cmd] > 0 THEN "send_body" ELSE "recv_head", c)

SendBody(c) ==
  /\ call[c].at = "send_body"
  /\ Send([of |-> call[c].id, size |-> PayloadSize[call[c].cmd], header |-> FALSE,
           request |-> call[c].request],
          "recv_head", c)

\* The buffer each operation receives its reply in.
Room(cmd) ==
  CASE cmd = "GetVolume"   -> VolumeSize
    [] cmd = "ListClients" -> MaxPayload
    [] OTHER               -> ResponseSize

\* Nothing came: end of file, or the timeout.  The connection is given up.
GiveUpKeepingLink(c) ==
  /\ connected' = connected
  /\ Fail(c)
  /\ UNCHANGED <<fd, calls, links, alive, clients, skewed>>
GiveUp(c) ==
  /\ connected' = FALSE
  /\ Fail(c)
  /\ UNCHANGED <<fd, calls, links, alive, clients, skewed>>

AwaitsBytes(c) ==
  /\ (call[c].at = "recv_head" /\ connected) \/ call[c].at = "recv_body"
  /\ Available(links[fd].down) = 0

NoTimeout(c)   == AwaitsBytes(c) /\ links[fd].server = "closed" /\ GiveUp(c)
NothingCame(c) == AwaitsBytes(c) /\ GiveUp(c)

\* Another thread has given the connection up meanwhile: recv head looks.
LinkLost(c) ==
  /\ call[c].at = "recv_head" /\ ~connected
  /\ Fail(c)
  /\ UNCHANGED <<ctx, calls, links, alive, clients, skewed>>

\* A header that is short, invalid or announces too much ends the call and
\* leaves the rest of the stream where it is.
RecvHead(c) ==
  LET down == links[fd].down
      n    == AtMost(down, HeaderSize)
      came == Head(down.pieces)
      len  == came.size - HeaderSize
      good == n = HeaderSize /\ AtHeader(down)
      more == good /\ len <= Room(call[c].cmd)
  IN
  /\ call[c].at = "recv_head" /\ connected /\ n > 0
  /\ links' = [links EXCEPT ![fd].down = Taken(@, n)]
  /\ call' = [call EXCEPT
       ![c].at     = IF more THEN "recv_body" ELSE "idle",
       ![c].result = IF more THEN "none" ELSE "error",
       ![c].reply  = IF good THEN [of |-> came.of, size |-> came.size,
                                   status |-> came.status, pids |-> came.pids]
                     ELSE NoReply]
  /\ skewed' = IF good /\ ~more THEN skewed \union {fd} ELSE skewed
  /\ UNCHANGED <<ctx, calls, alive, clients>>

AnyStatus(reply) == TRUE
Granted(reply)   == reply.status = "OK"

\* The status is the first bytes of the payload; only status and command
\* decide: request_id is not looked at.  A list is taken whatever its status,
\* and read from byte 0.
RecvBody(c) ==
  LET down == links[fd].down
      from == Head(down.pieces)
      len  == call[c].reply.size - HeaderSize
      n    == AtMost(down, len)
      ok   == /\ n = len
              /\ \/ call[c].cmd = "ListClients"
                 \/ down.skew = HeaderSize /\ Granted(from)
  IN
  /\ call[c].at = "recv_body" /\ n > 0
  /\ links' = [links EXCEPT ![fd].down = Taken(@, n)]
  /\ connected' = (connected /\ n = len)
  /\ call' = [call EXCEPT
       ![c].at       = "idle",
       ![c].result   = IF ok THEN "OK" ELSE "error",
       ![c].answered = IF ok THEN from.of ELSE 0,
       ![c].sure     = fd \notin skewed,
       ![c].listed   = IF ok /\ from.pids # {}
                       THEN PidsFrom(from.pids, 0 - ResponseSize) ELSE {}]
  /\ UNCHANGED <<fd, calls, alive, clients, skewed>>

-----------------------------------------------------------------------------
(* The server                                                               *)

Accept(l) ==
  /\ alive /\ links[l].server = "queued"
  /\ links' = [links EXCEPT ![l].server = "open"]
  /\ UNCHANGED <<ctx, call, calls, alive, clients, skewed>>

\* One send; to a client that has gone it raises SIGPIPE, which nobody
\* handles: the server dies with all it keeps.
SendResponse(l, rest, of, size, status, registry, pids) ==
  IF links[l].client
  THEN /\ links' = [links EXCEPT ![l].up = rest,
                                 ![l].down = Put(@, [of |-> of, size |-> size, header |-> TRUE,
                                                     status |-> status, pids |-> pids])]
       /\ clients' = registry
       /\ UNCHANGED alive
  ELSE /\ alive' = FALSE
       /\ clients' = {}
       /\ links' = [k \in 1..MaxConns |->
            IF links[k].server = "none" THEN links[k]
            ELSE [links[k] EXCEPT !.server = "closed"]]

RemoveConnection(l) ==
  /\ alive /\ links[l].server = "open"
  /\ Available(links[l].up) = 0 /\ ~links[l].client
  /\ links' = [links EXCEPT ![l].server = "closed"]
  /\ UNCHANGED <<ctx, call, calls, alive, clients, skewed>>

\* What the server makes of the bytes after a header.  Every payload begins
\* with a pid: another request's gives that one, other bytes nobody's; what
\* follows may say anything.
Decoded(r, rest) ==
  LET p == Head(rest.pieces)
      atPayload == rest.skew = 0 /\ ~p.header
  IN  IF PayloadSize[r.cmd] = 0 \/ (atPayload /\ p.request = r) THEN {r}
      ELSE [cmd : {r.cmd}, pid : {IF atPayload THEN p.request.pid ELSE Nobody},
            volume : Floats, muted : BOOLEAN]

\* The bytes of payload the header announces.
NameForgotten(first) == Min({PayloadSize[first.request.cmd], 9})
Announced(first) == PayloadSize[first.request.cmd]

\* handle_client_message: a header, then as much of its payload as is there,
\* even between the two sends of a request.
HandleMessage(l) ==
  LET up     == links[l].up
      n      == AtMost(up, HeaderSize)
      rest   == Taken(up, n)
      first  == Head(up.pieces)
      len    == Announced(first)
      m      == AtMost(rest, len)
      answer == HeaderSize + ResponseSize
      good   == n = HeaderSize /\ AtHeader(up)
  IN
  /\ alive /\ links[l].server = "open" /\ n > 0
  /\ \/ /\ ~good
        /\ SendResponse(l, rest, 0, answer, "InvalidHeader", clients, {})
        /\ UNCHANGED skewed
     \/ /\ good /\ m < len
        /\ SendResponse(l, Taken(rest, m), first.of, answer, "PayloadTooLarge", clients, {})
        /\ skewed' = skewed \union {l}
     \/ /\ good /\ m = len
        /\ \E r \in Decoded(first.request, rest) :
             SendResponse(l, Taken(rest, len), first.of, answer + DataSize(clients, r),
                          StatusOf(clients, r), After(clients, r), Listed(clients, r))
        /\ UNCHANGED skewed
  /\ UNCHANGED <<ctx, call, calls>>

-----------------------------------------------------------------------------
CallStep(c) ==
  SendHead(c) \/ SendBody(c) \/ NothingCame(c) \/ LinkLost(c) \/ RecvHead(c) \/ RecvBody(c)

ServerStep == \E l \in 1..MaxConns : Accept(l) \/ HandleMessage(l) \/ RemoveConnection(l)

Next ==
  \/ Connect \/ Disconnect \/ Exit
  \/ \E c \in Callers, r \in Requests : Begin(c, r)
  \/ \E c \in Callers : CallStep(c)
  \/ ServerStep

\* A thread inside a call goes on: its sends do not block and its socket's
\* timeouts end each wait.  The server need not run at all.
Fairness == \A c \in Callers : WF_vars(CallStep(c))

Spec == Init /\ [][Next]_vars /\ Fairness

-----------------------------------------------------------------------------
(* Properties                                                               *)

Pieces == [of : 0..MaxCalls, size : Nat, header : {TRUE}, status : Statuses,
            pids : SUBSET (Pids \union {Nobody})]
Stream(piece) == [pieces : Seq(piece), skew : Nat]

\* The state is well formed, and no more of a stream is read than was sent.
TypeOK ==
  /\ connected \in BOOLEAN /\ fd \in 0..MaxConns
  /\ connected => fd # 0 /\ links[fd].client
  /\ calls \in 0..MaxCalls /\ alive \in BOOLEAN
  /\ \A c \in Callers :
       /\ call[c].at \in {"idle", "send_head", "send_body", "recv_head", "recv_body"}
       /\ call[c].result \in {"none", "OK", "error"}
       /\ call[c].answered \in 0..MaxCalls
  /\ \A l \in 1..MaxConns :
       /\ links[l].client \in BOOLEAN
       /\ links[l].server \in {"none", "queued", "open", "closed"}
       /\ links[l].down \in Stream(Pieces)
       /\ Available(links[l].up) >= 0 /\ Available(links[l].down) >= 0
  /\ \A e \in clients :
       e.volume \in 0..100 \union Floats /\ Cardinality(Entries(clients, e.pid)) = 1
  /\ skewed \subseteq 1..MaxConns

\* A call that returns success was answered by the reply to its own request,
\* never by the late reply to a call that had timed out, unless its connection
\* had lost step: two threads had used it at once, the server had read a
\* request without its payload, or a reply had been refused.  request_id is
\* there to tell replies apart (ipc_protocol.h:36) and is always 1.
AnswerIsOwn ==
  \A c \in Callers :
    call[c].result = "OK" /\ call[c].sure => call[c].answered = call[c].id

\* The same without exception.
AnswerAlwaysOwn ==
  \A c \in Callers : call[c].result = "OK" => call[c].answered = call[c].id

\* For a process with one thread (RegistryCalls): what is asked is what has
\* not been read whole or not been sent, what is answered is what has not been
\* received whole.
Caller == CHOOSE c \in Callers : TRUE

Sent == UNION {ToSet(links[l].up.pieces) : l \in {l \in 1..MaxConns : links[l].server # "closed"}}
Received == UNION {ToSet(links[l].down.pieces) : l \in 1..MaxConns}

Calls == INSTANCE RegistryCalls WITH
  entries <- clients,
  up      <- alive,
  number  <- calls,
  result  <- IF call[Caller].at = "idle" THEN call[Caller].result ELSE "pending",
  asked   <- {[id |-> p.of, request |-> p.request] : p \in {p \in Sent : p.header}}
             \union (IF call[Caller].at = "send_head"
                     THEN {[id |-> call[Caller].id, request |-> call[Caller].request]} ELSE {}),
  answers <- {[id |-> p.of, status |-> p.status] : p \in Received},
  astray  <- fd \in skewed

\* Through timeouts, killed processes, replies that come late, requests read
\* in part, replies refused and a service that dies, a request takes effect at
\* most once, and a call that succeeds has had its effect, unless its
\* connection had lost step: what the operations rest on when they return 0
\* (ipc_client.c:446).
ImplementsCalls == Calls!Spec

\* Between calls the two sides are in step: on the connection in use no
\* byte is left to read either way, so that the next header begins where the
\* next recv does, unless two threads used it at once, a request was read
\* without its payload or a reply was refused: nothing else parts them.
InStep ==
  connected /\ fd \notin skewed /\ (\A c \in Callers : call[c].at = "idle") =>
    Available(links[fd].up) = 0 /\ Available(links[fd].down) = 0

\* Every call returns, whatever the server does.
CallReturns == \A c \in Callers : call[c].at # "idle" ~> call[c].at = "idle"

\* A call whose own reply arrives with status OK succeeds
\* (tests/test_ipc_client.c:193-206).
ServedCallSucceeds ==
  \A c \in Callers :
    call[c].at = "idle" /\ call[c].reply.status = "OK" /\ call[c].reply.of = call[c].id
      => call[c].result = "OK"

\* Every application listed is one that is registered
\* (include/ipc/ipc_client.h:254).
ListedAreRegistered ==
  \A c \in Callers : call[c].listed \subseteq call[c].reply.pids

\* Clients that come, go and are killed do not end the server
\* (ipc_server.h:60: it runs until it is told to stop).
ServerOutlivesClients == alive

\* A process holds one connection: connecting again closes the one before
\* (ipc_client.c:81).
OneConnection == Cardinality({l \in 1..MaxConns : links[l].client}) <= 1

=============================================================================
