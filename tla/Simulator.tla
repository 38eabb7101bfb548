----------------------------- MODULE Simulator ------------------------------
(***************************************************************************)
(* The simulator process (simulator/src/main.rs), the socket it serves,    *)
(* the clients that connect to it and whoever starts and stops it.         *)
(*                                                                         *)
(* A process serves one connection at a time and one request on each.  It  *)
(* has no error path for a request: whatever goes wrong panics, which ends *)
(* the process, closes its connections, and leaves the socket's file.      *)
(* SIGTERM is handled on a thread of its own while the main thread goes on.*)
(*                                                                         *)
(* Abstractions.  A DPE instance is one context with a one-time handle,    *)
(* there from the start and followed from parent to child where a command  *)
(* replaces it; its handles are numbered in the order of their generation. *)
(* DpeInstance has the rest of it.  A Unix socket delivers a request       *)
(* whole: requests are written at once and are shorter than the 4096 bytes *)
(* that are read at once.                                                  *)
(***************************************************************************)
EXTENDS CommandCodec

CONSTANTS
  Clients,
  Builds,       \* profiles the simulator is built for
  Requests,     \* what clients send: headers and lengths, see CommandCodec
  Instances,    \* bound: processes started, 1 .. n
  MAX_DIALS,    \* bound: connections made
  NONE          \* no socket file, no connection, no response, no handle

ASSUME InstancesAssumption == Instances \subseteq Nat /\ NONE \notin Instances

ASSUME BuildsAssumption == Builds \subseteq Profiles

VARIABLES
  profile,      \* profile::DPE_PROFILE of the build
  socket,       \* the process that bound the file SOCKET_PATH, or NONE
  proc,         \* where the main thread of each process is
  handler,      \* the Ctrl-C thread of each process
  backlog,      \* connections each process has yet to accept
  stream,       \* the connection each process serves
  response,     \* the response each process has computed
  handle,       \* the current handle of each process's context, NONE if it is destroyed
  told,         \* history: the handle each process wrote to a client last
  lost,         \* history: processes in which a failed UpdateContextMeasurement took the handle
  conn,         \* what each client is doing
  dials,        \* history: connections made
  broken        \* history: processes that failed to accept a connection

server_vars == << socket, proc, handler, backlog, stream, response, handle, told, lost >>

vars == << profile, server_vars, conn, dials, broken >>

Idle == [state |-> "idle", at |-> NONE, request |-> NONE, handle |-> 0, answer |-> NONE]

Init ==
  /\ profile \in Builds
  /\ socket = NONE
  /\ proc = [i \in Instances |-> "unborn"]
  /\ handler = [i \in Instances |-> "none"]
  /\ backlog = [i \in Instances |-> << >>]
  /\ stream = [i \in Instances |-> NONE]
  /\ response = [i \in Instances |-> NONE]
  /\ handle = [i \in Instances |-> 0] /\ told = [i \in Instances |-> 0]
  /\ lost = {}
  /\ conn = [c \in Clients |-> Idle]
  /\ dials = 0 /\ broken = {}

Connected(c, i) == conn[c].at = i /\ conn[c].state \in {"connected", "sent"}

(***************************************************************************)
(* A process ends, and with it the contexts; the kernel closes its         *)
(* connections, accepted or not.                                           *)
(***************************************************************************)
Exit(i) ==
  /\ proc' = [proc EXCEPT ![i] = "exited"]
  /\ handler' = [handler EXCEPT ![i] = "none"]
  /\ backlog' = [backlog EXCEPT ![i] = << >>]
  /\ stream' = [stream EXCEPT ![i] = NONE]
  /\ response' = [response EXCEPT ![i] = NONE]
  /\ handle' = [handle EXCEPT ![i] = 0]
  /\ told' = [told EXCEPT ![i] = 0]
  /\ lost' = lost \ {i}
  /\ conn' = [c \in Clients |-> IF Connected(c, i) THEN [Idle EXCEPT !.state = "closed"] ELSE conn[c]]

-----------------------------------------------------------------------------
(***************************************************************************)
(* main, up to the loop that accepts connections.                          *)
(***************************************************************************)

(***************************************************************************)
(* Mutant of WithoutStale: an old socket is left alone.                    *)
(***************************************************************************)
AsFound(file) == file

(***************************************************************************)
(* What is at SOCKET_PATH after the old socket has been deleted.           *)
(***************************************************************************)
WithoutStale(file) == NONE

DeleteOldSocket(i) ==
  /\ proc[i] = "started"
  /\ socket' = WithoutStale(socket)
  /\ proc' = [proc EXCEPT ![i] = "cleaned"]
  /\ UNCHANGED << profile, handler, backlog, stream, response, handle, told, lost, conn, dials, broken >>

Bind(i) ==
  /\ proc[i] = "cleaned"
  /\ \/ /\ socket = NONE
        /\ socket' = i
        /\ proc' = [proc EXCEPT ![i] = "bound"]
        /\ UNCHANGED << handler, backlog, stream, response, handle, told, lost, conn >>
     \/ /\ socket # NONE
        /\ Exit(i)
        /\ UNCHANGED socket
  /\ UNCHANGED << profile, dials, broken >>

(***************************************************************************)
(* The handler is installed; the arguments become a State and an instance. *)
(***************************************************************************)
Start(i) ==
  /\ proc[i] = "bound"
  /\ handler' = [handler EXCEPT ![i] = "waiting"]
  /\ proc' = [proc EXCEPT ![i] = "ready"]
  /\ UNCHANGED << profile, socket, backlog, stream, response, handle, told, lost, conn, dials, broken >>

-----------------------------------------------------------------------------
(***************************************************************************)
(* The loop over incoming connections, and handle_request.                 *)
(***************************************************************************)
Accept(i) ==
  /\ proc[i] = "ready" /\ backlog[i] # << >>
  /\ stream' = [stream EXCEPT ![i] = Head(backlog[i])]
  /\ backlog' = [backlog EXCEPT ![i] = Tail(@)]
  /\ proc' = [proc EXCEPT ![i] = "accepted"]
  /\ UNCHANGED << profile, socket, handler, response, handle, told, lost, conn, dials, broken >>

AcceptFails(i) ==
  /\ proc[i] = "ready"
  /\ socket' = NONE
  /\ proc' = [proc EXCEPT ![i] = "breaking"]
  /\ broken' = broken \cup {i}
  /\ UNCHANGED << profile, handler, backlog, stream, response, handle, told, lost, conn, dials >>

Return(i) ==
  /\ proc[i] = "breaking"
  /\ Exit(i)
  /\ UNCHANGED << profile, socket, dials, broken >>

(***************************************************************************)
(* Mutant of Readable: the request is read up to its end, which comes when *)
(* the client closes the connection.                                       *)
(***************************************************************************)
ReadableToEnd(c) == conn[c].state = "gone"

(***************************************************************************)
(* read returns when there is something to read or nobody left to write it.*)
(***************************************************************************)
Readable(c) == conn[c].state \in {"sent", "gone"}

(***************************************************************************)
(* The response is of the type execute allocates for the command, its      *)
(* length that of as_bytes_partial; h is the handle it tells, if any.      *)
(***************************************************************************)
Answer(r, error, cert_size, h) ==
  [ id |-> r.id, exports |-> r.exports, error |-> error, status |-> ErrorCode(error),
    cert_size |-> cert_size, handle |-> h,
    len |-> PartialLen(profile, ResponseType(r.id, r.exports), error, cert_size) ]

CertSizes(r) ==
  IF HasCertificate(ResponseType(r.id, r.exports)) THEN {1, MaxCertSize(profile)} ELSE {0}

(***************************************************************************)
(* Whether a command names the context by its handle.  The others concern  *)
(* no context, or with InitCtx another one.                                *)
(***************************************************************************)
NamesContext(id) ==
  id \in { "DeriveContext", "CertifyKey", "Sign", "RotateCtx", "DestroyCtx",
           "UpdateContextMeasurement" }

Outcome(answer, h) == [answer |-> answer, handle |-> h]

(***************************************************************************)
(* A command that names the context leaves it with the handle it tells,    *)
(* or without it: DestroyCtx, and an export that does not retain it.       *)
(***************************************************************************)
Successes(r, current) ==
  IF ~NamesContext(r.id) THEN {Outcome(Answer(r, NoError, 0, NONE), current)}
  ELSE {Outcome(Answer(r, NoError, n, NONE), NONE) :
          n \in IF r.id = "DestroyCtx" \/ r.exports THEN CertSizes(r) ELSE {}}
         \cup {Outcome(Answer(r, NoError, n, current + 1), current + 1) :
                 n \in IF r.id = "DestroyCtx" THEN {} ELSE CertSizes(r)}

(***************************************************************************)
(* An error with a cause that is told, a CDI that has been exported before *)
(* for one, and an error without: there is no unused handle.  A response   *)
(* always fits, as its buffer is of its type: no command fails after its   *)
(* commit for want of room.                                                *)
(***************************************************************************)
HandleGenerationExhausted == [discriminant |-> 1, sub |-> 22]

Failures == {[discriminant |-> CRYPTO, sub |-> 7], HandleGenerationExhausted}

(***************************************************************************)
(* The second draw of UpdateContextMeasurement fails: the handle drawn     *)
(* first is committed, and is not in the error that is returned.           *)
(***************************************************************************)
Untold(r, current) ==
  IF r.id = "UpdateContextMeasurement"
    THEN {Outcome(Answer(r, HandleGenerationExhausted, 0, NONE), current + 1)}
    ELSE {}

(***************************************************************************)
(* Whether it was such a failure that replaced the handle.                 *)
(***************************************************************************)
Loses(r, o, current) ==
  r.id = "UpdateContextMeasurement" /\ o.answer.error # NoError /\ o.handle # current

LookupError(id) ==
  IF id = "UpdateContextMeasurement" THEN InvalidParentLocality ELSE InvalidHandle

(***************************************************************************)
(* What execute_serialized_command may do with a request it can read.      *)
(***************************************************************************)
Outcomes(r, named, current) ==
  IF NamesContext(r.id) /\ named # current
    THEN {Outcome(Answer(r, LookupError(r.id), 0, NONE), current)}
    ELSE Successes(r, current)
           \cup {Outcome(Answer(r, e, 0, NONE), current) : e \in Failures}
           \cup Untold(r, current)

(***************************************************************************)
(* A request of less than four bytes, or one that is not a command, panics.*)
(***************************************************************************)
HandleRequest(i) ==
  LET c == stream[i]
      r == conn[c].request
  IN  /\ proc[i] = "accepted" /\ Readable(c)
      /\ IF r = NONE \/ Deserialize(profile, r) # "Ok"
         THEN Exit(i)
         ELSE \E o \in Outcomes(r, conn[c].handle, handle[i]) :
                /\ response' = [response EXCEPT ![i] = o.answer]
                /\ handle' = [handle EXCEPT ![i] = o.handle]
                /\ lost' = IF Loses(r, o, handle[i]) THEN lost \cup {i} ELSE lost
                /\ proc' = [proc EXCEPT ![i] = "executed"]
                /\ UNCHANGED << handler, backlog, stream, told, conn >>
      /\ UNCHANGED << profile, socket, dials, broken >>

WriteResponse(i) ==
  LET c == stream[i]
      h == response[i].handle
  IN  /\ proc[i] = "executed" /\ conn[c].state = "sent"
      /\ conn' = [conn EXCEPT ![c] = [Idle EXCEPT !.state = "answered", !.answer = response[i]]]
      /\ told' = IF h = NONE THEN told ELSE [told EXCEPT ![i] = h]
      /\ response' = [response EXCEPT ![i] = NONE]
      /\ stream' = [stream EXCEPT ![i] = NONE]
      /\ proc' = [proc EXCEPT ![i] = "ready"]
      /\ UNCHANGED << profile, socket, handler, backlog, handle, lost, dials, broken >>

(***************************************************************************)
(* Mutant of WriteFails: the server goes on with the next connection.      *)
(***************************************************************************)
WriteFailureIgnored(i) ==
  /\ proc[i] = "executed" /\ conn[stream[i]].state = "gone"
  /\ proc' = [proc EXCEPT ![i] = "ready"]
  /\ response' = [response EXCEPT ![i] = NONE]
  /\ stream' = [stream EXCEPT ![i] = NONE]
  /\ UNCHANGED << profile, socket, handler, backlog, handle, told, lost, conn, dials, broken >>

(***************************************************************************)
(* The client is gone before its response was written: a panic.            *)
(***************************************************************************)
WriteFails(i) ==
  /\ proc[i] = "executed" /\ conn[stream[i]].state = "gone"
  /\ Exit(i)
  /\ UNCHANGED << profile, socket, dials, broken >>

-----------------------------------------------------------------------------
(***************************************************************************)
(* The handler of SIGTERM: it deletes what is at SOCKET_PATH, then ends    *)
(* the process, whatever the main thread is doing.                         *)
(***************************************************************************)
HandlerCleanup(i) ==
  /\ handler[i] = "signalled"
  /\ socket' = NONE
  /\ handler' = [handler EXCEPT ![i] = "cleaned"]
  /\ UNCHANGED << profile, proc, backlog, stream, response, handle, told, lost, conn, dials, broken >>

HandlerExit(i) ==
  /\ handler[i] = "cleaned"
  /\ Exit(i)
  /\ UNCHANGED << profile, socket, dials, broken >>

-----------------------------------------------------------------------------
(***************************************************************************)
(* Whoever runs the simulator.  Before it is started again its predecessor *)
(* is gone, or has been sent SIGTERM and its socket is deleted             *)
(* (DpeSimulator::PowerOff waits for that and no longer).                  *)
(***************************************************************************)
MayStart(i) ==
  /\ proc[i] = "unborn"
  /\ \A j \in Instances : j < i =>
       \/ proc[j] = "exited"
       \/ handler[j] \in {"signalled", "cleaned"} /\ socket = NONE

RunByHand(i) ==
  /\ MayStart(i)
  /\ proc' = [proc EXCEPT ![i] = "started"]
  /\ UNCHANGED << profile, socket, handler, backlog, stream, response, handle, told, lost, conn, dials, broken >>

PowerOn(i) ==
  /\ MayStart(i)
  /\ socket' = NONE
  /\ proc' = [proc EXCEPT ![i] = "started"]
  /\ UNCHANGED << profile, handler, backlog, stream, response, handle, told, lost, conn, dials, broken >>

(***************************************************************************)
(* SIGTERM, before there is a handler for it or after.                     *)
(***************************************************************************)
Sigterm(i) ==
  /\ \/ proc[i] \in {"started", "cleaned", "bound"} /\ Exit(i)
     \/ /\ handler[i] = "waiting"
        /\ handler' = [handler EXCEPT ![i] = "signalled"]
        /\ UNCHANGED << proc, backlog, stream, response, handle, told, lost, conn >>
  /\ UNCHANGED << profile, socket, dials, broken >>

-----------------------------------------------------------------------------
(***************************************************************************)
(* A client (DpeSimulator::SendCmd): dial, write, read to the end.         *)
(***************************************************************************)
Listening(i) == proc[i] \in {"bound", "ready", "accepted", "executed"}

Dial(c) ==
  /\ conn[c].state \in {"idle", "answered", "closed"} /\ dials < MAX_DIALS
  /\ socket # NONE /\ Listening(socket)
  /\ conn' = [conn EXCEPT ![c] = [Idle EXCEPT !.state = "connected", !.at = socket]]
  /\ backlog' = [backlog EXCEPT ![socket] = Append(@, c)]
  /\ dials' = dials + 1
  /\ UNCHANGED << profile, socket, proc, handler, stream, response, handle, told, lost, broken >>

Write(c) ==
  /\ conn[c].state = "connected"
  /\ \E r \in Requests, h \in 0 .. told[conn[c].at] :
       conn' = [conn EXCEPT ![c].state = "sent", ![c].request = r, ![c].handle = h]
  /\ UNCHANGED << profile, server_vars, dials, broken >>

(***************************************************************************)
(* A client ends before it has its answer.                                 *)
(***************************************************************************)
Leave(c) ==
  /\ conn[c].state \in {"connected", "sent"}
  /\ conn' = [conn EXCEPT ![c].state = "gone"]
  /\ UNCHANGED << profile, server_vars, dials, broken >>

-----------------------------------------------------------------------------
MainThread(i) ==
  \/ DeleteOldSocket(i) \/ Bind(i) \/ Start(i)
  \/ Accept(i) \/ HandleRequest(i) \/ WriteResponse(i) \/ WriteFails(i)
  \/ Return(i)

HandlerThread(i) == HandlerCleanup(i) \/ HandlerExit(i)

Next ==
  \/ \E i \in Instances :
       \/ MainThread(i) \/ HandlerThread(i) \/ AcceptFails(i)
       \/ RunByHand(i) \/ PowerOn(i) \/ Sigterm(i)
  \/ \E c \in Clients : Dial(c) \/ Write(c) \/ Leave(c)

(***************************************************************************)
(* Both threads of a process are scheduled, and a client that has dialled  *)
(* writes its request at once, as SendCmd does.  Nobody has to start or    *)
(* stop a simulator, or to connect to it.                                  *)
(***************************************************************************)
Fairness ==
  /\ \A i \in Instances : WF_vars(MainThread(i)) /\ WF_vars(HandlerThread(i))
  /\ \A c \in Clients : WF_vars(Write(c))

Spec == Init /\ [][Next]_vars /\ Fairness

-----------------------------------------------------------------------------
(***************************************************************************)
(* Properties.                                                             *)
(***************************************************************************)

(***************************************************************************)
(* No handle is lost with a response: whenever a simulator waits for its   *)
(* next request and its context lives, the context's handle is the one it  *)
(* wrote to some client last.  A command commits before its response is    *)
(* written; what holds this together is that a failed write ends the       *)
(* process, and the contexts with it (handle_request unwraps the result of *)
(* write_all).  The one handle that is lost goes with an error:            *)
(* UpdateContextMeasurement commits a handle before its last failure.      *)
(***************************************************************************)
ToldHandleIsCurrent ==
  \A i \in Instances \ lost :
    proc[i] \in {"ready", "accepted"} /\ handle[i] # NONE => told[i] = handle[i]

(***************************************************************************)
(* What a client reads back from the bytes it received is what the server  *)
(* meant: the response's type, fields and certificate in full, or which    *)
(* error it was, its cause included unless it is internal                  *)
(* (as_bytes_partial and get_error_code on one side, try_read_from_bytes   *)
(* on the other, and the table of response types each of them has).        *)
(***************************************************************************)
AnswersAreUnderstood ==
  \A c \in Clients : conn[c].state = "answered" =>
    LET a    == conn[c].answer
        type == ReadType(a.id, a.exports)
    IN  /\ type = ResponseType(a.id, a.exports)
        /\ a.len >= HdrSize
        /\ a.error = NoError =>
             \A i \in DOMAIN Fields(profile, type) :
               LET field == Fields(profile, type)[i]
               IN  ReadField(profile, type, a.len, i)
                     = << field[1], IF field[1] = "certificate" THEN a.cert_size ELSE field[2] >>
        /\ \A e \in Errors : a.status = ErrorCode(e) =>
             \/ e = a.error
             \/ {e, a.error} \subseteq InternalErrors

(***************************************************************************)
(* Every request ends: a client that has connected is answered, or finds   *)
(* its connection closed, also when the simulator is stopped or panics     *)
(* under it and whoever came before it (SendCmd reads until the end).      *)
(***************************************************************************)
EveryRequestEnds ==
  \A c \in Clients : conn[c].state \in {"connected", "sent"} ~>
                       conn[c].state \in {"answered", "closed", "gone"}

(***************************************************************************)
(* Whatever its predecessors left behind, a simulator that starts finds    *)
(* its address free (a crash leaves the file of the socket, and nothing    *)
(* can be bound there), and from then on clients reach it until it is told *)
(* to stop: a predecessor that is still on its way out does not delete its *)
(* socket.  That needs a predecessor that deletes its own once: one that   *)
(* failed to accept a connection does so, and may again when it is sent    *)
(* SIGTERM.                                                                *)
(***************************************************************************)
SocketIsServed ==
  \A i \in Instances :
    /\ proc[i] = "cleaned" => socket = NONE
    /\ Listening(i) /\ handler[i] \in {"none", "waiting"} /\ broken = {} => socket = i
=============================================================================
