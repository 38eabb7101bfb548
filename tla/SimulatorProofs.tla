-------------------------- MODULE SimulatorProofs --------------------------
(***************************************************************************)
(* Theorems about Simulator: for any clients and requests and however many *)
(* processes follow one another, no handle is lost with a response, the    *)
(* socket belongs to the process that is meant to serve it, and clients    *)
(* read back what was meant.                                               *)
(*                                                                         *)
(* The inductive invariant is IInv.  HandOverOK says what is told of a     *)
(* handle that is current, ThreadsOK which states the two threads of a     *)
(* process are in together, TurnsOK that a process begins only when those  *)
(* before it are on their way out, and SocketOK whose the socket is.  What *)
(* is written to clients needs AnswersOK besides, and a few lemmas about   *)
(* the structures of CommandCodec.                                         *)
(***************************************************************************)
EXTENDS Simulator, TLAPS

Serving == {"ready", "accepted", "executed"}

MainStates == {"unborn", "started", "cleaned", "bound", "breaking", "exited"} \cup Serving

HandlerStates == {"none", "waiting", "signalled", "cleaned"}

(***************************************************************************)
(* The part of the type invariant that the steps below rely on.            *)
(***************************************************************************)
ShapeOK ==
  /\ proc \in [Instances -> MainStates]
  /\ handler \in [Instances -> HandlerStates]
  /\ DOMAIN handle = Instances /\ DOMAIN told = Instances /\ DOMAIN response = Instances
  /\ socket \in Instances \cup {NONE}

(***************************************************************************)
(* What clients will have been told once a response that is still to be    *)
(* written is.                                                             *)
(***************************************************************************)
Pending(i) == proc[i] = "executed" /\ response[i].handle # NONE

Heard(i) == IF Pending(i) THEN response[i].handle ELSE told[i]

(***************************************************************************)
(* Between the commit of a command and the write of its response the       *)
(* handle is in the response, unless the command left it as it was; at any *)
(* other time it has been told.                                            *)
(***************************************************************************)
HandOverOK == \A i \in Instances \ lost : handle[i] # NONE => Heard(i) = handle[i]

(***************************************************************************)
(* The handler waits from the moment the process can serve until it exits. *)
(* Only a process whose accept has failed breaks.                          *)
(***************************************************************************)
ThreadsOK ==
  \A i \in Instances :
    /\ handler[i] # "none" <=> proc[i] \in Serving \cup {"breaking"}
    /\ proc[i] = "breaking" => i \in broken

(***************************************************************************)
(* When a process has begun, each one before it has ended or been told to. *)
(* Unless an accept has failed it has deleted its socket by then.          *)
(***************************************************************************)
TurnsOK ==
  \A i, j \in Instances : j < i /\ proc[i] # "unborn" =>
    \/ proc[j] = "exited"
    \/ handler[j] = "cleaned"
    \/ handler[j] = "signalled" /\ broken # {}

SocketOK ==
  \A i \in Instances :
    /\ proc[i] = "cleaned" => socket = NONE
    /\ broken = {} /\ (proc[i] = "bound" \/ handler[i] \in {"waiting", "signalled"}) => socket = i

IInv == ShapeOK /\ HandOverOK /\ ThreadsOK /\ TurnsOK /\ SocketOK

-----------------------------------------------------------------------------
(* No process has begun, and nothing is told of any handle. *)
LEMMA InitIInv ==
  ASSUME Init
  PROVE  IInv
BY InstancesAssumption
   DEF Init, IInv, ShapeOK, HandOverOK, Heard, Pending, ThreadsOK, TurnsOK, SocketOK, MainStates,
       Serving, HandlerStates

(* A process that ends takes its handle with it and leaves the socket as it is. *)
LEMMA ExitStep ==
  ASSUME IInv, NEW i \in Instances, proc[i] # "unborn", Exit(i), UNCHANGED << socket, broken >>
  PROVE  IInv'
<1>1. ShapeOK'
  BY DEF IInv, ShapeOK, Exit, MainStates, HandlerStates
<1>2. HandOverOK'
  BY DEF IInv, ShapeOK, HandOverOK, Heard, Pending, Exit
<1>3. ThreadsOK'
  BY DEF IInv, ShapeOK, ThreadsOK, Exit, Serving
<1>4. TurnsOK'
  BY DEF IInv, ShapeOK, TurnsOK, Exit
<1>5. SocketOK'
  BY DEF IInv, ShapeOK, SocketOK, Exit
<1>6. QED
  BY <1>1, <1>2, <1>3, <1>4, <1>5 DEF IInv

(* The old socket is deleted when every process before this one has deleted its own. *)
LEMMA DeleteOldSocketStep ==
  ASSUME IInv, NEW i \in Instances, DeleteOldSocket(i)
  PROVE  IInv'
<1>1. ShapeOK'
  BY DEF IInv, ShapeOK, MainStates, HandlerStates, Serving, DeleteOldSocket, WithoutStale
<1>2. HandOverOK'
  BY DEF IInv, ShapeOK, HandOverOK, Heard, Pending, DeleteOldSocket, WithoutStale
<1>3. ThreadsOK'
  BY DEF IInv, ShapeOK, ThreadsOK, Serving, DeleteOldSocket, WithoutStale
<1>4. TurnsOK'
  BY InstancesAssumption DEF IInv, ShapeOK, ThreadsOK, TurnsOK, SocketOK, Serving, DeleteOldSocket, WithoutStale
<1>5. SocketOK'
  BY InstancesAssumption DEF IInv, ShapeOK, ThreadsOK, TurnsOK, SocketOK, Serving, DeleteOldSocket, WithoutStale
<1>6. QED
  BY <1>1, <1>2, <1>3, <1>4, <1>5 DEF IInv

(* A free address is bound; one that is taken ends the process. *)
LEMMA BindStep ==
  ASSUME IInv, NEW i \in Instances, Bind(i)
  PROVE  IInv'
<1>1. CASE socket # NONE
  BY <1>1, ExitStep DEF Bind
<1>2. CASE socket = NONE
  <2>1. /\ proc[i] = "cleaned" /\ socket' = i /\ proc' = [proc EXCEPT ![i] = "bound"]
        /\ UNCHANGED << handler, response, handle, told, lost, broken >>
    BY <1>2 DEF Bind
  <2>2. ShapeOK'
    BY <2>1 DEF IInv, ShapeOK, MainStates
  <2>3. HandOverOK'
    BY <2>1 DEF IInv, ShapeOK, HandOverOK, Heard, Pending
  <2>4. ThreadsOK'
    BY <2>1 DEF IInv, ShapeOK, ThreadsOK, Serving
  <2>5. TurnsOK'
    BY <2>1 DEF IInv, ShapeOK, TurnsOK
  <2>6. SocketOK'
    BY <1>2, <2>1, InstancesAssumption DEF IInv, ShapeOK, ThreadsOK, TurnsOK, SocketOK, Serving
  <2>7. QED
    BY <2>2, <2>3, <2>4, <2>5, <2>6 DEF IInv
<1>3. QED
  BY <1>1, <1>2

(* The handler is installed. *)
LEMMA StartStep ==
  ASSUME IInv, NEW i \in Instances, Start(i)
  PROVE  IInv'
<1>1. ShapeOK'
  BY DEF IInv, ShapeOK, MainStates, HandlerStates, Serving, Start
<1>2. HandOverOK'
  BY DEF IInv, ShapeOK, HandOverOK, Heard, Pending, Start
<1>3. ThreadsOK'
  BY DEF IInv, ShapeOK, ThreadsOK, Serving, Start
<1>4. TurnsOK'
  BY InstancesAssumption DEF IInv, ShapeOK, ThreadsOK, TurnsOK, SocketOK, Serving, Start
<1>5. SocketOK'
  BY InstancesAssumption DEF IInv, ShapeOK, ThreadsOK, TurnsOK, SocketOK, Serving, Start
<1>6. QED
  BY <1>1, <1>2, <1>3, <1>4, <1>5 DEF IInv

(* A connection is taken from the backlog. *)
LEMMA AcceptStep ==
  ASSUME IInv, NEW i \in Instances, Accept(i)
  PROVE  IInv'
<1>1. ShapeOK'
  BY DEF IInv, ShapeOK, MainStates, HandlerStates, Serving, Accept
<1>2. HandOverOK'
  BY DEF IInv, ShapeOK, HandOverOK, Heard, Pending, Accept
<1>3. ThreadsOK'
  BY DEF IInv, ShapeOK, ThreadsOK, Serving, Accept
<1>4. TurnsOK'
  BY InstancesAssumption DEF IInv, ShapeOK, ThreadsOK, TurnsOK, SocketOK, Serving, Accept
<1>5. SocketOK'
  BY InstancesAssumption DEF IInv, ShapeOK, ThreadsOK, TurnsOK, SocketOK, Serving, Accept
<1>6. QED
  BY <1>1, <1>2, <1>3, <1>4, <1>5 DEF IInv

(* A process that fails to accept deletes its socket. *)
LEMMA AcceptFailsStep ==
  ASSUME IInv, NEW i \in Instances, AcceptFails(i)
  PROVE  IInv'
<1>1. ShapeOK'
  BY DEF IInv, ShapeOK, MainStates, HandlerStates, Serving, AcceptFails
<1>2. HandOverOK'
  BY DEF IInv, ShapeOK, HandOverOK, Heard, Pending, AcceptFails
<1>3. ThreadsOK'
  BY DEF IInv, ShapeOK, ThreadsOK, Serving, AcceptFails
<1>4. TurnsOK'
  BY InstancesAssumption DEF IInv, ShapeOK, ThreadsOK, TurnsOK, SocketOK, Serving, AcceptFails
<1>5. SocketOK'
  BY InstancesAssumption DEF IInv, ShapeOK, ThreadsOK, TurnsOK, SocketOK, Serving, AcceptFails
<1>6. QED
  BY <1>1, <1>2, <1>3, <1>4, <1>5 DEF IInv

(* A command leaves the handle, tells the next one, destroys the context or loses the handle. *)
LEMMA OutcomesAreTold ==
  ASSUME NEW r, NEW named, NEW current, NEW o \in Outcomes(r, named, current)
  PROVE  \/ o.handle = current /\ o.answer.handle = NONE
         \/ o.handle = o.answer.handle
         \/ Loses(r, o, current)
<1>1. CASE NamesContext(r.id) /\ named # current
  BY <1>1 DEF Outcomes, Outcome, Answer
<1>2. CASE o \in Successes(r, current)
  BY <1>2 DEF Successes, Outcome, Answer
<1>3. CASE o \in {Outcome(Answer(r, e, 0, NONE), current) : e \in Failures}
  BY <1>3 DEF Outcome, Answer
<1>4. CASE o \in Untold(r, current)
  <2>1. /\ r.id = "UpdateContextMeasurement"
        /\ o = Outcome(Answer(r, HandleGenerationExhausted, 0, NONE), current + 1)
    BY <1>4 DEF Untold
  <2>2. HandleGenerationExhausted # NoError
    BY DEF HandleGenerationExhausted, NoError
  <2>3. o.handle = current + 1 /\ o.answer.handle = NONE /\ o.answer.error # NoError
    BY <2>1, <2>2 DEF Outcome, Answer
  <2>4. QED
    BY <2>1, <2>3 DEF Loses
<1>5. QED
  BY <1>1, <1>2, <1>3, <1>4 DEF Outcomes

(* A request ends the process, or commits and leaves the new handle in the response. *)
LEMMA HandleRequestStep ==
  ASSUME IInv, NEW i \in Instances, HandleRequest(i)
  PROVE  IInv'
<1> DEFINE r == conn[stream[i]].request
<1>1. CASE Exit(i)
  BY <1>1, ExitStep DEF HandleRequest
<1>2. ASSUME NEW o \in Outcomes(r, conn[stream[i]].handle, handle[i]),
             response' = [response EXCEPT ![i] = o.answer],
             handle' = [handle EXCEPT ![i] = o.handle],
             lost' = IF Loses(r, o, handle[i]) THEN lost \cup {i} ELSE lost,
             proc' = [proc EXCEPT ![i] = "executed"],
             UNCHANGED << handler, told >>
      PROVE  IInv'
  <2>1. proc[i] = "accepted" /\ UNCHANGED << socket, broken >>
    BY DEF HandleRequest
  <2>2. \/ o.handle = handle[i] /\ o.answer.handle = NONE
        \/ o.handle = o.answer.handle
        \/ Loses(r, o, handle[i])
    BY <1>2, OutcomesAreTold
  <2> HIDE DEF r
  <2>3. ShapeOK'
    BY <1>2, <2>1 DEF IInv, ShapeOK, MainStates, Serving
  <2>4. ASSUME NEW j \in Instances \ lost', handle'[j] # NONE
        PROVE  Heard(j)' = handle'[j]
    <3>1. j \notin lost /\ (j = i => ~Loses(r, o, handle[i]))
      BY <1>2, <2>4
    <3>2. CASE j = i
      <4>1. proc'[i] = "executed" /\ response'[i] = o.answer /\ handle'[i] = o.handle /\ told'[i] = told[i]
        BY <1>2 DEF IInv, ShapeOK
      <4>2. handle[i] # NONE => told[i] = handle[i]
        BY <2>1, <3>1, <3>2 DEF IInv, HandOverOK, Heard, Pending
      <4>3. QED
        BY <2>2, <2>4, <3>1, <3>2, <4>1, <4>2 DEF Heard, Pending
    <3>3. CASE j # i
      <4>1. UNCHANGED << proc[j], response[j], handle[j], told[j] >>
        BY <1>2, <3>3 DEF IInv, ShapeOK
      <4>2. QED
        BY <2>4, <3>1, <4>1 DEF IInv, HandOverOK, Heard, Pending
    <3>4. QED
      BY <3>2, <3>3
  <2>5. HandOverOK'
    BY <2>4 DEF HandOverOK
  <2>6. ThreadsOK'
    BY <1>2, <2>1 DEF IInv, ShapeOK, ThreadsOK, Serving
  <2>7. TurnsOK'
    BY <1>2, <2>1 DEF IInv, ShapeOK, TurnsOK
  <2>8. SocketOK'
    BY <1>2, <2>1 DEF IInv, ShapeOK, SocketOK
  <2>9. QED
    BY <2>3, <2>5, <2>6, <2>7, <2>8 DEF IInv
<1>3. \/ Exit(i)
      \/ \E o \in Outcomes(r, conn[stream[i]].handle, handle[i]) :
           /\ response' = [response EXCEPT ![i] = o.answer]
           /\ handle' = [handle EXCEPT ![i] = o.handle]
           /\ lost' = IF Loses(r, o, handle[i]) THEN lost \cup {i} ELSE lost
           /\ proc' = [proc EXCEPT ![i] = "executed"]
           /\ UNCHANGED << handler, told >>
  BY DEF HandleRequest
<1>4. QED
  BY <1>1, <1>2, <1>3

(* The response is written, and with it the handle the command left. *)
LEMMA WriteResponseStep ==
  ASSUME IInv, NEW i \in Instances, WriteResponse(i)
  PROVE  IInv'
<1>1. ShapeOK'
  BY DEF IInv, ShapeOK, MainStates, HandlerStates, Serving, WriteResponse
<1>2. HandOverOK'
  BY DEF IInv, ShapeOK, HandOverOK, Heard, Pending, WriteResponse
<1>3. ThreadsOK'
  BY DEF IInv, ShapeOK, ThreadsOK, Serving, WriteResponse
<1>4. TurnsOK'
  BY InstancesAssumption DEF IInv, ShapeOK, ThreadsOK, TurnsOK, SocketOK, Serving, WriteResponse
<1>5. SocketOK'
  BY InstancesAssumption DEF IInv, ShapeOK, ThreadsOK, TurnsOK, SocketOK, Serving, WriteResponse
<1>6. QED
  BY <1>1, <1>2, <1>3, <1>4, <1>5 DEF IInv

(* The handler of SIGTERM deletes the socket, which is still its own. *)
LEMMA HandlerCleanupStep ==
  ASSUME IInv, NEW i \in Instances, HandlerCleanup(i)
  PROVE  IInv'
<1>1. ShapeOK'
  BY DEF IInv, ShapeOK, MainStates, HandlerStates, Serving, HandlerCleanup
<1>2. HandOverOK'
  BY DEF IInv, ShapeOK, HandOverOK, Heard, Pending, HandlerCleanup
<1>3. ThreadsOK'
  BY DEF IInv, ShapeOK, ThreadsOK, Serving, HandlerCleanup
<1>4. TurnsOK'
  BY InstancesAssumption DEF IInv, ShapeOK, ThreadsOK, TurnsOK, SocketOK, Serving, HandlerCleanup
<1>5. SocketOK'
  BY InstancesAssumption DEF IInv, ShapeOK, ThreadsOK, TurnsOK, SocketOK, Serving, HandlerCleanup
<1>6. QED
  BY <1>1, <1>2, <1>3, <1>4, <1>5 DEF IInv

(* A simulator is started by hand. *)
LEMMA RunByHandStep ==
  ASSUME IInv, NEW i \in Instances, RunByHand(i)
  PROVE  IInv'
<1>1. ShapeOK'
  BY DEF IInv, ShapeOK, MainStates, HandlerStates, Serving, RunByHand, MayStart
<1>2. HandOverOK'
  BY DEF IInv, ShapeOK, HandOverOK, Heard, Pending, RunByHand, MayStart
<1>3. ThreadsOK'
  BY DEF IInv, ShapeOK, ThreadsOK, Serving, RunByHand, MayStart
<1>4. TurnsOK'
  BY InstancesAssumption DEF IInv, ShapeOK, ThreadsOK, TurnsOK, SocketOK, Serving, RunByHand, MayStart
<1>5. SocketOK'
  BY InstancesAssumption DEF IInv, ShapeOK, ThreadsOK, TurnsOK, SocketOK, Serving, RunByHand, MayStart
<1>6. QED
  BY <1>1, <1>2, <1>3, <1>4, <1>5 DEF IInv

(* A simulator is started by a client, which deletes the socket before. *)
LEMMA PowerOnStep ==
  ASSUME IInv, NEW i \in Instances, PowerOn(i)
  PROVE  IInv'
<1>1. ShapeOK'
  BY DEF IInv, ShapeOK, MainStates, HandlerStates, Serving, PowerOn, MayStart
<1>2. HandOverOK'
  BY DEF IInv, ShapeOK, HandOverOK, Heard, Pending, PowerOn, MayStart
<1>3. ThreadsOK'
  BY DEF IInv, ShapeOK, ThreadsOK, Serving, PowerOn, MayStart
<1>4. TurnsOK'
  BY InstancesAssumption DEF IInv, ShapeOK, ThreadsOK, TurnsOK, SocketOK, Serving, PowerOn, MayStart
<1>5. SocketOK'
  BY InstancesAssumption DEF IInv, ShapeOK, ThreadsOK, TurnsOK, SocketOK, Serving, PowerOn, MayStart
<1>6. QED
  BY <1>1, <1>2, <1>3, <1>4, <1>5 DEF IInv

(* SIGTERM ends a process that has no handler yet, or wakes its handler. *)
LEMMA SigtermStep ==
  ASSUME IInv, NEW i \in Instances, Sigterm(i)
  PROVE  IInv'
<1>1. CASE Exit(i)
  BY <1>1, ExitStep DEF Sigterm, IInv, ThreadsOK, Serving
<1>2. CASE ~Exit(i)
  <2>1. /\ handler[i] = "waiting" /\ handler' = [handler EXCEPT ![i] = "signalled"]
        /\ UNCHANGED << proc, socket, response, handle, told, lost, broken >>
    BY <1>2 DEF Sigterm
  <2>2. ShapeOK'
    BY <2>1 DEF IInv, ShapeOK, HandlerStates
  <2>3. HandOverOK'
    BY <2>1 DEF IInv, ShapeOK, HandOverOK, Heard, Pending
  <2>4. ThreadsOK'
    BY <2>1 DEF IInv, ShapeOK, ThreadsOK
  <2>5. TurnsOK'
    BY <2>1 DEF IInv, ShapeOK, TurnsOK
  <2>6. SocketOK'
    BY <2>1 DEF IInv, ShapeOK, SocketOK
  <2>7. QED
    BY <2>2, <2>3, <2>4, <2>5, <2>6 DEF IInv
<1>3. QED
  BY <1>1, <1>2

(* What a client does, and a step that does nothing, concern no process. *)
LEMMA ClientStep ==
  ASSUME IInv, UNCHANGED << proc, handler, socket, response, handle, told, lost, broken >>
  PROVE  IInv'
BY DEF IInv, ShapeOK, HandOverOK, Heard, Pending, ThreadsOK, TurnsOK, SocketOK

(***************************************************************************)
(* IInv is inductive.                                                      *)
(***************************************************************************)
LEMMA StepIInv ==
  ASSUME IInv, [Next]_vars
  PROVE  IInv'
<1>1. ASSUME NEW i \in Instances, MainThread(i)
      PROVE  IInv'
  <2>1. CASE WriteFails(i) \/ Return(i)
    BY <2>1, ExitStep DEF WriteFails, Return
  <2>2. QED
    BY <1>1, <2>1, DeleteOldSocketStep, BindStep, StartStep, AcceptStep, HandleRequestStep,
       WriteResponseStep DEF MainThread
<1>2. ASSUME NEW i \in Instances, HandlerThread(i)
      PROVE  IInv'
  BY <1>2, HandlerCleanupStep, ExitStep DEF HandlerThread, HandlerExit, IInv, ThreadsOK, Serving
<1>3. ASSUME NEW c \in Clients, Dial(c) \/ Write(c) \/ Leave(c)
      PROVE  IInv'
  BY <1>3, ClientStep DEF Dial, Write, Leave, server_vars
<1>4. CASE UNCHANGED vars
  BY <1>4, ClientStep DEF vars, server_vars
<1>5. QED
  BY <1>1, <1>2, <1>3, <1>4, AcceptFailsStep, RunByHandStep, PowerOnStep, SigtermStep DEF Next

(***************************************************************************)
(* IInv holds in every reachable state of the processes, the socket and    *)
(* the clients of the simulator.                                           *)
(***************************************************************************)
THEOREM IInvCorrect == Spec => []IInv
BY InitIInv, StepIInv, PTL DEF Spec

-----------------------------------------------------------------------------
(***************************************************************************)
(* No handle is lost with a response (ToldHandleIsCurrent): when a         *)
(* simulator waits for a request and its context lives, the last handle it *)
(* wrote is current, whatever commands failed, clients left or signals     *)
(* arrived before, unless a failed UpdateContextMeasurement took it.       *)
(***************************************************************************)
THEOREM ToldHandleCorrect == Spec => []ToldHandleIsCurrent
<1>1. IInv => ToldHandleIsCurrent
  BY DEF IInv, HandOverOK, Heard, Pending, ToldHandleIsCurrent
<1>2. QED
  BY <1>1, IInvCorrect, PTL

(***************************************************************************)
(* A simulator finds its address free and keeps its socket until it is     *)
(* told to stop (SocketIsServed), however many processes before it are on  *)
(* their way out.                                                          *)
(***************************************************************************)
THEOREM SocketCorrect == Spec => []SocketIsServed
<1>1. IInv => SocketIsServed
  BY DEF IInv, ThreadsOK, SocketOK, SocketIsServed, Listening, Serving
<1>2. QED
  BY <1>1, IInvCorrect, PTL
-----------------------------------------------------------------------------
(***************************************************************************)
(* The structure of a response: where its fields begin.                    *)
(***************************************************************************)

(***************************************************************************)
(* The field list of a type of response: at most five sizes.               *)
(***************************************************************************)
IsLayout(fields) ==
  /\ Len(fields) \in 0 .. 5
  /\ \A k \in 1 .. Len(fields) : fields[k][2] \in Nat

(***************************************************************************)
(* The loop behind Offset: the first field follows the header, every other *)
(* the one before it.                                                      *)
(***************************************************************************)
LEMMA OffsetOfNext ==
  ASSUME NEW prof, NEW type, IsLayout(Fields(prof, type))
  PROVE  /\ Offset(prof, type, 1) = 12
         /\ \A i \in 1 .. Len(Fields(prof, type)) :
              Offset(prof, type, i + 1) = Offset(prof, type, i) + Fields(prof, type)[i][2]
<1> DEFINE F == Fields(prof, type)
           L == Len(F)
           Step(f) == [k \in 0 .. L |-> IF k = 0 THEN HdrSize ELSE f[k - 1] + F[k][2]]
           end == CHOOSE f : f = Step(f)
           e1 == 12 + F[1][2]
           e2 == e1 + F[2][2]
           e3 == e2 + F[3][2]
           e4 == e3 + F[4][2]
           e5 == e4 + F[5][2]
           e == [k \in 0 .. L |-> IF k = 0 THEN 12 ELSE IF k = 1 THEN e1 ELSE IF k = 2 THEN e2
                                  ELSE IF k = 3 THEN e3 ELSE IF k = 4 THEN e4 ELSE e5]
<1>1. \A i : Offset(prof, type, i) = end[i - 1]
  BY Zenon DEF Offset
<1>2. L \in 0 .. 5
  BY DEF IsLayout
<1> HIDE DEF F, L
<1>3. e = Step(e)
  BY <1>2 DEF HdrSize
<1> HIDE DEF e
<1>4. end = Step(end)
  <2> HIDE DEF Step
  <2> QED  BY <1>3
<1> HIDE DEF end
<1>5. end[0] = 12
  BY <1>2, <1>4 DEF HdrSize
<1>6. ASSUME NEW k \in 1 .. L
      PROVE  end[k] = end[k - 1] + F[k][2]
  <2>1. k \in 0 .. L /\ k # 0
    BY <1>2
  <2>2. Step(end)[k] = end[k - 1] + F[k][2]
    BY <2>1
  <2>3. QED
    <3> HIDE DEF Step
    <3> QED  BY <1>4, <2>2
<1>7. Offset(prof, type, 1) = 12
  <2>1. Offset(prof, type, 1) = end[1 - 1]
    BY <1>1
  <2>2. QED
    BY <1>5, <2>1
<1>8. ASSUME NEW i \in 1 .. L
      PROVE  Offset(prof, type, i + 1) = Offset(prof, type, i) + F[i][2]
  <2>1. Offset(prof, type, i) = end[i - 1] /\ Offset(prof, type, i + 1) = end[(i + 1) - 1]
    BY <1>1
  <2>2. (i + 1) - 1 = i
    BY <1>2
  <2>3. QED
    BY <1>6, <2>1, <2>2
<1>9. QED
  BY <1>7, <1>8 DEF L, F

(***************************************************************************)
(* Each field ends within the type, and the fields before the last before  *)
(* the last begins.                                                        *)
(***************************************************************************)
LEMMA OffsetsAreOrdered ==
  ASSUME NEW prof, NEW type, IsLayout(Fields(prof, type))
  PROVE  LET F == Fields(prof, type)
             L == Len(F)
         IN  /\ \A i \in 1 .. L + 1 : Offset(prof, type, i) \in Nat /\ 12 <= Offset(prof, type, i)
             /\ \A i, j \in 1 .. L + 1 : i <= j => Offset(prof, type, i) <= Offset(prof, type, j)
<1> DEFINE F == Fields(prof, type)
           L == Len(F)
           o(i) == Offset(prof, type, i)
<1>1. L \in 0 .. 5 /\ \A k \in 1 .. L : F[k][2] \in Nat
  BY DEF IsLayout
<1>2. o(1) = 12 /\ \A i \in 1 .. L : o(i + 1) = o(i) + F[i][2]
  BY OffsetOfNext
<1> HIDE DEF F, L, o
<1>3. \A i \in 1 .. L : o(i) \in Nat => o(i + 1) \in Nat /\ o(i) <= o(i + 1)
  BY <1>1, <1>2
<1>4. o(1) \in Nat /\ 12 <= o(1)
  BY <1>2
<1>5. L >= 1 => o(2) \in Nat /\ o(1) <= o(2)
  <2>1. L >= 1 => 1 \in 1 .. L /\ 1 + 1 = 2
    BY <1>1
  <2>2. QED
    BY <1>3, <1>4, <2>1
<1>6. L >= 2 => o(3) \in Nat /\ o(2) <= o(3)
  <2>1. L >= 2 => 2 \in 1 .. L /\ 2 + 1 = 3 /\ L >= 1
    BY <1>1
  <2>2. QED
    BY <1>3, <1>5, <2>1
<1>7. L >= 3 => o(4) \in Nat /\ o(3) <= o(4)
  <2>1. L >= 3 => 3 \in 1 .. L /\ 3 + 1 = 4 /\ L >= 2
    BY <1>1
  <2>2. QED
    BY <1>3, <1>6, <2>1
<1>8. L >= 4 => o(5) \in Nat /\ o(4) <= o(5)
  <2>1. L >= 4 => 4 \in 1 .. L /\ 4 + 1 = 5 /\ L >= 3
    BY <1>1
  <2>2. QED
    BY <1>3, <1>7, <2>1
<1>9. L >= 5 => o(6) \in Nat /\ o(5) <= o(6)
  <2>1. L >= 5 => 5 \in 1 .. L /\ 5 + 1 = 6 /\ L >= 4
    BY <1>1
  <2>2. QED
    BY <1>3, <1>8, <2>1
<1>10. \A i \in 1 .. L + 1 : o(i) \in Nat /\ 12 <= o(i)
  BY <1>1, <1>4, <1>5, <1>6, <1>7, <1>8, <1>9
<1>11. \A i, j \in 1 .. L + 1 : i <= j => o(i) <= o(j)
  BY <1>1, <1>4, <1>5, <1>6, <1>7, <1>8, <1>9
<1>12. QED
  BY <1>10, <1>11 DEF F, L, o
Types ==
  {"GetProfile", "NewHandle", "DeriveContext", "UpdateContextMeasurement",
   "DeriveContextExportedCdi", "CertifyKey", "Sign", "DestroyCtx", "GetCertificateChain"}

(* The buffer for a certificate has a size. *)
LEMMA CertificateSize ==
  ASSUME NEW prof \in Profiles
  PROVE  MaxCertSize(prof) \in Nat /\ 1 <= MaxCertSize(prof)
<1> DEFINE c == PerProfile(prof, 126, 159, 158)
           d == PerProfile(prof, 643, 756, 12307)
<1>1. c \in Nat /\ d \in Nat /\ d >= 643
  BY DEF Profiles, PerProfile
<1> HIDE DEF c, d
<1>2. c * MAX_HANDLES \in Nat
  BY <1>1, HandlesAssumption
<1>3. \A n \in Nat : n >= 643 => Aligned(n) \in Nat /\ 1 <= Aligned(n)
  BY DEF Aligned
<1>4. MaxCertSize(prof) = Aligned(d + c * MAX_HANDLES)
  BY DEF MaxCertSize, c, d
<1>5. QED
  BY <1>1, <1>2, <1>3, <1>4

(* The structures of the responses are layouts. *)
LEMMA LayoutOfType ==
  ASSUME NEW prof \in Profiles, NEW type \in Types
  PROVE  IsLayout(Fields(prof, type))
<1>1. /\ PerProfile(prof, 64, 96, 2592) \in Nat /\ PerProfile(prof, 64, 96, 4627 + 1) \in Nat
      /\ MaxCertSize(prof) \in Nat
  BY CertificateSize DEF Profiles, PerProfile
<1> DEFINE m == MaxCertSize(prof)
           k == PerProfile(prof, 64, 96, 2592)
           s == PerProfile(prof, 64, 96, 4627 + 1)
<1>2. m \in Nat /\ k \in Nat /\ s \in Nat
  BY <1>1
<1> HIDE DEF m, k, s
<1>3. CASE type = "DeriveContextExportedCdi"
  <2>1. Fields(prof, type) = << Handle, Parent, << "exported_cdi", 32 >>,
                                << "certificate_size", 4 >>, << "certificate", m >> >>
    BY <1>3 DEF Fields, m
  <2>2. QED
    BY <1>2, <2>1 DEF IsLayout, Handle, Parent, HandleSize
<1>4. CASE type = "CertifyKey"
  <2>1. Fields(prof, type) = << Handle, << "pubkey", k >>, << "certificate_size", 4 >>,
                                << "certificate", m >> >>
    BY <1>4 DEF Fields, m, k
  <2>2. QED
    BY <1>2, <2>1 DEF IsLayout, Handle, HandleSize
<1>5. CASE type = "Sign"
  <2>1. Fields(prof, type) = << Handle, << "sig", s >> >>
    BY <1>5 DEF Fields, s
  <2>2. QED
    BY <1>2, <2>1 DEF IsLayout, Handle, HandleSize
<1>6. CASE type \in {"DeriveContext", "UpdateContextMeasurement"}
  <2>1. Fields(prof, type) = << Handle, Parent >>
    BY <1>6 DEF Fields
  <2>2. QED
    BY <2>1 DEF IsLayout, Handle, Parent, HandleSize
<1>7. CASE type = "GetProfile"
  <2>1. Fields(prof, type) = << << "profile", 20 >> >>
    BY <1>7 DEF Fields
  <2>2. QED
    BY <2>1 DEF IsLayout
<1>8. CASE type = "NewHandle"
  <2>1. Fields(prof, type) = << Handle >>
    BY <1>8 DEF Fields
  <2>2. QED
    BY <2>1 DEF IsLayout, Handle, HandleSize
<1>9. CASE type = "DestroyCtx"
  <2>1. Fields(prof, type) = << >>
    BY <1>9 DEF Fields
  <2>2. QED
    BY <2>1 DEF IsLayout
<1>10. CASE type = "GetCertificateChain"
  <2>1. Fields(prof, type) = << << "certificate_size", 4 >>, << "certificate_chain", 2048 >> >>
    BY <1>10 DEF Fields
  <2>2. QED
    BY <2>1 DEF IsLayout
<1>11. QED
  BY <1>3, <1>4, <1>5, <1>6, <1>7, <1>8, <1>9, <1>10 DEF Types

(***************************************************************************)
(* A certificate is the last field of its structure, and there is no other *)
(* one.                                                                    *)
(***************************************************************************)
LEMMA CertificateIsLast ==
  ASSUME NEW prof \in Profiles, NEW type \in Types
  PROVE  LET F == Fields(prof, type)
             L == Len(F)
         IN  /\ HasCertificate(type) => /\ L \in Nat /\ L >= 1 /\ F[L][1] = "certificate"
                                        /\ F[L][2] = MaxCertSize(prof)
                                        /\ \A i \in 1 .. L : i # L => F[i][1] # "certificate"
             /\ ~HasCertificate(type) => \A i \in 1 .. L : F[i][1] # "certificate"
<1> DEFINE m == MaxCertSize(prof)
           k == PerProfile(prof, 64, 96, 2592)
           s == PerProfile(prof, 64, 96, 4627 + 1)
<1> HIDE DEF m, k, s
<1>1. CASE type = "DeriveContextExportedCdi"
  <2>1. Fields(prof, type) = << Handle, Parent, << "exported_cdi", 32 >>,
                                << "certificate_size", 4 >>, << "certificate", m >> >>
    BY <1>1 DEF Fields, m
  <2>2. HasCertificate(type)
    BY <1>1 DEF HasCertificate
  <2>3. QED
    BY <2>1, <2>2 DEF Handle, Parent, m
<1>2. CASE type = "CertifyKey"
  <2>1. Fields(prof, type) = << Handle, << "pubkey", k >>, << "certificate_size", 4 >>,
                                << "certificate", m >> >>
    BY <1>2 DEF Fields, m, k
  <2>2. HasCertificate(type)
    BY <1>2 DEF HasCertificate
  <2>3. QED
    BY <2>1, <2>2 DEF Handle, m
<1>3. CASE ~HasCertificate(type)
  <2>1. type \in Types \ {"DeriveContextExportedCdi", "CertifyKey"}
    BY <1>3 DEF HasCertificate
  <2>2. \/ Fields(prof, type) = << Handle, << "sig", s >> >>
        \/ Fields(prof, type) = << Handle, Parent >>
        \/ Fields(prof, type) = << << "profile", 20 >> >>
        \/ Fields(prof, type) = << Handle >>
        \/ Fields(prof, type) = << >>
        \/ Fields(prof, type) = << << "certificate_size", 4 >>, << "certificate_chain", 2048 >> >>
    BY <2>1 DEF Types, Fields, s
  <2>3. \A i \in 1 .. Len(Fields(prof, type)) : Fields(prof, type)[i][1] # "certificate"
    BY <2>2 DEF Handle, Parent
  <2>4. QED
    BY <1>3, <2>3
<1>4. QED
  BY <1>1, <1>2, <1>3 DEF HasCertificate

(***************************************************************************)
(* A client reads back what as_bytes_partial sent: every field in full,    *)
(* and of the certificate the bytes it has.                                *)
(***************************************************************************)
LEMMA FieldsAreRead ==
  ASSUME NEW prof \in Profiles, NEW type \in Types, NEW size \in 0 .. MaxCertSize(prof),
         NEW n, n = PartialLen(prof, type, NoError, size),
         NEW i \in 1 .. Len(Fields(prof, type))
  PROVE  /\ n \in Nat /\ n >= 12
         /\ ReadField(prof, type, n, i)
              = << Fields(prof, type)[i][1],
                   IF Fields(prof, type)[i][1] = "certificate" THEN size
                   ELSE Fields(prof, type)[i][2] >>
<1> DEFINE F == Fields(prof, type)
           L == Len(F)
           o(j) == Offset(prof, type, j)
           m == MaxCertSize(prof)
<1>1. L \in 0 .. 5 /\ \A k \in 1 .. L : F[k][2] \in Nat
  BY LayoutOfType DEF IsLayout
<1>2. \A j \in 1 .. L : o(j + 1) = o(j) + F[j][2]
  BY LayoutOfType, OffsetOfNext
<1>3. \A j \in 1 .. L + 1 : o(j) \in Nat /\ 12 <= o(j)
  BY LayoutOfType, OffsetsAreOrdered
<1>4. \A j, k \in 1 .. L + 1 : j <= k => o(j) <= o(k)
  BY LayoutOfType, OffsetsAreOrdered
<1>5. /\ HasCertificate(type) => /\ L >= 1 /\ F[L][1] = "certificate" /\ F[L][2] = m
                                 /\ \A j \in 1 .. L : j # L => F[j][1] # "certificate"
      /\ ~HasCertificate(type) => \A j \in 1 .. L : F[j][1] # "certificate"
  BY CertificateIsLast
<1>6. n = IF HasCertificate(type) THEN o(L + 1) - m + size ELSE o(L + 1)
  BY DEF PartialLen, SizeOf
<1>7. m \in Nat
  BY CertificateSize
<1>8. ReadField(prof, type, n, i)
        = << F[i][1], IF n >= o(i) + F[i][2] THEN F[i][2] ELSE IF n <= o(i) THEN 0 ELSE n - o(i) >>
  BY DEF ReadField
<1>9. i \in 1 .. L
  OBVIOUS
<1>10. size \in 0 .. m
  OBVIOUS
<1> HIDE DEF F, L, o, m
<1>11. i \in 1 .. L + 1 /\ L \in 1 .. L + 1 /\ L + 1 \in 1 .. L + 1 /\ i + 1 \in 1 .. L + 1
  BY <1>1, <1>9
<1>12. o(i) \in Nat /\ o(L) \in Nat /\ o(L + 1) \in Nat /\ 12 <= o(L) /\ 12 <= o(L + 1) /\ F[i][2] \in Nat
  BY <1>1, <1>3, <1>9, <1>11
<1>13. CASE ~HasCertificate(type)
  <2>1. n = o(L + 1) /\ F[i][1] # "certificate"
    BY <1>5, <1>6, <1>9, <1>13
  <2>2. o(i + 1) <= o(L + 1) /\ o(i + 1) = o(i) + F[i][2]
    BY <1>1, <1>2, <1>4, <1>9, <1>11
  <2>3. n >= o(i) + F[i][2]
    BY <1>12, <2>1, <2>2
  <2>4. QED
    BY <1>8, <1>12, <2>1, <2>3 DEF F
<1>14. CASE HasCertificate(type) /\ i # L
  <2>1. F[i][1] # "certificate" /\ F[L][2] = m /\ L \in 1 .. L
    BY <1>1, <1>5, <1>9, <1>14
  <2>2. o(L + 1) = o(L) + m
    BY <1>2, <2>1
  <2>3. n = o(L) + size
    BY <1>6, <1>7, <1>10, <1>12, <1>14, <2>2
  <2>4. o(i + 1) <= o(L) /\ o(i + 1) = o(i) + F[i][2]
    <3>1. i + 1 <= L
      BY <1>1, <1>9, <1>14
    <3>2. QED
      BY <1>2, <1>4, <1>9, <1>11, <3>1
  <2>5. n >= o(i) + F[i][2] /\ n \in Nat /\ n >= 12
    <3>1. size \in Nat
      BY <1>7, <1>10
    <3>2. QED
      <4> HIDE DEF HasCertificate
      <4> QED  BY <1>12, <2>3, <2>4, <3>1, SMTT(30)
  <2>6. QED
    BY <1>8, <2>1, <2>5 DEF F
<1>15. CASE HasCertificate(type) /\ i = L
  <2>1. F[i][1] = "certificate" /\ F[i][2] = m
    BY <1>5, <1>15
  <2>2. o(L + 1) = o(i) + m
    BY <1>2, <1>9, <1>15, <2>1
  <2>3. n = o(i) + size
    BY <1>6, <1>7, <1>10, <1>12, <1>15, <2>2
  <2>4. (IF n >= o(i) + F[i][2] THEN F[i][2] ELSE IF n <= o(i) THEN 0 ELSE n - o(i)) = size
    BY <1>7, <1>10, <1>12, <2>1, <2>3
  <2>5. n \in Nat /\ n >= 12
    BY <1>10, <1>12, <1>15, <2>3
  <2>6. QED
    BY <1>8, <2>1, <2>4, <2>5 DEF F
<1>16. QED
  BY <1>13, <1>14, <1>15
(* No response is shorter than its header. *)
LEMMA HeaderIsSent ==
  ASSUME NEW prof \in Profiles, NEW type \in Types, NEW error, NEW size \in 0 .. MaxCertSize(prof)
  PROVE  PartialLen(prof, type, error, size) >= HdrSize
<1> DEFINE o(j) == Offset(prof, type, j)
           L == Len(Fields(prof, type))
           m == MaxCertSize(prof)
           n == PartialLen(prof, type, error, size)
<1>1. CASE error # NoError
  BY <1>1 DEF PartialLen, HdrSize
<1>2. CASE error = NoError /\ ~HasCertificate(type)
  <2>1. L \in 0 .. 5
    BY LayoutOfType DEF IsLayout
  <2>2. L + 1 \in 1 .. L + 1
    BY <2>1
  <2>3. 12 <= o(L + 1) /\ o(L + 1) \in Nat
    <3> HIDE DEF L
    <3>1. \A j \in 1 .. L + 1 : 12 <= o(j) /\ o(j) \in Nat
      BY LayoutOfType, OffsetsAreOrdered DEF L
    <3>2. QED
      BY <2>2, <3>1
  <2>4. n = o(L + 1)
    BY <1>2 DEF PartialLen, SizeOf
  <2> HIDE DEF n, o, L
  <2>5. n >= 12
    BY <2>3, <2>4
  <2>6. QED
    BY <2>5 DEF n, HdrSize
<1>3. CASE error = NoError /\ HasCertificate(type)
  <2>1. L \in Nat /\ L >= 1
    BY <1>3, CertificateIsLast
  <2>2. 1 \in 1 .. L
    BY <2>1
  <2>3. n = PartialLen(prof, type, NoError, size)
    BY <1>3
  <2> HIDE DEF n
  <2>4. n >= 12
    BY <2>2, <2>3, FieldsAreRead
  <2>5. QED
    BY <2>4 DEF n, HdrSize
<1>4. QED
  BY <1>1, <1>2, <1>3

(* The code of an error tells it from any other, but for the causes of internal errors. *)
LEMMA ErrorIsTold ==
  ASSUME NEW a \in Errors, NEW e \in Errors, ErrorCode(a) = ErrorCode(e)
  PROVE  e = a \/ {e, a} \subseteq InternalErrors
<1> DEFINE Plain(x) == /\ x = [discriminant |-> ErrorCode(x), sub |-> 0]
                       /\ ErrorCode(x) \in 0 .. 148 /\ ErrorCode(x) # 1
           Caused(x, d, n) == x = [discriminant |-> d, sub |-> n] /\ ErrorCode(x) = d + n
           Origins == {PLATFORM, CRYPTO, VALIDATION}
<1>1. \A x \in PlainErrors : Plain(x)
  BY SMT DEF PlainErrors, ErrorCode, PLATFORM, CRYPTO, VALIDATION
<1>2. \A x \in InternalErrors : ErrorCode(x) = 1
  BY SMT DEF InternalErrors, ErrorCode, PLATFORM, CRYPTO, VALIDATION
<1>3. \A x \in CauseErrors : \E d \in Origins, n \in 0 .. 26 : Caused(x, d, n)
  BY SMT DEF CauseErrors, ErrorCode
<1>4. \A d \in Origins, n \in 0 .. 26 : d \in Nat /\ d + n > 148
  BY SMT DEF PLATFORM, CRYPTO, VALIDATION
<1> HIDE DEF Origins
<1>5. ASSUME NEW x \in CauseErrors
      PROVE  ErrorCode(x) \in Nat /\ ErrorCode(x) > 148
  <2>1. PICK d \in Origins, n \in 0 .. 26 : Caused(x, d, n)
    BY <1>3
  <2>2. ErrorCode(x) = d + n
    BY <2>1
  <2>3. d \in Nat /\ d + n > 148
    BY <1>4
  <2>4. QED
    BY <2>2, <2>3, SMT
<1>6. CASE a \in PlainErrors
  <2>1. Plain(a)
    BY <1>1, <1>6
  <2>2. e \notin InternalErrors
    BY <1>2, <2>1
  <2>3. e \notin CauseErrors
    BY <1>5, <2>1, SMT
  <2>4. Plain(e)
    BY <1>1, <2>2, <2>3 DEF Errors
  <2>5. QED
    BY <2>1, <2>4
<1>7. CASE a \in InternalErrors
  <2>1. ErrorCode(e) = 1
    BY <1>2, <1>7
  <2>2. e \notin PlainErrors
    BY <1>1, <2>1
  <2>3. e \notin CauseErrors
    BY <1>5, <2>1, SMT
  <2>4. QED
    BY <1>7, <2>2, <2>3 DEF Errors
<1>8. CASE a \in CauseErrors
  <2>1. PICK d \in Origins, n \in 0 .. 26 : Caused(a, d, n)
    BY <1>3, <1>8
  <2>2. ErrorCode(e) > 148 /\ ErrorCode(e) \in Nat
    BY <1>5, <1>8
  <2>3. e \notin PlainErrors
    BY <1>1, <2>2, SMT
  <2>4. e \notin InternalErrors
    BY <1>2, <2>2, SMT
  <2>5. PICK f \in Origins, m \in 0 .. 26 : Caused(e, f, m)
    BY <1>3, <2>3, <2>4 DEF Errors
  <2>6. d + n = f + m
    BY <2>1, <2>5
  <2>7. d = f /\ n = m
    BY <2>6, SMT DEF Origins, PLATFORM, CRYPTO, VALIDATION
  <2>8. QED
    BY <2>1, <2>5, <2>7
<1>9. QED
  BY <1>6, <1>7, <1>8 DEF Errors

(* The tables of response types agree, and name types of responses. *)
LEMMA TablesAgree ==
  ASSUME NEW id \in CommandIds, NEW exports
  PROVE  /\ ReadType(id, exports) = ResponseType(id, exports)
         /\ ResponseType(id, exports) \in Types
BY DEF CommandIds, ReadType, ResponseType, Types

-----------------------------------------------------------------------------
(***************************************************************************)
(* What a process answers.                                                 *)
(***************************************************************************)

(***************************************************************************)
(* a is an answer to a command: an error of the instance, or no error and  *)
(* a certificate that fits its field, cut to the length of its type.       *)
(***************************************************************************)
Meant(prof, a) ==
  /\ a.id \in CommandIds
  /\ a.error \in Errors
  /\ a.status = ErrorCode(a.error)
  /\ a.cert_size \in 0 .. MaxCertSize(prof)
  /\ a.len = PartialLen(prof, ResponseType(a.id, a.exports), a.error, a.cert_size)

(***************************************************************************)
(* What a process has computed, and what it has written to a client, is    *)
(* such an answer.                                                         *)
(***************************************************************************)
AnswersOK ==
  /\ profile \in Profiles
  /\ DOMAIN conn = Clients /\ \A c \in Clients : "state" \in DOMAIN conn[c]
  /\ \A i \in Instances : proc[i] = "executed" => Meant(profile, response[i])
  /\ \A c \in Clients : conn[c].state = "answered" => Meant(profile, conn[c].answer)

(* The errors of the model are errors of the code. *)
LEMMA FailuresAreErrors ==
  /\ NoError \in Errors /\ InvalidHandle \in Errors /\ InvalidParentLocality \in Errors
  /\ Failures \subseteq Errors /\ HandleGenerationExhausted \in Errors
<1>1. NoError \in PlainErrors /\ InvalidHandle \in PlainErrors /\ InvalidParentLocality \in PlainErrors
  BY DEF NoError, InvalidHandle, InvalidParentLocality, PlainErrors
<1>2. HandleGenerationExhausted \in InternalErrors
  BY DEF HandleGenerationExhausted, InternalErrors
<1>3. [discriminant |-> CRYPTO, sub |-> 7] \in CauseErrors
  BY DEF CauseErrors
<1>4. QED
  BY <1>1, <1>2, <1>3 DEF Errors, Failures

(* Every answer to a command is meant. *)
LEMMA AnswersAreMeant ==
  ASSUME profile \in Profiles, NEW r, r.id \in CommandIds, NEW named, NEW current,
         NEW o \in Outcomes(r, named, current)
  PROVE  Meant(profile, o.answer)
<1>1. MaxCertSize(profile) \in Nat /\ 1 <= MaxCertSize(profile)
  BY CertificateSize
<1>2. ASSUME NEW error \in Errors, NEW size \in 0 .. MaxCertSize(profile), NEW h
      PROVE  Meant(profile, Answer(r, error, size, h))
  BY DEF Meant, Answer
<1>3. CertSizes(r) \subseteq 0 .. MaxCertSize(profile)
  BY <1>1 DEF CertSizes
<1>4. 0 \in 0 .. MaxCertSize(profile)
  BY <1>1
<1>5. \A answer, h : Outcome(answer, h).answer = answer
  BY DEF Outcome
<1>6. CASE NamesContext(r.id) /\ named # current
  <2>1. o.answer = Answer(r, LookupError(r.id), 0, NONE)
    BY <1>5, <1>6 DEF Outcomes
  <2>2. LookupError(r.id) \in Errors
    BY FailuresAreErrors DEF LookupError
  <2>3. QED
    BY <1>2, <1>4, <2>1, <2>2
<1>7. CASE o \in Successes(r, current)
  <2>1. PICK n \in CertSizes(r) \cup {0} : \/ o.answer = Answer(r, NoError, n, NONE)
                                          \/ o.answer = Answer(r, NoError, n, current + 1)
    BY <1>5, <1>7 DEF Successes
  <2>2. n \in 0 .. MaxCertSize(profile)
    BY <1>3, <1>4, <2>1
  <2>3. QED
    BY <1>2, <2>1, <2>2, FailuresAreErrors
<1>8. CASE o \in {Outcome(Answer(r, e, 0, NONE), current) : e \in Failures}
  <2>1. PICK e \in Failures : o = Outcome(Answer(r, e, 0, NONE), current)
    BY <1>8
  <2>2. o.answer = Answer(r, e, 0, NONE)
    BY <1>5, <2>1
  <2>3. QED
    BY <1>2, <1>4, <2>2, FailuresAreErrors
<1>9. CASE o \in Untold(r, current)
  <2>1. o.answer = Answer(r, HandleGenerationExhausted, 0, NONE)
    BY <1>5, <1>9 DEF Untold
  <2>2. QED
    BY <1>2, <1>4, <2>1, FailuresAreErrors
<1>10. QED
  BY <1>6, <1>7, <1>8, <1>9 DEF Outcomes

(* A step that answers nobody and computes nothing. *)
LEMMA SilentStep ==
  ASSUME AnswersOK, UNCHANGED << profile, conn, response >>,
         \A i \in Instances : proc'[i] = "executed" => proc[i] = "executed"
  PROVE  AnswersOK'
BY DEF AnswersOK

(* A process that ends answers nobody. *)
LEMMA ExitAnswers ==
  ASSUME IInv, AnswersOK, NEW i \in Instances, Exit(i), UNCHANGED profile
  PROVE  AnswersOK'
<1>1. profile' \in Profiles
  BY DEF AnswersOK
<1>2. /\ DOMAIN conn' = Clients
      /\ \A c \in Clients : \/ conn'[c] = conn[c]
                            \/ conn'[c] = [Idle EXCEPT !.state = "closed"]
  BY DEF Exit
<1>3. LET d == [Idle EXCEPT !.state = "closed"] IN "state" \in DOMAIN d /\ d.state # "answered"
  BY DEF Idle
<1>4. \A c \in Clients : "state" \in DOMAIN conn'[c]
  BY <1>2, <1>3 DEF AnswersOK
<1>5. ASSUME NEW c \in Clients, conn'[c].state = "answered" PROVE Meant(profile', conn'[c].answer)
  <2>1. conn'[c] = conn[c]
    BY <1>2, <1>3, <1>5
  <2>2. QED
    BY <1>5, <2>1 DEF AnswersOK
<1>6. ASSUME NEW j \in Instances, proc'[j] = "executed" PROVE Meant(profile', response'[j])
  <2>1. proc[j] = "executed" /\ response'[j] = response[j]
    BY <1>6 DEF Exit, IInv, ShapeOK
  <2>2. QED
    BY <2>1 DEF AnswersOK
<1>7. QED
  BY <1>1, <1>2, <1>4, <1>5, <1>6 DEF AnswersOK

(* A request is answered by what is meant, or by the end of the process. *)
LEMMA HandleRequestAnswers ==
  ASSUME IInv, AnswersOK, NEW i \in Instances, HandleRequest(i)
  PROVE  AnswersOK'
<1> DEFINE r == conn[stream[i]].request
<1>1. UNCHANGED profile
  BY DEF HandleRequest
<1>2. CASE r = NONE \/ Deserialize(profile, r) # "Ok"
  <2>1. Exit(i)
    BY <1>2 DEF HandleRequest
  <2>2. QED
    BY <1>1, <2>1, ExitAnswers
<1>3. CASE ~(r = NONE \/ Deserialize(profile, r) # "Ok")
  <2>1. PICK o \in Outcomes(r, conn[stream[i]].handle, handle[i]) :
          /\ response' = [response EXCEPT ![i] = o.answer]
          /\ proc' = [proc EXCEPT ![i] = "executed"]
          /\ conn' = conn
    BY <1>3 DEF HandleRequest
  <2>2. r.id \in CommandIds
    BY <1>3 DEF Deserialize
  <2>3. Meant(profile, o.answer)
    <3> HIDE DEF r
    <3> QED  BY <2>2, AnswersAreMeant DEF AnswersOK
  <2> HIDE DEF r
  <2>4. \A j \in Instances : proc'[j] = "executed" => Meant(profile, response'[j])
    BY <2>1, <2>3 DEF AnswersOK, IInv, ShapeOK
  <2>5. QED
    BY <1>1, <2>1, <2>4 DEF AnswersOK
<1>4. QED
  BY <1>2, <1>3

(* What has been computed is written. *)
LEMMA WriteResponseAnswers ==
  ASSUME IInv, AnswersOK, NEW i \in Instances, WriteResponse(i)
  PROVE  AnswersOK'
<1> DEFINE d == [Idle EXCEPT !.state = "answered", !.answer = response[i]]
<1>1. /\ proc[i] = "executed" /\ profile' = profile
      /\ conn' = [conn EXCEPT ![stream[i]] = d]
      /\ response' = [response EXCEPT ![i] = NONE]
      /\ proc' = [proc EXCEPT ![i] = "ready"]
  BY DEF WriteResponse
<1>2. "state" \in DOMAIN d /\ d.answer = response[i]
  BY DEF Idle
<1>3. Meant(profile, response[i])
  BY <1>1 DEF AnswersOK
<1> HIDE DEF d
<1>4. DOMAIN conn' = Clients /\ \A c \in Clients : conn'[c] = conn[c] \/ conn'[c] = d
  BY <1>1 DEF AnswersOK
<1>5. \A c \in Clients : "state" \in DOMAIN conn'[c]
  BY <1>2, <1>4 DEF AnswersOK
<1>6. ASSUME NEW c \in Clients, conn'[c].state = "answered" PROVE Meant(profile, conn'[c].answer)
  <2>1. CASE conn'[c] = conn[c]
    BY <1>6, <2>1 DEF AnswersOK
  <2>2. CASE conn'[c] = d
    BY <1>2, <1>3, <2>2
  <2>3. QED
    BY <1>4, <2>1, <2>2
<1>7. \A j \in Instances : proc'[j] = "executed" => proc[j] = "executed" /\ response'[j] = response[j]
  BY <1>1 DEF IInv, ShapeOK
<1>8. QED
  BY <1>1, <1>4, <1>5, <1>6, <1>7 DEF AnswersOK

(* A client that dials, writes or leaves has no answer. *)
LEMMA ClientAnswers ==
  ASSUME AnswersOK, NEW c \in Clients, Dial(c) \/ Write(c) \/ Leave(c)
  PROVE  AnswersOK'
<1>1. UNCHANGED << profile, proc, response >>
  BY DEF Dial, Write, Leave, server_vars
<1>2. /\ DOMAIN conn' = Clients
      /\ \A d \in Clients : d # c => conn'[d] = conn[d]
      /\ "state" \in DOMAIN conn'[c] /\ conn'[c].state # "answered"
  <2>1. CASE Dial(c)
    BY <2>1 DEF Dial, AnswersOK, Idle
  <2>2. CASE Write(c)
    <3>1. PICK r \in Requests, h \in 0 .. told[conn[c].at] :
            conn' = [conn EXCEPT ![c].state = "sent", ![c].request = r, ![c].handle = h]
      BY <2>2 DEF Write
    <3>2. QED
      BY <3>1 DEF AnswersOK
  <2>3. CASE Leave(c)
    BY <2>3 DEF Leave, AnswersOK
  <2>4. QED
    BY <2>1, <2>2, <2>3
<1>3. QED
  BY <1>1, <1>2 DEF AnswersOK

(***************************************************************************)
(* AnswersOK is inductive, together with IInv.                             *)
(***************************************************************************)
LEMMA StepAnswersOK ==
  ASSUME IInv, AnswersOK, [Next]_vars
  PROVE  AnswersOK'
<1>1. ASSUME NEW i \in Instances, Exit(i), UNCHANGED profile
      PROVE  AnswersOK'
  BY <1>1, ExitAnswers
<1>2. ASSUME NEW i \in Instances,
             DeleteOldSocket(i) \/ Start(i) \/ Accept(i) \/ AcceptFails(i) \/ HandlerCleanup(i)
               \/ RunByHand(i) \/ PowerOn(i)
      PROVE  AnswersOK'
  <2>1. UNCHANGED << profile, conn, response >>
    BY <1>2 DEF DeleteOldSocket, Start, Accept, AcceptFails, HandlerCleanup, RunByHand, PowerOn
  <2>2. \A j \in Instances : proc'[j] = "executed" => proc[j] = "executed"
    BY <1>2 DEF DeleteOldSocket, Start, Accept, AcceptFails, HandlerCleanup, RunByHand, PowerOn,
                IInv, ShapeOK
  <2>3. QED
    BY <2>1, <2>2, SilentStep
<1>3. ASSUME NEW i \in Instances, Bind(i) \/ Sigterm(i)
      PROVE  AnswersOK'
  <2>1. CASE Exit(i)
    BY <1>1, <1>3, <2>1 DEF Bind, Sigterm
  <2>2. CASE ~Exit(i)
    <3>1. UNCHANGED << profile, conn, response >>
      BY <1>3, <2>2 DEF Bind, Sigterm
    <3>2. \A j \in Instances : proc'[j] = "executed" => proc[j] = "executed"
      BY <1>3, <2>2 DEF Bind, Sigterm, IInv, ShapeOK
    <3>3. QED
      BY <3>1, <3>2, SilentStep
  <2>3. QED
    BY <2>1, <2>2
<1>4. ASSUME NEW i \in Instances, WriteFails(i) \/ Return(i) \/ HandlerExit(i)
      PROVE  AnswersOK'
  BY <1>1, <1>4 DEF WriteFails, Return, HandlerExit
<1>5. CASE UNCHANGED vars
  BY <1>5, SilentStep DEF vars, server_vars
<1>6. QED
  BY <1>2, <1>3, <1>4, <1>5, HandleRequestAnswers, WriteResponseAnswers, ClientAnswers
     DEF Next, MainThread, HandlerThread

(***************************************************************************)
(* What a client reads back is what the server meant                       *)
(* (AnswersAreUnderstood): for any profile and number of contexts, any     *)
(* requests and however the clients and processes interleave, the type of  *)
(* a response, its fields, its certificate and its error survive the way   *)
(* through the buffer, the socket and the two tables of response types.    *)
(***************************************************************************)
THEOREM AnswersCorrect == Spec => []AnswersAreUnderstood
<1>1. Init => AnswersOK
  BY BuildsAssumption DEF Init, AnswersOK, Idle
<1>2. IInv /\ AnswersOK /\ [Next]_vars => AnswersOK'
  BY StepAnswersOK
<1>3. AnswersOK => AnswersAreUnderstood
  <2> SUFFICES ASSUME AnswersOK, NEW c \in Clients, conn[c].state = "answered"
               PROVE  LET a    == conn[c].answer
                          type == ReadType(a.id, a.exports)
                      IN  /\ type = ResponseType(a.id, a.exports)
                          /\ a.len >= HdrSize
                          /\ a.error = NoError =>
                               \A i \in DOMAIN Fields(profile, type) :
                                 LET field == Fields(profile, type)[i]
                                 IN  ReadField(profile, type, a.len, i)
                                       = << field[1], IF field[1] = "certificate" THEN a.cert_size
                                                      ELSE field[2] >>
                          /\ \A e \in Errors : a.status = ErrorCode(e) =>
                               \/ e = a.error
                               \/ {e, a.error} \subseteq InternalErrors
    BY DEF AnswersAreUnderstood
  <2> DEFINE a == conn[c].answer
             type == ReadType(a.id, a.exports)
  <2>1. Meant(profile, a) /\ profile \in Profiles
    BY DEF AnswersOK
  <2>2. type = ResponseType(a.id, a.exports) /\ type \in Types
    BY <2>1, TablesAgree DEF Meant
  <2> HIDE DEF a, type
  <2>3. a.len = PartialLen(profile, type, a.error, a.cert_size) /\ a.cert_size \in 0 .. MaxCertSize(profile)
    BY <2>1, <2>2 DEF Meant
  <2>4. a.len >= HdrSize
    BY <2>1, <2>2, <2>3, HeaderIsSent
  <2>5. ASSUME a.error = NoError, NEW i \in DOMAIN Fields(profile, type)
        PROVE  ReadField(profile, type, a.len, i)
                 = << Fields(profile, type)[i][1],
                      IF Fields(profile, type)[i][1] = "certificate" THEN a.cert_size
                      ELSE Fields(profile, type)[i][2] >>
    <3>1. i \in 1 .. Len(Fields(profile, type))
      BY <2>1, <2>2 DEF Fields, Types
    <3>2. QED
      BY <2>1, <2>2, <2>3, <2>5, <3>1, FieldsAreRead
  <2>6. \A e \in Errors : a.status = ErrorCode(e) =>
          \/ e = a.error
          \/ {e, a.error} \subseteq InternalErrors
    BY <2>1, ErrorIsTold DEF Meant
  <2>7. QED
    BY <2>2, <2>4, <2>5, <2>6 DEF a, type
<1>4. QED
  BY <1>1, <1>2, <1>3, IInvCorrect, PTL DEF Spec
=============================================================================
