----------------------- MODULE ServerLifecycleProofs -----------------------
(***************************************************************************)
(* Start and stop are safe for any set of calls, finite or not: the state  *)
(* stays well typed, no handler is without an engine, and a clean exit     *)
(* leaves nothing behind.                                                  *)
(***************************************************************************)
EXTENDS ServerLifecycle, TLAPS

Idle(t) == \A c \in Calls : via[c] = t => ~Active(c)

\* Who ended the calls that were not answered: the process, by an exit that is not
\* clean or at the end of the grace, or the client of an RPC.
UnansweredHaveReasons ==
    \A c \in Calls :
        /\ call[c] \in {"cancelled", "lost"} =>
              \/ exit \in {"error", "killed"}
              \/ via[c] = "grpc" /\ grace = "over"
        /\ call[c] \in {"hungup", "gone"} => via[c] = "grpc"

\* Why disposing the engine is safe: run gets past the wait without an error
\* only when the HTTP server has returned, so all its requests are answered,
\* and past stop only when the last RPC is gone.
LInv ==
    /\ TypeOK
    /\ main = "build" => http = "off" /\ grpc = "off" /\ Idle("http") /\ Idle("grpc")
    /\ main \notin {"build", "closing", "exited"} => engine \in {"none", "open"}
    /\ main \in {"cancel", "stop", "stopping", "dispose"} => http = "returned"
    /\ http = "returned" => Idle("http")
    /\ main = "dispose" => grpc = "stopped" /\ Idle("grpc")
    /\ UnansweredHaveReasons
    /\ EngineServesHandlers
    /\ CleanExitIsComplete

LEMMA InitLInv == Init => LInv
  BY DEF Init, LInv, TypeOK, MainSteps, Idle, Active, UnansweredHaveReasons,
           EngineServesHandlers, CleanExitIsComplete

\* A step of main.run keeps the invariant.
LEMMA MainStepKeepsLInv == LInv /\ MainStep => LInv'
<1> SUFFICES ASSUME LInv, MainStep PROVE LInv'
  OBVIOUS
<1> USE DEF LInv, TypeOK, MainSteps, Idle, Active, UnansweredHaveReasons,
           EngineServesHandlers, CleanExitIsComplete
<1>1. CASE BuildContainer
  BY <1>1 DEF BuildContainer, Raise
<1>2. CASE StartGrpc
  BY <1>2 DEF StartGrpc, Raise
<1>3. CASE SpawnTasks
  BY <1>3 DEF SpawnTasks
<1>4. CASE WaitForFirst
  BY <1>4 DEF WaitForFirst, Woken, Raise
<1>5. CASE CancelPending
  BY <1>5 DEF CancelPending
<1>6. CASE StopGrpc
  BY <1>6 DEF StopGrpc, Raise
<1>7. CASE GrpcStopped
  BY <1>7 DEF GrpcStopped, ActiveVia
<1>8. CASE Dispose
  BY <1>8 DEF Dispose, Raise
<1>9. CASE CloseLoop
  BY <1>9 DEF CloseLoop
<1> QED
  BY <1>1, <1>2, <1>3, <1>4, <1>5, <1>6, <1>7, <1>8, <1>9 DEF MainStep

\* What happens to one call keeps the invariant.
LEMMA CallStepKeepsLInv ==
  ASSUME NEW c \in Calls, LInv, Arrive(c) \/ Finish(c) \/ Unwind(c) \/ HangUp(c)
  PROVE  LInv'
<1> USE DEF LInv, TypeOK, MainSteps, Idle, Active, UnansweredHaveReasons,
           EngineServesHandlers, CleanExitIsComplete
<1>1. CASE Arrive(c)
  BY <1>1 DEF Arrive, Alive, Serving
<1>2. CASE Finish(c)
  BY <1>2 DEF Finish, Alive
<1>3. CASE Unwind(c)
  BY <1>3 DEF Unwind, Alive
<1>4. CASE HangUp(c)
  BY <1>4 DEF HangUp, Alive
<1> QED
  BY <1>1, <1>2, <1>3, <1>4

\* What the servers, the timer and the signals do keeps the invariant.
LEMMA ServerStepKeepsLInv ==
  ASSUME LInv,
         \/ GraceOver \/ HttpStarted \/ HttpFails \/ GrpcFails
         \/ Signal \/ HttpDrained \/ Interrupt \/ Kill
  PROVE  LInv'
<1> USE DEF LInv, TypeOK, MainSteps, Idle, Active, UnansweredHaveReasons,
           EngineServesHandlers, CleanExitIsComplete
<1>1. CASE GraceOver
  BY <1>1 DEF GraceOver
<1>2. CASE HttpStarted
  BY <1>2 DEF HttpStarted
<1>3. CASE HttpFails
  BY <1>3 DEF HttpFails
<1>4. CASE GrpcFails
  BY <1>4 DEF GrpcFails
<1>5. CASE Signal
  BY <1>5 DEF Signal
<1>6. CASE HttpDrained
  BY <1>6 DEF HttpDrained, ActiveVia, Raise, Killed
<1>7. CASE Kill
  BY <1>7 DEF Kill, Killed, Alive
<1>8. CASE Interrupt
  BY <1>8 DEF Interrupt, Raise
<1> QED
  BY <1>1, <1>2, <1>3, <1>4, <1>5, <1>6, <1>7, <1>8

LEMMA StepKeepsLInv == LInv /\ [Next]_vars => LInv'
<1> SUFFICES ASSUME LInv, [Next]_vars PROVE LInv'
  OBVIOUS
<1>1. CASE UNCHANGED vars
  BY <1>1 DEF vars, LInv, TypeOK, MainSteps, Idle, Active, UnansweredHaveReasons,
              EngineServesHandlers, CleanExitIsComplete
<1>2. CASE Next
  BY <1>1, <1>2, MainStepKeepsLInv, CallStepKeepsLInv, ServerStepKeepsLInv DEF Next
<1> QED
  BY <1>1, <1>2

LEMMA LInvHolds == Spec => []LInv
  BY InitLInv, StepKeepsLInv, PTL DEF Spec

\* The state of the process stays well typed for every set of calls.
THEOREM LifecycleTypeCorrect == Spec => []TypeOK
<1>1. LInv => TypeOK
  BY DEF LInv
<1> QED
  BY <1>1, LInvHolds, PTL

\* No handler is without an engine: main.run disposes it only when the last
\* handler of both servers is gone.
THEOREM EngineIsThere == Spec => []EngineServesHandlers
<1>1. LInv => EngineServesHandlers
  BY DEF LInv
<1> QED
  BY <1>1, LInvHolds, PTL

\* When the process exits cleanly, server, engine and calls are all settled.
THEOREM CleanExit == Spec => []CleanExitIsComplete
<1>1. LInv => CleanExitIsComplete
  BY DEF LInv
<1> QED
  BY <1>1, LInvHolds, PTL

\* A call is cut short only by an exit that is not clean or, over gRPC, when
\* its grace is over.
THEOREM CallsAreNotCutShort == Spec => NoCallIsCutShort
<1> DEFINE CutShort(c) == call[c] = "running" /\ call'[c] \in {"cancelled", "lost"}
           Excused(c) == \/ exit' \in {"error", "killed"}
                         \/ via[c] = "grpc" /\ grace' = "over"
<1>1. ASSUME LInv, [Next]_vars, NEW c \in Calls, CutShort(c)
      PROVE  Excused(c)
  <2> USE <1>1 DEF LInv, TypeOK
  <2>1. CASE CloseLoop
    BY <2>1 DEF CloseLoop, CleanExitIsComplete, Active
  <2>2. CASE MainStep /\ ~CloseLoop
    <3>1. UNCHANGED call
      BY <2>2 DEF MainStep, BuildContainer, StartGrpc, SpawnTasks, WaitForFirst,
                  CancelPending, StopGrpc, GrpcStopped, Dispose
    <3> QED
      BY <3>1
  <2>3. CASE \E d \in Calls : Arrive(d) \/ Finish(d) \/ Unwind(d) \/ HangUp(d)
    BY <2>3 DEF Arrive, Finish, Unwind, HangUp
  <2>4. CASE GraceOver
    BY <2>4 DEF GraceOver
  <2>5. CASE HttpStarted \/ HttpFails \/ GrpcFails \/ Signal
    BY <2>5 DEF HttpStarted, HttpFails, GrpcFails, Signal
  <2>6. CASE HttpDrained \/ Interrupt \/ Kill
    BY <2>6 DEF HttpDrained, Interrupt, Kill, Raise, Killed
  <2>7. CASE UNCHANGED vars
    BY <2>7 DEF vars
  <2> QED
    BY <2>1, <2>2, <2>3, <2>4, <2>5, <2>6, <2>7 DEF Next
<1>2. LInv /\ [Next]_vars => \A c \in Calls : CutShort(c) => Excused(c)
  BY <1>1
<1> QED
  BY <1>2, LInvHolds, PTL DEF Spec, NoCallIsCutShort
=============================================================================
