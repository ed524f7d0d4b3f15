-------------------------- MODULE ServerLifecycle --------------------------
(***************************************************************************)
(* main.run: the container is built, the gRPC server started, then the     *)
(* HTTP server, and when one of the two ends the process shuts down.       *)
(*                                                                         *)
(* What the libraries do is external.  uvicorn ends serve() when a signal  *)
(* has come and the requests at hand are answered; it then raises the      *)
(* signal again, which kills the process (SIGTERM), cancels the main task  *)
(* (SIGINT), or does nothing (the process is a container's PID 1) so that  *)
(* serve() returns.  Outside serve() a SIGINT cancels the main task at its *)
(* await.  A port that is taken ends either server with an error.          *)
(* asyncio.run cancels what is left when the main task is over.            *)
(***************************************************************************)

CONSTANT Calls      \* the requests that clients send

VARIABLES
    main,       \* where run is
    engine,     \* container.engine
    http,       \* the HTTP server, and what became of http_task
    grpc,       \* the gRPC server, and what became of grpc_task
    via,        \* the transport a call came by
    call,       \* how far a call is
    grace,      \* what is left of stop(grace=5)
    exit        \* how the process ended

vars == <<main, engine, http, grpc, via, call, grace, exit>>

MainSteps == {"build", "start", "spawn", "wait", "cancel", "stop", "stopping",
              "dispose", "closing", "exited"}

TypeOK ==
    /\ main \in MainSteps
    /\ engine \in {"unset", "none", "open", "disposed"}
    /\ http \in {"off", "starting", "serving", "draining", "returned", "raised"}
    /\ grpc \in {"off", "serving", "raised", "unwatched", "stopping", "stopped"}
    /\ via \in [Calls -> {"http", "grpc"}]
    /\ call \in [Calls -> {"unsent", "running", "done",
                          "cancelled", "lost",      \* by the process
                          "hungup", "gone"}]        \* by the client
    /\ grace \in {"left", "over"}
    /\ exit \in {"none", "clean", "error", "killed"}
    /\ exit # "none" <=> main \in {"closing", "exited"}
    /\ grpc = "stopping" => main \in {"stopping", "closing", "exited"}

Init ==
    /\ main = "build" /\ engine = "unset"
    /\ http = "off" /\ grpc = "off"
    /\ via \in [Calls -> {"http", "grpc"}]
    /\ call = [c \in Calls |-> "unsent"]
    /\ grace = "left" /\ exit = "none"

\* A call whose handler may still use the repository.
Active(c) == call[c] \in {"running", "cancelled", "hungup"}

ActiveVia(t) == {c \in Calls : via[c] = t /\ Active(c)}

-----------------------------------------------------------------------------
(* main.run                                                                *)

\* An exception leaves run: the steps after it are not taken.
Raise == main' = "closing" /\ exit' = "error"

\* build_container: without use_mock_repository an engine is created and its
\* schema; the database may be unreachable, or the gRPC port taken.
BuildContainer ==
    /\ main = "build"
    /\ engine' \in {"none", "open"}
    /\ \/ main' = "start" /\ UNCHANGED exit
       \/ Raise
    /\ UNCHANGED <<http, grpc, via, call, grace>>

\* The log directory may not be writable, nor the server able to start.
StartGrpc ==
    /\ main = "start"
    /\ \/ main' = "spawn" /\ grpc' = "serving" /\ UNCHANGED exit
       \/ Raise /\ UNCHANGED grpc
    /\ UNCHANGED <<engine, http, via, call, grace>>

\* Both tasks are created; only now does the HTTP server bind its port.
SpawnTasks ==
    /\ main = "spawn"
    /\ main' = "wait" /\ http' = "starting"
    /\ UNCHANGED <<engine, grpc, via, call, grace, exit>>

\* Mutant of Woken: return_when is ALL_COMPLETED.
WokenByBoth == http \in {"returned", "raised"} /\ grpc = "raised"

\* FIRST_COMPLETED.
Woken == http \in {"returned", "raised"} \/ grpc = "raised"

\* An exception of a finished task is raised again before anything is stopped.
WaitForFirst ==
    /\ main = "wait" /\ Woken
    /\ \/ "raised" \in {http, grpc} /\ Raise
       \/ "raised" \notin {http, grpc} /\ main' = "cancel" /\ UNCHANGED exit
    /\ UNCHANGED <<engine, http, grpc, via, call, grace>>

\* Only grpc_task can be pending here: cancelling it ends the waiting, not
\* the server.
CancelPending ==
    /\ main = "cancel"
    /\ main' = "stop" /\ grpc' = "unwatched"
    /\ UNCHANGED <<engine, http, via, call, grace, exit>>

\* Mutants of StopGrpc: stop is not awaited, or is called without a grace.
StopGrpcUnawaited ==
    /\ main = "stop"
    /\ main' = "dispose" /\ grpc' = "stopping"
    /\ UNCHANGED <<engine, http, via, call, grace, exit>>

StopGrpcAtOnce ==
    /\ main = "stop"
    /\ main' = "stopping" /\ grpc' = "stopping"
    /\ call' = [c \in Calls |-> IF via[c] = "grpc" /\ call[c] = "running"
                                THEN "cancelled" ELSE call[c]]
    /\ UNCHANGED <<engine, http, via, grace, exit>>

\* stop(grace=5): the server takes no more RPCs ...  Nothing guards the await: it
\* may raise, as its waiter was cancelled in CancelPending, or be cancelled by a
\* SIGINT, before the server is told or after.
StopGrpc ==
    /\ main = "stop"
    /\ \/ main' = "stopping" /\ grpc' = "stopping" /\ UNCHANGED exit
       \/ Raise /\ grpc' \in {grpc, "stopping"}
    /\ UNCHANGED <<engine, http, via, call, grace>>

\* ... and returns when none is left.
GrpcStopped ==
    /\ main = "stopping" /\ ActiveVia("grpc") = {}
    /\ main' = "dispose" /\ grpc' = "stopped"
    /\ UNCHANGED <<engine, http, via, call, grace, exit>>

\* dispose may raise or be cancelled as well.
Dispose ==
    /\ main = "dispose"
    /\ \/ /\ engine' = IF engine = "none" THEN "none" ELSE "disposed"
          /\ main' = "closing" /\ exit' = "clean"
       \/ engine = "open" /\ Raise /\ UNCHANGED engine
    /\ UNCHANGED <<http, grpc, via, call, grace>>

-----------------------------------------------------------------------------
(* The servers, asyncio and the clients: external                          *)

Alive == main # "exited"

\* asyncio.run cancels the handlers that are left and waits for them.
CloseLoop ==
    /\ main = "closing"
    /\ \/ /\ \E c \in Calls : call[c] = "running"
          /\ call' = [c \in Calls |-> IF call[c] = "running" THEN "cancelled" ELSE call[c]]
          /\ UNCHANGED main
       \/ /\ \A c \in Calls : ~Active(c)
          /\ main' = "exited"
          /\ UNCHANGED call
    /\ UNCHANGED <<engine, http, grpc, via, grace, exit>>

Serving(t) ==
    \/ t = "http" /\ http = "serving"
    \/ t = "grpc" /\ grpc \in {"serving", "unwatched"}

Arrive(c) ==
    /\ Alive /\ main # "closing"
    /\ call[c] = "unsent" /\ Serving(via[c])
    /\ call' = [call EXCEPT ![c] = "running"]
    /\ UNCHANGED <<main, engine, http, grpc, via, grace, exit>>

Finish(c) ==
    /\ Alive /\ call[c] = "running"
    /\ call' = [call EXCEPT ![c] = "done"]
    /\ UNCHANGED <<main, engine, http, grpc, via, grace, exit>>

\* A cancelled handler leaves its session and is gone.
Unwind(c) ==
    /\ Alive /\ call[c] \in {"cancelled", "hungup"}
    /\ call' = [call EXCEPT ![c] = IF @ = "hungup" THEN "gone" ELSE "lost"]
    /\ UNCHANGED <<main, engine, http, grpc, via, grace, exit>>

\* A client hangs up: gRPC cancels the handler, HTTP does not.
HangUp(c) ==
    /\ Alive /\ call[c] = "running" /\ via[c] = "grpc"
    /\ call' = [call EXCEPT ![c] = "hungup"]
    /\ UNCHANGED <<main, engine, http, grpc, via, grace, exit>>

\* The grace period ends: the RPCs that still run are cancelled.
GraceOver ==
    /\ main = "stopping" /\ grace = "left"
    /\ grace' = "over"
    /\ call' = [c \in Calls |-> IF via[c] = "grpc" /\ call[c] = "running"
                                THEN "cancelled" ELSE call[c]]
    /\ UNCHANGED <<main, engine, http, grpc, via, exit>>

HttpStarted ==
    /\ main = "wait" /\ http = "starting"
    /\ http' = "serving"
    /\ UNCHANGED <<main, engine, grpc, via, call, grace, exit>>

HttpFails ==
    /\ main = "wait" /\ http \in {"starting", "serving"}
    /\ http' = "raised"
    /\ UNCHANGED <<main, engine, grpc, via, call, grace, exit>>

GrpcFails ==
    /\ main = "wait" /\ grpc = "serving"
    /\ grpc' = "raised"
    /\ UNCHANGED <<main, engine, http, via, call, grace, exit>>

\* A signal that uvicorn has captured.
Signal ==
    /\ main = "wait" /\ http = "serving"
    /\ http' = "draining"
    /\ UNCHANGED <<main, engine, grpc, via, call, grace, exit>>

Killed ==
    /\ main' = "exited" /\ exit' = "killed"
    /\ call' = [c \in Calls |-> IF Active(c) THEN "lost" ELSE call[c]]

\* The last HTTP request is answered and the signal raised again.
HttpDrained ==
    /\ main = "wait" /\ http = "draining" /\ ActiveVia("http") = {}
    /\ http' = "returned"
    /\ \/ UNCHANGED <<main, call, exit>>
       \/ Raise /\ UNCHANGED call
       \/ Killed
    /\ UNCHANGED <<engine, grpc, via, grace>>

\* A SIGINT that uvicorn has not captured, or no longer: CancelledError at the
\* await of run.  (What awaits in build, start, stop and dispose may fail anyway;
\* in CancelPending it is suppressed.)
Interrupt ==
    /\ \/ main = "wait" /\ http \notin {"serving", "draining"}
       \/ main = "stopping"
    /\ Raise
    /\ UNCHANGED <<engine, http, grpc, via, call, grace>>

\* SIGKILL, or a SIGTERM that uvicorn has not captured.
Kill ==
    /\ Alive /\ Killed
    /\ UNCHANGED <<engine, http, grpc, via, grace>>

MainStep ==
    \/ BuildContainer \/ StartGrpc \/ SpawnTasks \/ WaitForFirst
    \/ CancelPending \/ StopGrpc \/ GrpcStopped \/ Dispose \/ CloseLoop

Next ==
    \/ MainStep
    \/ \E c \in Calls : Arrive(c) \/ Finish(c) \/ Unwind(c) \/ HangUp(c)
    \/ GraceOver
    \/ HttpStarted \/ HttpFails \/ GrpcFails \/ Signal \/ HttpDrained
    \/ Interrupt \/ Kill
    \/ ~Alive /\ UNCHANGED vars

Spec == Init /\ [][Next]_vars

\* The loop runs the main task, a timer fires, a cancelled handler unwinds and
\* an HTTP request is answered in the end.  Nothing is assumed of an RPC that
\* runs, of clients, signals or failures.
FairSpec ==
    /\ Spec
    /\ WF_vars(MainStep) /\ WF_vars(GraceOver) /\ WF_vars(HttpDrained)
    /\ \A c \in Calls : WF_vars(Unwind(c)) /\ WF_vars(via[c] = "http" /\ Finish(c))

-----------------------------------------------------------------------------
(* Properties                                                              *)

\* No handler finds the engine missing or gone: while a call is in progress the
\* schema is there and the engine is not disposed, on every path through start
\* and stop.
EngineServesHandlers ==
    (\E c \in Calls : Active(c)) => engine \in {"none", "open"}

\* A clean exit leaves nothing behind: the gRPC server is stopped, the engine
\* released, every HTTP request that came in was answered, and every RPC was
\* answered too, unless its client hung up or it outlived the whole grace.
CleanExitIsComplete ==
    exit = "clean" =>
        /\ grpc = "stopped" /\ engine # "open"
        /\ \A c \in Calls :
              \/ call[c] \in {"unsent", "done"}
              \/ via[c] = "grpc" /\ call[c] = "gone"
              \/ via[c] = "grpc" /\ call[c] = "lost" /\ grace = "over"

\* A call is cut off by the service itself only when its grace is over, or when
\* the process ends with an error or is killed; an HTTP request never by a
\* clean exit.
NoCallIsCutShort ==
    [][\A c \in Calls :
         (call[c] = "running" /\ call'[c] \in {"cancelled", "lost"}) =>
            \/ exit' \in {"error", "killed"}
            \/ via[c] = "grpc" /\ grace' = "over"
      ]_vars

\* When one of the two servers ends, however it ends, the process does not go
\* on with the other, nor hang on an RPC that never ends.
OneServerEndsProcessEnds ==
    (http \in {"draining", "returned", "raised"} \/ grpc = "raised") ~> main = "exited"
=============================================================================
