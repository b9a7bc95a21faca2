------------------------------ MODULE FlServer ------------------------------
(***************************************************************************)
(* Admission control and graceful shutdown of the flist server,            *)
(* src/fl-server/src/main.rs, app() and its helpers.                       *)
(*                                                                         *)
(* The router's layer stack is, from the outside in: HandleErrorLayer,     *)
(* load_shed, concurrency_limit(1024), timeout(10 s), the handler.  axum's *)
(* Router::layer wraps every route separately, and ConcurrencyLimitLayer   *)
(* gives every service it wraps a semaphore of its own, so each route has  *)
(* Limit permits.  load_shed refuses a request at once when its route has  *)
(* no permit (Overloaded); an admitted request holds its permit until the  *)
(* handler answers or the timeout fires and drops it (Elapsed).            *)
(* handle_error turns the two errors into 408 and 503.                     *)
(*                                                                         *)
(* Each request comes on a connection of its own.  axum::serve accepts     *)
(* connections until shutdown_signal() resolves (Ctrl+C or SIGTERM); then  *)
(* it stops accepting, closes the idle connections and returns once every *)
(* connection task has ended: a request head being read is still read and *)
(* served, and a response is written to the end, the body of an flist     *)
(* streamed by serve_flists included.  Nothing bounds how long a client    *)
(* takes to send its head or to read a response.  A handler's own          *)
(* response is abstracted to "handler"; what it does is outside this file. *)
(***************************************************************************)
EXTENDS Naturals, FiniteSets

CONSTANTS
    Requests, \* the requests clients send, each at most once
    Routes,   \* the routes of the router (v1 API, flists, swagger, redoc)
    Limit     \* concurrency_limit(1024), per route

ASSUME FlConstAssumption == Limit \in Nat \ {0} /\ Routes # {}

VARIABLES
    phase,   \* "starting", "serving", "draining", "exited" or "failed"
    st,      \* st[r]: "new", "reading" (head), "running" (in the stack),
             \* "sending" (response written) or "done"
    route,   \* route[r]: the route request r was sent to
    code,    \* code[r]: the response status, or "none"
    permits  \* permits[rt]: the permits left in route rt's semaphore

vars == <<phase, st, route, code, permits>>

Codes == {"none", "handler", "408", "503", "500"}

TypeOK ==
    /\ phase \in {"starting", "serving", "draining", "exited", "failed"}
    /\ st \in [Requests -> {"new", "reading", "running", "sending", "done"}]
    /\ route \in [Requests -> Routes]
    /\ code \in [Requests -> Codes]
    /\ permits \in [Routes -> 0..Limit]

(* handle_error: the status the server answers a middleware error with.    *)
HandleError(err) ==
    CASE err = "Elapsed"    -> "408"
      [] err = "Overloaded" -> "503"
      [] OTHER              -> "500"

Running(rt) == {r \in Requests : st[r] = "running" /\ route[r] = rt}

Init ==
    /\ phase = "starting"
    /\ st = [r \in Requests |-> "new"]
    /\ route \in [Requests -> Routes]
    /\ code = [r \in Requests |-> "none"]
    /\ permits = [rt \in Routes |-> Limit]
-----------------------------------------------------------------------------
(* app() reads the config and binds the listener; either `?` may return    *)
(* Err, and the process exits with it.                                     *)
Start ==
    /\ phase = "starting"
    /\ phase' \in {"serving", "failed"}
    /\ UNCHANGED <<st, route, code, permits>>

(* serve accepts a client's connection and reads its request head.         *)
Accept(r) ==
    /\ phase = "serving" /\ st[r] = "new"
    /\ st' = [st EXCEPT ![r] = "reading"]
    /\ UNCHANGED <<phase, route, code, permits>>

(* Mutant: the permit check is off by one.                                *)
ArriveOffByOne(r) ==
    /\ phase \in {"serving", "draining"} /\ st[r] = "reading"
    /\ IF permits[route[r]] >= 0
       THEN /\ st' = [st EXCEPT ![r] = "running"]
            /\ permits' = [permits EXCEPT ![route[r]] = @ - 1]
            /\ UNCHANGED code
       ELSE /\ st' = [st EXCEPT ![r] = "sending"]
            /\ code' = [code EXCEPT ![r] = HandleError("Overloaded")]
            /\ UNCHANGED permits
    /\ UNCHANGED <<phase, route>>

(* The head is read and the request reaches its route's stack, before or  *)
(* after the signal: load_shed admits it if the semaphore has a permit and *)
(* answers 503 through handle_error if not.                               *)
Arrive(r) ==
    /\ phase \in {"serving", "draining"} /\ st[r] = "reading"
    /\ IF permits[route[r]] > 0
       THEN /\ st' = [st EXCEPT ![r] = "running"]
            /\ permits' = [permits EXCEPT ![route[r]] = @ - 1]
            /\ UNCHANGED code
       ELSE /\ st' = [st EXCEPT ![r] = "sending"]
            /\ code' = [code EXCEPT ![r] = HandleError("Overloaded")]
            /\ UNCHANGED permits
    /\ UNCHANGED <<phase, route>>

(* The handler answers; the response future drops the permit and the       *)
(* response is written.                                                    *)
Respond(r) ==
    /\ st[r] = "running"
    /\ st' = [st EXCEPT ![r] = "sending"]
    /\ code' = [code EXCEPT ![r] = "handler"]
    /\ permits' = [permits EXCEPT ![route[r]] = @ + 1]
    /\ UNCHANGED <<phase, route>>

(* Mutant: the timeout answers but the dropped handler keeps its permit.  *)
ElapseKeepsPermit(r) ==
    /\ st[r] = "running"
    /\ st' = [st EXCEPT ![r] = "sending"]
    /\ code' = [code EXCEPT ![r] = HandleError("Elapsed")]
    /\ UNCHANGED <<phase, route, permits>>

(* timeout(10 s) fires: the handler future is dropped with its permit and *)
(* handle_error answers 408.                                               *)
Elapse(r) ==
    /\ st[r] = "running"
    /\ st' = [st EXCEPT ![r] = "sending"]
    /\ code' = [code EXCEPT ![r] = HandleError("Elapsed")]
    /\ permits' = [permits EXCEPT ![route[r]] = @ + 1]
    /\ UNCHANGED <<phase, route>>

(* shutdown_signal() resolves on Ctrl+C or SIGTERM.                        *)
Signal ==
    /\ phase = "serving"
    /\ phase' = "draining"
    /\ UNCHANGED <<st, route, code, permits>>

(* The client has read the whole response; the connection task ends.      *)
Sent(r) ==
    /\ st[r] = "sending"
    /\ st' = [st EXCEPT ![r] = "done"]
    /\ UNCHANGED <<phase, route, code, permits>>

(* serve(..).await returns once every connection task has ended: no head  *)
(* is being read, no request is in the stack and no response is being     *)
(* written; app() is Ok.                                                   *)
Exit ==
    /\ phase = "draining"
    /\ \A r \in Requests : st[r] \in {"new", "done"}
    /\ phase' = "exited"
    /\ UNCHANGED <<st, route, code, permits>>

Next ==
    \/ Start \/ Signal \/ Exit
    \/ \E r \in Requests : Accept(r) \/ Arrive(r) \/ Respond(r) \/ Elapse(r) \/ Sent(r)

Spec == Init /\ [][Next]_vars
-----------------------------------------------------------------------------
(***************************************************************************)
(* load_shed answers 503 only when the route really is full: the request   *)
(* is refused only while Limit requests of its route are in flight.  It is *)
(* about the permits of concurrency_limit being given back on every path   *)
(* out of a request, the timeout's drop of the handler included; a leaked  *)
(* permit sheds load the server could take, until the route refuses all.  *)
(***************************************************************************)
ShedOnlyWhenFull ==
    [][\A r \in Requests :
          st[r] = "reading" /\ code'[r] = "503" => Cardinality(Running(route[r])) = Limit]_vars

(***************************************************************************)
(* The permits of each route's semaphore are conserved: the permits left   *)
(* and the requests of the route in flight add up to Limit, in every       *)
(* state.  It is about Arrive taking a permit exactly when it admits, and  *)
(* the handler's answer and the timeout's drop each giving one back; it is *)
(* the inductive invariant the proof of ShedOnlyWhenFull rests on.        *)
(***************************************************************************)
PermitsConserved ==
    \A rt \in Routes :
        /\ IsFiniteSet(Running(rt))
        /\ permits[rt] + Cardinality(Running(rt)) = Limit
=============================================================================
