--------------------------- MODULE FlServerProofs ---------------------------
(***************************************************************************)
(* Proofs about the flist server's admission control for every set of      *)
(* requests and routes and every concurrency limit.                        *)
(*                                                                         *)
(* ShedOnlyWhenFull is an action property; it follows from an invariant    *)
(* FlInv of the state the step starts in: the permits of each route are    *)
(* conserved (PermitsConserved), and a request that has not reached its    *)
(* stack has no answer yet, so a 503 seen after a step is that step's.    *)
(* None of it depends on when the signal comes or how long a head or a     *)
(* response takes on the wire.                                             *)
(* PermitsConserved needs no finiteness of Requests: the requests in      *)
(* flight form a finite set because each step adds or removes one.        *)
(***************************************************************************)
EXTENDS FlServer, FiniteSetTheorems, TLAPS

NotAnswered == \A r \in Requests : st[r] \in {"new", "reading"} => code[r] = "none"

FlInv == TypeOK /\ PermitsConserved /\ NotAnswered

(* Admitting r adds it to the requests in flight of its route alone.      *)
LEMMA RunningAdd ==
    ASSUME TypeOK, NEW r \in Requests, st[r] = "reading",
           st' = [st EXCEPT ![r] = "running"], route' = route,
           NEW rt \in Routes
    PROVE  Running(rt)' = IF rt = route[r] THEN Running(rt) \cup {r} ELSE Running(rt)
BY DEF Running, TypeOK

(* An answer to r, by the handler or the timeout, removes it from the      *)
(* requests in flight of its route alone.                                  *)
LEMMA RunningRemove ==
    ASSUME TypeOK, NEW r \in Requests, st[r] = "running",
           st' = [st EXCEPT ![r] = "sending"], route' = route,
           NEW rt \in Routes
    PROVE  Running(rt)' = IF rt = route[r] THEN Running(rt) \ {r} ELSE Running(rt)
BY DEF Running, TypeOK

(* Accepting, shedding or finishing the response of r leaves the requests *)
(* in flight as they were.                                                 *)
LEMMA RunningShed ==
    ASSUME TypeOK, NEW r \in Requests, st[r] # "running", NEW v, v # "running",
           st' = [st EXCEPT ![r] = v], route' = route,
           NEW rt \in Routes
    PROVE  Running(rt)' = Running(rt)
BY DEF Running, TypeOK

(* A step that leaves st and route alone leaves the requests in flight.   *)
LEMMA RunningUnchanged ==
    ASSUME st' = st, route' = route, NEW rt
    PROVE  Running(rt)' = Running(rt)
BY DEF Running

(* Arrive(r) admitting r: one permit of r's route is taken as r joins the *)
(* requests in flight on it.                                               *)
LEMMA AdmitFlInv ==
    ASSUME FlInv, NEW r \in Requests, Arrive(r), permits[route[r]] > 0
    PROVE  FlInv'
<1> USE DEF FlInv
<1>1. /\ st[r] = "reading"
      /\ st' = [st EXCEPT ![r] = "running"]
      /\ permits' = [permits EXCEPT ![route[r]] = @ - 1]
      /\ UNCHANGED <<phase, route, code>>
    BY DEF Arrive
<1>2. TypeOK'
    <2>1. permits[route[r]] - 1 \in 0..Limit
        BY FlConstAssumption DEF TypeOK
    <2>2. permits' \in [Routes -> 0..Limit]
        BY <1>1, <2>1 DEF TypeOK
    <2>3. QED
        BY <1>1, <2>2 DEF TypeOK
<1>3. ASSUME NEW rt \in Routes
      PROVE  /\ IsFiniteSet(Running(rt)')
             /\ permits'[rt] + Cardinality(Running(rt)') = Limit
    <2>1. IsFiniteSet(Running(rt)) /\ permits[rt] + Cardinality(Running(rt)) = Limit
        BY DEF PermitsConserved
    <2>2. Running(rt)' = IF rt = route[r] THEN Running(rt) \cup {r} ELSE Running(rt)
        BY <1>1, RunningAdd
    <2>3. CASE rt = route[r]
        <3>1. r \notin Running(rt)
            BY <1>1 DEF Running
        <3>2. IsFiniteSet(Running(rt) \cup {r})
              /\ Cardinality(Running(rt) \cup {r}) = Cardinality(Running(rt)) + 1
            BY <2>1, <3>1, FS_AddElement
        <3>3. Cardinality(Running(rt)) \in Nat /\ permits[rt] \in Nat
            BY <2>1, FS_CardinalityType DEF TypeOK
        <3>4. permits'[rt] = permits[rt] - 1
            BY <1>1, <2>3 DEF TypeOK
        <3>5. QED
            BY <2>1, <2>2, <2>3, <3>2, <3>3, <3>4
    <2>4. CASE rt # route[r]
        BY <1>1, <2>1, <2>2, <2>4 DEF TypeOK
    <2>5. QED
        BY <2>3, <2>4
<1>4. NotAnswered'
    BY <1>1 DEF NotAnswered, TypeOK
<1>5. QED
    BY <1>2, <1>3, <1>4 DEF PermitsConserved

(* Respond(r) or Elapse(r): r is answered with c and gives its permit      *)
(* back as it leaves the requests in flight on its route.                  *)
LEMMA ReleaseFlInv ==
    ASSUME FlInv, NEW r \in Requests, NEW c \in Codes, st[r] = "running",
           st' = [st EXCEPT ![r] = "sending"],
           code' = [code EXCEPT ![r] = c],
           permits' = [permits EXCEPT ![route[r]] = @ + 1],
           UNCHANGED <<phase, route>>
    PROVE  FlInv'
<1> USE DEF FlInv
<1>1. r \in Running(route[r])
    BY DEF Running, TypeOK
<1>2. permits[route[r]] + 1 \in 0..Limit
    <2>1. IsFiniteSet(Running(route[r]))
          /\ permits[route[r]] + Cardinality(Running(route[r])) = Limit
        BY DEF PermitsConserved, TypeOK
    <2>2. Cardinality(Running(route[r]) \ {r}) = Cardinality(Running(route[r])) - 1
          /\ IsFiniteSet(Running(route[r]) \ {r})
        BY <1>1, <2>1, FS_RemoveElement
    <2>3. Cardinality(Running(route[r]) \ {r}) \in Nat
        BY <2>2, FS_CardinalityType
    <2>4. permits[route[r]] \in Nat /\ Limit \in Nat
          /\ Cardinality(Running(route[r])) \in Nat
        BY <2>1, FS_CardinalityType, FlConstAssumption DEF TypeOK
    <2>5. QED
        BY <2>1, <2>2, <2>3, <2>4
<1>3. TypeOK'
    <2>1. permits' \in [Routes -> 0..Limit]
        BY <1>2 DEF TypeOK
    <2>2. QED
        BY <2>1 DEF TypeOK
<1>4. ASSUME NEW rt \in Routes
      PROVE  /\ IsFiniteSet(Running(rt)')
             /\ permits'[rt] + Cardinality(Running(rt)') = Limit
    <2>1. IsFiniteSet(Running(rt)) /\ permits[rt] + Cardinality(Running(rt)) = Limit
        BY DEF PermitsConserved
    <2>2. Running(rt)' = IF rt = route[r] THEN Running(rt) \ {r} ELSE Running(rt)
        BY RunningRemove
    <2>3. CASE rt = route[r]
        <3>1. IsFiniteSet(Running(rt) \ {r})
              /\ Cardinality(Running(rt) \ {r}) = Cardinality(Running(rt)) - 1
            BY <1>1, <2>1, <2>3, FS_RemoveElement
        <3>2. Cardinality(Running(rt)) \in Nat /\ permits[rt] \in Nat
            BY <2>1, FS_CardinalityType DEF TypeOK
        <3>3. permits'[rt] = permits[rt] + 1
            BY <2>3 DEF TypeOK
        <3>4. QED
            BY <2>1, <2>2, <2>3, <3>1, <3>2, <3>3
    <2>4. CASE rt # route[r]
        BY <2>1, <2>2, <2>4 DEF TypeOK
    <2>5. QED
        BY <2>3, <2>4
<1>5. NotAnswered'
    BY DEF NotAnswered, TypeOK
<1>6. QED
    BY <1>3, <1>4, <1>5 DEF PermitsConserved

(* Arrive(r) shedding r: it is answered 503 and the permits stay.          *)
LEMMA ShedFlInv ==
    ASSUME FlInv, NEW r \in Requests, Arrive(r), ~(permits[route[r]] > 0)
    PROVE  FlInv'
<1> USE DEF FlInv
<1>1. /\ st[r] = "reading"
      /\ st' = [st EXCEPT ![r] = "sending"]
      /\ code' = [code EXCEPT ![r] = "503"]
      /\ UNCHANGED <<phase, route, permits>>
    <2>1. HandleError("Overloaded") = "503"
        BY Zenon DEF HandleError
    <2>2. QED
        BY <2>1 DEF Arrive
<1>2. TypeOK'
    BY <1>1 DEF TypeOK, Codes
<1>3. \A rt \in Routes : Running(rt)' = Running(rt)
    BY <1>1, RunningShed
<1>4. PermitsConserved'
    BY <1>1, <1>3 DEF PermitsConserved
<1>5. NotAnswered'
    BY <1>1 DEF NotAnswered, TypeOK
<1>6. QED
    BY <1>2, <1>4, <1>5

LEMMA InitFlInv == Init => FlInv
<1> SUFFICES ASSUME Init PROVE FlInv
    OBVIOUS
<1>1. TypeOK
    <2>1. Limit \in 0..Limit
        BY FlConstAssumption
    <2>2. permits \in [Routes -> 0..Limit]
        BY <2>1 DEF Init
    <2>3. QED
        BY <2>2 DEF Init, TypeOK, Codes
<1>2. ASSUME NEW rt \in Routes PROVE Running(rt) = {}
    BY DEF Init, Running
<1>3. PermitsConserved
    BY <1>2, FS_EmptySet, FlConstAssumption DEF Init, PermitsConserved
<1>4. NotAnswered
    BY DEF Init, NotAnswered
<1>5. QED
    BY <1>1, <1>3, <1>4 DEF FlInv
LEMMA NextFlInv == FlInv /\ [Next]_vars => FlInv'
<1> SUFFICES ASSUME FlInv, [Next]_vars PROVE FlInv'
    OBVIOUS
<1>1. CASE Start \/ Signal \/ Exit
    <2>1. UNCHANGED <<st, route, code, permits>>
          /\ phase' \in {"starting", "serving", "draining", "exited", "failed"}
        BY <1>1 DEF Start, Signal, Exit
    <2>2. \A rt \in Routes : Running(rt)' = Running(rt)
        BY <2>1, RunningUnchanged
    <2>3. QED
        BY <2>1, <2>2 DEF FlInv, TypeOK, PermitsConserved, NotAnswered
<1>2. ASSUME NEW r \in Requests, Arrive(r) PROVE FlInv'
    BY <1>2, AdmitFlInv, ShedFlInv
<1>3. ASSUME NEW r \in Requests, Respond(r) PROVE FlInv'
    BY <1>3, ReleaseFlInv DEF Respond, Codes
<1>4. ASSUME NEW r \in Requests, Elapse(r) PROVE FlInv'
    <2>1. HandleError("Elapsed") = "408"
        BY Zenon DEF HandleError
    <2>2. QED
        BY <1>4, <2>1, ReleaseFlInv DEF Elapse, Codes
<1>5. CASE UNCHANGED vars
    <2>1. \A rt \in Routes : Running(rt)' = Running(rt)
        BY <1>5, RunningUnchanged DEF vars
    <2>2. QED
        BY <1>5, <2>1 DEF vars, FlInv, TypeOK, PermitsConserved, NotAnswered
<1>7. ASSUME NEW r \in Requests, Accept(r) \/ Sent(r) PROVE FlInv'
    <2>1. PICK v \in {"reading", "done"} :
            /\ st[r] \in {"new", "sending"} /\ st' = [st EXCEPT ![r] = v]
            /\ v = "reading" => st[r] = "new"
            /\ UNCHANGED <<phase, route, code, permits>>
        BY <1>7 DEF Accept, Sent
    <2>2. \A rt \in Routes : Running(rt)' = Running(rt)
        BY <2>1, RunningShed DEF FlInv
    <2>3. TypeOK'
        BY <2>1 DEF FlInv, TypeOK
    <2>4. PermitsConserved'
        BY <2>1, <2>2 DEF FlInv, PermitsConserved
    <2>5. NotAnswered'
        BY <2>1 DEF FlInv, NotAnswered, TypeOK
    <2>6. QED
        BY <2>3, <2>4, <2>5 DEF FlInv
<1>6. QED
    BY <1>1, <1>2, <1>3, <1>4, <1>5, <1>7 DEF Next

(* The permits of every route's semaphore are conserved for every set of *)
(* requests and routes and every limit: an admission takes one, and the    *)
(* handler's answer and the timeout's drop each give one back.             *)
THEOREM PermitsConservedHolds == Spec => []PermitsConserved
<1>1. Init => FlInv
    BY InitFlInv
<1>2. FlInv /\ [Next]_vars => FlInv'
    BY NextFlInv
<1>3. FlInv => PermitsConserved
    BY DEF FlInv
<1>4. QED
    BY <1>1, <1>2, <1>3, PTL DEF Spec

(* The server's state is well typed for every limit: no route's semaphore *)
(* is ever overdrawn nor holds more than the limit's permits.              *)
THEOREM FlTypeCorrect == Spec => []TypeOK
BY InitFlInv, NextFlInv, PTL DEF Spec, FlInv

(* A step that answers a request whose head was read with 503 is Arrive      *)
(* shedding it with no permit left, so its route is full.                  *)
LEMMA ShedStep ==
    ASSUME FlInv, [Next]_vars
    PROVE  \A r \in Requests :
               st[r] = "reading" /\ code'[r] = "503" => Cardinality(Running(route[r])) = Limit
<1> SUFFICES ASSUME NEW r \in Requests, st[r] = "reading", code'[r] = "503"
             PROVE  Cardinality(Running(route[r])) = Limit
    OBVIOUS
<1>1. code[r] = "none"
    BY DEF FlInv, NotAnswered
<1>2. PICK s \in Requests : Arrive(s) /\ ~(permits[route[s]] > 0) /\ s = r
    <2>1. CASE UNCHANGED vars \/ Start \/ Signal \/ Exit
        BY <1>1, <2>1 DEF vars, Start, Signal, Exit
    <2>2. ASSUME NEW s \in Requests, Respond(s) \/ Elapse(s) PROVE FALSE
        <3>1. s # r
            BY <2>2 DEF Respond, Elapse
        <3>2. code'[r] = code[r]
            BY <2>2, <3>1 DEF Respond, Elapse, FlInv, TypeOK
        <3>3. QED
            BY <1>1, <3>2
    <2>3. ASSUME NEW s \in Requests, Arrive(s), s # r \/ permits[route[s]] > 0
          PROVE  FALSE
        <3>1. code'[r] = code[r]
            BY <2>3 DEF Arrive, FlInv, TypeOK
        <3>2. QED
            BY <1>1, <3>1
    <2>5. ASSUME NEW s \in Requests, Accept(s) \/ Sent(s) PROVE FALSE
        BY <1>1, <2>5 DEF Accept, Sent
    <2>4. QED
        BY <2>1, <2>2, <2>3, <2>5 DEF Next
<1>3. permits[route[r]] = 0
    BY <1>2 DEF FlInv, TypeOK
<1>4. permits[route[r]] + Cardinality(Running(route[r])) = Limit
    BY DEF FlInv, PermitsConserved, TypeOK
<1>5. Cardinality(Running(route[r])) \in Nat
    BY FS_CardinalityType DEF FlInv, PermitsConserved, TypeOK
<1>6. QED
    BY <1>3, <1>4, <1>5

(***************************************************************************)
(* For every set of requests and routes and every limit, load_shed answers *)
(* 503 only while Limit requests of the route are in flight: no path out  *)
(* of a request, the timeout's drop included, leaks a permit.              *)
(***************************************************************************)
THEOREM ShedOnlyWhenFullHolds == Spec => ShedOnlyWhenFull
<1>1. Init => FlInv
    BY InitFlInv
<1>2. FlInv /\ [Next]_vars => FlInv'
    BY NextFlInv
<1>3. FlInv /\ [Next]_vars => [\A r \in Requests :
          st[r] = "reading" /\ code'[r] = "503" => Cardinality(Running(route[r])) = Limit]_vars
    BY ShedStep
<1>4. QED
    BY <1>1, <1>2, <1>3, PTL DEF Spec, ShedOnlyWhenFull
=============================================================================
