\* Admission, timeout and graceful shutdown of fl-server.  The server may
\* stop for good: after a failed start or exit, idle with every request
\* answered and no signal, or draining with a request that arrived after
\* the signal never accepted, so deadlock is not checked.
CONSTANTS
    r1 = r1
    r2 = r2
    r3 = r3
    rtA = rtA
    rtB = rtB
    Requests <- MCRequests
    Routes <- MCRoutes
    Limit <- MCLimit
SPECIFICATION Spec
INVARIANT TypeOK PermitsConserved
PROPERTY ShedOnlyWhenFull
CHECK_DEADLOCK FALSE
