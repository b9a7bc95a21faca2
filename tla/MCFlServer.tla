----------------------------- MODULE MCFlServer -----------------------------
(* Three requests over two routes with one permit each: a route can be    *)
(* full while the other is not, and a request can be shed, time out, be    *)
(* answered, still run or still be read or written when the signal comes. *)
EXTENDS FlServer

CONSTANTS r1, r2, r3, rtA, rtB

MCRequests == {r1, r2, r3}
MCRoutes == {rtA, rtB}
MCLimit == 1
=============================================================================
