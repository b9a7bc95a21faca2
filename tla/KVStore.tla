------------------------------ MODULE KVStore ------------------------------
(***************************************************************************)
(* What a block store promises its callers, spec.md section 4.2: a map     *)
(* from keys to blobs that callers read and write concurrently, each       *)
(* caller with one call in progress.  A get reads the map atomically at   *)
(* some point between its invocation and its return, or fails with a      *)
(* transport error.  A set stores its blob atomically at some point and    *)
(* then returns Ok or a transport error, or fails without storing: set is  *)
(* idempotent, so a caller that sees it fail may store again, and a failed *)
(* set promises nothing about the map.  get fails with KeyNotFound when the *)
(* key is absent and with InvalidBlob when the backend holds an empty      *)
(* body.                                                                   *)
(***************************************************************************)
CONSTANTS Clients, Keys, Blobs, Empty, Nil

Values == Blobs \cup {Empty, Nil}

VARIABLES
    kv,  \* kv[k]: the blob stored under k, Empty, or Nil when absent
    req  \* req[c]: caller c's call ("idle", "busy", or "stored" once a set
         \* has stored its blob) and the result of its last

NoResult == [kind |-> "none", blob |-> Nil]
OtherErr == [kind |-> "Other", blob |-> Nil]

(* The answer to get(k) when the store holds v under k.                    *)
Answer(v) ==
    CASE v = Nil   -> [kind |-> "KeyNotFound", blob |-> Nil]
      [] v = Empty -> [kind |-> "InvalidBlob", blob |-> Nil]
      [] OTHER     -> [kind |-> "Ok", blob |-> v]

Init ==
    /\ kv \in [Keys -> Values]
    /\ req = [c \in Clients |-> [pc |-> "idle", op |-> "get", key |-> CHOOSE k \in Keys : TRUE,
                                 blob |-> Nil, res |-> NoResult]]

Invoke(c, op, k, b) ==
    /\ req[c].pc = "idle"
    /\ req' = [req EXCEPT ![c] = [pc |-> "busy", op |-> op, key |-> k, blob |-> b, res |-> NoResult]]
    /\ UNCHANGED kv

Return(c, r) ==
    req' = [req EXCEPT ![c] = [pc |-> "idle", op |-> @.op, key |-> @.key, blob |-> @.blob, res |-> r]]

Get(c) ==
    /\ req[c].pc = "busy" /\ req[c].op = "get"
    /\ \/ Return(c, Answer(kv[req[c].key]))
       \/ Return(c, OtherErr)
    /\ UNCHANGED kv

(* The set's blob is stored under its key; the call has not returned.    *)
SetApply(c) ==
    /\ req[c].pc = "busy" /\ req[c].op = "set"
    /\ kv' = [kv EXCEPT ![req[c].key] = req[c].blob]
    /\ req' = [req EXCEPT ![c] = [pc |-> "stored", op |-> @.op, key |-> @.key, blob |-> @.blob,
                                  res |-> @.res]]

(* set returns: Ok only once its blob is stored, a transport error either  *)
(* way.                                                                    *)
SetReturn(c) ==
    /\ req[c].pc \in {"busy", "stored"} /\ req[c].op = "set"
    /\ \/ req[c].pc = "stored" /\ Return(c, [kind |-> "Ok", blob |-> Nil])
       \/ Return(c, OtherErr)
    /\ UNCHANGED kv

Next ==
    \E c \in Clients :
        \/ \E k \in Keys : Invoke(c, "get", k, Nil)
        \/ \E k \in Keys, b \in Blobs : Invoke(c, "set", k, b)
        \/ Get(c) \/ SetApply(c) \/ SetReturn(c)

Spec == Init /\ [][Next]_<<kv, req>>
=============================================================================
