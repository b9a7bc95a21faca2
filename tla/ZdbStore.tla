------------------------------ MODULE ZdbStore ------------------------------
(***************************************************************************)
(* The 0-db ("zdb") block store of rfs, src/src/store/zdb.rs, as used by   *)
(* many concurrent callers (the FUSE adapter's tasks).                     *)
(*                                                                         *)
(* The store owns a bb8 pool of at most PoolMax connections to one zdb     *)
(* server.  A connection is opened lazily by a caller of pool.get(); right *)
(* after it is opened, WithNamespace::on_acquire selects the namespace     *)
(* named by the URL (unless there is none or it is "default"), and a       *)
(* failed SELECT discards the connection.  An idle connection is tested    *)
(* (PING) before it is lent again, and a broken one is dropped.  A zdb     *)
(* restart keeps the data but breaks every open connection and forgets     *)
(* their selected namespace, so a reconnect must select it again.          *)
(*                                                                         *)
(* Data is abstracted: keys and blobs are model values, Empty is the empty *)
(* body and Nil the absent key.                                            *)
(***************************************************************************)
EXTENDS Naturals, Sequences, FiniteSets

CONSTANTS
    Clients,          \* concurrent callers of get/set
    Keys,             \* block keys
    Blobs,            \* non-empty blob bodies a caller may store
    Empty,            \* the empty body (a corrupted or truncated blob)
    Nil,              \* reply of GET for an absent key
    NoNs,             \* get_connection_info found no namespace
    NoClient,         \* holder of a connection nobody holds
    ServerNamespaces, \* namespaces that exist on the zdb server
    Urls,             \* store URLs: [host: BOOLEAN, path: Seq(STRING)]
    PoolMax,          \* Pool::builder().max_size(20)
    MaxRestarts       \* bound on zdb restarts

ASSUME ConstAssumption ==
    /\ PoolMax \in Nat \ {0}
    /\ MaxRestarts \in Nat
    /\ "default" \in ServerNamespaces
    /\ NoNs \notin STRING
    /\ Empty \notin Blobs /\ Nil \notin Blobs /\ Empty # Nil
    /\ NoClient \notin Clients
    /\ Keys # {}

Slots == 1..PoolMax
Values == Blobs \cup {Empty, Nil}
Results == {"none", "Ok", "KeyNotFound", "InvalidBlob", "Other"}

VARIABLES
    url,      \* the URL the store was made from (fixed after make)
    data,     \* data[ns][k]: what the server holds in namespace ns
    conn,     \* conn[s]: pool slot s
    cl,       \* cl[c]: what caller c is doing
    restarts  \* zdb restarts so far

vars == <<url, data, conn, cl, restarts>>

(***************************************************************************)
(* get_connection_info: a URL with a host is a TCP address and its         *)
(* namespace is the last path segment, if it has a path at all; a URL      *)
(* without a host is a unix socket and has no namespace.                   *)
(***************************************************************************)
UrlNamespace(u) ==
    IF u.host /\ u.path # <<>> THEN u.path[Len(u.path)] ELSE NoNs

(***************************************************************************)
(* WithNamespace::on_acquire issues SELECT only for a namespace other than *)
(* "default".  SELECT succeeds when the namespace exists on the server.    *)
(***************************************************************************)
NeedsSelect(ns) == ns # NoNs /\ ns # "default"
SelectOk(ns) == ns \in ServerNamespaces

(* The namespace a fresh connection is in after on_acquire: it starts in   *)
(* "default" and moves only by a successful SELECT.                        *)
AcquiredNs(ns) == IF NeedsSelect(ns) /\ SelectOk(ns) THEN ns ELSE "default"

(* Mutant: on_acquire logs a failed SELECT and returns Ok(()) anyway.      *)
OnAcquireOkIgnoringError(ns) == TRUE

(* on_acquire returns Ok, so the new connection joins the pool.            *)
OnAcquireOk(ns) == ~NeedsSelect(ns) \/ SelectOk(ns)

(* The namespace every command of this store is meant to run in.           *)
Target == IF NeedsSelect(UrlNamespace(url)) THEN UrlNamespace(url) ELSE "default"

(***************************************************************************)
(* ZdbStore::get after the reply: None is KeyNotFound, an empty body is    *)
(* InvalidBlob, anything else is returned.                                 *)
(***************************************************************************)
(* Mutant: the is_empty() check is missing.                                *)
GetResultNoEmptyCheck(v) ==
    IF v = Nil THEN [kind |-> "KeyNotFound", blob |-> Nil] ELSE [kind |-> "Ok", blob |-> v]

GetResult(v) ==
    IF v = Nil THEN [kind |-> "KeyNotFound", blob |-> Nil]
    ELSE IF v = Empty THEN [kind |-> "InvalidBlob", blob |-> Nil]
    ELSE [kind |-> "Ok", blob |-> v]

NoResult == [kind |-> "none", blob |-> Nil]
OtherErr == [kind |-> "Other", blob |-> Nil]

ConnType == [status: {"closed", "idle", "lent"}, ns: ServerNamespaces,
             broken: BOOLEAN, holder: Clients \cup {NoClient}]
ClientType == [pc: {"idle", "checkout", "query", "reply"}, op: {"get", "set"},
               key: Keys, blob: Blobs \cup {Nil}, slot: Slots \cup {0},
               res: [kind: Results, blob: Values]]

TypeOK ==
    /\ url \in Urls
    /\ data \in [ServerNamespaces -> [Keys -> Values]]
    /\ conn \in [Slots -> ConnType]
    /\ cl \in [Clients -> ClientType]
    /\ restarts \in 0..MaxRestarts

ClosedConn == [status |-> "closed", ns |-> "default", broken |-> FALSE,
               holder |-> NoClient]

(* The server may hold anything when the store is made, corrupt blobs too. *)
Init ==
    /\ url \in Urls
    /\ data \in [ServerNamespaces -> [Keys -> Values]]
    /\ conn = [s \in Slots |-> ClosedConn]
    /\ cl = [c \in Clients |-> [pc |-> "idle", op |-> "get", key |-> CHOOSE k \in Keys : TRUE,
                                blob |-> Nil, slot |-> 0, res |-> NoResult]]
    /\ restarts = 0
-----------------------------------------------------------------------------
(* A caller enters ZdbStore::get(key) or ZdbStore::set(key, blob).         *)
Call(c, op, k, b) ==
    /\ cl[c].pc = "idle"
    /\ cl' = [cl EXCEPT ![c] = [pc |-> "checkout", op |-> op, key |-> k, blob |-> b,
                                slot |-> 0, res |-> NoResult]]
    /\ UNCHANGED <<url, data, conn, restarts>>

StartGet(c) == \E k \in Keys : Call(c, "get", k, Nil)
StartSet(c) == \E k \in Keys, b \in Blobs : Call(c, "set", k, b)

(* pool.get() lends an idle connection that passes the PING test.          *)
CheckoutIdle(c) ==
    /\ cl[c].pc = "checkout"
    /\ \E s \in Slots :
        /\ conn[s].status = "idle"
        /\ ~conn[s].broken
        /\ conn' = [conn EXCEPT ![s] = [@ EXCEPT !.status = "lent", !.holder = c]]
        /\ cl' = [cl EXCEPT ![c] = [@ EXCEPT !.pc = "query", !.slot = s]]
    /\ UNCHANGED <<url, data, restarts>>

(* pool.get() drops an idle connection that fails the PING test.           *)
DiscardBroken(c) ==
    /\ cl[c].pc = "checkout"
    /\ \E s \in Slots :
        /\ conn[s].status = "idle"
        /\ conn[s].broken
        /\ conn' = [conn EXCEPT ![s] = ClosedConn]
    /\ UNCHANGED <<url, data, cl, restarts>>

(* pool.get() opens a connection in a free slot; on_acquire runs and, when *)
(* it returns Ok, the connection is lent in the namespace it selected.     *)
(* When it fails the connection is dropped and bb8 retries, which changes  *)
(* no state.                                                               *)
Connect(c) ==
    /\ cl[c].pc = "checkout"
    /\ OnAcquireOk(UrlNamespace(url))
    /\ \E s \in Slots :
        /\ conn[s].status = "closed"
        /\ conn' = [conn EXCEPT ![s] = [status |-> "lent", ns |-> AcquiredNs(UrlNamespace(url)),
                                        broken |-> FALSE, holder |-> c]]
        /\ cl' = [cl EXCEPT ![c] = [@ EXCEPT !.pc = "query", !.slot = s]]
    /\ UNCHANGED <<url, data, restarts>>

(* pool.get() gives up after its connection timeout: "failed to get        *)
(* connection".  It waits only while no healthy idle connection exists.    *)
CheckoutTimeout(c) ==
    /\ cl[c].pc = "checkout"
    /\ ~\E s \in Slots : conn[s].status = "idle" /\ ~conn[s].broken
    /\ cl' = [cl EXCEPT ![c] = [@ EXCEPT !.pc = "idle", !.res = OtherErr]]
    /\ UNCHANGED <<url, data, conn, restarts>>

(* Dropping the pooled connection puts it back idle.                       *)
GiveBack(s) == [conn EXCEPT ![s] = [@ EXCEPT !.status = "idle", !.holder = NoClient]]

(* get/set returns r.                                                      *)
Returned(x, r) == [x EXCEPT !.pc = "idle", !.slot = 0, !.res = r]

(* con.get(key) / con.set(key, blob) on the lent connection.  On a        *)
(* connection broken by a zdb restart the command fails: "failed to get/  *)
(* set blob".  A GET is answered and the connection dropped back into the  *)
(* pool (bb8-redis never reports it broken, so a broken one goes back      *)
(* idle).  A SET is applied by the server when it arrives, and the caller  *)
(* still awaits its reply (Reply).                                         *)
Query(c) ==
    LET s == cl[c].slot
        k == cl[c].key
        ns == conn[s].ns
    IN
    /\ cl[c].pc = "query"
    /\ \/ /\ conn[s].broken
          /\ conn' = GiveBack(s)
          /\ cl' = [cl EXCEPT ![c] = Returned(cl[c], OtherErr)]
          /\ UNCHANGED data
       \/ /\ ~conn[s].broken
          /\ cl[c].op = "get"
          /\ conn' = GiveBack(s)
          /\ cl' = [cl EXCEPT ![c] = Returned(cl[c], GetResult(data[ns][k]))]
          /\ UNCHANGED data
       \/ /\ ~conn[s].broken
          /\ cl[c].op = "set"
          /\ data' = [data EXCEPT ![ns] = [@ EXCEPT ![k] = cl[c].blob]]
          /\ cl' = [cl EXCEPT ![c] = [@ EXCEPT !.pc = "reply"]]
          /\ UNCHANGED conn
    /\ UNCHANGED <<url, restarts>>

(* The reply to SET arrives and set returns Ok, or a zdb restart since the *)
(* SET has reset the connection and set returns "failed to set blob" with  *)
(* the blob stored.  The connection goes back into the pool.               *)
Reply(c) ==
    LET s == cl[c].slot IN
    /\ cl[c].pc = "reply"
    /\ conn' = GiveBack(s)
    /\ cl' = [cl EXCEPT ![c] = Returned(cl[c], IF conn[s].broken THEN OtherErr
                                                ELSE [kind |-> "Ok", blob |-> Nil])]
    /\ UNCHANGED <<url, data, restarts>>

(* The zdb server restarts: data persists, every open connection breaks.   *)
Restart ==
    /\ restarts < MaxRestarts
    /\ conn' = [s \in Slots |-> IF conn[s].status = "closed" THEN conn[s]
                                ELSE [conn[s] EXCEPT !.broken = TRUE]]
    /\ restarts' = restarts + 1
    /\ UNCHANGED <<url, data, cl>>

Next ==
    \/ \E c \in Clients :
        \/ StartGet(c) \/ StartSet(c)
        \/ CheckoutIdle(c) \/ DiscardBroken(c) \/ Connect(c) \/ CheckoutTimeout(c)
        \/ Query(c) \/ Reply(c)
    \/ Restart

Spec == Init /\ [][Next]_vars
-----------------------------------------------------------------------------
(***************************************************************************)
(* Namespace isolation: every healthy connection in the pool, idle or lent *)
(* to a caller, is in the namespace the URL names.  It is about            *)
(* on_acquire running on every (re)connection after a zdb restart, and     *)
(* about a failed SELECT never letting a connection in that still sits in  *)
(* "default".                                                              *)
(***************************************************************************)
NamespaceIsolation ==
    \A s \in Slots : conn[s].status # "closed" /\ ~conn[s].broken => conn[s].ns = Target

(* The key-value store the callers see: the blobs of the URL's namespace   *)
(* (none when the server has no such namespace), and each caller's call    *)
(* with its result.                                                        *)
TargetData == IF Target \in ServerNamespaces THEN data[Target] ELSE [k \in Keys |-> Nil]

(* A caller's call as the store's interface sees it.                       *)
(* A set whose SET the server has applied has stored its blob.            *)
AbsCall(x) == [pc |-> IF x.pc = "idle" THEN "idle" ELSE IF x.pc = "reply" THEN "stored" ELSE "busy",
               op |-> x.op, key |-> x.key, blob |-> x.blob, res |-> x.res]

KV == INSTANCE KVStore WITH kv <- TargetData, req <- [c \in Clients |-> AbsCall(cl[c])]

(***************************************************************************)
(* ZdbStore implements the store of spec.md section 4.2 over the URL's     *)
(* namespace: every get returns what that namespace holds under the key    *)
(* (KeyNotFound when absent, InvalidBlob when empty) or a transport error, *)
(* every set that returns Ok has written that namespace, and a failed get  *)
(* or set has written nothing but, at most, the set's own blob.  It is     *)
(* about ZdbStore::get's reply handling, about the namespace of the pooled *)
(* connection a call runs on, and about calls on connections broken by a   *)
(* zdb restart, before the command or between a SET and its reply.         *)
(***************************************************************************)
ImplementsKVStore == KV!Spec
=============================================================================
