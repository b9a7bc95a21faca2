--------------------------- MODULE ZdbStoreProofs ---------------------------
(***************************************************************************)
(* Proofs about ZdbStore for every pool size, every set of callers, keys,  *)
(* blobs and server namespaces, and every URL.                             *)
(*                                                                         *)
(* TypeOK alone is not inductive: Query and Reply use conn[cl[c].slot], so *)
(* the invariant also says that a caller in "query" or "reply" holds a    *)
(* real pool slot.                                                         *)
(* NamespaceIsolation is inductive relative to that invariant: the only    *)
(* step that puts a healthy connection into the pool is Connect, and it    *)
(* does so only when on_acquire returned Ok, which is exactly when the     *)
(* namespace the connection ends up in is the target one.                  *)
(***************************************************************************)
EXTENDS ZdbStore, TLAPS

(* A caller that is about to query, or awaits the reply to its SET, holds  *)
(* a slot of the pool, lent to it alone.                                   *)
QuerySlot ==
    \A c \in Clients : cl[c].pc \in {"query", "reply"} =>
        /\ cl[c].slot \in Slots
        /\ conn[cl[c].slot].status = "lent"
        /\ conn[cl[c].slot].holder = c

(* Only a set awaits the reply to a SET.                                   *)
ReplyIsSet == \A c \in Clients : cl[c].pc = "reply" => cl[c].op = "set"

IInv == TypeOK /\ QuerySlot /\ ReplyIsSet

(* on_acquire lets a connection in only in the namespace the URL targets.  *)
LEMMA AcquiredIsTarget ==
    OnAcquireOk(UrlNamespace(url)) => AcquiredNs(UrlNamespace(url)) = Target
BY DEF OnAcquireOk, AcquiredNs, Target, NeedsSelect, SelectOk

LEMMA GetResultType ==
    ASSUME NEW v \in Values
    PROVE  GetResult(v) \in [kind: Results, blob: Values]
BY DEF GetResult, Results, Values

LEMMA AcquiredNsType ==
    ASSUME NEW n
    PROVE  AcquiredNs(n) \in ServerNamespaces
BY ConstAssumption DEF AcquiredNs, SelectOk

LEMMA InitIInv == Init => IInv
<1> SUFFICES ASSUME Init PROVE IInv
    OBVIOUS
<1>1. ClosedConn \in ConnType
    BY ConstAssumption DEF ClosedConn, ConnType
<1>2. NoResult \in [kind: Results, blob: Values]
    BY DEF NoResult, Results, Values
<1>3. TypeOK
    BY <1>1, <1>2, ConstAssumption DEF Init, TypeOK, ClientType, Slots
<1>4. QuerySlot /\ ReplyIsSet
    BY DEF Init, QuerySlot, ReplyIsSet
<1>5. QED
    BY <1>3, <1>4 DEF IInv

ResType == [kind: Results, blob: Values]

(* Updating the fields of a caller's or a slot's record keeps its type.    *)
LEMMA ClientTakesSlot ==
    ASSUME NEW r \in ClientType, NEW sl \in Slots
    PROVE  /\ [r EXCEPT !.pc = "query", !.slot = sl] \in ClientType
           /\ [r EXCEPT !.pc = "query", !.slot = sl].pc = "query"
           /\ [r EXCEPT !.pc = "query", !.slot = sl].slot = sl
BY DEF ClientType

LEMMA ClientGivesUp ==
    ASSUME NEW r \in ClientType, NEW x \in ResType
    PROVE  /\ [r EXCEPT !.pc = "idle", !.res = x] \in ClientType
           /\ [r EXCEPT !.pc = "idle", !.res = x].pc = "idle"
BY DEF ClientType, ResType

LEMMA ClientReturns ==
    ASSUME NEW r \in ClientType, NEW x \in ResType
    PROVE  /\ Returned(r, x) \in ClientType
           /\ Returned(r, x).pc = "idle"
BY DEF ClientType, ResType, Returned

LEMMA ClientAwaitsReply ==
    ASSUME NEW r \in ClientType
    PROVE  /\ [r EXCEPT !.pc = "reply"] \in ClientType
           /\ [r EXCEPT !.pc = "reply"].pc = "reply"
           /\ [r EXCEPT !.pc = "reply"].slot = r.slot
           /\ [r EXCEPT !.pc = "reply"].op = r.op
BY DEF ClientType

LEMMA ConnMoves ==
    ASSUME NEW r \in ConnType, NEW st \in {"closed", "idle", "lent"},
           NEW h \in Clients \cup {NoClient}
    PROVE  [r EXCEPT !.status = st, !.holder = h] \in ConnType
BY DEF ConnType

LEMMA ConnMovedFields ==
    ASSUME NEW r \in ConnType, NEW st, NEW h
    PROVE  /\ [r EXCEPT !.status = st, !.holder = h].status = st
           /\ [r EXCEPT !.status = st, !.holder = h].holder = h
BY DEF ConnType

LEMMA ConnBreaks ==
    ASSUME NEW r \in ConnType
    PROVE  /\ [r EXCEPT !.broken = TRUE] \in ConnType
           /\ [r EXCEPT !.broken = TRUE].status = r.status
           /\ [r EXCEPT !.broken = TRUE].holder = r.holder
BY DEF ConnType

(* Returning a connection to the pool keeps its namespace and health.     *)
LEMMA ConnReturnKeeps ==
    ASSUME NEW r \in ConnType
    PROVE  /\ [r EXCEPT !.status = "idle", !.holder = NoClient].ns = r.ns
           /\ [r EXCEPT !.status = "idle", !.holder = NoClient].broken = r.broken
           /\ [r EXCEPT !.status = "idle", !.holder = NoClient].status = "idle"
BY DEF ConnType

LEMMA ResultsType ==
    /\ OtherErr \in ResType
    /\ NoResult \in ResType
    /\ [kind |-> "Ok", blob |-> Nil] \in ResType
BY DEF OtherErr, NoResult, ResType, Results, Values

(* Returning from get/set and giving the connection back keeps the types. *)
LEMMA ReleaseTypeOK ==
    ASSUME TypeOK, NEW c \in Clients, NEW sl \in Slots, NEW r \in ResType,
           conn' = GiveBack(sl), cl' = [cl EXCEPT ![c] = Returned(cl[c], r)],
           UNCHANGED <<url, data, restarts>>
    PROVE  TypeOK'
<1>1. conn \in [Slots -> ConnType] /\ cl \in [Clients -> ClientType]
    BY DEF TypeOK
<1>2. conn' \in [Slots -> ConnType]
    <2>1. [conn[sl] EXCEPT !.status = "idle", !.holder = NoClient] \in ConnType
        BY <1>1, ConnMoves
    <2>2. QED
        BY <1>1, <2>1 DEF GiveBack
<1>3. cl' \in [Clients -> ClientType]
    BY <1>1, ClientReturns
<1>4. QED
    BY <1>2, <1>3 DEF TypeOK

(* ... and leaves every other caller's lent slot alone.                    *)
LEMMA ReleaseQuerySlot ==
    ASSUME TypeOK, QuerySlot, NEW c \in Clients, cl[c].pc \in {"query", "reply"},
           NEW r \in ResType,
           conn' = GiveBack(cl[c].slot), cl' = [cl EXCEPT ![c] = Returned(cl[c], r)]
    PROVE  QuerySlot'
<1> SUFFICES ASSUME NEW d \in Clients, cl'[d].pc \in {"query", "reply"}
             PROVE  /\ cl'[d].slot \in Slots
                    /\ conn'[cl'[d].slot].status = "lent"
                    /\ conn'[cl'[d].slot].holder = d
    BY DEF QuerySlot
<1>1. conn \in [Slots -> ConnType] /\ cl \in [Clients -> ClientType]
    BY DEF TypeOK
<1>2. cl[c].slot \in Slots /\ conn[cl[c].slot].holder = c
    BY DEF QuerySlot
<1>3. d # c
    BY <1>1, ClientReturns
<1>4. cl'[d] = cl[d] /\ cl[d].pc \in {"query", "reply"}
    BY <1>1, <1>3
<1>5. cl[d].slot \in Slots /\ conn[cl[d].slot].status = "lent" /\ conn[cl[d].slot].holder = d
    BY <1>4 DEF QuerySlot
<1>6. cl[d].slot # cl[c].slot /\ conn'[cl[d].slot] = conn[cl[d].slot]
    BY <1>1, <1>2, <1>3, <1>5 DEF GiveBack
<1>7. QED
    BY <1>4, <1>5, <1>6

(* ... and keeps the namespace and health of every connection.             *)
LEMMA ReleaseNamespaceIsolation ==
    ASSUME conn \in [Slots -> ConnType], NamespaceIsolation, NEW sl \in Slots,
           conn[sl].status = "lent", conn' = GiveBack(sl), url' = url
    PROVE  NamespaceIsolation'
<1>1. ASSUME NEW t \in Slots
      PROVE  /\ conn'[t].ns = conn[t].ns
             /\ conn'[t].broken = conn[t].broken
             /\ conn'[t].status # "closed" => conn[t].status # "closed"
    <2>1. CASE t = sl
        <3>1. conn'[t] = [conn[sl] EXCEPT !.status = "idle", !.holder = NoClient]
            BY <2>1 DEF GiveBack
        <3>2. /\ [conn[sl] EXCEPT !.status = "idle", !.holder = NoClient].ns = conn[sl].ns
              /\ [conn[sl] EXCEPT !.status = "idle", !.holder = NoClient].broken = conn[sl].broken
              /\ [conn[sl] EXCEPT !.status = "idle", !.holder = NoClient].status = "idle"
            BY ConnReturnKeeps
        <3>3. QED
            BY <2>1, <3>1, <3>2, Zenon
    <2>2. CASE t # sl
        BY <2>2 DEF GiveBack
    <2>3. QED
        BY <2>1, <2>2
<1>2. Target' = Target
    BY DEF Target
<1>3. QED
    <2> SUFFICES ASSUME NEW t \in Slots, conn'[t].status # "closed", ~conn'[t].broken
                 PROVE  conn'[t].ns = Target'
        BY DEF NamespaceIsolation
    <2>1. conn[t].status # "closed" /\ ~conn[t].broken
        BY <1>1
    <2>2. conn[t].ns = Target
        BY <2>1 DEF NamespaceIsolation
    <2>3. QED
        BY <1>1, <1>2, <2>2

LEMMA NextTypeOK == IInv /\ [Next]_vars => TypeOK'
<1> SUFFICES ASSUME TypeOK, QuerySlot, [Next]_vars PROVE TypeOK'
    BY DEF IInv
<1>a. /\ url \in Urls
      /\ data \in [ServerNamespaces -> [Keys -> Values]]
      /\ conn \in [Slots -> ConnType]
      /\ cl \in [Clients -> ClientType]
      /\ restarts \in 0..MaxRestarts
    BY DEF TypeOK
<1>1. ASSUME NEW c \in Clients, NEW op \in {"get", "set"}, NEW k \in Keys,
             NEW b \in Blobs \cup {Nil}, Call(c, op, k, b)
      PROVE TypeOK'
    <2>1. [pc |-> "checkout", op |-> op, key |-> k, blob |-> b, slot |-> 0, res |-> NoResult]
            \in ClientType
        BY ResultsType DEF ClientType, ResType
    <2>2. cl' \in [Clients -> ClientType]
        BY <1>a, <1>1, <2>1 DEF Call
    <2>3. QED
        BY <1>a, <1>1, <2>2 DEF Call, TypeOK
<1>2. ASSUME NEW c \in Clients, StartGet(c) \/ StartSet(c) PROVE TypeOK'
    BY <1>2, <1>1, ConstAssumption DEF StartGet, StartSet
<1>3. ASSUME NEW c \in Clients, CheckoutIdle(c) PROVE TypeOK'
    <2>1. PICK s \in Slots :
            /\ conn' = [conn EXCEPT ![s] = [@ EXCEPT !.status = "lent", !.holder = c]]
            /\ cl' = [cl EXCEPT ![c] = [@ EXCEPT !.pc = "query", !.slot = s]]
        BY <1>3 DEF CheckoutIdle
    <2>2. conn' \in [Slots -> ConnType]
        <3>1. [conn[s] EXCEPT !.status = "lent", !.holder = c] \in ConnType
            BY <1>a, ConnMoves
        <3>2. QED
            BY <1>a, <2>1, <3>1
    <2>3. cl' \in [Clients -> ClientType]
        <3>1. [cl[c] EXCEPT !.pc = "query", !.slot = s] \in ClientType
            BY <1>a, ClientTakesSlot
        <3>2. QED
            BY <1>a, <2>1, <3>1
    <2>4. QED
        BY <1>a, <1>3, <2>2, <2>3 DEF CheckoutIdle, TypeOK
<1>4. ASSUME NEW c \in Clients, DiscardBroken(c) PROVE TypeOK'
    <2>1. ClosedConn \in ConnType
        BY ConstAssumption DEF ClosedConn, ConnType
    <2>2. QED
        BY <1>a, <1>4, <2>1 DEF DiscardBroken, TypeOK
<1>5. ASSUME NEW c \in Clients, Connect(c) PROVE TypeOK'
    <2> DEFINE new == [status |-> "lent", ns |-> AcquiredNs(UrlNamespace(url)),
                       broken |-> FALSE, holder |-> c]
    <2>1. PICK s \in Slots :
            /\ conn' = [conn EXCEPT ![s] = new]
            /\ cl' = [cl EXCEPT ![c] = [@ EXCEPT !.pc = "query", !.slot = s]]
        BY <1>5 DEF Connect
    <2>2. new \in ConnType
        BY AcquiredNsType DEF ConnType
    <2>3. conn' \in [Slots -> ConnType]
        BY <1>a, <2>1, <2>2
    <2>4. cl' \in [Clients -> ClientType]
        <3>1. [cl[c] EXCEPT !.pc = "query", !.slot = s] \in ClientType
            BY <1>a, ClientTakesSlot
        <3>2. QED
            BY <1>a, <2>1, <3>1
    <2>5. QED
        BY <1>a, <1>5, <2>3, <2>4 DEF Connect, TypeOK
<1>6. ASSUME NEW c \in Clients, CheckoutTimeout(c) PROVE TypeOK'
    <2>1. cl' \in [Clients -> ClientType]
        <3>1. [cl[c] EXCEPT !.pc = "idle", !.res = OtherErr] \in ClientType
            BY <1>a, ClientGivesUp, ResultsType
        <3>2. QED
            BY <1>a, <1>6, <3>1 DEF CheckoutTimeout
    <2>2. QED
        BY <1>a, <1>6, <2>1 DEF CheckoutTimeout, TypeOK
<1>7. ASSUME NEW c \in Clients, Query(c) PROVE TypeOK'
    <2> DEFINE s == cl[c].slot
               k == cl[c].key
               ns == conn[s].ns
    <2>1. s \in Slots /\ k \in Keys /\ ns \in ServerNamespaces /\ cl[c].blob \in Values
        BY <1>a, <1>7 DEF Query, QuerySlot, ClientType, ConnType, Values
    <2>2. GetResult(data[ns][k]) \in ResType
        BY <1>a, <2>1, GetResultType DEF ResType
    <2>3. CASE \E r \in ResType : conn' = GiveBack(s) /\ cl' = [cl EXCEPT ![c] = Returned(cl[c], r)]
                                  /\ data' = data
        <3>1. PICK r \in ResType : conn' = GiveBack(s) /\ cl' = [cl EXCEPT ![c] = Returned(cl[c], r)]
                                   /\ data' = data
            BY <2>3
        <3>2. url' = url /\ restarts' = restarts
            BY <1>7 DEF Query
        <3>3. QED
            BY <2>1, <3>1, <3>2, ReleaseTypeOK
    <2>4. CASE /\ data' = [data EXCEPT ![ns] = [@ EXCEPT ![k] = cl[c].blob]]
               /\ cl' = [cl EXCEPT ![c] = [@ EXCEPT !.pc = "reply"]]
               /\ conn' = conn
        <3>1. data' \in [ServerNamespaces -> [Keys -> Values]]
            BY <1>a, <2>1, <2>4
        <3>2. cl' \in [Clients -> ClientType]
            BY <1>a, <2>4, ClientAwaitsReply
        <3>3. QED
            BY <1>a, <1>7, <2>4, <3>1, <3>2 DEF Query, TypeOK
    <2>5. QED
        BY <1>7, <2>2, <2>3, <2>4, ResultsType DEF Query
<1>11. ASSUME NEW c \in Clients, Reply(c) PROVE TypeOK'
    <2>1. cl[c].slot \in Slots
        BY <1>11 DEF Reply, QuerySlot
    <2>2. \E r \in ResType : conn' = GiveBack(cl[c].slot) /\ cl' = [cl EXCEPT ![c] = Returned(cl[c], r)]
        BY <1>11, ResultsType DEF Reply
    <2>3. QED
        BY <1>11, <2>1, <2>2, ReleaseTypeOK DEF Reply, TypeOK
<1>8. CASE Restart
    <2>1. conn' \in [Slots -> ConnType]
        <3>1. \A s \in Slots : [conn[s] EXCEPT !.broken = TRUE] \in ConnType
            BY <1>a, ConnBreaks
        <3>2. QED
            BY <1>a, <1>8, <3>1 DEF Restart
    <2>2. restarts' \in 0..MaxRestarts
        BY <1>a, <1>8, ConstAssumption DEF Restart
    <2>3. QED
        BY <1>a, <1>8, <2>1, <2>2 DEF Restart, TypeOK
<1>9. CASE UNCHANGED vars
    BY <1>9 DEF vars, TypeOK
<1>10. QED
    BY <1>2, <1>3, <1>4, <1>5, <1>6, <1>7, <1>8, <1>9, <1>11 DEF Next

(* Only the holder of a lent slot returns it, and only a closed or idle    *)
(* slot is lent: the slot of a caller in "query" or "reply" stays lent to  *)
(* it.                                                                     *)
LEMMA NextQuerySlot == IInv /\ [Next]_vars => QuerySlot'
<1> SUFFICES ASSUME TypeOK, QuerySlot, [Next]_vars PROVE QuerySlot'
    BY DEF IInv
<1>a. conn \in [Slots -> ConnType] /\ cl \in [Clients -> ClientType]
    BY DEF TypeOK
<1> DEFINE Holds(d) == cl[d].pc \in {"query", "reply"}
           Keeps(d) == /\ cl'[d].slot \in Slots
                       /\ conn'[cl'[d].slot].status = "lent"
                       /\ conn'[cl'[d].slot].holder = d
<1>b. ASSUME NEW d \in Clients, Holds(d)
      PROVE  cl[d].slot \in Slots /\ conn[cl[d].slot].status = "lent" /\ conn[cl[d].slot].holder = d
    BY <1>b DEF QuerySlot
<1>c. SUFFICES ASSUME NEW d \in Clients, cl'[d].pc \in {"query", "reply"} PROVE Keeps(d)
    BY DEF QuerySlot
<1> DEFINE t == cl[d].slot
<1>1. ASSUME NEW c \in Clients, StartGet(c) \/ StartSet(c) PROVE Keeps(d)
    <2>1. PICK op, k, b : Call(c, op, k, b)
        BY <1>1 DEF StartGet, StartSet
    <2>2. d # c
        BY <1>a, <1>c, <2>1 DEF Call
    <2>3. QED
        BY <1>a, <1>b, <1>c, <2>1, <2>2 DEF Call
<1>2. ASSUME NEW c \in Clients, CheckoutIdle(c) \/ Connect(c) PROVE Keeps(d)
    <2>1. PICK s \in Slots :
            /\ conn[s].status \in {"idle", "closed"}
            /\ conn'[s].status = "lent" /\ conn'[s].holder = c
            /\ \A u \in Slots \ {s} : conn'[u] = conn[u]
            /\ cl' = [cl EXCEPT ![c] = [@ EXCEPT !.pc = "query", !.slot = s]]
        <3>1. CASE CheckoutIdle(c)
            <4>1. PICK s \in Slots :
                    /\ conn[s].status = "idle"
                    /\ conn' = [conn EXCEPT ![s] = [@ EXCEPT !.status = "lent", !.holder = c]]
                    /\ cl' = [cl EXCEPT ![c] = [@ EXCEPT !.pc = "query", !.slot = s]]
                BY <3>1 DEF CheckoutIdle
            <4>2. conn'[s].status = "lent" /\ conn'[s].holder = c
                BY <1>a, <4>1, ConnMovedFields
            <4>3. QED
                BY <1>a, <4>1, <4>2
        <3>2. CASE Connect(c)
            <4> DEFINE new == [status |-> "lent", ns |-> AcquiredNs(UrlNamespace(url)),
                               broken |-> FALSE, holder |-> c]
            <4>1. PICK s \in Slots :
                    /\ conn[s].status = "closed"
                    /\ conn' = [conn EXCEPT ![s] = new]
                    /\ cl' = [cl EXCEPT ![c] = [@ EXCEPT !.pc = "query", !.slot = s]]
                BY <3>2 DEF Connect
            <4>2. conn'[s].status = "lent" /\ conn'[s].holder = c
                BY <1>a, <4>1
            <4>3. \A u \in Slots \ {s} : conn'[u] = conn[u]
                BY <1>a, <4>1
            <4>4. QED
                BY <4>1, <4>2, <4>3
        <3>3. QED
            BY <1>2, <3>1, <3>2
    <2>2. CASE d = c
        <3>1. cl'[d].slot = s
            BY <1>a, <2>1, <2>2, ClientTakesSlot
        <3>2. QED
            BY <2>1, <2>2, <3>1
    <2>3. CASE d # c
        <3>1. cl'[d] = cl[d] /\ Holds(d)
            BY <1>a, <1>c, <2>1, <2>3
        <3>2. t # s /\ conn'[t] = conn[t]
            BY <1>a, <1>b, <2>1, <3>1
        <3>3. QED
            BY <1>b, <3>1, <3>2
    <2>4. QED
        BY <2>2, <2>3
<1>3. ASSUME NEW c \in Clients, DiscardBroken(c) PROVE Keeps(d)
    <2>1. PICK s \in Slots :
            /\ conn[s].status = "idle"
            /\ conn' = [conn EXCEPT ![s] = ClosedConn]
            /\ cl' = cl
        BY <1>3 DEF DiscardBroken
    <2>2. Holds(d) /\ t # s /\ conn'[t] = conn[t]
        BY <1>a, <1>b, <1>c, <2>1
    <2>3. QED
        BY <1>b, <2>1, <2>2
<1>4. ASSUME NEW c \in Clients, CheckoutTimeout(c) PROVE Keeps(d)
    <2>1. cl' = [cl EXCEPT ![c] = [@ EXCEPT !.pc = "idle", !.res = OtherErr]] /\ conn' = conn
        BY <1>4 DEF CheckoutTimeout
    <2>2. d # c
        BY <1>a, <1>c, <2>1, ClientGivesUp, ResultsType
    <2>3. QED
        BY <1>a, <1>b, <1>c, <2>1, <2>2
<1>5. ASSUME NEW c \in Clients, Query(c) PROVE Keeps(d)
    <2> DEFINE s == cl[c].slot
    <2>0. Holds(c)
        BY <1>5 DEF Query
    <2>1. GetResult(data[conn[s].ns][cl[c].key]) \in ResType
        BY <1>a, <1>b, <2>0, GetResultType DEF ResType, TypeOK, ClientType, ConnType
    <2>2. CASE \E r \in ResType : conn' = GiveBack(s) /\ cl' = [cl EXCEPT ![c] = Returned(cl[c], r)]
        <3>1. PICK r \in ResType : conn' = GiveBack(s) /\ cl' = [cl EXCEPT ![c] = Returned(cl[c], r)]
            BY <2>2
        <3>2. QuerySlot'
            BY <2>0, <3>1, ReleaseQuerySlot
        <3>3. QED
            BY <1>c, <3>2 DEF QuerySlot
    <2>3. CASE cl' = [cl EXCEPT ![c] = [@ EXCEPT !.pc = "reply"]] /\ conn' = conn
        <3>1. CASE d = c
            BY <1>a, <1>b, <2>0, <2>3, <3>1, ClientAwaitsReply
        <3>2. CASE d # c
            BY <1>a, <1>b, <1>c, <2>3, <3>2
        <3>3. QED
            BY <3>1, <3>2
    <2>4. QED
        BY <1>5, <2>1, <2>2, <2>3, ResultsType DEF Query
<1>6. ASSUME NEW c \in Clients, Reply(c) PROVE Keeps(d)
    <2>1. Holds(c)
        BY <1>6 DEF Reply
    <2>2. \E r \in ResType : conn' = GiveBack(cl[c].slot) /\ cl' = [cl EXCEPT ![c] = Returned(cl[c], r)]
        BY <1>6, ResultsType DEF Reply
    <2>3. PICK r \in ResType : conn' = GiveBack(cl[c].slot) /\ cl' = [cl EXCEPT ![c] = Returned(cl[c], r)]
        BY <2>2
    <2>4. QuerySlot'
        BY <2>1, <2>3, ReleaseQuerySlot
    <2>5. QED
        BY <1>c, <2>4 DEF QuerySlot
<1>7. CASE Restart
    <2>1. cl' = cl /\ Holds(d)
        BY <1>7, <1>c DEF Restart
    <2>2. conn'[t] = [conn[t] EXCEPT !.broken = TRUE]
        BY <1>7, <1>a, <1>b, <2>1 DEF Restart
    <2>3. conn'[t].status = conn[t].status /\ conn'[t].holder = conn[t].holder
        BY <1>a, <1>b, <2>1, <2>2, ConnBreaks
    <2>4. QED
        BY <1>b, <2>1, <2>3
<1>8. CASE UNCHANGED vars
    BY <1>8, <1>b, <1>c DEF vars
<1>9. QED
    BY <1>1, <1>2, <1>3, <1>4, <1>5, <1>6, <1>7, <1>8 DEF Next

(* Only Query's SET branch puts a caller in "reply".                       *)
LEMMA NextReplyIsSet == IInv /\ [Next]_vars => ReplyIsSet'
<1> SUFFICES ASSUME TypeOK, QuerySlot, ReplyIsSet, [Next]_vars,
                    NEW d \in Clients, cl'[d].pc = "reply"
             PROVE  cl'[d].op = "set"
    BY DEF IInv, ReplyIsSet
<1>a. cl \in [Clients -> ClientType]
    BY DEF TypeOK
<1>b. cl[d].pc = "reply" => cl[d].op = "set"
    BY DEF ReplyIsSet
<1>1. ASSUME NEW c \in Clients, StartGet(c) \/ StartSet(c) PROVE cl'[d].op = "set"
    <2>1. PICK op, k, b : Call(c, op, k, b)
        BY <1>1 DEF StartGet, StartSet
    <2>2. QED
        BY <1>a, <1>b, <2>1 DEF Call
<1>2. ASSUME NEW c \in Clients, CheckoutIdle(c) \/ Connect(c) PROVE cl'[d].op = "set"
    <2>1. PICK sl \in Slots : cl' = [cl EXCEPT ![c] = [@ EXCEPT !.pc = "query", !.slot = sl]]
        BY <1>2 DEF CheckoutIdle, Connect
    <2>2. QED
        BY <1>a, <1>b, <2>1, ClientTakesSlot
<1>3. ASSUME NEW c \in Clients, DiscardBroken(c) \/ CheckoutTimeout(c) PROVE cl'[d].op = "set"
    <2>1. cl' = cl \/ cl' = [cl EXCEPT ![c] = [@ EXCEPT !.pc = "idle", !.res = OtherErr]]
        BY <1>3 DEF DiscardBroken, CheckoutTimeout
    <2>2. QED
        BY <1>a, <1>b, <2>1, ClientGivesUp, ResultsType
<1>4. ASSUME NEW c \in Clients, Query(c) \/ Reply(c) PROVE cl'[d].op = "set"
    <2>1. GetResult(data[conn[cl[c].slot].ns][cl[c].key]) \in ResType
        BY <1>4, GetResultType DEF Query, Reply, QuerySlot, TypeOK, ClientType, ConnType, ResType
    <2>2. CASE \E r \in ResType : cl' = [cl EXCEPT ![c] = Returned(cl[c], r)]
        BY <1>a, <1>b, <2>2, ClientReturns
    <2>3. CASE cl[c].op = "set" /\ cl' = [cl EXCEPT ![c] = [@ EXCEPT !.pc = "reply"]]
        BY <1>a, <1>b, <2>3, ClientAwaitsReply
    <2>4. QED
        BY <1>4, <2>1, <2>2, <2>3, ResultsType DEF Query, Reply
<1>5. CASE Restart \/ UNCHANGED vars
    BY <1>5, <1>b DEF Restart, vars
<1>6. QED
    BY <1>1, <1>2, <1>3, <1>4, <1>5 DEF Next

(* The strengthened invariant is inductive.                                *)
LEMMA NextIInv == IInv /\ [Next]_vars => IInv'
BY NextTypeOK, NextQuerySlot, NextReplyIsSet DEF IInv

(* ZdbStore is type-correct for every value of the constants.              *)
THEOREM TypeCorrect == Spec => []TypeOK
<1>1. Init => IInv
    BY InitIInv
<1>2. IInv /\ [Next]_vars => IInv'
    BY NextIInv
<1>3. IInv => TypeOK
    BY DEF IInv
<1>4. QED
    BY <1>1, <1>2, <1>3, PTL DEF Spec

(* Only Connect makes a healthy connection, and only in the target        *)
(* namespace; returning, breaking or dropping a connection keeps this.     *)
LEMMA NextNamespaceIsolation ==
    IInv /\ NamespaceIsolation /\ [Next]_vars => NamespaceIsolation'
<1> SUFFICES ASSUME IInv, NamespaceIsolation, [Next]_vars
             PROVE  NamespaceIsolation'
    BY NextIInv DEF IInv
<1>a. conn \in [Slots -> ConnType] /\ QuerySlot
    BY DEF IInv, TypeOK
<1>1. ASSUME NEW c \in Clients, StartGet(c) \/ StartSet(c) PROVE NamespaceIsolation'
    BY <1>1 DEF StartGet, StartSet, Call, NamespaceIsolation, Target
<1>2. ASSUME NEW c \in Clients, CheckoutIdle(c) PROVE NamespaceIsolation'
    BY <1>2 DEF CheckoutIdle, NamespaceIsolation, Target
<1>3. ASSUME NEW c \in Clients, DiscardBroken(c) PROVE NamespaceIsolation'
    BY <1>3 DEF DiscardBroken, NamespaceIsolation, Target, ClosedConn
<1>4. ASSUME NEW c \in Clients, Connect(c) PROVE NamespaceIsolation'
    <2>1. AcquiredNs(UrlNamespace(url)) = Target
        BY <1>4, AcquiredIsTarget DEF Connect
    <2>2. QED
        BY <1>4, <2>1 DEF Connect, NamespaceIsolation, Target
<1>5. ASSUME NEW c \in Clients, CheckoutTimeout(c) PROVE NamespaceIsolation'
    BY <1>5 DEF CheckoutTimeout, NamespaceIsolation, Target
<1>6. ASSUME NEW c \in Clients, Query(c) \/ Reply(c) PROVE NamespaceIsolation'
    <2>1. cl[c].slot \in Slots /\ conn[cl[c].slot].status = "lent" /\ url' = url
        BY <1>a, <1>6 DEF Query, Reply, QuerySlot
    <2>2. CASE conn' = GiveBack(cl[c].slot)
        BY <1>a, <2>1, <2>2, ReleaseNamespaceIsolation
    <2>3. CASE conn' = conn
        BY <2>1, <2>3 DEF NamespaceIsolation, Target
    <2>4. QED
        BY <1>6, <2>2, <2>3 DEF Query, Reply
<1>7. CASE Restart
    <2> SUFFICES ASSUME NEW t \in Slots, conn'[t].status # "closed", ~conn'[t].broken
                 PROVE  conn'[t].ns = Target'
        BY DEF NamespaceIsolation
    <2>1. CASE conn[t].status = "closed"
        BY <1>7, <2>1 DEF Restart
    <2>2. CASE conn[t].status # "closed"
        <3>1. conn'[t] = [conn[t] EXCEPT !.broken = TRUE]
            BY <1>7, <2>2 DEF Restart
        <3>2. conn'[t].broken
            BY <1>a, <3>1 DEF ConnType
        <3>3. QED
            BY <3>2
    <2>3. QED
        BY <2>1, <2>2
<1>8. CASE UNCHANGED vars
    BY <1>8 DEF vars, NamespaceIsolation, Target
<1>9. QED
    BY <1>1, <1>2, <1>3, <1>4, <1>5, <1>6, <1>7, <1>8 DEF Next

(* The pool never holds a healthy connection outside the URL's namespace, *)
(* whatever the pool size, the URL and the number of zdb restarts.         *)
THEOREM NamespaceIsolationHolds == Spec => []NamespaceIsolation
<1> DEFINE Inv == IInv /\ NamespaceIsolation
<1>1. Init => Inv
    BY InitIInv DEF Init, NamespaceIsolation, ClosedConn
<1>2. Inv /\ [Next]_vars => Inv'
    BY NextIInv, NextNamespaceIsolation
<1>3. Inv => NamespaceIsolation
    OBVIOUS
<1>4. QED
    BY <1>1, <1>2, <1>3, PTL DEF Spec
=============================================================================
