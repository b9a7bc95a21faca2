---------------------------- MODULE ZdbRefinement ----------------------------
(***************************************************************************)
(* ZdbStore implements KVStore under the mapping of ZdbStore: the abstract *)
(* map is the target namespace's data, and a caller's call is busy from    *)
(* ZdbStore::get/set's entry to its return.                                *)
(*                                                                         *)
(* Checking out or opening a connection, dropping a broken one and a zdb   *)
(* restart are stutters of the abstract store.  A GET is the abstract Get, *)
(* the server applying a SET is the abstract SetApply, and set returning,  *)
(* after its reply or with a transport error, is the abstract SetReturn:   *)
(* it is here that NamespaceIsolation is needed, since a healthy lent      *)
(* connection must run its command in the target namespace.               *)
(***************************************************************************)
EXTENDS ZdbStoreProofs

AR == [c \in Clients |-> AbsCall(cl[c])]

(* Changing one caller changes only its call in the mapping.               *)
LEMMA AbsUpdate ==
    ASSUME NEW c \in Clients, NEW r, cl \in [Clients -> ClientType],
           cl' = [cl EXCEPT ![c] = r]
    PROVE  AR' = [AR EXCEPT ![c] = AbsCall(r)]
BY DEF AR

(* Taking a connection does not show in the caller's call.                 *)
LEMMA AbsTakeSlot ==
    ASSUME NEW r \in ClientType, r.pc = "checkout", NEW sl
    PROVE  AbsCall([r EXCEPT !.pc = "query", !.slot = sl]) = AbsCall(r)
BY DEF AbsCall, ClientType

(* Returning from get/set is the abstract Return.                          *)
LEMMA AbsReturn ==
    ASSUME NEW r \in ClientType, NEW x
    PROVE  /\ AbsCall(Returned(r, x))
                = [pc |-> "idle", op |-> AbsCall(r).op, key |-> AbsCall(r).key,
                   blob |-> AbsCall(r).blob, res |-> x]
           /\ AbsCall([r EXCEPT !.pc = "idle", !.res = x])
                = [pc |-> "idle", op |-> AbsCall(r).op, key |-> AbsCall(r).key,
                   blob |-> AbsCall(r).blob, res |-> x]
<1> DEFINE y1 == Returned(r, x)
           y2 == [r EXCEPT !.pc = "idle", !.res = x]
<1>1. AbsCall(r).op = r.op /\ AbsCall(r).key = r.key /\ AbsCall(r).blob = r.blob
    BY DEF AbsCall
<1>2. y1.pc = "idle" /\ y1.op = r.op /\ y1.key = r.key /\ y1.blob = r.blob /\ y1.res = x
    BY DEF ClientType, Returned
<1>3. y2.pc = "idle" /\ y2.op = r.op /\ y2.key = r.key /\ y2.blob = r.blob /\ y2.res = x
    BY DEF ClientType
<1>4. QED
    BY <1>1, <1>2, <1>3 DEF AbsCall

(* The server applying a caller's SET is the abstract store taking it.    *)
LEMMA AbsStored ==
    ASSUME NEW r \in ClientType, r.pc = "query"
    PROVE  AbsCall([r EXCEPT !.pc = "reply"])
             = [pc |-> "stored", op |-> AbsCall(r).op, key |-> AbsCall(r).key,
                blob |-> AbsCall(r).blob, res |-> AbsCall(r).res]
<1> DEFINE y == [r EXCEPT !.pc = "reply"]
<1>1. y.pc = "reply" /\ y.op = r.op /\ y.key = r.key /\ y.blob = r.blob /\ y.res = r.res
    BY DEF ClientType
<1>2. QED
    BY <1>1 DEF AbsCall

LEMMA AnswerIsGetResult ==
    ASSUME NEW v
    PROVE  GetResult(v) = KV!Answer(v)
BY ConstAssumption DEF GetResult, KV!Answer

LEMMA InitRefines == Init => KV!Init
<1> SUFFICES ASSUME Init PROVE KV!Init
    OBVIOUS
<1>1. TargetData \in [Keys -> KV!Values]
    BY DEF Init, TargetData, Values, KV!Values
<1>2. AR = [c \in Clients |-> [pc |-> "idle", op |-> "get", key |-> CHOOSE k \in Keys : TRUE,
                               blob |-> Nil, res |-> KV!NoResult]]
    BY DEF Init, AR, AbsCall, NoResult, KV!NoResult
<1>3. QED
    BY <1>1, <1>2 DEF KV!Init, AR

(* A caller's return from get/set, with a transport error or a reply, is  *)
(* the abstract Return with the same result.                               *)
LEMMA ReturnStep ==
    ASSUME NEW c \in Clients, NEW x, cl \in [Clients -> ClientType],
           \/ cl' = [cl EXCEPT ![c] = Returned(cl[c], x)]
           \/ cl' = [cl EXCEPT ![c] = [cl[c] EXCEPT !.pc = "idle", !.res = x]]
    PROVE  KV!Return(c, x)
<1>1. AR' = [AR EXCEPT ![c] = [pc |-> "idle", op |-> AR[c].op, key |-> AR[c].key,
                                blob |-> AR[c].blob, res |-> x]]
    <2>1. AR[c] = AbsCall(cl[c])
        BY DEF AR
    <2>0. cl[c] \in ClientType
        OBVIOUS
    <2> DEFINE ret == [pc |-> "idle", op |-> AbsCall(cl[c]).op, key |-> AbsCall(cl[c]).key,
                       blob |-> AbsCall(cl[c]).blob, res |-> x]
    <2>2. CASE cl' = [cl EXCEPT ![c] = Returned(cl[c], x)]
        <3>1. AR' = [AR EXCEPT ![c] = AbsCall(Returned(cl[c], x))]
            BY <2>2, AbsUpdate
        <3>2. AbsCall(Returned(cl[c], x)) = ret
            BY <2>0, AbsReturn
        <3>3. QED
            BY <2>1, <3>1, <3>2
    <2>3. CASE cl' = [cl EXCEPT ![c] = [cl[c] EXCEPT !.pc = "idle", !.res = x]]
        <3>1. AR' = [AR EXCEPT ![c] = AbsCall([cl[c] EXCEPT !.pc = "idle", !.res = x])]
            BY <2>3, AbsUpdate
        <3>2. AbsCall([cl[c] EXCEPT !.pc = "idle", !.res = x]) = ret
            BY <2>0, AbsReturn
        <3>3. QED
            BY <2>1, <3>1, <3>2
    <2>4. QED
        BY <2>2, <2>3
<1>2. QED
    BY <1>1 DEF KV!Return, AR

(* Steps that change neither the target's data nor any caller's call.     *)
LEMMA Stutter ==
    ASSUME url' = url, data' = data, AR' = AR
    PROVE  [KV!Next]_<<TargetData, AR>>
BY DEF TargetData, Target

(* A get or set that returns without its blob stored, with a GET's answer *)
(* or a transport error, is the abstract Get or a failed SetReturn.        *)
ReturnsBusy(c, x) ==
    /\ cl[c].pc \in {"checkout", "query"}
    /\ \/ cl' = [cl EXCEPT ![c] = Returned(cl[c], x)]
       \/ cl' = [cl EXCEPT ![c] = [cl[c] EXCEPT !.pc = "idle", !.res = x]]
    /\ TargetData' = TargetData
    /\ cl[c].op = "get" => x = KV!Answer(TargetData[cl[c].key])
    /\ cl[c].op = "set" => x = KV!OtherErr

LEMMA ReturnBusy ==
    ASSUME cl \in [Clients -> ClientType], NEW c \in Clients, NEW x, ReturnsBusy(c, x)
    PROVE  [KV!Next]_<<TargetData, AR>>
<1>1. KV!Return(c, x)
    BY ReturnStep DEF ReturnsBusy
<1>2. AR[c].pc = "busy" /\ AR[c].op = cl[c].op /\ AR[c].key = cl[c].key
      /\ cl[c].op \in {"get", "set"}
    BY DEF AR, AbsCall, ClientType, ReturnsBusy
<1>3. CASE cl[c].op = "get"
    <2>1. KV!Get(c)
        BY <1>1, <1>2, <1>3 DEF KV!Get, AR, ReturnsBusy
    <2>2. QED
        BY <2>1 DEF KV!Next
<1>4. CASE cl[c].op = "set"
    <2>1. KV!SetReturn(c)
        BY <1>1, <1>2, <1>4 DEF KV!SetReturn, AR, ReturnsBusy
    <2>2. QED
        BY <2>1 DEF KV!Next
<1>5. QED
    BY <1>2, <1>3, <1>4

(* Every step of ZdbStore is a step of KVStore or leaves it unchanged.    *)
LEMMA NextRefines ==
    IInv /\ NamespaceIsolation /\ [Next]_vars => [KV!Next]_<<TargetData, AR>>
<1> SUFFICES ASSUME IInv, NamespaceIsolation, [Next]_vars
             PROVE  [KV!Next]_<<TargetData, AR>>
    OBVIOUS
<1>a. /\ cl \in [Clients -> ClientType] /\ conn \in [Slots -> ConnType]
      /\ data \in [ServerNamespaces -> [Keys -> Values]] /\ QuerySlot
    BY DEF IInv, TypeOK
<1>1. ASSUME NEW c \in Clients, StartGet(c) \/ StartSet(c) PROVE [KV!Next]_<<TargetData, AR>>
    <2>1. PICK op \in {"get", "set"}, k \in Keys, b \in Blobs \cup {Nil} :
              /\ op = "get" => b = Nil
              /\ op = "set" => b \in Blobs
              /\ Call(c, op, k, b)
        BY <1>1 DEF StartGet, StartSet
    <2>2. AR' = [AR EXCEPT ![c] = [pc |-> "busy", op |-> op, key |-> k, blob |-> b,
                                    res |-> KV!NoResult]]
        <3> DEFINE y == [pc |-> "checkout", op |-> op, key |-> k, blob |-> b, slot |-> 0, res |-> NoResult]
        <3>1. AR' = [AR EXCEPT ![c] = AbsCall(y)]
            BY <2>1, <1>a, AbsUpdate DEF Call
        <3>2. AbsCall(y) = [pc |-> "busy", op |-> op, key |-> k, blob |-> b, res |-> KV!NoResult]
            BY DEF AbsCall, NoResult, KV!NoResult
        <3>3. QED
            BY <3>1, <3>2
    <2>3. AR[c].pc = "idle" /\ TargetData' = TargetData
        BY <2>1 DEF Call, AR, AbsCall, TargetData, Target
    <2>4. KV!Invoke(c, op, k, b)
        BY <2>2, <2>3 DEF KV!Invoke, AR
    <2>5. QED
        BY <2>1, <2>4 DEF KV!Next
<1>2. ASSUME NEW c \in Clients, CheckoutIdle(c) \/ Connect(c) PROVE [KV!Next]_<<TargetData, AR>>
    <2>1. PICK sl \in Slots : cl' = [cl EXCEPT ![c] = [cl[c] EXCEPT !.pc = "query", !.slot = sl]]
        BY <1>2 DEF CheckoutIdle, Connect
    <2>2. cl[c].pc = "checkout" /\ url' = url /\ data' = data
        BY <1>2 DEF CheckoutIdle, Connect
    <2>3. AR' = AR
        <3>1. AbsCall([cl[c] EXCEPT !.pc = "query", !.slot = sl]) = AbsCall(cl[c])
            BY <1>a, <2>2, AbsTakeSlot
        <3>2. QED
            BY <1>a, <2>1, <3>1, AbsUpdate DEF AR
    <2>4. QED
        BY <2>2, <2>3, Stutter
<1>3. ASSUME NEW c \in Clients, DiscardBroken(c) PROVE [KV!Next]_<<TargetData, AR>>
    BY <1>3, Stutter DEF DiscardBroken, AR
<1>4. CASE Restart
    BY <1>4, Stutter DEF Restart, AR
<1>5. CASE UNCHANGED vars
    BY <1>5, Stutter DEF vars, AR
<1>6. ASSUME NEW c \in Clients, CheckoutTimeout(c) PROVE [KV!Next]_<<TargetData, AR>>
    <2>1. CASE cl[c].op = "get"
        <3>2. KV!Return(c, KV!OtherErr)
            BY <1>6, <1>a, ReturnStep DEF CheckoutTimeout, OtherErr, KV!OtherErr
        <3>3. AR[c].pc = "busy" /\ AR[c].op = "get" /\ TargetData' = TargetData
            BY <1>6, <1>a, <2>1 DEF CheckoutTimeout, AR, AbsCall, TargetData, Target
        <3>4. QED
            BY <3>2, <3>3 DEF KV!Get, KV!Next, AR
    <2>2. CASE cl[c].op # "get"
        <3>1. cl[c].op = "set"
            BY <1>a, <2>2 DEF ClientType
        <3>2. QED
            <4>1. cl' = [cl EXCEPT ![c] = [cl[c] EXCEPT !.pc = "idle", !.res = KV!OtherErr]]
                  /\ cl[c].pc = "checkout"
                BY <1>6 DEF CheckoutTimeout, OtherErr, KV!OtherErr
            <4>2. TargetData' = TargetData
                BY <1>6 DEF CheckoutTimeout, TargetData, Target
            <4>3. ReturnsBusy(c, KV!OtherErr)
                BY <3>1, <4>1, <4>2 DEF ReturnsBusy
            <4>4. QED
                BY <1>a, <4>3, ReturnBusy
    <2>3. QED
        BY <2>1, <2>2
<1>7. ASSUME NEW c \in Clients, Query(c) PROVE [KV!Next]_<<TargetData, AR>>
    <2> DEFINE s == cl[c].slot
               k == cl[c].key
               ns == conn[s].ns
    <2>1. cl[c].pc = "query" /\ s \in Slots /\ conn[s].status = "lent" /\ conn[s] \in ConnType
        BY <1>7, <1>a DEF Query, QuerySlot
    <2>2. AR[c].pc = "busy" /\ AR[c].op = cl[c].op /\ AR[c].key = k /\ AR[c].blob = cl[c].blob
          /\ k \in Keys
        BY <1>a, <2>1 DEF AR, AbsCall, ClientType
    <2>3. url' = url
        BY <1>7 DEF Query
    <2>4. CASE conn[s].broken
        <3>1. cl' = [cl EXCEPT ![c] = Returned(cl[c], KV!OtherErr)] /\ data' = data
            BY <1>7, <2>4 DEF Query, OtherErr, KV!OtherErr
        <3>2. TargetData' = TargetData
            BY <3>1, <2>3 DEF TargetData, Target
        <3>3. CASE cl[c].op = "get"
            <4>1. KV!Return(c, KV!OtherErr)
                BY <1>a, <3>1, ReturnStep
            <4>2. QED
                BY <2>2, <3>2, <3>3, <4>1 DEF KV!Get, KV!Next, AR
        <3>4. CASE cl[c].op # "get"
            <4>1. cl[c].op = "set"
                BY <1>a, <3>4 DEF ClientType
            <4>2. ReturnsBusy(c, KV!OtherErr)
                BY <2>1, <3>1, <3>2, <4>1 DEF ReturnsBusy
            <4>3. QED
                BY <1>a, <4>2, ReturnBusy
        <3>5. QED
            BY <3>3, <3>4
    <2>5. CASE ~conn[s].broken
        <3>1. ns = Target /\ Target \in ServerNamespaces
            BY <2>1, <2>5, <1>a DEF NamespaceIsolation, ConnType
        <3>2. TargetData = data[Target]
            BY <3>1 DEF TargetData
        <3>3. Target' = Target
            BY <2>3 DEF Target
        <3>4. CASE cl[c].op = "get"
            <4>1. cl' = [cl EXCEPT ![c] = Returned(cl[c], GetResult(data[ns][k]))]
                  /\ data' = data
                BY <1>7, <2>5, <3>4 DEF Query
            <4>2. GetResult(data[ns][k]) = KV!Answer(TargetData[k])
                BY <2>2, <3>1, <3>2, AnswerIsGetResult
            <4>3. TargetData' = TargetData
                BY <4>1, <2>3 DEF TargetData, Target
            <4>4. QED
                <5>1. ReturnsBusy(c, GetResult(data[ns][k]))
                    BY <2>1, <3>4, <4>1, <4>2, <4>3 DEF ReturnsBusy
                <5>2. QED
                    BY <1>a, <5>1, ReturnBusy
        <3>5. CASE cl[c].op = "set"
            <4>1. cl' = [cl EXCEPT ![c] = [@ EXCEPT !.pc = "reply"]]
                  /\ data' = [data EXCEPT ![ns] = [@ EXCEPT ![k] = cl[c].blob]]
                BY <1>7, <2>5, <3>5 DEF Query
            <4>2. AR' = [AR EXCEPT ![c] = [pc |-> "stored", op |-> AR[c].op, key |-> AR[c].key,
                                            blob |-> AR[c].blob, res |-> AR[c].res]]
                <5>1. AR' = [AR EXCEPT ![c] = AbsCall([cl[c] EXCEPT !.pc = "reply"])]
                    BY <1>a, <4>1, AbsUpdate
                <5>2. QED
                    BY <1>a, <2>1, <5>1, AbsStored DEF AR
            <4>3. TargetData' = [TargetData EXCEPT ![AR[c].key] = AR[c].blob]
                <5>1. data'[Target] = [data[Target] EXCEPT ![k] = cl[c].blob]
                    BY <1>a, <3>1, <4>1
                <5>2. TargetData' = data'[Target]
                    BY <3>1, <3>3 DEF TargetData
                <5>3. QED
                    BY <2>2, <3>2, <5>1, <5>2
            <4>4. KV!SetApply(c)
                BY <2>2, <3>5, <4>2, <4>3 DEF KV!SetApply, AR
            <4>5. QED
                BY <4>4 DEF KV!Next
        <3>6. QED
            BY <1>a, <3>4, <3>5 DEF ClientType
    <2>6. QED
        BY <2>4, <2>5
<1>9. ASSUME NEW c \in Clients, Reply(c) PROVE [KV!Next]_<<TargetData, AR>>
    <2> DEFINE s == cl[c].slot
               x == IF conn[s].broken THEN OtherErr ELSE [kind |-> "Ok", blob |-> Nil]
    <2>1. cl[c].pc = "reply" /\ cl[c].op = "set"
        BY <1>9 DEF Reply, IInv, ReplyIsSet
    <2>2. AR[c].pc = "stored" /\ AR[c].op = "set"
        BY <1>a, <2>1 DEF AR, AbsCall
    <2>3. cl' = [cl EXCEPT ![c] = Returned(cl[c], x)] /\ url' = url /\ data' = data
        BY <1>9 DEF Reply
    <2>4. KV!Return(c, x)
        BY <1>a, <2>3, ReturnStep
    <2>5. x = KV!OtherErr \/ x = [kind |-> "Ok", blob |-> Nil]
        BY DEF OtherErr, KV!OtherErr
    <2>6. TargetData' = TargetData
        BY <2>3 DEF TargetData, Target
    <2>7. KV!SetReturn(c)
        BY <2>2, <2>4, <2>5, <2>6 DEF KV!SetReturn, AR
    <2>8. QED
        BY <2>7 DEF KV!Next
<1>8. QED
    BY <1>1, <1>2, <1>3, <1>4, <1>5, <1>6, <1>7, <1>9 DEF Next

(***************************************************************************)
(* ZdbStore implements the key-value store of spec.md section 4.2 over the *)
(* URL's namespace, for every pool size, URL, set of namespaces and number *)
(* of zdb restarts: ZdbStore::get returns what the namespace holds (or a  *)
(* transport error), ZdbStore::set returns Ok only once the namespace      *)
(* holds its blob, and a failed set has stored at most its own blob (when *)
(* a restart cut the reply to an applied SET).  The argument is the        *)
(* invariant IInv /\ NamespaceIsolation: a healthy lent connection runs    *)
(* its command in the target namespace, and a caller awaiting a reply      *)
(* holds its slot and is doing a set.                                       *)
(***************************************************************************)
THEOREM ZdbImplementsKVStore == Spec => ImplementsKVStore
<1> DEFINE Inv == IInv /\ NamespaceIsolation
<1>1. Init => Inv /\ KV!Init
    BY InitIInv, InitRefines DEF Init, NamespaceIsolation, ClosedConn
<1>2. Inv /\ [Next]_vars => Inv'
    BY NextIInv, NextNamespaceIsolation
<1>3. Inv /\ [Next]_vars => [KV!Next]_<<TargetData, AR>>
    BY NextRefines
<1>4. QED
    BY <1>1, <1>2, <1>3, PTL DEF Spec, ImplementsKVStore, KV!Spec, AR
=============================================================================
