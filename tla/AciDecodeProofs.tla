-------------------------- MODULE AciDecodeProofs --------------------------
(***************************************************************************)
(* Aci::new keeps every stored uid and gid that Aci.user and Aci.group can *)
(* hold, for every width: together with the run that finds AciKeepsIds    *)
(* violated, this pins the loss of an owner on the `as u32` casts of ids  *)
(* outside 0 .. 2^IdBits - 1 and on nothing else.                          *)
(*                                                                         *)
(* The inductive invariant says what a decoded record holds: the cast of   *)
(* the resolved id, computed once and never changed.                       *)
(***************************************************************************)
EXTENDS AciDecode, TLAPS

W == 2^IdBits

DecodedIds ==
    /\ uidIn \in IdField /\ gidIn \in IdField
    /\ result \in {"pending", "ok", "err"}
    /\ result = "ok" => user = AsU32(Resolve(uidIn)) /\ group = AsU32(Resolve(gidIn))

LEMMA WidthPositive == W \in Nat \ {0}
BY AciConstAssumption DEF W

(* The cast leaves an id that fits the width as it is.                     *)
LEMMA CastKeepsInRange ==
    ASSUME NEW n \in 0..(W - 1)
    PROVE  AsU32(n) = n
BY WidthPositive DEF AsU32, W

(* A stored id other than -1 is used as it is.                             *)
LEMMA ResolveKeeps ==
    ASSUME NEW f \in IdField, f.id # -1
    PROVE  Resolve(f) = f.id
BY DEF Resolve

LEMMA InitDecoded == Init => DecodedIds
BY DEF Init, DecodedIds

LEMMA NextDecoded == DecodedIds /\ [Decode \/ DecodeFail]_vars => DecodedIds'
BY DEF DecodedIds, Decode, DecodeFail, vars

(***************************************************************************)
(* For every width of Aci.user and Aci.group, an flist whose ids are -1 or *)
(* fit that width keeps every owner through Aci::new.                      *)
(***************************************************************************)
THEOREM InRangeIdsKept ==
    ASSUME StoredIds \subseteq {-1} \cup 0..(2^IdBits - 1)
    PROVE  Spec => []AciKeepsIds
<1>1. DecodedIds => AciKeepsIds
    <2> SUFFICES ASSUME DecodedIds, result = "ok"
                 PROVE  /\ uidIn.id # -1 => user = uidIn.id
                        /\ gidIn.id # -1 => group = gidIn.id
        BY DEF AciKeepsIds
    <2>1. ASSUME NEW f \in IdField, f.id # -1
          PROVE  AsU32(Resolve(f)) = f.id
        <3>1. f.id \in 0..(W - 1)
            BY <2>1 DEF IdField, W
        <3>2. QED
            BY <2>1, <3>1, ResolveKeeps, CastKeepsInRange
    <2>2. QED
        BY <2>1 DEF DecodedIds
<1>2. QED
    BY <1>1, InitDecoded, NextDecoded, PTL DEF Spec
=============================================================================
