----------------------------- MODULE AciDecode -----------------------------
(***************************************************************************)
(* Aci::new in src/src/meta/types.rs: the uid and gid of an access-control *)
(* item are read as i64 from the flist, a legacy -1 is resolved through    *)
(* the user (group) name if there is one or defaults to 1000, and the      *)
(* result is cast to u32 with `as`.  One step decodes one record, or fails *)
(* when capnp cannot read the message or its root.  A name                 *)
(* lookup is abstracted to its result: whether User::from_name gave        *)
(* Ok(Some(..)), and the id of the account it found.                       *)
(***************************************************************************)
EXTENDS Integers

CONSTANTS
    IdBits,     \* width of Aci.user and Aci.group: 32 (u32)
    StoredIds,  \* i64 values a flist may hold for uid and gid
    AccountIds  \* ids of accounts the lookup may find

ASSUME AciConstAssumption ==
    /\ IdBits \in Nat \ {0}
    /\ StoredIds \subseteq Int /\ -1 \in StoredIds
    /\ AccountIds \subseteq 0..(2^IdBits - 1)
    /\ 1000 < 2^IdBits

(* One id field with its optional name: the stored value, whether the name *)
(* is present, and what looking the name up gives.                         *)
IdField == [id: StoredIds, hasName: BOOLEAN, found: BOOLEAN, account: AccountIds]

VARIABLES
    readable,     \* whether read_message and get_root succeed
    uidIn, gidIn, \* the fields of the record
    user, group,  \* Aci.user and Aci.group
    result        \* "pending", "ok" or "err": what Aci::new returned

vars == <<readable, uidIn, gidIn, user, group, result>>

(* Mutant: the cast keeps one bit too few, as a cast to a narrower type. *)
AsU32Narrow(n) == n % 2^(IdBits - 1)

(* `as u32` on an i64 keeps the low IdBits bits.                           *)
AsU32(n) == n % 2^IdBits

(* The backward-compatibility rule for a -1 id.                            *)
Resolve(f) ==
    IF f.id # -1 THEN f.id
    ELSE IF f.hasName /\ f.found THEN f.account
    ELSE 1000

Init ==
    /\ readable \in BOOLEAN
    /\ uidIn \in IdField /\ gidIn \in IdField
    /\ user = 0 /\ group = 0 /\ result = "pending"

(* A `?` on read_message or get_root returns Err.                          *)
DecodeFail ==
    /\ result = "pending" /\ ~readable
    /\ result' = "err"
    /\ UNCHANGED <<readable, uidIn, gidIn, user, group>>

Decode ==
    /\ result = "pending" /\ readable
    /\ user' = AsU32(Resolve(uidIn))
    /\ group' = AsU32(Resolve(gidIn))
    /\ result' = "ok"
    /\ UNCHANGED <<readable, uidIn, gidIn>>

Spec == Init /\ [][Decode \/ DecodeFail]_vars
-----------------------------------------------------------------------------
(***************************************************************************)
(* An ACL that names an owner keeps it: every uid and gid other than the   *)
(* legacy -1 is the owner the mount reports.  It is about the `as u32`     *)
(* casts at the end of Aci::new, which turn an out-of-range value such as  *)
(* 2^IdBits into 0, the root account, without an error.                 *)
(***************************************************************************)
AciKeepsIds ==
    result = "ok" => /\ uidIn.id # -1 => user = uidIn.id
                     /\ gidIn.id # -1 => group = gidIn.id
=============================================================================
