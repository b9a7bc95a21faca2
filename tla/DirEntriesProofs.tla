-------------------------- MODULE DirEntriesProofs --------------------------
(***************************************************************************)
(* Proof that Dir::entries lists the children of known kinds in order and  *)
(* numbers each by its position in the record, for every listing of any    *)
(* length and every parent inode.                                          *)
(*                                                                         *)
(* EntriesMatchListing speaks of the state the loop ends in.  The          *)
(* invariant DirInv says what holds after every iteration: the entries     *)
(* pushed so far enumerate the known children among the first i, and the  *)
(* counter x has moved with i, unknown kinds included.  Each iteration     *)
(* extends the enumeration by at most one child, so the step needs no     *)
(* induction over the listing.                                             *)
(***************************************************************************)
EXTENDS TLAPS, DirEntries

Raw == [kind : Kinds, blocks : Seq(BlockStates)]
Entry == [inode : {Parent} \X Nat, kind : Kinds]

DirInv ==
    /\ raw \in Seq(Raw)
    /\ entries \in Seq(Entry)
    /\ i \in 0..Len(raw) /\ x = i
    /\ out \in {"header", "running", "ok", "err", "panic"}
    /\ out = "header" => entries = <<>> /\ i = 0
    /\ out \in {"running", "ok"} => Enumerates(entries, raw, i)
    /\ out = "ok" => i = Len(raw)

(* No child read yet: the empty listing enumerates none.                   *)
LEMMA EnumeratesEmpty ==
    ASSUME NEW r
    PROVE  Enumerates(<<>>, r, 0)
<1> DEFINE f == [j \in {} |-> 1]
<1>1. Len(<<>>) = 0 /\ 1..0 = {}
    OBVIOUS
<1>2. f \in [1..Len(<<>>) -> 1..0]
    BY <1>1 DEF f
<1>3. {f[j] : j \in 1..Len(<<>>)} = Known(r, 0)
    BY <1>1 DEF Known
<1>4. QED
    <2> SUFFICES \E g \in [1..Len(<<>>) -> 1..0] :
                    {g[j] : j \in 1..Len(<<>>)} = Known(r, 0)
        BY <1>1, Zenon DEF Enumerates
    <2> WITNESS f \in [1..Len(<<>>) -> 1..0]
    <2> QED
        BY <1>3

(* A known child at position n + 1 is pushed as the next entry, at inode   *)
(* Parent.at(n + 1).                                                       *)
LEMMA EnumeratesExtend ==
    ASSUME NEW r, NEW S, NEW es \in Seq(S), NEW n \in Nat,
           Enumerates(es, r, n), r[n + 1].kind # "unknown"
    PROVE  Enumerates(Append(es, [inode |-> At(Parent, n + 1), kind |-> r[n + 1].kind]), r, n + 1)
<1> DEFINE e == [inode |-> At(Parent, n + 1), kind |-> r[n + 1].kind]
           es2 == Append(es, e)
<1>1. PICK f \in [1..Len(es) -> 1..n] :
          /\ \A j1, j2 \in 1..Len(es) : j1 < j2 => f[j1] < f[j2]
          /\ {f[j] : j \in 1..Len(es)} = Known(r, n)
          /\ \A j \in 1..Len(es) : es[j] = [inode |-> At(Parent, f[j]), kind |-> r[f[j]].kind]
    BY DEF Enumerates
<1> DEFINE g == [j \in 1..Len(es) + 1 |-> IF j <= Len(es) THEN f[j] ELSE n + 1]
<1>0. Len(es) \in Nat
    OBVIOUS
<1>2. /\ Len(es2) = Len(es) + 1
      /\ \A j \in 1..Len(es) : es2[j] = es[j]
      /\ es2[Len(es) + 1] = e
    BY <1>0 DEF es2
<1> HIDE DEF es2, e
<1>3. g \in [1..Len(es2) -> 1..n + 1]
    BY <1>0, <1>1, <1>2 DEF g
<1>4. \A j1, j2 \in 1..Len(es2) : j1 < j2 => g[j1] < g[j2]
    BY <1>0, <1>1, <1>2 DEF g
<1>5. {g[j] : j \in 1..Len(es2)} = Known(r, n + 1)
    <2>1. {g[j] : j \in 1..Len(es2)} = {f[j] : j \in 1..Len(es)} \cup {n + 1}
        BY <1>0, <1>2 DEF g
    <2>2. Known(r, n + 1) = Known(r, n) \cup {n + 1}
        BY DEF Known
    <2>3. QED
        BY <1>1, <2>1, <2>2
<1>6. ASSUME NEW j \in 1..Len(es2)
      PROVE  es2[j] = [inode |-> At(Parent, g[j]), kind |-> r[g[j]].kind]
    <2>1. CASE j <= Len(es)
        <3>1. g[j] = f[j] /\ es2[j] = es[j]
            BY <1>0, <1>2, <2>1 DEF g
        <3>2. QED
            BY <1>1, <2>1, <3>1
    <2>2. CASE j = Len(es) + 1
        <3>1. g[j] = n + 1
            BY <1>0, <2>2 DEF g
        <3>2. QED
            BY <1>2, <2>2, <3>1 DEF e
    <2>3. QED
        BY <1>0, <1>2, <2>1, <2>2
<1>7. QED
    <2> SUFFICES \E h \in [1..Len(es2) -> 1..n + 1] :
                    /\ \A j1, j2 \in 1..Len(es2) : j1 < j2 => h[j1] < h[j2]
                    /\ {h[j] : j \in 1..Len(es2)} = Known(r, n + 1)
                    /\ \A j \in 1..Len(es2) : es2[j] = [inode |-> At(Parent, h[j]), kind |-> r[h[j]].kind]
        BY Zenon DEF Enumerates, es2, e
    <2> WITNESS g \in [1..Len(es2) -> 1..n + 1]
    <2> QED
        BY <1>4, <1>5, <1>6, Zenon

(* An unknown child at position n + 1 is skipped and pushes nothing.       *)
LEMMA EnumeratesSkip ==
    ASSUME NEW r, NEW S, NEW es \in Seq(S), NEW n \in Nat,
           Enumerates(es, r, n), r[n + 1].kind = "unknown"
    PROVE  Enumerates(es, r, n + 1)
<1>1. PICK f \in [1..Len(es) -> 1..n] :
          /\ \A j1, j2 \in 1..Len(es) : j1 < j2 => f[j1] < f[j2]
          /\ {f[j] : j \in 1..Len(es)} = Known(r, n)
          /\ \A j \in 1..Len(es) : es[j] = [inode |-> At(Parent, f[j]), kind |-> r[f[j]].kind]
    BY DEF Enumerates
<1>2. f \in [1..Len(es) -> 1..n + 1]
    BY <1>1
<1>3. Known(r, n + 1) = Known(r, n)
    BY DEF Known
<1>4. QED
    BY <1>1, <1>2, <1>3 DEF Enumerates

LEMMA InitDirInv == Init => DirInv
<1> SUFFICES ASSUME Init PROVE DirInv
    OBVIOUS
<1>1. raw \in Seq(Raw)
    <2>1. PICK n \in 0..MaxChildren :
              raw \in [1..n -> [kind: Kinds \ {"file"}, blocks: {<<>>}]
                              \cup [kind: {"file"}, blocks: UNION {[1..m -> BlockStates] : m \in 0..2}]]
        BY DEF Init, RawEntries
    <2>2. ASSUME NEW k \in 1..n PROVE raw[k] \in Raw
        <3>1. CASE raw[k] \in [kind: Kinds \ {"file"}, blocks: {<<>>}]
            <4>1. <<>> \in Seq(BlockStates)
                OBVIOUS
            <4>2. QED
                BY <3>1, <4>1 DEF Raw
        <3>2. CASE raw[k] \in [kind: {"file"}, blocks: UNION {[1..m -> BlockStates] : m \in 0..2}]
            <4>1. PICK m \in 0..2 : raw[k].blocks \in [1..m -> BlockStates]
                BY <3>2
            <4>2. raw[k].blocks \in Seq(BlockStates)
                BY <4>1
            <4>3. QED
                BY <3>2, <4>2 DEF Raw, Kinds
        <3>3. QED
            BY <2>1, <3>1, <3>2
    <2>3. raw \in [1..n -> Raw]
        BY <2>1, <2>2
    <2>4. QED
        BY <2>3, DirConstAssumption
<1>2. QED
    BY <1>1 DEF Init, DirInv, Entry
(* One iteration of the loop, whichever way it goes, consumes one child    *)
(* and advances x with i.                                                  *)
LEMMA IterationStep ==
    ASSUME DirInv, Iteration
    PROVE  /\ out = "running"
           /\ i \in 0..Len(raw) - 1 /\ i' = i + 1 /\ x' = x + 1
           /\ i' \in 0..Len(raw) /\ x' = i'
BY DEF DirInv, Iteration

LEMMA NextDirInv == DirInv /\ [Next]_vars => DirInv'
<1> SUFFICES ASSUME DirInv, [Next]_vars PROVE DirInv'
    OBVIOUS
<1>0. raw \in Seq(Raw) /\ entries \in Seq(Entry)
    BY DEF DirInv
<1>1. CASE ReadHeader
    <2>1. Enumerates(<<>>, raw, 0)
        BY EnumeratesEmpty
    <2>2. QED
        BY <1>1, <2>1 DEF ReadHeader, DirInv
<1>2. CASE PushEntry
    <2>1. /\ out = "running"
          /\ i \in 0..Len(raw) - 1 /\ i' = i + 1 /\ x' = x + 1
          /\ i' \in 0..Len(raw) /\ x' = i'
        BY <1>2, IterationStep DEF PushEntry
    <2>2. raw[i + 1] \in Raw /\ raw[i + 1].kind # "unknown"
        BY <1>0, <1>2, <2>1 DEF PushEntry, Cur
    <2>3. entries' = Append(entries, [inode |-> At(Parent, i + 1), kind |-> raw[i + 1].kind])
        BY <1>2, <2>1 DEF PushEntry, Cur, DirInv
    <2>4. Enumerates(entries', raw, i + 1)
        BY <1>0, <2>1, <2>2, <2>3, EnumeratesExtend DEF DirInv
    <2>5. entries' \in Seq(Entry)
        BY <1>0, <2>1, <2>2, <2>3 DEF Entry, Raw, At
    <2>6. QED
        BY <1>2, <2>1, <2>4, <2>5 DEF PushEntry, DirInv
<1>3. CASE SkipUnknown
    <2>1. /\ out = "running"
          /\ i \in 0..Len(raw) - 1 /\ i' = i + 1 /\ x' = x + 1
          /\ i' \in 0..Len(raw) /\ x' = i'
        BY <1>3, IterationStep DEF SkipUnknown
    <2>2. raw[i + 1].kind = "unknown"
        BY <1>3 DEF SkipUnknown, Cur
    <2>3. Enumerates(entries, raw, i + 1)
        BY <1>0, <2>1, <2>2, EnumeratesSkip DEF DirInv
    <2>4. QED
        BY <1>3, <2>1, <2>3 DEF SkipUnknown, DirInv
<1>4. CASE ReadError \/ BadLength
    <2>1. /\ i \in 0..Len(raw) - 1 /\ i' = i + 1 /\ x' = x + 1
          /\ i' \in 0..Len(raw) /\ x' = i'
        BY <1>4, IterationStep DEF ReadError, BadLength
    <2>2. QED
        BY <1>4, <2>1 DEF ReadError, BadLength, DirInv
<1>5. CASE Finish
    BY <1>5 DEF Finish, DirInv
<1>6. CASE UNCHANGED vars
    BY <1>6 DEF vars, DirInv
<1>7. QED
    BY <1>1, <1>2, <1>3, <1>4, <1>5, <1>6 DEF Next

(***************************************************************************)
(* For every listing of any length and every parent inode, a Dir::from    *)
(* that returns Ok holds exactly the children of known kinds, in order,    *)
(* the k-th child of the record at Parent.at(k), unknown kinds counted.   *)
(***************************************************************************)
THEOREM EntriesMatchListingHolds == Spec => []EntriesMatchListing
<1>1. Init => DirInv
    BY InitDirInv
<1>2. DirInv /\ [Next]_vars => DirInv'
    BY NextDirInv
<1>3. DirInv => EntriesMatchListing
    BY DEF DirInv, EntriesMatchListing
<1>4. QED
    BY <1>1, <1>2, <1>3, PTL DEF Spec
=============================================================================
