----------------------------- MODULE DirEntries -----------------------------
(***************************************************************************)
(* Dir::from and Dir::entries in src/src/meta/types.rs: a legacy (capnp)   *)
(* directory record is read and its contents turned into the child entries *)
(* of a mounted directory.  One step of the model reads the record's       *)
(* header or is one iteration of the loop.                                 *)
(*                                                                         *)
(* A raw child is abstracted to its kind and, for a file, the list of its  *)
(* blocks, each one "ok", "badlen" (a hash or key field that is not 16     *)
(* bytes) or "readerr" (capnp fails to read the field).  A child whose     *)
(* attributes capnp cannot read, an out-of-schema union discriminant       *)
(* included (which() returns Err), is of kind "corrupt"; "unknown" is a    *)
(* variant of the schema's union other than dir, file and link, which the  *)
(* `_` arm catches.  Names, sizes and times are copied verbatim and left  *)
(* out.                                                                    *)
(***************************************************************************)
EXTENDS Naturals, Sequences

CONSTANTS
    Parent,     \* the inode of the directory being read
    MaxChildren \* bound on the length of a directory listing

ASSUME DirConstAssumption == MaxChildren \in Nat

Kinds == {"dir", "file", "link", "unknown", "corrupt"}
BlockStates == {"ok", "badlen", "readerr"}

(* Inode::at(x): the x-th child of an inode.  Inode is not in src/; spec.md *)
(* section 9 derives it from (parent inode, child index), one to one.      *)
At(ino, x) == <<ino, x>>

(* Directory listings the loop may be given, bounded in length.            *)
RawEntries(maxBlocks) ==
    LET Blocks == UNION {[1..n -> BlockStates] : n \in 0..maxBlocks}
        Raw == [kind: Kinds \ {"file"}, blocks: {<<>>}] \cup [kind: {"file"}, blocks: Blocks]
    IN  UNION {[1..n -> Raw] : n \in 0..MaxChildren}

VARIABLES
    header,  \* whether the message, its root, name, parent and contents list read
    raw,     \* dir.get_contents()
    i,       \* children consumed by the loop
    x,       \* the loop's counter
    entries, \* the entries vector
    out      \* "header", "running", or how Dir::from ended: "ok", "err" or "panic"

vars == <<header, raw, i, x, entries, out>>

Init ==
    /\ header \in BOOLEAN
    /\ raw \in RawEntries(2)
    /\ i = 0 /\ x = 0 /\ entries = <<>> /\ out = "header"

(* Dir::from reads the message, its root, name and parent, and             *)
(* Dir::entries the contents list; any `?` among them returns Err.         *)
ReadHeader ==
    /\ out = "header"
    /\ out' = IF header THEN "running" ELSE "err"
    /\ UNCHANGED <<header, raw, i, x, entries>>

(* The entry the loop is at, and the first block of a file that fails.     *)
Cur == raw[i + 1]
FirstBad(bs) ==
    IF \A j \in DOMAIN bs : bs[j] = "ok" THEN "ok"
    ELSE bs[CHOOSE j \in DOMAIN bs : bs[j] # "ok" /\ \A l \in 1..j - 1 : bs[l] = "ok"]

(* Every iteration starts with x += 1 and inode = ino.at(x).               *)
Iteration ==
    /\ out = "running" /\ i < Len(raw)
    /\ x' = x + 1 /\ i' = i + 1

(* The attributes are read and the entry pushed: a directory, a link, or a *)
(* file all of whose blocks have 16-byte hashes and keys.                  *)
PushEntry ==
    /\ Iteration
    /\ \/ Cur.kind \in {"dir", "link"}
       \/ Cur.kind = "file" /\ FirstBad(Cur.blocks) = "ok"
    /\ entries' = Append(entries, [inode |-> At(Parent, x + 1), kind |-> Cur.kind])
    /\ UNCHANGED <<header, raw, out>>

(* Mutant: the counter is only advanced for the entries that are kept.     *)
SkipUnknownUncounted ==
    /\ out = "running" /\ i < Len(raw)
    /\ Cur.kind = "unknown"
    /\ i' = i + 1
    /\ UNCHANGED <<header, raw, x, entries, out>>

(* `_ => EntryKind::Unknown` and `continue`: the child is skipped, after   *)
(* x has been advanced.                                                    *)
SkipUnknown ==
    /\ Iteration
    /\ Cur.kind = "unknown"
    /\ UNCHANGED <<header, raw, entries, out>>

(* A `?` on a field capnp cannot read returns Err from Dir::entries.       *)
ReadError ==
    /\ Iteration
    /\ \/ Cur.kind = "corrupt"
       \/ Cur.kind = "file" /\ FirstBad(Cur.blocks) = "readerr"
    /\ out' = "err"
    /\ UNCHANGED <<header, raw, entries>>

(* try_into().expect("block hash is 16 bytes") (or key) panics.            *)
BadLength ==
    /\ Iteration
    /\ Cur.kind = "file" /\ FirstBad(Cur.blocks) = "badlen"
    /\ out' = "panic"
    /\ UNCHANGED <<header, raw, entries>>

(* The loop ends, Ok(entries) is returned and Dir::from wraps it.         *)
Finish ==
    /\ out = "running" /\ i = Len(raw)
    /\ out' = "ok"
    /\ UNCHANGED <<header, raw, i, x, entries>>

Next == ReadHeader \/ PushEntry \/ SkipUnknown \/ ReadError \/ BadLength \/ Finish

Spec == Init /\ [][Next]_vars
-----------------------------------------------------------------------------
(* The listing spec.md describes, of the first n children of record r:    *)
(* es numbers the children of known kinds in their order, f[j] being the  *)
(* position in the record (counting every child) of the j-th entry, whose  *)
(* inode is Parent.at(f[j]).                                               *)
Known(r, n) == {k \in 1..n : r[k].kind # "unknown"}
Enumerates(es, r, n) ==
    \E f \in [1..Len(es) -> 1..n] :
        /\ \A j1, j2 \in 1..Len(es) : j1 < j2 => f[j1] < f[j2]
        /\ {f[j] : j \in 1..Len(es)} = Known(r, n)
        /\ \A j \in 1..Len(es) : es[j] = [inode |-> At(Parent, f[j]), kind |-> r[f[j]].kind]

(***************************************************************************)
(* Dir::entries returns exactly the children of known kinds, in order, and *)
(* numbers each by its position in the record, skipped children included,  *)
(* so a kept child's inode does not depend on how many children of other   *)
(* variants precede it (spec.md sections 4.6 and 9: unknown kinds are      *)
(* skipped, inodes come from (parent, child index)).                       *)
(***************************************************************************)
EntriesMatchListing ==
    out = "ok" => Enumerates(entries, raw, Len(raw))

(***************************************************************************)
(* spec.md section 4.6: the reader validates that every block's hash and   *)
(* key are exactly 16 bytes and rejects the artifact otherwise: a bad      *)
(* length ends Dir::entries with an error, never with a panic of the mount *)
(* process.                                                                *)
(***************************************************************************)
BadBlockRejected ==
    out # "panic"
=============================================================================
