---------------------------- MODULE MCDirEntries ----------------------------
(* Dir::entries on every listing of up to three children, each file with up *)
(* to two blocks: unknown kinds before, between and after known ones, and   *)
(* the first bad block before or after a good one.                          *)
EXTENDS DirEntries

MCParent == 1
MCMaxChildren == 3
=============================================================================
