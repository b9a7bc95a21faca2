---------------------------- MODULE MCAciDecode ----------------------------
(* Aci::new with ids scaled from 32 to 16 bits, so that TLC's integers hold *)
(* the wrap-around: the stored ids are the legacy -1, another negative, 0,  *)
(* the default 1000, and values at and past 2^16.  MCInRangeIds keeps to   *)
(* the ids a u16 can hold, its largest included.                           *)
EXTENDS AciDecode

MCIdBits == 16
MCStoredIds == {-1, -2, 0, 1000, 2^16, 2^16 + 1000}
MCInRangeIds == {-1, 0, 1000, 2^16 - 1}
MCAccountIds == {0, 33}
=============================================================================
