------------------------- MODULE MountDaemonProofs -------------------------
(***************************************************************************)
(* Proofs about the mount command's start-up for every number of polls,   *)
(* tick length and clock bound.                                            *)
(*                                                                         *)
(* SuccessMeansMounted is not inductive as it stands: PollMounted only     *)
(* sees that the target is a mountpoint.  The invariant MountInv adds why *)
(* that mountpoint is the daemon's live mount: a parent that got past the  *)
(* pre-check saw no foreign mount (also while it is blocked on the first  *)
(* child), a live mount is a mounted daemon's, and a stale mount is only   *)
(* left after the parent has given up.                                     *)
(***************************************************************************)
EXTENDS MountDaemon, TLAPS

MountInv ==
    /\ ppc \in {"waitpid", "wait", "exit0"} => ~foreign
    /\ mount = "live" <=> cpc = "mounted"
    /\ mount = "stale" => ppc = "exit1"
    /\ ppc = "exit0" => cpc = "mounted"

LEMMA SecondType == Second \in Nat /\ Second <= Polls * Second /\ Polls * Second \in Nat
<1>1. Second \in Nat
    BY MountConstAssumption DEF Second
<1>2. Polls \in Nat /\ Polls >= 1
    BY MountConstAssumption
<1>3. Second <= Polls * Second
    <2>1. Polls * Second = Second + (Polls - 1) * Second
        BY <1>1, <1>2
    <2>2. (Polls - 1) * Second \in Nat
        BY <1>1, <1>2
    <2>3. QED
        BY <1>1, <2>1, <2>2
<1>4. QED
    BY <1>1, <1>2, <1>3

LEMMA InitTypeOK == Init => TypeOK
<1> SUFFICES ASSUME Init PROVE TypeOK
    OBVIOUS
<1>1. wake \in 0..MaxTick + Polls * Second
    BY SecondType, MountConstAssumption DEF Init
<1>2. mountTick \in 0..NoTick /\ now \in 0..MaxTick /\ polls \in 0..Polls
    BY MountConstAssumption DEF Init, NoTick
<1>3. QED
    BY <1>1, <1>2 DEF Init, TypeOK

LEMMA NextTypeOK == TypeOK /\ [Next]_vars => TypeOK'
<1> SUFFICES ASSUME TypeOK, [Next]_vars PROVE TypeOK'
    OBVIOUS
<1>1. CASE PollNotMounted
    BY <1>1, SecondType, MountConstAssumption DEF PollNotMounted, TypeOK
<1>2. CASE GiveUp
    BY <1>2 DEF GiveUp, Terminated, TypeOK
<1>3. CASE Mount
    BY <1>3, MountConstAssumption DEF Mount, TypeOK, NoTick
<1>4. CASE Tick
    <2>0. now \in Nat /\ now < MaxTick /\ now' = now + 1 /\ MaxTick \in Nat
        BY <1>4, MountConstAssumption DEF Tick, TypeOK
    <2>1. now' \in 0..MaxTick
        BY <2>0
    <2>2. QED
        BY <1>4, <2>1 DEF Tick, TypeOK
<1>5. CASE Daemonize
    BY <1>5, SecondType, MountConstAssumption DEF Daemonize, TypeOK
<1>6. CASE PreCheckFails \/ RefuseMounted \/ RunInForeground \/ PollMounted \/ PollPanics
    BY <1>6 DEF PreCheckFails, RefuseMounted, RunInForeground, PollMounted, PollPanics, TypeOK
<1>10. CASE Reaped
    BY <1>10, SecondType, MountConstAssumption DEF Reaped, TypeOK
<1>7. CASE DaemonChild \/ AppFail
    BY <1>7 DEF DaemonChild, AppFail, TypeOK
<1>8. CASE UNCHANGED vars
    BY <1>8 DEF vars, TypeOK
<1>9. QED
    BY <1>1, <1>2, <1>3, <1>4, <1>5, <1>6, <1>7, <1>8, <1>10 DEF Next, Parent, Child

(* The mount command's state is well typed for every value of the         *)
(* constants: wait_child's counter stays within its bound of checks.       *)
THEOREM MountTypeCorrect == Spec => []TypeOK
BY InitTypeOK, NextTypeOK, PTL DEF Spec

LEMMA InitMountInv == Init => MountInv
BY DEF Init, MountInv

LEMMA NextMountInv == TypeOK /\ MountInv /\ [Next]_vars => MountInv'
<1> SUFFICES ASSUME TypeOK, MountInv, [Next]_vars PROVE MountInv'
    OBVIOUS
<1>1. CASE PollMounted
    <2>1. mount = "live"
        BY <1>1 DEF PollMounted, IsMountpoint, MountInv, TypeOK
    <2>2. QED
        BY <1>1, <2>1 DEF PollMounted, MountInv
<1>2. CASE GiveUp
    BY <1>2 DEF GiveUp, Terminated, MountInv, TypeOK
<1>3. CASE Mount
    BY <1>3 DEF Mount, MountInv, TypeOK
<1>4. CASE RunInForeground \/ Daemonize
    BY <1>4 DEF RunInForeground, Daemonize, IsMountpoint, MountInv, TypeOK
<1>5. CASE PreCheckFails \/ RefuseMounted \/ PollNotMounted \/ PollPanics \/ Tick \/ Reaped
    BY <1>5 DEF PreCheckFails, RefuseMounted, PollNotMounted, PollPanics, Tick, Reaped, MountInv
<1>6. CASE DaemonChild \/ AppFail
    BY <1>6 DEF DaemonChild, AppFail, MountInv, TypeOK
<1>7. CASE UNCHANGED vars
    BY <1>7 DEF vars, MountInv
<1>8. QED
    BY <1>1, <1>2, <1>3, <1>4, <1>5, <1>6, <1>7 DEF Next, Parent, Child

(***************************************************************************)
(* For every number of polls and tick length, the mount command exits 0    *)
(* only when its own daemon is serving a live mount of the target:         *)
(* wait_child's mountpoint check cannot be fooled by a mount that was     *)
(* there before, nor by a stale one.                                       *)
(***************************************************************************)
THEOREM SuccessMeansMountedHolds == Spec => []SuccessMeansMounted
<1>1. Init => TypeOK /\ MountInv
    BY InitTypeOK, InitMountInv
<1>2. TypeOK /\ MountInv /\ [Next]_vars => (TypeOK /\ MountInv)'
    BY NextTypeOK, NextMountInv
<1>3. TypeOK /\ MountInv => SuccessMeansMounted
    BY DEF MountInv, SuccessMeansMounted, TypeOK
<1>4. QED
    BY <1>1, <1>2, <1>3, PTL DEF Spec
=============================================================================
