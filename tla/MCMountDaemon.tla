---------------------------- MODULE MCMountDaemon ----------------------------
(* MountDaemon with the constants of main.rs: five checks one second apart, *)
(* on a clock of half-second ticks so that a mount can appear between two  *)
(* checks, and one more second after the parent gives up.                  *)
EXTENDS MountDaemon

MCPolls == 5
MCTickMs == 500
MCMaxTick == 12
=============================================================================
