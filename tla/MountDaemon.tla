----------------------------- MODULE MountDaemon -----------------------------
(***************************************************************************)
(* Start-up of the rfs mount command, src/src/main.rs: the mountpoint      *)
(* pre-check, the optional daemonization, the parent's wait_child polling  *)
(* loop, and the child running app() until the FUSE mount appears or it    *)
(* fails.                                                                  *)
(*                                                                         *)
(* Time is counted in ticks of TickMs milliseconds.  wait_child checks the *)
(* mountpoint, sleeps one second, and does so Polls times; then it reads   *)
(* the pid file, sends SIGTERM to the pid it parsed, if any, and exits 1.  *)
(* The child's steps take no time and may happen at any tick.  What the    *)
(* FUSE layer does with a mounted daemon on SIGTERM is not in this source: *)
(* the mount is either gone or left behind stale.                          *)
(***************************************************************************)
EXTENDS Naturals

CONSTANTS
    Polls,     \* for _ in 0..5: the number of checks of wait_child
    TickMs,    \* milliseconds per tick
    MaxTick    \* bound on the clock

ASSUME MountConstAssumption ==
    /\ Polls \in Nat \ {0}
    /\ TickMs \in Nat \ {0} /\ 1000 % TickMs = 0
    /\ MaxTick \in Nat /\ MaxTick >= Polls * (1000 \div TickMs)

(* Ticks of one std::thread::sleep(Duration::from_secs(1)).                *)
Second == 1000 \div TickMs

NoTick == MaxTick + 1

VARIABLES
    daemon,     \* opts.daemon
    foreign,    \* the target is already a mountpoint when rfs starts
    ppc,        \* the parent (the process the user started)
    polls,      \* checks wait_child has made
    wake,       \* the tick at which wait_child runs next
    cpc,        \* the process that runs app(): the daemon, or the parent itself
    pidWritten, \* the daemon's pid is in the pid file
    mount,      \* the FUSE mount on the target made by this rfs
    mountTick,  \* when it appeared (history)
    now         \* the clock

vars == <<daemon, foreign, ppc, polls, wake, cpc, pidWritten, mount, mountTick, now>>

TypeOK ==
    /\ daemon \in BOOLEAN /\ foreign \in BOOLEAN
    /\ ppc \in {"start", "waitpid", "wait", "app", "exit0", "exit1", "exit101"}
    /\ polls \in 0..Polls
    /\ wake \in 0..MaxTick + Polls * Second
    /\ cpc \in {"none", "forked", "init", "mounted", "failed", "killed"}
    /\ pidWritten \in BOOLEAN
    /\ mount \in {"none", "live", "stale"}
    /\ mountTick \in 0..NoTick
    /\ now \in 0..MaxTick

(* is_mountpoint(target)                                                   *)
IsMountpoint == foreign \/ mount # "none"

Init ==
    /\ daemon \in BOOLEAN /\ foreign \in BOOLEAN
    /\ ppc = "start" /\ polls = 0 /\ wake = 0
    /\ cpc = "none" /\ pidWritten = FALSE
    /\ mount = "none" /\ mountTick = NoTick /\ now = 0
-----------------------------------------------------------------------------
(* main(): refuse a target that is already a mountpoint.                   *)
RefuseMounted ==
    /\ ppc = "start" /\ IsMountpoint
    /\ ppc' = "exit1"
    /\ UNCHANGED <<daemon, foreign, polls, wake, cpc, pidWritten, mount, mountTick, now>>

(* main(): `is_mountpoint(&opts.target)?` fails to run `mountpoint`, and   *)
(* main returns the error: exit status 1.                                  *)
PreCheckFails ==
    /\ ppc = "start"
    /\ ppc' = "exit1"
    /\ UNCHANGED <<daemon, foreign, polls, wake, cpc, pidWritten, mount, mountTick, now>>

(* main() without --daemon: this process runs app() itself.                 *)
RunInForeground ==
    /\ ppc = "start" /\ ~IsMountpoint /\ ~daemon
    /\ ppc' = "app" /\ cpc' = "init"
    /\ UNCHANGED <<daemon, foreign, polls, wake, pidWritten, mount, mountTick, now>>

(* daemon.execute() forks; the parent waits for the first child, which     *)
(* forks the daemon and exits, and gets Parent(Ok): wait_child.  A failed  *)
(* fork is Parent(Err): bail out with exit status 1.  When the first child *)
(* fails before the second fork (chdir, setsid) it gets Child(Err), falls  *)
(* into `_ => {}` and runs app() itself, with no pid in the file, while    *)
(* the parent is still blocked waiting for it to exit.                     *)
Daemonize ==
    /\ ppc = "start" /\ ~IsMountpoint /\ daemon
    /\ \/ ppc' = "wait" /\ cpc' = "forked" /\ wake' = now
       \/ ppc' = "exit1" /\ UNCHANGED <<cpc, wake>>
       \/ ppc' = "waitpid" /\ cpc' = "init" /\ UNCHANGED wake
    /\ UNCHANGED <<daemon, foreign, polls, pidWritten, mount, mountTick, now>>

(* The first child that ran app() exits after app() failed: daemonize's    *)
(* waitpid returns and the parent gets Parent(Ok): wait_child.  A first    *)
(* child that mounted serves the mount and does not exit.                  *)
Reaped ==
    /\ ppc = "waitpid" /\ cpc = "failed"
    /\ ppc' = "wait" /\ wake' = now
    /\ UNCHANGED <<daemon, foreign, polls, cpc, pidWritten, mount, mountTick, now>>

(* daemon.execute() in the daemon.  Outcome::Child(Ok) has written the pid *)
(* file; Outcome::Child(Err) falls into `_ => {}` and app() runs anyway,   *)
(* with no pid in the file.                                                *)
DaemonChild ==
    /\ cpc = "forked"
    /\ cpc' = "init"
    /\ pidWritten' \in BOOLEAN
    /\ UNCHANGED <<daemon, foreign, ppc, polls, wake, mount, mountTick, now>>

(* app(): the metadata, a store of the route table or the mount fails.     *)
AppFail ==
    /\ cpc = "init"
    /\ cpc' = "failed"
    /\ ppc' = IF ppc = "app" THEN "exit1" ELSE ppc
    /\ UNCHANGED <<daemon, foreign, polls, wake, pidWritten, mount, mountTick, now>>

(* app(): filesystem.mount(target) has mounted the target.                 *)
Mount ==
    /\ cpc = "init"
    /\ cpc' = "mounted" /\ mount' = "live" /\ mountTick' = now
    /\ UNCHANGED <<daemon, foreign, ppc, polls, wake, pidWritten, now>>

(* Mutant: the loop returns without looking at the mountpoint.            *)
PollMountedUnchecked ==
    /\ ppc = "wait" /\ now = wake /\ polls < Polls
    /\ ppc' = "exit0"
    /\ UNCHANGED <<daemon, foreign, polls, wake, cpc, pidWritten, mount, mountTick, now>>

(* wait_child: one iteration of the loop finding the target mounted.      *)
PollMounted ==
    /\ ppc = "wait" /\ now = wake /\ polls < Polls
    /\ IsMountpoint
    /\ ppc' = "exit0"
    /\ UNCHANGED <<daemon, foreign, polls, wake, cpc, pidWritten, mount, mountTick, now>>

(* Mutant: the loop runs until the mount appears, with no bound.          *)
PollNotMountedUnbounded ==
    /\ ppc = "wait" /\ now = wake
    /\ ~IsMountpoint
    /\ polls' = polls + 1 /\ wake' = now + Second
    /\ UNCHANGED <<daemon, foreign, ppc, cpc, pidWritten, mount, mountTick, now>>

(* wait_child: one iteration finding no mount, then a one second sleep.   *)
PollNotMounted ==
    /\ ppc = "wait" /\ now = wake /\ polls < Polls
    /\ ~IsMountpoint
    /\ polls' = polls + 1 /\ wake' = now + Second
    /\ UNCHANGED <<daemon, foreign, ppc, cpc, pidWritten, mount, mountTick, now>>

(* wait_child: `is_mountpoint(&target).unwrap()` finds that `mountpoint`   *)
(* could not run and panics: the parent dies with status 101 and nobody   *)
(* signals the daemon.                                                     *)
PollPanics ==
    /\ ppc = "wait" /\ now = wake /\ polls < Polls
    /\ ppc' = "exit101"
    /\ UNCHANGED <<daemon, foreign, polls, wake, cpc, pidWritten, mount, mountTick, now>>

(* SIGTERM to a pid, as it acts on the process that runs app().           *)
Terminated ==
    /\ cpc' = IF cpc \in {"forked", "init", "mounted"} THEN "killed" ELSE cpc
    /\ IF cpc = "mounted" THEN mount' \in {"none", "stale"} ELSE UNCHANGED mount

(* wait_child after the loop: read and parse the pid file, SIGTERM the pid *)
(* if there is one (an error is only logged), exit 1.                      *)
GiveUp ==
    /\ ppc = "wait" /\ now = wake /\ polls = Polls
    /\ ppc' = "exit1"
    /\ IF pidWritten THEN Terminated ELSE UNCHANGED <<cpc, mount>>
    /\ UNCHANGED <<daemon, foreign, polls, wake, pidWritten, mountTick, now>>

(* Time passes while the parent is not due to run.  main() up to the fork *)
(* takes no time.                                                          *)
Tick ==
    /\ now < MaxTick
    /\ ppc # "start"
    /\ ~(ppc = "wait" /\ now = wake)
    /\ now' = now + 1
    /\ UNCHANGED <<daemon, foreign, ppc, polls, wake, cpc, pidWritten, mount, mountTick>>

Parent ==
    \/ PreCheckFails \/ RefuseMounted \/ RunInForeground \/ Daemonize \/ Reaped
    \/ PollMounted \/ PollNotMounted \/ PollPanics \/ GiveUp
Child == DaemonChild \/ AppFail \/ Mount

Next == Parent \/ Child \/ Tick

Spec == Init /\ [][Next]_vars
-----------------------------------------------------------------------------
(***************************************************************************)
(* wait_child reports success only for a live mount made by its own        *)
(* daemon: exit status 0 of the parent means the daemon is serving the     *)
(* target.                                                                 *)
(***************************************************************************)
SuccessMeansMounted ==
    ppc = "exit0" => cpc = "mounted" /\ mount = "live"

(***************************************************************************)
(* spec.md section 6: in daemon mode "the parent waits up to 5 seconds for *)
(* the mount to appear before killing the child and reporting failure".   *)
(* Once Polls seconds have passed since rfs started, the parent of a      *)
(* daemon has exited.  It is about daemonize's waitpid on the first child  *)
(* and the `_ => {}` arm that lets that child run app().                   *)
(***************************************************************************)
ParentWaitBounded ==
    daemon /\ now > Polls * Second => ppc \in {"exit0", "exit1", "exit101"}

(***************************************************************************)
(* spec.md section 6: "the parent waits up to 5 seconds for the mount to   *)
(* appear before killing the child and reporting failure".  A daemon that *)
(* mounts within Polls seconds of the fork is reported as a success.      *)
(***************************************************************************)
MountWithinWindowSucceeds ==
    (daemon /\ ppc = "exit1" /\ cpc # "none") => mountTick > Polls * Second

(***************************************************************************)
(* spec.md section 6: on failure the parent kills the child.  Once the     *)
(* parent has reported failure, the daemon it started does not go on to    *)
(* serve the target.                                                       *)
(***************************************************************************)
FailureStopsDaemon ==
    ppc = "exit1" => mount # "live"

(***************************************************************************)
(* spec.md section 6: the mount command's exit codes are 0 for success and *)
(* 1 for a pre-flight or mount failure.  It is about wait_child unwrapping *)
(* the result of each mountpoint check.                                    *)
(***************************************************************************)
ExitStatusDocumented ==
    ppc # "exit101"
=============================================================================
