CONSTANTS
    Polls <- MCPolls
    TickMs <- MCTickMs
    MaxTick <- MCMaxTick
SPECIFICATION Spec

INVARIANT FailureStopsDaemon

\* After the parent has exited, the daemon serves the mount (or is gone)
\* and nothing changes any more: a real end state of the system.
CHECK_DEADLOCK FALSE
