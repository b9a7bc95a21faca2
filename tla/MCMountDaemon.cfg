CONSTANTS
    Polls <- MCPolls
    TickMs <- MCTickMs
    MaxTick <- MCMaxTick
SPECIFICATION Spec
INVARIANT TypeOK
INVARIANT SuccessMeansMounted
\* After the parent has exited, the daemon serves the mount (or is gone)
\* and nothing changes any more; a parent blocked on a first child that
\* mounted waits for good: real end states of the system.
CHECK_DEADLOCK FALSE
