\* Liveness of every call, with mount and umount commands that may be
\* killed by their timeout after taking effect.
CONSTANTS
    Users = {u1}
    Procs = {p1, p2}
    AccountBackend = "cephfs"
    DefaultBackend = "posix"
    LateTimeouts = TRUE
    MaxHandles = 2
    NoProc = NoProc
    NoHandle = NoHandle
    NoConfig = NoConfig
    Templates <- MCTemplates
    MultiTenantEnabled = TRUE
SPECIFICATION Spec
PROPERTY CallsReturn
