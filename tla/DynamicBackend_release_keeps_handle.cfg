CONSTANTS
    Users = {u1, u2}
    Procs = {p1, p2}
    AccountBackend = "cephfs"
    DefaultBackend = "posix"
    LateTimeouts = FALSE
    MaxHandles = 3
    NoProc = NoProc
    NoHandle = NoHandle
    NoConfig = NoConfig
    Templates <- MCTemplates
    MultiTenantEnabled = TRUE
SPECIFICATION Spec
SYMMETRY MCSymmetry
PROPERTY ReleaseRemovesHandle
