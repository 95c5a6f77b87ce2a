\* A multitenant.json whose default account backend is the unimplemented
\* rustfs, and a --default-backend the auth manager rejects.
CONSTANTS
    Users = {u1, u2, u3}
    Procs = {p1, p2, p3}
    AccountBackend = "rustfs"
    DefaultBackend = "gpfs"
    LateTimeouts = FALSE
    MaxHandles = 2
    NoProc = NoProc
    NoHandle = NoHandle
    NoConfig = NoConfig
    Templates <- MCTemplatesWithRustFS
    MultiTenantEnabled = TRUE
SPECIFICATION Spec
SYMMETRY MCSymmetry
INVARIANT TypeOK
