\* One tenant with one writer, no file faults and one crash: the gateway
\* restarts after the tenant's account was created.
CONSTANTS
    Users = {u1}
    Writers = {w1}
    TemplateNames = {"posix", "cephfs"}
    AccountType = "posix"
    RegistryDefault = "posix"
    Quota = 2
    Sizes = {1, 2}
    FileFaults = FALSE
    MaxRestarts = 1
    MaxRecords = 3
    MaxStored = 4
    None = None
SYMMETRY MCSymmetry
SPECIFICATION Spec
INVARIANT RecordMatchesConfig
