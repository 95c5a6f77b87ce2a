\* One tenant with two writers and no crash: two PUTs race on the
\* read-modify-write of UsedSpace.
CONSTANTS
    Users = {u1}
    Writers = {w1, w2}
    TemplateNames = {"posix", "cephfs"}
    AccountType = "posix"
    RegistryDefault = "posix"
    Quota = 2
    Sizes = {1, 2}
    FileFaults = FALSE
    MaxRestarts = 0
    MaxRecords = 3
    MaxStored = 4
    None = None
SYMMETRY MCSymmetry
SPECIFICATION Spec
INVARIANT StoredWithinQuota
