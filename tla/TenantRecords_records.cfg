\* One tenant with two writers, the templates posix and cephfs with posix
\* accounts, a quota of 2 and objects of 1 or 2 bytes, failing file writes
\* and removes, one crash, three storage records, and a fresh or an
\* existing installation.  Tenants share nothing but the process, so one
\* is enough; two writers make CheckQuota and UpdateUsedSpace race.
CONSTANTS
    Users = {u1}
    Writers = {w1, w2}
    TemplateNames = {"posix", "cephfs"}
    AccountType = "posix"
    RegistryDefault = "posix"
    Quota = 2
    Sizes = {1, 2}
    FileFaults = TRUE
    MaxRestarts = 1
    MaxRecords = 3
    MaxStored = 4
    None = None
SYMMETRY MCSymmetry
SPECIFICATION Spec
INVARIANT CacheCoherent
INVARIANT UsedWithinRaceBound
