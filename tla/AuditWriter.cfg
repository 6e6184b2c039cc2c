SPECIFICATION FairSpec
CONSTANTS
    t1 = t1  t2 = t2
    NoTenant = NoTenant
    Tenants <- TwoTenants
    BufferSize = 2
    FlushBatch = 2
    MaxActive = 2
    MaxEntries = 3
    DBFails = TRUE
CHECK_DEADLOCK FALSE
INVARIANTS TypeOK EveryEntryAccountedFor TenantLogInOrder
PROPERTY EarlyEntriesAreWritten
