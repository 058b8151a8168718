CONSTANTS
    HeapSize = 8421376
    MaxAllocs = 12
    QpCount = 3
    NumRanks = 3
    Entries = 16384
    EntryBytes = 64
    Page = 4096
    DbrSize = 8
    Rank = 1
    Hosts <- AllHosts
    Failures <- AllFailures
    MaxUpdates = 2
    IpcOutcomes = {"ok", "noAccess"}
SPECIFICATION Spec
INVARIANTS
    TypeOK
    RingsPlaced
    DevctxCurrent
    NothingLeaked
    ContextAsIntended
    FastPathReaches
    MemoryUndone
