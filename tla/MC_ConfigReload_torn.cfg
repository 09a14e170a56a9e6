\* A reader of current()'s reference racing reload(): torn snapshot.
CONSTANTS
    Readers = {r1}
    Reloaders = {w1}
    Files <- MCFiles
    Layout <- MCLayout
    NoThread = NoThread
    Default = Default
    MaxReloads = 1
    MaxReads = 1
INIT Init
NEXT Next
INVARIANT ConsistentSnapshot
