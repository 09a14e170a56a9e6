\* reload() racing readers and edits of the file: all-or-nothing reload.
CONSTANTS
    Readers = {r1}
    Reloaders = {w1}
    Files <- MCFiles
    Layout <- MCLayout
    NoThread = NoThread
    Default = Default
    MaxReloads = 3
    MaxReads = 2
INIT Init
NEXT Next
INVARIANT ReloadAllOrNothing
