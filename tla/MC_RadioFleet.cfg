CONSTANTS
    r1 = r1
    r2 = r2
    r3 = r3
    RadioIds = {r1, r2, r3}
    ConfigRadios <- MCConfigRadios
    Callers = {c1, c2}
    App = App
    PowerInputs <- MCPowerInputs
    ChannelInputs = {3}
    MaxCalls = 3
    NoRadio = NoRadio
    NoThread = NoThread
    Unset = Unset
SPECIFICATION Spec
INVARIANTS
    TypeOK
    ActiveRadioRegistered
    NeverObservedBusy
PROPERTIES
    StartLeavesAllReady
    
