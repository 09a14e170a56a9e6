CONSTANTS
    Nums = {15, 300}
    Ports <- MCPorts
    Secrets <- MCSecrets
    Absent = Absent
    NaN = NaN
    Huge = Huge
    Empty = Empty
    Wrapped = Wrapped
SPECIFICATION Spec
INVARIANT FailedLoadUsesDefaults
