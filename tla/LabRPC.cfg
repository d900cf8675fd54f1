SPECIFICATION FairSpec
CONSTANTS
    e1 = e1
    End = {e1}
    ServerName = {srv}
    NoName = none
    Request = {c1, h}
    EndOf <- OneEnd
    Hangs = {h}
    MaxServers = 2
    MaxSwitches = 3
INVARIANTS
    PositiveIsKept
PROPERTIES
    CallReturns
    HandlersEnd
CHECK_DEADLOCK FALSE
