CONSTANTS
    niwa1 = niwa1
    niwa2 = niwa2
    claude = claude
    e1 = e1
    e2 = e2
    w1 = w1
    c1 = c1
    k1 = k1
    k2 = k2
    NoLock = NoLock
    Nobody = Nobody
    Key = {k1, k2}
    KeyOf <- FourKeys
    Request <- FourRequests
    Call = {e1, e2, w1, c1}
    MaxPolls = 1
    Process = {niwa1, niwa2, claude}
    ProcessOf <- FourProcesses
    Inode = {1}
    Slow = {}
    Mortal = {}
SPECIFICATION Spec
PROPERTIES AtomicUpdates
CHECK_DEADLOCK FALSE
