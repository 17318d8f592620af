SPECIFICATION Spec
CONSTANTS
    b1 = b1
    b2 = b2
    btcidr = btcidr
    ethidr = ethidr
    Bots = {b1, b2}
    Live = {b1}
    Pairs = {btcidr, ethidr}
    PairOf <- OnePairEach
    Requests = {r1, r2}
    MaxRequests = 4
    MaxInstances = 2
    MaxCrashes = 1
INVARIANT LifecycleInv
INVARIANT StatusIsTrue
 
INVARIANT TradesOnlyIfWanted
CHECK_DEADLOCK FALSE
SYMMETRY AnyRequest
