\* Chains of three expanders, the last DOUT connected to nothing.
CONSTANTS
    Netlists <- OpenChains
    MemoryLimit = 4
SPECIFICATION FairOrderSpec
PROPERTY NoDinEndsTheChain
