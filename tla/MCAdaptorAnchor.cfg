CONSTANTS
    Clients = {c1, c2, c3}
    Instances = {i1, i2, i3}
    NoInstance = NoInstance
    MaxLeaks = 1
SPECIFICATION Spec
SYMMETRY Symmetry
INVARIANTS AnchorInv ReferenceCountExact NoUseAfterDestroy DestroyedOnce NothingLost
PROPERTY LeaseSpec
