SPECIFICATION Spec
CONSTANTS
    Fanout = 2
    FirstFree = 1
    MaxFrames = 13
    RamSizes = {13}
    IdentityEnd = 4
    HeapPages = {2}
    ImagePages = {4, 8}
    StackPages = {6}
    TlbSize = 1
INVARIANTS KernelStackPrivate
