SPECIFICATION Spec
CONSTANTS
    Start = 128
    InitialSize = 128
    MaxSize = 256
    PageSize = 64
    HeaderSize = 16
    MinBlock = 32
    Align = 8
    Sizes = {1, 37, 72}
INVARIANTS LiveBacked
