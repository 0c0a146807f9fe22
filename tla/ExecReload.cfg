\* The address layout of the kernel, scaled: a page table spans 8 pages.
CONSTANTS
    FirstFree = 2
    RamSizes = {64}
    Span = 8
    IdentityEnd = 40
    HeapPage = 32
    ImagePage = 40
    UserStack = 64
    ChildStack = 68
    ShellPages = 2
    HelloPages = 1
    StackPages = 2
    MaxPrograms = 6
SPECIFICATION Spec
INVARIANTS
    ShellRestored
