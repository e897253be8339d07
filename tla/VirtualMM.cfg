SPECIFICATION Spec
CONSTANTS
    s1 = s1
    s2 = s2
    page1 = page1
    page2 = page2
    Spaces <- MCSpaces
    Pages <- MCPages
    Kernel = Kernel
    KernelSections = {k1, k2}
    UserSections = {u1}
    Slots = {0, 1}
    NCpts = 3
    TablesRead = 4
    NoPage = NoPage
SYMMETRY Symmetry
INVARIANTS
    KernelMapped
    CptsExact
PROPERTIES
    ImplementsAddressSpaces
CHECK_DEADLOCK FALSE
