SPECIFICATION Spec
CONSTANTS
    NULL = NULL
    linkedlist = linkedlist
    slabdesc = slabdesc
    cpt = cpt
    tt = tt
    slab_cache = slabdesc
    Page = 12
    DescSize = 3
    ByteBits = 2
    Align = 1
    OffSize = 4
    MaxMalloc = 4
    Order <- MCOrder
    Size <- MCSize
    NoMalloc = {tt}
    OffSlab = {}
    Typed = {linkedlist, cpt, tt}
    Boot <- MCBoot
    Requests = {4}
    HeapEnd = 5
    MaxHeld = 3
INVARIANTS
    OneList
    LiveMarked
    NoOverlap
CHECK_DEADLOCK FALSE
