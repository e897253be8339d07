SPECIFICATION Spec
CONSTANTS
    clock = clock
    battery = battery
    background = background
    test = test
    Names <- Files
    NoName = NoName
    MaxFns = 2
    NRuns = 6
    NObjs = 11
SYMMETRY Symmetry
INVARIANTS
    NoDangling
    NoLeak
PROPERTIES
    OthersKeepHooks
    PanicOnlyWhenRefused
