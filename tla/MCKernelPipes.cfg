SPECIFICATION Spec
CONSTANTS
    Trips = 3
    FlagLimit = 2
INVARIANTS
    BuffersInOrder
    FlagsNotOverrun
    NeverStuck
    FlagsGivenBack
