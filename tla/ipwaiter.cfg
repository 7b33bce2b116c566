SPECIFICATION FairSpec
CONSTANTS
    Slots <- Wanted
    Required = {"v4", "v6"}
    Addresses = {"a4", "b4", "a6", "st", "ll", "xx"}
    SlotOf <- Filled
    Stray = {"xx"}
INVARIANTS TriggersOnce EndsWithAllAddresses
PROPERTIES WaitEnds
CHECK_DEADLOCK FALSE
