SPECIFICATION Spec
CONSTANTS
    Symbols <- MCSymbols
    Slots <- MCSlots
    SlotsOf <- MCSlotsOf
    Streams <- MCStreams
    MaxReads = 3
INVARIANTS TypeOK FilterIsTelnet TextIsWhole PromptIsNewest EquipmentIsNewest HeldIsStable
CHECK_DEADLOCK FALSE
