SPECIFICATION Spec
CONSTANTS
    Stores <- MCStores
    LogicalSize = 8
    Radix = 2
    Small = 2
    MaxWrites = 3
INVARIANTS LogPlaysBack WritesBlank
PROPERTIES ImplementsEeprom
CHECK_DEADLOCK FALSE
