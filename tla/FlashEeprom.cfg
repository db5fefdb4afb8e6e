\* Two cells of two bytes, written by bytes and by words, and a log of three entries:
\* direct and log writes, full logs, compaction, damaged and torn words, and power
\* lost at every flash operation.
CONSTANTS
    NCells = 2
    Offsets = {0, 1}
    Spans = {{0}, {0, 1}}
    MaxValue = 1
    LogPages = 1
    PageSlots = 3
SPECIFICATION Spec
INVARIANTS TypeOK Durable
PROPERTIES ImplementsEeprom ProgramsErasedOnly
