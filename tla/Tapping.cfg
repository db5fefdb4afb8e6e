CONSTANTS
    PlainKeys = {b}
    ModKeys = {m}
    ModTapKeys = {a}
    LayerTapKeys = {l}
    TAPPING_TERM = 6
    QUICK_TAP_TERM = 4
    WAITING_BUFFER_SIZE = 8
    MaxTapCount = 3
    Builds = {{}, {"HOLD_ON_OTHER_KEY_PRESS"}, {"IGNORE_MOD_TAP_INTERRUPT"}}
    Crowded = {{"HOLD_ON_OTHER_KEY_PRESS"}}
SPECIFICATION Spec
INVARIANTS NothingStuck NoEventLate
PROPERTY PressesInOrder
