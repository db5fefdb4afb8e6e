CONSTANTS
    ALGORITHMS = {"none", "sym_defer_g", "sym_defer_pk", "sym_defer_pr", "sym_eager_pk", "sym_eager_pr", "asym_eager_defer_pk"}
    Keys <- MCRow
    DEBOUNCE = 3
    UINT8_MAX = 4
    MaxStep = 5
SPECIFICATION Spec
INVARIANTS Settles NoChatter Prompt
PROPERTIES NoiseResistant
