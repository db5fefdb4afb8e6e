\* Two keymap bytes; two firmware builds of one day and one of another month.
CONSTANTS
    KeyBytes <- MCKeyBytes
    Firmware = {1, 2, 3}
    Date <- MCDate
SPECIFICATION Spec
INVARIANTS MagicMeansGoodData FreshAfterReset
