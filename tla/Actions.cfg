CONSTANTS
    Keys = {"k1", "k2", "k3", "k4"}
    Mods = {"shift", "ctrl"}
    Keymaps <- MCKeymaps
    MaxTaps <- MCMaxTaps
    TapToggle = 2
    Waiting = 2
SPECIFICATION Spec
INVARIANTS NothingStuck HostSettles LayersSettle
PROPERTY OneShotUsedOnce
