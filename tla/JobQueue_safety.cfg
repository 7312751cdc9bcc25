CONSTANTS
    Jobs = {j1}
    Workers = {w1, w2}
    Relays = {r1}
    MaxAttempts = 2
    BatchSize = 2
    MaxFaults = 2
    MaxLosses = 0
SPECIFICATION Spec
SYMMETRY ProcessSymmetry
PROPERTIES TerminalFrozen PromiseKept
