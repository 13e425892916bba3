SPECIFICATION MonitoredSpec
CONSTANTS
    Main = Main
    Handlers = {h1}
    Workers = {w1, w2}
    Cap = 1
INVARIANTS
    CountsExact
PROPERTIES
    EnqueueReturns
    HalvesAgree
    ShownStopped
