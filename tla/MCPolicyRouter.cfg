CONSTANTS
    V4 = {a, b}
    V6 = {x}
    MaxCopies = 2
    Backends = {"iproute2", "nftables"}
    Faults = {"command", "read", "crash", "reboot"}
SPECIFICATION Spec
INVARIANT CommonUntouched
PROPERTIES
    NoNewDrift
    FlushDropsStale
