\* The nftables backend alone, with no fault at all.
SPECIFICATION Spec
CONSTANTS
    V4 = {a, b}
    V6 = {x}
    MaxCopies = 1
    Backends = {"nftables"}
    Faults = {}
PROPERTY ReapplyIdempotent
