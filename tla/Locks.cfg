\* Every fault, keys that lapse under their owners included.
SPECIFICATION LocksSpec
CONSTANTS
    Null = Null
    Seats = {s1, s2}
    Ops = {o1, o2, o3}
    Faults = {"ttl", "crash", "redis"}
PROPERTY OnlyOwnerReleases
