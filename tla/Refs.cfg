CONSTANTS
    m = m
    r = r
    s = s
    w = w
    x = x
    y = y
    z = z
    Threads = {m, r, s}
    Zones = {w, x, y, z}
    Owner <- MCOwner
    Writer = m
    Emptiers = {m}
    TrashSize = 2
    Locked = TRUE
    Uses <- MCUses
SPECIFICATION FairSpec
INVARIANTS
    NoDangling
    CountsAreRight
PROPERTIES
    TrashIsEmptied
