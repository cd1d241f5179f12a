\* Two names, two entries, two readers; any number of crashes and restarts.
SPECIFICATION Spec
CONSTANTS
    n1 = n1
    n2 = n2
    e1 = e1
    e2 = e2
    None = None
    Names = {n1, n2}
    Entries = {e1, e2}
    Readers = {r1, r2}
INVARIANTS
    TypeOK
    FoundIsThere
    ThirdStartSettles
PROPERTIES
    EntriesStandWhileUp
    SettledStands
