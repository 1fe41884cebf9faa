CONSTANTS
    l1 = l1  r1 = r1  d1 = d1  d2 = d2
    f1 = f1  f2 = f2  va = va  vb = vb  ve = ve
    Loads = {l1}
    Refreshes = {l1}
    Runs = {r1}
    Docs = {d1}
    Files = {f1}
    Versions = {va, vb, ve}
    Empty = ve
    MaxItems = 3
    MaxChanges = 2
SPECIFICATION TreeSpec
SYMMETRY Symmetric
INVARIANTS
    TreeIsCurrent
    TreeIsComplete
