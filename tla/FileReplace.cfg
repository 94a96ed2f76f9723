\* WriteAtomic beside GetOrExtract on one path, with failures and deaths.
SPECIFICATION Spec
CONSTANTS
    a1 = a1
    a2 = a2
    c1 = c1
    r1 = r1
    d1 = d1
    d2 = d2
    None = None
    Inode = {i1, i2, i3}
    Writer = {a1, c1}
    Cached = {c1}
    Tidy = {a1}
    Reader = {r1}
    Data = {d1, d2}
    Outcome <- Either
    Parts = 2
SYMMETRY Symmetry
INVARIANTS
    TypeOK
    FileIsWhole
    ReadsAreWhole
