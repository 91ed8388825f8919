\* No entry is stale after invalidate(): one that was being filled may be.
SPECIFICATION CacheFairSpec
CONSTANTS
    Keys = {june}
    Readers = {r1, r2}
    Writers = {w1, w2}
    MaxWrites = 2
    Absent = Absent
    NoKey = NoKey
INVARIANT NoStaleEntry
