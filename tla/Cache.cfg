\* Two requests and two writers around one month.
SPECIFICATION CacheFairSpec
CONSTANTS
    Keys = {june}
    Readers = {r1, r2}
    Writers = {w1, w2}
    MaxWrites = 2
    Absent = Absent
    NoKey = NoKey
INVARIANTS ServedRecent QuietMeansFresh
PROPERTIES StaleClears
