\* One caller adds a fact, a column conf is added, and the fact is deleted.
CONSTANTS
    Admins = {a1}
    Keys = {"k1"}
    Dims = {"d1"}
    Cols <- MCCols
    Vals = {"v1"}

SPECIFICATION Spec
INVARIANT NoOrphanCols
