SPECIFICATION VariantSpec
CONSTANTS
    Variants = {v1, v2}
    Companies = {co1}
    Users = {c1, c2}
    Lists = {l1, l2}
SYMMETRY Symmetry
INVARIANTS
    AssignedHasAccess
    LibraryConsistent
    OnlyApprovedUsed
CHECK_DEADLOCK FALSE
