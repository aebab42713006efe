CONSTANTS
    None = None
    Absent = Absent
    Null = Null
    Creators = {c1, c2, c3}
    Editors = {x1}
    Emails = {e1, e2}
    Phones = {f1}
    CallsFail = TRUE
CHECK_DEADLOCK FALSE
SPECIFICATION UsersSpec
SYMMETRY Symmetry
INVARIANTS ContactsUnique
