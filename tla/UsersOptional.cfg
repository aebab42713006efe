CONSTANTS
    None = None
    Absent = Absent
    Null = Null
    Creators = {c1, c2}
    Editors = {x1}
    Emails = {e1, e2}
    Phones = {f1, f2}
    CallsFail = FALSE
CHECK_DEADLOCK FALSE
SPECIFICATION UsersSpec
SYMMETRY Symmetry
INVARIANTS OptionalContacts
