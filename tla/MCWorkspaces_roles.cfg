\* Three users and one transfer at a time; two users and two transfers; or two
\* users, one transfer, Team payments and previews that fail.
CONSTANTS
    Nobody = Nobody
    Gone = Gone
    Users = {u1, u2, u3}
    Spaces = {w1}
    PreviewRows = 2
    MaxTransfers = 2
SPECIFICATION SmallSpec
INVARIANTS OwnersAgree
PROPERTIES RolesAreGiven DeletionsSpareOthers
SYMMETRY Alike
CHECK_DEADLOCK FALSE
