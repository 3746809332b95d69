\* The new owner leaves between the checks of a transfer and its writes.
CONSTANTS
    Nobody = Nobody
    Gone = Gone
    Users = {u1, u2}
    Spaces = {w1}
    PreviewRows = 9
    MaxTransfers = 1
SPECIFICATION SmallSpec
INVARIANTS ExactlyOneOwner
SYMMETRY Alike
CHECK_DEADLOCK FALSE
