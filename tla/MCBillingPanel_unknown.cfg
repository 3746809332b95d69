\* A status that could not be read is shown as no subscription.
SPECIFICATION Spec
CONSTANTS
    Workspaces = {w1}
    MaxSeats = 3
    MaxClicks = 4
    None = None
PROPERTY NoneIsNotUnknown
CHECK_DEADLOCK FALSE
