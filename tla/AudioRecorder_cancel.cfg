SPECIFICATION AudioSpec
CONSTANTS
    Recordings = {r1, r2}
    Dialogs = {c1, c2}
    Pieces = 1
    NoDialog = NoDialog
    NoRecording = NoRecording
INVARIANTS
    CancelledIsNotSent
CHECK_DEADLOCK FALSE
