SPECIFICATION Spec
CONSTANTS
    UIDS = {u1, u2}
    BACKUPS = {b1, b2}
    ANSWERS <- MCAnswers
    HEIGHT = 5
    MAX_NEWS = 2
CHECK_DEADLOCK FALSE
INVARIANTS CursorOnAnItem
PROPERTIES DangerIsConfirmed DialogTakesTheKeys SelectionFollowsProfile
