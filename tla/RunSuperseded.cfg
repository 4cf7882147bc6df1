SPECIFICATION Spec
CONSTANTS
    Worker = {w1, w2}
    Mode = {chat}
    MaxRuns = 2
    Unread = Unread
PROPERTIES
    SupersededKeepsOff
