SPECIFICATION Spec
CONSTANTS
    Workers = {w1, w2}
    ClientIds = {c1}
    Requests = {"submit", "cancel", "sync"}
    LostReplies = FALSE
    None = None
PROPERTY
    TerminalIsFinal
