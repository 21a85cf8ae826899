SPECIFICATION FairSpec
CONSTANTS
    Mimes = {text, html}
    MaxReceives = 3
    Sizes <- MCSizes
INVARIANTS Intact Tidy
PROPERTY ReceiveAnswered
CHECK_DEADLOCK FALSE
