SPECIFICATION Spec
CONSTANTS
    p1 = p1
    p2 = p2
    Procs = {p1, p2}
    Offered <- TwoProcs
    Base <- MCBase
    MaxTokens = 3
INVARIANT OnlyOneUnlessRaced
INVARIANT FrontsAgree
INVARIANT ApiKeepsOut
INVARIANT LookersChangeNothing
CHECK_DEADLOCK TRUE
