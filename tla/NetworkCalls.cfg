CONSTANT MaxLost = 2
SPECIFICATION BridgeSpec
INVARIANTS
    SessionHeld
    LeavesMatchEnters
    BridgeAnswers
 
