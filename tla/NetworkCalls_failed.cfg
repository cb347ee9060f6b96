CONSTANT MaxLost = 2
SPECIFICATION Spec
INVARIANT SentOnOpenSession
