CONSTANTS
    vim = vim
    vimx = vimx
    Threads = {t1, t2}
    Packages = {vim, vimx}
    Similar <- SimilarNames
    Requires <- Required
    Columns <- OtherColumns
    Patterns <- SomePatterns
    Setups <- SomeHosts
    MaxCalls = 1
SPECIFICATION Spec
INVARIANTS
    ProperManager
PROPERTIES
    AnswersTruthful
CHECK_DEADLOCK FALSE
