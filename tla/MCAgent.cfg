CONSTANTS
    MaxRequests = 2
    Questions = {q1, q2}
    MaxMoves = 4
    MaxEvents = 6
SYMMETRY Symmetry
SPECIFICATION Spec
INVARIANTS TypeOK PromptedOnce LiveCardSurvives CompletedIsTrue
PROPERTIES CancelSticks StopIsFinal NoMessageStranded
