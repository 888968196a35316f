CONSTANTS
    MaxHeaders = 2
    MaxHeaderLine = 3
    Npos = 40
    MaxRequest = 26
    MaxFlawed = 12
    MaxDepth = 1
    IntDigits = 2
    MaxJson = 7
    MaxQuery = 6
    MaxBody = 27
    MaxContent = 2
    MaxPieces = 3
    MaxFileBytes = 20
    MaxPasses = 3
    Modules <- MCModules
    Others <- MCOthers
    Variables <- MCVariables
SPECIFICATION Spec
INVARIANTS AcceptedIffWellFormed NoFalseAlarm JsonIsStrict JsonRoundTrip QueryIsDecoded MultipartIsSplit ComposedAsWritten ValuesAreInert
PROPERTIES CutIsStable
CHECK_DEADLOCK FALSE
