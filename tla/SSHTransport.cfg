SPECIFICATION Spec
CONSTANTS
    MaxCalls = 4
    MaxConns = 3
INVARIANTS TypeOK HeldIsNotClosed OneConnection NothingOutlivesCall
PROPERTIES CancelledCallIsInert CancelReturnsUnlessSftp
