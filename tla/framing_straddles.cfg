CONSTANTS
    Payload = 5
    MaxWords = 15
    Hosts = {"straddles"}
SPECIFICATION Spec
INVARIANT StraddlersLoseTheRest
CHECK_DEADLOCK FALSE
