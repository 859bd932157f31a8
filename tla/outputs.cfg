CONSTANTS
    Ring = 6
    Grain = 2
    Longest = 9
    MaxDecoded = 54
    Hosts = {"steady", "quantized", "changing"}
    Paces = {15000, 18333, 33333}
    Window = 100000
    Confirmation = 300000
    Periods = {16666, 17600, 25000, 33333, 62500, 111111, 200000}
    Cadences = {16666, 33333}
    Arrivals = {1, 13000}
    Jitters = {0, 1000}
    Grace = 1500
    MostFailures = 1
    Reserve = 8000
    Punctual = {0, 250}
    Tardy = {0, 5000}
    Jitter = {0, 2000, 5000}
    Spikes = {9000, 18000}
    Shifts = {0, 5000, 12000, 150000}
    Samples = 4
    Enough = 3
    Cap = 500
    Percentile = 95
    MaxSent = 3
    MaxSession = 2
    FailureLimit = 2
    SuspendFails = TRUE
SPECIFICATION OutputsSpec
INVARIANTS SoundOK PaceOK GridOK ReserveOK PresenterOK
CHECK_DEADLOCK FALSE
