CONSTANTS
    Payload = 5
    MaxWords = 15
    Hosts = {"flags", "packs", "straddles"}
    MaxFrame = 3
    MaxSession = 2
    Images = 3
SPECIFICATION PyroSpec
INVARIANTS ParsedOK PyroWaveOK GpuObjectsOK
PROPERTY PyroWaveMoves
CHECK_DEADLOCK FALSE
