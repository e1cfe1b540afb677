\* Every message with parts of up to two units, and huge files.
SPECIFICATION Spec
CONSTANTS
    IntSize = 2
    Half = 32
    Limit = 19
    Sizes <- MCSizes
    DataSizes <- MCDataSizes
    MaxNames = 2
    MaxNoise = 7
INVARIANTS TypeOK AcceptedIsSent SentIsAccepted
