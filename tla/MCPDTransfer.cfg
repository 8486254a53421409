CONSTANTS
    PDReqs <- MCPDReqs
    PDKeysOf <- MCPDKeysOf
    PDBuffers = 4
    MaxPreempts = 0
SPECIFICATION PDSpec
INVARIANT DecodeReadsWritten
CHECK_DEADLOCK FALSE
