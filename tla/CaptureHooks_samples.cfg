CONSTANTS
    Units <- MCUnits
    Room = 1
    MaxEvents = 2
    FieldLen = 11
    PrefixLen = 11
    MinRequestLine = 4
    MethodLen = 3
    MaxHeaders = 4
    Messages <- MCMessages
    Buffers <- MCBuffers
    HeaderArrays <- MCHeaderArrays
    Requests <- MCRequests
    WalkDepth = 3
    PathLen = 5
    ExecPathLen = 4
    SunPathLen = 2
    ArgvLen = 3
    PayloadLen = 4
    PerIov = 2
    MaxIov = 3
    Dentries <- MCDentries
    Strings <- MCStrings
    Addresses <- MCAddresses
    Argvs <- MCArgvs
    Sends <- MCSends
SPECIFICATION Spec
INVARIANTS HttpSampleExact CompleteOrFlagged DnsPayloadLogical 
CHECK_DEADLOCK FALSE
