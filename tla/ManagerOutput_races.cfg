SPECIFICATION FairSpec
CONSTANTS
    Flushers = {f1}
    Closers = {c1}
    NumEmits = 3
    FinalRecord = TRUE
    Size <- SizeMC
    ChannelCap = 2
    Threshold = 3
    HasInterval = TRUE
    MaxFailures = 2
INVARIANTS CloseDelivers FlushAnswered
PROPERTIES InOrder RecordsDelivered CallersReturn
