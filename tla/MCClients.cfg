SPECIFICATION Spec
CONSTANTS
    Cards = {card1, card2}
    ShortTTL = 1
    HourTTL = 2
    MaxTime = 3
    Sockets = {probe1, probe2, probe3, probe4}
    probe1 = probe1
    NoSocket = NoSocket
    MaxLosses = 2
    MaxRetries = 2
    Forms <- MCForms
    Env <- MCEnv
    Fallback <- MCFallback
    url = url
    jito = jito
    tip = tip
    text = text
    RpcField = url
    Texts = {text}
    Unset = Unset
    Empty = Empty
    MaxSaves = 2
    MaxEdits = 2
    MaxMishaps = 1
    ToastLimit = 1
    IdLimit = 3
    Signals = {signal1, signal2}
    Posted = posted
    Attempts = 2
    Threshold = 2
    MaxFaults = 3
    Files = {file1, file2}
    Path = file1
    MaxFileEdits = 2
    MaxThrows = 1
    Orders = {order1, order2}
    NoOrder = NoOrder
    MaxClicks = 2
CHECK_DEADLOCK FALSE
INVARIANTS
    ClientsTypeOK
    KeyIsKept
    ScreensAreTrue
    
    BreakerFollowsResults
PROPERTIES
    ClientSteps
    ClientsSettle
