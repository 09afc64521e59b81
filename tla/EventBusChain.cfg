CONSTANTS
    main = main
    sub = sub
    k1 = k1
    k2 = k2
    c1 = c1
    c2 = c2
    Run = Run
    NoBus = NoBus
    Emitters = {k1, k2}
    Buses = {main, sub}
    Channels = {c1}
    Parent <- MCParent
    Home <- MCHome
    At <- MCAt
    Kinds = {"delta", "note"}
    Critical = {"delta"}
    Wants <- MCWants
    Buffer = 1
    MaxEvents <- MCMaxEvents
    MaxLeaves = 2
    MaxWaiting = 1
    HandlersPanic = TRUE
SPECIFICATION FairSpec
INVARIANTS
    DeliverySound
PROPERTIES
    CriticalArrives
    CallsReturn
CHECK_DEADLOCK FALSE
