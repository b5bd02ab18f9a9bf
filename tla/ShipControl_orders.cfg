\* A Maestro, a GPIO engine on a software PWM that may throw, a GPIO rudder on
\* a hardware PWM, a relay that may throw; two events of any kind, one query.
CONSTANTS
    N = 3
    Maestro = {1}
    Engines = {2}
    Rudders = {3}
    SoftPWM = {2}
    Faulty = {0, 2}
    HasCooling = TRUE
    MaxLevel = 1
    Orders <- AllOrders
    MaxOrders = 2
    Clients = {c1}
    MaxQueries = 1
SPECIFICATION FairSpec
INVARIANTS
    TypeOK
    ControllersAgree
    OneOrderAtATime
    CoolingCoversMotion
    ExitStopsEngines
PROPERTIES
    ImplementsHelm
    StopStopsEngines
    EveryOrderObeyed
