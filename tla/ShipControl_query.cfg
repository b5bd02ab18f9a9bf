\* One client queries while two events change the speed and the steering.
CONSTANTS
    N = 3
    Maestro = {1}
    Engines = {2}
    Rudders = {3}
    SoftPWM = {2}
    Faulty = {}
    HasCooling = TRUE
    MaxLevel = 1
    Orders <- FewOrders
    MaxOrders = 2
    Clients = {c1}
    MaxQueries = 1
SPECIFICATION Spec
INVARIANTS
    ReplyIsSnapshot
