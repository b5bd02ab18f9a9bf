\* One producer and one signal, delivered to the main thread.
CONSTANTS
    Producers = {p1}
    Signals = {sigterm}
    Main = main
    Bystander = bystander
    SignalTargets = {main}
    None = None
    MaxPushes = 2
SPECIFICATION FairSpec
PROPERTIES
    StopTakesEffect
\* The handler may wait for a mutex of the thread it has interrupted.
CHECK_DEADLOCK FALSE
