\* Two producers and one signal, delivered to any thread; a handler on top of the
\* second producer is one on top of the first with the names exchanged.
CONSTANTS
    Producers = {p1, p2}
    Signals = {sigterm}
    Main = main
    Bystander = bystander
    SignalTargets = {main, p1, bystander}
    None = None
    MaxPushes = 2
SPECIFICATION FairSpec
INVARIANTS
    TypeOK
    NoDataRace
    NoPopOnEmpty
    NothingLostOrReordered
    IssueOrder
    NoLostWakeup
PROPERTIES
    ImplementsPipeline
    ImplementsFairPipeline
    StopTakesEffectOrSelfDeadlock
    EveryEventHandled
\* A handler may wait for a mutex of the thread it has interrupted.
CHECK_DEADLOCK FALSE
