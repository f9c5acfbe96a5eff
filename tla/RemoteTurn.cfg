CONSTANTS
    MaxTurns = 2
    MaxDrops = 1
    MaxStops = 1
    MaxCrashes = 1
    MaxStarts = 1
SPECIFICATION FairSpec
INVARIANTS ResultIsOwnUnlessMixed NoFalseLoss KillsOnlyStopped
PROPERTIES EveryTurnEnds
CHECK_DEADLOCK FALSE
