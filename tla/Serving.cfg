SPECIFICATION ServingFairSpec
CONSTANTS
    Routes = {r1, r2}
    Templates = {t1, t2}
    ColdStartSlots = 1
    Idler = Idler
INVARIANTS
    ServingMeansCurrentPod
PROPERTIES
    EveryRouteIsAnswered
