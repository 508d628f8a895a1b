SPECIFICATION FairSpec
CONSTANT MaxBorn = 3
PROPERTIES
    ForkReapIsConfirmed
    SweepSparesOwnClaim
    OrphanIsReclaimed
