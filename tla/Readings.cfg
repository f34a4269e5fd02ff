\* Pairs of OIDs of every kind and plugin, two collections.
SPECIFICATION FairSpec
CONSTANTS
    Targets <- MCTargets
    AnswersOf <- MCAnswers
    Retries = 1
    MaxCollections = 2
    MaxDeviceChanges = 1
    MayTimeOut = TRUE
INVARIANTS TypeOK UptimesAreRead ReadingsAreCurrent FailuresAreLocal AbsentIsNotMeasured
PROPERTY CollectionEnds
