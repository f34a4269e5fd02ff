\* Restarts, reconfiguration and a device with a short interval.
SPECIFICATION FairSpec
CONSTANTS
    d1 = d1  d2 = d2  d3 = d3  d4 = d4
    Device = {d1, d2, d3, d4}
    Plugins <- MCPlugins
    ShortInterval = {d3}
    MaxConcurrent = 1
    MaxStarts = 3
INVARIANTS SlotsConserved NoOrphanJob
PROPERTY EveryDevicePolled
