\* A restart with devices in two plugins.
SPECIFICATION Spec
CONSTANTS
    d1 = d1  d2 = d2  d3 = d3  d4 = d4
    Device = {d1, d2, d3, d4}
    Plugins <- MCPlugins
    ShortInterval = {}
    MaxConcurrent = 1
    MaxStarts = 3
INVARIANT ScheduledHasJob
