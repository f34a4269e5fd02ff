\* A known device is enabled or disabled.
SPECIFICATION FairSpec
CONSTANTS
    d1 = d1  d2 = d2  d3 = d3
    Device = {d1, d2}
    Groups <- MCTwoGroups
    Configs <- MCSwitches
    NoPlugin = {}
    NoVersion = NoVersion
    ShortInterval = {}
    MaxConcurrent = 1
    MaxStarts = 2
    MaxChanges = 1
    MaxRoleChanges = 0
PROPERTY EnabledDevicesPolled
