\* The configuration changes twice and the role once, stop() comes at any time; d1 is refused by APScheduler, the plugin of d3 not found.
SPECIFICATION FairSpec
CONSTANTS
    d1 = d1  d2 = d2  d3 = d3
    Device = {d1, d2, d3}
    Groups <- MCGroups
    Configs <- MCComings
    NoPlugin = {d3}
    NoVersion = NoVersion
    ShortInterval = {d1}
    MaxConcurrent = 1
    MaxStarts = 2
    MaxChanges = 2
    MaxRoleChanges = 1
INVARIANTS TypeOK FlagsAgree
PROPERTIES MembershipConverges RoleConverges StoppedForGood
