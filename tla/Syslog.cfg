\* Two addresses, a list that changes twice, one TCP connection.
SPECIFICATION FairSpec
CONSTANTS
    Address = {a1, a2}
    Connection = {c1}
    Char = x  Newline = nl
    MaxTcpSize = 2
    MaxSent = 5
    MaxListChanges = 2
INVARIANTS TypeOK Framed OnlyListedSources
PROPERTY RefreshConverges
