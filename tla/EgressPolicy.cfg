SPECIFICATION Spec
CONSTANTS
    Absent = Absent
    None = None
    Names <- McNames
    Patterns <- McPatterns
    Padded <- McPadded
    Dotted <- McDotted
    Matches <- McMatches
    Canon <- McCanon
    Wildcard <- McWildcard
    Starred <- McStarred
    Literal <- McLiteral
    CredNames <- McCredNames
    Files <- McFiles
    Edits <- McEdits
    MaxEdits = 1
    Answers <- McAnswers
    Uid <- McUid
    Peers <- McPeers
    Targets <- McTargets
    PeerTarget <- McPeerTarget
    Misses <- McMisses
    MaxMisses = 1
CHECK_DEADLOCK FALSE
INVARIANTS
    AcceptedMeansWhatItSays
    ArmedAgrees
    ReachIsConfined
PROPERTIES
    VmStartFailsOnlyOnDns
    PeersUntouched
