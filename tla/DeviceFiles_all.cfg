\* Songs, modes and lamps, each with power cuts; lists of up to three lamps.
SPECIFICATION Spec
CONSTANTS
    Kinds <- AllKinds
    Ids <- ThreeIds
    Texts <- ShortAndLong
    Messages <- UpToThree
    Strays <- Either
INVARIANTS
    TypeOK
    InstalledAsSent
PROPERTIES
    DevicesKept
