SPECIFICATION Spec
CONSTANTS
    Processes = {p1, p2}
    MaxRows = 3
    MaxFaults = 1
    ReadWriters = 1
    Key = Key
    WitnessKey = WitnessKey
    StrangerKey = StrangerKey
    Origin = Origin
    Null = Null
INVARIANTS
    
    ForksShow
PROPERTIES
    HonestEndorsed
CHECK_DEADLOCK FALSE
