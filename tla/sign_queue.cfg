SPECIFICATION Spec
CONSTANTS
    deploy = deploy
    readback = readback
    make = make
    register = register
    NoData = NoData
    NoItem = NoItem
    Item <- ItemDef
    Kind <- KindDef
    DependsOn <- DependsOnDef
    Reads <- ReadsDef
    Slot <- SlotDef
    Rebuilt <- RebuiltDef
    MaxTxs = 3
    MaxRev = 1
    MaxSurprises = 1
PROPERTIES
    NothingSentTooEarly
    ReopensOnlyTheDead
    SentResolves
