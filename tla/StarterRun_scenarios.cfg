SPECIFICATION RunSpec
CONSTANTS
    FactIds = {1, 2, 3}
    Inventories <- TypicalInventories
    Chunks = {c1, c2}
    Series = {s1}
    c1 = c1
    c2 = c2
    s1 = s1
    MaxTarget = 3
    TargetCount = 3
    Budget = 7
    InventoryCalls = {0, 9}
    MaxStored = 2
INVARIANT ScenariosConverge
CHECK_DEADLOCK FALSE
