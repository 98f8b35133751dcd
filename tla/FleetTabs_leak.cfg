SPECIFICATION TabsSpec
CONSTANTS Slot = {s1} MaxPages = 3 MaxOrders = 3 MaxFaults = 0 Nobody = Nobody
PROPERTIES SuspendedPagesClose
CHECK_DEADLOCK FALSE
