SPECIFICATION EventsSpec
CONSTANTS
    lamp = lamp
    lock = lock
    sensor = sensor
    p1 = p1
    Gone = Gone
    None = None
    Devices = {lamp, lock, sensor}
    Controllable = {lamp, lock}
    Pages = {p1}
    QueueMax = 2
    MaxChanges = 3
    MaxLosses = 2
    MaxReloads = 1
CHECK_DEADLOCK FALSE
INVARIANTS
    EventsTypeOK
    PagesCatchUp
PROPERTIES
    PageConverges
    ListenerReturns
