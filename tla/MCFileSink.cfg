\* A sink used by one strand, rotating every one or two events.
CONSTANTS
    Writers = {w1}
    Events = {"e1", "e2", "e3", "e4"}
    Configs <- MCConfigs
    add_time_to_filename = TRUE
    LastSecond = 2
    NoEvent = NoEvent
SPECIFICATION Spec
INVARIANT EventsInOrder
CHECK_DEADLOCK FALSE
