SPECIFICATION FrontFairSpec
CONSTANTS
    Conns = {c1, c2}
    Options = {x, y}
    NoArg = NoArg
    CommandLine = cmd
INVARIANTS OptionsSound
PROPERTIES DialsReleased SignalExits
CHECK_DEADLOCK FALSE
