\* Two outputs, one of them required, two units each, a cancel, a lost
\* connection and a late progress frame.
SPECIFICATION Spec
CONSTANTS
    Outputs <- TwoOutputs
    Required = {"main"}
    MaxBuffered = 2
    MaxUnits = 2
    MaxLogs = 1
    Habits <- Plain
INVARIANTS EndedWhole
 
