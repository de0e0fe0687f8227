SPECIFICATION Spec
CONSTANTS
    Frames = {f1}
    Main = Main
    MaxOpens = 2
    MaxLoads = 1
    MaxDepth = 2
INVARIANTS TypeOK CalledOnce ToldItsOwnLoad SwitchedInTime
PROPERTY EndIsTold
CHECK_DEADLOCK FALSE
