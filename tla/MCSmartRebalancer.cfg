SPECIFICATION Spec
CONSTANTS
    Controllers = {c1}
    Users = {u}
    AllowedModes = {"none", "lazy", "incremental"}
    MaxStarts = 2
INVARIANTS TypeOK BackgroundOwned ModeBacked StoppedClean
PROPERTY StopReturns
