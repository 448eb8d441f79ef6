SPECIFICATION Spec
CONSTANTS
    Sources <- MCSources
INVARIANTS
    AcceptedKeepsBound
    
