SPECIFICATION Spec
CONSTANTS
    Files = 2
    MaxErrors = 2
    Faults = {}
PROPERTY EnabledGestureCounts
