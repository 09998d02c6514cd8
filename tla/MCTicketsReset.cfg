SPECIFICATION Spec
CONSTANTS
    Bilets = 3
    Size <- ThreeBilets
    Threshold = 2
    Bypass = FALSE
    Resets = {r1}
PROPERTIES
    ResetKeepsOpen
