SPECIFICATION FairSpec
CONSTANTS
    Versions = 4
    MaxReadErrors = 1
PROPERTIES
    NewestIsServed
    RotationMends
