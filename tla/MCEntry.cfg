CONSTANTS
    ModeModules <- MCModeModules
    OtherKinds = {"WORLDLINE", "HTTPGET"}

SPECIFICATION Spec

INVARIANTS
    TypeOK
    NetworkLimits
    SingleNodePerDataDir

