CONSTANTS
    ModeModules <- MCModeModules
    OtherKinds = {"WORLDLINE", "HTTPGET"}

SPECIFICATION Spec

INVARIANTS
    DaemonKeepsPidFile
