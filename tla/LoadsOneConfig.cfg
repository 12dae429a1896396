CONSTANTS
    Config <- Configs
    Text <- Texts
    Long = {"long"}
    Faults = {}
    Absent = Absent
    None = None
SPECIFICATION Spec
INVARIANT LoadsOneConfig
