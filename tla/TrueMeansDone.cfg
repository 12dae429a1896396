CONSTANTS
    Config <- Configs
    Text <- Texts
    Long = {"long"}
    Faults = {"nvs_open", "nvs_set", "nvs_commit", "nvs_erase_all"}
    Absent = Absent
    None = None
SPECIFICATION Spec
INVARIANT TrueMeansDone
