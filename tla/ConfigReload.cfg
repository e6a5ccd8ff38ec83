SPECIFICATION ConfigSpec
CONSTANTS
    Setter = {s1, s2}
    Value = {v1}
    Default = default
INVARIANT SettingsReload
