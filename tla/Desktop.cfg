SPECIFICATION DesktopSpec
CONSTANTS
    Setter = {s1, s2}
    Value = {v1}
    Default = default
    Caller = {c1, c2}
    Addr = {a1}
    proxyEnvKeys = {"HTTP_PROXY", "NO_PROXY"}
    Poll = {p1, p2}
INVARIANTS DesktopTypeOK SettingsKept CallRepairs
PROPERTY GuiCatchesUp
