SPECIFICATION RegistrySpec
CONSTANTS
    Agents = {a1, a2, a3}
    Caps = {c1}
    Absent = Absent
    Gone = Gone
    Standby = {a2, a3}
INVARIANTS RegistryTypeOK Acyclic IndexExact
