SPECIFICATION Spec
CONSTANTS
    Missions = {m1}
    Priorities = {low, high}
    Contents = {c1, c2}
    Absent = Absent
    Torn = Torn
    MaxDoubt = 3
INVARIANT Durable
PROPERTIES EndedForGood BootPauses
