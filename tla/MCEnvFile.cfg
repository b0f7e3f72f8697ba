SPECIFICATION Spec
CONSTANTS
    Modules = {m1, m2}
    Setting = setting
    Tasks = {t1, t2}
    MaxValue = 3
INVARIANT KeysKept
CHECK_DEADLOCK FALSE
