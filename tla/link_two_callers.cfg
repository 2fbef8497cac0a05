SPECIFICATION Spec
CONSTANTS
    Callers = {c1, c2}
    Leavers = {}
    Supervisors = {s1, s2}
    Ifaces = {i1, i2}
    Targets = {t1}
    Threshold = 1
    NoThread = NoThread
    NoIface = NoIface
    NoTarget = NoTarget
SYMMETRY Symmetry
INVARIANTS TypeOK NothingLeaks LossIsNoticed
PROPERTIES SlotSpec LinkSpec OnlyDeadLinkIsDropped
