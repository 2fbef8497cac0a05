SPECIFICATION FairSpec
CONSTANTS
    Callers = {c1}
    Leavers = {c1}
    Supervisors = {s1, s2}
    Ifaces = {i1}
    Targets = {t1, t2}
    Threshold = 2
    NoThread = NoThread
    NoIface = NoIface
    NoTarget = NoTarget
INVARIANTS OneSupervisor LinkFollowsTarget
PROPERTIES SupervisorsStop SupervisedLinkHeals
