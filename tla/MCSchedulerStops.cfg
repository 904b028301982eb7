SPECIFICATION Spec
CONSTANTS
    Scheduler = {s1, s2}
    NoScheduler = NoScheduler
    Torrent = {t1, t2}
    Unreachable = {}
    Capacity = 1
    Overrun = FALSE
    Admin = TRUE
    Troubles = {"fail", "regress"}
SYMMETRY Interchangeable
INVARIANTS
    StoppedBeforePurge
    SchedulerInv
PROPERTIES
    OrphanStopHonoured
