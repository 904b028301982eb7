SPECIFICATION FairSpec
CONSTANTS
    Scheduler = {s1, s2}
    NoScheduler = NoScheduler
    Torrent = {t1, t2}
    Unreachable = {t2}
    Capacity = 1
    Overrun = FALSE
    Admin = FALSE
    Troubles = {"fail"}
PROPERTIES
    StopAcknowledged
    FailedIsStopped
