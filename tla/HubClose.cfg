SPECIFICATION FairSpec
CONSTANTS
    d1 = d1
    d2 = d2
    s3 = s3
    Usb = {}
    Tcp = {t1}
    Devices = {d1}
    Services = {s1}
    Owner <- MCOwner
    Supervisors = {p1, p2, p3}
    Callbacks = {c1, c2}
    None = None
    Contended = {}
    Lapses = {"overlap", "shared", "raised"}
INVARIANTS
    NoneRunsUnseen
PROPERTIES
    WaitersReturn
CHECK_DEADLOCK FALSE
