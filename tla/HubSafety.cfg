SPECIFICATION Spec
CONSTANTS
    d1 = d1
    d2 = d2
    s3 = s3
    Usb = {u1}
    Tcp = {t1, t2}
    Devices = {d1, d2}
    Services = {s1, s2, s3}
    Owner <- MCOwner
    Supervisors = {p1, p2, p3}
    Callbacks = {c1}
    None = None
    Contended = {u1}
    Lapses = {"raised"}
SYMMETRY HubSymmetry
INVARIANTS
    TablesAgree
    AdvertisedIsSupervised
    RegistryIsTrue
    QuiescedIsDetached
CHECK_DEADLOCK FALSE
