CONSTANTS
    None = None
    Threads = {t1, t2}
    Services = {"libvirtd", "getty@tty1"}
    UnitOf <- Units
    NotSupported = {"libvirtd"}
    Hosts <- SomeHosts
SPECIFICATION Spec
INVARIANTS
    ObjectHandled
    NotFoundTruthful
PROPERTY RestartWorks
