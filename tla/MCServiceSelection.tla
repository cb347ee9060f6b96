-------------------------- MODULE MCServiceSelection --------------------------
(* Instances of ServiceSelection for TLC: libvirtd, which SysVinit does not
   support, and an instance of getty; hosts of every generation, one of them
   without any provider. *)
EXTENDS ServiceSelection

Units == [s \in Services |-> IF s = "getty@tty1" THEN "getty@" ELSE s]

SomeHosts ==
    LET Of(h, a, b, c) == [has |-> h, lists |-> [p \in Providers |->
                              CASE p = "Systemd" -> a [] p = "SysVinit" -> b [] OTHER -> c]]
    IN  { Of(Providers \ {"InitCtl"}, {"libvirtd", "getty@"}, {"libvirtd"}, {}),
          Of({"Systemd", "SysVinit"}, {"libvirtd"}, {"getty@tty1"}, {}),
          Of({"SysVinit", "InitCtl"}, {}, {"libvirtd", "getty@tty1"}, {"libvirtd"}),
          Of({"InitCtl"}, {}, {}, {"libvirtd", "getty@tty1"}),
          Of({}, {}, {}, {}) }

=============================================================================
