------------------------ MODULE MCFirewallGuardLinux ------------------------
(***************************************************************************)
(* An instance of the ipset guard: blockAddress has the IPv4 address 1,    *)
(* the Tor list the IPv6 address 2 or none.                                *)
(***************************************************************************)
EXTENDS FirewallGuardLinuxProps

Events(spawns, crashes, faults, publications, tampers) ==
    [spawn |-> spawns, crash |-> crashes, fault |-> faults, publish |-> publications,
     tamper |-> tampers]

Lists == {{2}, {}}

\* Both processes, with a kill; the primary alone, with two other events.
SomeEvents == {Events(1, 1, 0, 0, 0), Events(0, 1, 1, 0, 0),
               Events(0, 1, 0, 1, 0), Events(0, 1, 0, 0, 1),
               Events(0, 0, 1, 1, 0), Events(0, 0, 0, 1, 1),
               Events(0, 0, 0, 0, 2)}
=============================================================================
