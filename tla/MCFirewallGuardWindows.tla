----------------------- MODULE MCFirewallGuardWindows -----------------------
(***************************************************************************)
(* An instance of the netsh guard: three addresses, one of them IPv6, and  *)
(* one address per rule.                                                   *)
(***************************************************************************)
EXTENDS FirewallGuardWindowsProps

Events(spawns, crashes, faults, publications, tampers) ==
    [spawn |-> spawns, crash |-> crashes, fault |-> faults,
     publish |-> publications, tamper |-> tampers]

Lists == {{2, 3}, {}}

\* Both processes, with a kill; the primary alone, with two other events.
SomeEvents == {Events(1, 1, 0, 0, 0), Events(0, 1, 1, 0, 0),
               Events(0, 1, 0, 1, 0), Events(0, 1, 0, 0, 1),
               Events(0, 0, 1, 1, 0), Events(0, 0, 1, 0, 1),
               Events(0, 0, 0, 1, 1), Events(0, 0, 0, 0, 2)}
=============================================================================
