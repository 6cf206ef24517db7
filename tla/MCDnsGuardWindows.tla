------------------------- MODULE MCDnsGuardWindows -------------------------
(***************************************************************************)
(* Instances of the interface guard: servers 1 and 2 are the desired ones  *)
(* for IPv4, none is for IPv6, and 4 is somebody else's.                   *)
(***************************************************************************)
EXTENDS DnsGuardWindowsProps

Four == <<1, 2>>
None == <<>>
SomeLists == {<<4>>, <<>>}

Events(spawns, crashes, faults, tampers) ==
    [spawn |-> spawns, crash |-> crashes, fault |-> faults, tamper |-> tampers]
\* Both processes, with a kill; the primary alone, with a change and a failing
\* command or another change.
SomeEvents == {Events(1, 1, 0, 0), Events(0, 0, 1, 1), Events(0, 0, 0, 2)}
=============================================================================
