-------------------------- MODULE MCDnsGuardLinux --------------------------
(***************************************************************************)
(* An instance of the resolv.conf guard: servers 1 and 2 are desired, 3 is *)
(* another one.                                                            *)
(***************************************************************************)
EXTENDS DnsGuardLinux

Servers == <<1, 2>>
OtherLists == {<<3>>, <<2, 1>>, <<1>>, <<>>}

Events(spawns, crashes, faults, writes, relinks, deletes) ==
    [spawn |-> spawns, crash |-> crashes, fault |-> faults, write |-> writes,
     relink |-> relinks, delete |-> deletes]
\* A kill, a failing call and a change of the file, its link or its existence;
\* or a change followed by another one.
SomeEvents == {Events(1, 1, 1, 1, 0, 0), Events(1, 1, 1, 0, 1, 0),
               Events(1, 1, 1, 0, 0, 1), Events(0, 0, 0, 2, 0, 0)}
=============================================================================
