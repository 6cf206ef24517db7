------------------------- MODULE MCServiceLifecycle -------------------------
(***************************************************************************)
(* Instances of the service: installed under its default name, or not at   *)
(* all.                                                                    *)
(***************************************************************************)
EXTENDS ServiceLifecycle

Events(hands, stops, crashes, faults, errors, tampers, boots) ==
    [hand |-> hands, stop |-> stops, crash |-> crashes, fault |-> faults,
     error |-> errors, tamper |-> tampers, boot |-> boots]
\* Kills, with one or two other events.
SomeEvents == {Events(0, 0, 2, 0, 0, 0, 1), Events(0, 0, 1, 1, 0, 0, 1),
               Events(0, 1, 2, 0, 0, 0, 0), Events(0, 0, 1, 0, 1, 0, 1),
               Events(0, 0, 1, 0, 0, 1, 1), Events(1, 0, 1, 0, 0, 0, 1),
               Events(2, 0, 0, 0, 0, 0, 0)}
\* The program is started by hand while the service runs.
OneByHand == {Events(1, 0, 0, 0, 0, 0, 0)}

Installed == {{DefaultName}}
InstalledOrNot == {{DefaultName}, {}}
=============================================================================
