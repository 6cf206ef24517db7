----------------------------- MODULE MCWatchdog -----------------------------
(***************************************************************************)
(* Instances of the pair for TLC: the budgets of the environment's events. *)
(***************************************************************************)
EXTENDS WatchdogProps, TLC

Events(launches, crashes, terms, faults) ==
    [e \in EnvEvent |-> CASE e = "launch" -> launches [] e = "crash" -> crashes
                          [] e = "term" -> terms [] e = "fault" -> faults
                          [] OTHER -> 0]
\* One start of the service, two processes killed at any point and one stopped,
\* or one killed and one failing system call; or the program started a second
\* time, at any point, and one process killed or one failing system call.
PairEvents == {Events(1, 2, 1, 0), Events(1, 1, 0, 1),
               Events(2, 1, 0, 0), Events(2, 0, 0, 1)}
OverlapEvents == {Events(2, 1, 0, 0)}
\* Two processes killed at any point.
CrashEvents == {Events(1, 2, 0, 0)}
\* One killed; a dead process's pid goes to another program once, and to this
\* one twice.
SquatEvents == {[Events(1, 1, 0, 0) EXCEPT !["foreign"] = 1, !["reuse"] = 2]}
OneCrash == {Events(1, 1, 0, 0)}

Symmetry == Permutations(Proc)
=============================================================================
