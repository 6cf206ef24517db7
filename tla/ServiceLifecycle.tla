-------------------------- MODULE ServiceLifecycle --------------------------
(***************************************************************************)
(* The program under its service manager: service_runner.go, the order of  *)
(* runApplication in main.go, and the registration of startup_linux.go and *)
(* startup_windows.go.                                                     *)
(*                                                                         *)
(* A process is started by the manager, by hand or by its partner.  The    *)
(* primary registers the service it was told the name of, then claims its  *)
(* role; a process whose application fails asks the manager to stop the    *)
(* service of that name and lingers.  How roles are claimed in detail is   *)
(* the module Watchdog; here a claim is one step.                          *)
(***************************************************************************)
EXTENDS Naturals, FiniteSets

CONSTANTS
    Proc,         \* slots of the process table
    Service,      \* names of services
    DefaultName,  \* the default of --service-name
    Installs,     \* the sets of services an administrator may have installed
    Platforms,    \* systemd ("linux"), the SCM ("windows"), or both in turn
    Budgets       \* how often each event may happen: one budget, or several

\* "hand": a start by hand; "stop": the administrator stops a service; "fault":
\* a command of the registration fails; "error": a heartbeat cannot be written.
EnvEvent == {"hand", "stop", "crash", "fault", "error", "tamper", "boot"}

ASSUME NamesAssumption == DefaultName \in Service /\ Installs \subseteq SUBSET Service
ASSUME PlatformsAssumption == Platforms \subseteq {"linux", "windows"}
ASSUME ServiceBudgets == Budgets \subseteq [EnvEvent -> Nat]

VARIABLES
    platform,  \* the operating system
    proc,      \* the processes
    unit,      \* per name: the unit file, what systemd has loaded, is-enabled
    wanted,    \* the services the manager is to keep running
    spent      \* how often each event has happened

vars == <<platform, proc, unit, wanted, spent>>

-----------------------------------------------------------------------------
Role == {"primary", "watchdog"}
Partner(r) == IF r = "primary" THEN "watchdog" ELSE "primary"

\* What a unit file holds: nothing, as after os.WriteFile has truncated it; the
\* unit of deploy/; that of systemdUnitContent (binPath on Windows).
Content == {"absent", "empty", "deployed", "ours"}
Startable == {"deployed", "ours"}

Registration == {"read", "truncate", "write", "reload", "isEnabled", "enable",
                 "query", "create", "describe", "config"}
Stage == {"baseline", "claim", "supervise", "failed", "returned", "dead"}
           \union Registration

\* service is --service-name, home the service the process belongs to, warned
\* whether its registration returned an error.
Process == [stage : Stage, role : Role, by : {"manager", "hand", "partner"},
            service : Service, home : Service \union {"none"}, warned : BOOLEAN]
Started(role, by, service, home) ==
    [stage |-> "baseline", role |-> role, by |-> by, service |-> service,
     home |-> home, warned |-> FALSE]
NoProcess == [Started("primary", "hand", DefaultName, "none") EXCEPT !.stage = "dead"]

Alive(p) == proc[p].stage # "dead"
Holder(r) == {p \in Proc : proc[p].stage = "supervise" /\ proc[p].role = r}
MainOf(n) == {p \in Proc : Alive(p) /\ proc[p].by = "manager" /\ proc[p].home = n}
Members(n) == {p \in Proc : Alive(p) /\ proc[p].home = n}

Spend(e) ==
    LET after == [spent EXCEPT ![e] = @ + 1]
    IN /\ \E b \in Budgets : \A x \in EnvEvent : after[x] <= b[x]
       /\ spent' = after

Init ==
    /\ platform \in Platforms
    /\ proc = [p \in Proc |-> NoProcess]
    /\ wanted \in Installs
    /\ \E text \in IF platform = "linux" THEN Startable ELSE {"deployed"} :
          unit = [n \in Service |->
                    IF n \in wanted
                      THEN [file |-> text, loaded |-> text, enabled |-> TRUE]
                      ELSE [file |-> "absent", loaded |-> "absent",
                            enabled |-> FALSE]]
    /\ spent = [e \in EnvEvent |-> 0]

-----------------------------------------------------------------------------
(* runApplication, as runAsService and Start run it.                       *)

At(p, stage) == proc[p].stage = stage
Goto(p, stage) == proc' = [proc EXCEPT ![p].stage = stage]
Move(p, from, to) ==
    At(p, from) /\ Goto(p, to) /\ UNCHANGED <<platform, unit, wanted, spent>>

\* A process is started, in the first free slot.
Launch(q, role, by, service, home) ==
    /\ ~Alive(q)
    /\ q = CHOOSE free \in Proc : ~Alive(free)
    /\ proc' = [proc EXCEPT ![q] = Started(role, by, service, home)]

\* Mutant of Baseline: the role is looked at after the registration.
BaselineRegistering(p) ==
    Move(p, "baseline", IF platform = "linux" THEN "read" ELSE "query")

\* The baseline is applied and the guards run; only then is the role looked at.
Baseline(p) ==
    Move(p, "baseline",
         IF proc[p].role = "watchdog" THEN "claim"
         ELSE IF platform = "linux" THEN "read" ELSE "query")

\* wdg.Run claims the role, or returns an error because it is taken.
Claim(p) ==
    Move(p, "claim", IF Holder(proc[p].role) = {} THEN "supervise" ELSE "failed")

\* ensurePartner's command line has a role and a state directory only.
SpawnedName(p) == DefaultName

\* A partner is spawned when nobody holds its role and none is on its way.
SpawnPartner(p) ==
    /\ At(p, "supervise")
    /\ Holder(Partner(proc[p].role)) = {}
    /\ \A q \in Proc : ~(/\ proc[q].by = "partner"
                         /\ proc[q].role = Partner(proc[p].role)
                         /\ proc[q].stage \notin {"dead", "failed", "returned"})
    /\ \E q \in Proc : Launch(q, Partner(proc[p].role), "partner",
                             SpawnedName(p), proc[p].home)
    /\ UNCHANGED <<platform, unit, wanted, spent>>

\* A heartbeat that cannot be written, and the like, ends wdg.Run.
SuperviseFails(p) ==
    /\ At(p, "supervise")
    /\ Spend("error")
    /\ Goto(p, "failed")
    /\ UNCHANGED <<platform, unit, wanted>>

\* Start's goroutine: an application that failed has the service of its name
\* stopped, and the process goes on waiting for a signal.
StopService(p) ==
    /\ At(p, "failed")
    /\ wanted' = wanted \ {proc[p].service}
    /\ Goto(p, "returned")
    /\ UNCHANGED <<platform, unit, spent>>

-----------------------------------------------------------------------------
(* ensureStartupRegistration.  An error is logged, and the role claimed.   *)

\* A command of the registration succeeds and leads on, or fails.
Command(p, from, to, after) ==
    /\ At(p, from)
    /\ \/ UNCHANGED spent /\ unit' = after /\ Goto(p, to)
       \/ /\ Spend("fault")
          /\ UNCHANGED unit
          /\ proc' = [proc EXCEPT ![p].stage = "claim", ![p].warned = TRUE]
    /\ UNCHANGED <<platform, wanted>>

Mine(p) == unit[proc[p].service]
With(p, u) == [unit EXCEPT ![proc[p].service] = u]

\* Mutant of ReadUnit: systemd is told only of a file that was written.
ReadUnitTrusting(p) ==
    Command(p, "read", IF Mine(p).file = "ours" THEN "isEnabled" ELSE "truncate",
            unit)

\* A unit file that is there and as desired is left alone.
ReadUnit(p) ==
    Command(p, "read", IF Mine(p).file = "ours" THEN "reload" ELSE "truncate", unit)

\* os.WriteFile truncates the file before it writes it.
TruncateUnit(p) ==
    Command(p, "truncate", "write", With(p, [Mine(p) EXCEPT !.file = "empty"]))
WriteUnit(p) ==
    Command(p, "write", "reload", With(p, [Mine(p) EXCEPT !.file = "ours"]))

\* systemctl daemon-reload, which systemctl enable implies, loads every unit file.
Reloaded(units) == [n \in Service |-> [units[n] EXCEPT !.loaded = units[n].file]]

DaemonReload(p) == Command(p, "reload", "isEnabled", Reloaded(unit))

IsEnabled(p) ==
    Command(p, "isEnabled", IF Mine(p).enabled THEN "claim" ELSE "enable", unit)
EnableUnit(p) ==
    Command(p, "enable", "claim", Reloaded(With(p, [Mine(p) EXCEPT !.enabled = TRUE])))

\* On Windows a service is one entry, created or configured by one command.
Entry == [file |-> "ours", loaded |-> "ours", enabled |-> TRUE]
QueryService(p) ==
    Command(p, "query", IF Mine(p).file = "absent" THEN "create" ELSE "config", unit)
CreateService(p) ==
    /\ Mine(p).file = "absent"
    /\ Command(p, "create", "describe", With(p, Entry))
CreateRefused(p) ==
    /\ At(p, "create")
    /\ Mine(p).file # "absent"
    /\ proc' = [proc EXCEPT ![p].stage = "claim", ![p].warned = TRUE]
    /\ UNCHANGED <<platform, unit, wanted, spent>>
DescribeService(p) == Command(p, "describe", "claim", unit)
ConfigService(p) == Command(p, "config", "claim", With(p, Entry))

Register(p) ==
    \/ ReadUnit(p) \/ TruncateUnit(p) \/ WriteUnit(p) \/ DaemonReload(p)
    \/ IsEnabled(p) \/ EnableUnit(p)
    \/ QueryService(p) \/ CreateService(p) \/ CreateRefused(p)
    \/ DescribeService(p) \/ ConfigService(p)

-----------------------------------------------------------------------------
(* The service manager.                                                    *)

\* Mutant of Restarts: the unit has no Restart=.
RestartsNever == FALSE

\* The unit has Restart=always; the SCM restarts nothing by itself.
Restarts == platform = "linux"

\* Mutant of StartedName: no command line names the service.
StartedNameless(n) == DefaultName

\* The command line a service is started with: the unit names no service, the
\* binPath does, but not that of deploy/windows.
StartedName(n) ==
    IF platform = "windows" /\ unit[n].loaded = "ours" THEN n ELSE DefaultName

\* A service is started that is to run, on Linux when nothing of it is left.
ManagerStart(n) ==
    /\ n \in wanted
    /\ unit[n].loaded \in Startable
    /\ IF platform = "linux" THEN Members(n) = {} ELSE MainOf(n) = {}
    /\ \E q \in Proc : Launch(q, "primary", "manager", StartedName(n), n)
    /\ UNCHANGED <<platform, unit, wanted, spent>>

\* A process ends; a service whose main process ended runs no more, unless the
\* manager restarts it.
End(p) ==
    /\ proc' = [proc EXCEPT ![p] = NoProcess]
    /\ wanted' = IF ~Restarts /\ proc[p].by = "manager"
                   THEN wanted \ {proc[p].home} ELSE wanted
    /\ UNCHANGED <<platform, unit>>

\* systemd ends every process of a stopped service, and those left by its main
\* process; the SCM stops the service's own process only.  Stop cancels the
\* context, main returns, and nothing waits for what runApplication is doing.
Ending(n) == n \notin wanted \/ (platform = "linux" /\ MainOf(n) = {})
Stop(p) ==
    /\ Alive(p)
    /\ proc[p].home # "none" /\ Ending(proc[p].home)
    /\ platform = "linux" \/ proc[p].by = "manager"
    /\ End(p)
    /\ UNCHANGED spent

\* systemd kills those that do not end, and those they have spawned meanwhile.
KillGroup(n) ==
    /\ platform = "linux"
    /\ Ending(n) /\ Members(n) # {}
    /\ proc' = [p \in Proc |-> IF p \in Members(n) THEN NoProcess ELSE proc[p]]
    /\ UNCHANGED <<platform, unit, wanted, spent>>

-----------------------------------------------------------------------------
(* The environment.                                                        *)

\* The program is started in a terminal, under any name.
StartByHand(n) ==
    /\ Spend("hand")
    /\ \E q \in Proc : Launch(q, "primary", "hand", n, "none")
    /\ UNCHANGED <<platform, unit, wanted>>

Crash(p) == Alive(p) /\ Spend("crash") /\ End(p)

AdminStops(n) ==
    /\ n \in wanted
    /\ Spend("stop")
    /\ wanted' = wanted \ {n}
    /\ UNCHANGED <<platform, proc, unit>>

\* The unit file (the service, on Windows) is deleted, or disabled.
Tamper(n) ==
    /\ unit[n].file # "absent"
    /\ Spend("tamper")
    /\ \/ unit' = [unit EXCEPT ![n].enabled = FALSE]
       \/ unit' = [unit EXCEPT ![n].file = "absent", ![n].enabled = FALSE,
                     ![n].loaded = IF platform = "linux" THEN @ ELSE "absent"]
    /\ UNCHANGED <<platform, proc, wanted>>

\* The machine restarts, also after a power cut.
Boot ==
    /\ Spend("boot")
    /\ proc' = [p \in Proc |-> NoProcess]
    /\ unit' = Reloaded(unit)
    /\ wanted' = {n \in Service : unit[n].enabled /\ unit[n].file \in Startable}
    /\ UNCHANGED platform

-----------------------------------------------------------------------------
Step(p) ==
    \/ Baseline(p) \/ Register(p) \/ Claim(p) \/ SpawnPartner(p)
    \/ StopService(p)

Environment ==
    \/ \E n \in Service : StartByHand(n) \/ AdminStops(n) \/ Tamper(n)
    \/ \E p \in Proc : Crash(p) \/ SuperviseFails(p)
    \/ Boot

Next ==
    \/ \E p \in Proc : Step(p) \/ Stop(p)
    \/ \E n \in Service : ManagerStart(n) \/ KillGroup(n)
    \/ Environment

Spec == Init /\ [][Next]_vars

\* Processes are scheduled, and the manager starts and stops what it is to.
Fairness ==
    /\ \A p \in Proc : WF_vars(Step(p)) /\ WF_vars(Stop(p))
    /\ \A n \in Service : WF_vars(ManagerStart(n)) /\ WF_vars(KillGroup(n))
FairSpec == Spec /\ Fairness

-----------------------------------------------------------------------------
(* What registration and restart guarantee.                                *)

\* The type invariant; only a primary registers the service.
TypeOK ==
    /\ platform \in Platforms
    /\ proc \in [Proc -> Process]
    /\ \A p \in Proc : proc[p].stage \in Registration => proc[p].role = "primary"
    /\ unit \in [Service -> [file : Content, loaded : Content, enabled : BOOLEAN]]
    /\ wanted \subseteq Service
    /\ spent \in [EnvEvent -> Nat]

\* README, "ensure a systemd unit file exists and enabled": a primary whose
\* registration returned no error is registered, as this program writes it, for
\* the manager to start at the next boot, and systemd has loaded it, whatever an
\* earlier, interrupted registration left behind.  (A second registration at the
\* same time, of a primary started by hand, may truncate the file once more.)
Registered(n) == unit[n] = [file |-> "ours", loaded |-> "ours", enabled |-> TRUE]
Torn(n) == "empty" \in {unit[n].file, unit[n].loaded}
RegistrationHolds ==
    spent["tamper"] = 0 =>
        \A p \in Holder("primary") :
            \/ proc[p].warned
            \/ Registered(proc[p].service)
            \/ spent["hand"] > 0 /\ Torn(proc[p].service)

\* README, "A primary/watchdog pair provides automatic restart": in the end the
\* primary is up, whatever was killed (with the unit's Restart=always).
PrimaryUp == Holder("primary") # {}
AutomaticRestart == <>[]PrimaryUp

\* It is so but for these: a second primary, or one that fails, has the service
\* stopped (Start's goroutine); so can an administrator on Linux, while on
\* Windows the watchdog undoes that; Windows restarts nothing if all are dead;
\* and a unit file that was deleted or cut short does not survive a boot.
Excused ==
    \/ spent["hand"] + spent["error"] + spent["tamper"] > 0
    \/ platform = "linux" /\ spent["stop"] > 0
    \/ platform = "windows" /\ \A p \in Proc : ~Alive(p)
    \/ \A n \in Service : unit[n].file \notin Startable
PrimaryKept == <>[](PrimaryUp \/ Excused)

\* service_runner.go's comment, "when the OS restarts the service after a crash
\* or reboot it uses the same identifier that was originally registered": a
\* process that Windows starts from an entry of this program's registers no
\* service of another name, so the next boot starts no second primary.  (A unit
\* names no service, and a spawned primary is not told its name.)
NameKept ==
    [][\A p \in Proc :
          CreateService(p) /\ proc[p].by = "manager"
              => unit[proc[p].home].file # "ours"]_vars
=============================================================================
