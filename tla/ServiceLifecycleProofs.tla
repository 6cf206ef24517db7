----------------------- MODULE ServiceLifecycleProofs -----------------------
(***************************************************************************)
(* Theorems about the registration of the service, for any number of       *)
(* processes, all names of services and every budget of events.            *)
(*                                                                         *)
(* Typed needs nothing.  The other two are about a program that is         *)
(* installed under its default name or not at all: a unit names no         *)
(* service, so two units would both register the default one.  Holds says  *)
(* of a registration what each of its commands leaves for the next one to  *)
(* rely on; on Linux that also needs SoleInv, that without a start by hand *)
(* no two primaries are at work at the same time.                          *)
(***************************************************************************)
EXTENDS ServiceLifecycle, TLAPS

DefaultInstall == Installs \subseteq {{}, {DefaultName}}

Systemd == {"read", "truncate", "write", "reload", "isEnabled", "enable"}
Scm == {"query", "create", "describe", "config"}

\* systemd's commands are run on Linux, those of the SCM on Windows.
OwnCommands ==
    \A p \in Proc : /\ proc[p].stage \in Systemd => platform = "linux"
                    /\ proc[p].stage \in Scm => platform = "windows"

-----------------------------------------------------------------------------
(* Operators.                                                              *)

\* The stages of a process are what its steps compare them with.
LEMMA Stages ==
  /\ Systemd \subseteq Stage /\ Scm \subseteq Stage
  /\ {"baseline", "claim", "supervise", "failed", "returned", "dead"} \subseteq Stage
  /\ Registration = Systemd \union Scm
  BY DEF Stage, Registration, Systemd, Scm

LEMMA NoProcessTyped == NoProcess \in Process /\ NoProcess.stage = "dead" /\ NoProcess.by = "hand"
  BY NamesAssumption, Stages DEF NoProcess, Started, Process, Role

LEMMA StartedTyped ==
  ASSUME NEW role \in Role, NEW by \in {"manager", "hand", "partner"},
         NEW service \in Service, NEW home \in Service \union {"none"}
  PROVE  Started(role, by, service, home) \in Process
  BY Stages DEF Started, Process

LEMMA SpendTyped ==
  ASSUME spent \in [EnvEvent -> Nat], NEW e \in EnvEvent, Spend(e)
  PROVE  spent' \in [EnvEvent -> Nat]
  BY DEF Spend

\* A process that goes on.
Same(p) ==
    /\ proc'[p].role = proc[p].role /\ proc'[p].by = proc[p].by
    /\ proc'[p].service = proc[p].service /\ proc'[p].home = proc[p].home

LEMMA Retold ==
  ASSUME NEW r \in Process, NEW to \in Stage
  PROVE  \A t \in {[r EXCEPT !.stage = to], [r EXCEPT !.stage = to, !.warned = TRUE]} :
             /\ t \in Process
             /\ t.stage = to /\ t.role = r.role /\ t.by = r.by
             /\ t.service = r.service /\ t.home = r.home
<1>1. [r EXCEPT !.stage = to] \in Process
  BY DEF Process
<1>2. [r EXCEPT !.stage = to, !.warned = TRUE] \in Process
  BY DEF Process
<1>3. QED
  BY <1>1, <1>2 DEF Process

LEMMA GotoTyped ==
  ASSUME proc \in [Proc -> Process], NEW p \in Proc, NEW to \in Stage,
         \/ Goto(p, to)
         \/ proc' = [proc EXCEPT ![p].stage = to, ![p].warned = TRUE]
  PROVE  /\ proc' \in [Proc -> Process]
         /\ proc'[p].stage = to /\ Same(p)
         /\ Goto(p, to) => proc'[p].warned = proc[p].warned
         /\ \A q \in Proc \ {p} : proc'[q] = proc[q]
<1>1. PICK t \in {[proc[p] EXCEPT !.stage = to],
                  [proc[p] EXCEPT !.stage = to, !.warned = TRUE]} :
         /\ proc' = [proc EXCEPT ![p] = t]
         /\ Goto(p, to) => t = [proc[p] EXCEPT !.stage = to]
  <2>1. CASE Goto(p, to)
    BY <2>1 DEF Goto
  <2>2. CASE ~Goto(p, to)
    BY <2>2
  <2>3. QED
    BY <2>1, <2>2
<1>2. proc[p] \in Process
  OBVIOUS
<1>3. /\ t \in Process
      /\ t.stage = to /\ t.role = proc[p].role /\ t.by = proc[p].by
      /\ t.service = proc[p].service /\ t.home = proc[p].home
  <2>1. \A x \in {[proc[p] EXCEPT !.stage = to],
                  [proc[p] EXCEPT !.stage = to, !.warned = TRUE]} :
          /\ x \in Process
          /\ x.stage = to /\ x.role = proc[p].role /\ x.by = proc[p].by
          /\ x.service = proc[p].service /\ x.home = proc[p].home
    BY <1>2, Retold
  <2>2. QED
    BY <1>1, <2>1
<1>4. Goto(p, to) => t.warned = proc[p].warned
  BY <1>1, <1>2 DEF Process
<1>5. proc'[p] = t /\ \A q \in Proc \ {p} : proc'[q] = proc[q]
  BY <1>1
<1>6. QED
  BY <1>1, <1>3, <1>4, <1>5 DEF Same

\* A process that goes on to a stage that its role and its platform allow.
LEMMA MoveTyped ==
  ASSUME TypeOK, OwnCommands, NEW p \in Proc, NEW to \in Stage,
         \/ Goto(p, to)
         \/ proc' = [proc EXCEPT ![p].stage = to, ![p].warned = TRUE],
         to \in Registration => proc[p].role = "primary",
         to \in Systemd => platform = "linux", to \in Scm => platform = "windows",
         UNCHANGED <<platform, unit>>, wanted' \subseteq wanted,
         spent' \in [EnvEvent -> Nat]
  PROVE  TypeOK' /\ OwnCommands'
<1>1. /\ proc' \in [Proc -> Process]
      /\ proc'[p].stage = to /\ proc'[p].role = proc[p].role
      /\ \A q \in Proc \ {p} : proc'[q] = proc[q]
  BY GotoTyped DEF TypeOK, Same
<1>2. \A q \in Proc : proc'[q].stage \in Registration => proc'[q].role = "primary"
  BY <1>1 DEF TypeOK
<1>3. OwnCommands'
  BY <1>1 DEF OwnCommands
<1>4. QED
  BY <1>1, <1>2, <1>3 DEF TypeOK

LEMMA RolesOf == ASSUME TypeOK, NEW p \in Proc
                 PROVE proc[p].role \in {"primary", "watchdog"}
  BY DEF TypeOK, Process, Role

\* What a registration's command leaves: it leads on, or the role is claimed.
LEMMA CommandTyped ==
  ASSUME TypeOK, OwnCommands, NEW p \in Proc,
         NEW from \in Registration, NEW to \in Registration \union {"claim"}, NEW after,
         after \in [Service -> [file : Content, loaded : Content, enabled : BOOLEAN]],
         to \in Systemd => from \in Systemd, to \in Scm => from \in Scm,
         Command(p, from, to, after)
  PROVE  TypeOK' /\ OwnCommands'
<1>1. /\ spent' \in [EnvEvent -> Nat] /\ UNCHANGED <<platform, wanted>>
      /\ unit' \in {unit, after}
  BY SpendTyped DEF TypeOK, Command, EnvEvent
<1>2. /\ proc[p].stage = from
      /\ \/ proc' = [proc EXCEPT ![p].stage = to]
         \/ proc' = [proc EXCEPT ![p].stage = "claim", ![p].warned = TRUE]
  BY DEF Command, At, Goto
<1>3. /\ proc' \in [Proc -> Process]
      /\ proc'[p].stage \in {to, "claim"} /\ proc'[p].role = proc[p].role
      /\ \A q \in Proc \ {p} : proc'[q] = proc[q]
  BY <1>2, Stages, GotoTyped DEF TypeOK, Goto, Same
<1>4. \A q \in Proc : proc'[q].stage \in Registration => proc'[q].role = "primary"
  BY <1>2, <1>3, Stages DEF TypeOK
<1>5. OwnCommands'
  BY <1>1, <1>2, <1>3 DEF OwnCommands, Systemd, Scm
<1>6. QED
  BY <1>1, <1>3, <1>4, <1>5 DEF TypeOK

\* The unit of a process's service, after one of its fields has changed.
LEMMA UnitTyped ==
  ASSUME TypeOK, NEW p \in Proc
  PROVE  /\ Mine(p) \in [file : Content, loaded : Content, enabled : BOOLEAN]
         /\ \A u \in [file : Content, loaded : Content, enabled : BOOLEAN] :
              With(p, u) \in [Service -> [file : Content, loaded : Content, enabled : BOOLEAN]]
  BY DEF TypeOK, Mine, With, Process

LEMMA ReloadTyped ==
  ASSUME NEW units \in [Service -> [file : Content, loaded : Content, enabled : BOOLEAN]]
  PROVE  Reloaded(units) \in [Service -> [file : Content, loaded : Content, enabled : BOOLEAN]]
  BY DEF Reloaded

LEMMA RegisterTyped ==
  ASSUME TypeOK, OwnCommands, NEW p \in Proc, Register(p)
  PROVE  TypeOK' /\ OwnCommands'
<1>1. /\ Mine(p) \in [file : Content, loaded : Content, enabled : BOOLEAN]
      /\ unit \in [Service -> [file : Content, loaded : Content, enabled : BOOLEAN]]
      /\ Entry \in [file : Content, loaded : Content, enabled : BOOLEAN]
  BY UnitTyped DEF TypeOK, Entry, Content
<1>2. CASE ReadUnit(p)
  BY <1>1, <1>2, CommandTyped DEF ReadUnit, Registration, Systemd, Scm
<1>3. CASE TruncateUnit(p)
  <2>1. [Mine(p) EXCEPT !.file = "empty"]
           \in [file : Content, loaded : Content, enabled : BOOLEAN]
    BY <1>1 DEF Content
  <2>2. QED
    BY <1>3, <2>1, UnitTyped, CommandTyped DEF TruncateUnit, Registration, Systemd, Scm
<1>4. CASE WriteUnit(p)
  <2>1. [Mine(p) EXCEPT !.file = "ours"]
           \in [file : Content, loaded : Content, enabled : BOOLEAN]
    BY <1>1 DEF Content
  <2>2. QED
    BY <1>4, <2>1, UnitTyped, CommandTyped DEF WriteUnit, Registration, Systemd, Scm
<1>5. CASE DaemonReload(p)
  BY <1>1, <1>5, ReloadTyped, CommandTyped DEF DaemonReload, Registration, Systemd, Scm
<1>6. CASE IsEnabled(p)
  BY <1>1, <1>6, CommandTyped DEF IsEnabled, Registration, Systemd, Scm
<1>7. CASE EnableUnit(p)
  <2>1. [Mine(p) EXCEPT !.enabled = TRUE]
           \in [file : Content, loaded : Content, enabled : BOOLEAN]
    BY <1>1
  <2>2. QED
    BY <1>7, <2>1, UnitTyped, ReloadTyped, CommandTyped DEF EnableUnit, Registration, Systemd, Scm
<1>8. CASE QueryService(p)
  BY <1>1, <1>8, CommandTyped DEF QueryService, Registration, Systemd, Scm
<1>9. CASE CreateService(p) \/ ConfigService(p)
  BY <1>1, <1>9, UnitTyped, CommandTyped
     DEF CreateService, ConfigService, Registration, Systemd, Scm
<1>10. CASE CreateRefused(p)
  <2>1. spent' \in [EnvEvent -> Nat]
    BY <1>10 DEF CreateRefused, TypeOK
  <2>2. "claim" \in Stage \ Registration
    BY Stages DEF Systemd, Scm
  <2>3. QED
    BY <1>10, <2>1, <2>2, MoveTyped, Stages DEF CreateRefused
<1>11. CASE DescribeService(p)
  BY <1>1, <1>11, CommandTyped DEF DescribeService, Registration, Systemd, Scm
<1>12. QED
  BY <1>2, <1>3, <1>4, <1>5, <1>6, <1>7, <1>8, <1>9, <1>10, <1>11 DEF Register

\* A process is started in a slot of the table.
LEMMA LaunchTyped ==
  ASSUME TypeOK, OwnCommands, NEW q \in Proc, NEW r \in Process, r.stage = "baseline",
         proc' = [proc EXCEPT ![q] = r],
         UNCHANGED <<platform, unit, wanted>>, spent' \in [EnvEvent -> Nat]
  PROVE  TypeOK' /\ OwnCommands'
<1>1. /\ proc' \in [Proc -> Process] /\ proc'[q] = r
      /\ \A p \in Proc \ {q} : proc'[p] = proc[p]
  BY DEF TypeOK
<1>2. r.stage \notin Registration
  BY Stages DEF Systemd, Scm
<1>3. \A p \in Proc : proc'[p].stage \in Registration => proc'[p].role = "primary"
  BY <1>1, <1>2 DEF TypeOK
<1>4. OwnCommands'
  BY <1>1, <1>2, Stages DEF OwnCommands
<1>5. QED
  BY <1>1, <1>3, <1>4 DEF TypeOK

\* The other steps of a process, and its end.
LEMMA ProcessTyped ==
  ASSUME TypeOK, OwnCommands, NEW p \in Proc,
         \/ Baseline(p) \/ Claim(p) \/ SpawnPartner(p) \/ StopService(p)
         \/ Stop(p) \/ Crash(p) \/ SuperviseFails(p)
  PROVE  TypeOK' /\ OwnCommands'
<1>0. wanted \subseteq Service /\ spent \in [EnvEvent -> Nat]
  BY DEF TypeOK
<1>1. CASE Baseline(p)
  <2>1. platform \in {"linux", "windows"}
    BY PlatformsAssumption DEF TypeOK
  <2>2. QED
    BY <1>0, <1>1, <2>1, Stages, MoveTyped, RolesOf DEF Baseline, Move, Systemd, Scm
<1>2. CASE Claim(p)
  BY <1>0, <1>2, Stages, MoveTyped DEF Claim, Move, Systemd, Scm
<1>3. CASE SpawnPartner(p)
  <2>1. PICK q \in Proc : proc' = [proc EXCEPT ![q] = Started(Partner(proc[p].role), "partner",
                             SpawnedName(p), proc[p].home)]
    BY <1>3 DEF SpawnPartner, Launch
  <2>2. Started(Partner(proc[p].role), "partner", SpawnedName(p), proc[p].home) \in Process
    BY NamesAssumption, StartedTyped DEF TypeOK, Process, Partner, Role, SpawnedName
  <2>3. Started(Partner(proc[p].role), "partner", SpawnedName(p), proc[p].home).stage = "baseline"
    BY DEF Started
  <2>4. QED
    BY <1>3, <2>1, <2>2, <2>3, LaunchTyped DEF SpawnPartner, TypeOK
<1>4. CASE StopService(p)
  BY <1>0, <1>4, Stages, MoveTyped DEF StopService, Systemd, Scm
<1>5. CASE Stop(p) \/ Crash(p)
  <2>1. spent' \in [EnvEvent -> Nat]
    BY <1>5, SpendTyped DEF Stop, Crash, TypeOK, EnvEvent
  <2>2. End(p)
    BY <1>5 DEF Stop, Crash
  <2>3. QED
    BY <2>1, <2>2, NoProcessTyped, Stages DEF End, TypeOK, OwnCommands, Systemd, Scm
<1>6. CASE SuperviseFails(p)
  <2>1. spent' \in [EnvEvent -> Nat]
    BY <1>6, SpendTyped DEF SuperviseFails, TypeOK, EnvEvent
  <2>2. QED
    BY <1>0, <1>6, <2>1, Stages, MoveTyped DEF SuperviseFails, Systemd, Scm
<1>7. QED
  BY <1>1, <1>2, <1>3, <1>4, <1>5, <1>6

\* A new primary, started by the manager or by hand.
LEMMA StartTyped ==
  ASSUME TypeOK, OwnCommands, NEW n \in Service, ManagerStart(n) \/ StartByHand(n)
  PROVE  TypeOK' /\ OwnCommands'
<1>1. PICK q \in Proc, by \in {"manager", "hand"}, s \in Service, h \in Service \union {"none"} :
         proc' = [proc EXCEPT ![q] = Started("primary", by, s, h)]
  BY NamesAssumption DEF ManagerStart, StartByHand, Launch, StartedName
<1>2. /\ Started("primary", by, s, h) \in Process
      /\ Started("primary", by, s, h).stage = "baseline"
  BY <1>1, StartedTyped DEF Started, Role
<1>3. spent' \in [EnvEvent -> Nat]
  BY SpendTyped DEF ManagerStart, StartByHand, TypeOK, EnvEvent
<1>4. UNCHANGED <<platform, unit, wanted>>
  BY DEF ManagerStart, StartByHand
<1>5. QED
  BY <1>1, <1>2, <1>3, <1>4, LaunchTyped

\* What the manager and the administrator do.
LEMMA ManagerTyped ==
  ASSUME TypeOK, OwnCommands,
         Boot \/ \E n \in Service : KillGroup(n) \/ AdminStops(n) \/ Tamper(n)
  PROVE  TypeOK' /\ OwnCommands'
<1>1. ASSUME NEW n \in Service, KillGroup(n) PROVE TypeOK' /\ OwnCommands'
  BY <1>1, NoProcessTyped, Stages DEF KillGroup, TypeOK, OwnCommands, Systemd, Scm
<1>2. ASSUME NEW n \in Service, AdminStops(n) PROVE TypeOK' /\ OwnCommands'
  <2>1. spent' \in [EnvEvent -> Nat]
    BY <1>2, SpendTyped DEF AdminStops, TypeOK, EnvEvent
  <2>2. QED
    BY <1>2, <2>1 DEF AdminStops, TypeOK, OwnCommands
<1>3. ASSUME NEW n \in Service, Tamper(n) PROVE TypeOK' /\ OwnCommands'
  <2>1. spent' \in [EnvEvent -> Nat]
    BY <1>3, SpendTyped DEF Tamper, TypeOK, EnvEvent
  <2>2. unit' \in [Service -> [file : Content, loaded : Content, enabled : BOOLEAN]]
    <3>1. PICK u \in [file : Content, loaded : Content, enabled : BOOLEAN] :
             unit' = [unit EXCEPT ![n] = u]
      <4>1. /\ unit[n] \in [file : Content, loaded : Content, enabled : BOOLEAN]
            /\ "absent" \in Content
        BY DEF TypeOK, Content
      <4>2. CASE unit' = [unit EXCEPT ![n].enabled = FALSE]
        <5>1. [unit[n] EXCEPT !.enabled = FALSE]
                 \in [file : Content, loaded : Content, enabled : BOOLEAN]
          BY <4>1
        <5>2. QED
          BY <4>2, <5>1
      <4>3. CASE unit' = [unit EXCEPT ![n].file = "absent", ![n].enabled = FALSE,
                     ![n].loaded = IF platform = "linux" THEN @ ELSE "absent"]
        <5> DEFINE l == IF platform = "linux" THEN unit[n].loaded ELSE "absent"
        <5>1. [unit[n] EXCEPT !.file = "absent", !.enabled = FALSE, !.loaded = l]
                 \in [file : Content, loaded : Content, enabled : BOOLEAN]
          BY <4>1
        <5>2. unit' = [unit EXCEPT ![n] =
                 [unit[n] EXCEPT !.file = "absent", !.enabled = FALSE, !.loaded = l]]
          BY <4>3
        <5>3. QED
          BY <5>1, <5>2
      <4>4. QED
        BY <1>3, <4>2, <4>3 DEF Tamper
    <3>2. QED
      BY <3>1 DEF TypeOK
  <2>3. QED
    BY <1>3, <2>1, <2>2 DEF Tamper, TypeOK, OwnCommands
<1>4. CASE Boot
  <2>1. spent' \in [EnvEvent -> Nat]
    BY <1>4, SpendTyped DEF Boot, TypeOK, EnvEvent
  <2>2. unit' \in [Service -> [file : Content, loaded : Content, enabled : BOOLEAN]]
    BY <1>4, ReloadTyped DEF Boot, TypeOK
  <2>3. QED
    BY <1>4, <2>1, <2>2, NoProcessTyped, Stages DEF Boot, TypeOK, OwnCommands, Systemd, Scm
<1>5. QED
  BY <1>1, <1>2, <1>3, <1>4

LEMMA StepTyped == ASSUME TypeOK, OwnCommands, [Next]_vars PROVE TypeOK' /\ OwnCommands'
<1>1. CASE UNCHANGED vars
  BY <1>1 DEF vars, TypeOK, OwnCommands
<1>2. CASE Next
  BY <1>2, RegisterTyped, ProcessTyped, StartTyped, ManagerTyped
     DEF Next, Step, Environment
<1>3. QED
  BY <1>1, <1>2

LEMMA InitTyped == Init => TypeOK /\ OwnCommands
<1> SUFFICES ASSUME Init PROVE TypeOK /\ OwnCommands
  OBVIOUS
<1>1. wanted \subseteq Service
  BY NamesAssumption DEF Init
<1>2. unit \in [Service -> [file : Content, loaded : Content, enabled : BOOLEAN]]
  <2>1. PICK text \in {"deployed", "ours"} :
          unit = [n \in Service |->
                    IF n \in wanted
                      THEN [file |-> text, loaded |-> text, enabled |-> TRUE]
                      ELSE [file |-> "absent", loaded |-> "absent", enabled |-> FALSE]]
    BY DEF Init, Startable
  <2>2. QED
    BY <2>1 DEF Content
<1>3. QED
  BY <1>1, <1>2, NoProcessTyped, Stages DEF Init, TypeOK, OwnCommands, EnvEvent, Systemd, Scm

\* The type invariant; only a primary registers the service.
THEOREM Typed == Spec => []TypeOK
<1>1. TypeOK /\ OwnCommands /\ [Next]_vars => (TypeOK /\ OwnCommands)'
  BY StepTyped
<1>2. QED
  BY <1>1, InitTyped, PTL DEF Spec

-----------------------------------------------------------------------------
(* What a step of a registration may do.                                   *)

\* The unit a command leaves; on Windows a service is made ours in one go.
Changed(old, u) ==
    IF platform = "linux"
      THEN /\ u.file \in {old.file, "empty", "ours"} /\ u.loaded \in {old.loaded, old.file}
           /\ old.enabled = TRUE => u.enabled = TRUE
      ELSE u \in {old, Entry}

\* What the command before a stage has done, with the unit as it was and is.
Reached(from, to, old, u) ==
    /\ to = "reload" => u.file = "ours"
    /\ to = "isEnabled" => from = "reload" /\ u.file = old.file /\ u.loaded = old.file
    /\ to = "enable" => from = "isEnabled" /\ u = old
    /\ to = "describe" => u = Entry
    /\ to = "claim" =>
          \/ from = "isEnabled" /\ u = old /\ old.enabled = TRUE
          \/ /\ from = "enable"
             /\ u.file = old.file /\ u.loaded = old.file /\ u.enabled = TRUE
          \/ from = "describe" /\ u = old
          \/ u = Entry

\* What it leaves of the units: those of other services stay, or are reloaded.
Beside(old, new) ==
    new = old \/ (platform = "linux" /\ new = [old EXCEPT !.loaded = old.file])
Leaves(p, u, after) ==
    /\ after[proc[p].service] = u
    /\ \A n \in Service \ {proc[p].service} : Beside(unit[n], after[n])

Registers(p, to, u) ==
    /\ UNCHANGED <<platform, wanted>>
    /\ spent'["hand"] = spent["hand"] /\ spent'["tamper"] = spent["tamper"]
    /\ proc[p].stage \in Registration /\ proc[p].role = "primary"
    /\ to \in Registration \union {"claim"}
    /\ proc'[p].stage = to /\ Same(p)
    /\ \A q \in Proc \ {p} : proc'[q] = proc[q]
    /\ u \in [file : Content, loaded : Content, enabled : BOOLEAN]
    /\ Leaves(p, u, unit')
    /\ Changed(Mine(p), u)
    /\ (to = "claim" /\ proc'[p].warned) \/ Reached(proc[p].stage, to, Mine(p), u)

LEMMA OwnUnitOnly ==
  ASSUME TypeOK, NEW p \in Proc, NEW u
  PROVE  Leaves(p, u, With(p, u))
  BY DEF TypeOK, Process, Leaves, With, Beside

LEMMA LeftByCommand ==
  ASSUME TypeOK, NEW p \in Proc, NEW from \in Registration,
         NEW to \in Registration \union {"claim"},
         NEW u \in [file : Content, loaded : Content, enabled : BOOLEAN],
         Changed(Mine(p), u), Reached(from, to, Mine(p), u),
         NEW after, Leaves(p, u, after), Command(p, from, to, after)
  PROVE  \E t, v : Registers(p, t, v)
<1>1. /\ UNCHANGED <<platform, wanted>>
      /\ spent'["hand"] = spent["hand"] /\ spent'["tamper"] = spent["tamper"]
  BY DEF Command, Spend, TypeOK, EnvEvent
<1>2. proc[p].stage = from /\ proc[p].role = "primary"
  BY DEF Command, At, TypeOK
<1>3. CASE unit' = after /\ Goto(p, to)
  <2>1. proc'[p].stage = to /\ Same(p) /\ \A q \in Proc \ {p} : proc'[q] = proc[q]
    BY <1>3, GotoTyped, Stages DEF TypeOK
  <2>2. Registers(p, to, u)
    BY <1>1, <1>2, <1>3, <2>1 DEF Registers
  <2>3. QED
    BY <2>2
<1>4. CASE unit' = unit /\ proc' = [proc EXCEPT ![p].stage = "claim", ![p].warned = TRUE]
  <2>1. /\ proc'[p].stage = "claim" /\ Same(p)
        /\ \A q \in Proc \ {p} : proc'[q] = proc[q]
    BY <1>4, GotoTyped, Stages DEF TypeOK
  <2>2. proc'[p].warned
    BY <1>4 DEF TypeOK, Process
  <2>3. /\ Mine(p) \in [file : Content, loaded : Content, enabled : BOOLEAN]
        /\ Leaves(p, Mine(p), unit') /\ Changed(Mine(p), Mine(p))
    BY <1>4, UnitTyped DEF Leaves, Beside, Mine, Changed
  <2>4. Registers(p, "claim", Mine(p))
    BY <1>1, <1>2, <2>1, <2>2, <2>3 DEF Registers
  <2>5. QED
    BY <2>4
<1>5. QED
  BY <1>3, <1>4 DEF Command

LEMMA CommandRegisters ==
  ASSUME TypeOK, NEW p \in Proc, NEW from \in Registration,
         NEW to \in Registration \union {"claim"},
         NEW u \in [file : Content, loaded : Content, enabled : BOOLEAN],
         Changed(Mine(p), u), Reached(from, to, Mine(p), u),
         Command(p, from, to, With(p, u))
  PROVE  \E t, v : Registers(p, t, v)
  BY OwnUnitOnly, LeftByCommand

LEMMA ReloadLeaves ==
  ASSUME TypeOK, NEW p \in Proc, platform = "linux",
         NEW u \in [file : Content, loaded : Content, enabled : BOOLEAN]
  PROVE  /\ Leaves(p, [u EXCEPT !.loaded = u.file], Reloaded(With(p, u)))
         /\ unit = With(p, Mine(p))
  BY DEF TypeOK, Process, Leaves, With, Mine, Beside, Reloaded

LEMMA RegisterStep ==
  ASSUME TypeOK, OwnCommands, NEW p \in Proc, Register(p)
  PROVE  \E t, v : Registers(p, t, v)
<1> DEFINE U == [file : Content, loaded : Content, enabled : BOOLEAN]
<1>1. /\ Mine(p) \in U /\ Entry \in U
      /\ Changed(Mine(p), Mine(p)) /\ unit = With(p, Mine(p))
  BY UnitTyped DEF TypeOK, Entry, Content, Changed, With, Mine
<1>2. CASE ReadUnit(p)
  BY <1>1, <1>2, CommandRegisters DEF ReadUnit, Registration, Reached
<1>3. CASE TruncateUnit(p)
  <2> DEFINE u == [Mine(p) EXCEPT !.file = "empty"]
  <2>1. u \in U /\ u.file = "empty" /\ u.loaded = Mine(p).loaded /\ u.enabled = Mine(p).enabled
    BY <1>1 DEF Content
  <2>2. Changed(Mine(p), u) /\ Reached("truncate", "write", Mine(p), u)
    BY <1>3, <2>1 DEF TruncateUnit, Command, At, OwnCommands, Systemd, Changed, Reached
  <2>3. QED
    BY <1>3, <2>1, <2>2, CommandRegisters DEF TruncateUnit, Registration
<1>4. CASE WriteUnit(p)
  <2> DEFINE u == [Mine(p) EXCEPT !.file = "ours"]
  <2>1. u \in U /\ u.file = "ours" /\ u.loaded = Mine(p).loaded /\ u.enabled = Mine(p).enabled
    BY <1>1 DEF Content
  <2>2. Changed(Mine(p), u) /\ Reached("write", "reload", Mine(p), u)
    BY <1>4, <2>1 DEF WriteUnit, Command, At, OwnCommands, Systemd, Changed, Reached
  <2>3. QED
    BY <1>4, <2>1, <2>2, CommandRegisters DEF WriteUnit, Registration
<1>5. CASE DaemonReload(p)
  <2> DEFINE u == [Mine(p) EXCEPT !.loaded = Mine(p).file]
  <2>1. u \in U /\ u.file = Mine(p).file /\ u.loaded = Mine(p).file
        /\ u.enabled = Mine(p).enabled
    BY <1>1
  <2>2. Changed(Mine(p), u) /\ Reached("reload", "isEnabled", Mine(p), u)
    BY <1>5, <2>1 DEF DaemonReload, Command, At, OwnCommands, Systemd, Changed, Reached
  <2>3. platform = "linux"
    BY <1>5 DEF DaemonReload, Command, At, OwnCommands, Systemd
  <2>4. Leaves(p, u, Reloaded(unit))
    BY <1>1, <2>3, ReloadLeaves
  <2>5. Command(p, "reload", "isEnabled", Reloaded(unit))
    BY <1>5 DEF DaemonReload
  <2> HIDE DEF u
  <2>6. QED
    BY <2>1, <2>2, <2>4, <2>5, LeftByCommand DEF Registration
<1>6. CASE IsEnabled(p)
  <2>1. CASE Mine(p).enabled
    <3>1. Reached("isEnabled", "claim", Mine(p), Mine(p))
      <4>1. Mine(p).enabled \in BOOLEAN
        BY <1>1
      <4>2. Mine(p).enabled = TRUE
        BY <2>1, <4>1
      <4>3. QED
        BY <4>2 DEF Reached
    <3>2. Command(p, "isEnabled", "claim", unit)
      BY <1>6, <2>1 DEF IsEnabled
    <3>3. QED
      BY <1>1, <3>1, <3>2, CommandRegisters DEF Registration
  <2>2. CASE ~Mine(p).enabled
    <3>1. Reached("isEnabled", "enable", Mine(p), Mine(p))
      BY DEF Reached
    <3>2. Command(p, "isEnabled", "enable", unit)
      BY <1>6, <2>2 DEF IsEnabled
    <3>3. QED
      BY <1>1, <3>1, <3>2, CommandRegisters DEF Registration
  <2>3. QED
    BY <2>1, <2>2
<1>7. CASE EnableUnit(p)
  <2> DEFINE v == [Mine(p) EXCEPT !.enabled = TRUE]
             u == [v EXCEPT !.loaded = v.file]
  <2>1. u \in U /\ u.file = Mine(p).file /\ u.loaded = Mine(p).file /\ u.enabled = TRUE
    <3>1. u \in U
      BY <1>1
    <3>2. u.file = Mine(p).file /\ u.loaded = Mine(p).file
      BY <1>1
    <3>3. u.enabled = TRUE
      BY <1>1
    <3>4. QED
      BY <3>1, <3>2, <3>3
  <2> HIDE DEF u
  <2>2. Changed(Mine(p), u)
    BY <1>7, <2>1 DEF EnableUnit, Command, At, OwnCommands, Systemd, Changed
  <2>3. Reached("enable", "claim", Mine(p), u)
    BY <2>1 DEF Reached
  <2>4. Command(p, "enable", "claim", Reloaded(With(p, v)))
    BY <1>7 DEF EnableUnit
  <2>5. platform = "linux"
    BY <1>7 DEF EnableUnit, Command, At, OwnCommands, Systemd
  <2>6. v \in U
    BY <1>1
  <2>7. Leaves(p, u, Reloaded(With(p, v)))
    BY <2>5, <2>6, ReloadLeaves DEF u
  <2> HIDE DEF v
  <2>8. QED
    BY <2>1, <2>2, <2>3, <2>4, <2>7, LeftByCommand DEF Registration
<1>8. CASE QueryService(p)
  BY <1>1, <1>8, CommandRegisters DEF QueryService, Registration, Reached
<1>9. CASE CreateService(p) \/ ConfigService(p)
  <2>1. platform = "windows"
    BY <1>9 DEF CreateService, ConfigService, Command, At, OwnCommands, Scm
  <2>2. Changed(Mine(p), Entry)
    BY <2>1 DEF Changed
  <2>3. Reached("create", "describe", Mine(p), Entry) /\ Reached("config", "claim", Mine(p), Entry)
    BY DEF Reached
  <2>4. QED
    BY <1>1, <1>9, <2>2, <2>3, CommandRegisters DEF CreateService, ConfigService, Registration
<1>10. CASE CreateRefused(p)
  <2>1. /\ proc' = [proc EXCEPT ![p].stage = "claim", ![p].warned = TRUE]
        /\ UNCHANGED <<platform, unit, wanted, spent>> /\ proc[p].stage = "create"
    BY <1>10 DEF CreateRefused, At
  <2>2. /\ proc'[p].stage = "claim" /\ Same(p)
        /\ \A q \in Proc \ {p} : proc'[q] = proc[q]
    BY <2>1, GotoTyped, Stages DEF TypeOK
  <2>3. proc'[p].warned
    BY <2>1 DEF TypeOK, Process
  <2>4. proc[p].role = "primary" /\ "create" \in Registration
    BY <2>1 DEF TypeOK, Registration
  <2>5. Leaves(p, Mine(p), unit')
    BY <2>1 DEF Leaves, Beside, Mine
  <2>6. Registers(p, "claim", Mine(p))
    BY <1>1, <2>1, <2>2, <2>3, <2>4, <2>5 DEF Registers
  <2>7. QED
    BY <2>6
<1>11. CASE DescribeService(p)
  BY <1>1, <1>11, CommandRegisters DEF DescribeService, Registration, Reached
<1>12. QED
  BY <1>2, <1>3, <1>4, <1>5, <1>6, <1>7, <1>8, <1>9, <1>10, <1>11 DEF Register

-----------------------------------------------------------------------------
(* What the other steps do to the processes.                               *)

\* Neither a start by hand nor a change of a unit from outside.
Uneventful ==
    /\ UNCHANGED <<platform, unit>> /\ wanted' \subseteq wanted
    /\ spent'["hand"] = spent["hand"] /\ spent'["tamper"] = spent["tamper"]

GoesOn(p, to) ==
    /\ Uneventful
    /\ proc'[p].stage = to /\ Same(p) /\ proc'[p].warned = proc[p].warned
    /\ \A q \in Proc \ {p} : proc'[q] = proc[q]
    /\ \/ At(p, "baseline") /\ to \in {"read", "query"} /\ proc[p].role = "primary"
       \/ At(p, "baseline") /\ to = "claim" /\ proc[p].role = "watchdog"
       \/ At(p, "claim") /\ to = "supervise"
       \/ proc[p].stage \in {"claim", "supervise", "failed"} /\ to \in {"failed", "returned"}

Ends == Uneventful /\ \A p \in Proc : proc'[p] \in {proc[p], NoProcess}

Starts(q, role, by, service, home) ==
    /\ ~Alive(q)
    /\ proc'[q] = Started(role, by, service, home)
    /\ \A p \in Proc \ {q} : proc'[p] = proc[p]

LEMMA GoesOnStep ==
  ASSUME TypeOK, NEW p \in Proc,
         Baseline(p) \/ Claim(p) \/ StopService(p) \/ SuperviseFails(p)
  PROVE  \E to : GoesOn(p, to)
<1>1. Uneventful
  BY DEF Baseline, Claim, StopService, SuperviseFails, Move, Spend, Uneventful, TypeOK,
     EnvEvent
<1>2. ASSUME NEW to \in Stage, Goto(p, to)
      PROVE  /\ proc'[p].stage = to /\ Same(p) /\ proc'[p].warned = proc[p].warned
             /\ \A q \in Proc \ {p} : proc'[q] = proc[q]
  BY <1>2, GotoTyped DEF TypeOK
<1>3. CASE Baseline(p)
  <2>1. CASE proc[p].role = "watchdog"
    <3>1. Goto(p, "claim") /\ At(p, "baseline")
      BY <1>3, <2>1 DEF Baseline, Move
    <3>2. GoesOn(p, "claim")
      BY <1>1, <1>2, <2>1, <3>1, Stages DEF GoesOn
    <3>3. QED
      BY <3>2
  <2>2. CASE proc[p].role # "watchdog"
    <3>1. PICK to \in {"read", "query"} : Goto(p, to)
      BY <1>3, <2>2 DEF Baseline, Move
    <3>2. At(p, "baseline") /\ proc[p].role = "primary"
      BY <1>3, <2>2, RolesOf DEF Baseline, Move
    <3>3. to \in Stage
      BY <3>1, Stages DEF Systemd, Scm
    <3>4. GoesOn(p, to)
      BY <1>1, <1>2, <3>1, <3>2, <3>3 DEF GoesOn
    <3>5. QED
      BY <3>4
  <2>3. QED
    BY <2>1, <2>2
<1>4. CASE Claim(p)
  <2>1. PICK to \in {"supervise", "failed"} : Goto(p, to)
    BY <1>4 DEF Claim, Move
  <2>2. At(p, "claim") /\ to \in Stage
    BY <1>4, <2>1, Stages DEF Claim, Move
  <2>3. GoesOn(p, to)
    BY <1>1, <1>2, <2>1, <2>2 DEF GoesOn, At
  <2>4. QED
    BY <2>3
<1>5. CASE StopService(p)
  <2>1. GoesOn(p, "returned")
    BY <1>1, <1>2, <1>5, Stages DEF StopService, GoesOn, At
  <2>2. QED
    BY <2>1
<1>6. CASE SuperviseFails(p)
  <2>1. GoesOn(p, "failed")
    BY <1>1, <1>2, <1>6, Stages DEF SuperviseFails, GoesOn, At
  <2>2. QED
    BY <2>1
<1>7. QED
  BY <1>3, <1>4, <1>5, <1>6

LEMMA EndsStep ==
  ASSUME TypeOK,
         \/ \E p \in Proc : Stop(p) \/ Crash(p)
         \/ \E n \in Service : KillGroup(n) \/ AdminStops(n)
  PROVE  Ends
<1>1. Uneventful
  BY DEF Stop, Crash, End, KillGroup, AdminStops, Spend, Uneventful, TypeOK, EnvEvent
<1>2. \A p \in Proc : proc'[p] \in {proc[p], NoProcess}
  BY DEF Stop, Crash, End, KillGroup, AdminStops, TypeOK
<1>3. QED
  BY <1>1, <1>2 DEF Ends

LEMMA StartsStep ==
  ASSUME TypeOK
  PROVE  /\ \A p \in Proc : SpawnPartner(p) =>
               /\ Uneventful
               /\ \E q \in Proc : Starts(q, Partner(proc[p].role), "partner", DefaultName,
                                         proc[p].home)
         /\ \A n \in Service : ManagerStart(n) =>
               /\ Uneventful
               /\ \E q \in Proc : Starts(q, "primary", "manager", StartedName(n), n)
         /\ \A n \in Service : StartByHand(n) =>
               /\ UNCHANGED <<platform, unit, wanted>>
               /\ spent'["hand"] = spent["hand"] + 1 /\ spent'["tamper"] = spent["tamper"]
               /\ \E q \in Proc : Starts(q, "primary", "hand", n, "none")
<1>1. ASSUME NEW q \in Proc, NEW role, NEW by, NEW service, NEW home,
             Launch(q, role, by, service, home)
      PROVE  Starts(q, role, by, service, home)
  BY <1>1 DEF Launch, Starts, TypeOK
<1>2. ASSUME NEW p \in Proc, SpawnPartner(p)
      PROVE  /\ Uneventful
             /\ \E q \in Proc : Starts(q, Partner(proc[p].role), "partner", DefaultName,
                                       proc[p].home)
  BY <1>1, <1>2 DEF SpawnPartner, SpawnedName, Uneventful
<1>3. ASSUME NEW n \in Service, ManagerStart(n)
      PROVE  /\ Uneventful
             /\ \E q \in Proc : Starts(q, "primary", "manager", StartedName(n), n)
  BY <1>1, <1>3 DEF ManagerStart, Uneventful
<1>4. ASSUME NEW n \in Service, StartByHand(n)
      PROVE  /\ UNCHANGED <<platform, unit, wanted>>
             /\ spent'["hand"] = spent["hand"] + 1 /\ spent'["tamper"] = spent["tamper"]
             /\ \E q \in Proc : Starts(q, "primary", "hand", n, "none")
  <2>1. spent'["hand"] = spent["hand"] + 1 /\ spent'["tamper"] = spent["tamper"]
    BY <1>4 DEF StartByHand, Spend, TypeOK, EnvEvent
  <2>2. QED
    BY <1>1, <1>4, <2>1 DEF StartByHand
<1>5. QED
  BY <1>2, <1>3, <1>4

\* What a step is.
LEMMA Kinds ==
  ASSUME TypeOK, OwnCommands, [Next]_vars
  PROVE  \/ \E p \in Proc : \E t, u : Registers(p, t, u)
         \/ \E p \in Proc : \E t : GoesOn(p, t)
         \/ \E p \in Proc : SpawnPartner(p)
         \/ \E n \in Service : ManagerStart(n) \/ StartByHand(n) \/ Tamper(n)
         \/ Ends
         \/ Boot
<1>1. CASE UNCHANGED vars
  BY <1>1 DEF vars, Ends, Uneventful
<1>2. CASE Next
  BY <1>2, RegisterStep, GoesOnStep, EndsStep DEF Next, Step, Environment
<1>3. QED
  BY <1>1, <1>2

-----------------------------------------------------------------------------
(* The names of services.                                                  *)

\* On Windows only the default service may be that of deploy/, so a process
\* that the manager started is told the name of its service.
NamesInv ==
    platform = "windows" =>
        /\ \A n \in Service \ {DefaultName} :
              unit[n].file \in {"absent", "ours"} /\ unit[n].loaded \in {"absent", "ours"}
        /\ \A p \in Proc : proc[p].by = "manager" => proc[p].service = proc[p].home

LEMMA NamesStep ==
  ASSUME TypeOK, OwnCommands, NamesInv, [Next]_vars
  PROVE  NamesInv'
<1> DEFINE Foreign(n) ==
             /\ unit[n].file \in {"absent", "ours"} /\ unit[n].loaded \in {"absent", "ours"}
<1>1. UNCHANGED platform
  BY Kinds, StartsStep
     DEF Registers, GoesOn, SpawnPartner, ManagerStart, StartByHand, Tamper, Ends, Boot, Uneventful
<1> SUFFICES ASSUME platform = "windows"
             PROVE  /\ \A n \in Service \ {DefaultName} : Foreign(n)'
                    /\ \A p \in Proc : proc'[p].by = "manager" => proc'[p].service = proc'[p].home
  BY <1>1 DEF NamesInv
<1>2. /\ \A n \in Service \ {DefaultName} : Foreign(n)
      /\ \A p \in Proc : proc[p].by = "manager" => proc[p].service = proc[p].home
  BY DEF NamesInv
<1> HIDE DEF Foreign
<1>0. ASSUME NEW q \in Proc, NEW role, NEW by, NEW service, NEW home,
             Starts(q, role, by, service, home), by = "manager" => service = home
      PROVE  \A p \in Proc : proc'[p].by = "manager" => proc'[p].service = proc'[p].home
  BY <1>0, <1>2 DEF Starts, Started
<1>3. CASE \E p \in Proc : \E t, u : Registers(p, t, u)
  <2>0. PICK p \in Proc : \E t, u : Registers(p, t, u)
    BY <1>3
  <2>1. PICK t, u : Registers(p, t, u)
    BY <2>0
  <2>2. proc[p].service \in Service
    BY DEF TypeOK, Process
  <2>3. \A n \in Service : unit'[n] \in {unit[n], Entry}
    <3>1. ASSUME NEW n \in Service, n # proc[p].service PROVE unit'[n] = unit[n]
      BY <2>1, <3>1 DEF Registers, Leaves, Beside
    <3>2. unit'[proc[p].service] \in {unit[proc[p].service], Entry}
      BY <2>1 DEF Registers, Leaves, Changed, Mine
    <3>3. QED
      BY <2>2, <3>1, <3>2
  <2>4. QED
    BY <1>2, <2>1, <2>3 DEF Registers, Same, Entry, Foreign
<1>4. CASE \E p \in Proc : \E t : GoesOn(p, t)
  BY <1>2, <1>4 DEF GoesOn, Uneventful, Same, Foreign
<1>5. CASE \E p \in Proc : SpawnPartner(p)
  <2>1. PICK p \in Proc : SpawnPartner(p)
    BY <1>5
  <2>2. Uneventful /\ \E q \in Proc : Starts(q, Partner(proc[p].role), "partner", DefaultName,
                                         proc[p].home)
    BY <2>1, StartsStep
  <2>3. QED
    BY <1>2, <1>0, <2>2 DEF Uneventful, Foreign
<1>6. ASSUME NEW n \in Service, ManagerStart(n)
      PROVE  /\ \A m \in Service \ {DefaultName} : Foreign(m)'
             /\ \A p \in Proc : proc'[p].by = "manager" => proc'[p].service = proc'[p].home
  <2>1. StartedName(n) = n
    BY <1>2, <1>6 DEF ManagerStart, StartedName, Startable, Foreign
  <2>2. QED
    <3>1. Uneventful /\ \E q \in Proc : Starts(q, "primary", "manager", n, n)
      BY <1>6, <2>1, StartsStep
    <3>2. QED
      BY <1>2, <1>0, <3>1 DEF Uneventful, Foreign
<1>7. ASSUME NEW n \in Service, StartByHand(n)
      PROVE  /\ \A m \in Service \ {DefaultName} : Foreign(m)'
             /\ \A p \in Proc : proc'[p].by = "manager" => proc'[p].service = proc'[p].home
  <2>1. /\ UNCHANGED unit
        /\ \E q \in Proc : Starts(q, "primary", "hand", n, "none")
    BY <1>7, StartsStep
  <2>2. QED
    BY <1>2, <1>0, <2>1 DEF Foreign
<1>8. ASSUME NEW n \in Service, Tamper(n)
      PROVE  /\ \A m \in Service \ {DefaultName} : Foreign(m)'
             /\ \A p \in Proc : proc'[p].by = "manager" => proc'[p].service = proc'[p].home
  BY <1>2, <1>8 DEF Tamper, TypeOK, Foreign
<1>9. CASE Ends
  BY <1>2, <1>9, NoProcessTyped DEF Ends, Uneventful, Foreign
<1>10. CASE Boot
  BY <1>2, <1>10, NoProcessTyped DEF Boot, Reloaded, TypeOK, Foreign
<1>11. QED
  BY <1>3, <1>4, <1>5, <1>6, <1>7, <1>8, <1>9, <1>10, Kinds

LEMMA NamesInit == ASSUME DefaultInstall, Init PROVE NamesInv
<1>1. \A n \in Service \ {DefaultName} : n \notin wanted
  BY DEF DefaultInstall, Init
<1>2. \A n \in Service \ {DefaultName} : unit[n].file = "absent" /\ unit[n].loaded = "absent"
  BY <1>1 DEF Init
<1>3. \A p \in Proc : proc[p].by = "hand"
  BY NoProcessTyped DEF Init
<1>4. QED
  BY <1>2, <1>3 DEF NamesInv

\* service_runner.go's comment, "when the OS restarts the service after a crash
\* or reboot it uses the same identifier that was originally registered": a
\* process that Windows starts from an entry of this program's registers no
\* service of another name, whatever is started by hand or tampered with, if
\* the program was installed under its default name or not at all.
THEOREM NameIsKept == DefaultInstall => (Spec => NameKept)
<1> SUFFICES ASSUME DefaultInstall PROVE Spec => NameKept
  OBVIOUS
<1> DEFINE NamesAll == TypeOK /\ OwnCommands /\ NamesInv
           Creates == \A p \in Proc :
              CreateService(p) /\ proc[p].by = "manager" => unit[proc[p].home].file # "ours"
<1>1. Init => NamesAll
  BY InitTyped, NamesInit
<1>2. NamesAll /\ [Next]_vars => NamesAll'
  BY StepTyped, NamesStep
<1>3. NamesAll => Creates
  BY DEF CreateService, Command, At, OwnCommands, Scm, NamesInv, Mine
<1>4. NamesAll /\ [Next]_vars => [Creates]_vars
  BY <1>3
<1> HIDE DEF NamesAll, Creates
<1>5. Spec => [][Creates]_vars
  BY <1>1, <1>2, <1>4, PTL DEF Spec
<1>6. QED
  BY <1>5 DEF NameKept, Creates

-----------------------------------------------------------------------------
(* One primary at a time.                                                  *)

Early(p) == proc[p].stage \in {"baseline", "claim"} \union Registration
Working(p) == proc[p].role = "primary" /\ (Early(p) \/ At(p, "supervise"))

\* Without a start by hand there is on Linux the default service only, what
\* systemd started is alone until it supervises, and one primary works.
OnlyDefault ==
    /\ wanted \subseteq {DefaultName}
    /\ \A n \in Service \ {DefaultName} : unit[n].file = "absent"
    /\ \A p \in Proc : Alive(p) =>
          /\ proc[p].by # "hand"
          /\ proc[p].service = DefaultName /\ proc[p].home = DefaultName
FirstIsAlone ==
    \A p, q \in Proc :
        Alive(p) /\ Early(p) /\ proc[p].by = "manager" /\ Alive(q) => p = q
OneWorks == \A p, q \in Proc : Working(p) /\ Working(q) => p = q
SoleInv ==
    platform = "linux" /\ spent["hand"] = 0 => OnlyDefault /\ FirstIsAlone /\ OneWorks

\* A process that goes on is as alive and as much at work as it was, or less.
LEMMA SoleKept ==
  ASSUME OnlyDefault, FirstIsAlone, OneWorks, wanted' \subseteq wanted,
         \A n \in Service \ {DefaultName} : unit'[n].file = "absent",
         \A p \in Proc :
            /\ Alive(p)' => Alive(p) /\ Same(p)
            /\ Alive(p)' /\ Early(p)' => Early(p)
            /\ Working(p)' => Working(p)
  PROVE  OnlyDefault' /\ FirstIsAlone' /\ OneWorks'
<1>1. OnlyDefault'
  BY DEF OnlyDefault, Same
<1>2. FirstIsAlone'
  BY DEF FirstIsAlone, Same
<1>3. OneWorks'
  BY DEF OneWorks
<1>4. QED
  BY <1>1, <1>2, <1>3

\* A process is started that may be: the first one of all, or the only primary.
LEMMA SoleStarted ==
  ASSUME OnlyDefault, FirstIsAlone, OneWorks, Uneventful,
         NEW q \in Proc, NEW role \in Role, NEW by \in {"manager", "partner"},
         Starts(q, role, by, DefaultName, DefaultName),
         \A p \in Proc : Alive(p) => by = "partner" /\ ~(proc[p].by = "manager" /\ Early(p)),
         role = "primary" => \A p \in Proc : ~Working(p)
  PROVE  OnlyDefault' /\ FirstIsAlone' /\ OneWorks'
<1>1. /\ proc'[q].by = by /\ proc'[q].role = role /\ proc'[q].service = DefaultName
      /\ proc'[q].home = DefaultName
      /\ \A p \in Proc \ {q} : proc'[p] = proc[p]
  BY DEF Starts, Started
<1>2. OnlyDefault'
  BY <1>1 DEF OnlyDefault, Uneventful, Alive
<1>3. FirstIsAlone'
  <2> SUFFICES ASSUME NEW p \in Proc, NEW r \in Proc, Alive(p)', Early(p)',
                      proc'[p].by = "manager", Alive(r)', p # r
               PROVE  FALSE
    BY DEF FirstIsAlone
  <2>1. CASE p = q
    <3>1. by = "manager" /\ Alive(r)
      BY <1>1, <2>1 DEF Alive
    <3>2. QED
      BY <3>1
  <2>2. CASE p # q
    BY <1>1, <2>2 DEF Alive, Early
  <2>3. QED
    BY <2>1, <2>2
<1>4. OneWorks'
  BY <1>1 DEF OneWorks, Working, Early, At
<1>5. QED
  BY <1>2, <1>3, <1>4

LEMMA SoleStep ==
  ASSUME TypeOK, OwnCommands, SoleInv, [Next]_vars
  PROVE  SoleInv'
<1>1. UNCHANGED platform
  BY Kinds, StartsStep
     DEF Registers, GoesOn, SpawnPartner, ManagerStart, StartByHand, Tamper, Ends, Boot, Uneventful
<1> SUFFICES ASSUME platform = "linux", spent'["hand"] = 0
             PROVE  OnlyDefault' /\ FirstIsAlone' /\ OneWorks'
  BY <1>1 DEF SoleInv
<1>2. spent["hand"] = 0
  <2>1. spent["hand"] \in Nat
    BY DEF TypeOK, EnvEvent
  <2>2. spent'["hand"] = spent["hand"] \/ spent'["hand"] = spent["hand"] + 1
    <3>1. ASSUME NEW e \in EnvEvent, Spend(e)
          PROVE  spent'["hand"] = spent["hand"] \/ spent'["hand"] = spent["hand"] + 1
      BY <3>1 DEF Spend, TypeOK, EnvEvent
    <3>2. QED
      BY <3>1, Kinds, StartsStep
         DEF Registers, GoesOn, SpawnPartner, ManagerStart, Tamper, Ends, Boot, Uneventful, EnvEvent
  <2>3. QED
    BY <2>1, <2>2
<1>3. OnlyDefault /\ FirstIsAlone /\ OneWorks
  BY <1>2 DEF SoleInv
<1>4. CASE \E p \in Proc : \E t, u : Registers(p, t, u)
  <2>0. PICK p \in Proc : \E t, u : Registers(p, t, u)
    BY <1>4
  <2>1. PICK t, u : Registers(p, t, u)
    BY <2>0
  <2>2. /\ Alive(p) /\ Early(p) /\ Working(p)
        /\ proc[p].service = DefaultName
    BY <1>3, <2>1, Stages DEF Registers, Alive, Early, Working, OnlyDefault, Systemd, Scm
  <2>3. \A n \in Service \ {DefaultName} : unit'[n].file = "absent"
    <3>1. ASSUME NEW n \in Service \ {DefaultName} PROVE unit'[n].file = unit[n].file
      <4>1. unit[n] \in [file : Content, loaded : Content, enabled : BOOLEAN]
        BY DEF TypeOK
      <4>2. Beside(unit[n], unit'[n])
        BY <2>1, <2>2 DEF Registers, Leaves
      <4>3. QED
        BY <4>1, <4>2 DEF Beside
    <3>2. QED
      BY <1>3, <3>1 DEF OnlyDefault
  <2>4. \A q \in Proc \ {p} : proc'[q] = proc[q]
    BY <2>1 DEF Registers
  <2>5. proc'[p].by = proc[p].by /\ proc'[p].service = proc[p].service
        /\ proc'[p].home = proc[p].home /\ proc'[p].role = proc[p].role
        /\ wanted' \subseteq wanted
    BY <2>1 DEF Registers, Same
  <2>6. ASSUME NEW q \in Proc
        PROVE  /\ Alive(q)' => Alive(q) /\ Same(q)
               /\ Alive(q)' /\ Early(q)' => Early(q)
               /\ Working(q)' => Working(q)
    <3>1. CASE q = p
      BY <2>2, <2>5, <3>1 DEF Same
    <3>2. CASE q # p
      BY <2>4, <3>2 DEF Same, Alive, Early, Working, At
    <3>3. QED
      BY <3>1, <3>2
  <2>7. QED
    BY <1>3, <2>3, <2>5, <2>6, SoleKept
<1>5. CASE \E p \in Proc : \E t : GoesOn(p, t)
  <2>0. PICK p \in Proc : \E t : GoesOn(p, t)
    BY <1>5
  <2>1. PICK t : GoesOn(p, t)
    BY <2>0
  <2>2. Alive(p) /\ (t # "supervise" /\ ~(t \in {"failed", "returned"}) => Early(p))
        /\ (t = "supervise" => Early(p))
    BY <2>1 DEF GoesOn, Alive, Early, At
  <2>3. t \in {"failed", "returned"} => t \notin {"baseline", "claim"} \union Registration
    BY Stages DEF Systemd, Scm
  <2>4. /\ \A q \in Proc \ {p} : proc'[q] = proc[q]
        /\ proc'[p].by = proc[p].by /\ proc'[p].service = proc[p].service
        /\ proc'[p].home = proc[p].home /\ proc'[p].role = proc[p].role
        /\ proc'[p].stage = t /\ wanted' \subseteq wanted /\ UNCHANGED unit
    BY <2>1 DEF GoesOn, Same, Uneventful
  <2>5. "supervise" \notin {"baseline", "claim"} \union Registration
    BY Stages DEF Systemd, Scm
  <2>6. \A n \in Service \ {DefaultName} : unit'[n].file = "absent"
    BY <1>3, <2>4 DEF OnlyDefault
  <2>7. QED
    BY <1>3, <2>2, <2>3, <2>4, <2>5, <2>6, SoleKept DEF Same, Alive, Early, Working, At
<1>6. ASSUME NEW p \in Proc, SpawnPartner(p) PROVE OnlyDefault' /\ FirstIsAlone' /\ OneWorks'
  <2>1. /\ Alive(p) /\ At(p, "supervise") /\ proc[p].home = DefaultName
        /\ Partner(proc[p].role) \in Role
    BY <1>3, <1>6 DEF SpawnPartner, At, Alive, OnlyDefault, Partner, Role
  <2>2. PICK q \in Proc : Starts(q, Partner(proc[p].role), "partner", DefaultName, DefaultName)
    BY <1>6, <2>1, StartsStep
  <2>3. Uneventful
    BY <1>6, StartsStep
  <2>4. ASSUME NEW r \in Proc, Alive(r), proc[r].by = "manager" PROVE ~Early(r)
    <3>1. ~Early(p)
      BY <2>1, Stages DEF Early, At, Systemd, Scm
    <3>2. QED
      BY <1>3, <2>1, <2>4, <3>1 DEF FirstIsAlone
  <2>5. ASSUME Partner(proc[p].role) = "primary", NEW r \in Proc, Working(r) PROVE FALSE
    <3>1. ~At(r, "supervise")
      BY <1>6, <2>5 DEF SpawnPartner, Holder, Working, At
    <3>2. Early(r) /\ Alive(r) /\ proc[r].stage \notin {"dead", "failed", "returned"}
      BY <2>5, <3>1, Stages DEF Working, Early, Alive, Systemd, Scm
    <3>3. proc[r].by = "partner"
      BY <1>3, <2>4, <3>2 DEF OnlyDefault, TypeOK, Process
    <3>4. QED
      BY <1>6, <2>5, <3>2, <3>3 DEF SpawnPartner, Working
  <2>6. QED
    BY <1>3, <2>1, <2>2, <2>3, <2>4, <2>5, SoleStarted
<1>7. ASSUME NEW n \in Service, ManagerStart(n) PROVE OnlyDefault' /\ FirstIsAlone' /\ OneWorks'
  <2>1. n = DefaultName /\ StartedName(n) = DefaultName /\ Members(n) = {}
    BY <1>3, <1>7 DEF ManagerStart, OnlyDefault, StartedName
  <2>2. \A p \in Proc : ~Alive(p)
    BY <1>3, <2>1 DEF Members, OnlyDefault
  <2>3. \A p \in Proc : ~Working(p)
    BY <2>2, Stages DEF Alive, Working, Early, At, Systemd, Scm
  <2>4. PICK q \in Proc : Starts(q, "primary", "manager", DefaultName, DefaultName)
    BY <1>7, <2>1, StartsStep
  <2>5. Uneventful /\ "primary" \in Role
    BY <1>7, StartsStep DEF Role
  <2>6. QED
    BY <1>3, <2>2, <2>3, <2>4, <2>5, SoleStarted
<1>8. ASSUME NEW n \in Service, StartByHand(n) PROVE FALSE
  BY <1>2, <1>8, StartsStep
<1>9. ASSUME NEW n \in Service, Tamper(n) PROVE OnlyDefault' /\ FirstIsAlone' /\ OneWorks'
  <2>1. \A m \in Service \ {DefaultName} : unit'[m].file = "absent"
    BY <1>3, <1>9 DEF Tamper, OnlyDefault, TypeOK
  <2>2. UNCHANGED <<proc, wanted>>
    BY <1>9 DEF Tamper
  <2>3. QED
    BY <1>3, <2>1, <2>2, SoleKept DEF Same, Alive, Early, Working, At
<1>10. CASE Ends
  <2>1. \A p \in Proc : proc'[p] = proc[p] \/ proc'[p].stage = "dead"
    BY <1>10, NoProcessTyped DEF Ends
  <2>2. wanted' \subseteq wanted /\ UNCHANGED unit
    BY <1>10 DEF Ends, Uneventful
  <2>3. \A n \in Service \ {DefaultName} : unit'[n].file = "absent"
    BY <1>3, <2>2 DEF OnlyDefault
  <2>4. \A p \in Proc : proc'[p].stage = "dead" => ~Alive(p)' /\ ~Working(p)'
    BY Stages DEF Alive, Working, Early, At, Systemd, Scm
  <2>5. QED
    BY <1>3, <2>1, <2>2, <2>3, <2>4, SoleKept DEF Same, Alive, Early, Working, At
<1>11. CASE Boot
  <2>1. \A p \in Proc : proc'[p].stage = "dead"
    BY <1>11, NoProcessTyped DEF Boot
  <2>2. \A p \in Proc : ~Alive(p)' /\ ~Working(p)'
    BY <2>1, Stages DEF Alive, Working, Early, At, Systemd, Scm
  <2>3. /\ \A n \in Service \ {DefaultName} : unit'[n].file = "absent"
        /\ wanted' \subseteq {DefaultName}
    BY <1>3, <1>11 DEF Boot, Reloaded, OnlyDefault, TypeOK, Startable
  <2>4. QED
    BY <2>2, <2>3 DEF OnlyDefault, FirstIsAlone, OneWorks
<1>12. QED
  BY <1>4, <1>5, <1>6, <1>7, <1>8, <1>9, <1>10, <1>11, Kinds

LEMMA SoleInit == ASSUME DefaultInstall, Init PROVE SoleInv
<1>1. wanted \subseteq {DefaultName}
  BY DEF DefaultInstall, Init
<1>2. \A n \in Service \ {DefaultName} : unit[n].file = "absent"
  BY <1>1 DEF Init
<1>3. \A p \in Proc : ~Alive(p) /\ ~Working(p)
  BY NoProcessTyped, Stages DEF Init, Alive, Working, Early, At, Systemd, Scm
<1>4. QED
  BY <1>1, <1>2, <1>3 DEF SoleInv, OnlyDefault, FirstIsAlone, OneWorks

-----------------------------------------------------------------------------
(* What a registration has achieved.                                       *)

\* What a unit may hold that a registration has written: only a second
\* registration at the same time cuts it short.
Sound == IF platform = "linux" /\ spent["hand"] > 0 THEN {"ours", "empty"} ELSE {"ours"}

Unwarned(p) ==
    /\ proc[p].role = "primary" /\ ~proc[p].warned
    /\ proc[p].stage \in {"claim", "supervise"}

\* The processes that rely on the file, on what is loaded, on the service being
\* enabled.
ReliesOnFile(p) == proc[p].stage \in {"reload", "isEnabled", "enable", "describe"} \/ Unwarned(p)
ReliesOnLoaded(p) == proc[p].stage \in {"isEnabled", "enable", "describe"} \/ Unwarned(p)
ReliesOnEnabled(p) == proc[p].stage = "describe" \/ Unwarned(p)

Achieved(p) ==
    /\ ReliesOnFile(p) => Mine(p).file \in Sound
    /\ ReliesOnLoaded(p) => Mine(p).loaded \in Sound
    /\ ReliesOnEnabled(p) => Mine(p).enabled = TRUE

AchievedInv == spent["tamper"] = 0 => \A p \in Proc : Achieved(p)

\* Starts by hand and changes of a unit are counted, and the platform stays.
LEMMA Monotone ==
  ASSUME TypeOK, OwnCommands, [Next]_vars
  PROVE  /\ UNCHANGED platform
         /\ spent["hand"] \in Nat /\ spent["tamper"] \in Nat
         /\ spent'["hand"] \in {spent["hand"], spent["hand"] + 1}
         /\ spent'["tamper"] \in {spent["tamper"], spent["tamper"] + 1}
<1>1. UNCHANGED platform
  BY Kinds, StartsStep
     DEF Registers, GoesOn, SpawnPartner, ManagerStart, StartByHand, Tamper, Ends, Boot, Uneventful
<1>2. spent["hand"] \in Nat /\ spent["tamper"] \in Nat
  BY DEF TypeOK, EnvEvent
<1>3. ASSUME NEW e \in EnvEvent, Spend(e)
      PROVE  /\ spent'["hand"] \in {spent["hand"], spent["hand"] + 1}
             /\ spent'["tamper"] \in {spent["tamper"], spent["tamper"] + 1}
  BY <1>3 DEF Spend, TypeOK, EnvEvent
<1>4. /\ spent'["hand"] \in {spent["hand"], spent["hand"] + 1}
      /\ spent'["tamper"] \in {spent["tamper"], spent["tamper"] + 1}
  BY <1>3, Kinds, StartsStep
     DEF Registers, GoesOn, SpawnPartner, ManagerStart, Tamper, Ends, Boot, Uneventful, EnvEvent
<1>5. QED
  BY <1>1, <1>2, <1>4

\* Whatever else happens, a process that has not moved relies on as much, and a
\* unit that has not changed is as sound.
LEMMA AchievedKept ==
  ASSUME NEW p \in Proc, Achieved(p), UNCHANGED unit, Sound \subseteq Sound',
         proc'[p] = proc[p] \/ proc'[p].stage \in {"dead", "baseline"}
  PROVE  Achieved(p)'
<1>1. CASE proc'[p] = proc[p]
  BY <1>1 DEF Achieved, ReliesOnFile, ReliesOnLoaded, ReliesOnEnabled, Unwarned, Mine
<1>2. CASE proc'[p].stage \in {"dead", "baseline"}
  BY <1>2 DEF Achieved, ReliesOnFile, ReliesOnLoaded, ReliesOnEnabled, Unwarned
<1>3. QED
  BY <1>1, <1>2

\* The process whose registration has come further.
LEMMA AchievedByIt ==
  ASSUME TypeOK, NEW p \in Proc, Achieved(p), NEW t, NEW u, Registers(p, t, u)
  PROVE  Achieved(p)'
<1>1. /\ proc'[p].stage = t /\ proc'[p].role = proc[p].role
      /\ proc'[p].service = proc[p].service /\ Sound' = Sound /\ "ours" \in Sound
  BY DEF Registers, Same, Sound
<1>2. Mine(p)' = u
  BY <1>1 DEF Registers, Leaves, Mine
<1>3. CASE t = "claim" /\ proc'[p].warned
  BY <1>1, <1>3 DEF Achieved, ReliesOnFile, ReliesOnLoaded, ReliesOnEnabled, Unwarned
<1>4. CASE Reached(proc[p].stage, t, Mine(p), u)
  <2>1. t # "supervise"
    BY Stages DEF Registers, Systemd, Scm
  <2>2. Achieved(p)' = /\ ReliesOnFile(p)' => u.file \in Sound
                       /\ ReliesOnLoaded(p)' => u.loaded \in Sound
                       /\ ReliesOnEnabled(p)' => u.enabled = TRUE
    BY <1>1, <1>2 DEF Achieved
  <2>3. /\ ReliesOnFile(p)' => t \in {"reload", "isEnabled", "enable", "describe", "claim"}
        /\ ReliesOnLoaded(p)' => t \in {"isEnabled", "enable", "describe", "claim"}
        /\ ReliesOnEnabled(p)' => t \in {"describe", "claim"}
    BY <1>1, <2>1 DEF ReliesOnFile, ReliesOnLoaded, ReliesOnEnabled, Unwarned
  <2>4. CASE t \in {"reload", "describe"}
    BY <1>1, <1>4, <2>2, <2>3, <2>4 DEF Reached, Entry
  <2>5. CASE t \in {"isEnabled", "enable"}
    BY <1>1, <1>4, <2>2, <2>3, <2>5
       DEF Reached, Achieved, ReliesOnFile, ReliesOnLoaded
  <2>6. CASE t = "claim"
    BY <1>1, <1>4, <2>2, <2>6
       DEF Reached, Entry, Achieved, ReliesOnFile, ReliesOnLoaded, ReliesOnEnabled
  <2>7. QED
    BY <2>2, <2>3, <2>4, <2>5, <2>6
<1>5. QED
  BY <1>3, <1>4 DEF Registers

\* Another process: without a start by hand none relies on the unit on Linux.
LEMMA AchievedByOther ==
  ASSUME TypeOK, SoleInv, NEW p \in Proc, NEW q \in Proc, p # q, Achieved(q),
         NEW t, NEW u, Registers(p, t, u)
  PROVE  Achieved(q)'
<1>1. proc'[q] = proc[q] /\ Sound' = Sound
  BY DEF Registers, Sound
<1>2. /\ unit'[proc[p].service] = u
      /\ \A n \in Service \ {proc[p].service} : Beside(unit[n], unit'[n])
      /\ proc[p].service \in Service /\ proc[q].service \in Service
  BY DEF Registers, Leaves, TypeOK, Process
<1>3. CASE proc[p].service # proc[q].service
  <2>1. Mine(q)' = Mine(q) \/ Mine(q)' = [Mine(q) EXCEPT !.loaded = Mine(q).file]
    BY <1>1, <1>2, <1>3 DEF Mine, Beside
  <2>2. /\ Mine(q)'.file = Mine(q).file /\ Mine(q)'.enabled = Mine(q).enabled
        /\ Mine(q)'.loaded \in {Mine(q).loaded, Mine(q).file}
    BY <2>1, UnitTyped
  <2>3. ReliesOnLoaded(q) => ReliesOnFile(q)
    BY DEF ReliesOnFile, ReliesOnLoaded
  <2>4. /\ ReliesOnFile(q)' = ReliesOnFile(q) /\ ReliesOnLoaded(q)' = ReliesOnLoaded(q)
        /\ ReliesOnEnabled(q)' = ReliesOnEnabled(q)
    BY <1>1 DEF ReliesOnFile, ReliesOnLoaded, ReliesOnEnabled, Unwarned
  <2>5. QED
    BY <1>1, <2>2, <2>3, <2>4 DEF Achieved
<1>4. CASE proc[p].service = proc[q].service
  <2>1. Mine(q)' = u /\ Mine(q) = Mine(p)
    BY <1>1, <1>2, <1>4 DEF Mine
  <2>2. /\ ReliesOnFile(q)' = ReliesOnFile(q) /\ ReliesOnLoaded(q)' = ReliesOnLoaded(q)
        /\ ReliesOnEnabled(q)' = ReliesOnEnabled(q)
        /\ ReliesOnLoaded(q) => ReliesOnFile(q)
    BY <1>1 DEF ReliesOnFile, ReliesOnLoaded, ReliesOnEnabled, Unwarned
  <2>3. Achieved(q)' = /\ ReliesOnFile(q) => u.file \in Sound
                       /\ ReliesOnLoaded(q) => u.loaded \in Sound
                       /\ ReliesOnEnabled(q) => u.enabled = TRUE
    BY <1>1, <2>1, <2>2 DEF Achieved
  <2>4. CASE platform = "linux" /\ spent["hand"] = 0
    <3>1. Working(p)
      BY DEF Registers, Working, Early
    <3>2. ~Working(q)
      BY <2>4, <3>1 DEF SoleInv, OneWorks
    <3>3. ~ReliesOnFile(q) /\ ~ReliesOnLoaded(q) /\ ~ReliesOnEnabled(q)
      <4>1. proc[q].stage \in Registration => proc[q].role = "primary"
        BY DEF TypeOK
      <4>2. QED
        BY <3>2, <4>1, Stages DEF Working, Early, At, ReliesOnFile, ReliesOnLoaded,
           ReliesOnEnabled, Unwarned, Systemd, Scm
    <3>4. QED
      BY <2>3, <3>3
  <2>5. CASE platform = "linux" /\ spent["hand"] # 0
    <3>1. Sound = {"ours", "empty"}
      BY <2>5 DEF Sound, TypeOK, EnvEvent
    <3>2. /\ u.file \in {Mine(q).file, "empty", "ours"}
          /\ u.loaded \in {Mine(q).loaded, Mine(q).file}
          /\ Mine(q).enabled = TRUE => u.enabled = TRUE
      BY <2>1, <2>5 DEF Registers, Changed
    <3>3. QED
      BY <2>2, <2>3, <3>1, <3>2 DEF Achieved
  <2>6. CASE platform # "linux"
    <3>1. u \in {Mine(q), Entry}
      BY <2>1, <2>6 DEF Registers, Changed
    <3>2. "ours" \in Sound
      BY DEF Sound
    <3>3. QED
      BY <2>3, <3>1, <3>2 DEF Achieved, Entry
  <2>7. QED
    BY <2>4, <2>5, <2>6
<1>5. QED
  BY <1>3, <1>4

LEMMA AchievedStep ==
  ASSUME TypeOK, OwnCommands, SoleInv, AchievedInv, [Next]_vars
  PROVE  AchievedInv'
<1> SUFFICES ASSUME spent'["tamper"] = 0, NEW q \in Proc PROVE Achieved(q)'
  BY DEF AchievedInv
<1>1. spent["tamper"] = 0 /\ Sound \subseteq Sound'
  BY Monotone DEF Sound
<1>2. \A p \in Proc : Achieved(p)
  BY <1>1 DEF AchievedInv
<1>3. ASSUME NEW p \in Proc, NEW role, NEW by, NEW service, NEW home, UNCHANGED unit,
             Starts(p, role, by, service, home)
      PROVE  Achieved(q)'
  BY <1>1, <1>2, <1>3, AchievedKept DEF Starts, Started
<1>4. CASE \E p \in Proc : \E t, u : Registers(p, t, u)
  BY <1>2, <1>4, AchievedByIt, AchievedByOther
<1>5. CASE \E p \in Proc : \E t : GoesOn(p, t)
  <2>0. PICK p \in Proc : \E t : GoesOn(p, t)
    BY <1>5
  <2>1. PICK t : GoesOn(p, t)
    BY <2>0
  <2>2. CASE q # p
    BY <1>1, <1>2, <2>1, <2>2, AchievedKept DEF GoesOn, Uneventful
  <2>3. CASE q = p
    <3>1. /\ proc'[p].stage = t /\ Same(p) /\ proc'[p].warned = proc[p].warned
          /\ Mine(p)' = Mine(p)
      BY <2>1 DEF GoesOn, Uneventful, Same, Mine
    <3>2. CASE t = "supervise"
      <4>1. At(p, "claim")
        BY <2>1, <3>2 DEF GoesOn
      <4>2. QED
        BY <1>1, <1>2, <2>3, <3>1, <3>2, <4>1 DEF At, Same, Achieved, ReliesOnFile,
           ReliesOnLoaded, ReliesOnEnabled, Unwarned
    <3>3. CASE t # "supervise"
      <4>1. \/ t \in {"read", "query", "failed", "returned"}
            \/ t = "claim" /\ proc[p].role = "watchdog"
        BY <2>1, <3>3 DEF GoesOn
      <4>2. QED
        BY <2>3, <3>1, <4>1 DEF Same, Achieved, ReliesOnFile, ReliesOnLoaded,
           ReliesOnEnabled, Unwarned
    <3>4. QED
      BY <3>2, <3>3
  <2>4. QED
    BY <2>2, <2>3
<1>6. CASE \E p \in Proc : SpawnPartner(p)
  BY <1>3, <1>6, StartsStep DEF Uneventful
<1>7. ASSUME NEW n \in Service, ManagerStart(n) \/ StartByHand(n) PROVE Achieved(q)'
  BY <1>3, <1>7, StartsStep DEF Uneventful
<1>8. ASSUME NEW n \in Service, Tamper(n) PROVE FALSE
  BY <1>1, <1>8 DEF Tamper, Spend, TypeOK, EnvEvent
<1>9. CASE Ends
  BY <1>1, <1>2, <1>9, NoProcessTyped, AchievedKept DEF Ends, Uneventful
<1>10. CASE Boot
  BY <1>10, NoProcessTyped DEF Boot, Achieved, ReliesOnFile, ReliesOnLoaded,
     ReliesOnEnabled, Unwarned
<1>11. QED
  BY <1>4, <1>5, <1>6, <1>7, <1>8, <1>9, <1>10, Kinds

LEMMA AchievedInit == ASSUME Init PROVE AchievedInv
  BY NoProcessTyped DEF Init, AchievedInv, Achieved, ReliesOnFile, ReliesOnLoaded,
     ReliesOnEnabled, Unwarned

\* A primary that was told of no error is registered for the next boot as this
\* program writes it, whatever an interrupted registration left behind, for a
\* program that was installed under its default name or not at all.
THEOREM Holds == DefaultInstall => (Spec => []RegistrationHolds)
<1> SUFFICES ASSUME DefaultInstall PROVE Spec => []RegistrationHolds
  OBVIOUS
<1> DEFINE Inv == TypeOK /\ OwnCommands /\ SoleInv /\ AchievedInv
<1>1. Init => Inv
  BY InitTyped, SoleInit, AchievedInit
<1>2. Inv /\ [Next]_vars => Inv'
  BY StepTyped, SoleStep, AchievedStep
<1>3. Inv => RegistrationHolds
  <2> SUFFICES ASSUME Inv, spent["tamper"] = 0, NEW p \in Holder("primary"), ~proc[p].warned,
                      ~Registered(proc[p].service)
               PROVE  spent["hand"] > 0 /\ Torn(proc[p].service)
    BY DEF RegistrationHolds
  <2>1. p \in Proc /\ Unwarned(p)
    BY DEF Holder, Unwarned
  <2>2. Mine(p).file \in Sound /\ Mine(p).loaded \in Sound /\ Mine(p).enabled = TRUE
    BY <2>1 DEF AchievedInv, Achieved, ReliesOnFile, ReliesOnLoaded, ReliesOnEnabled
  <2>3. Mine(p) \in [file : Content, loaded : Content, enabled : BOOLEAN]
    BY <2>1, UnitTyped
  <2>4. "empty" \in {Mine(p).file, Mine(p).loaded}
    BY <2>2, <2>3 DEF Sound, Registered, Mine
  <2>5. QED
    BY <2>2, <2>4 DEF Sound, Torn, Mine
<1>4. QED
  BY <1>1, <1>2, <1>3, PTL DEF Spec
=============================================================================
