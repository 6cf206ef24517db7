--------------------------- MODULE DnsGuardLinux ---------------------------
(***************************************************************************)
(* internal/dnshijack on Linux: every process of the program checks        *)
(* /etc/resolv.conf on a timer and, when enforcing, puts a new file in its *)
(* place by way of a temporary file.  Each action is one system call or    *)
(* one private piece of work, so the other process and outsiders may come  *)
(* between any two.                                                        *)
(***************************************************************************)
EXTENDS Naturals, Sequences, FiniteSets

CONSTANTS
    Proc,      \* the roles that run
    Desired,   \* Guard.desired, the configured nameservers
    Lists,     \* nameserver lists an outsider may write
    Builds,    \* what may be installed: "guard", or -tags noprotection: "warn"
    Budgets    \* how often each event may happen: one budget, or several

EnvEvent == {"spawn", "crash", "fault", "write", "relink", "delete"}

ASSUME RolesAssumption == "primary" \in Proc /\ IsFiniteSet(Proc)
ASSUME DesiredAssumption ==
    Desired \in Seq(Nat \ {0}) \ {<<>>} /\ Lists \subseteq Seq(Nat \ {0})
ASSUME BuildAssumption == Builds \subseteq {"guard", "warn"}
ASSUME EventsAssumption == Budgets \subseteq [EnvEvent -> Nat]

VARIABLES
    link,      \* is /etc/resolv.conf a symbolic link?
    file,      \* the nameservers in the file at the path and at the target
    temps,     \* how many temporary files lie in the directories
    mode,      \* off, applying the baseline, or the build that guards
    pc,        \* the next step of enforce, or idle
    lastSeen,  \* Guard.lastSeen of each process
    target,    \* its local writeTarget
    lastLog,   \* the drift last logged by each process, for the properties
    spent      \* how often each event has happened

disk == <<link, file, temps>>
vars == <<disk, mode, pc, lastSeen, target, lastLog, spent>>

Place == {"path", "target"}
\* No list of servers: servers are numbered from 1.
Absent == <<0>>
Silent == <<0>>

\* The empty string, which is also the signature of a list of no servers.
NothingSeen == <<>>
Signature(servers) == servers

\* What os.ReadFile finds.
Current == IF link THEN file["target"] ELSE file["path"]
\* filepath.EvalSymlinks; a failure leaves the path itself.
Resolved == IF link /\ file["target"] # Absent THEN "target" ELSE "path"

Guarding(p) == mode[p] \in {"guard", "warn"}
Warns(p) == mode[p] = "warn"

\* The builds p may be of: only protected ones come in pairs, both of one build.
Installed(p) ==
    {b \in Builds : p = "watchdog" \/ (\E q \in Proc \ {p} : mode[q] # "off")
                        => b = "guard"}

-----------------------------------------------------------------------------
Init ==
    /\ link \in BOOLEAN
    /\ file \in [Place -> Lists]
    /\ temps = 0
    /\ mode = [p \in Proc |-> "off"]
    /\ pc = [p \in Proc |-> "idle"]
    /\ lastSeen = [p \in Proc |-> NothingSeen]
    /\ target = [p \in Proc |-> "path"]
    /\ lastLog = [p \in Proc |-> Silent]
    /\ spent = [e \in EnvEvent |-> 0]

\* An event happens, within one of the budgets.
Spend(e) ==
    LET after == [spent EXCEPT ![e] = @ + 1]
    IN /\ \E b \in Budgets : \A x \in EnvEvent : after[x] <= b[x]
       /\ spent' = after

\* runApplication: EnforceOnce of a Guard of its own, then Run of another.
Start(p) ==
    /\ mode[p] = "off"
    /\ IF p = "watchdog" THEN mode["primary"] = "guard" /\ Spend("spawn")
       ELSE UNCHANGED spent
    /\ mode' = [mode EXCEPT ![p] = "baseline"]
    /\ pc' = [pc EXCEPT ![p] = "check"]
    /\ UNCHANGED <<disk, lastSeen, target, lastLog>>

\* Run checks at once and whenever its ticker fires.
Tick(p) ==
    /\ Guarding(p)
    /\ pc[p] = "idle"
    /\ pc' = [pc EXCEPT ![p] = "check"]
    /\ UNCHANGED <<disk, mode, lastSeen, target, lastLog, spent>>

\* enforce returns, with or without an error; after the baseline Run begins.
Return(p, seen) ==
    /\ pc' = [pc EXCEPT ![p] = IF mode[p] = "baseline" THEN "check" ELSE "idle"]
    /\ IF Guarding(p) THEN UNCHANGED mode
       ELSE \E build \in Installed(p) : mode' = [mode EXCEPT ![p] = build]
    /\ lastSeen' = [lastSeen EXCEPT
                       ![p] = IF mode[p] = "baseline" THEN NothingSeen ELSE seen]

GoTo(p, step) == pc' = [pc EXCEPT ![p] = step] /\ UNCHANGED mode

-----------------------------------------------------------------------------
(* enforce.                                                                *)

\* Mutant of SameServerList: in any order.
SameServersInAnyOrder(current, desired) ==
    /\ Len(current) = Len(desired)
    /\ \A i \in 1..Len(desired) : \E j \in 1..Len(current) : current[j] = desired[i]

SameServerList(current, desired) == current = desired

\* The file cannot be read.
CheckFails(p) ==
    /\ pc[p] = "check"
    /\ \/ Current = Absent /\ UNCHANGED spent
       \/ Spend("fault")
    /\ Return(p, lastSeen[p])
    /\ UNCHANGED <<disk, target, lastLog>>

\* The servers are the desired ones.
CheckPasses(p) ==
    /\ pc[p] = "check"
    /\ SameServerList(Current, Desired)
    /\ Return(p, NothingSeen)
    /\ UNCHANGED <<disk, target, lastLog, spent>>

\* Mutant of LogDrift: only the first drift is logged.
LogDriftOnce(p) ==
    IF lastSeen[p] = NothingSeen
      THEN lastLog' = [lastLog EXCEPT ![p] = Current]
      ELSE UNCHANGED lastLog

\* A drift is logged unless it is the one seen last.
LogDrift(p) ==
    IF lastSeen[p] # Signature(Current)
      THEN lastLog' = [lastLog EXCEPT ![p] = Current]
      ELSE UNCHANGED lastLog

\* Mutant of CheckFindsDrift: a file that cannot be read counts as drift.
CheckFindsDriftUnread(p) ==
    /\ pc[p] = "check"
    /\ ~SameServerList(Current, Desired)
    /\ LogDrift(p)
    /\ IF Warns(p) THEN Return(p, Signature(Current))
       ELSE /\ GoTo(p, "resolve")
            /\ lastSeen' = [lastSeen EXCEPT ![p] = Signature(Current)]
    /\ UNCHANGED <<disk, target, spent>>

\* The servers are others.  A warn-only guard does no more.
CheckFindsDrift(p) ==
    /\ pc[p] = "check"
    /\ Current # Absent
    /\ ~SameServerList(Current, Desired)
    /\ LogDrift(p)
    /\ IF Warns(p) THEN Return(p, Signature(Current))
       ELSE /\ GoTo(p, "resolve")
            /\ lastSeen' = [lastSeen EXCEPT ![p] = Signature(Current)]
    /\ UNCHANGED <<disk, target, spent>>

\* Mutant of Resolve: the path itself is written, link or not.
ResolveNothing(p) ==
    /\ pc[p] = "resolve"
    /\ target' = [target EXCEPT ![p] = "path"]
    /\ GoTo(p, "createTemp")
    /\ UNCHANGED <<disk, lastSeen, lastLog, spent>>

\* Where the new file is to go.
Resolve(p) ==
    /\ pc[p] = "resolve"
    /\ target' = [target EXCEPT ![p] = Resolved]
    /\ GoTo(p, "createTemp")
    /\ UNCHANGED <<disk, lastSeen, lastLog, spent>>

CreateTemp(p) ==
    /\ pc[p] = "createTemp"
    /\ \/ /\ temps' = temps + 1
          /\ GoTo(p, "fillTemp")
          /\ UNCHANGED <<lastSeen, spent>>
       \/ /\ Spend("fault")
          /\ Return(p, lastSeen[p])
          /\ UNCHANGED temps
    /\ UNCHANGED <<link, file, target, lastLog>>

\* Mutant of FillTemp: the temporary file is forgotten when that fails.
FillTempKeeping(p) ==
    /\ pc[p] = "fillTemp"
    /\ \/ GoTo(p, "rename") /\ UNCHANGED <<temps, lastSeen, spent>>
       \/ Spend("fault") /\ Return(p, lastSeen[p]) /\ UNCHANGED temps
    /\ UNCHANGED <<link, file, target, lastLog>>

\* Write, close and chmod; if one fails, the temporary file is removed.
FillTemp(p) ==
    /\ pc[p] = "fillTemp"
    /\ \/ GoTo(p, "rename") /\ UNCHANGED <<temps, lastSeen, spent>>
       \/ Spend("fault") /\ Return(p, lastSeen[p]) /\ temps' = temps - 1
    /\ UNCHANGED <<link, file, target, lastLog>>

\* Rename replaces whatever is at the path, a link included.
Rename(p) ==
    /\ pc[p] = "rename"
    /\ temps' = temps - 1
    /\ \/ /\ file' = [file EXCEPT ![target[p]] = Desired]
          /\ link' = (link /\ target[p] = "target")
          /\ Return(p, NothingSeen)
          /\ UNCHANGED spent
       \/ /\ Spend("fault")
          /\ Return(p, lastSeen[p])
          /\ UNCHANGED <<link, file>>
    /\ UNCHANGED <<target, lastLog>>

-----------------------------------------------------------------------------
(* The environment.                                                        *)

\* A kill leaves the temporary file where it is.
Crash(p) ==
    /\ mode[p] # "off"
    /\ Spend("crash")
    /\ mode' = [mode EXCEPT ![p] = "off"]
    /\ pc' = [pc EXCEPT ![p] = "idle"]
    /\ lastSeen' = [lastSeen EXCEPT ![p] = NothingSeen]
    /\ target' = [target EXCEPT ![p] = "path"]
    /\ lastLog' = [lastLog EXCEPT ![p] = Silent]
    /\ UNCHANGED disk

\* Somebody writes the file, deletes it, or replaces it by a link, or back.
Overwrite(contents) ==
    file' = [file EXCEPT ![IF link THEN "target" ELSE "path"] = contents]

Tamper ==
    /\ \/ /\ Spend("write")
          /\ \E servers \in Lists : Overwrite(servers)
          /\ UNCHANGED link
       \/ Spend("delete") /\ Overwrite(Absent) /\ UNCHANGED link
       \/ Spend("relink") /\ link' = ~link /\ UNCHANGED file
    /\ UNCHANGED <<temps, mode, pc, lastSeen, target, lastLog>>

-----------------------------------------------------------------------------
EnforceStep(p) ==
    \/ CheckFails(p) \/ CheckPasses(p) \/ CheckFindsDrift(p) \/ Resolve(p)
    \/ CreateTemp(p) \/ FillTemp(p) \/ Rename(p)

Next ==
    \/ \E p \in Proc : Start(p) \/ Tick(p) \/ EnforceStep(p) \/ Crash(p)
    \/ Tamper

\* Processes are restarted, the ticker fires and system calls return.
Fairness ==
    \A p \in Proc : WF_vars(Start(p)) /\ WF_vars(Tick(p)) /\ WF_vars(EnforceStep(p))

Spec == Init /\ [][Next]_vars
FairSpec == Spec /\ Fairness

TypeOK ==
    /\ link \in BOOLEAN
    /\ file \in [Place -> Lists \union {Desired, Absent}]
    /\ temps \in Nat
    /\ mode \in [Proc -> {"off", "baseline", "guard", "warn"}]
    /\ pc \in [Proc -> {"idle", "check", "resolve", "createTemp", "fillTemp",
                        "rename"}]
    /\ lastSeen \in [Proc -> Lists \union {NothingSeen}]
    /\ target \in [Proc -> Place]
    /\ lastLog \in [Proc -> Lists \union {Silent}]
    /\ spent \in [EnvEvent -> Nat]

-----------------------------------------------------------------------------
(* What the guard guarantees.                                              *)

\* Guard's comment, "restores it if another process (or user) changes it": in
\* the end the system uses the configured nameservers, if the primary goes on
\* enforcing them and the file does not stay deleted.
NameserversRestored ==
    /\ <>[](mode["primary"] = "guard")
    /\ <>[](Current # Absent)
    => <>[](Current = Desired)

\* Every error path of enforce removes its temporary file: what is left lying
\* about was left by a kill.
TempsAccounted ==
    temps <= spent["crash"]
               + Cardinality({p \in Proc : pc[p] \in {"fillTemp", "rename"}})

\* enforce's comment, "resolve to the real file and write there so the symlink
\* is preserved": no write of the guard turns a link into a file, unless an
\* outsider made the link while the guard was at work, or deleted its target.
SymlinkPreserved ==
    [][(\E p \in Proc : Rename(p)) /\ spent["relink"] + spent["delete"] = 0
          => link' = link]_vars

\* README, "then only logs if settings are changed or removed", and lastSeen's
\* comment, "lets us re-log every distinct change": a drift that lasts is the
\* one logged last by a guard that only warns.  (Not so for the empty list.)
DriftLogged ==
    \A servers \in Lists \ {Desired, <<>>} :
        <>[](mode["primary"] = "warn" /\ Current = servers)
            => <>[](lastLog["primary"] = servers)
=============================================================================
