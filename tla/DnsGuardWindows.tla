-------------------------- MODULE DnsGuardWindows --------------------------
(***************************************************************************)
(* internal/dnshijack on Windows: every process of the program checks the  *)
(* name servers of every active interface on a timer and, when enforcing,  *)
(* sets them again.  Each action is one netsh command or one access to the *)
(* registry, so the other process and outsiders may come between any two.  *)
(***************************************************************************)
EXTENDS Naturals, Sequences, SequencesExt

CONSTANTS
    Proc,      \* the roles that run
    Iface,     \* network interfaces
    NoGuid,    \* those whose name the registry does not know
    Broken,    \* those whose name servers netsh refuses to set
    DesiredV4, \* Guard.desiredV4
    DesiredV6, \* Guard.desiredV6
    Lists,     \* lists of name servers an outsider may set
    Builds,    \* what may be installed: "guard", or -tags noprotection: "warn"
    Budgets    \* how often each event may happen: one budget, or several

EnvEvent == {"spawn", "crash", "fault", "tamper"}

ASSUME ServersAssumption ==
    /\ DesiredV4 \in Seq(Nat \ {0}) /\ DesiredV6 \in Seq(Nat \ {0})
    /\ DesiredV4 \o DesiredV6 # <<>>
    /\ Lists \subseteq Seq(Nat \ {0})
ASSUME InterfacesAssumption ==
    "none" \notin Iface /\ NoGuid \subseteq Iface /\ Broken \subseteq Iface
ASSUME BuildAssumption == Builds \subseteq {"guard", "warn"}
ASSUME EventsAssumption == Budgets \subseteq [EnvEvent -> Nat]

VARIABLES
    up,          \* the interfaces that are up
    dns,         \* the name servers of each interface, by family
    doh,         \* the servers with an "encrypted only" flag in the registry
    loaded,      \* those whose flag the DNS client has loaded, by interface
    encryption,  \* the servers mapped to the DoH template
    mode,        \* off, applying the baseline, or the build that guards
    pass,        \* the locals of enforce
    lastSeen,    \* Guard.lastSeen of each process
    lastLog,     \* the drift last logged by each process, for the properties
    spent        \* how often each event has happened

system == <<up, dns, doh, loaded, encryption>>
vars == <<system, mode, pass, lastSeen, lastLog, spent>>

Family == {"v4", "v6"}
Desired(fam) == IF fam = "v4" THEN DesiredV4 ELSE DesiredV6
Servers == DesiredV4 \o DesiredV6

\* The empty string, which is also the signature of no servers at all.
NothingSeen == <<>>
Silent == <<0>>
Signature(four, six) == four \o six

Guarding(p) == mode[p] \in {"guard", "warn"}
Warns(p) == mode[p] = "warn"

\* The builds p may be of: only protected ones come in pairs, both of one build.
Installed(p) ==
    {b \in Builds : p = "watchdog" \/ (\E q \in Proc \ {p} : mode[q] # "off")
                        => b = "guard"}

-----------------------------------------------------------------------------
NoIface == "none"
Idle == [at |-> "idle", todo |-> {}, iface |-> NoIface, fam |-> "v4",
         idx |-> 1, read |-> [f \in Family |-> <<>>], ok |-> TRUE]

Init ==
    /\ up = Iface
    /\ dns \in [Iface -> [Family -> Lists]]
    /\ doh = [i \in Iface |-> {}]
    /\ loaded = doh
    /\ encryption = {}
    /\ mode = [p \in Proc |-> "off"]
    /\ pass = [p \in Proc |-> Idle]
    /\ lastSeen = [p \in Proc |-> [i \in Iface |-> NothingSeen]]
    /\ lastLog = [p \in Proc |-> [i \in Iface |-> Silent]]
    /\ spent = [e \in EnvEvent |-> 0]

\* An event happens, within one of the budgets.
Spend(e) ==
    LET after == [spent EXCEPT ![e] = @ + 1]
    IN /\ \E b \in Budgets : \A x \in EnvEvent : after[x] <= b[x]
       /\ spent' = after

\* runApplication: EnforceOnce of a Guard of its own, then Run of another.
Start(p) ==
    /\ mode[p] = "off"
    /\ IF p = "watchdog" THEN mode["primary"] = "guard" /\ Spend("spawn")
       ELSE UNCHANGED spent
    /\ mode' = [mode EXCEPT ![p] = "baseline"]
    /\ pass' = [pass EXCEPT ![p].at = "list"]
    /\ UNCHANGED <<system, lastSeen, lastLog>>

\* Run checks at once and whenever its ticker fires.
Tick(p) ==
    /\ Guarding(p)
    /\ pass[p].at = "idle"
    /\ pass' = [pass EXCEPT ![p].at = "list"]
    /\ UNCHANGED <<system, mode, lastSeen, lastLog, spent>>

\* enforce returns; after the baseline Run begins, with a new Guard.
Return(p) ==
    /\ IF Guarding(p) THEN UNCHANGED mode
       ELSE \E build \in Installed(p) : mode' = [mode EXCEPT ![p] = build]
    /\ pass' = [pass EXCEPT
          ![p] = [Idle EXCEPT !.at = IF mode[p] = "baseline" THEN "list" ELSE "idle"]]
    /\ lastSeen' = IF Guarding(p) THEN lastSeen
                   ELSE [lastSeen EXCEPT ![p] = [i \in Iface |-> NothingSeen]]

\* How a command ends; one that fails costs a fault.
Outcome(ok) == (ok /\ UNCHANGED spent) \/ (~ok /\ Spend("fault"))

At(p, step) == pass[p].at = step
Set(p, locals) == pass' = [pass EXCEPT ![p] = locals]

-----------------------------------------------------------------------------
(* enforce: the interfaces, and ensureDoHEncryption for every server.      *)

ListInterfaces(p) ==
    /\ At(p, "list")
    /\ \/ /\ Set(p, [Idle EXCEPT !.at = "delete", !.todo = up])
          /\ UNCHANGED <<mode, lastSeen, spent>>
       \/ Spend("fault") /\ Return(p)
    /\ UNCHANGED <<system, lastLog>>

DeleteMapping(p) ==
    /\ At(p, "delete")
    /\ pass[p].idx <= Len(Servers)
    /\ \E ok \in BOOLEAN :
          /\ Outcome(ok)
          /\ encryption' = IF ok THEN encryption \ {Servers[pass[p].idx]}
                                 ELSE encryption
    /\ Set(p, [pass[p] EXCEPT !.at = "add"])
    /\ UNCHANGED <<up, dns, doh, loaded, mode, lastSeen, lastLog>>

\* Mutant of AddMapping: the server before.
AddMappingBefore(p) ==
    /\ At(p, "add")
    /\ encryption' = encryption \union
           {Servers[IF pass[p].idx = 1 THEN 1 ELSE pass[p].idx - 1]}
    /\ Set(p, [pass[p] EXCEPT !.at = "delete", !.idx = @ + 1])
    /\ UNCHANGED <<up, dns, doh, loaded, mode, lastSeen, lastLog, spent>>

AddMapping(p) ==
    /\ At(p, "add")
    /\ \E ok \in BOOLEAN :
          /\ Outcome(ok)
          /\ encryption' = IF ok THEN encryption \union {Servers[pass[p].idx]}
                                 ELSE encryption
    /\ Set(p, [pass[p] EXCEPT !.at = "delete", !.idx = @ + 1])
    /\ UNCHANGED <<up, dns, doh, loaded, mode, lastSeen, lastLog>>

MappingsDone(p) ==
    /\ At(p, "delete")
    /\ pass[p].idx > Len(Servers)
    /\ Set(p, [pass[p] EXCEPT !.at = "next"])
    /\ UNCHANGED <<system, mode, lastSeen, lastLog, spent>>

\* The loop over the interfaces found at the beginning, and its end.
NextInterface(p) ==
    /\ At(p, "next")
    /\ \E i \in pass[p].todo :
          Set(p, [Idle EXCEPT !.at = "read", !.todo = pass[p].todo \ {i},
                              !.iface = i])
    /\ UNCHANGED <<system, mode, lastSeen, lastLog, spent>>

InterfacesDone(p) ==
    /\ At(p, "next")
    /\ pass[p].todo = {}
    /\ Return(p)
    /\ UNCHANGED <<system, lastLog, spent>>

-----------------------------------------------------------------------------
(* One interface: what it has.                                             *)

\* A reading that fails leaves an empty list, and is remembered.
ReadServers(p) ==
    LET f == pass[p].fam
        found == dns[pass[p].iface][f]
    IN /\ At(p, "read")
       /\ \E ok \in BOOLEAN :
             /\ Outcome(ok)
             /\ Set(p, [pass[p] EXCEPT
                           !.read[f] = IF ok THEN found ELSE <<>>,
                           !.ok = @ /\ ok,
                           !.fam = "v6",
                           !.at = IF f = "v4" THEN "read" ELSE "judge"])
       /\ UNCHANGED <<system, mode, lastSeen, lastLog>>

\* Mutant of DnsOK: only the first server of a family is compared.
DnsOKFirst(p) ==
    pass[p].ok /\ \A f \in Family :
        LET read == pass[p].read[f]
        IN IF Desired(f) = <<>> \/ read = <<>> THEN read = Desired(f)
           ELSE read[1] = Desired(f)[1]

DnsOK(p) == pass[p].ok /\ \A f \in Family : pass[p].read[f] = Desired(f)
DoHMissing(i) == i \notin NoGuid /\ ~(ToSet(Servers) \subseteq doh[i])

SetSeen(p, sig) == lastSeen' = [lastSeen EXCEPT ![p][pass[p].iface] = sig]

\* What the registry says of the flags.  When a key cannot be read, a flag that
\* is there counts as missing, and an interface that interfaceGUIDs did not find
\* has nothing missing.
FindsMissing(i, missing) ==
    \/ missing = DoHMissing(i) /\ UNCHANGED spent
    \/ missing # DoHMissing(i) /\ i \notin NoGuid /\ Spend("fault")

Judge(p) == At(p, "judge") /\ UNCHANGED <<system, mode>>

InterfaceOK(p) ==
    /\ Judge(p)
    /\ DnsOK(p) /\ FindsMissing(pass[p].iface, FALSE)
    /\ SetSeen(p, NothingSeen)
    /\ Set(p, [pass[p] EXCEPT !.at = "next"])
    /\ UNCHANGED lastLog

\* Mutant of LogDrift: only the first drift is logged.
LogDriftOnce(p) ==
    LET i == pass[p].iface
        sig == Signature(pass[p].read["v4"], pass[p].read["v6"])
    IN IF DnsOK(p) \/ lastSeen[p][i] # NothingSeen
         THEN UNCHANGED <<lastSeen, lastLog>>
       ELSE /\ SetSeen(p, sig)
            /\ lastLog' = [lastLog EXCEPT ![p][i] = sig]

\* A drift other than the one seen last is logged; a missing flag is logged
\* every time.
LogDrift(p) ==
    LET i == pass[p].iface
        sig == Signature(pass[p].read["v4"], pass[p].read["v6"])
    IN IF DnsOK(p) \/ lastSeen[p][i] = sig THEN UNCHANGED <<lastSeen, lastLog>>
       ELSE /\ SetSeen(p, sig)
            /\ lastLog' = [lastLog EXCEPT ![p][i] = sig]

InterfaceDrifted(p) ==
    /\ Judge(p)
    /\ \E missing \in BOOLEAN :
          /\ FindsMissing(pass[p].iface, missing)
          /\ ~DnsOK(p) \/ missing
          /\ Set(p, [pass[p] EXCEPT
                        !.fam = "v4", !.idx = 1, !.ok = TRUE,
                        !.at = IF Warns(p) THEN "next"
                               ELSE IF missing THEN "flag" ELSE "apply"])
    /\ LogDrift(p)

-----------------------------------------------------------------------------
(* One interface: what it gets, applyInterfaceDoH and applyInterfaceDNS.   *)

\* Mutant of WriteFlag: the loop goes one server too far.
WriteFlagPastLast(p) ==
    /\ At(p, "flag")
    /\ doh' = [doh EXCEPT ![pass[p].iface] = @ \union {Servers[pass[p].idx]}]
    /\ Set(p, IF pass[p].idx <= Len(Servers)
                THEN [pass[p] EXCEPT !.idx = @ + 1]
                ELSE [pass[p] EXCEPT !.idx = 1, !.at = "apply"])
    /\ UNCHANGED <<up, dns, loaded, encryption, mode, lastSeen, lastLog, spent>>

\* Mutant of WriteFlag: the flags are taken to be all that was missing.
WriteFlagOnly(p) ==
    /\ At(p, "flag")
    /\ doh' = [doh EXCEPT ![pass[p].iface] = @ \union {Servers[pass[p].idx]}]
    /\ Set(p, IF pass[p].idx < Len(Servers)
                THEN [pass[p] EXCEPT !.idx = @ + 1]
                ELSE [pass[p] EXCEPT !.at = IF DnsOK(p) THEN "next" ELSE "apply",
                                     !.idx = 1])
    /\ UNCHANGED <<up, dns, loaded, encryption, mode, lastSeen, lastLog, spent>>

WriteFlag(p) ==
    /\ At(p, "flag")
    /\ \E ok \in BOOLEAN :
          /\ Outcome(ok)
          /\ doh' = IF ok THEN [doh EXCEPT ![pass[p].iface] =
                                   @ \union {Servers[pass[p].idx]}]
                          ELSE doh
    /\ Set(p, IF pass[p].idx < Len(Servers)
                THEN [pass[p] EXCEPT !.idx = @ + 1]
                ELSE [pass[p] EXCEPT !.idx = 1, !.at = "apply"])
    /\ UNCHANGED <<up, dns, loaded, encryption, mode, lastSeen, lastLog>>

\* Mutant of AfterCommand: every list starts with its own last server.
AfterCommandReversed(list, f, i) ==
    IF i = 1 THEN SubSeq(Desired(f), 1, 1)
    ELSE InsertAt(list, 1, Desired(f)[i])

\* The effect of command i on a list: "set" makes the first server the only
\* one, "add" puts server i at index i, or last.
AfterCommand(list, f, i) ==
    IF Desired(f) = <<>> THEN <<>>
    ELSE IF i = 1 THEN SubSeq(Desired(f), 1, 1)
    ELSE InsertAt(list, IF i <= Len(list) THEN i ELSE Len(list) + 1, Desired(f)[i])

\* When the servers of a family are set, the DNS client loads their flags.
Load(i, f) ==
    loaded' = [loaded EXCEPT ![i] =
                  (@ \ ToSet(Desired(f))) \union (doh[i] \intersect ToSet(Desired(f)))]

\* netsh refuses a server that is already in the list.
Accepts(list, f, i) ==
    i > 1 => Desired(f)[i] \notin ToSet(list)

FamilyDone(p, ok) ==
    IF pass[p].fam = "v4"
      THEN /\ Set(p, [pass[p] EXCEPT !.fam = "v6", !.idx = 1, !.ok = @ /\ ok])
           /\ UNCHANGED lastSeen
      ELSE /\ Set(p, [pass[p] EXCEPT !.at = "next"])
           /\ IF pass[p].ok /\ ok THEN SetSeen(p, NothingSeen)
              ELSE UNCHANGED lastSeen

\* A command works.
ApplyServer(p) ==
    LET i == pass[p].iface
        f == pass[p].fam
    IN /\ At(p, "apply")
       /\ i \notin Broken
       /\ Accepts(dns[i][f], f, pass[p].idx)
       /\ dns' = [dns EXCEPT ![i][f] = AfterCommand(@, f, pass[p].idx)]
       /\ Load(i, f)
       /\ IF pass[p].idx < Len(Desired(f))
            THEN /\ Set(p, [pass[p] EXCEPT !.idx = @ + 1])
                 /\ UNCHANGED lastSeen
          ELSE FamilyDone(p, TRUE)
       /\ UNCHANGED <<up, doh, encryption, mode, lastLog, spent>>

\* All variants of a command fail: the rest of the family is not tried.
ApplyFails(p) ==
    LET i == pass[p].iface
        f == pass[p].fam
    IN /\ At(p, "apply")
       /\ \/ i \in Broken /\ UNCHANGED spent
          \/ ~Accepts(dns[i][f], f, pass[p].idx) /\ UNCHANGED spent
          \/ Spend("fault")
       /\ FamilyDone(p, FALSE)
       /\ UNCHANGED <<system, mode, lastLog>>

-----------------------------------------------------------------------------
(* The environment.                                                        *)

Crash(p) ==
    /\ mode[p] # "off"
    /\ Spend("crash")
    /\ mode' = [mode EXCEPT ![p] = "off"]
    /\ pass' = [pass EXCEPT ![p] = Idle]
    /\ lastSeen' = [lastSeen EXCEPT ![p] = [i \in Iface |-> NothingSeen]]
    /\ lastLog' = [lastLog EXCEPT ![p] = [i \in Iface |-> Silent]]
    /\ UNCHANGED system

\* Name servers are set, the flags of an interface are cleared for good, it comes
\* up or goes down.
Tamper ==
    /\ Spend("tamper")
    /\ \E i \in Iface :
          \/ \E f \in Family, list \in Lists :
                /\ dns' = [dns EXCEPT ![i][f] = list]
                /\ Load(i, f)
                /\ UNCHANGED <<up, doh>>
          \/ /\ doh' = [doh EXCEPT ![i] = {}]
             /\ loaded' = [loaded EXCEPT ![i] = {}]
             /\ UNCHANGED <<up, dns>>
          \/ /\ up' = IF i \in up THEN up \ {i} ELSE up \union {i}
             /\ UNCHANGED <<dns, doh, loaded>>
    /\ UNCHANGED <<encryption, mode, pass, lastSeen, lastLog>>

-----------------------------------------------------------------------------
EnforceStep(p) ==
    \/ ListInterfaces(p) \/ DeleteMapping(p) \/ AddMapping(p) \/ MappingsDone(p)
    \/ NextInterface(p) \/ InterfacesDone(p) \/ ReadServers(p)
    \/ InterfaceOK(p) \/ InterfaceDrifted(p)
    \/ WriteFlag(p) \/ ApplyServer(p) \/ ApplyFails(p)

Next ==
    \/ \E p \in Proc : Start(p) \/ Tick(p) \/ EnforceStep(p) \/ Crash(p)
    \/ Tamper

\* Processes are restarted, the ticker fires and commands return.
Fairness ==
    \A p \in Proc : WF_vars(Start(p)) /\ WF_vars(Tick(p)) /\ WF_vars(EnforceStep(p))

Spec == Init /\ [][Next]_vars
FairSpec == Spec /\ Fairness
=============================================================================
