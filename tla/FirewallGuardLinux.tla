------------------------- MODULE FirewallGuardLinux -------------------------
(***************************************************************************)
(* internal/firewallguard on Linux.                                        *)
(*                                                                         *)
(* Each list is kept in one ipset per address family, referenced by one    *)
(* REJECT rule.  Every pass of an enforcing guard empties each set and     *)
(* fills it again, command by command, so other processes of the program   *)
(* and a kill may come between any two commands.                           *)
(***************************************************************************)
EXTENDS GuardRuntime

VARIABLES
    sets,     \* the addresses in each ipset; NoSet while it does not exist
    rejects,  \* how many identical REJECT rules match each set
    missing,  \* Guard.missing of each process
    pass      \* the locals of its reconcileOnce

vars == <<runtime, sets, rejects, missing, pass>>

\* Bound: rejects counts up to MaxRejects, enough to see a rule twice.
MaxRejects == 2

-----------------------------------------------------------------------------
(* Families and sets.                                                      *)

Family == {"inet", "inet6"}
NoSet == [exists |-> FALSE, ips |-> {}]
IPSet(S) == [exists |-> TRUE, ips |-> S]

OfFamily(fam, S) == IF fam = "inet" THEN S \ V6 ELSE S \intersect V6

\* Mutant of Desired: both families get all addresses.
DesiredUnsplit(prefix, fam, tor) ==
    IF prefix = "manual" THEN ManualIPs ELSE tor

\* What the set of a list should hold.
Desired(prefix, fam, tor) ==
    OfFamily(fam, IF prefix = "manual" THEN ManualIPs ELSE tor)

\* One pass goes through the families; per family it creates, flushes and
\* fills the manual set and the Tor set, and ensures the rules of both.
NewPass(tor) ==
    [at |-> "create", fam |-> "inet", prefix |-> "manual", todo |-> {},
     tor |-> tor]
\* A warn-only pass, rulesExist, looks for the sets first.
NewCheck == [NewPass({}) EXCEPT !.at = "list"]
NoPass == NewPass({})

Init ==
    /\ RuntimeInit
    /\ sets = [x \in Prefix |-> [f \in Family |-> NoSet]]
    /\ rejects = [x \in Prefix |-> [f \in Family |-> 0]]
    /\ missing = [p \in Proc |-> FALSE]
    /\ pass = [p \in Proc |-> NoPass]

Start(p) ==
    /\ Launch(p)
    /\ pass' = [pass EXCEPT ![p] = NewPass(SeedTorIPs)]
    /\ UNCHANGED <<sets, rejects, missing>>

Tick(p) == RequestCheck(p) /\ UNCHANGED <<sets, rejects, missing, pass>>

Refresh(p) == RequestRefresh(p) /\ UNCHANGED <<sets, rejects, missing, pass>>

\* reconcileOnce: an enforcing pass begins with a copy of the list.
EnterReconcile(p, g) ==
    /\ Enter(p, g)
    /\ pass' = [pass EXCEPT
          ![p] = IF Warns(p) THEN NewCheck ELSE NewPass(torEntryIPs[p])]
    /\ UNCHANGED <<sets, rejects, missing>>

-----------------------------------------------------------------------------
(* Where a pass goes next.                                                 *)

At(p, stage) == Busy(p) /\ pass[p].at = stage
GoTo(p, stage, prefix) ==
    /\ pass' = [pass EXCEPT ![p].at = stage, ![p].prefix = prefix]
    /\ UNCHANGED <<mode, torEntryIPs, turn, queued, published, missing>>

\* reconcileOnce returns; a warn-only guard has warned if it found a problem.
Finish(p, problem) ==
    /\ Leave(p)
    /\ pass' = [pass EXCEPT ![p] = NoPass]
    /\ missing' = [missing EXCEPT ![p] = problem]

\* The next family, or the end of the pass.
NextFamily(p, stage) ==
    IF pass[p].fam = "inet"
      THEN /\ pass' = [pass EXCEPT ![p].at = stage, ![p].fam = "inet6",
                                   ![p].prefix = "manual"]
           /\ UNCHANGED <<mode, torEntryIPs, turn, queued, published, missing>>
      ELSE Finish(p, FALSE)

-----------------------------------------------------------------------------
(* applySet: create, flush, add.  When the set cannot be created or        *)
(* flushed, the rest of its family is left for the next pass.              *)

SetIPs(p, S) == sets' = [sets EXCEPT ![pass[p].prefix][pass[p].fam] = S]
TheSet(p) == sets[pass[p].prefix][pass[p].fam]

CreateSet(p) ==
    /\ At(p, "create")
    /\ \E ok \in BOOLEAN :
          /\ Outcome(ok)
          /\ IF ok THEN SetIPs(p, IPSet(TheSet(p).ips))
                        /\ GoTo(p, "flush", pass[p].prefix)
                   ELSE UNCHANGED sets /\ NextFamily(p, "create")
    /\ UNCHANGED rejects

\* Mutants of FlushSet: the addresses to add are those that were not there
\* before the flush; the set is filled without a flush.
FlushSetKeepingOld(p) ==
    LET todo == Desired(pass[p].prefix, pass[p].fam, pass[p].tor)
    IN /\ At(p, "flush")
       /\ SetIPs(p, IPSet({}))
       /\ pass' = [pass EXCEPT ![p].at = "add", ![p].todo = todo \ TheSet(p).ips]
       /\ UNCHANGED <<runtime, rejects, missing>>
FlushSetSkipped(p) ==
    LET todo == Desired(pass[p].prefix, pass[p].fam, pass[p].tor)
    IN /\ At(p, "flush")
       /\ pass' = [pass EXCEPT ![p].at = "add", ![p].todo = todo]
       /\ UNCHANGED <<runtime, sets, rejects, missing>>

FlushSet(p) ==
    LET todo == Desired(pass[p].prefix, pass[p].fam, pass[p].tor)
    IN /\ At(p, "flush")
       /\ \E ok \in BOOLEAN :
             /\ Outcome(ok)
             /\ IF ok
                  THEN /\ SetIPs(p, IPSet({}))
                       /\ pass' = [pass EXCEPT ![p].at = "add",
                                               ![p].todo = todo]
                       /\ UNCHANGED <<mode, torEntryIPs, turn, queued,
                                      published, missing>>
                ELSE UNCHANGED sets /\ NextFamily(p, "create")
       /\ UNCHANGED rejects

Least(S) == CHOOSE a \in S : \A b \in S : a <= b

\* One address is added; one that cannot be is logged and left out.
AddIP(p) ==
    LET a == Least(pass[p].todo)
    IN /\ At(p, "add")
       /\ pass[p].todo # {}
       /\ \E ok \in BOOLEAN :
             /\ Outcome(ok)
             /\ IF ok THEN SetIPs(p, IPSet(TheSet(p).ips \union {a}))
                      ELSE UNCHANGED sets
       /\ pass' = [pass EXCEPT ![p].todo = @ \ {a}]
       /\ UNCHANGED <<mode, torEntryIPs, turn, queued, published, rejects,
                      missing>>

\* The manual set is followed by the Tor set, and both by their rules.
SetFilled(p) ==
    /\ At(p, "add")
    /\ pass[p].todo = {}
    /\ IF pass[p].prefix = "manual" THEN GoTo(p, "create", "tor")
                                    ELSE GoTo(p, "check", "manual")
    /\ UNCHANGED <<sets, rejects, spent>>

-----------------------------------------------------------------------------
(* ensureRejectRule: "-C", and "-A" when that finds nothing.               *)

TheRejects(p) == rejects[pass[p].prefix][pass[p].fam]

RuleEnsured(p) ==
    IF pass[p].prefix = "manual" THEN GoTo(p, "check", "tor")
                                 ELSE NextFamily(p, "create")

\* Mutants of CheckReject: the rule is added without a look; a set that is there
\* passes for its rule.
CheckRejectSkipped(p) ==
    /\ At(p, "check")
    /\ GoTo(p, "append", pass[p].prefix)
    /\ UNCHANGED <<sets, rejects, spent>>
CheckRejectBySet(p) ==
    /\ At(p, "check")
    /\ UNCHANGED spent
    /\ IF TheSet(p).exists THEN RuleEnsured(p)
       ELSE GoTo(p, "append", pass[p].prefix)
    /\ UNCHANGED <<sets, rejects>>

CheckReject(p) ==
    /\ At(p, "check")
    /\ \E ok \in BOOLEAN :
          /\ Outcome(ok)
          /\ IF ok /\ TheRejects(p) > 0 THEN RuleEnsured(p)
             ELSE GoTo(p, "append", pass[p].prefix)
    /\ UNCHANGED <<sets, rejects>>

AppendReject(p) ==
    /\ At(p, "append")
    /\ \E ok \in BOOLEAN :
          /\ Outcome(ok)
          /\ rejects' = IF ~ok \/ TheRejects(p) = MaxRejects THEN rejects
                ELSE [rejects EXCEPT ![pass[p].prefix][pass[p].fam] = @ + 1]
    /\ RuleEnsured(p)
    /\ UNCHANGED sets

-----------------------------------------------------------------------------
(* rulesExist, of a warn-only guard: per family both sets, then both       *)
(* rules.  It ends at the first command that fails.                        *)

\* Mutant of Found: only the sets are looked for.
FoundSet(p) == TheSet(p).exists

Found(p) == IF pass[p].at = "list" THEN TheSet(p).exists ELSE TheRejects(p) > 0

LookUp(p) ==
    /\ At(p, "list") \/ At(p, "find")
    /\ \E ok \in BOOLEAN :
          /\ Outcome(ok)
          /\ IF ~ok \/ ~Found(p) THEN Finish(p, TRUE)
             ELSE IF pass[p].prefix = "manual" THEN GoTo(p, pass[p].at, "tor")
             ELSE IF pass[p].at = "list" THEN GoTo(p, "find", "manual")
             ELSE NextFamily(p, "list")
    /\ UNCHANGED <<sets, rejects>>

-----------------------------------------------------------------------------
Crash(p) ==
    /\ Kill(p)
    /\ missing' = [missing EXCEPT ![p] = FALSE]
    /\ pass' = [pass EXCEPT ![p] = NoPass]
    /\ UNCHANGED <<sets, rejects>>

Publish(S) == PublishList(S) /\ UNCHANGED <<sets, rejects, missing, pass>>

\* Somebody deletes the rules of a set, or an address from it.
TamperRules(x, f) ==
    /\ rejects[x][f] > 0
    /\ Spend("tamper")
    /\ rejects' = [rejects EXCEPT ![x][f] = 0]
    /\ UNCHANGED <<mode, torEntryIPs, turn, queued, published, sets, missing,
                   pass>>

TamperSet(x, f, a) ==
    /\ a \in sets[x][f].ips
    /\ Spend("tamper")
    /\ sets' = [sets EXCEPT ![x][f].ips = @ \ {a}]
    /\ UNCHANGED <<mode, torEntryIPs, turn, queued, published, rejects,
                   missing, pass>>

ReconcileStep(p) ==
    \/ CreateSet(p) \/ FlushSet(p) \/ AddIP(p) \/ SetFilled(p)
    \/ CheckReject(p) \/ AppendReject(p) \/ LookUp(p)

Step(p) ==
    \/ Start(p) \/ Tick(p) \/ Refresh(p)
    \/ \E g \in Goroutine : EnterReconcile(p, g)
    \/ ReconcileStep(p)

Environment ==
    \/ \E p \in Proc : Crash(p)
    \/ \E S \in Publications : Publish(S)
    \/ \E x \in Prefix, f \in Family :
          TamperRules(x, f) \/ \E a \in IP : TamperSet(x, f, a)

Next == Environment \/ \E p \in Proc : Step(p)

\* Processes are restarted, timers fire, a command returns, Onionoo answers
\* in the end, and a goroutine that waits for the mutex gets it.
Fairness ==
    \A p \in Proc :
        /\ WF_vars(Start(p))
        /\ WF_vars(Tick(p))
        /\ WF_vars(Refresh(p))
        /\ WF_vars(ReconcileStep(p))
        /\ \A g \in Goroutine : SF_vars(EnterReconcile(p, g))

Spec == Init /\ [][Next]_vars
FairSpec == Spec /\ Fairness

\* An ipset takes addresses of its own family only.
TypeOK ==
    /\ RuntimeTypeOK
    /\ sets \in [Prefix -> [Family -> [exists : BOOLEAN, ips : SUBSET IP]]]
    /\ \A x \in Prefix : /\ sets[x]["inet"].ips \intersect V6 = {}
                         /\ sets[x]["inet6"].ips \subseteq V6
    /\ rejects \in [Prefix -> [Family -> 0..MaxRejects]]
    /\ missing \in [Proc -> BOOLEAN]
    /\ pass \in [Proc -> [at : {"create", "flush", "add", "check", "append",
                                "list", "find"},
                          fam : Family, prefix : Prefix, todo : SUBSET IP,
                          tor : SUBSET IP]]
=============================================================================
