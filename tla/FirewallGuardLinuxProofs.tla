---------------------- MODULE FirewallGuardLinuxProofs ----------------------
(***************************************************************************)
(* Theorems about the ipsets and REJECT rules, for all lists of addresses, *)
(* any number of processes, and every budget of events.                    *)
(*                                                                         *)
(* Typed holds for all lists of addresses.  ManualSurvives holds as long   *)
(* as no command has failed and nobody has tampered; its inductive         *)
(* invariant adds to the property that a process that is down is in the    *)
(* middle of nothing.  AddedOnce is about the two roles there are; its     *)
(* invariant says why a process that is about to add a rule is right that  *)
(* there is none.                                                          *)
(***************************************************************************)
EXTENDS FirewallGuardLinuxProps, WellFoundedInduction, TLAPS

Locals == [at : {"create", "flush", "add", "check", "append", "list", "find"},
           fam : Family, prefix : Prefix, todo : SUBSET IP, tor : SUBSET IP]

\* The addresses a pass has yet to add are of the family it is at; no process
\* that is down is inside reconcileOnce or waits for it.
TodoOfFamily ==
    \A p \in Proc : pass[p].at = "add" => pass[p].todo \subseteq OfFamily(pass[p].fam, IP)
OffIsIdle == \A p \in Proc : mode[p] = "off" => ~Busy(p) /\ queued[p] = {}

TypeInv == TypeOK /\ TodoOfFamily /\ OffIsIdle

-----------------------------------------------------------------------------
(* Operators.                                                              *)

\* A set of addresses has a least one.
LEMMA LeastInSet ==
  ASSUME NEW S \in SUBSET IP, S # {}
  PROVE  Least(S) \in S
<1>1. S \subseteq Nat
  BY ListsAssumption
<1>2. \E a \in S : \A b \in S : ~(<<b, a>> \in OpToRel(<, Nat))
  BY <1>1, NatLessThanWellFounded, WFMin
<1>3. PICK a \in S : \A b \in S : ~(<<b, a>> \in OpToRel(<, Nat))
  BY <1>2
<1>4. ASSUME NEW b \in S PROVE a <= b
  <2>1. a \in Nat /\ b \in Nat
    BY <1>1
  <2>2. ~(b < a)
    BY <1>3, <2>1 DEF OpToRel
  <2>3. QED
    BY <2>1, <2>2
<1>5. QED
  BY <1>4 DEF Least

LEMMA DesiredTyped ==
  ASSUME NEW x \in Prefix, NEW f \in Family, NEW tor \in SUBSET IP
  PROVE  Desired(x, f, tor) \in SUBSET OfFamily(f, IP)
  BY ListsAssumption DEF Desired, OfFamily, Prefix, Family

LEMMA SpendTyped ==
  ASSUME spent \in [EnvEvent -> Nat], NEW e \in EnvEvent, Spend(e)
  PROVE  spent' \in [EnvEvent -> Nat]
  BY DEF Spend

LEMMA OutcomeTyped ==
  ASSUME spent \in [EnvEvent -> Nat], NEW ok \in BOOLEAN, Outcome(ok)
  PROVE  spent' \in [EnvEvent -> Nat]
  BY SpendTyped DEF Outcome, EnvEvent

-----------------------------------------------------------------------------
(* Type correctness.                                                       *)

\* What a command of a pass leaves to the pass: it goes on, or it is over.
PassTyped ==
    /\ mode' \in [Proc -> {"off", "baseline", "guard", "warn"}]
    /\ torEntryIPs' \in [Proc -> SUBSET IP]
    /\ turn' \in [Proc -> Goroutine \union {"nobody", "main"}]
    /\ queued' \in [Proc -> SUBSET Goroutine]
    /\ published' \in Publications
    /\ missing' \in [Proc -> BOOLEAN]
    /\ pass' \in [Proc -> Locals]
    /\ TodoOfFamily'
    /\ OffIsIdle'

LEMMA GoToTyped ==
  ASSUME TypeInv, NEW p \in Proc, NEW x \in Prefix,
         NEW stage \in {"create", "flush", "check", "append", "list", "find"},
         GoTo(p, stage, x)
  PROVE  PassTyped
<1>1. pass' = [pass EXCEPT ![p].at = stage, ![p].prefix = x]
  BY DEF GoTo
<1>2. pass \in [Proc -> Locals]
  BY DEF TypeInv, TypeOK, Locals
<1>3. pass' \in [Proc -> Locals]
  BY <1>1, <1>2 DEF Locals
<1>4. TodoOfFamily'
  BY <1>1, <1>2 DEF TypeInv, TodoOfFamily, Locals
<1>5. QED
  BY <1>3, <1>4 DEF TypeInv, TypeOK, RuntimeTypeOK, OffIsIdle, Busy, GoTo, PassTyped

LEMMA FinishTyped ==
  ASSUME TypeInv, NEW p \in Proc, NEW problem \in BOOLEAN, Finish(p, problem)
  PROVE  PassTyped
<1>1. /\ mode' \in [Proc -> {"off", "baseline", "guard", "warn"}]
      /\ \A q \in Proc : mode'[q] = "off" => mode[q] = "off" /\ q # p
  <2>1. mode \in [Proc -> {"off", "baseline", "guard", "warn"}]
    BY DEF TypeInv, TypeOK, RuntimeTypeOK
  <2>2. CASE Guarding(p)
    BY <2>1, <2>2 DEF Finish, Leave, Guarding
  <2>3. CASE ~Guarding(p)
    <3>1. PICK build \in {"guard", "warn"} : mode' = [mode EXCEPT ![p] = build]
      BY <2>3, BuildAssumption DEF Finish, Leave, Installed
    <3>2. QED
      BY <2>1, <3>1
  <2>4. QED
    BY <2>2, <2>3
<1>2. /\ torEntryIPs' \in [Proc -> SUBSET IP] /\ published' \in Publications
      /\ turn' \in [Proc -> Goroutine \union {"nobody", "main"}]
      /\ queued' \in [Proc -> SUBSET Goroutine]
  BY DEF TypeInv, TypeOK, RuntimeTypeOK, Finish, Leave, Goroutine
<1>3. NoPass \in Locals /\ NoPass.at = "create"
  BY DEF NoPass, NewPass, Locals, Family, Prefix
<1>4. missing' \in [Proc -> BOOLEAN] /\ pass' \in [Proc -> Locals] /\ TodoOfFamily'
  BY <1>3 DEF TypeInv, TypeOK, Finish, TodoOfFamily, Locals
<1>5. OffIsIdle'
  BY <1>1 DEF TypeInv, TypeOK, RuntimeTypeOK, OffIsIdle, Busy, Finish, Leave
<1>6. QED
  BY <1>1, <1>2, <1>4, <1>5 DEF PassTyped

LEMMA NextFamilyTyped ==
  ASSUME TypeInv, NEW p \in Proc, NEW stage \in {"create", "list"},
         NextFamily(p, stage)
  PROVE  PassTyped
<1>1. CASE pass[p].fam = "inet"
  BY <1>1 DEF TypeInv, TypeOK, RuntimeTypeOK, TodoOfFamily, OffIsIdle, Busy,
     NextFamily, PassTyped, Locals, Family, Prefix
<1>2. CASE pass[p].fam # "inet"
  BY <1>2, FinishTyped DEF NextFamily
<1>3. QED
  BY <1>1, <1>2

LEMMA EnsuredTyped ==
  ASSUME TypeInv, NEW p \in Proc, RuleEnsured(p)
  PROVE  PassTyped
<1>1. CASE pass[p].prefix = "manual"
  BY <1>1, GoToTyped DEF RuleEnsured, Prefix
<1>2. CASE pass[p].prefix # "manual"
  BY <1>2, NextFamilyTyped DEF RuleEnsured
<1>3. QED
  BY <1>1, <1>2

\* What the sets and the rules may hold.
SetsTyped ==
    /\ sets \in [Prefix -> [Family -> [exists : BOOLEAN, ips : SUBSET IP]]]
    /\ \A x \in Prefix : /\ sets[x]["inet"].ips \intersect V6 = {}
                         /\ sets[x]["inet6"].ips \subseteq V6
RejectsTyped == rejects \in [Prefix -> [Family -> 0..MaxRejects]]

LEMMA Together ==
  ASSUME PassTyped, SetsTyped', RejectsTyped', spent' \in [EnvEvent -> Nat]
  PROVE  TypeInv'
  BY DEF PassTyped, SetsTyped, RejectsTyped, TypeInv, TypeOK, RuntimeTypeOK, Locals

\* A set that is filled with addresses of its family.
LEMMA SetTyped ==
  ASSUME TypeInv, NEW p \in Proc, NEW S,
         S \subseteq OfFamily(pass[p].fam, IP),
         SetIPs(p, IPSet(S))
  PROVE  SetsTyped'
<1>1. pass[p].prefix \in Prefix /\ pass[p].fam \in Family
  BY DEF TypeInv, TypeOK
<1>2. S \subseteq IP /\ (pass[p].fam = "inet" => S \intersect V6 = {})
      /\ (pass[p].fam = "inet6" => S \subseteq V6)
  BY ListsAssumption DEF OfFamily
<1>3. sets' = [sets EXCEPT ![pass[p].prefix][pass[p].fam] =
                 [exists |-> TRUE, ips |-> S]]
  BY DEF SetIPs, IPSet
<1>4. QED
  BY <1>1, <1>2, <1>3 DEF TypeInv, TypeOK, SetsTyped, Family

LEMMA OldSet ==
  ASSUME TypeInv, NEW p \in Proc
  PROVE  TheSet(p).ips \subseteq OfFamily(pass[p].fam, IP)
  BY DEF TypeInv, TypeOK, TheSet, OfFamily, Family

\* The sets and rules a step leaves alone.
LEMMA SetsKept == ASSUME TypeInv, UNCHANGED sets PROVE SetsTyped'
  BY DEF TypeInv, TypeOK, SetsTyped
LEMMA RejectsKept == ASSUME TypeInv, UNCHANGED rejects PROVE RejectsTyped'
  BY DEF TypeInv, TypeOK, RejectsTyped
LEMMA SpentTyped == TypeInv => spent \in [EnvEvent -> Nat]
  BY DEF TypeInv, TypeOK, RuntimeTypeOK

\* applySet and ensureRejectRule, command by command.
LEMMA CreateTyped == ASSUME TypeInv, NEW p \in Proc, CreateSet(p) PROVE TypeInv'
<1>1. PICK ok \in BOOLEAN : CreateSet(p)!2!(ok)
  BY DEF CreateSet
<1>2. spent' \in [EnvEvent -> Nat] /\ RejectsTyped'
  BY <1>1, OutcomeTyped, SpentTyped, RejectsKept DEF CreateSet
<1>3. CASE ok
  <2>1. SetIPs(p, IPSet(TheSet(p).ips)) /\ GoTo(p, "flush", pass[p].prefix)
    BY <1>1, <1>3
  <2>2. SetsTyped' /\ pass[p].prefix \in Prefix
    BY <2>1, OldSet, SetTyped DEF TypeInv, TypeOK
  <2>3. QED
    BY <1>2, <2>1, <2>2, GoToTyped, Together
<1>4. CASE ~ok
  BY <1>1, <1>2, <1>4, NextFamilyTyped, SetsKept, Together
<1>5. QED
  BY <1>3, <1>4

\* The pass after a flush, and while addresses are added.
LEMMA TodoTyped ==
  ASSUME TypeInv, NEW p \in Proc, Busy(p), NEW todo \in SUBSET OfFamily(pass[p].fam, IP),
         pass' = [pass EXCEPT ![p].at = "add", ![p].todo = todo],
         UNCHANGED <<mode, torEntryIPs, turn, queued, published, missing>>
  PROVE  PassTyped
<1>1. pass \in [Proc -> Locals] /\ todo \subseteq IP
  BY ListsAssumption DEF TypeInv, TypeOK, Locals, OfFamily
<1>2. pass' \in [Proc -> Locals]
  BY <1>1 DEF Locals
<1>3. TodoOfFamily'
  BY <1>1 DEF TypeInv, TodoOfFamily, Locals
<1>4. QED
  BY <1>2, <1>3 DEF TypeInv, TypeOK, RuntimeTypeOK, OffIsIdle, Busy, PassTyped

LEMMA FlushTyped == ASSUME TypeInv, NEW p \in Proc, FlushSet(p) PROVE TypeInv'
<1> DEFINE todo == Desired(pass[p].prefix, pass[p].fam, pass[p].tor)
<1>1. PICK ok \in BOOLEAN :
        /\ Outcome(ok)
        /\ IF ok THEN /\ SetIPs(p, IPSet({}))
                      /\ pass' = [pass EXCEPT ![p].at = "add", ![p].todo = todo]
                      /\ UNCHANGED <<mode, torEntryIPs, turn, queued, published, missing>>
                 ELSE UNCHANGED sets /\ NextFamily(p, "create")
  BY DEF FlushSet
<1>2. spent' \in [EnvEvent -> Nat] /\ RejectsTyped' /\ Busy(p)
  BY <1>1, OutcomeTyped, SpentTyped, RejectsKept DEF FlushSet, At
<1>3. CASE ok
  <2>1. todo \in SUBSET OfFamily(pass[p].fam, IP)
    BY DesiredTyped DEF TypeInv, TypeOK
  <2>2. PassTyped
    BY <1>1, <1>2, <1>3, <2>1, TodoTyped
  <2>3. SetsTyped'
    BY <1>1, <1>3, SetTyped
  <2>4. QED
    BY <1>2, <2>2, <2>3, Together
<1>4. CASE ~ok
  BY <1>1, <1>2, <1>4, NextFamilyTyped, SetsKept, Together
<1>5. QED
  BY <1>3, <1>4

LEMMA AddTyped == ASSUME TypeInv, NEW p \in Proc, AddIP(p) PROVE TypeInv'
<1> DEFINE a == Least(pass[p].todo)
<1>1. PICK ok \in BOOLEAN :
        /\ Outcome(ok)
        /\ IF ok THEN SetIPs(p, IPSet(TheSet(p).ips \union {a})) ELSE UNCHANGED sets
  BY DEF AddIP
<1>2. /\ spent' \in [EnvEvent -> Nat] /\ RejectsTyped' /\ Busy(p)
      /\ pass[p].at = "add" /\ pass[p].todo # {}
      /\ pass' = [pass EXCEPT ![p].todo = @ \ {a}]
      /\ UNCHANGED <<mode, torEntryIPs, turn, queued, published, missing>>
  BY <1>1, OutcomeTyped, SpentTyped, RejectsKept DEF AddIP, At
<1>3. pass[p].todo \subseteq OfFamily(pass[p].fam, IP) /\ pass[p].todo \in SUBSET IP
  BY <1>2 DEF TypeInv, TypeOK, TodoOfFamily
<1>4. a \in OfFamily(pass[p].fam, IP)
  BY <1>2, <1>3, LeastInSet
<1>5. PassTyped
  <2>1. pass' = [pass EXCEPT ![p].at = "add", ![p].todo = pass[p].todo \ {a}]
    <3>1. pass \in [Proc -> Locals]
      BY DEF TypeInv, TypeOK, Locals
    <3>2. QED
      BY <1>2, <3>1 DEF Locals
  <2>2. pass[p].todo \ {a} \in SUBSET OfFamily(pass[p].fam, IP)
    BY <1>3
  <2>3. QED
    BY <1>2, <2>1, <2>2, TodoTyped
<1>6. SetsTyped'
  BY <1>1, <1>4, OldSet, SetTyped, SetsKept
<1>7. QED
  BY <1>2, <1>5, <1>6, Together

LEMMA RuleTyped ==
  ASSUME TypeInv, NEW p \in Proc,
         SetFilled(p) \/ CheckReject(p) \/ AppendReject(p) \/ LookUp(p)
  PROVE  TypeInv'
<1>1. CASE SetFilled(p)
  <2>1. PassTyped
    BY <1>1, GoToTyped DEF SetFilled, Prefix
  <2>2. QED
    BY <1>1, <2>1, SetsKept, RejectsKept, SpentTyped, Together DEF SetFilled
<1>2. CASE CheckReject(p)
  <2>1. PICK ok \in BOOLEAN :
          /\ Outcome(ok)
          /\ IF ok /\ TheRejects(p) > 0 THEN RuleEnsured(p)
             ELSE GoTo(p, "append", pass[p].prefix)
    BY <1>2 DEF CheckReject
  <2>2. PassTyped
    BY <2>1, GoToTyped, EnsuredTyped DEF TypeInv, TypeOK
  <2>3. QED
    BY <1>2, <2>1, <2>2, OutcomeTyped, SetsKept, RejectsKept, SpentTyped, Together
       DEF CheckReject
<1>3. CASE AppendReject(p)
  <2>1. PICK ok \in BOOLEAN :
          /\ Outcome(ok)
          /\ rejects' = IF ~ok \/ TheRejects(p) = MaxRejects THEN rejects
                ELSE [rejects EXCEPT ![pass[p].prefix][pass[p].fam] = @ + 1]
    BY <1>3 DEF AppendReject
  <2>2. RejectsTyped'
    BY <2>1 DEF TypeInv, TypeOK, RejectsTyped, TheRejects, MaxRejects
  <2>3. PassTyped
    BY <1>3, EnsuredTyped DEF AppendReject
  <2>4. QED
    BY <1>3, <2>1, <2>2, <2>3, OutcomeTyped, SetsKept, SpentTyped, Together
       DEF AppendReject
<1>4. CASE LookUp(p)
  <2>1. PICK ok \in BOOLEAN :
          /\ Outcome(ok)
          /\ IF ~ok \/ ~Found(p) THEN Finish(p, TRUE)
             ELSE IF pass[p].prefix = "manual" THEN GoTo(p, pass[p].at, "tor")
             ELSE IF pass[p].at = "list" THEN GoTo(p, "find", "manual")
             ELSE NextFamily(p, "list")
    BY <1>4 DEF LookUp
  <2>2. pass[p].at \in {"list", "find"}
    BY <1>4 DEF LookUp, At
  <2>3. PassTyped
    BY <2>1, <2>2, FinishTyped, GoToTyped, NextFamilyTyped DEF Prefix
  <2>4. QED
    BY <1>4, <2>1, <2>3, OutcomeTyped, SetsKept, RejectsKept, SpentTyped, Together
       DEF LookUp
<1>5. QED
  BY <1>1, <1>2, <1>3, <1>4

\* A process starts, is killed, or a goroutine of it asks for the mutex or gets it.
LEMMA RunTyped ==
  ASSUME TypeInv, NEW p \in Proc,
         \/ Start(p) \/ Tick(p) \/ Refresh(p) \/ Crash(p)
         \/ \E g \in Goroutine : EnterReconcile(p, g)
  PROVE  TypeInv'
<1>1. CASE Start(p)
  <2>1. spent' \in [EnvEvent -> Nat]
    BY <1>1, SpendTyped, SpentTyped DEF Start, Launch, EnvEvent
  <2>2. NewPass(SeedTorIPs) \in Locals /\ NewPass(SeedTorIPs).at = "create"
    BY ListsAssumption DEF NewPass, Locals, Family, Prefix
  <2>3. pass' \in [Proc -> Locals] /\ TodoOfFamily'
    BY <1>1, <2>2 DEF Start, TypeInv, TypeOK, TodoOfFamily, Locals
  <2>4. PassTyped
    BY <1>1, <2>3 DEF Start, Launch, TypeInv, TypeOK, RuntimeTypeOK, OffIsIdle, Busy,
       PassTyped, Goroutine
  <2>5. QED
    BY <1>1, <2>1, <2>4, SetsKept, RejectsKept, Together DEF Start
<1>2. CASE Tick(p)
  <2>1. PassTyped
    BY <1>2 DEF Tick, RequestCheck, Idle, Guarding, Wants, TypeInv, TypeOK, RuntimeTypeOK,
       TodoOfFamily, OffIsIdle, Busy, PassTyped, Locals, Goroutine
  <2>2. QED
    BY <1>2, <2>1, SpentTyped, SetsKept, RejectsKept, Together DEF Tick, RequestCheck
<1>3. CASE Refresh(p)
  <2>1. published \subseteq IP
    BY ListsAssumption DEF TypeInv, TypeOK, RuntimeTypeOK
  <2>2. PassTyped
    BY <1>3, <2>1 DEF Refresh, RequestRefresh, Idle, Guarding, Wants, TypeInv, TypeOK, RuntimeTypeOK,
       TodoOfFamily, OffIsIdle, Busy, PassTyped, Locals, Goroutine
  <2>3. QED
    BY <1>3, <2>2, SpentTyped, SetsKept, RejectsKept, Together
       DEF Refresh, RequestRefresh
<1>4. CASE Crash(p)
  <2>1. spent' \in [EnvEvent -> Nat]
    BY <1>4, SpendTyped, SpentTyped DEF Crash, Kill, EnvEvent
  <2>2. NoPass \in Locals /\ NoPass.at = "create"
    BY DEF NoPass, NewPass, Locals, Family, Prefix
  <2>3. pass' \in [Proc -> Locals] /\ TodoOfFamily'
    BY <1>4, <2>2 DEF Crash, TypeInv, TypeOK, TodoOfFamily, Locals
  <2>4. PassTyped
    BY <1>4, <2>3, ListsAssumption DEF Crash, Kill, TypeInv, TypeOK, RuntimeTypeOK,
       OffIsIdle, Busy, PassTyped
  <2>5. QED
    BY <1>4, <2>1, <2>4, SetsKept, RejectsKept, Together DEF Crash
<1>5. ASSUME NEW g \in Goroutine, EnterReconcile(p, g) PROVE TypeInv'
  <2> DEFINE l == IF Warns(p) THEN NewCheck ELSE NewPass(torEntryIPs[p])
  <2>1. torEntryIPs[p] \in SUBSET IP
    BY DEF TypeInv, TypeOK, RuntimeTypeOK
  <2>2. l \in Locals /\ l.at # "add"
    BY <2>1 DEF NewCheck, NewPass, Locals, Family, Prefix
  <2>3. pass' = [pass EXCEPT ![p] = l]
    BY <1>5 DEF EnterReconcile
  <2>4. pass' \in [Proc -> Locals] /\ TodoOfFamily'
    BY <2>2, <2>3 DEF TypeInv, TypeOK, TodoOfFamily, Locals
  <2>5. PassTyped
    BY <1>5, <2>4 DEF EnterReconcile, Enter, TypeInv, TypeOK, RuntimeTypeOK, OffIsIdle,
       Busy, PassTyped
  <2>6. QED
    BY <1>5, <2>5, SpentTyped, SetsKept, RejectsKept, Together
       DEF EnterReconcile, Enter
<1>6. QED
  BY <1>1, <1>2, <1>3, <1>4, <1>5

\* What happens outside the program.
LEMMA EnvironmentTyped ==
  ASSUME TypeInv,
         \/ \E S \in Publications : Publish(S)
         \/ \E x \in Prefix, f \in Family :
               TamperRules(x, f) \/ \E a \in IP : TamperSet(x, f, a)
  PROVE  TypeInv'
<1>1. ASSUME NEW S \in Publications, Publish(S) PROVE TypeInv'
  <2>1. spent' \in [EnvEvent -> Nat]
    BY <1>1, SpendTyped, SpentTyped DEF Publish, PublishList, EnvEvent
  <2>2. PassTyped
    BY <1>1 DEF Publish, PublishList, TypeInv, TypeOK, RuntimeTypeOK, TodoOfFamily,
       OffIsIdle, Busy, PassTyped, Locals
  <2>3. QED
    BY <1>1, <2>1, <2>2, SetsKept, RejectsKept, Together DEF Publish
<1>2. ASSUME UNCHANGED <<mode, torEntryIPs, turn, queued, published, missing, pass>>
      PROVE  PassTyped
  BY <1>2 DEF TypeInv, TypeOK, RuntimeTypeOK, TodoOfFamily, OffIsIdle, Busy, PassTyped,
     Locals
<1>3. ASSUME NEW x \in Prefix, NEW f \in Family, TamperRules(x, f) PROVE TypeInv'
  <2>1. spent' \in [EnvEvent -> Nat]
    BY <1>3, SpendTyped, SpentTyped DEF TamperRules, EnvEvent
  <2>2. RejectsTyped'
    BY <1>3 DEF TamperRules, TypeInv, TypeOK, RejectsTyped, MaxRejects
  <2>3. QED
    BY <1>2, <1>3, <2>1, <2>2, SetsKept, Together DEF TamperRules
<1>4. ASSUME NEW x \in Prefix, NEW f \in Family, NEW a \in IP, TamperSet(x, f, a)
      PROVE  TypeInv'
  <2>1. spent' \in [EnvEvent -> Nat]
    BY <1>4, SpendTyped, SpentTyped DEF TamperSet, EnvEvent
  <2>2. SetsTyped'
    <3>1. sets' = [sets EXCEPT ![x] =
                     [sets[x] EXCEPT ![f] = [sets[x][f] EXCEPT !.ips = @ \ {a}]]]
      BY <1>4 DEF TamperSet, TypeInv, TypeOK
    <3>2. \A y \in Prefix, g \in Family :
            /\ sets'[y][g].exists = sets[y][g].exists
            /\ sets'[y][g].ips \subseteq sets[y][g].ips
      BY <3>1 DEF TypeInv, TypeOK
    <3>3. sets' \in [Prefix -> [Family -> [exists : BOOLEAN, ips : SUBSET IP]]]
      <4> DEFINE set == [sets[x][f] EXCEPT !.ips = @ \ {a}]
                 row == [sets[x] EXCEPT ![f] = set]
      <4>1. set \in [exists : BOOLEAN, ips : SUBSET IP]
        <5>1. sets[x][f] \in [exists : BOOLEAN, ips : SUBSET IP]
          BY DEF TypeInv, TypeOK
        <5>2. \A old \in [exists : BOOLEAN, ips : SUBSET IP] :
                [old EXCEPT !.ips = @ \ {a}] \in [exists : BOOLEAN, ips : SUBSET IP]
          OBVIOUS
        <5>3. QED
          BY <5>1, <5>2
      <4> HIDE DEF set
      <4>2. row \in [Family -> [exists : BOOLEAN, ips : SUBSET IP]]
        BY <4>1 DEF TypeInv, TypeOK
      <4>3. sets' = [sets EXCEPT ![x] = row]
        BY <3>1 DEF set
      <4> HIDE DEF row
      <4>4. QED
        BY <4>2, <4>3 DEF TypeInv, TypeOK
    <3>4. QED
      BY <3>2, <3>3 DEF TypeInv, TypeOK, SetsTyped, Family
  <2>3. QED
    BY <1>2, <1>4, <2>1, <2>2, RejectsKept, Together DEF TamperSet
<1>5. QED
  BY <1>1, <1>3, <1>4

LEMMA StepTyped == ASSUME TypeInv, [Next]_vars PROVE TypeInv'
<1>1. CASE UNCHANGED vars
  BY <1>1 DEF vars, runtime, TypeInv, TypeOK, RuntimeTypeOK, TodoOfFamily, OffIsIdle,
     Busy
<1>2. ASSUME NEW p \in Proc, Step(p) PROVE TypeInv'
  BY <1>2, CreateTyped, FlushTyped, AddTyped, RuleTyped, RunTyped
     DEF Step, ReconcileStep
<1>3. CASE Environment
  BY <1>3, RunTyped, EnvironmentTyped DEF Environment
<1>4. QED
  BY <1>1, <1>2, <1>3 DEF Next

LEMMA InitTyped == Init => TypeInv
<1> SUFFICES ASSUME Init PROVE TypeInv
  OBVIOUS
<1>1. RuntimeTypeOK /\ OffIsIdle
  BY ListsAssumption DEF Init, RuntimeInit, RuntimeTypeOK, OffIsIdle, Busy
<1>2. SetsTyped
  BY DEF Init, SetsTyped, NoSet, Family
<1>3. NoPass \in Locals /\ NoPass.at = "create"
  BY DEF NoPass, NewPass, Locals, Family, Prefix
<1>4. pass \in [Proc -> Locals] /\ TodoOfFamily
  BY <1>3 DEF Init, TodoOfFamily
<1>5. RejectsTyped /\ missing \in [Proc -> BOOLEAN]
  BY DEF Init, RejectsTyped, MaxRejects
<1>6. QED
  BY <1>1, <1>2, <1>4, <1>5 DEF TypeInv, TypeOK, SetsTyped, RejectsTyped, Locals

\* Every reachable state is well typed, an ipset holds addresses of its own family
\* only, whatever the constants.
THEOREM Typed == Spec => []TypeOK
<1>1. Init => TypeInv
  BY InitTyped
<1>2. TypeInv /\ [Next]_vars => TypeInv'
  BY StepTyped
<1>3. QED
  BY <1>1, <1>2, PTL DEF Spec, TypeInv

-----------------------------------------------------------------------------
(* No address of blockAddress gets lost.                                   *)

\* No command has failed and nobody has tampered.
Quiet == spent["fault"] + spent["tamper"] = 0

\* Process p will add the address: it is about to, or will when it starts.
Covers(p, f, a) == mode[p] = "off" \/ OwesManual(p, f, a)

\* A step of process p leaves the other processes alone.
Others(p) ==
    \A q \in Proc \ {p} :
        mode'[q] = mode[q] /\ turn'[q] = turn[q] /\ pass'[q] = pass[q]

\* A step of p keeps address a of family f in its set, or under p's care.
Careful(p, f, a) ==
    a \in sets["manual"][f].ips \/ Covers(p, f, a) =>
        a \in sets'["manual"][f].ips \/ Covers(p, f, a)'

\* An event is counted, so what was quiet after a step was so before.
LEMMA QuietBefore ==
  ASSUME TypeInv, TypeInv', Quiet',
         UNCHANGED spent \/ \E e \in EnvEvent : Spend(e)
  PROVE  Quiet
<1>1. /\ spent \in [EnvEvent -> Nat] /\ spent' \in [EnvEvent -> Nat]
      /\ "fault" \in EnvEvent /\ "tamper" \in EnvEvent
  BY DEF TypeInv, TypeOK, RuntimeTypeOK, EnvEvent
<1>2. spent["fault"] <= spent'["fault"] /\ spent["tamper"] <= spent'["tamper"]
  BY <1>1 DEF Spend
<1>3. QED
  BY <1>1, <1>2 DEF Quiet

\* In a quiet state no fault and no tampering was the last event.
LEMMA QuietEvent ==
  ASSUME TypeInv, Quiet', NEW e \in {"fault", "tamper"}
  PROVE  ~Spend(e)
<1>1. SUFFICES ASSUME Spend(e) PROVE FALSE
  OBVIOUS
<1>2. /\ spent \in [EnvEvent -> Nat]
      /\ "fault" \in EnvEvent /\ "tamper" \in EnvEvent
  BY DEF TypeInv, TypeOK, RuntimeTypeOK, EnvEvent
<1>3. spent' = [spent EXCEPT ![e] = @ + 1]
  BY <1>1 DEF Spend
<1>4. CASE e = "fault"
  BY <1>2, <1>3, <1>4 DEF Quiet
<1>5. CASE e = "tamper"
  BY <1>2, <1>3, <1>5 DEF Quiet
<1>6. QED
  BY <1>4, <1>5

LEMMA QuietCommand ==
  ASSUME TypeInv, Quiet', NEW ok \in BOOLEAN, Outcome(ok)
  PROVE  ok /\ UNCHANGED spent
  BY QuietEvent DEF Outcome

\* A careful step of one process loses no address.
LEMMA CarefulStep ==
  ASSUME ManualGapsCovered, NEW p \in Proc, Quiet' => Quiet, Others(p),
         Quiet' => \A f \in Family : \A a \in Desired("manual", f, {}) : Careful(p, f, a)
  PROVE  ManualGapsCovered'
<1>1. SUFFICES ASSUME Quiet', NEW f \in Family, NEW a \in Desired("manual", f, {})
               PROVE  a \in sets'["manual"][f].ips \/ \E q \in Proc : Covers(q, f, a)'
  BY DEF ManualGapsCovered, Quiet, Covers, Desired
<1>2. a \in sets["manual"][f].ips \/ \E q \in Proc : Covers(q, f, a)
  BY <1>1 DEF ManualGapsCovered, Quiet, Covers
<1>3. ASSUME NEW q \in Proc, Covers(q, f, a)
      PROVE  a \in sets'["manual"][f].ips \/ \E r \in Proc : Covers(r, f, a)'
  <2>1. CASE q = p
    BY <1>1, <1>3, <2>1 DEF Careful
  <2>2. CASE q # p
    BY <1>3, <2>2 DEF Others, Covers, OwesManual, ManualDone, Busy
  <2>3. QED
    BY <2>1, <2>2
<1>4. QED
  BY <1>1, <1>2, <1>3 DEF Careful

\* What a step that changes the pass of p only, or ends it, does to the others.
LEMMA OthersKept ==
  ASSUME TypeInv, NEW p \in Proc, NEW l, pass' = [pass EXCEPT ![p] = l],
         \/ UNCHANGED mode
         \/ \E m : mode' = [mode EXCEPT ![p] = m],
         \/ UNCHANGED turn
         \/ \E t : turn' = [turn EXCEPT ![p] = t]
  PROVE  Others(p)
  BY DEF TypeInv, TypeOK, RuntimeTypeOK, Others

LEMMA GoToOthers ==
  ASSUME TypeInv, NEW p \in Proc, NEW stage, NEW x, GoTo(p, stage, x)
  PROVE  Others(p)
  BY DEF GoTo, TypeInv, TypeOK, Others

LEMMA FinishOthers ==
  ASSUME TypeInv, NEW p \in Proc, NEW problem, Finish(p, problem)
  PROVE  Others(p)
<1>1. /\ pass' = [pass EXCEPT ![p] = NoPass]
      /\ turn' = [turn EXCEPT ![p] = "nobody"]
      /\ UNCHANGED mode \/ \E m : mode' = [mode EXCEPT ![p] = m]
  BY DEF Finish, Leave
<1>2. QED
  BY <1>1, OthersKept

LEMMA NextFamilyOthers ==
  ASSUME TypeInv, NEW p \in Proc, NEW stage, NextFamily(p, stage)
  PROVE  Others(p)
<1>1. CASE pass[p].fam = "inet"
  BY <1>1 DEF NextFamily, TypeInv, TypeOK, Others
<1>2. CASE pass[p].fam # "inet"
  BY <1>2, FinishOthers DEF NextFamily
<1>3. QED
  BY <1>1, <1>2

\* A process inside reconcileOnce runs; what it covers is what its pass owes.
LEMMA BusyCovers ==
  ASSUME TypeInv, NEW p \in Proc, Busy(p), NEW f, NEW a, Covers(p, f, a)
  PROVE  OwesManual(p, f, a)
  BY DEF TypeInv, OffIsIdle, Covers

\* Going on, from anywhere but the addition, within a list owes what it owed.
LEMMA GoToCovers ==
  ASSUME TypeInv, NEW p \in Proc, NEW f, NEW a, OwesManual(p, f, a),
         NEW stage \in {"create", "flush", "check", "append"}, NEW x \in Prefix,
         GoTo(p, stage, x),
         pass[p].fam = f => x = "manual" /\ stage \in {"create", "flush"}
  PROVE  Covers(p, f, a)'
<1>1. /\ pass'[p].at = stage /\ pass'[p].prefix = x /\ pass'[p].fam = pass[p].fam
      /\ turn' = turn
  BY DEF GoTo, TypeInv, TypeOK
<1>2. QED
  BY <1>1 DEF OwesManual, ManualDone, Busy, Covers

\* The next family is what a pass still owes once the first has been seen to.
LEMMA NextFamilyCovers ==
  ASSUME TypeInv, NEW p \in Proc, NEW f \in Family, NEW a, OwesManual(p, f, a),
         NextFamily(p, "create"), pass[p].fam # f
  PROVE  Covers(p, f, a)'
<1>1. f = "inet6" /\ pass[p].fam = "inet"
  BY DEF OwesManual, Family
<1>2. /\ pass'[p].at = "create" /\ pass'[p].fam = "inet6"
      /\ pass'[p].prefix = "manual" /\ turn' = turn
  BY <1>1 DEF NextFamily, TypeInv, TypeOK
<1>3. QED
  BY <1>1, <1>2 DEF OwesManual, ManualDone, Busy, Covers

\* A step of p that loses nothing.
Loses(p) ==
    \E f \in Family : \E a \in Desired("manual", f, {}) : ~Careful(p, f, a)
Safe(p) == Others(p) /\ ~Loses(p)

\* The sets stay and p goes on to care.
LEMMA SafeByPass ==
  ASSUME NEW p \in Proc, UNCHANGED sets, Others(p),
         \A f \in Family : \A a \in Desired("manual", f, {}) :
             Covers(p, f, a) => Covers(p, f, a)'
  PROVE  Safe(p)
  BY DEF Safe, Loses, Careful

LEMMA CreateSafe ==
  ASSUME TypeInv, Quiet', NEW p \in Proc, CreateSet(p) PROVE Safe(p)
<1>1. PICK ok \in BOOLEAN : CreateSet(p)!2!(ok)
  BY DEF CreateSet
<1>2. /\ SetIPs(p, IPSet(TheSet(p).ips))
      /\ GoTo(p, "flush", pass[p].prefix)
      /\ Busy(p) /\ pass[p].at = "create"
  BY <1>1, QuietCommand DEF CreateSet, At
<1>3. Others(p)
  BY <1>2, GoToOthers
<1>4. ASSUME NEW f \in Family PROVE sets'["manual"][f].ips = sets["manual"][f].ips
  BY <1>2 DEF SetIPs, IPSet, TheSet, TypeInv, TypeOK, Prefix, Family
<1>5. ASSUME NEW f \in Family, NEW a, OwesManual(p, f, a) PROVE Covers(p, f, a)'
  <2>1. pass[p].prefix \in Prefix
    BY DEF TypeInv, TypeOK
  <2>2. pass[p].fam = f => pass[p].prefix = "manual"
    BY <1>5, <2>1 DEF OwesManual, ManualDone, Prefix, Family
  <2>3. QED
    BY <1>2, <1>5, <2>1, <2>2, GoToCovers
<1>6. QED
  BY <1>2, <1>3, <1>4, <1>5, BusyCovers DEF Safe, Loses, Careful

LEMMA FlushSafe ==
  ASSUME TypeInv, Quiet', NEW p \in Proc, FlushSet(p) PROVE Safe(p)
<1> DEFINE todo == Desired(pass[p].prefix, pass[p].fam, pass[p].tor)
<1>1. PICK ok \in BOOLEAN :
        /\ Outcome(ok)
        /\ IF ok THEN /\ SetIPs(p, IPSet({}))
                      /\ pass' = [pass EXCEPT ![p].at = "add", ![p].todo = todo]
                      /\ UNCHANGED <<mode, torEntryIPs, turn, queued, published, missing>>
                 ELSE UNCHANGED sets /\ NextFamily(p, "create")
  BY DEF FlushSet
<1>2. /\ SetIPs(p, IPSet({}))
      /\ pass' = [pass EXCEPT ![p].at = "add", ![p].todo = todo]
      /\ UNCHANGED <<mode, turn>>
      /\ Busy(p) /\ pass[p].at = "flush"
  BY <1>1, QuietCommand DEF FlushSet, At
<1>3. Others(p)
  BY <1>2 DEF TypeInv, TypeOK, Others
<1>4. /\ pass'[p].at = "add" /\ pass'[p].todo = todo
      /\ pass'[p].fam = pass[p].fam /\ pass'[p].prefix = pass[p].prefix
      /\ pass[p].prefix \in Prefix /\ pass[p].fam \in Family
  BY <1>2 DEF TypeInv, TypeOK
<1>5. ASSUME NEW f \in Family, NEW a \in Desired("manual", f, {}) PROVE Careful(p, f, a)
  <2>1. CASE pass[p].prefix = "manual" /\ pass[p].fam = f
    <3>1. a \in todo
      BY <1>5, <2>1 DEF Desired
    <3>2. OwesManual(p, f, a)'
      BY <1>2, <1>4, <2>1, <3>1 DEF OwesManual, ManualDone, Busy
    <3>3. QED
      BY <3>2 DEF Careful, Covers
  <2>2. CASE ~(pass[p].prefix = "manual" /\ pass[p].fam = f)
    <3>1. sets'["manual"][f].ips = sets["manual"][f].ips
      BY <1>2, <1>4, <2>2 DEF SetIPs, TypeInv, TypeOK, Prefix, Family
    <3>2. ASSUME OwesManual(p, f, a) PROVE OwesManual(p, f, a)'
      BY <1>2, <1>4, <2>2, <3>2 DEF OwesManual, ManualDone, Busy, Prefix
    <3>3. QED
      BY <1>2, <3>1, <3>2, BusyCovers DEF Careful, Covers
  <2>3. QED
    BY <2>1, <2>2
<1>6. QED
  BY <1>3, <1>5 DEF Safe, Loses

LEMMA AddSafe ==
  ASSUME TypeInv, Quiet', NEW p \in Proc, AddIP(p) PROVE Safe(p)
<1> DEFINE b == Least(pass[p].todo)
<1>1. PICK ok \in BOOLEAN :
        /\ Outcome(ok)
        /\ IF ok THEN SetIPs(p, IPSet(TheSet(p).ips \union {b})) ELSE UNCHANGED sets
  BY DEF AddIP
<1>2. /\ SetIPs(p, IPSet(TheSet(p).ips \union {b}))
      /\ pass' = [pass EXCEPT ![p].todo = @ \ {b}]
      /\ UNCHANGED <<mode, turn>>
      /\ Busy(p) /\ pass[p].at = "add"
  BY <1>1, QuietCommand DEF AddIP, At
<1> HIDE DEF b
<1>3. Others(p)
  BY <1>2 DEF TypeInv, TypeOK, Others
<1>4. /\ pass'[p].at = "add" /\ pass'[p].todo = pass[p].todo \ {b}
      /\ pass'[p].fam = pass[p].fam /\ pass'[p].prefix = pass[p].prefix
      /\ pass[p].prefix \in Prefix /\ pass[p].fam \in Family
  BY <1>2 DEF TypeInv, TypeOK
<1>5. ASSUME NEW f \in Family, NEW a \in Desired("manual", f, {}) PROVE Careful(p, f, a)
  <2>1. sets["manual"][f].ips \subseteq sets'["manual"][f].ips
    BY <1>2, <1>4 DEF SetIPs, IPSet, TheSet, TypeInv, TypeOK, Prefix, Family
  <2>2. CASE pass[p].fam = f /\ a = b /\ pass[p].prefix = "manual"
    BY <1>2, <2>2 DEF SetIPs, IPSet, TheSet, TypeInv, TypeOK, Prefix, Family, Careful
  <2>3. CASE ~(pass[p].fam = f /\ a = b /\ pass[p].prefix = "manual")
    <3>1. ASSUME OwesManual(p, f, a) PROVE OwesManual(p, f, a)'
      BY <1>2, <1>4, <2>3, <3>1 DEF OwesManual, ManualDone, Busy, Prefix
    <3>2. QED
      BY <1>2, <2>1, <3>1, BusyCovers DEF Careful, Covers
  <2>4. QED
    BY <2>2, <2>3
<1>6. QED
  BY <1>3, <1>5 DEF Safe, Loses

\* The rules of a family follow both of its sets: nothing is owed there.
LEMMA EnsuredSafe ==
  ASSUME TypeInv, NEW p \in Proc, Busy(p), pass[p].at \in {"check", "append"},
         RuleEnsured(p), UNCHANGED sets
  PROVE  Safe(p)
<1>1. Others(p)
  BY GoToOthers, NextFamilyOthers DEF RuleEnsured
<1>2. ASSUME NEW f \in Family, NEW a, OwesManual(p, f, a) PROVE Covers(p, f, a)'
  <2>1. pass[p].fam # f
    BY <1>2 DEF OwesManual, ManualDone, Family
  <2>2. CASE pass[p].prefix = "manual"
    BY <1>2, <2>1, <2>2, GoToCovers DEF RuleEnsured, Prefix
  <2>3. CASE pass[p].prefix # "manual"
    BY <1>2, <2>1, <2>3, NextFamilyCovers DEF RuleEnsured
  <2>4. QED
    BY <2>2, <2>3
<1>3. QED
  BY <1>1, <1>2, BusyCovers, SafeByPass

LEMMA RuleSafe ==
  ASSUME TypeInv, Quiet', NEW p \in Proc,
         SetFilled(p) \/ CheckReject(p) \/ AppendReject(p) \/ LookUp(p)
  PROVE  Safe(p)
<1>1. CASE SetFilled(p)
  <2>1. /\ Busy(p) /\ pass[p].at = "add" /\ pass[p].todo = {} /\ UNCHANGED sets
        /\ pass[p].prefix \in Prefix
    BY <1>1 DEF SetFilled, At, TypeInv, TypeOK
  <2>2. Others(p)
    BY <1>1, GoToOthers DEF SetFilled
  <2>3. ASSUME NEW f \in Family, NEW a, OwesManual(p, f, a) PROVE Covers(p, f, a)'
    <3>1. pass[p].fam # f
      BY <2>1, <2>3 DEF OwesManual, Family
    <3>2. QED
      BY <1>1, <2>3, <3>1, GoToCovers DEF SetFilled, Prefix
  <2>4. QED
    BY <2>1, <2>2, <2>3, BusyCovers, SafeByPass
<1>2. CASE CheckReject(p)
  <2>1. PICK ok \in BOOLEAN :
          /\ Outcome(ok)
          /\ IF ok /\ TheRejects(p) > 0 THEN RuleEnsured(p)
             ELSE GoTo(p, "append", pass[p].prefix)
    BY <1>2 DEF CheckReject
  <2>2. /\ Busy(p) /\ pass[p].at = "check" /\ UNCHANGED sets
        /\ pass[p].prefix \in Prefix
    BY <1>2 DEF CheckReject, At, TypeInv, TypeOK
  <2>3. CASE RuleEnsured(p)
    BY <2>2, <2>3, EnsuredSafe
  <2>4. CASE GoTo(p, "append", pass[p].prefix)
    <3>1. Others(p)
      BY <2>4, GoToOthers
    <3>2. ASSUME NEW f \in Family, NEW a, OwesManual(p, f, a) PROVE Covers(p, f, a)'
      <4>1. pass[p].fam # f
        BY <2>2, <3>2 DEF OwesManual, ManualDone, Family
      <4>2. QED
        BY <2>2, <2>4, <3>2, <4>1, GoToCovers
    <3>3. QED
      BY <2>2, <3>1, <3>2, BusyCovers, SafeByPass
  <2>5. QED
    BY <2>1, <2>3, <2>4
<1>3. CASE AppendReject(p)
  BY <1>3, EnsuredSafe DEF AppendReject, At
<1>4. CASE LookUp(p)
  <2>1. Busy(p) /\ pass[p].at \in {"list", "find"} /\ UNCHANGED sets
    BY <1>4 DEF LookUp, At
  <2>2. PICK ok \in BOOLEAN :
          /\ Outcome(ok)
          /\ IF ~ok \/ ~Found(p) THEN Finish(p, TRUE)
             ELSE IF pass[p].prefix = "manual" THEN GoTo(p, pass[p].at, "tor")
             ELSE IF pass[p].at = "list" THEN GoTo(p, "find", "manual")
             ELSE NextFamily(p, "list")
    BY <1>4 DEF LookUp
  <2>3. Others(p)
    BY <2>2, FinishOthers, GoToOthers, NextFamilyOthers
  <2>4. ASSUME NEW f, NEW a PROVE ~Covers(p, f, a)
    BY <2>1, BusyCovers DEF OwesManual
  <2>5. QED
    BY <2>1, <2>3, <2>4, SafeByPass
<1>5. QED
  BY <1>1, <1>2, <1>3, <1>4

\* A process that starts owes everything; one that is down will; one that waits
\* for the mutex owes nothing yet.
LEMMA RunSafe ==
  ASSUME TypeInv, NEW p \in Proc,
         \/ Start(p) \/ Tick(p) \/ Refresh(p) \/ Crash(p)
         \/ \E g \in Goroutine : EnterReconcile(p, g)
  PROVE  Safe(p)
<1>1. CASE Start(p)
  <2>1. /\ pass' = [pass EXCEPT ![p] = NewPass(SeedTorIPs)]
        /\ mode' = [mode EXCEPT ![p] = "baseline"]
        /\ turn' = [turn EXCEPT ![p] = "main"]
        /\ UNCHANGED sets
    BY <1>1 DEF Start, Launch
  <2>2. Others(p)
    BY <2>1, OthersKept
  <2>3. pass'[p] = NewPass(SeedTorIPs) /\ turn'[p] = "main"
    BY <2>1 DEF TypeInv, TypeOK, RuntimeTypeOK
  <2>4. ASSUME NEW f \in Family, NEW a PROVE OwesManual(p, f, a)'
    BY <2>3 DEF OwesManual, ManualDone, Busy, NewPass, Family
  <2>5. QED
    BY <2>1, <2>2, <2>4, SafeByPass DEF Covers
<1>2. CASE Tick(p) \/ Refresh(p)
  <2>1. UNCHANGED <<mode, turn, pass, sets>>
    BY <1>2 DEF Tick, Refresh, RequestCheck, RequestRefresh
  <2>2. QED
    BY <2>1, SafeByPass DEF Others, Covers, OwesManual, ManualDone, Busy
<1>3. CASE Crash(p)
  <2>1. /\ pass' = [pass EXCEPT ![p] = NoPass]
        /\ mode' = [mode EXCEPT ![p] = "off"]
        /\ turn' = [turn EXCEPT ![p] = "nobody"]
        /\ UNCHANGED sets
    BY <1>3 DEF Crash, Kill
  <2>2. Others(p)
    BY <2>1, OthersKept
  <2>3. mode'[p] = "off"
    BY <2>1 DEF TypeInv, TypeOK, RuntimeTypeOK
  <2>4. QED
    BY <2>1, <2>2, <2>3, SafeByPass DEF Covers
<1>4. ASSUME NEW g \in Goroutine, EnterReconcile(p, g) PROVE Safe(p)
  <2>1. /\ pass' = [pass EXCEPT ![p] = IF Warns(p) THEN NewCheck
                                       ELSE NewPass(torEntryIPs[p])]
        /\ turn' = [turn EXCEPT ![p] = g]
        /\ UNCHANGED <<mode, sets>>
        /\ turn[p] = "nobody" /\ queued[p] # {}
    BY <1>4 DEF EnterReconcile, Enter
  <2>2. Others(p)
    BY <2>1, OthersKept
  <2>3. ASSUME NEW f, NEW a PROVE ~Covers(p, f, a)
    BY <2>1 DEF Covers, OwesManual, Busy, TypeInv, OffIsIdle
  <2>4. QED
    BY <2>1, <2>2, <2>3, SafeByPass
<1>5. QED
  BY <1>1, <1>2, <1>3, <1>4

\* Every event is counted.
LEMMA Counted ==
  ASSUME [Next]_vars
  PROVE  UNCHANGED spent \/ \E e \in EnvEvent : Spend(e)
<1>1. ASSUME NEW ok \in BOOLEAN, Outcome(ok)
      PROVE  UNCHANGED spent \/ \E e \in EnvEvent : Spend(e)
  BY <1>1 DEF Outcome, EnvEvent
<1>2. ASSUME NEW p \in Proc, Step(p)
      PROVE  UNCHANGED spent \/ \E e \in EnvEvent : Spend(e)
  <2>1. ASSUME ReconcileStep(p)
        PROVE  UNCHANGED spent \/ \E ok \in BOOLEAN : Outcome(ok)
    BY <2>1 DEF ReconcileStep, CreateSet, FlushSet, AddIP, SetFilled, CheckReject,
       AppendReject, LookUp
  <2>2. CASE Start(p)
    BY <2>2 DEF Start, Launch, EnvEvent
  <2>3. CASE Tick(p) \/ Refresh(p) \/ \E g \in Goroutine : EnterReconcile(p, g)
    BY <2>3 DEF Tick, Refresh, RequestCheck, RequestRefresh, EnterReconcile, Enter
  <2>4. QED
    BY <1>1, <1>2, <2>1, <2>2, <2>3 DEF Step
<1>3. ASSUME Environment PROVE \E e \in EnvEvent : Spend(e)
  BY <1>3 DEF Environment, Crash, Kill, Publish, PublishList, TamperRules, TamperSet,
     EnvEvent
<1>4. CASE UNCHANGED vars
  BY <1>4 DEF vars, runtime
<1>5. QED
  BY <1>2, <1>3, <1>4 DEF Next

\* While no command has failed and nobody has tampered, an address of blockAddress
\* is missing from its set only while some process is down or about to add it,
\* for any number of processes, kills and refreshes (applySet).
THEOREM ManualSurvives == Spec => []ManualGapsCovered
<1>1. Init => TypeInv /\ ManualGapsCovered
  <2>1. ASSUME Init PROVE ManualGapsCovered
    <3>1. \A p \in Proc : mode[p] = "off"
      BY <2>1 DEF Init, RuntimeInit
    <3>2. QED
      BY <3>1, RolesAssumption DEF ManualGapsCovered
  <2>2. QED
    BY <2>1, InitTyped
<1>2. TypeInv /\ ManualGapsCovered /\ [Next]_vars => ManualGapsCovered'
  <2> SUFFICES ASSUME TypeInv, ManualGapsCovered, [Next]_vars
               PROVE  ManualGapsCovered'
    OBVIOUS
  <2>1. CASE ~Quiet'
    BY <2>1 DEF ManualGapsCovered, Quiet
  <2>2. CASE Quiet'
    <3>1. Quiet
      BY <2>2, StepTyped, Counted, QuietBefore
    <3>2. ASSUME NEW p \in Proc, Safe(p) PROVE ManualGapsCovered'
      BY <3>1, <3>2, CarefulStep DEF Safe, Loses
    <3>3. CASE UNCHANGED <<mode, turn, pass, sets, spent>>
      BY <3>3 DEF ManualGapsCovered, OwesManual, ManualDone, Busy
    <3>4. ASSUME NEW p \in Proc, Step(p) PROVE ManualGapsCovered'
      BY <2>2, <3>2, <3>4, CreateSafe, FlushSafe, AddSafe, RuleSafe, RunSafe
         DEF Step, ReconcileStep
    <3>5. CASE \E p \in Proc : Crash(p)
      BY <3>2, <3>5, RunSafe
    <3>6. CASE \E S \in Publications : Publish(S)
      BY <3>1, <3>6 DEF Publish, PublishList, ManualGapsCovered, Quiet, OwesManual,
         ManualDone, Busy
    <3>7. CASE \E x \in Prefix, f \in Family :
                 TamperRules(x, f) \/ \E a \in IP : TamperSet(x, f, a)
      BY <2>2, <3>7, QuietEvent DEF TamperRules, TamperSet
    <3>8. QED
      BY <3>3, <3>4, <3>5, <3>6, <3>7 DEF Next, Environment, vars, runtime
  <2>3. QED
    BY <2>1, <2>2
<1>3. TypeInv /\ [Next]_vars => TypeInv'
  BY StepTyped
<1>4. QED
  BY <1>1, <1>2, <1>3, PTL DEF Spec

-----------------------------------------------------------------------------
(* A single process never adds a rule that is there.                       *)

Calm == spent["spawn"] + spent["fault"] = 0

\* While no watchdog has been spawned only the primary runs.  While no command
\* has failed either, a pass that is about to add a rule saw that there is none.
PrimaryAlone == spent["spawn"] = 0 => \A p \in Proc \ {"primary"} : mode[p] = "off"
AddsWhatIsMissing == \A p \in Proc : At(p, "append") => TheRejects(p) = 0

SingleInv ==
    /\ TypeInv
    /\ PrimaryAlone
    /\ Calm => AddsWhatIsMissing /\ \A x \in Prefix, f \in Family : rejects[x][f] <= 1

\* Events are never forgotten.
LEMMA CalmBefore ==
  ASSUME TypeInv, [Next]_vars
  PROVE  /\ Calm' => Calm
         /\ spent'["spawn"] = 0 => spent["spawn"] = 0
<1>1. spent \in [EnvEvent -> Nat]
  BY SpentTyped
<1>2. CASE UNCHANGED spent
  BY <1>2 DEF Calm
<1>3. ASSUME NEW e \in EnvEvent, Spend(e)
      PROVE  /\ Calm' => Calm
             /\ spent'["spawn"] = 0 => spent["spawn"] = 0
  BY <1>1, <1>3 DEF Calm, Spend, EnvEvent
<1>4. QED
  BY <1>2, <1>3, Counted

\* A command does not fail in a calm step.
LEMMA CalmCommand ==
  ASSUME TypeInv, NEW ok \in BOOLEAN, Outcome(ok), Calm'
  PROVE  ok
  BY SpentTyped DEF Outcome, Spend, Calm, EnvEvent

\* The end of a pass does not start a process.
LEMMA FinishAlone ==
  ASSUME TypeInv, NEW p \in Proc, Busy(p), NEW problem, Finish(p, problem)
  PROVE  \A q \in Proc : mode[q] = "off" => mode'[q] = "off"
<1>1. mode[p] # "off"
  BY DEF TypeInv, OffIsIdle
<1>2. QED
  BY <1>1 DEF Finish, Leave, TypeInv, TypeOK, RuntimeTypeOK

\* Only Launch starts a process, and counts the watchdogs it starts.
LEMMA AloneStep ==
  ASSUME Proc \subseteq {"primary", "watchdog"}, TypeInv, PrimaryAlone, [Next]_vars
  PROVE  PrimaryAlone'
<1> SUFFICES ASSUME spent'["spawn"] = 0, NEW q \in Proc \ {"primary"}
             PROVE  mode'[q] = "off"
  BY DEF PrimaryAlone
<1>1. q = "watchdog" /\ mode[q] = "off" /\ spent["spawn"] = 0
  BY CalmBefore DEF PrimaryAlone
<1>2. ASSUME NEW p \in Proc, Step(p) PROVE mode'[q] = "off"
  <2>1. CASE Start(p)
    <3>1. p # "watchdog"
      BY <1>1, <2>1, SpentTyped DEF Start, Launch, Spend, EnvEvent
    <3>2. QED
      BY <1>1, <2>1, <3>1 DEF Start, Launch
  <2>2. CASE Tick(p) \/ Refresh(p) \/ \E g \in Goroutine : EnterReconcile(p, g)
    BY <1>1, <2>2 DEF Tick, Refresh, RequestCheck, RequestRefresh, EnterReconcile, Enter
  <2>3. CASE ReconcileStep(p)
    <3>1. Busy(p) /\ (UNCHANGED mode \/ \E problem : Finish(p, problem))
      BY <2>3 DEF ReconcileStep, CreateSet, FlushSet, AddIP, SetFilled, CheckReject,
         AppendReject, LookUp, RuleEnsured, NextFamily, GoTo, At
    <3>2. QED
      BY <1>1, <3>1, FinishAlone
  <2>4. QED
    BY <1>2, <2>1, <2>2, <2>3 DEF Step
<1>3. CASE \E p \in Proc : Crash(p)
  BY <1>1, <1>3 DEF Crash, Kill, TypeInv, TypeOK, RuntimeTypeOK
<1>4. CASE UNCHANGED mode
  BY <1>1, <1>4
<1>5. QED
  BY <1>2, <1>3, <1>4 DEF Next, Environment, Publish, PublishList, TamperRules, TamperSet,
     vars, runtime

AtMostOne == \A x \in Prefix, f \in Family : rejects[x][f] <= 1

\* A step that leaves the rules alone and does not bring a pass to the addition.
LEMMA NothingToAdd ==
  ASSUME AddsWhatIsMissing, AtMostOne, UNCHANGED rejects,
         \A p \in Proc : At(p, "append")' =>
             /\ At(p, "append")
             /\ pass'[p].prefix = pass[p].prefix /\ pass'[p].fam = pass[p].fam
  PROVE  AddsWhatIsMissing' /\ AtMostOne'
<1>1. AtMostOne'
  BY DEF AtMostOne
<1>2. AddsWhatIsMissing'
  BY DEF AddsWhatIsMissing, TheRejects
<1>3. QED
  BY <1>1, <1>2

\* A pass that goes elsewhere: to another command, to the next family, or home.
LEMMA Elsewhere ==
  ASSUME TypeInv, AddsWhatIsMissing, AtMostOne, UNCHANGED rejects, NEW p \in Proc,
         \/ \E x \in Prefix, stage \in {"create", "flush", "check", "list", "find"} : GoTo(p, stage, x)
         \/ \E stage \in {"create", "list"} : NextFamily(p, stage)
         \/ RuleEnsured(p)
         \/ \E problem : Finish(p, problem)
  PROVE  AddsWhatIsMissing' /\ AtMostOne'
<1>1. pass \in [Proc -> Locals]
  BY DEF TypeInv, TypeOK, Locals
<1>2. /\ pass'[p].at # "append"
      /\ \A q \in Proc \ {p} : pass'[q] = pass[q] /\ turn'[q] = turn[q]
  BY <1>1 DEF GoTo, NextFamily, RuleEnsured, Finish, Leave, NoPass, NewPass, Locals,
     TypeInv, TypeOK, RuntimeTypeOK
<1>3. QED
  BY <1>2, NothingToAdd DEF At, Busy

\* The commands of the primary's pass.
LEMMA CommandAddsOnce ==
  ASSUME TypeInv, AddsWhatIsMissing, AtMostOne, Calm', NEW p \in Proc, ReconcileStep(p),
         \A q \in Proc \ {p} : ~Busy(q)'
  PROVE  AddsWhatIsMissing' /\ AtMostOne'
<1>1. pass \in [Proc -> Locals]
  BY DEF TypeInv, TypeOK, Locals
<1>2. CASE CreateSet(p) \/ SetFilled(p)
  <2>1. /\ UNCHANGED rejects
        /\ \/ GoTo(p, "flush", pass[p].prefix) \/ NextFamily(p, "create")
           \/ GoTo(p, "create", "tor") \/ GoTo(p, "check", "manual")
    BY <1>2 DEF CreateSet, SetFilled
  <2>2. QED
    BY <1>1, <2>1, Elsewhere DEF Prefix, Locals
<1>3. CASE FlushSet(p) \/ AddIP(p)
  <2>1. UNCHANGED rejects
    BY <1>3 DEF FlushSet, AddIP
  <2>2. CASE pass'[p].at = "add" /\ \A q \in Proc \ {p} : pass'[q] = pass[q]
                                                        /\ turn'[q] = turn[q]
    BY <2>1, <2>2, NothingToAdd DEF At, Busy
  <2>3. CASE NextFamily(p, "create")
    BY <2>1, <2>3, Elsewhere
  <2>4. QED
    BY <1>1, <1>3, <2>2, <2>3 DEF FlushSet, AddIP, At, Locals
<1>4. CASE CheckReject(p)
  <2>1. PICK ok \in BOOLEAN :
          /\ Outcome(ok)
          /\ IF ok /\ TheRejects(p) > 0 THEN RuleEnsured(p)
             ELSE GoTo(p, "append", pass[p].prefix)
    BY <1>4 DEF CheckReject
  <2>2. UNCHANGED rejects /\ ok
    BY <1>4, <2>1, CalmCommand DEF CheckReject
  <2>3. CASE TheRejects(p) > 0
    BY <2>1, <2>2, <2>3, Elsewhere
  <2>4. CASE ~(TheRejects(p) > 0)
    <3>1. TheRejects(p) \in Nat
      BY DEF TheRejects, TypeInv, TypeOK, MaxRejects
    <3>2. TheRejects(p) = 0
      BY <2>4, <3>1
    <3>3. pass'[p].prefix = pass[p].prefix /\ pass'[p].fam = pass[p].fam
      BY <1>1, <2>1, <2>4 DEF GoTo, Locals
    <3>4. QED
      BY <2>2, <3>2, <3>3 DEF AddsWhatIsMissing, AtMostOne, At, TheRejects
  <2>5. QED
    BY <2>3, <2>4
<1>5. CASE AppendReject(p)
  <2>1. PICK ok \in BOOLEAN :
          rejects' = IF ~ok \/ TheRejects(p) = MaxRejects THEN rejects
                ELSE [rejects EXCEPT ![pass[p].prefix][pass[p].fam] = @ + 1]
    BY <1>5 DEF AppendReject
  <2>2. rejects[pass[p].prefix][pass[p].fam] = 0
    BY <1>5 DEF AppendReject, AddsWhatIsMissing, TheRejects
  <2>3. AtMostOne'
    BY <2>1, <2>2 DEF AtMostOne, TypeInv, TypeOK
  <2>4. pass'[p].at # "append"
    BY <1>1, <1>5 DEF AppendReject, RuleEnsured, GoTo, NextFamily, Finish, NoPass, NewPass,
       Locals
  <2>5. QED
    BY <2>3, <2>4 DEF AddsWhatIsMissing, At
<1>6. CASE LookUp(p)
  <2>1. /\ UNCHANGED rejects
        /\ \/ Finish(p, TRUE) \/ NextFamily(p, "list")
           \/ GoTo(p, "list", "tor") \/ GoTo(p, "find", "tor") \/ GoTo(p, "find", "manual")
    BY <1>6 DEF LookUp, At
  <2>2. QED
    BY <1>1, <2>1, Elsewhere DEF Prefix, Locals
<1>7. QED
  BY <1>2, <1>3, <1>4, <1>5, <1>6 DEF ReconcileStep

LEMMA SingleStep ==
  ASSUME Proc \subseteq {"primary", "watchdog"}, SingleInv, [Next]_vars
  PROVE  SingleInv'
<1>1. TypeInv' /\ PrimaryAlone'
  BY StepTyped, AloneStep DEF SingleInv
<1> SUFFICES ASSUME Calm' PROVE AddsWhatIsMissing' /\ AtMostOne'
  BY <1>1 DEF SingleInv, AtMostOne
<1>2. TypeInv /\ AddsWhatIsMissing /\ AtMostOne
  BY CalmBefore DEF SingleInv, AtMostOne
<1>3. \A q \in Proc \ {"primary"} : mode'[q] = "off" /\ ~Busy(q)'
  <2>1. spent'["spawn"] = 0
    BY <1>1, SpentTyped DEF Calm, EnvEvent, TypeInv, TypeOK, RuntimeTypeOK
  <2>2. QED
    BY <1>1, <2>1 DEF PrimaryAlone, TypeInv, OffIsIdle
<1>4. ASSUME NEW p \in Proc, Step(p) PROVE AddsWhatIsMissing' /\ AtMostOne'
  <2>1. CASE Start(p)
    <3>1. UNCHANGED rejects /\ pass'[p].at = "create"
          /\ \A q \in Proc \ {p} : pass'[q] = pass[q] /\ turn'[q] = turn[q]
      BY <2>1 DEF Start, Launch, NewPass, TypeInv, TypeOK, RuntimeTypeOK, SingleInv
    <3>2. QED
      BY <1>2, <3>1, NothingToAdd DEF At, Busy
  <2>2. CASE Tick(p) \/ Refresh(p)
    BY <1>2, <2>2, NothingToAdd
       DEF Tick, Refresh, RequestCheck, RequestRefresh, At, Busy
  <2>3. ASSUME NEW g \in Goroutine, EnterReconcile(p, g)
        PROVE  AddsWhatIsMissing' /\ AtMostOne'
    <3>1. UNCHANGED rejects /\ pass'[p].at # "append"
          /\ \A q \in Proc \ {p} : pass'[q] = pass[q] /\ turn'[q] = turn[q]
      BY <1>2, <2>3 DEF EnterReconcile, Enter, NewCheck, NewPass, TypeInv, TypeOK,
         RuntimeTypeOK
    <3>2. QED
      BY <1>2, <3>1, NothingToAdd DEF At, Busy
  <2>4. CASE ReconcileStep(p)
    <3>1. Busy(p)
      BY <2>4 DEF ReconcileStep, CreateSet, FlushSet, AddIP, SetFilled, CheckReject,
         AppendReject, LookUp, At
    <3>2. p = "primary"
      BY <1>2, <3>1, CalmBefore, SpentTyped
         DEF SingleInv, PrimaryAlone, Calm, TypeInv, OffIsIdle, EnvEvent
    <3>3. QED
      BY <1>2, <1>3, <2>4, <3>2, CommandAddsOnce
  <2>5. QED
    BY <1>4, <2>1, <2>2, <2>3, <2>4 DEF Step
<1>5. ASSUME NEW p \in Proc, Crash(p) PROVE AddsWhatIsMissing' /\ AtMostOne'
  <2>1. UNCHANGED rejects /\ pass'[p].at # "append"
        /\ \A q \in Proc \ {p} : pass'[q] = pass[q] /\ turn'[q] = turn[q]
    BY <1>2, <1>5 DEF Crash, Kill, NoPass, NewPass, TypeInv, TypeOK, RuntimeTypeOK
  <2>2. QED
    BY <1>2, <2>1, NothingToAdd DEF At, Busy
<1>6. ASSUME NEW x \in Prefix, NEW f \in Family, TamperRules(x, f)
      PROVE  AddsWhatIsMissing' /\ AtMostOne'
  <2>1. /\ rejects' = [rejects EXCEPT ![x][f] = 0]
        /\ UNCHANGED <<turn, pass>>
    BY <1>6 DEF TamperRules
  <2>2. \A y \in Prefix, k \in Family : rejects'[y][k] \in {rejects[y][k], 0}
    BY <1>2, <2>1 DEF TypeInv, TypeOK
  <2>3. \A p \in Proc : pass[p].prefix \in Prefix /\ pass[p].fam \in Family
    BY <1>2 DEF TypeInv, TypeOK
  <2>4. AtMostOne'
    BY <1>2, <2>2 DEF AtMostOne
  <2>5. AddsWhatIsMissing'
    BY <1>2, <2>1, <2>2, <2>3 DEF AddsWhatIsMissing, At, Busy, TheRejects
  <2>6. QED
    BY <2>4, <2>5
<1>7. CASE UNCHANGED <<turn, pass, rejects>>
  BY <1>2, <1>7, NothingToAdd DEF At, Busy
<1>8. QED
  BY <1>4, <1>5, <1>6, <1>7 DEF Next, Environment, Publish, PublishList, TamperSet,
     vars, runtime

\* While no watchdog has been spawned and no command has failed, no rule is there
\* twice, although the process is killed between "-C" and "-A", restarted and
\* tampered with (ensureRejectRule).
THEOREM AddedOnce ==
  Proc \subseteq {"primary", "watchdog"} => (Spec => []RuleAddedOnce)
<1> SUFFICES ASSUME Proc \subseteq {"primary", "watchdog"} PROVE Spec => []RuleAddedOnce
  OBVIOUS
<1>1. Init => SingleInv
  BY InitTyped DEF Init, RuntimeInit, SingleInv, PrimaryAlone, AddsWhatIsMissing, At, Busy
<1>2. SingleInv /\ [Next]_vars => SingleInv'
  BY SingleStep
<1>3. SingleInv => RuleAddedOnce
  BY DEF SingleInv, Calm, RuleAddedOnce
<1>4. QED
  BY <1>1, <1>2, <1>3, PTL DEF Spec
=============================================================================
