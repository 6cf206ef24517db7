----------------------- MODULE DnsGuardWindowsProofs -----------------------
(***************************************************************************)
(* Theorems about the interface guard, for all processes, interfaces and   *)
(* lists of servers.                                                       *)
(*                                                                         *)
(* Typed, FirstStaysFirst and FlagsInUse need no assumption.  The second   *)
(* and third are facts about single steps.  MappingsSurvive speaks         *)
(* of runs in which no command has failed so far, with any number of kills *)
(* and of changes by outsiders.  Its inductive invariant rests on          *)
(* GapsCovered: a process that guards covers only the server it is at, one *)
(* that applies its baseline all that are left.                            *)
(***************************************************************************)
EXTENDS DnsGuardWindowsProps, SequenceTheorems, TLAPS

-----------------------------------------------------------------------------
(* Lists of servers.                                                       *)

\* The lists of the configuration are lists of numbers, and not both empty.
LEMMA ConfiguredServers ==
    /\ \A f \in Family : Desired(f) \in ServerList
    /\ Servers \in ServerList
    /\ Len(Servers) \in Nat \ {0}
    /\ \A list \in Lists : list \in ServerList
<1>1. DesiredV4 \in ServerList /\ DesiredV6 \in ServerList
  BY ServersAssumption, SeqMonotonic DEF ServerList
<1>2. Servers \in ServerList
  BY <1>1, ConcatProperties DEF Servers, ServerList
<1>3. Len(Servers) \in Nat \ {0}
  BY <1>2, ServersAssumption, EmptySeq DEF Servers, ServerList
<1>4. ASSUME NEW list \in Lists PROVE list \in ServerList
  BY <1>4, ServersAssumption, SeqMonotonic DEF ServerList
<1>5. QED
  BY <1>1, <1>2, <1>3, <1>4 DEF Family, Desired

\* The configured servers, one by one.
LEMMA ServerInSet ==
  ASSUME NEW i \in 1..Len(Servers) PROVE Servers[i] \in ToSet(Servers)
  BY ConfiguredServers, LenProperties DEF ServerList, ToSet

\* A command of applyInterfaceDNS leaves a list of servers.
LEMMA CommandTyped ==
  ASSUME NEW list \in ServerList, NEW f \in Family,
         NEW i \in Nat, i \in 1..Len(Desired(f)) \/ i = 1
  PROVE  AfterCommand(list, f, i) \in ServerList
<1> DEFINE d == Desired(f)
           j == IF i <= Len(list) THEN i ELSE Len(list) + 1
<1>1. d \in ServerList /\ Len(d) \in Nat /\ Len(list) \in Nat
  BY ConfiguredServers, LenProperties DEF ServerList
<1>2. CASE d = <<>>
  BY <1>2, EmptySeq DEF AfterCommand, ServerList
<1>3. CASE d # <<>> /\ i = 1
  <2>1. Len(d) >= 1
    BY <1>1, <1>3, EmptySeq DEF ServerList
  <2>2. \A k \in 1..1 : d[k] \in Nat
    BY <1>1, <2>1, ElementOfSeq DEF ServerList
  <2>3. SubSeq(d, 1, 1) \in Seq(Nat)
    BY <2>2, SubSeqProperties
  <2>4. QED
    BY <1>3, <2>3 DEF AfterCommand, ServerList
<1>4. CASE d # <<>> /\ i # 1
  <2>1. i \in 1..Len(d) /\ d[i] \in Nat
    BY <1>1, <1>4, ElementOfSeq DEF ServerList
  <2>2. j \in Nat /\ j >= 1 /\ j <= Len(list) + 1
    BY <1>1, <2>1
  <2>3. SubSeq(list, 1, j - 1) \in Seq(Nat)
    BY <1>1, <2>2, ElementOfSeq, SubSeqProperties DEF ServerList
  <2>4. SubSeq(list, j, Len(list)) \in Seq(Nat)
    BY <1>1, <2>2, ElementOfSeq, SubSeqProperties DEF ServerList
  <2>5. <<d[i]>> \in Seq(Nat)
    BY <2>1
  <2>6. InsertAt(list, j, d[i]) \in Seq(Nat)
    BY <2>3, <2>4, <2>5, ConcatProperties DEF InsertAt
  <2>7. QED
    BY <1>4, <2>6 DEF AfterCommand, ServerList
<1>5. QED
  BY <1>2, <1>3, <1>4

-----------------------------------------------------------------------------
(* Type correctness.                                                       *)

\* An event is counted.
LEMMA SpendTyped ==
  ASSUME spent \in [EnvEvent -> Nat], NEW e \in EnvEvent, Spend(e)
  PROVE  spent' \in [EnvEvent -> Nat]
  BY DEF Spend

\* A command ends one way or the other.
LEMMA OutcomeTyped ==
  ASSUME spent \in [EnvEvent -> Nat], NEW ok \in BOOLEAN, Outcome(ok)
  PROVE  spent' \in [EnvEvent -> Nat]
  BY SpendTyped DEF Outcome, EnvEvent

\* The registry is read.
LEMMA FindsTyped ==
  ASSUME spent \in [EnvEvent -> Nat], NEW i, NEW missing \in BOOLEAN, FindsMissing(i, missing)
  PROVE  spent' \in [EnvEvent -> Nat]
  BY SpendTyped DEF FindsMissing, EnvEvent

\* The DNS client loads the flags of a family.
LEMMA LoadTyped ==
  ASSUME TypeOK, NEW i \in Iface, NEW f \in Family, Load(i, f)
  PROVE  loaded' \in [Iface -> SUBSET ToSet(Servers)]
  BY DEF Load, TypeOK

\* The locals of a process are replaced by others of their type.
LEMMA SetTyped ==
  ASSUME TypeOK, NEW p \in Proc, NEW l \in Locals, Set(p, l)
  PROVE  pass' \in [Proc -> Locals] /\ pass'[p] = l
         /\ \A q \in Proc : q # p => pass'[q] = pass[q]
  BY DEF TypeOK, Set

\* The locals of a process that runs no check.
LEMMA IdleTyped == Idle \in Locals
  BY EmptySeq DEF Idle, Locals, Stage, Family, ServerList

\* The initial states are well typed.
LEMMA InitTyped == Init => TypeOK
<1> SUFFICES ASSUME Init PROVE TypeOK
  OBVIOUS
<1>1. dns \in [Iface -> [Family -> ServerList]]
  BY ConfiguredServers DEF Init
<1>2. pass \in [Proc -> Locals] /\ \A p \in Proc : pass[p] = Idle
  BY IdleTyped DEF Init
<1>3. \A p \in Proc : InLoops(pass[p])
  BY <1>2 DEF InLoops, Idle
<1>4. NothingSeen \in ServerList /\ Silent \in ServerList
  BY EmptySeq DEF NothingSeen, Silent, ServerList
<1>5. QED
  BY <1>1, <1>2, <1>3, <1>4, EventsAssumption DEF Init, TypeOK

\* The variables but the locals of processes are typed, and so are the locals
\* the process p ends up with: the rest follows.
LEMMA TypedByLocals ==
  ASSUME TypeOK, NEW p \in Proc, NEW l \in Locals, InLoops(l), Set(p, l),
         up' \subseteq Iface,
         dns' \in [Iface -> [Family -> ServerList]],
         doh' \in [Iface -> SUBSET ToSet(Servers)],
         loaded' \in [Iface -> SUBSET ToSet(Servers)],
         encryption' \subseteq ToSet(Servers),
         mode' \in [Proc -> {"off", "baseline", "guard", "warn"}],
         lastSeen' \in [Proc -> [Iface -> ServerList]],
         lastLog' \in [Proc -> [Iface -> ServerList]],
         spent' \in [EnvEvent -> Nat]
  PROVE  TypeOK'
<1>1. pass' \in [Proc -> Locals]
      /\ pass'[p] = l /\ \A q \in Proc : q # p => pass'[q] = pass[q]
  BY SetTyped
<1>2. ASSUME NEW q \in Proc PROVE InLoops(pass[q])'
  BY <1>1, <1>2 DEF InLoops, TypeOK
<1>3. QED
  BY <1>1, <1>2 DEF TypeOK

\* enforce returns: Return keeps the types.
LEMMA ReturnTyped ==
  ASSUME TypeOK, NEW p \in Proc, Return(p),
         UNCHANGED <<system, lastLog>>, spent' \in [EnvEvent -> Nat]
  PROVE  TypeOK'
<1> DEFINE stage == IF mode[p] = "baseline" THEN "list" ELSE "idle"
           l == [Idle EXCEPT !.at = stage]
<1>1. Set(p, l)
  BY DEF Return, Set
<1>2. stage \in {"list", "idle"}
  OBVIOUS
<1> HIDE DEF stage
<1>3. l \in Locals /\ l.at \in {"list", "idle"}
  BY <1>2, IdleTyped DEF Locals, Idle, Stage
<1> HIDE DEF l
<1>4. InLoops(l)
  BY <1>3 DEF InLoops
<1>5. lastSeen' \in [Proc -> [Iface -> ServerList]]
  BY EmptySeq DEF Return, TypeOK, NothingSeen, ServerList
<1>6. mode' \in [Proc -> {"off", "baseline", "guard", "warn"}]
  BY BuildAssumption DEF Return, Installed, TypeOK
<1>7. QED
  BY <1>1, <1>3, <1>4, <1>5, <1>6, TypedByLocals DEF TypeOK, system

\* A process starts a check: Start and Tick keep the types.
LEMMA BeginTyped ==
  ASSUME TypeOK, NEW p \in Proc, Start(p) \/ Tick(p) PROVE TypeOK'
<1> DEFINE l == [pass[p] EXCEPT !.at = "list"]
<1>1. l \in Locals /\ l.at = "list"
  BY DEF TypeOK, Locals, Stage
<1>2. Set(p, l)
  BY DEF Start, Tick, Set, TypeOK
<1> HIDE DEF l
<1>3. InLoops(l)
  BY <1>1 DEF InLoops
<1>4. mode' \in [Proc -> {"off", "baseline", "guard", "warn"}]
  BY DEF Start, Tick, TypeOK
<1>5. spent' \in [EnvEvent -> Nat]
  BY SpendTyped DEF Start, Tick, TypeOK, EnvEvent
<1>6. QED
  BY <1>1, <1>2, <1>3, <1>4, <1>5, TypedByLocals DEF TypeOK, system, Start, Tick

\* The interfaces and the mappings: these steps of enforce keep the types.
LEMMA MappingsTyped ==
  ASSUME TypeOK, NEW p \in Proc,
         ListInterfaces(p) \/ DeleteMapping(p) \/ AddMapping(p) \/ MappingsDone(p)
  PROVE  TypeOK'
<1>0. Len(Servers) \in Nat \ {0}
  BY ConfiguredServers
<1>1. CASE ListInterfaces(p)
  <2> DEFINE l == [Idle EXCEPT !.at = "delete", !.todo = up]
  <2>1. CASE Set(p, l) /\ UNCHANGED <<mode, lastSeen, spent>>
    <3>1. l \in Locals /\ l.at = "delete" /\ l.idx = 1
      BY IdleTyped DEF TypeOK, Locals, Stage, Idle
    <3>2. Set(p, l)
      BY <2>1
    <3> HIDE DEF l
    <3>3. InLoops(l)
      BY <1>0, <3>1 DEF InLoops
    <3>4. QED
      BY <1>1, <2>1, <3>1, <3>2, <3>3, TypedByLocals
         DEF TypeOK, system, ListInterfaces
  <2>2. CASE Spend("fault") /\ Return(p)
    <3>1. UNCHANGED <<system, lastLog>>
      BY <1>1 DEF ListInterfaces
    <3>2. spent' \in [EnvEvent -> Nat]
      BY <2>2, SpendTyped DEF EnvEvent, TypeOK
    <3>3. QED
      BY <2>2, <3>1, <3>2, ReturnTyped
  <2>3. QED
    BY <1>1, <2>1, <2>2 DEF ListInterfaces
<1>2. CASE DeleteMapping(p)
  <2> DEFINE l == [pass[p] EXCEPT !.at = "add"]
  <2>1. l \in Locals /\ l.at = "add" /\ l.idx = pass[p].idx
    BY DEF TypeOK, Locals, Stage
  <2>2. Set(p, l)
    BY <1>2 DEF DeleteMapping
  <2> HIDE DEF l
  <2>3. pass[p].idx \in 1..Len(Servers)
    BY <1>0, <1>2 DEF TypeOK, InLoops, DeleteMapping, At
  <2>4. InLoops(l)
    BY <2>1, <2>3 DEF InLoops
  <2>5. spent' \in [EnvEvent -> Nat] /\ encryption' \subseteq ToSet(Servers)
    BY <1>2, OutcomeTyped DEF DeleteMapping, TypeOK
  <2>6. QED
    BY <1>2, <2>1, <2>2, <2>4, <2>5, TypedByLocals DEF TypeOK, DeleteMapping
<1>3. CASE AddMapping(p)
  <2> DEFINE l == [pass[p] EXCEPT !.at = "delete", !.idx = @ + 1]
  <2>1. pass[p].idx \in 1..Len(Servers)
    BY <1>3 DEF TypeOK, InLoops, AddMapping, At
  <2>0. pass[p] \in Locals /\ pass[p].idx + 1 \in Nat
    BY DEF TypeOK, Locals
  <2>2. l \in Locals /\ l.at = "delete" /\ l.idx = pass[p].idx + 1
    BY <2>0 DEF Locals, Stage
  <2>3. Set(p, l)
    BY <1>3 DEF AddMapping
  <2> HIDE DEF l
  <2>4. InLoops(l)
    BY <1>0, <2>1, <2>2 DEF InLoops
  <2>5. spent' \in [EnvEvent -> Nat] /\ encryption' \subseteq ToSet(Servers)
    BY <1>3, <2>1, OutcomeTyped, ServerInSet DEF AddMapping, TypeOK
  <2>6. QED
    BY <1>3, <2>2, <2>3, <2>4, <2>5, TypedByLocals DEF TypeOK, AddMapping
<1>4. CASE MappingsDone(p)
  <2> DEFINE l == [pass[p] EXCEPT !.at = "next"]
  <2>1. l \in Locals /\ l.at = "next"
    BY DEF TypeOK, Locals, Stage
  <2>2. Set(p, l)
    BY <1>4 DEF MappingsDone
  <2> HIDE DEF l
  <2>3. InLoops(l)
    BY <2>1 DEF InLoops
  <2>4. QED
    BY <1>4, <2>1, <2>2, <2>3, TypedByLocals DEF TypeOK, MappingsDone, system
<1>5. QED
  BY <1>1, <1>2, <1>3, <1>4

\* The loop over the interfaces keeps the types.
LEMMA LoopTyped ==
  ASSUME TypeOK, NEW p \in Proc, NextInterface(p) \/ InterfacesDone(p)
  PROVE  TypeOK'
<1>1. CASE NextInterface(p)
  <2>1. PICK i \in pass[p].todo :
           Set(p, [Idle EXCEPT !.at = "read", !.todo = pass[p].todo \ {i},
                               !.iface = i])
    BY <1>1 DEF NextInterface
  <2> DEFINE l == [Idle EXCEPT !.at = "read", !.todo = pass[p].todo \ {i},
                               !.iface = i]
  <2>2. i \in Iface /\ pass[p].todo \ {i} \in SUBSET Iface
    BY DEF TypeOK, Locals
  <2>3. l \in Locals /\ l.at = "read" /\ l.iface = i
    BY <2>2, IdleTyped DEF Locals, Stage, Idle
  <2>4. Set(p, l)
    BY <2>1
  <2> HIDE DEF l
  <2>5. InLoops(l)
    BY <2>2, <2>3 DEF InLoops
  <2>6. QED
    BY <1>1, <2>3, <2>4, <2>5, TypedByLocals DEF TypeOK, NextInterface, system
<1>2. CASE InterfacesDone(p)
  BY <1>2, ReturnTyped DEF InterfacesDone, TypeOK
<1>3. QED
  BY <1>1, <1>2

\* A reading of the servers keeps the types.
LEMMA ReadTyped ==
  ASSUME TypeOK, NEW p \in Proc, ReadServers(p) PROVE TypeOK'
<1> DEFINE f == pass[p].fam
           found(ok) == IF ok THEN dns[pass[p].iface][f] ELSE <<>>
           l(ok) == [pass[p] EXCEPT !.read[f] = found(ok), !.ok = @ /\ ok,
                       !.fam = "v6", !.at = IF f = "v4" THEN "read" ELSE "judge"]
<1>1. PICK ok \in BOOLEAN : Outcome(ok) /\ Set(p, l(ok))
  BY DEF ReadServers
<1>2. pass[p] \in Locals /\ f \in Family /\ pass[p].iface \in Iface
  BY DEF TypeOK, InLoops, ReadServers, At, Locals
<1>3. found(ok) \in ServerList
  BY <1>2, EmptySeq DEF TypeOK, ServerList
<1> HIDE DEF found
<1>4. l(ok) \in Locals
  BY <1>2, <1>3 DEF Locals, Stage, Family
<1>5. l(ok).iface = pass[p].iface /\ l(ok).at \in {"read", "judge"}
  BY <1>2 DEF Locals
<1> HIDE DEF l
<1>6. InLoops(l(ok))
  BY <1>2, <1>5 DEF InLoops
<1>7. spent' \in [EnvEvent -> Nat]
  BY <1>1, OutcomeTyped DEF TypeOK
<1>8. QED
  BY <1>1, <1>4, <1>6, <1>7, TypedByLocals DEF TypeOK, ReadServers, system

\* What is remembered of an interface has its type.
LEMMA SeenTyped ==
  ASSUME TypeOK, NEW p \in Proc, NEW sig \in ServerList, SetSeen(p, sig)
  PROVE  lastSeen' \in [Proc -> [Iface -> ServerList]]
  BY DEF TypeOK, SetSeen

\* The judgement of an interface keeps the types.
LEMMA JudgeTyped ==
  ASSUME TypeOK, NEW p \in Proc, InterfaceOK(p) \/ InterfaceDrifted(p)
  PROVE  TypeOK'
<1>0. Len(Servers) \in Nat \ {0} /\ NothingSeen \in ServerList
  BY ConfiguredServers, EmptySeq DEF NothingSeen, ServerList
<1>1. pass[p] \in Locals /\ pass[p].iface \in Iface
  BY DEF TypeOK, InLoops, InterfaceOK, InterfaceDrifted, Judge, At
<1>2. CASE InterfaceOK(p)
  <2> DEFINE l == [pass[p] EXCEPT !.at = "next"]
  <2>1. l \in Locals /\ l.at = "next"
    BY <1>1 DEF Locals, Stage
  <2>2. Set(p, l)
    BY <1>2 DEF InterfaceOK
  <2> HIDE DEF l
  <2>3. InLoops(l)
    BY <2>1 DEF InLoops
  <2>4. lastSeen' \in [Proc -> [Iface -> ServerList]] /\ spent' \in [EnvEvent -> Nat]
    BY <1>0, <1>2, SeenTyped, FindsTyped DEF InterfaceOK, TypeOK
  <2>5. QED
    BY <1>2, <2>1, <2>2, <2>3, <2>4, TypedByLocals
       DEF TypeOK, InterfaceOK, Judge, system
<1>3. CASE InterfaceDrifted(p)
  <2>0. PICK missing \in BOOLEAN :
           /\ FindsMissing(pass[p].iface, missing)
           /\ ~DnsOK(p) \/ missing
           /\ Set(p, [pass[p] EXCEPT
                        !.fam = "v4", !.idx = 1, !.ok = TRUE,
                        !.at = IF Warns(p) THEN "next"
                               ELSE IF missing THEN "flag" ELSE "apply"])
    BY <1>3 DEF InterfaceDrifted
  <2> DEFINE stage == IF Warns(p) THEN "next" ELSE IF missing THEN "flag" ELSE "apply"
             l == [pass[p] EXCEPT !.fam = "v4", !.idx = 1, !.ok = TRUE,
                                  !.at = stage]
             sig == Signature(pass[p].read["v4"], pass[p].read["v6"])
  <2>1. Set(p, l) /\ spent' \in [EnvEvent -> Nat]
    BY <2>0, FindsTyped DEF TypeOK
  <2>2. stage \in {"next", "flag", "apply"}
    OBVIOUS
  <2> HIDE DEF stage
  <2>3. /\ l \in Locals /\ l.at \in {"next", "flag", "apply"}
        /\ l.idx = 1 /\ l.iface = pass[p].iface /\ l.fam = "v4"
    BY <1>1, <2>2 DEF Locals, Stage, Family
  <2> HIDE DEF l
  <2>4. InLoops(l)
    BY <1>0, <1>1, <2>3 DEF InLoops
  <2>5. sig \in ServerList
    <3>1. pass[p].read["v4"] \in Seq(Nat) /\ pass[p].read["v6"] \in Seq(Nat)
      BY <1>1 DEF Locals, Family, ServerList
    <3>2. QED
      BY <3>1, ConcatProperties DEF Signature, ServerList
  <2> HIDE DEF sig
  <2>6. /\ lastSeen' \in [Proc -> [Iface -> ServerList]]
        /\ lastLog' \in [Proc -> [Iface -> ServerList]]
    <3>1. CASE UNCHANGED <<lastSeen, lastLog>>
      BY <3>1 DEF TypeOK
    <3>2. CASE /\ SetSeen(p, sig)
               /\ lastLog' = [lastLog EXCEPT ![p][pass[p].iface] = sig]
      BY <2>5, <3>2, SeenTyped DEF TypeOK
    <3>3. QED
      BY <1>3, <3>1, <3>2 DEF InterfaceDrifted, LogDrift, sig
  <2>7. QED
    BY <1>3, <2>1, <2>3, <2>4, <2>6, TypedByLocals
       DEF TypeOK, InterfaceDrifted, Judge, system
<1>4. QED
  BY <1>2, <1>3

\* A flag is written: WriteFlag keeps the types.
LEMMA FlagTyped ==
  ASSUME TypeOK, NEW p \in Proc, WriteFlag(p) PROVE TypeOK'
<1>0. Len(Servers) \in Nat \ {0}
  BY ConfiguredServers
<1>1. /\ pass[p] \in Locals /\ pass[p].iface \in Iface /\ pass[p].at = "flag"
      /\ pass[p].idx \in 1..Len(Servers) /\ pass[p].fam = "v4"
  BY DEF TypeOK, InLoops, WriteFlag, At
<1> DEFINE next == [pass[p] EXCEPT !.idx = @ + 1]
           done == [pass[p] EXCEPT !.idx = 1, !.at = "apply"]
           l == IF pass[p].idx < Len(Servers) THEN next ELSE done
<1>2. Set(p, l)
  BY DEF WriteFlag
<1>3. pass[p].idx + 1 \in Nat
  BY <1>0, <1>1
<1>4. ASSUME pass[p].idx < Len(Servers) PROVE l \in Locals /\ InLoops(l)
  <2>1. next \in Locals
    BY <1>1, <1>3 DEF Locals
  <2>2. /\ next.idx = pass[p].idx + 1 /\ next.at = "flag"
        /\ next.iface = pass[p].iface /\ next.fam = "v4"
    BY <1>1, <1>3 DEF Locals
  <2>3. l = next
    BY <1>4
  <2> HIDE DEF next, l
  <2>4. l \in Locals /\ InLoops(l)
    BY <1>0, <1>1, <1>4, <2>1, <2>2, <2>3 DEF InLoops
  <2>5. QED
    BY <2>4
<1>5. ASSUME ~(pass[p].idx < Len(Servers)) PROVE l \in Locals /\ InLoops(l)
  <2>1. done \in Locals
    BY <1>1 DEF Locals, Stage
  <2>2. done.idx = 1 /\ done.at = "apply" /\ done.iface = pass[p].iface
    BY <1>1 DEF Locals
  <2>3. l = done
    BY <1>5
  <2> HIDE DEF done, l
  <2>4. l \in Locals /\ InLoops(l)
    BY <1>1, <2>1, <2>2, <2>3 DEF InLoops
  <2>5. QED
    BY <2>4
<1>6. l \in Locals /\ InLoops(l)
  BY <1>4, <1>5
<1> HIDE DEF l
<1>7. PICK ok \in BOOLEAN : /\ Outcome(ok)
                            /\ doh' = IF ok THEN [doh EXCEPT ![pass[p].iface] =
                                                     @ \union {Servers[pass[p].idx]}]
                                      ELSE doh
  BY DEF WriteFlag
<1>8. doh' \in [Iface -> SUBSET ToSet(Servers)] /\ spent' \in [EnvEvent -> Nat]
  BY <1>1, <1>7, OutcomeTyped, ServerInSet DEF TypeOK
<1>9. QED
  BY <1>2, <1>6, <1>8, TypedByLocals DEF TypeOK, WriteFlag

\* A family of an interface is done: the locals and what is remembered.
LEMMA FamilyTyped ==
  ASSUME TypeOK, NEW p \in Proc, At(p, "apply"), NEW ok \in BOOLEAN,
         FamilyDone(p, ok)
  PROVE  /\ lastSeen' \in [Proc -> [Iface -> ServerList]]
         /\ \E l \in Locals : Set(p, l) /\ InLoops(l)
<1>1. /\ pass[p] \in Locals /\ pass[p].iface \in Iface /\ pass[p].at = "apply"
  BY DEF TypeOK, InLoops, At
<1>2. CASE pass[p].fam = "v4"
  <2> DEFINE l == [pass[p] EXCEPT !.fam = "v6", !.idx = 1, !.ok = @ /\ ok]
  <2>1. l \in Locals /\ l.at = "apply" /\ l.idx = 1 /\ l.iface = pass[p].iface
    BY <1>1 DEF Locals, Family
  <2>2. Set(p, l) /\ UNCHANGED lastSeen
    BY <1>2 DEF FamilyDone
  <2> HIDE DEF l
  <2>3. InLoops(l)
    BY <1>1, <2>1 DEF InLoops
  <2>4. QED
    BY <2>1, <2>2, <2>3 DEF TypeOK
<1>3. CASE pass[p].fam # "v4"
  <2> DEFINE l == [pass[p] EXCEPT !.at = "next"]
  <2>1. l \in Locals /\ l.at = "next"
    BY <1>1 DEF Locals, Stage
  <2>2. Set(p, l) /\ (SetSeen(p, NothingSeen) \/ UNCHANGED lastSeen)
    BY <1>3 DEF FamilyDone
  <2> HIDE DEF l
  <2>3. InLoops(l)
    BY <2>1 DEF InLoops
  <2>4. NothingSeen \in ServerList
    BY EmptySeq DEF NothingSeen, ServerList
  <2>5. lastSeen' \in [Proc -> [Iface -> ServerList]]
    BY <2>2, <2>4, SeenTyped DEF TypeOK
  <2>6. QED
    BY <2>1, <2>2, <2>3, <2>5
<1>4. QED
  BY <1>2, <1>3

\* A server is set or added, or is not: both keep the types.
LEMMA ApplyTyped ==
  ASSUME TypeOK, NEW p \in Proc, ApplyServer(p) \/ ApplyFails(p) PROVE TypeOK'
<1> DEFINE i == pass[p].iface
           f == pass[p].fam
<1>1. /\ pass[p] \in Locals /\ i \in Iface /\ f \in Family /\ At(p, "apply")
      /\ pass[p].idx \in Nat
      /\ pass[p].idx \in 1..Len(Desired(f)) \/ pass[p].idx = 1
  BY DEF TypeOK, InLoops, ApplyServer, ApplyFails, At, Locals
<1>2. CASE ApplyServer(p)
  <2>1. /\ dns' = [dns EXCEPT ![i][f] = AfterCommand(dns[i][f], f, pass[p].idx)]
        /\ loaded' \in [Iface -> SUBSET ToSet(Servers)]
    BY <1>1, <1>2, LoadTyped DEF ApplyServer
  <2>2. dns[i][f] \in ServerList
    BY <1>1 DEF TypeOK
  <2>3. AfterCommand(dns[i][f], f, pass[p].idx) \in ServerList
    BY <1>1, <2>2, CommandTyped
  <2>4. dns' \in [Iface -> [Family -> ServerList]]
    BY <1>1, <2>1, <2>3 DEF TypeOK
  <2>5. CASE pass[p].idx < Len(Desired(f))
    <3> DEFINE l == [pass[p] EXCEPT !.idx = @ + 1]
    <3>1. Len(Desired(f)) \in Nat
      BY <1>1, ConfiguredServers, LenProperties DEF ServerList
    <3>2. l \in Locals /\ l.at = "apply" /\ l.iface = i /\ l.fam = f
      BY <1>1 DEF Locals, At
    <3>3. l.idx \in 1..Len(Desired(f))
      BY <1>1, <2>5, <3>1 DEF Locals
    <3>4. Set(p, l) /\ UNCHANGED lastSeen
      BY <1>2, <2>5 DEF ApplyServer
    <3> HIDE DEF l
    <3>5. InLoops(l)
      BY <1>1, <3>2, <3>3 DEF InLoops
    <3>6. QED
      BY <1>2, <2>1, <2>4, <3>2, <3>4, <3>5, TypedByLocals DEF TypeOK, ApplyServer
  <2>6. CASE ~(pass[p].idx < Len(Desired(f)))
    <3>1. FamilyDone(p, TRUE)
      BY <1>2, <2>6 DEF ApplyServer
    <3>2. PICK l \in Locals : Set(p, l) /\ InLoops(l)
      BY <1>1, <3>1, FamilyTyped
    <3>3. lastSeen' \in [Proc -> [Iface -> ServerList]]
      BY <1>1, <3>1, FamilyTyped
    <3>4. QED
      BY <1>2, <2>1, <2>4, <3>2, <3>3, TypedByLocals DEF TypeOK, ApplyServer
  <2>7. QED
    BY <2>5, <2>6
<1>3. CASE ApplyFails(p)
  <2>1. FamilyDone(p, FALSE)
    BY <1>3 DEF ApplyFails
  <2>2. PICK l \in Locals : Set(p, l) /\ InLoops(l)
    BY <1>1, <2>1, FamilyTyped
  <2>3. lastSeen' \in [Proc -> [Iface -> ServerList]]
    BY <1>1, <2>1, FamilyTyped
  <2>4. spent' \in [EnvEvent -> Nat]
    BY <1>3, SpendTyped DEF ApplyFails, TypeOK, EnvEvent
  <2>5. QED
    BY <1>3, <2>2, <2>3, <2>4, TypedByLocals DEF TypeOK, ApplyFails, system
<1>4. QED
  BY <1>2, <1>3

\* A process is killed: Crash keeps the types.
LEMMA CrashTyped == ASSUME TypeOK, NEW p \in Proc, Crash(p) PROVE TypeOK'
<1>1. Idle \in Locals /\ Set(p, Idle) /\ InLoops(Idle)
  BY IdleTyped DEF Crash, Set, InLoops, Idle
<1>2. spent' \in [EnvEvent -> Nat]
  BY SpendTyped DEF Crash, TypeOK, EnvEvent
<1>3. NothingSeen \in ServerList /\ Silent \in ServerList
  BY EmptySeq DEF NothingSeen, Silent, ServerList
<1>4. /\ lastSeen' \in [Proc -> [Iface -> ServerList]]
      /\ lastLog' \in [Proc -> [Iface -> ServerList]]
      /\ mode' \in [Proc -> {"off", "baseline", "guard", "warn"}]
  BY <1>3 DEF Crash, TypeOK
<1>5. QED
  BY <1>1, <1>2, <1>4, TypedByLocals DEF TypeOK, Crash, system

\* An outsider changes something: Tamper keeps the types.
LEMMA TamperTyped == ASSUME TypeOK, Tamper PROVE TypeOK'
<1>1. PICK i \in Iface :
          \/ \E f \in Family, list \in Lists :
                /\ dns' = [dns EXCEPT ![i][f] = list]
                /\ Load(i, f)
                /\ UNCHANGED <<up, doh>>
          \/ /\ doh' = [doh EXCEPT ![i] = {}]
             /\ loaded' = [loaded EXCEPT ![i] = {}]
             /\ UNCHANGED <<up, dns>>
          \/ /\ up' = IF i \in up THEN up \ {i} ELSE up \union {i}
             /\ UNCHANGED <<dns, doh, loaded>>
  BY DEF Tamper
<1> DEFINE SystemTyped == /\ up' \subseteq Iface
                          /\ dns' \in [Iface -> [Family -> ServerList]]
                          /\ doh' \in [Iface -> SUBSET ToSet(Servers)]
                          /\ loaded' \in [Iface -> SUBSET ToSet(Servers)]
<1>2. SystemTyped
  <2>1. ASSUME NEW f \in Family, NEW list \in Lists,
               dns' = [dns EXCEPT ![i][f] = list], Load(i, f), UNCHANGED <<up, doh>>
        PROVE  SystemTyped
    <3>1. list \in ServerList /\ loaded' \in [Iface -> SUBSET ToSet(Servers)]
      BY <2>1, ConfiguredServers, LoadTyped
    <3>2. QED
      BY <2>1, <3>1 DEF TypeOK
  <2>2. CASE /\ doh' = [doh EXCEPT ![i] = {}]
             /\ loaded' = [loaded EXCEPT ![i] = {}]
             /\ UNCHANGED <<up, dns>>
    BY <2>2 DEF TypeOK
  <2>3. CASE /\ up' = IF i \in up THEN up \ {i} ELSE up \union {i}
             /\ UNCHANGED <<dns, doh, loaded>>
    BY <2>3 DEF TypeOK
  <2>4. QED
    BY <1>1, <2>1, <2>2, <2>3
<1>3. spent' \in [EnvEvent -> Nat]
  BY SpendTyped DEF Tamper, TypeOK, EnvEvent
<1>4. QED
  BY <1>2, <1>3 DEF Tamper, TypeOK

\* Every step keeps the types.
LEMMA StepTyped == TypeOK /\ [Next]_vars => TypeOK'
<1> SUFFICES ASSUME TypeOK, [Next]_vars PROVE TypeOK'
  OBVIOUS
<1>1. CASE UNCHANGED vars
  BY <1>1 DEF TypeOK, vars, system
<1>2. ASSUME NEW p \in Proc, EnforceStep(p) PROVE TypeOK'
  BY <1>2, MappingsTyped, LoopTyped, ReadTyped, JudgeTyped, FlagTyped,
     ApplyTyped DEF EnforceStep
<1>3. QED
  BY <1>1, <1>2, BeginTyped, CrashTyped, TamperTyped DEF Next

\* Every reachable state is well typed, no loop of enforce runs past the
\* configured servers, and no command is given for an unknown interface.
THEOREM Typed == Spec => []TypeOK
  BY InitTyped, StepTyped, PTL DEF Spec

-----------------------------------------------------------------------------
(* The DoH mappings.                                                       *)

\* What process p is about to add: while it applies its baseline the server it
\* is at and all that follow, while it guards the one it has just deleted.
Covers(p, n) ==
    \/ mode[p] = "off"
    \/ mode[p] = "baseline" /\ pass[p].at = "list"
    \/ /\ mode[p] = "baseline" /\ pass[p].at \in {"delete", "add"}
       /\ \E k \in pass[p].idx..Len(Servers) : Servers[k] = n
    \/ pass[p].at = "add" /\ Servers[pass[p].idx] = n

\* The inductive invariant.
GapsCovered ==
    \A n \in ToSet(Servers) : n \in encryption \/ \E p \in Proc : Covers(p, n)

\* No command has failed so far.
NoFaults == spent["fault"] = 0

\* Events are counted, so this once broken stays so.
LEMMA FaultsCounted ==
  ASSUME TypeOK
  PROVE  /\ Spend("fault") => ~NoFaults'
         /\ \A e \in EnvEvent : Spend(e) /\ NoFaults' => NoFaults
  BY DEF TypeOK, Spend, NoFaults, EnvEvent

\* It is stronger than the property.
LEMMA CoveredGaps ==
  ASSUME TypeOK, NoFaults => GapsCovered PROVE MappingGapsCovered
<1>1. ASSUME NEW p \in Proc, NEW n, Covers(p, n) PROVE OwesMapping(p, n)
  <2>1. CASE pass[p].at = "add" /\ Servers[pass[p].idx] = n
    <3>1. pass[p].idx \in pass[p].idx..Len(Servers)
      BY <2>1, ConfiguredServers DEF TypeOK, InLoops
    <3>2. QED
      BY <2>1, <3>1 DEF OwesMapping, At
  <2>2. QED
    BY <1>1, <2>1 DEF Covers, OwesMapping, At
<1>2. QED
  BY <1>1 DEF NoFaults, GapsCovered, MappingGapsCovered

\* A step of p that leaves the mappings alone, and p covering what it did,
\* keeps the gaps covered.
LEMMA CoverKept ==
  ASSUME TypeOK, GapsCovered, NEW p \in Proc, UNCHANGED encryption,
         \A q \in Proc : q # p => mode'[q] = mode[q] /\ pass'[q] = pass[q],
         \A n \in ToSet(Servers) : Covers(p, n) => Covers(p, n)'
  PROVE  GapsCovered'
<1> SUFFICES ASSUME NEW n \in ToSet(Servers)
             PROVE  n \in encryption' \/ \E q \in Proc : Covers(q, n)'
  BY DEF GapsCovered
<1>1. CASE n \in encryption
  BY <1>1
<1>2. ASSUME NEW q \in Proc, Covers(q, n) PROVE Covers(q, n)'
  BY <1>2 DEF Covers
<1>3. QED
  BY <1>1, <1>2 DEF GapsCovered

\* A process that is down runs no check.
OffIdle == \A p \in Proc : mode[p] = "off" => pass[p].at = "idle"

\* The actions that only move process p.
Moves(p) ==
    \/ Start(p) \/ Tick(p) \/ ListInterfaces(p) \/ MappingsDone(p)
    \/ NextInterface(p) \/ InterfacesDone(p) \/ ReadServers(p)
    \/ InterfaceOK(p) \/ InterfaceDrifted(p)
    \/ WriteFlag(p) \/ ApplyServer(p) \/ ApplyFails(p) \/ Crash(p)

\* They leave the mappings and the other processes alone.
LEMMA MovesAlone ==
  ASSUME TypeOK, NEW p \in Proc, Moves(p)
  PROVE  /\ UNCHANGED encryption
         /\ \A q \in Proc : q # p => mode'[q] = mode[q] /\ pass'[q] = pass[q]
<1>1. CASE Start(p) \/ Tick(p) \/ Crash(p)
  BY <1>1 DEF Start, Tick, Crash, TypeOK, system
<1>2. CASE ListInterfaces(p) \/ MappingsDone(p) \/ InterfacesDone(p)
  BY <1>2 DEF ListInterfaces, MappingsDone, InterfacesDone, Return, Set, TypeOK,
     system
<1>3. CASE NextInterface(p) \/ ReadServers(p)
  BY <1>3 DEF NextInterface, ReadServers, Set, TypeOK, system
<1>4. CASE InterfaceOK(p) \/ InterfaceDrifted(p)
  BY <1>4 DEF InterfaceOK, InterfaceDrifted, Judge, Set, TypeOK, system
<1>5. CASE WriteFlag(p) \/ ApplyServer(p) \/ ApplyFails(p)
  BY <1>5 DEF WriteFlag, ApplyServer, ApplyFails, FamilyDone, Set, TypeOK, system
<1>6. QED
  BY <1>1, <1>2, <1>3, <1>4, <1>5 DEF Moves

\* They keep the gaps covered: a process starts at the first server, owes none
\* when it is past the last, and when it dies its successor owes them all.
LEMMA MovesCover ==
  ASSUME TypeOK, OffIdle, GapsCovered, NoFaults',
         NEW p \in Proc, Moves(p)
  PROVE  GapsCovered'
<1>1. pass[p] \in Locals
  BY DEF TypeOK
<1>2. CASE Start(p)
  <2>1. mode'[p] = "baseline" /\ pass'[p].at = "list"
    BY <1>1, <1>2 DEF Start, TypeOK, Locals
  <2>2. \A n \in ToSet(Servers) : Covers(p, n)'
    BY <2>1 DEF Covers
  <2>3. QED
    BY <2>2, MovesAlone, CoverKept
<1>3. CASE Crash(p)
  <2>1. mode'[p] = "off"
    BY <1>3 DEF Crash, TypeOK
  <2>2. \A n \in ToSet(Servers) : Covers(p, n)'
    BY <2>1 DEF Covers
  <2>3. QED
    BY <2>2, MovesAlone, CoverKept
<1>4. CASE ListInterfaces(p)
  <2>1. ~Spend("fault")
    BY FaultsCounted
  <2>2. Set(p, [Idle EXCEPT !.at = "delete", !.todo = up]) /\ mode' = mode
    BY <1>4, <2>1 DEF ListInterfaces
  <2>3. pass'[p].at = "delete" /\ pass'[p].idx = 1
    BY <2>2 DEF Set, TypeOK, Idle
  <2>4. ASSUME NEW n \in ToSet(Servers), Covers(p, n) PROVE Covers(p, n)'
    <3>1. mode[p] = "baseline"
      BY <1>4, <2>4 DEF Covers, ListInterfaces, At, OffIdle
    <3>2. PICK k \in 1..Len(Servers) : Servers[k] = n
      BY <2>4, ConfiguredServers, LenProperties DEF ToSet, ServerList
    <3>3. QED
      BY <2>2, <2>3, <3>1, <3>2 DEF Covers
  <2>5. QED
    BY <2>4, MovesAlone, CoverKept
<1>5. CASE MappingsDone(p)
  <2>1. ASSUME NEW n, Covers(p, n) PROVE FALSE
    <3>1. pass[p].at = "delete" /\ mode[p] # "off" /\ pass[p].idx > Len(Servers)
      BY <1>5 DEF MappingsDone, At, OffIdle
    <3>2. PICK k \in pass[p].idx..Len(Servers) : TRUE
      BY <2>1, <3>1 DEF Covers
    <3>3. pass[p].idx \in Nat /\ Len(Servers) \in Nat
      BY <1>1, ConfiguredServers DEF Locals
    <3>4. QED
      BY <3>1, <3>2, <3>3
  <2>2. QED
    BY <2>1, MovesAlone, CoverKept
<1>6. CASE Tick(p) \/ pass[p].at \in {"next", "read", "judge", "flag", "apply"}
  <2>1. pass[p].at \notin {"list", "delete", "add"} /\ mode[p] # "off"
    BY <1>6 DEF Tick, Guarding, At, OffIdle
  <2>2. \A n : ~Covers(p, n)
    BY <2>1 DEF Covers
  <2>3. QED
    BY <2>2, MovesAlone, CoverKept
<1>7. QED
  BY <1>2, <1>3, <1>4, <1>5, <1>6 DEF Moves, NextInterface, InterfacesDone,
     ReadServers, InterfaceOK, InterfaceDrifted, Judge, WriteFlag, ApplyServer,
     ApplyFails, At

\* They keep a process that is down from running a check.
LEMMA MovesOffIdle ==
  ASSUME TypeOK, OffIdle, NEW p \in Proc, Moves(p) PROVE OffIdle'
<1> SUFFICES (mode'[p] = "off" => pass'[p].at = "idle")
  BY MovesAlone DEF OffIdle
<1>1. CASE Crash(p)
  BY <1>1 DEF Crash, TypeOK, Idle
<1>2. CASE Start(p) \/ Tick(p)
  BY <1>2 DEF Start, Tick, Guarding, TypeOK
<1>3. CASE Return(p)
  BY <1>3, BuildAssumption DEF Return, Installed, Guarding, TypeOK
<1>4. CASE mode' = mode /\ pass[p].at # "idle"
  BY <1>4 DEF OffIdle
<1>5. QED
  BY <1>1, <1>2, <1>3, <1>4 DEF Moves, ListInterfaces, MappingsDone,
     NextInterface, InterfacesDone, ReadServers, InterfaceOK, InterfaceDrifted,
     Judge, WriteFlag, ApplyServer, ApplyFails, At

\* A mapping is deleted: the process covers the gap it makes.
LEMMA DeleteCovers ==
  ASSUME TypeOK, OffIdle, GapsCovered, NEW p \in Proc, DeleteMapping(p)
  PROVE  GapsCovered'
<1>1. /\ pass[p] \in Locals /\ pass[p].at = "delete" /\ mode[p] # "off"
      /\ pass[p].idx \in 1..Len(Servers) /\ mode' = mode
  BY ConfiguredServers DEF TypeOK, DeleteMapping, At, OffIdle, InLoops
<1>2. /\ pass'[p].at = "add" /\ pass'[p].idx = pass[p].idx
      /\ \A q \in Proc : q # p => pass'[q] = pass[q]
  BY <1>1 DEF DeleteMapping, Set, TypeOK, Locals
<1>3. ASSUME NEW n \in ToSet(Servers)
      PROVE  n \in encryption' \/ \E q \in Proc : Covers(q, n)'
  <2>1. CASE n = Servers[pass[p].idx]
    BY <1>2, <2>1 DEF Covers
  <2>2. CASE n \in encryption /\ n # Servers[pass[p].idx]
    BY <2>2 DEF DeleteMapping
  <2>3. ASSUME NEW q \in Proc, Covers(q, n) PROVE Covers(q, n)'
    BY <1>1, <1>2, <2>3 DEF Covers
  <2>4. QED
    BY <2>1, <2>2, <2>3 DEF GapsCovered
<1>4. QED
  BY <1>3 DEF GapsCovered

\* A mapping is added: of the gaps the process covers, this one is closed and
\* the later ones are still ahead.
LEMMA AddCovers ==
  ASSUME TypeOK, OffIdle, GapsCovered, NoFaults',
         NEW p \in Proc, AddMapping(p)
  PROVE  GapsCovered'
<1> DEFINE i == pass[p].idx
<1>1. /\ pass[p] \in Locals /\ pass[p].at = "add" /\ mode[p] # "off"
      /\ i \in 1..Len(Servers) /\ mode' = mode /\ Len(Servers) \in Nat
  BY ConfiguredServers DEF TypeOK, AddMapping, At, OffIdle, InLoops
<1>2. /\ pass'[p].at = "delete" /\ pass'[p].idx = i + 1
      /\ \A q \in Proc : q # p => pass'[q] = pass[q]
  BY <1>1 DEF AddMapping, Set, TypeOK, Locals
<1>3. encryption' = encryption \union {Servers[i]}
  <2>1. PICK ok \in BOOLEAN :
           /\ Outcome(ok)
           /\ encryption' = IF ok THEN encryption \union {Servers[i]} ELSE encryption
    BY DEF AddMapping
  <2>2. ok
    BY <2>1, FaultsCounted DEF Outcome
  <2>3. QED
    BY <2>1, <2>2
<1>4. ASSUME NEW n \in ToSet(Servers)
      PROVE  n \in encryption' \/ \E q \in Proc : Covers(q, n)'
  <2>1. CASE n \in encryption \/ n = Servers[i]
    BY <1>3, <2>1
  <2>2. ASSUME NEW q \in Proc, q # p, Covers(q, n) PROVE Covers(q, n)'
    BY <1>1, <1>2, <2>2 DEF Covers
  <2>3. ASSUME Covers(p, n), n # Servers[i] PROVE Covers(p, n)'
    <3>1. mode[p] = "baseline" /\ \E k \in i..Len(Servers) : Servers[k] = n
      BY <1>1, <2>3 DEF Covers
    <3>2. PICK k \in i + 1..Len(Servers) : Servers[k] = n
      BY <1>1, <2>3, <3>1
    <3>3. QED
      BY <1>1, <1>2, <3>1, <3>2 DEF Covers
  <2>4. QED
    BY <2>1, <2>2, <2>3 DEF GapsCovered
<1>5. QED
  BY <1>4 DEF GapsCovered

\* Deleting and adding mappings keep a process that is down from running a check.
LEMMA MappingOffIdle ==
  ASSUME TypeOK, OffIdle, NEW p \in Proc, DeleteMapping(p) \/ AddMapping(p)
  PROVE  OffIdle'
  BY DEF DeleteMapping, AddMapping, At, Set, TypeOK, OffIdle

\* The invariant holds initially and is kept by every step.
Covered == OffIdle /\ (NoFaults => GapsCovered)

LEMMA InitCovered == ASSUME Proc # {}, Init PROVE Covered
  BY DEF Init, Covered, OffIdle, GapsCovered, Covers, Idle

\* A step without a fault follows states without one.
LEMMA FaultsRemembered ==
  ASSUME TypeOK, [Next]_vars, NoFaults' PROVE NoFaults
<1>1. ASSUME NEW e \in EnvEvent, Spend(e) PROVE NoFaults
  BY <1>1, FaultsCounted
<1>2. ASSUME NEW ok \in BOOLEAN, Outcome(ok) PROVE NoFaults
  BY <1>1, <1>2 DEF Outcome, EnvEvent, NoFaults
<1>3. CASE UNCHANGED spent
  BY <1>3 DEF NoFaults
<1>4. ASSUME NEW p \in Proc, EnforceStep(p) PROVE NoFaults
  BY <1>1, <1>2, <1>3, <1>4 DEF EnforceStep, ListInterfaces, DeleteMapping,
     AddMapping, MappingsDone, NextInterface, InterfacesDone, ReadServers,
     InterfaceOK, InterfaceDrifted, Judge, FindsMissing, WriteFlag, ApplyServer,
     ApplyFails, EnvEvent
<1>5. QED
  BY <1>1, <1>3, <1>4 DEF Next, Start, Tick, Crash, Tamper, vars, EnvEvent

LEMMA StepCovered == TypeOK /\ Covered /\ [Next]_vars => Covered'
<1> SUFFICES ASSUME TypeOK, Covered, [Next]_vars PROVE Covered'
  OBVIOUS
<1>1. NoFaults' => GapsCovered
  BY FaultsRemembered DEF Covered
<1>2. CASE UNCHANGED vars
  BY <1>1, <1>2 DEF vars, system, Covered, OffIdle, GapsCovered, Covers
<1>3. CASE Tamper
  BY <1>1, <1>3 DEF Tamper, Covered, OffIdle, GapsCovered, Covers
<1>4. ASSUME NEW p \in Proc, Moves(p) PROVE Covered'
  BY <1>1, <1>4, MovesCover, MovesOffIdle DEF Covered
<1>5. ASSUME NEW p \in Proc, DeleteMapping(p) \/ AddMapping(p) PROVE Covered'
  BY <1>1, <1>5, MappingOffIdle, DeleteCovers, AddCovers DEF Covered
<1>6. QED
  BY <1>2, <1>3, <1>4, <1>5 DEF Next, EnforceStep, Moves

\* As long as no command fails, a server without its DoH mapping is always one
\* that some process has yet to add, however the processes interleave and
\* whenever one is killed (ensureDoHEncryption).
THEOREM MappingsSurvive ==
  ASSUME Proc # {}
  PROVE  Spec => []MappingGapsCovered
<1>1. Init => Covered
  BY InitCovered
<1>2. TypeOK /\ Covered => MappingGapsCovered
  BY CoveredGaps DEF Covered
<1>3. QED
  BY <1>1, <1>2, Typed, StepCovered, PTL DEF Spec

-----------------------------------------------------------------------------
(* The first server.                                                       *)

\* What is put behind a list leaves its first server where it was.
LEMMA JoinKeepsFirst ==
  ASSUME NEW s \in Seq(Nat), NEW t \in Seq(Nat), Len(s) >= 1
  PROVE  /\ s \o t \in Seq(Nat) /\ Len(s \o t) = Len(s) + Len(t)
         /\ (s \o t)[1] = s[1]
<1>1. /\ s \o t \in Seq(Nat) /\ Len(s \o t) = Len(s) + Len(t)
      /\ \A i \in 1..(Len(s) + Len(t)) :
             (s \o t)[i] = IF i <= Len(s) THEN s[i] ELSE t[i - Len(s)]
  BY ConcatProperties
<1>2. Len(s) \in Nat /\ Len(t) \in Nat
  BY LenProperties
<1>3. 1 \in 1..(Len(s) + Len(t))
  BY <1>2
<1>4. QED
  BY <1>1, <1>2, <1>3

\* "set" makes the first server the only one, and "add" puts none before it,
\* whatever the list has become in the meantime.
LEMMA CommandKeepsFirst ==
  ASSUME NEW list \in ServerList, NEW f \in Family, NEW i \in 1..Len(Desired(f)),
         Desired(f) # <<>>, list # <<>>, list[1] = Desired(f)[1]
  PROVE  /\ AfterCommand(list, f, i) # <<>>
         /\ AfterCommand(list, f, i)[1] = Desired(f)[1]
<1> DEFINE d == Desired(f)
           j == IF i <= Len(list) THEN i ELSE Len(list) + 1
<1>1. d \in ServerList /\ Len(d) \in Nat /\ Len(list) \in Nat /\ i \in Nat
  BY ConfiguredServers, LenProperties DEF ServerList
<1>2. Len(list) >= 1 /\ Len(d) >= 1
  BY <1>1, EmptySeq DEF ServerList
<1>3. CASE i = 1
  <2>1. \A k \in 1..1 : d[k] \in Nat
    BY <1>1, <1>2, ElementOfSeq DEF ServerList
  <2>2. SubSeq(d, 1, 1) \in Seq(Nat) /\ Len(SubSeq(d, 1, 1)) = 1 /\ SubSeq(d, 1, 1)[1] = d[1]
    BY <2>1, SubSeqProperties
  <2>3. SubSeq(d, 1, 1) # <<>>
    BY <2>2, EmptySeq
  <2>4. QED
    BY <1>3, <2>2, <2>3 DEF AfterCommand
<1>4. CASE i # 1
  <2> DEFINE front == SubSeq(list, 1, j - 1)
             back == SubSeq(list, j, Len(list))
  <2>1. j \in Nat /\ j >= 2 /\ j <= Len(list) + 1
    BY <1>1, <1>2, <1>4
  <2>2. \A k \in 1..(j - 1) : list[k] \in Nat
    <3> SUFFICES ASSUME NEW k \in 1..(j - 1) PROVE list[k] \in Nat
      OBVIOUS
    <3>1. k \in 1..Len(list)
      <4> HIDE DEF j
      <4> QED
        BY <1>1, <2>1
    <3>2. QED
      BY <3>1, ElementOfSeq DEF ServerList
  <2>3. front \in Seq(Nat) /\ Len(front) = j - 1 /\ front[1] = list[1]
    BY <2>1, <2>2, SubSeqProperties
  <2>4. back \in Seq(Nat)
    BY <1>1, <2>1, ElementOfSeq, SubSeqProperties DEF ServerList
  <2>5. <<d[i]>> \in Seq(Nat)
    BY <1>1, ElementOfSeq DEF ServerList
  <2> DEFINE start == front \o <<d[i]>>
  <2>6. Len(<<d[i]>>) = 1
    OBVIOUS
  <2>7. InsertAt(list, j, d[i]) = start \o back
    BY DEF InsertAt
  <2>8. Len(front) >= 1
    BY <2>1, <2>3
  <2>9. start \in Seq(Nat) /\ Len(start) = Len(front) + 1 /\ start[1] = front[1]
    <3> HIDE DEF front
    <3> QED  BY <2>3, <2>5, <2>6, <2>8, JoinKeepsFirst
  <2>10. Len(start) >= 1
    BY <2>1, <2>3, <2>9
  <2>11. /\ start \o back \in Seq(Nat) /\ Len(start \o back) = Len(start) + Len(back)
         /\ (start \o back)[1] = start[1]
    <3> HIDE DEF start, back
    <3> QED  BY <2>4, <2>9, <2>10, JoinKeepsFirst
  <2>12. start \o back # <<>>
    <3> HIDE DEF start, back
    <3> QED  BY <2>4, <2>10, <2>11, LenProperties, EmptySeq
  <2>13. QED
    <3> HIDE DEF start, back, front
    <3> QED  BY <1>4, <2>3, <2>7, <2>9, <2>11, <2>12 DEF AfterCommand
<1>5. QED
  BY <1>3, <1>4

\* No command of either process moves the first server from its place
\* (applyInterfaceDNS), for all lists and however the two interleave.
THEOREM FirstStaysFirst == Spec => FirstServerKept
<1> DEFINE Kept ==
      \A p \in Proc, i \in Iface, f \in Family :
          EnforceStep(p) /\ dns[i][f] # <<>> /\ Desired(f) # <<>>
          /\ dns[i][f][1] = Desired(f)[1]
              => dns'[i][f] # <<>> /\ dns'[i][f][1] = Desired(f)[1]
<1>1. TypeOK /\ [Next]_vars => [Kept]_vars
  <2> SUFFICES ASSUME TypeOK, NEW p \in Proc, NEW i \in Iface, NEW f \in Family,
                      EnforceStep(p), dns[i][f] # <<>>, Desired(f) # <<>>,
                      dns[i][f][1] = Desired(f)[1]
               PROVE  dns'[i][f] # <<>> /\ dns'[i][f][1] = Desired(f)[1]
    OBVIOUS
  <2>1. CASE ApplyServer(p)
    <3>1. /\ pass[p].iface \in Iface /\ pass[p].fam \in Family
          /\ pass[p].idx \in 1..Len(Desired(pass[p].fam)) \/ pass[p].idx = 1
      BY <2>1 DEF ApplyServer, At, TypeOK, InLoops, Locals
    <3>2. CASE i = pass[p].iface /\ f = pass[p].fam
      <4>1. dns'[i][f] = AfterCommand(dns[i][f], f, pass[p].idx)
        BY <2>1, <3>1, <3>2 DEF ApplyServer, TypeOK
      <4>2. dns[i][f] \in ServerList
        BY DEF TypeOK
      <4>3. pass[p].idx \in 1..Len(Desired(f))
        <5>1. Desired(f) \in ServerList /\ Len(Desired(f)) \in Nat
          BY ConfiguredServers, LenProperties DEF ServerList
        <5>2. Len(Desired(f)) # 0
          BY <5>1, EmptySeq DEF ServerList
        <5>3. QED
          BY <3>1, <3>2, <5>1, <5>2
      <4>4. QED
        BY <4>1, <4>2, <4>3, CommandKeepsFirst
    <3>3. CASE ~(i = pass[p].iface /\ f = pass[p].fam)
      <4>1. dns'[i][f] = dns[i][f]
        BY <2>1, <3>1, <3>3 DEF ApplyServer, TypeOK
      <4>2. QED
        BY <4>1
    <3>4. QED
      BY <3>2, <3>3
  <2>2. CASE ~ApplyServer(p)
    <3>1. UNCHANGED dns
      BY <2>2 DEF EnforceStep, ListInterfaces, DeleteMapping, AddMapping, MappingsDone,
         NextInterface, InterfacesDone, ReadServers, InterfaceOK, InterfaceDrifted, Judge,
         WriteFlag, ApplyFails, system
    <3>2. QED
      BY <3>1
  <2>3. QED
    BY <2>1, <2>2
<1>2. QED
  BY <1>1, Typed, PTL DEF Spec, FirstServerKept, Kept

-----------------------------------------------------------------------------
(* The flags.                                                              *)

\* Every configured server is one of a family.
LEMMA ServerFamily == ToSet(Servers) = ToSet(DesiredV4) \union ToSet(DesiredV6)
<1>1. DesiredV4 \in ServerList /\ DesiredV6 \in ServerList
  BY ServersAssumption, SeqMonotonic DEF ServerList
<1>2. /\ Len(Servers) = Len(DesiredV4) + Len(DesiredV6)
      /\ \A k \in 1..(Len(DesiredV4) + Len(DesiredV6)) :
            Servers[k] = IF k <= Len(DesiredV4) THEN DesiredV4[k]
                         ELSE DesiredV6[k - Len(DesiredV4)]
  BY <1>1, ConcatProperties DEF Servers, ServerList
<1>3. Len(DesiredV4) \in Nat /\ Len(DesiredV6) \in Nat
  BY <1>1, LenProperties DEF ServerList
<1>4. ASSUME NEW k \in 1..Len(DesiredV4) PROVE DesiredV4[k] \in ToSet(Servers)
  <2>1. k \in 1..Len(Servers) /\ Servers[k] = DesiredV4[k]
    BY <1>2, <1>3
  <2>2. QED
    BY <2>1, ServerInSet
<1>5. ASSUME NEW k \in 1..Len(DesiredV6) PROVE DesiredV6[k] \in ToSet(Servers)
  <2>1. /\ k + Len(DesiredV4) \in 1..Len(Servers)
        /\ Servers[k + Len(DesiredV4)] = DesiredV6[k]
    BY <1>2, <1>3
  <2>2. QED
    BY <2>1, ServerInSet
<1>6. ASSUME NEW k \in 1..Len(Servers)
      PROVE  Servers[k] \in ToSet(DesiredV4) \union ToSet(DesiredV6)
  BY <1>2, <1>3 DEF ToSet
<1>7. /\ \A n \in ToSet(Servers) : \E k \in 1..Len(Servers) : Servers[k] = n
      /\ \A n \in ToSet(DesiredV4) : \E k \in 1..Len(DesiredV4) : DesiredV4[k] = n
      /\ \A n \in ToSet(DesiredV6) : \E k \in 1..Len(DesiredV6) : DesiredV6[k] = n
  BY <1>1, ConfiguredServers, LenProperties DEF ToSet, ServerList
<1>8. QED
  BY <1>4, <1>5, <1>6, <1>7

\* A process that is off is at nothing.
LEMMA AlwaysOffIdle == Spec => []OffIdle
<1>1. Init => OffIdle
  BY DEF Init, OffIdle, Idle
<1>2. TypeOK /\ OffIdle /\ [Next]_vars => OffIdle'
  <2> SUFFICES ASSUME TypeOK, OffIdle, [Next]_vars PROVE OffIdle'
    OBVIOUS
  <2>1. CASE UNCHANGED vars \/ Tamper
    BY <2>1 DEF vars, Tamper, OffIdle
  <2>2. ASSUME NEW p \in Proc, Moves(p) PROVE OffIdle'
    BY <2>2, MovesOffIdle
  <2>3. ASSUME NEW p \in Proc, DeleteMapping(p) \/ AddMapping(p) PROVE OffIdle'
    BY <2>3, MappingOffIdle
  <2>4. QED
    BY <2>1, <2>2, <2>3 DEF Next, EnforceStep, Moves
<1>3. QED
  BY <1>1, <1>2, Typed, PTL DEF Spec

\* A flag that is written, or not in use any more, is one that a process will see
\* to, or is gone.
LEMMA FlagsChange ==
  ASSUME TypeOK, [Next]_vars, NEW i \in Iface, NEW n \in ToSet(Servers),
         n \notin doh[i] \ loaded[i], n \in doh'[i] \ loaded'[i]
  PROVE  \E p \in Proc : WillSet(p, i, n)'
<1>1. ASSUME NEW j \in Iface, NEW f \in Family, Load(j, f), doh' = doh PROVE FALSE
  BY <1>1 DEF Load, TypeOK
<1>2. ~UNCHANGED <<doh, loaded>>
  OBVIOUS
<1>3. ~Tamper
  BY <1>1, <1>2 DEF Tamper, TypeOK
<1>4. ASSUME NEW p \in Proc, ApplyServer(p) PROVE FALSE
  BY <1>1, <1>4 DEF ApplyServer, At, TypeOK, InLoops, Locals
<1>5. PICK p \in Proc : WriteFlag(p)
  BY <1>2, <1>3, <1>4 DEF Next, vars, Start, Tick, Crash, EnforceStep, ListInterfaces,
     DeleteMapping, AddMapping, MappingsDone, NextInterface, InterfacesDone, ReadServers,
     InterfaceOK, InterfaceDrifted, Judge, ApplyFails, system
<1>6. /\ pass[p] \in Locals /\ pass[p].at = "flag" /\ pass[p].iface \in Iface /\ pass[p].fam = "v4"
      /\ loaded' = loaded
  BY <1>5 DEF WriteFlag, At, TypeOK, InLoops
<1>7. pass[p].iface = i
  BY <1>5, <1>6 DEF WriteFlag, TypeOK
<1>8. /\ pass'[p].iface = i /\ pass'[p].fam = "v4"
      /\ pass'[p].at = "flag" \/ (pass'[p].at = "apply" /\ pass'[p].idx = 1)
  BY <1>5, <1>6, <1>7 DEF WriteFlag, Set, TypeOK, Locals
<1>9. n \in ToSet(DesiredV4) \union ToSet(DesiredV6)
  BY ServerFamily
<1>10. QED
  BY <1>8, <1>9 DEF WillSet, At, Desired

\* A process that will set the servers does, is killed, or its command fails.
LEMMA WillSetKept ==
  ASSUME TypeOK, OffIdle, [Next]_vars, NEW i \in Iface, NEW n \in ToSet(Servers), NEW p \in Proc,
         WillSet(p, i, n), mode'[p] # "off", ~ApplyFails(p), n \in doh'[i] \ loaded'[i]
  PROVE  \E q \in Proc : WillSet(q, i, n)'
<1>1. /\ pass[p] \in Locals /\ pass[p].iface = i /\ pass[p].at \in {"flag", "apply"}
      /\ pass[p].at = "flag" => pass[p].fam = "v4"
      /\ pass[p].fam \in Family /\ pass[p].idx \in Nat
  BY DEF WillSet, At, TypeOK, InLoops, Locals
<1> ~Start(p)
  BY <1>1 DEF Start, OffIdle
<1>2. n \in ToSet(DesiredV4) \union ToSet(DesiredV6)
  BY ServerFamily
<1>3. CASE pass'[p] = pass[p]
  BY <1>3 DEF WillSet, At
<1>4. CASE WriteFlag(p)
  <2>1. /\ pass'[p].iface = i /\ pass'[p].fam = "v4"
        /\ pass'[p].at = "flag" \/ (pass'[p].at = "apply" /\ pass'[p].idx = 1)
    BY <1>1, <1>4 DEF WriteFlag, At, Set, TypeOK, Locals
  <2>2. QED
    BY <1>2, <2>1 DEF WillSet, At, Desired
<1>5. CASE ApplyServer(p)
  <2>1. pass[p].at = "apply" /\ Load(i, pass[p].fam) /\ doh' = doh
    BY <1>1, <1>5 DEF ApplyServer, At
  <2>2. n \notin ToSet(Desired(pass[p].fam))
    BY <1>1, <2>1 DEF Load, TypeOK
  <2>3. pass[p].fam = "v4" /\ n \in ToSet(DesiredV6)
    BY <1>1, <2>1, <2>2 DEF WillSet, At
  <2> DEFINE next == [pass[p] EXCEPT !.idx = @ + 1]
             other == [pass[p] EXCEPT !.fam = "v6", !.idx = 1, !.ok = @ /\ TRUE]
  <2>6. pass'[p] = next \/ pass'[p] = other
    <3>1. Set(p, next) \/ FamilyDone(p, TRUE)
      BY <1>5 DEF ApplyServer
    <3>2. Set(p, next) \/ Set(p, other)
      BY <2>3, <3>1 DEF FamilyDone
    <3>3. QED
      BY <3>2 DEF Set, TypeOK
  <2>7. /\ next.iface = i /\ next.at = "apply" /\ next.fam = "v4"
        /\ other.iface = i /\ other.at = "apply" /\ other.fam = "v6" /\ other.idx = 1
    BY <1>1, <2>1, <2>3 DEF Locals
  <2>4. /\ pass'[p].iface = i /\ pass'[p].at = "apply"
        /\ pass'[p].fam = "v4" \/ (pass'[p].fam = "v6" /\ pass'[p].idx = 1)
    <3> HIDE DEF next, other
    <3> QED
      BY <2>6, <2>7
  <2>5. QED
    BY <2>3, <2>4 DEF WillSet, At, Desired
<1>6. QED
  <2>1. CASE UNCHANGED vars \/ Tamper
    BY <1>3, <2>1 DEF vars, Tamper
  <2>2. ASSUME NEW q \in Proc, q # p, Moves(q) PROVE pass'[p] = pass[p]
    BY <2>2, MovesAlone
  <2>3. ASSUME NEW q \in Proc, q # p, DeleteMapping(q) \/ AddMapping(q) PROVE pass'[p] = pass[p]
    BY <2>3 DEF DeleteMapping, AddMapping, Set, TypeOK
  <2>4. ASSUME Start(p) \/ Tick(p) \/ Crash(p) \/ EnforceStep(p) PROVE WriteFlag(p) \/ ApplyServer(p)
    BY <1>1, <2>4 DEF Tick, Crash, EnforceStep, ListInterfaces, DeleteMapping, AddMapping,
       MappingsDone, NextInterface, InterfacesDone, ReadServers, InterfaceOK,
       InterfaceDrifted, Judge, At, TypeOK
  <2>5. QED
    <3>1. ASSUME NEW q \in Proc, q # p, Start(q) \/ Tick(q) \/ Crash(q) \/ EnforceStep(q)
          PROVE  pass'[p] = pass[p]
      BY <2>2, <2>3, <3>1 DEF EnforceStep, Moves
    <3>2. QED
      BY <1>3, <1>4, <1>5, <2>1, <2>4, <3>1 DEF Next

\* However the processes interleave and whatever outsiders do, a flag is left in
\* the registry without being in use only by a process that is killed, or whose
\* command fails, between the write and the "set" that loads it.
THEOREM FlagsInUse == Spec => FlagsTakeEffect
<1>1. ASSUME TypeOK, OffIdle, [Next]_vars, NEW i \in Iface, NEW n \in ToSet(Servers),
             ~Unused(i, n), Unused(i, n)'
      PROVE  \E p \in Proc : WillSet(p, i, n) /\ (mode'[p] = "off" \/ ApplyFails(p))
  <2>1. n \in doh'[i] \ loaded'[i] /\ ~\E p \in Proc : WillSet(p, i, n)'
    BY <1>1 DEF Unused
  <2>2. n \in doh[i] \ loaded[i]
    BY <1>1, <2>1, FlagsChange
  <2>3. PICK p \in Proc : WillSet(p, i, n)
    BY <1>1, <2>2 DEF Unused
  <2>4. QED
    BY <1>1, <2>1, <2>3, WillSetKept
<1>2. TypeOK /\ OffIdle /\ [Next]_vars =>
        [\A i \in Iface, n \in ToSet(Servers) :
          ~Unused(i, n) /\ Unused(i, n)' =>
              \E p \in Proc : WillSet(p, i, n) /\ (mode'[p] = "off" \/ ApplyFails(p))]_vars
  BY <1>1
<1>3. QED
  BY <1>2, AlwaysOffIdle, Typed, PTL DEF Spec, FlagsTakeEffect
=============================================================================
