------------------------ MODULE DnsGuardLinuxProofs ------------------------
(***************************************************************************)
(* Theorems about the resolv.conf guard, for every list of nameservers,    *)
(* every set of processes and every budget of events.                      *)
(*                                                                         *)
(* The inductive invariant says, beside the types, that a process that     *)
(* does not run is at no step of enforce, that every temporary file is one *)
(* in use or one a kill left behind, and that a process about to write     *)
(* goes through the symbolic link.                                         *)
(***************************************************************************)
EXTENDS DnsGuardLinux, FiniteSetTheorems, TLAPS

-----------------------------------------------------------------------------
(* The inductive invariant.                                                *)

\* TypeOK without the counters, temps apart.
Types ==
    /\ link \in BOOLEAN
    /\ file \in [Place -> Lists \union {Desired, Absent}]
    /\ mode \in [Proc -> {"off", "baseline", "guard", "warn"}]
    /\ pc \in [Proc -> {"idle", "check", "resolve", "createTemp", "fillTemp",
                        "rename"}]
    /\ lastSeen \in [Proc -> Lists \union {NothingSeen}]
    /\ target \in [Proc -> Place]
    /\ lastLog \in [Proc -> Lists \union {Silent}]
    /\ spent \in [EnvEvent -> Nat]

OffIsIdle == \A p \in Proc : mode[p] = "off" => pc[p] = "idle"

\* Processes that have a temporary file.
Writers == {p \in Proc : pc[p] \in {"fillTemp", "rename"}}

\* Kills that left a temporary file, at most all of them, make the difference.
TempsInv ==
    /\ temps \in Nat
    /\ Cardinality(Writers) <= temps
    /\ temps <= spent["crash"] + Cardinality(Writers)

\* No outsider made or broke a link.
LinkLeftAlone == spent["relink"] + spent["delete"] = 0

\* The link leads somewhere, and whoever is about to write goes there.
LinkInv ==
    LinkLeftAlone =>
        /\ file["target"] # Absent
        /\ \A p \in Proc : link /\ pc[p] \in {"createTemp", "fillTemp", "rename"}
                             => target[p] = "target"

Inv == Types /\ OffIsIdle /\ TempsInv /\ LinkInv

-----------------------------------------------------------------------------
(* Lists of servers, and counting.                                         *)

\* No list of nameservers is taken for a file that is not there.
LEMMA AbsentIsNoList == Absent \notin Lists /\ Absent # Desired
<1>1. Absent \notin Seq(Nat \ {0})
  BY DEF Absent
<1>2. QED
  BY <1>1, DesiredAssumption

LEMMA SpendCounts ==
  ASSUME Types, NEW e \in EnvEvent, Spend(e)
  PROVE  /\ spent' \in [EnvEvent -> Nat]
         /\ spent' = [spent EXCEPT ![e] = @ + 1]
  BY DEF Spend, Types

LEMMA WritersFinite ==
  ASSUME Types
  PROVE  IsFiniteSet(Writers) /\ Cardinality(Writers) \in Nat
  BY RolesAssumption, FS_Subset, FS_CardinalityType DEF Writers

\* One writer more, or one less.
LEMMA WriterAdded ==
  ASSUME Types, NEW p \in Proc, p \notin Writers, NEW W, W = Writers \union {p}
  PROVE  Cardinality(W) = Cardinality(Writers) + 1
  BY WritersFinite, FS_AddElement

LEMMA WriterRemoved ==
  ASSUME Types, NEW p \in Writers, NEW W, W = Writers \ {p}
  PROVE  /\ Cardinality(W) = Cardinality(Writers) - 1
         /\ Cardinality(W) \in Nat
  BY WritersFinite, FS_RemoveElement, FS_CardinalityType

-----------------------------------------------------------------------------
(* Steps.                                                                  *)

\* enforce returns: the types, and where the process goes.
LEMMA ReturnFacts ==
  ASSUME Types, OffIsIdle, NEW p \in Proc, pc[p] # "idle", NEW seen \in Lists \union {NothingSeen},
         Return(p, seen)
  PROVE  /\ mode' \in [Proc -> {"off", "baseline", "guard", "warn"}]
         /\ \E step \in {"check", "idle"} : pc' = [pc EXCEPT ![p] = step]
         /\ lastSeen' \in [Proc -> Lists \union {NothingSeen}]
         /\ OffIsIdle'
<1>1. mode[p] # "off"
  BY DEF OffIsIdle
<1>2. mode' = mode \/ \E build \in Builds : mode' = [mode EXCEPT ![p] = build]
  BY DEF Return, Installed
<1>3. mode'[p] # "off" /\ \A q \in Proc \ {p} : mode'[q] = mode[q]
  BY <1>1, <1>2, BuildAssumption DEF Types
<1>4. QED
  BY <1>2, <1>3, BuildAssumption DEF Return, Types, OffIsIdle

\* What a step does that keeps the temporary files and the link.
LEMMA QuietStep ==
  ASSUME Inv, NEW p \in Proc, pc[p] \notin {"fillTemp", "rename"},
         NEW step \in {"idle", "check", "resolve", "createTemp"},
         pc' = [pc EXCEPT ![p] = step],
         UNCHANGED <<disk>>, Types', OffIsIdle',
         spent["crash"] <= spent'["crash"], spent["relink"] <= spent'["relink"],
         spent["delete"] <= spent'["delete"],
         \A q \in Proc \ {p} : target'[q] = target[q],
         step = "createTemp" => target'[p] = Resolved
  PROVE  Inv'
<1>1. Writers' = Writers
  BY DEF Writers, Inv, Types
<1>2. TempsInv'
  BY <1>1, WritersFinite DEF Inv, TempsInv, Types, EnvEvent, disk
<1>3. LinkInv'
  <2> SUFFICES ASSUME LinkLeftAlone' PROVE LinkInv'
    BY DEF LinkInv
  <2>1. LinkLeftAlone
    BY DEF LinkLeftAlone, Inv, Types, EnvEvent
  <2>2. QED
    BY <2>1 DEF Inv, LinkInv, Types, disk, Resolved
<1>4. QED
  BY <1>2, <1>3 DEF Inv

\* An event that is no kill leaves the count of temporary files alone.
LEMMA SpendFacts ==
  ASSUME Types, UNCHANGED spent \/ \E e \in EnvEvent : Spend(e)
  PROVE  /\ spent' \in [EnvEvent -> Nat]
         /\ \A e \in EnvEvent : spent[e] <= spent'[e] /\ spent[e] \in Nat
<1>1. ASSUME NEW e \in EnvEvent, Spend(e)
      PROVE  spent' \in [EnvEvent -> Nat] /\ \A x \in EnvEvent : spent[x] <= spent'[x]
  BY <1>1, SpendCounts DEF Types
<1>2. QED
  BY <1>1 DEF Types

\* The start of a process, and the ticker.
LEMMA BeginStep == ASSUME Inv, NEW p \in Proc, Start(p) \/ Tick(p) PROVE Inv'
<1>1. /\ pc[p] = "idle" /\ pc' = [pc EXCEPT ![p] = "check"]
      /\ UNCHANGED <<disk, lastSeen, target, lastLog>>
      /\ mode' = mode \/ mode' = [mode EXCEPT ![p] = "baseline"]
      /\ mode'[p] # "off"
  BY DEF Start, Tick, Inv, OffIsIdle, Types, Guarding
<1>2. UNCHANGED spent \/ \E e \in EnvEvent : Spend(e)
  BY DEF Start, Tick, EnvEvent
<1>3. spent' \in [EnvEvent -> Nat] /\ \A e \in EnvEvent : spent[e] <= spent'[e]
  BY <1>2, SpendFacts DEF Inv
<1>4. Types' /\ OffIsIdle'
  BY <1>1, <1>3 DEF Inv, Types, OffIsIdle, disk
<1>5. QED
  BY <1>1, <1>3, <1>4, QuietStep DEF EnvEvent

\* The check, its three outcomes.
LEMMA CheckStep ==
  ASSUME Inv, NEW p \in Proc, CheckFails(p) \/ CheckPasses(p) \/ CheckFindsDrift(p)
  PROVE  Inv'
<1>1. pc[p] = "check" /\ UNCHANGED <<disk, target>>
  BY DEF CheckFails, CheckPasses, CheckFindsDrift
<1>2. UNCHANGED spent \/ \E e \in EnvEvent : Spend(e)
  BY DEF CheckFails, CheckPasses, CheckFindsDrift, EnvEvent
<1>3. spent' \in [EnvEvent -> Nat] /\ \A e \in EnvEvent : spent[e] <= spent'[e]
  BY <1>2, SpendFacts DEF Inv
<1>4. CASE CheckFails(p) \/ CheckPasses(p)
  <2>1. PICK seen \in Lists \union {NothingSeen} : Return(p, seen)
    BY <1>4 DEF CheckFails, CheckPasses, Inv, Types
  <2>2. lastLog' = lastLog
    BY <1>4 DEF CheckFails, CheckPasses
  <2>3. /\ mode' \in [Proc -> {"off", "baseline", "guard", "warn"}]
        /\ \E step \in {"check", "idle"} : pc' = [pc EXCEPT ![p] = step]
        /\ lastSeen' \in [Proc -> Lists \union {NothingSeen}]
        /\ OffIsIdle'
    BY <1>1, <2>1, ReturnFacts DEF Inv
  <2>4. Types'
    BY <1>1, <1>3, <2>2, <2>3 DEF Inv, Types, disk
  <2>5. QED
    BY <1>1, <1>3, <2>3, <2>4, QuietStep DEF EnvEvent
<1>5. CASE CheckFindsDrift(p)
  <2>1. Current \in Lists
    BY <1>5 DEF CheckFindsDrift, SameServerList, Current, Inv, Types, Place
  <2>2. lastLog' \in [Proc -> Lists \union {Silent}]
    BY <1>5, <2>1 DEF CheckFindsDrift, LogDrift, Inv, Types
  <2>3. CASE Return(p, Signature(Current))
    <3>1. /\ mode' \in [Proc -> {"off", "baseline", "guard", "warn"}]
          /\ \E step \in {"check", "idle"} : pc' = [pc EXCEPT ![p] = step]
          /\ lastSeen' \in [Proc -> Lists \union {NothingSeen}]
          /\ OffIsIdle'
      BY <1>1, <2>1, <2>3, ReturnFacts DEF Inv, Signature
    <3>2. Types'
      <4>1. pc' \in [Proc -> {"idle", "check", "resolve", "createTemp", "fillTemp", "rename"}]
        BY <3>1 DEF Inv, Types
      <4>2. QED
        BY <1>1, <1>3, <2>2, <3>1, <4>1 DEF Inv, Types, disk
    <3>3. QED
      BY <1>1, <1>3, <3>1, <3>2, QuietStep DEF EnvEvent
  <2>4. CASE /\ GoTo(p, "resolve")
             /\ lastSeen' = [lastSeen EXCEPT ![p] = Signature(Current)]
    <3>1. Types' /\ OffIsIdle'
      BY <1>1, <1>3, <2>1, <2>2, <2>4 DEF GoTo, Signature, Inv, Types, OffIsIdle, disk
    <3>2. QED
      BY <1>1, <1>3, <2>4, <3>1, QuietStep DEF GoTo, EnvEvent
  <2>5. QED
    BY <1>5, <2>3, <2>4 DEF CheckFindsDrift
<1>6. QED
  BY <1>4, <1>5

\* filepath.EvalSymlinks: Resolve.
LEMMA ResolveStep == ASSUME Inv, NEW p \in Proc, Resolve(p) PROVE Inv'
<1>1. Types' /\ OffIsIdle'
  BY DEF Resolve, GoTo, Resolved, Place, Inv, Types, OffIsIdle, disk
<1>2. /\ pc[p] = "resolve" /\ pc' = [pc EXCEPT ![p] = "createTemp"]
      /\ UNCHANGED <<disk, spent>>
      /\ target'[p] = Resolved /\ \A q \in Proc \ {p} : target'[q] = target[q]
  BY DEF Resolve, GoTo, Inv, Types
<1>3. \A e \in EnvEvent : spent[e] <= spent'[e]
  BY <1>2, SpendFacts DEF Inv
<1>4. QED
  BY <1>1, <1>2, <1>3, QuietStep DEF EnvEvent

\* A step of a process that has no temporary file any more, or has one now.
LEMMA WriteStep ==
  ASSUME Inv, NEW p \in Proc, Types', OffIsIdle',
         \A q \in Proc \ {p} : pc'[q] = pc[q] /\ target'[q] = target[q],
         \A e \in EnvEvent : spent[e] <= spent'[e],
         LinkInv',
         \/ p \notin Writers /\ p \in Writers' /\ temps' = temps + 1
         \/ p \in Writers /\ p \in Writers' /\ temps' = temps
         \/ p \in Writers /\ p \notin Writers' /\ temps' = temps - 1
         \/ p \notin Writers /\ p \notin Writers' /\ temps' = temps
  PROVE  Inv'
<1>1. \A q \in Proc \ {p} : q \in Writers' <=> q \in Writers
  BY DEF Writers
<1>2. Writers \subseteq Proc /\ Writers' \subseteq Proc
  BY DEF Writers
<1>3. /\ Cardinality(Writers) \in Nat /\ temps \in Nat
      /\ Cardinality(Writers) <= temps /\ temps <= spent["crash"] + Cardinality(Writers)
      /\ spent["crash"] \in Nat /\ spent'["crash"] \in Nat /\ spent["crash"] <= spent'["crash"]
  BY WritersFinite DEF Inv, TempsInv, Types, EnvEvent
<1>4. CASE p \notin Writers /\ p \in Writers' /\ temps' = temps + 1
  <2>1. Writers' = Writers \union {p}
    BY <1>1, <1>2, <1>4
  <2>2. Cardinality(Writers') = Cardinality(Writers) + 1
    BY <1>4, <2>1, WriterAdded DEF Inv
  <2>3. QED
    BY <1>3, <1>4, <2>2 DEF Inv, TempsInv
<1>5. CASE p \in Writers /\ p \in Writers' /\ temps' = temps
  <2>1. Writers' = Writers
    BY <1>1, <1>2, <1>5
  <2>2. QED
    BY <1>3, <1>5, <2>1 DEF Inv, TempsInv
<1>6. CASE p \in Writers /\ p \notin Writers' /\ temps' = temps - 1
  <2>1. Writers' = Writers \ {p}
    BY <1>1, <1>2, <1>6
  <2>2. Cardinality(Writers') = Cardinality(Writers) - 1 /\ Cardinality(Writers') \in Nat
    BY <1>6, <2>1, WriterRemoved DEF Inv
  <2>3. QED
    BY <1>3, <1>6, <2>2 DEF Inv, TempsInv
<1>7. CASE p \notin Writers /\ p \notin Writers' /\ temps' = temps
  <2>1. Writers' = Writers
    BY <1>1, <1>2, <1>7
  <2>2. QED
    BY <1>3, <1>7, <2>1 DEF Inv, TempsInv
<1>8. QED
  BY <1>4, <1>5, <1>6, <1>7

\* The temporary file: created, filled, renamed or removed.
LEMMA TempStep ==
  ASSUME Inv, NEW p \in Proc, CreateTemp(p) \/ FillTemp(p) \/ Rename(p)
  PROVE  Inv'
<1>1. pc[p] \in {"createTemp", "fillTemp", "rename"} /\ UNCHANGED <<target, lastLog>>
  BY DEF CreateTemp, FillTemp, Rename
<1>2. UNCHANGED spent \/ \E e \in EnvEvent : Spend(e)
  BY DEF CreateTemp, FillTemp, Rename, EnvEvent
<1>3. spent' \in [EnvEvent -> Nat] /\ \A e \in EnvEvent : spent[e] <= spent'[e] /\ spent[e] \in Nat
  BY <1>2, SpendFacts DEF Inv
<1>4. \/ Return(p, NothingSeen) \/ Return(p, lastSeen[p])
      \/ \E step \in {"fillTemp", "rename"} : GoTo(p, step) /\ lastSeen' = lastSeen
  BY DEF CreateTemp, FillTemp, Rename
<1>5. \/ UNCHANGED <<link, file>>
      \/ /\ file' = [file EXCEPT ![target[p]] = Desired]
         /\ link' = (link /\ target[p] = "target")
  BY DEF CreateTemp, FillTemp, Rename
<1>6. /\ mode' \in [Proc -> {"off", "baseline", "guard", "warn"}]
      /\ \E step \in {"check", "idle", "fillTemp", "rename"} : pc' = [pc EXCEPT ![p] = step]
      /\ lastSeen' \in [Proc -> Lists \union {NothingSeen}]
      /\ OffIsIdle'
  <2>1. CASE \E seen \in Lists \union {NothingSeen} : Return(p, seen)
    BY <1>1, <2>1, ReturnFacts DEF Inv
  <2>2. ASSUME NEW step \in {"fillTemp", "rename"}, GoTo(p, step), lastSeen' = lastSeen
        PROVE  /\ mode' \in [Proc -> {"off", "baseline", "guard", "warn"}]
               /\ pc' = [pc EXCEPT ![p] = step]
               /\ lastSeen' \in [Proc -> Lists \union {NothingSeen}]
               /\ OffIsIdle'
    BY <1>1, <2>2 DEF GoTo, Inv, Types, OffIsIdle
  <2>3. lastSeen[p] \in Lists \union {NothingSeen}
    BY DEF Inv, Types
  <2>4. QED
    BY <1>4, <2>1, <2>2, <2>3
<1>7. Types'
  BY <1>1, <1>3, <1>5, <1>6 DEF Inv, Types
<1>8. \A q \in Proc \ {p} : pc'[q] = pc[q] /\ target'[q] = target[q]
  BY <1>1, <1>6 DEF Inv, Types
<1>9. LinkInv'
  <2> SUFFICES ASSUME LinkLeftAlone'
               PROVE  /\ file'["target"] # Absent
                      /\ \A q \in Proc : link' /\ pc'[q] \in {"createTemp", "fillTemp", "rename"}
                             => target'[q] = "target"
    BY DEF LinkInv
  <2>1. LinkLeftAlone
    BY <1>3 DEF LinkLeftAlone, EnvEvent, Types, Inv
  <2>2. file["target"] # Absent /\ target[p] \in Place
    BY <2>1 DEF Inv, LinkInv, Types
  <2>3. file'["target"] # Absent
    BY <1>5, <2>2, AbsentIsNoList DEF Inv, Types, Place
  <2>4. link' => link
    BY <1>5 DEF Inv, Types
  <2>5. \A q \in Proc : link' /\ pc'[q] \in {"createTemp", "fillTemp", "rename"} => target'[q] = "target"
    BY <1>1, <1>8, <2>1, <2>4 DEF Inv, LinkInv
  <2>6. QED
    BY <2>3, <2>5
<1>10. \/ p \notin Writers /\ p \in Writers' /\ temps' = temps + 1
       \/ p \in Writers /\ p \in Writers' /\ temps' = temps
       \/ p \in Writers /\ p \notin Writers' /\ temps' = temps - 1
       \/ p \notin Writers /\ p \notin Writers' /\ temps' = temps
  BY DEF Writers, CreateTemp, FillTemp, Rename, GoTo, Return, Inv, Types
<1>11. QED
  BY <1>3, <1>6, <1>7, <1>8, <1>9, <1>10, WriteStep

\* A kill: the temporary file stays, its writer is gone.
LEMMA CrashStep == ASSUME Inv, NEW p \in Proc, Crash(p) PROVE Inv'
<1>1. /\ spent' \in [EnvEvent -> Nat]
      /\ spent'["crash"] = spent["crash"] + 1 /\ spent["crash"] \in Nat
      /\ spent'["relink"] = spent["relink"] /\ spent'["delete"] = spent["delete"]
  BY SpendCounts DEF Crash, Inv, EnvEvent, Types
<1>2. Types' /\ OffIsIdle'
  BY <1>1 DEF Crash, Inv, Types, OffIsIdle, Place, disk
<1>3. LinkInv'
  BY <1>1 DEF Crash, Inv, LinkInv, LinkLeftAlone, Types, disk
<1>4. Writers' = Writers \ {p} /\ temps' = temps
  BY DEF Crash, Writers, Inv, Types, disk
<1>5. TempsInv'
  <2>1. CASE p \in Writers
    BY <1>1, <1>4, <2>1, WritersFinite, WriterRemoved DEF Inv, TempsInv
  <2>2. CASE p \notin Writers
    <3>1. Writers' = Writers
      BY <1>4, <2>2
    <3>2. QED
      BY <1>1, <1>4, <3>1, WritersFinite DEF Inv, TempsInv
  <2>3. QED
    BY <2>1, <2>2
<1>6. QED
  BY <1>2, <1>3, <1>5 DEF Inv

\* An outsider changes the file, its link or its existence.
LEMMA TamperStep == ASSUME Inv, Tamper PROVE Inv'
<1>1. UNCHANGED <<temps, mode, pc, lastSeen, target, lastLog>>
  BY DEF Tamper
<1>2. \E e \in {"write", "delete", "relink"} : Spend(e)
  BY DEF Tamper
<1>3. /\ spent' \in [EnvEvent -> Nat] /\ \A e \in EnvEvent : spent[e] <= spent'[e] /\ spent[e] \in Nat
      /\ spent'["crash"] = spent["crash"]
  BY <1>2, SpendCounts, SpendFacts DEF Inv, EnvEvent, Types
<1>4. Types' /\ OffIsIdle'
  BY <1>1, <1>3 DEF Tamper, Overwrite, Inv, Types, OffIsIdle, Place
<1>5. TempsInv'
  BY <1>1, <1>3 DEF Inv, TempsInv, Writers
<1>6. LinkInv'
  <2> SUFFICES ASSUME LinkLeftAlone' PROVE LinkInv'
    BY DEF LinkInv
  <2>1. LinkLeftAlone /\ spent'["relink"] = spent["relink"] /\ spent'["delete"] = spent["delete"]
    BY <1>3 DEF LinkLeftAlone, EnvEvent
  <2>2. PICK servers \in Lists : Overwrite(servers) /\ link' = link
    BY <1>3, <2>1, SpendCounts DEF Tamper, Inv, EnvEvent, Types
  <2>3. QED
    BY <1>1, <2>1, <2>2, AbsentIsNoList DEF Inv, LinkInv, Overwrite, Types, Place
<1>7. QED
  BY <1>4, <1>5, <1>6 DEF Inv

LEMMA InvStep == Inv /\ [Next]_vars => Inv'
<1> SUFFICES ASSUME Inv, [Next]_vars PROVE Inv'
  OBVIOUS
<1>1. CASE UNCHANGED vars
  BY <1>1 DEF vars, disk, Inv, Types, OffIsIdle, TempsInv, Writers, LinkInv, LinkLeftAlone
<1>2. QED
  BY <1>1, BeginStep, CheckStep, ResolveStep, TempStep, CrashStep, TamperStep
  DEF Next, EnforceStep

LEMMA InvInit == Init => Inv
<1> SUFFICES ASSUME Init PROVE Inv
  OBVIOUS
<1>1. Types /\ OffIsIdle
  BY DEF Init, Types, OffIsIdle, Place
<1>2. Writers = {}
  BY DEF Init, Writers
<1>3. TempsInv
  BY <1>2, FS_EmptySet DEF Init, TempsInv, EnvEvent
<1>4. LinkInv
  BY AbsentIsNoList DEF Init, LinkInv, Place
<1>5. QED
  BY <1>1, <1>3, <1>4 DEF Inv

LEMMA InvAlways == Spec => []Inv
  BY InvInit, InvStep, PTL DEF Spec

-----------------------------------------------------------------------------
(* The theorems.                                                           *)

\* Every reachable state is well typed; in particular no temporary file is removed
\* twice.
THEOREM Typed == Spec => []TypeOK
<1>1. Inv => TypeOK
  BY DEF Inv, Types, TempsInv, TypeOK
<1>2. QED
  BY <1>1, InvAlways, PTL

\* Every error path of enforce removes its temporary file: whatever the number of
\* processes and failures, a kill is the only thing that leaves one behind.
THEOREM OnlyKillsLeaveTemps == Spec => []TempsAccounted
<1>1. Inv => TempsAccounted
  BY DEF Inv, TempsInv, Writers, TempsAccounted
<1>2. QED
  BY <1>1, InvAlways, PTL

\* As long as no outsider makes a link or deletes the file, no rename of any
\* process, whatever the others do meanwhile, replaces the symbolic link.
THEOREM LinkSurvives == Spec => SymlinkPreserved
<1>1. ASSUME Inv, NEW p \in Proc, Rename(p), LinkLeftAlone PROVE link' = link
  BY <1>1 DEF Inv, LinkInv, Rename, Types
<1>2. Inv /\ [Next]_vars =>
        [(\E p \in Proc : Rename(p)) /\ spent["relink"] + spent["delete"] = 0
            => link' = link]_vars
  BY <1>1 DEF LinkLeftAlone
<1>3. QED
  BY <1>2, InvAlways, PTL DEF Spec, SymlinkPreserved
=============================================================================
