--------------------------- MODULE WatchdogProofs ---------------------------
(***************************************************************************)
(* Theorems about the pair, for every number of processes, every budget of *)
(* events and both platforms.                                              *)
(*                                                                         *)
(* Typed needs no assumption.  ExclusiveRoles assumes that no system call  *)
(* fails and that claims of one role never overlap in time; what happens   *)
(* without the second is the run split_brain, and that a single start has  *)
(* it is proved in WatchdogOnceProofs.  Its inductive invariant is         *)
(* LockInv: the lock file names the holder, a process about to stamp or to *)
(* remove a lock file knows what is in it.  FilesNameOwners holds for any  *)
(* number of starts, until a call fails or a pid is used again.            *)
(***************************************************************************)
EXTENDS WatchdogProps, TLAPS

USE DEF PC, Living, Alive, RoleClaim, Holding, OwnStateCheck, Supervision,
        SpawnClaim, SpawnSection, CleanUp, RoleRelease

-----------------------------------------------------------------------------
(* Type correctness.                                                       *)

\* The partner of a role is a role (partnerRole).
LEMMA PartnerIsRole == \A r \in Role : Partner(r) \in Role
  BY DEF Role, Partner

\* An event is counted: Spend keeps the type of the counters.
LEMMA SpendTyped ==
  ASSUME TypeOK, NEW events, Spend(events)
  PROVE  spent' \in [EnvEvent -> Nat]
  BY DEF Spend, TypeOK

\* A process starts a partner: Spawn keeps the types.
LEMMA SpawnTyped == ASSUME TypeOK, NEW p \in Proc, Spawn(p) PROVE TypeOK'
<1>1. PICK child \in Proc : Spawn(p)!2!(child)
  BY DEF Spawn
<1>2. Partner(role[p]) \in Role
  BY PartnerIsRole DEF Spawn, TypeOK, At
<1>3. /\ pc' \in [Proc -> PC]
      /\ role' \in [Proc -> Role \union {NoRole}]
      /\ \A q \in Proc : Alive(q)' => role'[q] \in Role
  BY <1>1, <1>2 DEF TypeOK, Spawn, At
<1>4. /\ pending' \in [Proc -> [pid : Pid, open : BOOLEAN]]
      /\ \A q \in Proc : pending'[q].open => pending'[q].pid \in Proc
  BY <1>1 DEF TypeOK, NoPending, Pid
<1>5. /\ parent' \in [Proc -> Pid]
      /\ failing' \in SUBSET Proc
      /\ term' \in SUBSET Proc
  BY <1>1 DEF TypeOK, Pid
<1>6. spent' \in [EnvEvent -> Nat]
  BY <1>1, SpendTyped
<1>7. QED
  BY <1>3, <1>4, <1>5, <1>6 DEF TypeOK, Spawn, files

\* A system call fails: IOFault keeps the types.
LEMMA FaultTyped == ASSUME TypeOK, NEW p \in Proc, IOFault(p) PROVE TypeOK'
<1>1. role[p] \in Role /\ Partner(role[p]) \in Role
  BY PartnerIsRole DEF IOFault, FaultPoint, TypeOK
<1>2. AfterFault(p) \in Living
  BY DEF IOFault, FaultPoint, AfterFault, AfterSpawnSection
<1>3. pc' \in [Proc -> PC] /\ \A q \in Proc : Alive(q)' => role'[q] \in Role
  BY <1>1, <1>2 DEF IOFault, Goto, TypeOK
<1>4. roleLock' \in [Role -> LockFile] /\ spawnLock' \in [Role -> LockFile]
  BY <1>1 DEF IOFault, DropLock, TypeOK, NoFile, LockFile, Pid
<1>5. /\ attempt' \in [Proc -> 0 .. 1]
      /\ failing' \in SUBSET Proc
      /\ spent' \in [EnvEvent -> Nat]
  BY SpendTyped DEF IOFault, TypeOK
<1>6. QED
  BY <1>3, <1>4, <1>5 DEF IOFault, TypeOK

\* A process ends: Die keeps the types.
LEMMA DeathTyped ==
  ASSUME TypeOK, NEW p \in Proc, Die(p), spent' \in [EnvEvent -> Nat]
  PROVE  TypeOK'
  BY DEF Die, TypeOK, files, NoPending, Pid

\* Every step of the program and of its environment keeps the types.
LEMMA StepTyped == TypeOK /\ [Next]_vars => TypeOK'
<1> SUFFICES ASSUME TypeOK, [Next]_vars PROVE TypeOK'
  OBVIOUS
<1>1. CASE UNCHANGED vars
  BY <1>1 DEF TypeOK, vars, locals, files
<1>2. ASSUME NEW p \in Proc, Step(p) PROVE TypeOK'
  <2> role[p] \in Role \union {NoRole} /\ (Alive(p) => role[p] \in Role)
    BY DEF TypeOK

  <2>1. CASE CreateRoleLock(p)
    BY <2>1 DEF CreateRoleLock, At, Goto, EmptyFile, NoFile, locals, TypeOK,
         LockFile, Pid, files
  <2>2. CASE RoleLockTaken(p)
    BY <2>2 DEF RoleLockTaken, Move, NoFile, At, Goto, locals, files, TypeOK,
         LockFile, Pid
  <2>3. CASE WriteRoleLock(p)
    BY <2>3 DEF WriteRoleLock, Stamp, claim, At, Goto, EmptyFile, StampedFile,
         TypeOK, LockFile, Pid, files, locals
  <2>4. CASE ReadRoleLock(p)
    BY <2>4 DEF ReadRoleLock, Read, ReadPIDFile, At, See, Goto, files, TypeOK,
         LockFile, Pid, locals
  <2>5. CASE RoleLockStale(p)
    BY <2>5 DEF RoleLockStale, Judge, At, Forget, Goto, files, See, TypeOK,
         LockFile, Pid, locals
  <2>6. CASE RoleLockMine(p)
    BY <2>6 DEF RoleLockMine, Judge, At, Forget, Goto, files, See, TypeOK,
         LockFile, Pid, locals
  <2>7. CASE RoleLockRefused(p)
    BY <2>7 DEF RoleLockRefused, Judge, At, Forget, Goto, files, See, TypeOK,
         LockFile, Pid, locals
  <2>8. CASE RemoveRoleLock(p)
    BY <2>8 DEF RemoveRoleLock, claim, At, Goto, NoFile, TypeOK, LockFile, Pid,
         files, locals
  <2>9. CASE RoleLockBusy(p)
    BY <2>9 DEF RoleLockBusy, claim, At, Goto, files, TypeOK, LockFile, Pid,
         locals
  <2>10. CASE ReadOwnState(p)
    BY <2>10 DEF ReadOwnState, Read, At, See, Goto, files, TypeOK, LockFile,
         Pid, locals
  <2>11. CASE RoleClaimed(p)
    BY <2>11 DEF RoleClaimed, Judge, At, Forget, Goto, files, See, TypeOK,
         LockFile, Pid, locals
  <2>12. CASE RoleClaimRefused(p)
    BY <2>12 DEF RoleClaimRefused, Judge, At, Forget, Goto, files, See, TypeOK,
         LockFile, Pid, locals
  <2>13. CASE WriteOwnState(p)
    BY <2>13, PartnerIsRole DEF WriteOwnState, At, Goto, locals, TypeOK,
         LockFile, Pid, files
  <2>14. CASE ReadPartner(p)
    BY <2>14, PartnerIsRole DEF ReadPartner, Read, At, See, Goto, files, TypeOK,
         LockFile, Pid, locals
  <2>15. CASE PartnerAlive(p)
    BY <2>15, PartnerIsRole DEF PartnerAlive, Judge, NoPending, At, Forget,
         Goto, files, See, TypeOK, LockFile, Pid, locals
  <2>16. CASE AwaitPartner(p)
    BY <2>16, PartnerIsRole DEF AwaitPartner, Judge, At, Forget, Goto, files,
         See, TypeOK, LockFile, Pid, locals
  <2>17. CASE PartnerGone(p)
    BY <2>17, PartnerIsRole DEF PartnerGone, Judge, NoPending, At, Forget, Goto,
         files, See, TypeOK, LockFile, Pid, locals
  <2>18. CASE RecheckPartner(p)
    BY <2>18, PartnerIsRole DEF RecheckPartner, Read, At, See, Goto, files,
         TypeOK, LockFile, Pid, locals
  <2>19. CASE PartnerReturned(p)
    BY <2>19, PartnerIsRole DEF PartnerReturned, Judge, NoPending, At, Forget,
         Goto, files, See, TypeOK, LockFile, Pid, locals
  <2>20. CASE PartnerStillGone(p)
    BY <2>20, PartnerIsRole DEF PartnerStillGone, Judge, At, Forget, Goto,
         files, See, TypeOK, LockFile, Pid, locals
  <2>21. CASE Spawn(p)
    BY <2>21, SpawnTyped
  <2>22. CASE ReleaseSpawnLock(p)
    BY <2>22, PartnerIsRole DEF ReleaseSpawnLock, Move, ReadPIDFile,
         AfterSpawnSection, At, Goto, locals, files, TypeOK, LockFile, Pid
  <2>23. CASE UnlinkSpawnLock(p)
    BY <2>23, PartnerIsRole DEF UnlinkSpawnLock, At, Goto, NoFile, locals,
         AfterSpawnSection, TypeOK, LockFile, Pid, files
  <2>24. CASE CreateSpawnLock(p)
    BY <2>24, PartnerIsRole DEF CreateSpawnLock, At, Goto, EmptyFile, NoFile,
         locals, TypeOK, LockFile, Pid, files
  <2>25. CASE SpawnLockTaken(p)
    BY <2>25, PartnerIsRole DEF SpawnLockTaken, Move, NoFile, At, Goto, locals,
         files, TypeOK, LockFile, Pid
  <2>26. CASE WriteSpawnLock(p)
    BY <2>26, PartnerIsRole DEF WriteSpawnLock, Stamp, claim, At, Goto,
         EmptyFile, StampedFile, TypeOK, LockFile, Pid, files, locals
  <2>27. CASE ReadSpawnLock(p)
    BY <2>27, PartnerIsRole DEF ReadSpawnLock, Read, ReadPIDFile, At, See, Goto,
         files, TypeOK, LockFile, Pid, locals
  <2>28. CASE SpawnLockStale(p)
    BY <2>28 DEF SpawnLockStale, Judge, At, Forget, Goto, files, See, TypeOK,
         LockFile, Pid, locals
  <2>29. CASE SpawnLockVetted(p)
    BY <2>29, PartnerIsRole DEF SpawnLockVetted, Judge, At, Forget, Goto, files,
         See, TypeOK, LockFile, Pid, locals
  <2>30. CASE RemoveSpawnLock(p)
    BY <2>30, PartnerIsRole DEF RemoveSpawnLock, At, Goto, NoFile, TypeOK,
         LockFile, Pid, files, locals
  <2>31. CASE SpawnLockBusy(p)
    BY <2>31, PartnerIsRole DEF SpawnLockBusy, At, Goto, files, TypeOK,
         LockFile, Pid, locals
  <2>32. CASE Tick(p)
    BY <2>32 DEF Tick, Move, At, Goto, locals, files, TypeOK, LockFile, Pid
  <2>33. CASE ContextDone(p)
    BY <2>33 DEF ContextDone, Move, At, Goto, locals, files, TypeOK, LockFile,
         Pid
  <2>34. CASE RemoveOwnState(p)
    BY <2>34 DEF RemoveOwnState, Move, At, Goto, locals, files, TypeOK,
         LockFile, Pid
  <2>35. CASE EraseOwnState(p)
    BY <2>35 DEF EraseOwnState, At, Goto, locals, TypeOK, LockFile, Pid, files
  <2>36. CASE ReleaseRole(p)
    BY <2>36 DEF ReleaseRole, Move, ReadPIDFile, At, Goto, locals, files,
         TypeOK, LockFile, Pid
  <2>37. CASE UnlinkRoleLock(p)
    BY <2>37 DEF UnlinkRoleLock, At, Goto, NoFile, locals, TypeOK, LockFile,
         Pid, files
  <2>38. QED
    BY <1>2, <2>1, <2>2, <2>3, <2>4, <2>5, <2>6, <2>7, <2>8, <2>9, <2>10, <2>11,
         <2>12, <2>13, <2>14, <2>15, <2>16, <2>17, <2>18, <2>19, <2>20, <2>21,
         <2>22, <2>23, <2>24, <2>25, <2>26, <2>27, <2>28, <2>29, <2>30, <2>31,
         <2>32, <2>33, <2>34, <2>35, <2>36, <2>37 DEF Step, ClaimRoleLock,
         CheckOwnState, ClaimSpawnLock, EnsurePartner, Return
<1>3. ASSUME NEW p \in Proc, Environment(p) PROVE TypeOK'
  <2>1. CASE Launch(p)
    <3>1. spent' \in [EnvEvent -> Nat]
      BY <2>1, SpendTyped DEF Launch
    <3>2. QED
      BY <2>1, <3>1 DEF Launch, Goto, NoPending, files, TypeOK, Pid, Role
  <2>2. CASE Crash(p)
    <3>1. spent' \in [EnvEvent -> Nat]
      BY <2>2, SpendTyped DEF Crash
    <3>2. QED
      BY <2>2, <3>1, DeathTyped DEF Crash
  <2>3. CASE Terminate(p)
    BY <2>3, SpendTyped DEF Terminate, files, TypeOK
  <2>4. CASE Exit(p)
    BY <2>4, DeathTyped DEF Exit, TypeOK
  <2>5. CASE Collect(p)
    BY <2>5 DEF Collect, At, Goto, files, TypeOK, LockFile, Pid, locals
  <2>6. CASE GraceExpires(p)
    <3>1. pending[p] \in [pid : Pid, open : BOOLEAN]
      BY DEF TypeOK
    <3>2. pending' \in [Proc -> [pid : Pid, open : BOOLEAN]]
      BY <2>6, <3>1 DEF GraceExpires, TypeOK
    <3>3. spent' \in [EnvEvent -> Nat]
      BY <2>6, SpendTyped DEF GraceExpires, TypeOK
    <3>4. QED
      BY <2>6, <3>2, <3>3 DEF GraceExpires, TypeOK, files
  <2>7. CASE Foreign(p)
    BY <2>7, SpendTyped DEF Foreign, Goto, files, locals, TypeOK
  <2>8. CASE ForeignExits(p)
    BY <2>8 DEF ForeignExits, At, Goto, files, locals, TypeOK, LockFile, Pid
  <2>9. CASE IOFault(p)
    BY <2>9, FaultTyped
  <2>10. QED
    BY <1>3, <2>1, <2>2, <2>3, <2>4, <2>5, <2>6, <2>7, <2>8, <2>9 DEF
         Environment
<1>4. QED
  BY <1>1, <1>2, <1>3 DEF Next

\* Every reachable state is well typed, whatever the constants.
THEOREM Typed == Spec => []TypeOK
<1>1. Init => TypeOK
  BY NobodyAssumption DEF Init, TypeOK, Pid, NoPending, LockFile, NoFile, Role
<1>2. QED
  BY <1>1, StepTyped, PTL DEF Spec

-----------------------------------------------------------------------------
(* At most one holder of each role.                                        *)

\* The holder and the claimant of a role, as the steps below need them.
LEMMA HolderFact ==
  ASSUME NEW r \in Role, NEW p \in Proc, pc[p] \in Holding, role[p] = r
  PROVE  p \in Holders(r)
  BY DEF Holders

\* A step of a holder that touches neither the role locks nor the roles, and
\* after which it still holds its role or has returned.
LEMMA HolderStep ==
  ASSUME TypeOK, LockInv, NEW p \in Proc, pc[p] \in Holding,
         NEW stage \in Holding \union {"returned"},
         Goto(p, stage), NEW v, See(p, v) \/ UNCHANGED seen,
         UNCHANGED <<role, roleLock>>
  PROVE  LockInv'
<1>1. \A r \in Role : Holders(r)' \subseteq Holders(r)
  BY DEF Holders, Goto, TypeOK
<1>2. \A q \in Proc : pc'[q] \in RoleClaim => q # p /\ pc[q] = pc'[q] /\ seen'[q] = seen[q]
  BY DEF Goto, See, TypeOK
<1>3. \A q \in Proc : pc'[q] \in RoleClaim => role[q] \in Role
  BY <1>2 DEF TypeOK
<1>4. HolderOwnsLock'
  BY <1>1 DEF LockInv, HolderOwnsLock
<1>5. StampSound'
  BY <1>2 DEF LockInv, StampSound
<1>6. VetSound'
  BY <1>1, <1>2, <1>3 DEF LockInv, VetSound
<1>7. RemoveSound'
  BY <1>1, <1>2, <1>3 DEF LockInv, RemoveSound
<1>8. QED
  BY <1>4, <1>5, <1>6, <1>7 DEF LockInv

\* A stamped file is not an empty one, and reads as its owner (readPIDFile).
LEMMA StampedFacts ==
  \A q : /\ StampedFile(q) # NoFile
         /\ \A p : StampedFile(q) # EmptyFile(p)
         /\ ReadPIDFile(StampedFile(q)) = q
<1>1. \A q : StampedFile(q).stamped = TRUE /\ StampedFile(q).owner = q
  BY DEF StampedFile
<1>2. NoFile.stamped = FALSE /\ \A p : EmptyFile(p).stamped = FALSE
  BY DEF NoFile, EmptyFile
<1>3. QED
  BY <1>1, <1>2 DEF ReadPIDFile

\* Two processes do not stamp the same file.
LEMMA StampedInjective == \A p, q : StampedFile(p) = StampedFile(q) => p = q
<1>1. \A q : StampedFile(q).owner = q
  BY DEF StampedFile
<1>2. QED
  BY <1>1

\* The holder of a role is the one its lock file names.
LEMMA HolderLock ==
  ASSUME LockInv, NEW r \in Role
  PROVE  \A q \in Holders(r) : roleLock[r] = StampedFile(q)
  BY DEF LockInv, HolderOwnsLock

\* A step of a process at claimRoleLock, the only one of its role there.
LEMMA ClaimStep ==
  ASSUME TypeOK, LockInv, SerialClaims, NEW p \in Proc, ClaimRoleLock(p)
  PROVE  LockInv'
<1> DEFINE r == role[p]
<1>1. pc[p] \in RoleClaim /\ r \in Role
  BY DEF TypeOK, ClaimRoleLock, CreateRoleLock, RoleLockTaken, WriteRoleLock,
         ReadRoleLock, RoleLockStale, RoleLockMine, RoleLockRefused,
         RemoveRoleLock, RoleLockBusy, At, Move, Read, Judge
<1>2. \A q \in Proc : q # p /\ pc[q] \in RoleClaim => role[q] # r
  BY <1>1 DEF SerialClaims, Claimants
<1> USE DEF LockInv, HolderOwnsLock, StampSound, VetSound, RemoveSound, Holders
<1>3. CASE CreateRoleLock(p)
  <2>1. Holders(r) = {}
    BY <1>1, <1>3, HolderLock, StampedFacts DEF CreateRoleLock
  <2>2. \A s \in Role : Holders(s)' = Holders(s)
    BY <1>3 DEF CreateRoleLock, At, Goto, locals, TypeOK
  <2>3. HolderOwnsLock'
    BY <1>1, <1>3, <2>1, <2>2 DEF CreateRoleLock, TypeOK
  <2>4. StampSound'
    BY <1>1, <1>2, <1>3 DEF CreateRoleLock, Goto, locals, TypeOK
  <2>5. VetSound' /\ RemoveSound'
    BY <1>1, <1>2, <1>3 DEF CreateRoleLock, Goto, locals, TypeOK
  <2>6. QED
    BY <2>3, <2>4, <2>5
<1>4. CASE RoleLockTaken(p)
  BY <1>4, <1>1, <1>2 DEF RoleLockTaken, Move, NoFile, At, Goto, locals,
       files, TypeOK, LockFile, Pid
<1>5. CASE WriteRoleLock(p)
  <2>1. roleLock[r] = EmptyFile(p)
    BY <1>5 DEF WriteRoleLock, At
  <2>2. Holders(r) = {}
    BY <1>1, <2>1, HolderLock, StampedFacts
  <2>3. roleLock' = [roleLock EXCEPT ![r] = StampedFile(p)]
    BY <1>5, <2>1 DEF WriteRoleLock, Stamp
  <2>4. HolderOwnsLock'
    BY <1>1, <1>5, <2>2, <2>3 DEF WriteRoleLock, At, Goto, claim, TypeOK
  <2>5. StampSound'
    BY <1>1, <1>2, <1>5, <2>3 DEF WriteRoleLock, Goto, claim, TypeOK
  <2>6. VetSound' /\ RemoveSound'
    BY <1>1, <1>2, <1>5, <2>3 DEF WriteRoleLock, Goto, claim, TypeOK
  <2>7. QED
    BY <2>4, <2>5, <2>6
<1>6. CASE ReadRoleLock(p)
  <2>1. \A q \in Holders(r) : ReadPIDFile(roleLock[r]) = q
    BY <1>1, HolderLock, StampedFacts
  <2>2. ReadPIDFile(roleLock[r]) = p => roleLock[r] = StampedFile(p)
    BY <1>1, NobodyAssumption DEF ReadPIDFile, StampedFile, TypeOK, LockFile
  <2>3. HolderOwnsLock' /\ StampSound' /\ RemoveSound'
    BY <1>1, <1>2, <1>6 DEF ReadRoleLock, Read, At, Goto, files, TypeOK
  <2>4. VetSound'
    BY <1>1, <1>2, <1>6, <2>1, <2>2
    DEF ReadRoleLock, Read, At, Goto, See, files, TypeOK
  <2>5. QED
    BY <2>3, <2>4
<1>7. CASE RoleLockStale(p)
  <2>1. Holders(r) = {}
    BY <1>1, <1>7, NobodyAssumption DEF RoleLockStale, Judge, At, Exists
  <2>2. HolderOwnsLock' /\ StampSound'
    BY <1>1, <1>2, <1>7 DEF RoleLockStale, Judge, At, Goto, files, TypeOK
  <2>3. VetSound'
    BY <1>1, <1>2, <1>7 DEF RoleLockStale, Judge, At, Goto, Forget, See, files, TypeOK
  <2>4. RemoveSound'
    BY <1>1, <1>2, <1>7, <2>1 DEF RoleLockStale, Judge, At, Goto, files, TypeOK
  <2>5. QED
    BY <2>2, <2>3, <2>4
<1>8. CASE RoleLockMine(p)
  BY <1>8, <1>1, <1>2 DEF RoleLockMine, Judge, At, Forget, Goto, files, See,
       TypeOK, locals, LockFile, Pid
<1>9. CASE RoleLockRefused(p)
  BY <1>9, <1>1, <1>2 DEF RoleLockRefused, Judge, At, Forget, Goto, files,
       See, TypeOK, locals, LockFile, Pid
<1>10. CASE RemoveRoleLock(p)
  BY <1>10, <1>1, <1>2 DEF RemoveRoleLock, claim, At, Goto, NoFile, TypeOK,
       locals, files, LockFile, Pid
<1>11. CASE RoleLockBusy(p)
  BY <1>11, <1>1, <1>2 DEF RoleLockBusy, claim, At, Goto, files, TypeOK,
       locals, LockFile, Pid
<1>12. QED
  BY <1>3, <1>4, <1>5, <1>6, <1>7, <1>8, <1>9, <1>10, <1>11 DEF ClaimRoleLock

\* A step of the program that is not at claimRoleLock.
LEMMA RunStep ==
  ASSUME TypeOK, LockInv, NEW p \in Proc,
         CheckOwnState(p) \/ WriteOwnState(p) \/ EnsurePartner(p) \/ Tick(p)
           \/ Return(p)
  PROVE  LockInv'

<1>1. CASE ReadOwnState(p)
  BY <1>1, HolderStep DEF ReadOwnState, Read, At, files
<1>2. CASE RoleClaimed(p)
  BY <1>2, HolderStep DEF RoleClaimed, Judge, At, Forget, files
<1>3. CASE RoleClaimRefused(p)
  BY <1>3, HolderStep DEF RoleClaimRefused, Judge, At, Forget, files
<1>4. CASE WriteOwnState(p)
  BY <1>4, HolderStep DEF WriteOwnState, At, locals
<1>5. CASE ReadPartner(p)
  BY <1>5, HolderStep DEF ReadPartner, Read, At, files
<1>6. CASE PartnerAlive(p)
  BY <1>6, HolderStep DEF PartnerAlive, Judge, At, Forget, files
<1>7. CASE AwaitPartner(p)
  BY <1>7, HolderStep DEF AwaitPartner, Judge, At, Forget, files
<1>8. CASE PartnerGone(p)
  BY <1>8, HolderStep DEF PartnerGone, Judge, At, Forget, files
<1>9. CASE RecheckPartner(p)
  BY <1>9, HolderStep DEF RecheckPartner, Read, At, files
<1>10. CASE PartnerReturned(p)
  BY <1>10, HolderStep DEF PartnerReturned, Judge, At, Forget, files
<1>11. CASE PartnerStillGone(p)
  BY <1>11, HolderStep DEF PartnerStillGone, Judge, At, Forget, files
<1>12. CASE Spawn(p)
  <2>1. PICK child \in Proc : Spawn(p)!2!(child)
    BY <1>12 DEF Spawn
  <2>2. pc[p] = "spawn" /\ pc[child] \in {"dead", "returned"}
    BY <1>12, <2>1 DEF Spawn, At, Free, Faded
  <2>3. \A s \in Role : Holders(s)' = Holders(s)
    BY <2>1, <2>2 DEF Holders, TypeOK
  <2>4. \A q \in Proc : pc'[q] \in RoleClaim \ {"openRoleLock"}
                          => pc[q] = pc'[q] /\ role'[q] = role[q]
    BY <2>1, <2>2 DEF TypeOK
  <2>5. seen' = seen /\ roleLock' = roleLock
    BY <1>12 DEF Spawn, files
  <2>6. \A q \in Proc : pc[q] \in RoleClaim => role[q] \in Role
    BY DEF TypeOK
  <2>7. HolderOwnsLock' /\ StampSound'
    BY <2>3, <2>4, <2>5 DEF LockInv, HolderOwnsLock, StampSound
  <2>8. VetSound' /\ RemoveSound'
    BY <2>3, <2>4, <2>5, <2>6 DEF LockInv, VetSound, RemoveSound
  <2>9. QED
    BY <2>7, <2>8 DEF LockInv
<1>13. CASE ReleaseSpawnLock(p)
  BY <1>13, HolderStep DEF ReleaseSpawnLock, Move, AfterSpawnSection, At,
     locals, files
<1>14. CASE UnlinkSpawnLock(p)
  BY <1>14, HolderStep DEF UnlinkSpawnLock, At, locals, AfterSpawnSection
<1>15. CASE CreateSpawnLock(p)
  BY <1>15, HolderStep DEF CreateSpawnLock, At, locals
<1>16. CASE SpawnLockTaken(p)
  BY <1>16, HolderStep DEF SpawnLockTaken, Move, At, locals, files
<1>17. CASE WriteSpawnLock(p)
  BY <1>17, HolderStep DEF WriteSpawnLock, claim, At
<1>18. CASE ReadSpawnLock(p)
  BY <1>18, HolderStep DEF ReadSpawnLock, Read, At, files
<1>19. CASE SpawnLockStale(p)
  BY <1>19, HolderStep DEF SpawnLockStale, Judge, At, Forget, files
<1>20. CASE SpawnLockVetted(p)
  BY <1>20, HolderStep DEF SpawnLockVetted, Judge, At, Forget, files
<1>21. CASE RemoveSpawnLock(p)
  BY <1>21, HolderStep DEF RemoveSpawnLock, At
<1>22. CASE SpawnLockBusy(p)
  BY <1>22, HolderStep DEF SpawnLockBusy, At, files
<1>23. CASE Tick(p)
  BY <1>23, HolderStep DEF Tick, Move, At, locals, files
<1>24. CASE ContextDone(p)
  BY <1>24, HolderStep DEF ContextDone, Move, At, locals, files
<1>25. CASE RemoveOwnState(p)
  BY <1>25, HolderStep DEF RemoveOwnState, Move, At, locals, files
<1>26. CASE EraseOwnState(p)
  BY <1>26, HolderStep DEF EraseOwnState, At, locals
<1>27. CASE ReleaseRole(p)
  BY <1>27, HolderStep DEF ReleaseRole, Move, At, locals, files
<1>28. CASE UnlinkRoleLock(p)
  <2> DEFINE r == role[p]
  <2>1. p \in Holders(r) /\ r \in Role
    BY <1>28 DEF UnlinkRoleLock, At, Holders, TypeOK
  <2>2. /\ Holders(r)' = {}
        /\ \A s \in Role \ {r} : Holders(s)' = Holders(s)
    BY <1>28, <2>1, HolderLock, StampedInjective
    DEF UnlinkRoleLock, Goto, locals, Holders, TypeOK
  <2>3. \A s \in Role \ {r} : roleLock'[s] = roleLock[s]
    BY <1>28 DEF UnlinkRoleLock, TypeOK
  <2>4. \A q \in Proc : pc'[q] \in RoleClaim
            => q # p /\ pc[q] = pc'[q] /\ seen'[q] = seen[q] /\ role[q] \in Role
    BY <1>28 DEF UnlinkRoleLock, Goto, locals, TypeOK
  <2>5. role' = role
    BY <1>28 DEF UnlinkRoleLock, locals
  <2>6. roleLock[r] = StampedFile(p)
    BY <2>1, HolderLock
  <2>7. HolderOwnsLock'
    <3>1. SUFFICES ASSUME NEW s \in Role, NEW q \in Holders(s)'
                   PROVE  roleLock'[s] = StampedFile(q)
      BY DEF HolderOwnsLock
    <3>2. s # r /\ q \in Holders(s)
      BY <2>2, <2>5, <3>1
    <3>3. QED
      BY <2>3, <3>1, <3>2, HolderLock
  <2>8. StampSound'
    BY <2>1, <2>3, <2>4, <2>5, <2>6, StampedFacts DEF LockInv, StampSound
  <2>9. VetSound'
    BY <2>1, <2>2, <2>3, <2>4, <2>5, <2>6, StampedInjective
    DEF LockInv, VetSound
  <2>10. RemoveSound'
    BY <2>1, <2>2, <2>3, <2>4, <2>5 DEF LockInv, RemoveSound
  <2>11. QED
    BY <2>7, <2>8, <2>9, <2>10 DEF LockInv
<1>29. QED
  BY <1>1, <1>2, <1>3, <1>4, <1>5, <1>6, <1>7, <1>8, <1>9, <1>10, <1>11,
     <1>12, <1>13, <1>14, <1>15, <1>16, <1>17, <1>18, <1>19, <1>20, <1>21,
     <1>22, <1>23, <1>24, <1>25, <1>26, <1>27, <1>28 DEF CheckOwnState,
     EnsurePartner, ClaimSpawnLock, Return

\* No system call has failed so far.
NoFaults == spent["fault"] = 0

\* A step of the environment, when no system call fails.
LEMMA EnvironmentStep ==
  ASSUME TypeOK, LockInv, NEW p \in Proc, Environment(p),
         NoFaults, NoFaults'
  PROVE  LockInv'
<1> DEFINE Shrink == /\ \A s \in Role : Holders(s)' \subseteq Holders(s)
                     /\ \A q \in Proc : pc'[q] \in RoleClaim \ {"openRoleLock"}
                          => /\ pc[q] = pc'[q] /\ role'[q] = role[q]
                             /\ seen'[q] = seen[q] /\ role[q] \in Role
                     /\ roleLock' = roleLock
<1>1. ASSUME Shrink PROVE LockInv'
  <2>1. HolderOwnsLock' /\ StampSound'
    BY <1>1 DEF LockInv, HolderOwnsLock, StampSound
  <2>2. VetSound' /\ RemoveSound'
    BY <1>1 DEF LockInv, VetSound, RemoveSound
  <2>3. QED
    BY <2>1, <2>2 DEF LockInv
<1>2. CASE Launch(p)
  <2>1. pc[p] \in {"dead", "returned"}
    BY <1>2 DEF Launch, Free, Faded
  <2>2. Shrink
    BY <1>2, <2>1 DEF Launch, Goto, files, Holders, TypeOK
  <2>3. QED
    BY <1>1, <2>2
<1>3. ASSUME Die(p) PROVE LockInv'
  <2>1. Shrink
    BY <1>3 DEF Die, files, Holders, TypeOK
  <2>2. QED
    BY <1>1, <2>1
<1>4. CASE Terminate(p) \/ GraceExpires(p)
  <2>1. Shrink
    BY <1>4 DEF Terminate, GraceExpires, files, Holders, TypeOK
  <2>2. QED
    BY <1>1, <2>1
<1>5. CASE Collect(p) \/ Foreign(p) \/ ForeignExits(p)
  <2>1. Shrink
    BY <1>5 DEF Collect, Foreign, ForeignExits, At, Goto, files, locals, Holders,
                TypeOK
  <2>2. QED
    BY <1>1, <2>1
<1>6. ~IOFault(p)
  <2>1. IOFault(p) => spent'["fault"] = spent["fault"] + 1
    BY DEF IOFault, Spend, EnvEvent
  <2>2. QED
    BY <2>1 DEF NoFaults
<1>7. QED
  BY <1>2, <1>3, <1>4, <1>5, <1>6 DEF Environment, Crash, Exit

\* LockInv is inductive while claims are serial and no system call fails.
LEMMA LockInvStep ==
  TypeOK /\ LockInv /\ SerialClaims /\ NoFaults /\ NoFaults' /\ [Next]_vars
    => LockInv'
<1> SUFFICES ASSUME TypeOK, LockInv, SerialClaims, NoFaults, NoFaults', [Next]_vars
             PROVE  LockInv'
  OBVIOUS
<1>1. CASE UNCHANGED vars
  BY <1>1 DEF vars, locals, files, LockInv, HolderOwnsLock, StampSound, VetSound,
     RemoveSound, Holders
<1>2. ASSUME NEW p \in Proc, Step(p) PROVE LockInv'
  BY <1>2, ClaimStep, RunStep DEF Step
<1>3. ASSUME NEW p \in Proc, Environment(p) PROVE LockInv'
  BY <1>3, EnvironmentStep
<1>4. QED
  BY <1>1, <1>2, <1>3 DEF Next

\* claimRole and claimRoleLock: as long as no system call fails and at most one
\* process of a role claims it at a time, every lock file names its holder.
THEOREM HoldersOwnLocks ==
  Spec /\ []SerialClaims /\ []NoFaults => []HolderOwnsLock
<1>1. Init => LockInv
  BY DEF Init, LockInv, HolderOwnsLock, StampSound, VetSound, RemoveSound, Holders
<1>2. LockInv => HolderOwnsLock
  BY DEF LockInv
<1>3. QED
  BY <1>1, <1>2, LockInvStep, Typed, PTL DEF Spec

\* HolderOwnsLock leaves room for one holder.
LEMMA OneHolder == HolderOwnsLock => MutualExclusion
  BY StampedInjective DEF HolderOwnsLock, MutualExclusion

\* Under the same assumptions no two processes hold one role.
THEOREM ExclusiveRoles ==
  Spec /\ []SerialClaims /\ []NoFaults => []MutualExclusion
  BY HoldersOwnLocks, OneHolder, PTL

-----------------------------------------------------------------------------
(* The files do not lie about the living.                                  *)

\* No system call has failed, and no pid still written somewhere was used again.
NoFaultNoReuse == spent["fault"] = 0 /\ spent["reuse"] = 0

\* From the first heartbeat to its removal.
Beating == Holding \ (OwnStateCheck \union RoleRelease)

\* A living process named by a file is at a stage at which it owns the file.
Owns(p) ==
    Alive(p) => \A r \in Role :
        /\ roleLock[r] = StampedFile(p) => role[p] = r /\ pc[p] \in Holding
        /\ beat[r] = p => role[p] = r /\ pc[p] \in Beating
        /\ spawnLock[r] = StampedFile(p) => role[p] = Partner(r) /\ pc[p] \in SpawnSection
FilesInv == NoFaultNoReuse => \A p \in Proc : Owns(p)

\* A lock file that reads as a process's pid is the one it stamped (readPIDFile).
LEMMA ReadStamped ==
  ASSUME NEW f \in LockFile, NEW p \in Proc
  PROVE  ReadPIDFile(f) = p <=> f = StampedFile(p)
  BY NobodyAssumption DEF ReadPIDFile, StampedFile, LockFile

\* A stamped file is that of one process.
LEMMA StampedOthers ==
  /\ \A p, q : StampedFile(p) = StampedFile(q) => p = q
  /\ \A p \in Proc : NoFile # StampedFile(p)
  /\ \A p, q \in Proc : EmptyFile(q) # StampedFile(p)
  BY StampedFacts, StampedInjective

\* A step of one process that stamps no file but with its own pid.
LEMMA OwnsStep ==
  ASSUME TypeOK, \A q \in Proc : Owns(q), NEW p \in Proc, NEW stage, Goto(p, stage),
         role' = role,
         \A r \in Role, q \in Proc \ {p} :
            /\ roleLock'[r] = StampedFile(q) => roleLock[r] = StampedFile(q)
            /\ beat'[r] = q => beat[r] = q
            /\ spawnLock'[r] = StampedFile(q) => spawnLock[r] = StampedFile(q),
         Owns(p)'
  PROVE  \A q \in Proc : Owns(q)'
<1> SUFFICES ASSUME NEW q \in Proc, q # p PROVE Owns(q)'
  OBVIOUS
<1>1. pc'[q] = pc[q] /\ role'[q] = role[q]
  BY DEF Goto, TypeOK
<1>2. Owns(q)
  OBVIOUS
<1>3. QED
  BY <1>1, <1>2 DEF Owns

\* The steps of the program.
LEMMA FilesStep ==
  ASSUME TypeOK, \A q \in Proc : Owns(q), NEW p \in Proc, Step(p), ~Spawn(p)
  PROVE  \A q \in Proc : Owns(q)'
<1>a. Alive(p) => role[p] \in Role /\ Partner(role[p]) \in Role
  BY PartnerIsRole DEF TypeOK
<1>b. Alive(p) => \A r \in Role :
        /\ roleLock[r] = StampedFile(p) => role[p] = r /\ pc[p] \in Holding
        /\ beat[r] = p => role[p] = r /\ pc[p] \in Beating
        /\ spawnLock[r] = StampedFile(p) => role[p] = Partner(r) /\ pc[p] \in SpawnSection
  BY DEF Owns
<1>c. \A r \in Role : /\ ReadPIDFile(roleLock[r]) = p <=> roleLock[r] = StampedFile(p)
                      /\ ReadPIDFile(spawnLock[r]) = p <=> spawnLock[r] = StampedFile(p)
  BY ReadStamped DEF TypeOK
<1>d. \A r \in Role : Partner(r) \in Role /\ Partner(Partner(r)) = r
  BY DEF Role, Partner
<1>1. CASE CreateRoleLock(p)
  <2>1. Owns(p)'
    BY <1>1, <1>a, <1>b, <1>c, <1>d, StampedOthers, NobodyAssumption DEF CreateRoleLock, At, Goto, locals, TypeOK, Owns, Beating
  <2>2. QED
    BY <1>1, <1>a, <2>1, StampedOthers, NobodyAssumption, OwnsStep DEF CreateRoleLock, At, Goto, locals, TypeOK
<1>2. CASE RoleLockTaken(p)
  <2>1. Owns(p)'
    BY <1>2, <1>a, <1>b, <1>c, <1>d, StampedOthers, NobodyAssumption DEF RoleLockTaken, Move, At, Goto, locals, files, TypeOK, Owns, Beating
  <2>2. QED
    BY <1>2, <1>a, <2>1, StampedOthers, NobodyAssumption, OwnsStep DEF RoleLockTaken, Move, At, Goto, locals, files, TypeOK
<1>3. CASE WriteRoleLock(p)
  <2>1. Owns(p)'
    BY <1>3, <1>a, <1>b, <1>c, <1>d, StampedOthers, NobodyAssumption DEF WriteRoleLock, Stamp, claim, At, Goto, TypeOK, Owns, Beating
  <2>2. QED
    BY <1>3, <1>a, <2>1, StampedOthers, NobodyAssumption, OwnsStep DEF WriteRoleLock, Stamp, claim, At, Goto, TypeOK
<1>4. CASE ReadRoleLock(p)
  <2>1. Owns(p)'
    BY <1>4, <1>a, <1>b, <1>c, <1>d, StampedOthers, NobodyAssumption DEF ReadRoleLock, Read, At, See, Goto, files, TypeOK, Owns, Beating
  <2>2. QED
    BY <1>4, <1>a, <2>1, StampedOthers, NobodyAssumption, OwnsStep DEF ReadRoleLock, Read, At, See, Goto, files, TypeOK
<1>5. CASE RoleLockStale(p)
  <2>1. Owns(p)'
    BY <1>5, <1>a, <1>b, <1>c, <1>d, StampedOthers, NobodyAssumption DEF RoleLockStale, Judge, At, Forget, Goto, files, See, TypeOK, Owns, Beating
  <2>2. QED
    BY <1>5, <1>a, <2>1, StampedOthers, NobodyAssumption, OwnsStep DEF RoleLockStale, Judge, At, Forget, Goto, files, See, TypeOK
<1>6. CASE RoleLockMine(p)
  <2>1. Owns(p)'
    BY <1>6, <1>a, <1>b, <1>c, <1>d, StampedOthers, NobodyAssumption DEF RoleLockMine, Judge, At, Forget, Goto, files, See, TypeOK, Owns, Beating
  <2>2. QED
    BY <1>6, <1>a, <2>1, StampedOthers, NobodyAssumption, OwnsStep DEF RoleLockMine, Judge, At, Forget, Goto, files, See, TypeOK
<1>7. CASE RoleLockRefused(p)
  <2>1. Owns(p)'
    BY <1>7, <1>a, <1>b, <1>c, <1>d, StampedOthers, NobodyAssumption DEF RoleLockRefused, Judge, At, Forget, Goto, files, See, TypeOK, Owns, Beating
  <2>2. QED
    BY <1>7, <1>a, <2>1, StampedOthers, NobodyAssumption, OwnsStep DEF RoleLockRefused, Judge, At, Forget, Goto, files, See, TypeOK
<1>8. CASE RemoveRoleLock(p)
  <2>1. Owns(p)'
    BY <1>8, <1>a, <1>b, <1>c, <1>d, StampedOthers, NobodyAssumption DEF RemoveRoleLock, claim, At, Goto, TypeOK, Owns, Beating
  <2>2. QED
    BY <1>8, <1>a, <2>1, StampedOthers, NobodyAssumption, OwnsStep DEF RemoveRoleLock, claim, At, Goto, TypeOK
<1>9. CASE RoleLockBusy(p)
  <2>1. Owns(p)'
    BY <1>9, <1>a, <1>b, <1>c, <1>d, StampedOthers, NobodyAssumption DEF RoleLockBusy, claim, At, Goto, files, TypeOK, Owns, Beating
  <2>2. QED
    BY <1>9, <1>a, <2>1, StampedOthers, NobodyAssumption, OwnsStep DEF RoleLockBusy, claim, At, Goto, files, TypeOK
<1>10. CASE ReadOwnState(p)
  <2>1. Owns(p)'
    BY <1>10, <1>a, <1>b, <1>c, <1>d, StampedOthers, NobodyAssumption DEF ReadOwnState, Read, At, See, Goto, files, TypeOK, Owns, Beating
  <2>2. QED
    BY <1>10, <1>a, <2>1, StampedOthers, NobodyAssumption, OwnsStep DEF ReadOwnState, Read, At, See, Goto, files, TypeOK
<1>11. CASE RoleClaimed(p)
  <2>1. Owns(p)'
    BY <1>11, <1>a, <1>b, <1>c, <1>d, StampedOthers, NobodyAssumption DEF RoleClaimed, Judge, At, Forget, Goto, files, See, TypeOK, Owns, Beating
  <2>2. QED
    BY <1>11, <1>a, <2>1, StampedOthers, NobodyAssumption, OwnsStep DEF RoleClaimed, Judge, At, Forget, Goto, files, See, TypeOK
<1>12. CASE RoleClaimRefused(p)
  <2>1. Owns(p)'
    BY <1>12, <1>a, <1>b, <1>c, <1>d, StampedOthers, NobodyAssumption DEF RoleClaimRefused, Judge, At, Forget, Goto, files, See, TypeOK, Owns, Beating
  <2>2. QED
    BY <1>12, <1>a, <2>1, StampedOthers, NobodyAssumption, OwnsStep DEF RoleClaimRefused, Judge, At, Forget, Goto, files, See, TypeOK
<1>13. CASE WriteOwnState(p)
  <2>1. Owns(p)'
    BY <1>13, <1>a, <1>b, <1>c, <1>d, StampedOthers, NobodyAssumption DEF WriteOwnState, At, Goto, locals, TypeOK, Owns, Beating
  <2>2. QED
    BY <1>13, <1>a, <2>1, StampedOthers, NobodyAssumption, OwnsStep DEF WriteOwnState, At, Goto, locals, TypeOK
<1>14. CASE ReadPartner(p)
  <2>1. Owns(p)'
    BY <1>14, <1>a, <1>b, <1>c, <1>d, StampedOthers, NobodyAssumption DEF ReadPartner, Read, At, See, Goto, files, TypeOK, Owns, Beating
  <2>2. QED
    BY <1>14, <1>a, <2>1, StampedOthers, NobodyAssumption, OwnsStep DEF ReadPartner, Read, At, See, Goto, files, TypeOK
<1>15. CASE PartnerAlive(p)
  <2>1. Owns(p)'
    BY <1>15, <1>a, <1>b, <1>c, <1>d, StampedOthers, NobodyAssumption DEF PartnerAlive, Judge, NoPending, At, Forget, Goto, files, See, TypeOK, Owns, Beating
  <2>2. QED
    BY <1>15, <1>a, <2>1, StampedOthers, NobodyAssumption, OwnsStep DEF PartnerAlive, Judge, NoPending, At, Forget, Goto, files, See, TypeOK
<1>16. CASE AwaitPartner(p)
  <2>1. Owns(p)'
    BY <1>16, <1>a, <1>b, <1>c, <1>d, StampedOthers, NobodyAssumption DEF AwaitPartner, Judge, At, Forget, Goto, files, See, TypeOK, Owns, Beating
  <2>2. QED
    BY <1>16, <1>a, <2>1, StampedOthers, NobodyAssumption, OwnsStep DEF AwaitPartner, Judge, At, Forget, Goto, files, See, TypeOK
<1>17. CASE PartnerGone(p)
  <2>1. Owns(p)'
    BY <1>17, <1>a, <1>b, <1>c, <1>d, StampedOthers, NobodyAssumption DEF PartnerGone, Judge, NoPending, At, Forget, Goto, files, See, TypeOK, Owns, Beating
  <2>2. QED
    BY <1>17, <1>a, <2>1, StampedOthers, NobodyAssumption, OwnsStep DEF PartnerGone, Judge, NoPending, At, Forget, Goto, files, See, TypeOK
<1>18. CASE RecheckPartner(p)
  <2>1. Owns(p)'
    BY <1>18, <1>a, <1>b, <1>c, <1>d, StampedOthers, NobodyAssumption DEF RecheckPartner, Read, At, See, Goto, files, TypeOK, Owns, Beating
  <2>2. QED
    BY <1>18, <1>a, <2>1, StampedOthers, NobodyAssumption, OwnsStep DEF RecheckPartner, Read, At, See, Goto, files, TypeOK
<1>19. CASE PartnerReturned(p)
  <2>1. Owns(p)'
    BY <1>19, <1>a, <1>b, <1>c, <1>d, StampedOthers, NobodyAssumption DEF PartnerReturned, Judge, NoPending, At, Forget, Goto, files, See, TypeOK, Owns, Beating
  <2>2. QED
    BY <1>19, <1>a, <2>1, StampedOthers, NobodyAssumption, OwnsStep DEF PartnerReturned, Judge, NoPending, At, Forget, Goto, files, See, TypeOK
<1>20. CASE PartnerStillGone(p)
  <2>1. Owns(p)'
    BY <1>20, <1>a, <1>b, <1>c, <1>d, StampedOthers, NobodyAssumption DEF PartnerStillGone, Judge, At, Forget, Goto, files, See, TypeOK, Owns, Beating
  <2>2. QED
    BY <1>20, <1>a, <2>1, StampedOthers, NobodyAssumption, OwnsStep DEF PartnerStillGone, Judge, At, Forget, Goto, files, See, TypeOK
<1>21. CASE ReleaseSpawnLock(p)
  <2>1. Owns(p)'
    BY <1>21, <1>a, <1>b, <1>c, <1>d, StampedOthers, NobodyAssumption DEF ReleaseSpawnLock, Move, AfterSpawnSection, At, Goto, locals, files, TypeOK, Owns, Beating
  <2>2. QED
    BY <1>21, <1>a, <2>1, StampedOthers, NobodyAssumption, OwnsStep DEF ReleaseSpawnLock, Move, AfterSpawnSection, At, Goto, locals, files, TypeOK
<1>22. CASE UnlinkSpawnLock(p)
  <2>1. Owns(p)'
    BY <1>22, <1>a, <1>b, <1>c, <1>d, StampedOthers, NobodyAssumption DEF UnlinkSpawnLock, At, Goto, locals, AfterSpawnSection, TypeOK, Owns, Beating
  <2>2. QED
    BY <1>22, <1>a, <2>1, StampedOthers, NobodyAssumption, OwnsStep DEF UnlinkSpawnLock, At, Goto, locals, AfterSpawnSection, TypeOK
<1>23. CASE CreateSpawnLock(p)
  <2>1. Owns(p)'
    BY <1>23, <1>a, <1>b, <1>c, <1>d, StampedOthers, NobodyAssumption DEF CreateSpawnLock, At, Goto, locals, TypeOK, Owns, Beating
  <2>2. QED
    BY <1>23, <1>a, <2>1, StampedOthers, NobodyAssumption, OwnsStep DEF CreateSpawnLock, At, Goto, locals, TypeOK
<1>24. CASE SpawnLockTaken(p)
  <2>1. Owns(p)'
    BY <1>24, <1>a, <1>b, <1>c, <1>d, StampedOthers, NobodyAssumption DEF SpawnLockTaken, Move, At, Goto, locals, files, TypeOK, Owns, Beating
  <2>2. QED
    BY <1>24, <1>a, <2>1, StampedOthers, NobodyAssumption, OwnsStep DEF SpawnLockTaken, Move, At, Goto, locals, files, TypeOK
<1>25. CASE WriteSpawnLock(p)
  <2>1. Owns(p)'
    BY <1>25, <1>a, <1>b, <1>c, <1>d, StampedOthers, NobodyAssumption DEF WriteSpawnLock, Stamp, claim, At, Goto, TypeOK, Owns, Beating
  <2>2. QED
    BY <1>25, <1>a, <2>1, StampedOthers, NobodyAssumption, OwnsStep DEF WriteSpawnLock, Stamp, claim, At, Goto, TypeOK
<1>26. CASE ReadSpawnLock(p)
  <2>1. Owns(p)'
    BY <1>26, <1>a, <1>b, <1>c, <1>d, StampedOthers, NobodyAssumption DEF ReadSpawnLock, Read, At, See, Goto, files, TypeOK, Owns, Beating
  <2>2. QED
    BY <1>26, <1>a, <2>1, StampedOthers, NobodyAssumption, OwnsStep DEF ReadSpawnLock, Read, At, See, Goto, files, TypeOK
<1>27. CASE SpawnLockStale(p)
  <2>1. Owns(p)'
    BY <1>27, <1>a, <1>b, <1>c, <1>d, StampedOthers, NobodyAssumption DEF SpawnLockStale, Judge, At, Forget, Goto, files, See, TypeOK, Owns, Beating
  <2>2. QED
    BY <1>27, <1>a, <2>1, StampedOthers, NobodyAssumption, OwnsStep DEF SpawnLockStale, Judge, At, Forget, Goto, files, See, TypeOK
<1>28. CASE SpawnLockVetted(p)
  <2>1. Owns(p)'
    BY <1>28, <1>a, <1>b, <1>c, <1>d, StampedOthers, NobodyAssumption DEF SpawnLockVetted, Judge, At, Forget, Goto, files, See, TypeOK, Owns, Beating
  <2>2. QED
    BY <1>28, <1>a, <2>1, StampedOthers, NobodyAssumption, OwnsStep DEF SpawnLockVetted, Judge, At, Forget, Goto, files, See, TypeOK
<1>29. CASE RemoveSpawnLock(p)
  <2>1. Owns(p)'
    BY <1>29, <1>a, <1>b, <1>c, <1>d, StampedOthers, NobodyAssumption DEF RemoveSpawnLock, At, Goto, TypeOK, Owns, Beating
  <2>2. QED
    BY <1>29, <1>a, <2>1, StampedOthers, NobodyAssumption, OwnsStep DEF RemoveSpawnLock, At, Goto, TypeOK
<1>30. CASE SpawnLockBusy(p)
  <2>1. Owns(p)'
    BY <1>30, <1>a, <1>b, <1>c, <1>d, StampedOthers, NobodyAssumption DEF SpawnLockBusy, At, Goto, files, TypeOK, Owns, Beating
  <2>2. QED
    BY <1>30, <1>a, <2>1, StampedOthers, NobodyAssumption, OwnsStep DEF SpawnLockBusy, At, Goto, files, TypeOK
<1>31. CASE Tick(p)
  <2>1. Owns(p)'
    BY <1>31, <1>a, <1>b, <1>c, <1>d, StampedOthers, NobodyAssumption DEF Tick, Move, At, Goto, locals, files, TypeOK, Owns, Beating
  <2>2. QED
    BY <1>31, <1>a, <2>1, StampedOthers, NobodyAssumption, OwnsStep DEF Tick, Move, At, Goto, locals, files, TypeOK
<1>32. CASE ContextDone(p)
  <2>1. Owns(p)'
    BY <1>32, <1>a, <1>b, <1>c, <1>d, StampedOthers, NobodyAssumption DEF ContextDone, Move, At, Goto, locals, files, TypeOK, Owns, Beating
  <2>2. QED
    BY <1>32, <1>a, <2>1, StampedOthers, NobodyAssumption, OwnsStep DEF ContextDone, Move, At, Goto, locals, files, TypeOK
<1>33. CASE RemoveOwnState(p)
  <2>1. Owns(p)'
    BY <1>33, <1>a, <1>b, <1>c, <1>d, StampedOthers, NobodyAssumption DEF RemoveOwnState, Move, At, Goto, locals, files, TypeOK, Owns, Beating
  <2>2. QED
    BY <1>33, <1>a, <2>1, StampedOthers, NobodyAssumption, OwnsStep DEF RemoveOwnState, Move, At, Goto, locals, files, TypeOK
<1>34. CASE EraseOwnState(p)
  <2>1. Owns(p)'
    BY <1>34, <1>a, <1>b, <1>c, <1>d, StampedOthers, NobodyAssumption DEF EraseOwnState, At, Goto, locals, TypeOK, Owns, Beating
  <2>2. QED
    BY <1>34, <1>a, <2>1, StampedOthers, NobodyAssumption, OwnsStep DEF EraseOwnState, At, Goto, locals, TypeOK
<1>35. CASE ReleaseRole(p)
  <2>1. Owns(p)'
    BY <1>35, <1>a, <1>b, <1>c, <1>d, StampedOthers, NobodyAssumption DEF ReleaseRole, Move, At, Goto, locals, files, TypeOK, Owns, Beating
  <2>2. QED
    BY <1>35, <1>a, <2>1, StampedOthers, NobodyAssumption, OwnsStep DEF ReleaseRole, Move, At, Goto, locals, files, TypeOK
<1>36. CASE UnlinkRoleLock(p)
  <2>1. Owns(p)'
    BY <1>36, <1>a, <1>b, <1>c, <1>d, StampedOthers, NobodyAssumption DEF UnlinkRoleLock, At, Goto, locals, TypeOK, Owns, Beating
  <2>2. QED
    BY <1>36, <1>a, <2>1, StampedOthers, NobodyAssumption, OwnsStep DEF UnlinkRoleLock, At, Goto, locals, TypeOK
<1>37. QED
  BY <1>1, <1>2, <1>3, <1>4, <1>5, <1>6, <1>7, <1>8, <1>9, <1>10, <1>11, <1>12, <1>13, <1>14, <1>15, <1>16, <1>17, <1>18, <1>19, <1>20, <1>21, <1>22, <1>23, <1>24, <1>25, <1>26, <1>27, <1>28, <1>29, <1>30, <1>31, <1>32, <1>33, <1>34, <1>35, <1>36 DEF
     Step, ClaimRoleLock, CheckOwnState, EnsurePartner, ClaimSpawnLock, Return

\* What every step of the program has in common, Spawn apart: it moves one process,
\* and is no event of the environment.
LEMMA ProgramStep ==
  ASSUME NEW p \in Proc, Step(p), ~Spawn(p)
  PROVE  /\ UNCHANGED <<role, parent, term, spent>>
         /\ \E stage \in Living : Goto(p, stage)
<1>1. UNCHANGED <<role, parent, term, spent>>
  BY
  DEF Step, ClaimRoleLock, CheckOwnState, EnsurePartner, ClaimSpawnLock, Return,
      CreateRoleLock, RoleLockTaken, WriteRoleLock, ReadRoleLock, RoleLockStale,
      RoleLockMine, RoleLockRefused, RemoveRoleLock, RoleLockBusy, ReadOwnState,
      RoleClaimed, RoleClaimRefused, WriteOwnState, ReadPartner, PartnerAlive,
      AwaitPartner, PartnerGone, CreateSpawnLock, SpawnLockTaken, WriteSpawnLock,
      ReadSpawnLock, SpawnLockStale, SpawnLockVetted, RemoveSpawnLock,
      SpawnLockBusy, RecheckPartner, PartnerReturned, PartnerStillGone,
      ReleaseSpawnLock, UnlinkSpawnLock, Tick, ContextDone, RemoveOwnState,
      EraseOwnState, ReleaseRole, UnlinkRoleLock, Move, Read, Judge, locals, claim
<1>2. \E stage \in Living : Goto(p, stage)
  BY
  DEF Step, ClaimRoleLock, CheckOwnState, EnsurePartner, ClaimSpawnLock, Return,
      CreateRoleLock, RoleLockTaken, WriteRoleLock, ReadRoleLock, RoleLockStale,
      RoleLockMine, RoleLockRefused, RemoveRoleLock, RoleLockBusy, ReadOwnState,
      RoleClaimed, RoleClaimRefused, WriteOwnState, ReadPartner, PartnerAlive,
      AwaitPartner, PartnerGone, CreateSpawnLock, SpawnLockTaken, WriteSpawnLock,
      ReadSpawnLock, SpawnLockStale, SpawnLockVetted, RemoveSpawnLock,
      SpawnLockBusy, RecheckPartner, PartnerReturned, PartnerStillGone,
      ReleaseSpawnLock, UnlinkSpawnLock, Tick, ContextDone, RemoveOwnState,
      EraseOwnState, ReleaseRole, UnlinkRoleLock, Move, Read, Judge, AfterSpawnSection
<1>3. QED
  BY <1>1, <1>2

\* An event is counted.
LEMMA SpendCounts ==
  ASSUME TypeOK, NEW events, Spend(events)
  PROVE  \A e \in EnvEvent : /\ spent[e] \in Nat /\ spent'[e] \in Nat /\ spent[e] <= spent'[e]
                             /\ e \in events => spent'[e] = spent[e] + 1
  BY DEF Spend, TypeOK

\* Events are only counted up.
LEMMA SpentGrows ==
  ASSUME TypeOK, [Next]_vars
  PROVE  \A e \in EnvEvent : /\ spent[e] \in Nat /\ spent'[e] \in Nat
                             /\ spent[e] <= spent'[e]
<1>1. spent' = spent \/ \E events : Spend(events)
  <2>1. ASSUME NEW p \in Proc, Spawn(p) \/ Environment(p)
        PROVE  spent' = spent \/ \E events : Spend(events)
    BY <2>1 DEF Spawn, Environment, Launch, Crash, Terminate, Exit, Collect,
       GraceExpires, Foreign, ForeignExits, IOFault
  <2>2. QED
    BY <2>1, ProgramStep DEF Next, vars
<1>2. QED
  BY <1>1, SpendCounts DEF TypeOK

\* A process that starts is named by no file, unless its pid is used again.
LEMMA FreshOwns ==
  ASSUME TypeOK, NEW p \in Proc, ~Named(p), UNCHANGED files
  PROVE  Owns(p)'
<1>1. \A r \in Role : roleLock[r].owner # p /\ spawnLock[r].owner # p /\ beat[r] # p
  BY DEF Named
<1>2. StampedFile(p).owner = p
  BY DEF StampedFile
<1>3. QED
  BY <1>1, <1>2 DEF Owns, files

\* The environment, and the start of a partner.
LEMMA FilesEnvironment ==
  ASSUME TypeOK, \A q \in Proc : Owns(q), NEW p \in Proc, Environment(p) \/ Spawn(p), NoFaultNoReuse'
  PROVE  \A q \in Proc : Owns(q)'
<1>1. \A events : Spend(events) => events \cap {"fault", "reuse"} = {}
  <2> SUFFICES ASSUME NEW events, Spend(events), NEW e \in events \cap {"fault", "reuse"} PROVE FALSE
    OBVIOUS
  <2>1. spent'[e] > 0
    BY SpendCounts DEF EnvEvent
  <2>2. QED
    BY <2>1 DEF NoFaultNoReuse
<1>2. ASSUME NEW q \in Proc, Alive(q)' => pc'[q] = pc[q] /\ role'[q] = role[q], UNCHANGED files
      PROVE  Owns(q)'
  BY <1>2 DEF Owns, files
<1>3. CASE Launch(p)
  <2>1. ~Named(p) /\ UNCHANGED files
    BY <1>1, <1>3 DEF Launch, Reuse
  <2>2. \A q \in Proc \ {p} : pc'[q] = pc[q] /\ role'[q] = role[q]
    BY <1>3 DEF Launch, Goto, TypeOK
  <2>3. QED
    BY <1>2, <2>1, <2>2, FreshOwns
<1>4. CASE Spawn(p)
  <2>1. PICK child \in Proc : Spawn(p)!2!(child)
    BY <1>4 DEF Spawn
  <2>2. ~Named(child) /\ UNCHANGED files
    BY <1>1, <1>4, <2>1 DEF Spawn, Reuse
  <2>3. /\ \A q \in Proc \ {p, child} : pc'[q] = pc[q] /\ role'[q] = role[q]
        /\ pc[p] = "spawn" /\ pc[child] \in {"dead", "returned"}
    BY <1>4, <2>1 DEF Spawn, At, Free, Faded, TypeOK
  <2>4. pc'[p] = "releaseSpawnLock" /\ role'[p] = role[p]
    BY <2>1, <2>3 DEF TypeOK
  <2>5. Owns(p)'
    BY <2>2, <2>3, <2>4 DEF Owns, Beating, files
  <2>6. QED
    BY <1>2, <2>2, <2>3, <2>5, FreshOwns
<1>5. ASSUME Die(p) PROVE \A q \in Proc : Owns(q)'
  <2>1. \A q \in Proc : Alive(q)' => pc'[q] = pc[q] /\ role'[q] = role[q]
    BY <1>5 DEF Die, TypeOK
  <2>2. QED
    BY <1>2, <1>5, <2>1 DEF Die
<1>6. CASE Terminate(p) \/ GraceExpires(p)
  BY <1>2, <1>6 DEF Terminate, GraceExpires
<1>7. CASE Collect(p) \/ Foreign(p) \/ ForeignExits(p)
  <2>1. \A q \in Proc : Alive(q)' => pc'[q] = pc[q] /\ role'[q] = role[q]
    BY <1>7 DEF Collect, Foreign, ForeignExits, Goto, locals, TypeOK
  <2>2. QED
    BY <1>2, <1>7, <2>1 DEF Collect, Foreign, ForeignExits
<1>8. ~IOFault(p)
  BY <1>1 DEF IOFault
<1>9. QED
  BY <1>3, <1>4, <1>5, <1>6, <1>7, <1>8 DEF Environment, Crash, Exit

\* While no system call fails and no known pid is used again, a living process that
\* a role lock or a heartbeat names holds the role, and one that a spawn lock names
\* is inside ensurePartner's locked section: no way out of Run or of ensurePartner
\* leaves a file behind that names a process which no longer owns it, however often
\* the program is started and killed.
THEOREM FilesNameOwners == Spec => []FilesHonest
<1>1. Init => FilesInv
  BY DEF Init, FilesInv, Owns
<1>2. TypeOK /\ FilesInv /\ [Next]_vars => FilesInv'
  <2> SUFFICES ASSUME TypeOK, FilesInv, [Next]_vars, NoFaultNoReuse'
               PROVE  \A q \in Proc : Owns(q)'
    BY DEF FilesInv
  <2>1. \A q \in Proc : Owns(q)
    BY SpentGrows DEF FilesInv, NoFaultNoReuse, EnvEvent
  <2>2. CASE UNCHANGED vars
    BY <2>1, <2>2 DEF vars, locals, files, Owns
  <2>3. QED
    BY <2>1, <2>2, FilesStep, FilesEnvironment DEF Next, Step
<1>3. TypeOK /\ FilesInv => FilesHonest
  <2> SUFFICES ASSUME TypeOK, FilesInv, spent["fault"] + spent["reuse"] = 0,
                      NEW r \in Role, NEW p \in Proc, Alive(p)
               PROVE  /\ p \in {ReadPIDFile(roleLock[r]), beat[r]} => p \in Holders(r)
                      /\ p = ReadPIDFile(spawnLock[r])
                           => role[p] = Partner(r) /\ pc[p] \in SpawnSection
    BY DEF FilesHonest
  <2>1. NoFaultNoReuse
    BY DEF NoFaultNoReuse, TypeOK, EnvEvent
  <2>2. Owns(p)
    BY <2>1 DEF FilesInv
  <2>3. QED
    BY <2>2, ReadStamped DEF Owns, Holders, Beating, TypeOK
<1>4. QED
  BY <1>1, <1>2, <1>3, Typed, PTL DEF Spec
====
