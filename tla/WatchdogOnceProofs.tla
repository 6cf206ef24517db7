------------------------- MODULE WatchdogOnceProofs -------------------------
(***************************************************************************)
(* The pair when the program is started once, for every number of          *)
(* processes, kills and stops: who holds a role, who claims it and who may *)
(* start its next process.                                                 *)
(*                                                                         *)
(* WatchdogProofs takes it as an assumption that claims of one role do not *)
(* overlap; here it is proved.  The inductive invariant is OnceInv.        *)
(***************************************************************************)
EXTENDS WatchdogProofs

USE DEF PC, Living, Alive, RoleClaim, Holding, OwnStateCheck, Supervision,
        SpawnClaim, SpawnSection, CleanUp, RoleRelease

-----------------------------------------------------------------------------
(* The inductive invariant.                                                *)

\* No system call failed, every spawned process claimed its role in time, and no
\* pid that is still written somewhere named a new process.
Smooth == \A e \in {"fault", "late", "reuse", "foreign"} : spent[e] = 0

\* One start of the service, and any number of kills and stops.
StartedOnce == spent["launch"] <= 1

\* The stages of a process that has not published its heartbeat yet, or
\* publishes it again.
Fresh == RoleClaim \union OwnStateCheck \union {"writeOwnState"}

\* From claimRoleLock to the end of removeOwnState.
Standing == (RoleClaim \union Holding) \ RoleRelease
Stands(r) == {p \in Proc : pc[p] \in Standing /\ role[p] = r}

OneStands == \A r \in Role : \A p, q \in Stands(r) : p = q

\* From the decision to spawn a partner to the spawn.
Spawning == SpawnClaim \union {"recheckPartner", "vetRecheck", "spawn"}

\* What a process knows at its present stage.
Knows(p) ==
    LET r == role[p]
        other == Partner(r)
    IN /\ pc[p] \in Standing \ Fresh => beat[r] = p
       /\ pc[p] = "vetOwnState" => seen[p] = p \/ ~Exists(seen[p])
       /\ pc[p] \in Spawning => pending[p] = NoPending
       /\ pc[p] = "vetRecheck" => /\ beat[other] \in {seen[p], Nobody}
                                  /\ \A c \in Stands(other) : seen[p] = c
       /\ pc[p] = "spawn" => Stands(other) = {} /\ ~Exists(beat[other])

\* A process that has not published its heartbeat is the one its partner waits
\* for.
Awaits(p, c) ==
    /\ beat[role[p]] = p
    /\ pending[p] = [pid |-> c, open |-> TRUE]
    /\ pc[p] = "vetPartner" => ~Exists(seen[p])
Awaited ==
    \A r \in Role : \A c \in Stands(r) : beat[r] # c =>
        /\ ~Exists(beat[r])
        /\ \A p \in Stands(Partner(r)) : Awaits(p, c)

NotStarted ==
    spent["launch"] = 0 =>
        (\A p \in Proc : pc[p] = "dead") /\ \A r \in Role : beat[r] = Nobody

OnceInv == OneStands /\ (\A p \in Proc : Knows(p)) /\ Awaited /\ NotStarted

-----------------------------------------------------------------------------
(* Steps.                                                                  *)

\* There are two roles.
LEMMA TwoRoles ==
  \A r \in Role : Partner(r) \in Role /\ Partner(r) # r /\ Partner(Partner(r)) = r
  BY DEF Role, Partner

\* Only the start of the service, or a spawn, ends the time before the start.
LEMMA StartedFact == ASSUME NotStarted, NEW p \in Proc, pc[p] # "dead" PROVE spent["launch"] # 0
  BY DEF NotStarted

\* A step after which no process stands anew, and those that stand know what they
\* knew.
LEMMA ShrinkStep ==
  ASSUME TypeOK, OnceInv, beat' = beat,
         \A q \in Proc : pc'[q] \in Standing =>
            /\ pc'[q] = pc[q] /\ role'[q] = role[q]
            /\ seen'[q] = seen[q] /\ pending'[q] = pending[q],
         \A q \in Proc : pc[q] = "dead" => pc'[q] = "dead",
         NotStarted'
  PROVE  OnceInv'
<1>1. \A r \in Role : Stands(r)' \subseteq Stands(r)
  BY DEF Stands
<1>2. \A q \in Pid : Exists(q)' => Exists(q)
  BY DEF Exists, Pid
<1>3. \A q \in Proc : pc[q] \in Standing => role[q] \in Role /\ Partner(role[q]) \in Role
  BY TwoRoles DEF TypeOK, Standing
<1>4. OneStands'
  BY <1>1 DEF OnceInv, OneStands
<1>5. ASSUME NEW p \in Proc PROVE Knows(p)'
  <2>1. CASE pc'[p] \in Standing
    <3>1. Knows(p)
      BY DEF OnceInv
    <3>2. /\ pc'[p] = pc[p] /\ role'[p] = role[p]
          /\ seen'[p] = seen[p] /\ pending'[p] = pending[p]
      BY <2>1
    <3>3. seen[p] \in Pid /\ \A r \in Role : beat[r] \in Pid
      BY DEF TypeOK
    <3>4. role[p] \in Role /\ Partner(role[p]) \in Role
      BY <1>3, <2>1, <3>2
    <3>5. QED
      BY <1>1, <1>2, <3>1, <3>2, <3>3, <3>4 DEF Knows
  <2>2. CASE pc'[p] \notin Standing
    BY <2>2 DEF Knows, Standing, Spawning
  <2>3. QED
    BY <2>1, <2>2
<1>6. Awaited'
  <2> SUFFICES ASSUME NEW r \in Role, NEW c \in Stands(r)', beat[r] # c
               PROVE  /\ ~Exists(beat[r])'
                      /\ \A p \in Stands(Partner(r))' : Awaits(p, c)'
    BY DEF Awaited
  <2>1. c \in Stands(r) /\ Partner(r) \in Role /\ beat[r] \in Pid
    BY <1>1, TwoRoles DEF TypeOK
  <2>2. ~Exists(beat[r])'
    BY <1>2, <2>1 DEF OnceInv, Awaited, Exists
  <2>3. ASSUME NEW p \in Stands(Partner(r))' PROVE Awaits(p, c)'
    <3>1. p \in Stands(Partner(r)) /\ p \in Proc /\ pc'[p] \in Standing
      BY <1>1, <2>1, <2>3 DEF Stands
    <3>2. Awaits(p, c)
      BY <2>1, <3>1 DEF OnceInv, Awaited
    <3>3. seen[p] \in Pid
      BY <3>1 DEF TypeOK
    <3>4. QED
      BY <1>2, <3>1, <3>2, <3>3 DEF Awaits
  <2>4. QED
    BY <2>2, <2>3
<1>7. QED
  BY <1>4, <1>5, <1>6 DEF OnceInv

\* A step of a process that goes on standing and writes no heartbeat.
LEMMA LocalStep ==
  ASSUME TypeOK, OnceInv, NEW p \in Proc, NEW stage \in Standing, Goto(p, stage),
         pc[p] \in Standing,
         \A q \in Proc \ {p} : seen'[q] = seen[q] /\ pending'[q] = pending[q],
         UNCHANGED <<role, beat, spent>>,
         Knows(p)',
         \A c \in Stands(Partner(role[p])) : beat[Partner(role[p])] # c =>
            pending'[p] = pending[p] /\ (stage = "vetPartner" => ~Exists(seen'[p]))
  PROVE  OnceInv'
<1>1. /\ role[p] \in Role
      /\ Partner(role[p]) \in Role /\ Partner(Partner(role[p])) = role[p]
  BY TwoRoles DEF TypeOK, Standing
<1>2. \A r : Stands(r)' = Stands(r)
  BY DEF Stands, Goto, TypeOK
<1>3. \A q : Exists(q)' = Exists(q)
  BY DEF Exists, Goto, TypeOK, Standing
<1>4. \A q \in Proc \ {p} : pc'[q] = pc[q] /\ seen'[q] = seen[q] /\ pending'[q] = pending[q]
  BY DEF Goto, TypeOK
<1>5. OneStands'
  BY <1>2 DEF OnceInv, OneStands
<1>6. ASSUME NEW q \in Proc PROVE Knows(q)'
  <2>1. CASE q = p
    BY <2>1
  <2>2. CASE q # p
    BY <1>2, <1>3, <1>4, <2>2 DEF OnceInv, Knows
  <2>3. QED
    BY <2>1, <2>2
<1>7. Awaited'
  <2> SUFFICES ASSUME NEW r \in Role, NEW c \in Stands(r), beat[r] # c
               PROVE  /\ ~Exists(beat[r])'
                      /\ \A q \in Stands(Partner(r)) : Awaits(q, c)'
    BY <1>2 DEF Awaited
  <2>1. ~Exists(beat[r])'
    BY <1>3 DEF OnceInv, Awaited
  <2>2. ASSUME NEW q \in Stands(Partner(r)) PROVE Awaits(q, c)'
    <3>1. Awaits(q, c) /\ q \in Proc /\ role[q] = Partner(r)
      BY <2>2 DEF OnceInv, Awaited, Stands
    <3>2. CASE q # p
      BY <1>3, <1>4, <3>1, <3>2 DEF Awaits
    <3>3. CASE q = p
      <4>1. Partner(role[p]) = r
        BY <1>1, <3>1, <3>3, TwoRoles
      <4>2. pending'[p] = pending[p] /\ (stage = "vetPartner" => ~Exists(seen'[p]))
        BY <4>1
      <4>3. QED
        BY <1>3, <3>1, <3>3, <4>2 DEF Awaits, Goto, TypeOK
    <3>4. QED
      BY <3>2, <3>3
  <2>3. QED
    BY <2>1, <2>2
<1>8. NotStarted'
  BY StartedFact DEF OnceInv, NotStarted, Standing
<1>9. QED
  BY <1>5, <1>6, <1>7, <1>8 DEF OnceInv

\* claimRoleLock and the return of a process from Run.
LEMMA ClaimOnce ==
  ASSUME TypeOK, OnceInv, NEW p \in Proc, ClaimRoleLock(p)
  PROVE  OnceInv'
<1>1. pc[p] \in RoleClaim /\ UNCHANGED <<role, pending, beat, spent>>
  BY DEF ClaimRoleLock, CreateRoleLock, RoleLockTaken, WriteRoleLock,
         ReadRoleLock, RoleLockStale, RoleLockMine, RoleLockRefused,
         RemoveRoleLock, RoleLockBusy, At, Move, Read, Judge, claim, locals, files
<1>2. \E stage \in RoleClaim \union {"readOwnState", "returned"} : Goto(p, stage)
  BY DEF ClaimRoleLock, CreateRoleLock, RoleLockTaken, WriteRoleLock,
         ReadRoleLock, RoleLockStale, RoleLockMine, RoleLockRefused,
         RemoveRoleLock, RoleLockBusy, At, Move, Read, Judge
<1>3. \A q \in Proc \ {p} : seen'[q] = seen[q]
  BY DEF ClaimRoleLock, CreateRoleLock, RoleLockTaken, WriteRoleLock,
         ReadRoleLock, RoleLockStale, RoleLockMine, RoleLockRefused,
         RemoveRoleLock, RoleLockBusy, Move, Read, Judge, claim, locals, See, Forget, TypeOK
<1>4. ASSUME NEW stage \in RoleClaim \union {"readOwnState"}, Goto(p, stage) PROVE OnceInv'
  <2>1. Knows(p)'
    BY <1>4 DEF Knows, Goto, TypeOK, Spawning, Fresh, Standing
  <2>2. stage \in Standing /\ pc[p] \in Standing /\ stage # "vetPartner"
    BY <1>1, <1>4 DEF Standing
  <2>3. QED
    BY <1>1, <1>3, <1>4, <2>1, <2>2, LocalStep
<1>5. CASE Goto(p, "returned")
  <2>1. NotStarted'
    BY <1>1, StartedFact DEF OnceInv, NotStarted
  <2>2. QED
    BY <1>1, <1>3, <1>5, <2>1, ShrinkStep DEF Goto, TypeOK, Standing
<1>6. QED
  BY <1>2, <1>4, <1>5

\* The heartbeat is published: WriteOwnState.
LEMMA PublishOnce ==
  ASSUME TypeOK, OnceInv, NEW p \in Proc, WriteOwnState(p), pc[p] \in Holding,
         NEW r \in Role, r = role[p], NEW other, other = Partner(r)
  PROVE  OnceInv'
<1>a. other \in Role /\ Partner(other) = r /\ other # r
  BY TwoRoles
<1>c. NotStarted
  BY DEF OnceInv
<1>e. pc[p] \in Standing =>
        /\ \A c \in Stands(other) : beat[other] # c => ~Exists(beat[other]) /\ Awaits(p, c)
  BY <1>a DEF OnceInv, Awaited, Stands
<1>1. pc[p] = "writeOwnState" /\ p \in Stands(r)
  BY DEF WriteOwnState, At, Stands, Standing
<1>2. /\ beat' = [beat EXCEPT ![r] = p] /\ pc' = [pc EXCEPT ![p] = "readPartner"]
      /\ UNCHANGED <<role, pending, seen, spent>>
  BY DEF WriteOwnState, Goto, locals
<1>3. \A s : Stands(s)' = Stands(s)
  BY <1>1, <1>2 DEF Stands, Standing, TypeOK
<1>4. /\ beat'[r] = p /\ beat'[other] = beat[other]
      /\ \A s \in Role : s \in {r, other}
  BY <1>a, <1>1, <1>2 DEF TypeOK, Role, Partner
<1>5. \A q \in Pid : Exists(q)' = Exists(q)
  BY <1>1, <1>2 DEF Exists, TypeOK, Pid
<1>6. OneStands'
  BY <1>3 DEF OnceInv, OneStands
<1>7. ASSUME NEW q \in Proc PROVE Knows(q)'
  <2>1. CASE q = p
    BY <1>1, <1>2, <1>4, <2>1 DEF Knows, TypeOK, Spawning
  <2>2. CASE pc[q] \notin Standing
    BY <1>1, <1>2, <2>2 DEF Knows, TypeOK, Spawning, Standing
  <2>3. CASE q # p /\ pc[q] \in Standing
    <3>1. q \in Stands(role[q]) /\ role[q] \in Role /\ role[q] # r
      BY <1>1, <2>3 DEF Stands, OnceInv, OneStands, TypeOK, Standing
    <3>2. role[q] = other /\ Partner(role[q]) = r
      BY <1>a, <1>1, <1>4, <3>1
    <3>3. Knows(q) /\ pc'[q] = pc[q] /\ seen[q] \in Pid
      BY <1>2, <2>3 DEF OnceInv, TypeOK
    <3>4. QED
      BY <1>1, <1>2, <1>3, <1>4, <1>5, <3>2, <3>3 DEF Knows
  <2>4. QED
    BY <2>1, <2>2, <2>3
<1>8. Awaited'
  <2> SUFFICES ASSUME NEW c \in Stands(other), beat[other] # c
               PROVE  /\ ~Exists(beat[other])'
                      /\ \A q \in Stands(r) : Awaits(q, c)'
    <3>1. \A c \in Stands(r) : c = p
      BY <1>a, <1>1 DEF OnceInv, OneStands
    <3>2. Partner(other) = r
      BY <1>a, <1>1
    <3>3. ASSUME NEW s \in Role, NEW c \in Stands(s), beat'[s] # c
          PROVE  s = other /\ beat[other] # c
      BY <1>4, <3>1, <3>3
    <3>4. QED
      BY <1>3, <3>2, <3>3 DEF Awaited
  <2>1. ~Exists(beat[other]) /\ Awaits(p, c) /\ beat[other] \in Pid
    BY <1>a, <1>e, <1>1 DEF TypeOK, Standing
  <2>2. \A q \in Stands(r) : q = p
    BY <1>a, <1>1 DEF OnceInv, OneStands
  <2>3. Awaits(p, c)'
    BY <1>1, <1>2, <1>4, <2>1 DEF Awaits, TypeOK
  <2>4. QED
    BY <1>4, <1>5, <2>1, <2>2, <2>3 DEF Exists, Awaits
<1>9. NotStarted'
  BY <1>c, <1>1, <1>2, StartedFact DEF NotStarted
<1>10. QED
  BY <1>6, <1>7, <1>8, <1>9 DEF OnceInv

\* The heartbeat is removed: EraseOwnState.
LEMMA EraseOnce ==
  ASSUME TypeOK, OnceInv, NEW p \in Proc, EraseOwnState(p), pc[p] \in Holding,
         NEW r \in Role, r = role[p], NEW other, other = Partner(r)
  PROVE  OnceInv'
<1>a. other \in Role /\ Partner(other) = r /\ other # r
  BY TwoRoles
<1>c. NotStarted
  BY DEF OnceInv
<1>e. pc[p] \in Standing =>
        /\ \A c \in Stands(other) : beat[other] # c => ~Exists(beat[other]) /\ Awaits(p, c)
  BY <1>a DEF OnceInv, Awaited, Stands
<1>1. pc[p] = "eraseOwnState" /\ p \in Stands(r)
  BY DEF EraseOwnState, At, Stands, Standing
<1>2. /\ beat' = [beat EXCEPT ![r] = Nobody] /\ pc' = [pc EXCEPT ![p] = "releaseRole"]
      /\ UNCHANGED <<role, pending, seen, spent>>
  BY DEF EraseOwnState, Goto, locals
<1>3. Stands(r)' = {} /\ Stands(other)' = Stands(other)
  BY <1>a, <1>1, <1>2 DEF Stands, Standing, TypeOK, OnceInv, OneStands
<1>4. /\ beat'[r] = Nobody /\ beat'[other] = beat[other]
      /\ \A s \in Role : s \in {r, other}
  BY <1>a, <1>1, <1>2 DEF TypeOK, Role, Partner
<1>5. \A q \in Pid : Exists(q)' = Exists(q)
  BY <1>1, <1>2 DEF Exists, TypeOK, Pid
<1>6. OneStands'
  <2>1. ASSUME NEW s \in Role, NEW x \in Stands(s)', NEW y \in Stands(s)' PROVE x = y
    BY <1>3, <1>4, <2>1 DEF OnceInv, OneStands
  <2>2. QED
    BY <2>1 DEF OneStands
<1>7. ASSUME NEW q \in Proc PROVE Knows(q)'
  <2>1. CASE q = p \/ pc[q] \notin Standing
    BY <1>1, <1>2, <2>1 DEF Knows, TypeOK, Spawning, Standing
  <2>3. CASE q # p /\ pc[q] \in Standing
    <3>1. q \in Stands(role[q]) /\ role[q] \in Role /\ role[q] # r
      BY <1>1, <2>3 DEF Stands, OnceInv, OneStands, TypeOK, Standing
    <3>2. role[q] = other /\ Partner(role[q]) = r
      BY <1>a, <1>1, <1>4, <3>1
    <3>3. Knows(q) /\ pc'[q] = pc[q] /\ seen[q] \in Pid
      BY <1>2, <2>3 DEF OnceInv, TypeOK
    <3>4. QED
      BY <1>1, <1>2, <1>3, <1>4, <1>5, <3>2, <3>3 DEF Knows
  <2>4. QED
    BY <2>1, <2>3
<1>8. Awaited'
  <2>1. beat[other] \in Pid
    BY <1>a, <1>1 DEF TypeOK
  <2>2. \A c \in Stands(other) : beat[other] # c => ~Exists(beat[other])
    BY <1>e, <1>1 DEF Standing
  <2>3. ASSUME NEW s \in Role, NEW c \in Stands(s)', beat'[s] # c
        PROVE  s = other /\ c \in Stands(other) /\ beat[other] # c
    BY <1>3, <1>4, <2>3
  <2>4. Stands(Partner(other))' = {}
    BY <1>a, <1>1, <1>3
  <2>5. ASSUME NEW s \in Role, NEW c \in Stands(s)', beat'[s] # c
        PROVE  ~Exists(beat[s])' /\ Stands(Partner(s))' = {}
    BY <1>4, <1>5, <2>1, <2>2, <2>3, <2>4, <2>5 DEF Exists
  <2>6. QED
    BY <2>5 DEF Awaited
<1>9. NotStarted'
  BY <1>c, <1>1, <1>2, StartedFact DEF NotStarted
<1>10. QED
  BY <1>6, <1>7, <1>8, <1>9 DEF OnceInv

\* The rest of claimRole, Run's loop and its defers, the spawn apart.
LEMMA RunOnce ==
  ASSUME TypeOK, OnceInv, NEW p \in Proc,
         CheckOwnState(p) \/ WriteOwnState(p) \/ EnsurePartner(p) \/ Tick(p)
           \/ Return(p), ~Spawn(p)
  PROVE  OnceInv'
<1> DEFINE r == role[p]
           other == Partner(r)
<1>a. pc[p] \in Holding => r \in Role /\ other \in Role /\ Partner(other) = r /\ other # r
  BY TwoRoles DEF TypeOK
<1>b. Knows(p)
  BY DEF OnceInv
<1>c. pc[p] \in Holding => NotStarted
  BY DEF OnceInv
<1>d. seen[p] \in Pid /\ pending[p] \in [pid : Pid, open : BOOLEAN]
  BY DEF TypeOK
<1>e. ASSUME pc[p] \in Standing
      PROVE  /\ \A c \in Stands(other) : beat[other] # c => ~Exists(beat[other]) /\ Awaits(p, c)
             /\ beat[r] # p => ~Exists(beat[r])
             /\ \A c \in Stands(other) : c \in Proc /\ Exists(c)
  <2>1. r \in Role /\ other \in Role /\ Partner(other) = r
    BY <1>a, <1>e, TwoRoles DEF TypeOK, Standing
  <2>2. p \in Stands(r)
    BY <1>e DEF Stands
  <2>3. \A c \in Stands(other) : c \in Proc /\ Exists(c)
    BY NobodyAssumption DEF Stands, Exists, Standing
  <2>4. QED
    BY <2>1, <2>2, <2>3 DEF OnceInv, Awaited
<1>f. pc[p] \in Spawning => \A c \in Stands(other) : beat[other] = c
  <2> SUFFICES ASSUME pc[p] \in Spawning, NEW c \in Stands(other), beat[other] # c PROVE FALSE
    OBVIOUS
  <2>1. pc[p] \in Standing /\ pending[p] = NoPending
    BY <1>b DEF Knows, Spawning, Standing
  <2>2. pending[p].open = TRUE
    BY <1>e, <2>1 DEF Awaits
  <2>3. QED
    BY <2>1, <2>2 DEF NoPending
<1>1. CASE ReadOwnState(p)
  <2>1. Knows(p)'
    BY <1>1, <1>a, <1>b, <1>d, <1>e, <1>f DEF ReadOwnState, Read, At, See, Goto, files, TypeOK, Knows, Spawning, Fresh,
       Standing, Exists
  <2>2. \A c \in Stands(other) : beat[other] # c =>
            pending'[p] = pending[p] /\ (pc'[p] = "vetPartner" => ~Exists(seen'[p]))
    BY <1>1, <1>b, <1>d, <1>e, <1>f DEF ReadOwnState, Read, At, See, Goto, files, TypeOK, Knows, Spawning, Standing
  <2>3. QED
    BY <1>1, <2>1, <2>2, LocalStep DEF ReadOwnState, Read, At, See, Goto, files, TypeOK, Standing
<1>2. CASE RoleClaimed(p)
  <2>1. Knows(p)'
    BY <1>2, <1>a, <1>b, <1>d, <1>e, <1>f DEF RoleClaimed, Judge, At, Forget, Goto, files, See, TypeOK, Knows, Spawning, Fresh,
       Standing, Exists
  <2>2. \A c \in Stands(other) : beat[other] # c =>
            pending'[p] = pending[p] /\ (pc'[p] = "vetPartner" => ~Exists(seen'[p]))
    BY <1>2, <1>b, <1>d, <1>e, <1>f DEF RoleClaimed, Judge, At, Forget, Goto, files, See, TypeOK, Knows, Spawning, Standing
  <2>3. QED
    BY <1>2, <2>1, <2>2, LocalStep DEF RoleClaimed, Judge, At, Forget, Goto, files, See, TypeOK, Standing
<1>3. CASE ReadPartner(p)
  <2>1. Knows(p)'
    BY <1>3, <1>a, <1>b, <1>d, <1>e, <1>f DEF ReadPartner, Read, At, See, Goto, files, TypeOK, Knows, Spawning, Fresh,
       Standing, Exists
  <2>2. \A c \in Stands(other) : beat[other] # c =>
            pending'[p] = pending[p] /\ (pc'[p] = "vetPartner" => ~Exists(seen'[p]))
    BY <1>3, <1>b, <1>d, <1>e, <1>f DEF ReadPartner, Read, At, See, Goto, files, TypeOK, Knows, Spawning, Standing, Exists
  <2>3. QED
    BY <1>3, <2>1, <2>2, LocalStep DEF ReadPartner, Read, At, See, Goto, files, TypeOK, Standing
<1>4. CASE PartnerAlive(p)
  <2>1. Knows(p)'
    BY <1>4, <1>a, <1>b, <1>d, <1>e, <1>f DEF PartnerAlive, Judge, At, Forget, Goto, files, See, TypeOK, Knows, Spawning, Fresh,
       Standing, Exists
  <2>2. \A c \in Stands(other) : beat[other] # c =>
            pending'[p] = pending[p] /\ (pc'[p] = "vetPartner" => ~Exists(seen'[p]))
    BY <1>4, <1>b, <1>d, <1>e, <1>f DEF PartnerAlive, Judge, At, Forget, Goto, files, See, TypeOK, Knows, Spawning, Standing, Exists, Awaits
  <2>3. QED
    BY <1>4, <2>1, <2>2, LocalStep DEF PartnerAlive, Judge, At, Forget, Goto, files, See, TypeOK, Standing
<1>5. CASE AwaitPartner(p)
  <2>1. Knows(p)'
    BY <1>5, <1>a, <1>b, <1>d, <1>e, <1>f DEF AwaitPartner, Judge, At, Forget, Goto, files, See, TypeOK, Knows, Spawning, Fresh,
       Standing, Exists
  <2>2. \A c \in Stands(other) : beat[other] # c =>
            pending'[p] = pending[p] /\ (pc'[p] = "vetPartner" => ~Exists(seen'[p]))
    BY <1>5, <1>b, <1>d, <1>e, <1>f DEF AwaitPartner, Judge, At, Forget, Goto, files, See, TypeOK, Knows, Spawning, Standing
  <2>3. QED
    BY <1>5, <2>1, <2>2, LocalStep DEF AwaitPartner, Judge, At, Forget, Goto, files, See, TypeOK, Standing
<1>6. CASE PartnerGone(p)
  <2>1. Knows(p)'
    BY <1>6, <1>a, <1>b, <1>d, <1>e, <1>f DEF PartnerGone, Judge, At, Forget, Goto, files, See, TypeOK, Knows, Spawning, Fresh,
       Standing, Exists
  <2>2. \A c \in Stands(other) : beat[other] # c =>
            pending'[p] = pending[p] /\ (pc'[p] = "vetPartner" => ~Exists(seen'[p]))
    BY <1>6, <1>b, <1>d, <1>e, <1>f DEF PartnerGone, Judge, At, Forget, Goto, files, See, TypeOK, Knows, Spawning, Standing, Exists, PartnerStarting, Awaits, NoPending
  <2>3. QED
    BY <1>6, <2>1, <2>2, LocalStep DEF PartnerGone, Judge, At, Forget, Goto, files, See, TypeOK, Standing
<1>7. CASE CreateSpawnLock(p)
  <2>1. Knows(p)'
    BY <1>7, <1>a, <1>b, <1>d, <1>e, <1>f DEF CreateSpawnLock, At, Goto, EmptyFile, NoFile, locals, TypeOK, Knows, Spawning, Fresh,
       Standing, Exists
  <2>2. \A c \in Stands(other) : beat[other] # c =>
            pending'[p] = pending[p] /\ (pc'[p] = "vetPartner" => ~Exists(seen'[p]))
    BY <1>7, <1>b, <1>d, <1>e, <1>f DEF CreateSpawnLock, At, Goto, EmptyFile, NoFile, locals, TypeOK, Knows, Spawning, Standing
  <2>3. QED
    BY <1>7, <2>1, <2>2, LocalStep DEF CreateSpawnLock, At, Goto, EmptyFile, NoFile, locals, TypeOK, Standing
<1>8. CASE SpawnLockTaken(p)
  <2>1. Knows(p)'
    BY <1>8, <1>a, <1>b, <1>d, <1>e, <1>f DEF SpawnLockTaken, Move, NoFile, At, Goto, locals, files, TypeOK, Knows, Spawning, Fresh,
       Standing, Exists
  <2>2. \A c \in Stands(other) : beat[other] # c =>
            pending'[p] = pending[p] /\ (pc'[p] = "vetPartner" => ~Exists(seen'[p]))
    BY <1>8, <1>b, <1>d, <1>e, <1>f DEF SpawnLockTaken, Move, NoFile, At, Goto, locals, files, TypeOK, Knows, Spawning, Standing
  <2>3. QED
    BY <1>8, <2>1, <2>2, LocalStep DEF SpawnLockTaken, Move, NoFile, At, Goto, locals, files, TypeOK, Standing
<1>9. CASE WriteSpawnLock(p)
  <2>1. Knows(p)'
    BY <1>9, <1>a, <1>b, <1>d, <1>e, <1>f DEF WriteSpawnLock, Stamp, claim, At, Goto, EmptyFile, StampedFile, TypeOK, Knows, Spawning, Fresh,
       Standing, Exists
  <2>2. \A c \in Stands(other) : beat[other] # c =>
            pending'[p] = pending[p] /\ (pc'[p] = "vetPartner" => ~Exists(seen'[p]))
    BY <1>9, <1>b, <1>d, <1>e, <1>f DEF WriteSpawnLock, Stamp, claim, At, Goto, EmptyFile, StampedFile, TypeOK, Knows, Spawning, Standing
  <2>3. QED
    BY <1>9, <2>1, <2>2, LocalStep DEF WriteSpawnLock, Stamp, claim, At, Goto, EmptyFile, StampedFile, TypeOK, Standing
<1>10. CASE ReadSpawnLock(p)
  <2>1. Knows(p)'
    BY <1>10, <1>a, <1>b, <1>d, <1>e, <1>f DEF ReadSpawnLock, Read, ReadPIDFile, At, See, Goto, files, TypeOK, Knows, Spawning, Fresh,
       Standing, Exists
  <2>2. \A c \in Stands(other) : beat[other] # c =>
            pending'[p] = pending[p] /\ (pc'[p] = "vetPartner" => ~Exists(seen'[p]))
    BY <1>10, <1>b, <1>d, <1>e, <1>f DEF ReadSpawnLock, Read, ReadPIDFile, At, See, Goto, files, TypeOK, Knows, Spawning, Standing
  <2>3. QED
    BY <1>10, <2>1, <2>2, LocalStep DEF ReadSpawnLock, Read, ReadPIDFile, At, See, Goto, files, TypeOK, Standing
<1>11. CASE SpawnLockStale(p)
  <2>1. Knows(p)'
    BY <1>11, <1>a, <1>b, <1>d, <1>e, <1>f DEF SpawnLockStale, Judge, At, Forget, Goto, files, See, TypeOK, Knows, Spawning, Fresh,
       Standing, Exists
  <2>2. \A c \in Stands(other) : beat[other] # c =>
            pending'[p] = pending[p] /\ (pc'[p] = "vetPartner" => ~Exists(seen'[p]))
    BY <1>11, <1>b, <1>d, <1>e, <1>f DEF SpawnLockStale, Judge, At, Forget, Goto, files, See, TypeOK, Knows, Spawning, Standing
  <2>3. QED
    BY <1>11, <2>1, <2>2, LocalStep DEF SpawnLockStale, Judge, At, Forget, Goto, files, See, TypeOK, Standing
<1>12. CASE SpawnLockVetted(p)
  <2>1. Knows(p)'
    BY <1>12, <1>a, <1>b, <1>d, <1>e, <1>f DEF SpawnLockVetted, Judge, At, Forget, Goto, files, See, TypeOK, Knows, Spawning, Fresh,
       Standing, Exists
  <2>2. \A c \in Stands(other) : beat[other] # c =>
            pending'[p] = pending[p] /\ (pc'[p] = "vetPartner" => ~Exists(seen'[p]))
    BY <1>12, <1>b, <1>d, <1>e, <1>f DEF SpawnLockVetted, Judge, At, Forget, Goto, files, See, TypeOK, Knows, Spawning, Standing
  <2>3. QED
    BY <1>12, <2>1, <2>2, LocalStep DEF SpawnLockVetted, Judge, At, Forget, Goto, files, See, TypeOK, Standing
<1>13. CASE RemoveSpawnLock(p)
  <2>1. Knows(p)'
    BY <1>13, <1>a, <1>b, <1>d, <1>e, <1>f DEF RemoveSpawnLock, At, Goto, NoFile, TypeOK, Knows, Spawning, Fresh,
       Standing, Exists
  <2>2. \A c \in Stands(other) : beat[other] # c =>
            pending'[p] = pending[p] /\ (pc'[p] = "vetPartner" => ~Exists(seen'[p]))
    BY <1>13, <1>b, <1>d, <1>e, <1>f DEF RemoveSpawnLock, At, Goto, NoFile, TypeOK, Knows, Spawning, Standing
  <2>3. QED
    BY <1>13, <2>1, <2>2, LocalStep DEF RemoveSpawnLock, At, Goto, NoFile, TypeOK, Standing
<1>14. CASE SpawnLockBusy(p)
  <2>1. Knows(p)'
    BY <1>14, <1>a, <1>b, <1>d, <1>e, <1>f DEF SpawnLockBusy, At, Goto, files, TypeOK, Knows, Spawning, Fresh,
       Standing, Exists
  <2>2. \A c \in Stands(other) : beat[other] # c =>
            pending'[p] = pending[p] /\ (pc'[p] = "vetPartner" => ~Exists(seen'[p]))
    BY <1>14, <1>b, <1>d, <1>e, <1>f DEF SpawnLockBusy, At, Goto, files, TypeOK, Knows, Spawning, Standing
  <2>3. QED
    BY <1>14, <2>1, <2>2, LocalStep DEF SpawnLockBusy, At, Goto, files, TypeOK, Standing
<1>15. CASE RecheckPartner(p)
  <2>0. Stands(other)' = Stands(other) /\ role' = role /\ beat' = beat
    BY <1>15 DEF RecheckPartner, Read, At, Goto, Stands, Standing, files, TypeOK
  <2>1. Knows(p)'
    BY <1>15, <2>0, <1>a, <1>b, <1>d, <1>e, <1>f DEF RecheckPartner, Read, At, See, Goto, files, TypeOK, Knows, Spawning, Fresh,
       Standing, Exists
  <2>2. \A c \in Stands(other) : beat[other] # c =>
            pending'[p] = pending[p] /\ (pc'[p] = "vetPartner" => ~Exists(seen'[p]))
    BY <1>15, <1>b, <1>d, <1>e, <1>f DEF RecheckPartner, Read, At, See, Goto, files, TypeOK, Knows, Spawning, Standing
  <2>3. QED
    BY <1>15, <2>1, <2>2, LocalStep DEF RecheckPartner, Read, At, See, Goto, files, TypeOK, Standing
<1>16. CASE PartnerReturned(p)
  <2>1. Knows(p)'
    BY <1>16, <1>a, <1>b, <1>d, <1>e, <1>f DEF PartnerReturned, Judge, At, Forget, Goto, files, See, TypeOK, Knows, Spawning, Fresh,
       Standing, Exists
  <2>2. \A c \in Stands(other) : beat[other] # c =>
            pending'[p] = pending[p] /\ (pc'[p] = "vetPartner" => ~Exists(seen'[p]))
    BY <1>16, <1>b, <1>d, <1>e, <1>f DEF PartnerReturned, Judge, At, Forget, Goto, files, See, TypeOK, Knows, Spawning, Standing
  <2>3. QED
    BY <1>16, <2>1, <2>2, LocalStep DEF PartnerReturned, Judge, At, Forget, Goto, files, See, TypeOK, Standing
<1>17. CASE PartnerStillGone(p)
  <2>0. Stands(other)' = Stands(other) /\ role' = role /\ beat' = beat
    BY <1>17 DEF PartnerStillGone, Judge, At, Goto, Stands, Standing, files, TypeOK
  <2>1. Knows(p)'
    BY <1>17, <2>0, <1>a, <1>b, <1>d, <1>e, <1>f DEF PartnerStillGone, Judge, At, Forget, Goto, files, See, TypeOK, Knows, Spawning, Fresh,
       Standing, Exists
  <2>2. \A c \in Stands(other) : beat[other] # c =>
            pending'[p] = pending[p] /\ (pc'[p] = "vetPartner" => ~Exists(seen'[p]))
    BY <1>17, <1>b, <1>d, <1>e, <1>f DEF PartnerStillGone, Judge, At, Forget, Goto, files, See, TypeOK, Knows, Spawning, Standing
  <2>3. QED
    BY <1>17, <2>1, <2>2, LocalStep DEF PartnerStillGone, Judge, At, Forget, Goto, files, See, TypeOK, Standing
<1>18. CASE ReleaseSpawnLock(p)
  <2>1. Knows(p)'
    BY <1>18, <1>a, <1>b, <1>d, <1>e, <1>f DEF ReleaseSpawnLock, Move, ReadPIDFile, AfterSpawnSection, At, Goto, locals, files, TypeOK, Knows, Spawning, Fresh,
       Standing, Exists
  <2>2. \A c \in Stands(other) : beat[other] # c =>
            pending'[p] = pending[p] /\ (pc'[p] = "vetPartner" => ~Exists(seen'[p]))
    BY <1>18, <1>b, <1>d, <1>e, <1>f DEF ReleaseSpawnLock, Move, ReadPIDFile, AfterSpawnSection, At, Goto, locals, files, TypeOK, Knows, Spawning, Standing
  <2>3. QED
    BY <1>18, <2>1, <2>2, LocalStep DEF ReleaseSpawnLock, Move, ReadPIDFile, AfterSpawnSection, At, Goto, locals, files, TypeOK, Standing
<1>19. CASE UnlinkSpawnLock(p)
  <2>1. Knows(p)'
    BY <1>19, <1>a, <1>b, <1>d, <1>e, <1>f DEF UnlinkSpawnLock, At, Goto, NoFile, locals, AfterSpawnSection, TypeOK, Knows, Spawning, Fresh,
       Standing, Exists
  <2>2. \A c \in Stands(other) : beat[other] # c =>
            pending'[p] = pending[p] /\ (pc'[p] = "vetPartner" => ~Exists(seen'[p]))
    BY <1>19, <1>b, <1>d, <1>e, <1>f DEF UnlinkSpawnLock, At, Goto, NoFile, locals, AfterSpawnSection, TypeOK, Knows, Spawning, Standing
  <2>3. QED
    BY <1>19, <2>1, <2>2, LocalStep DEF UnlinkSpawnLock, At, Goto, NoFile, locals, AfterSpawnSection, TypeOK, Standing
<1>20. CASE Tick(p)
  <2>1. Knows(p)'
    BY <1>20, <1>a, <1>b, <1>d, <1>e, <1>f DEF Tick, Move, At, Goto, locals, files, TypeOK, Knows, Spawning, Fresh,
       Standing, Exists
  <2>2. \A c \in Stands(other) : beat[other] # c =>
            pending'[p] = pending[p] /\ (pc'[p] = "vetPartner" => ~Exists(seen'[p]))
    BY <1>20, <1>b, <1>d, <1>e, <1>f DEF Tick, Move, At, Goto, locals, files, TypeOK, Knows, Spawning, Standing
  <2>3. QED
    BY <1>20, <2>1, <2>2, LocalStep DEF Tick, Move, At, Goto, locals, files, TypeOK, Standing
<1>21. CASE ContextDone(p)
  <2>1. Knows(p)'
    BY <1>21, <1>a, <1>b, <1>d, <1>e, <1>f DEF ContextDone, Move, At, Goto, locals, files, TypeOK, Knows, Spawning, Fresh,
       Standing, Exists
  <2>2. \A c \in Stands(other) : beat[other] # c =>
            pending'[p] = pending[p] /\ (pc'[p] = "vetPartner" => ~Exists(seen'[p]))
    BY <1>21, <1>b, <1>d, <1>e, <1>f DEF ContextDone, Move, At, Goto, locals, files, TypeOK, Knows, Spawning, Standing
  <2>3. QED
    BY <1>21, <2>1, <2>2, LocalStep DEF ContextDone, Move, At, Goto, locals, files, TypeOK, Standing
<1>22. CASE RoleClaimRefused(p)
  BY <1>22, <1>c, StartedFact, ShrinkStep DEF RoleClaimRefused, Judge, At, Forget, Goto, files, See, TypeOK, NotStarted, Standing
<1>23. CASE ReleaseRole(p)
  BY <1>23, <1>c, StartedFact, ShrinkStep DEF ReleaseRole, Move, ReadPIDFile, At, Goto, locals, files, TypeOK, NotStarted, Standing
<1>24. CASE UnlinkRoleLock(p)
  BY <1>24, <1>c, StartedFact, ShrinkStep DEF UnlinkRoleLock, At, Goto, NoFile, locals, TypeOK, NotStarted, Standing
<1>25. CASE RemoveOwnState(p)
  <2>1. CASE beat[r] = p
    <3>1. Knows(p)'
      BY <1>25, <1>b, <2>1 DEF RemoveOwnState, Move, At, Goto, locals, files, TypeOK, Knows, Spawning
    <3>2. QED
      BY <1>25, <2>1, <3>1, LocalStep DEF RemoveOwnState, Move, At, Goto, locals, files, TypeOK, Standing
  <2>2. CASE beat[r] # p
    BY <1>25, <1>c, <2>2, StartedFact, ShrinkStep DEF RemoveOwnState, Move, At, Goto, locals, files, TypeOK, NotStarted, Standing
  <2>3. QED
    BY <2>1, <2>2
<1>26. CASE WriteOwnState(p)
  BY <1>26, <1>a, PublishOnce DEF WriteOwnState, At
<1>27. CASE EraseOwnState(p)
  BY <1>27, <1>a, EraseOnce DEF EraseOwnState, At
<1>28. QED
  BY <1>1, <1>2, <1>3, <1>4, <1>5, <1>6, <1>7, <1>8, <1>9, <1>10, <1>11, <1>12, <1>13, <1>14, <1>15, <1>16, <1>17, <1>18, <1>19, <1>20, <1>21, <1>22, <1>23, <1>24, <1>25, <1>26, <1>27 DEF
     CheckOwnState, EnsurePartner, ClaimSpawnLock, Return

\* A step that spends one of the events that Smooth rules out is not smooth.
LEMMA SmoothSpend ==
  ASSUME TypeOK, Smooth', NEW events, Spend(events)
  PROVE  events \cap {"fault", "late", "reuse", "foreign"} = {}
<1> SUFFICES ASSUME NEW e \in events \cap {"fault", "late", "reuse", "foreign"} PROVE FALSE
  OBVIOUS
<1>1. e \in EnvEvent /\ spent'[e] = spent[e] + 1 /\ spent[e] \in Nat
  BY SpendCounts DEF EnvEvent, TypeOK
<1>2. spent'[e] = 0
  BY DEF Smooth
<1>3. QED
  BY <1>1, <1>2

\* A cancelled context is that of a living process.
TermAlive == \A p \in term : Alive(p)

LEMMA TermStep == TypeOK /\ TermAlive /\ [Next]_vars => TermAlive'
<1> SUFFICES ASSUME TypeOK, TermAlive, [Next]_vars PROVE TermAlive'
  OBVIOUS
<1>1. CASE UNCHANGED vars
  BY <1>1 DEF TermAlive, vars, locals
<1>2. ASSUME NEW p \in Proc, Step(p), ~Spawn(p) PROVE TermAlive'
  <2>1. term' = term /\ \E stage \in Living : Goto(p, stage)
    BY <1>2, ProgramStep
  <2>2. QED
    BY <2>1 DEF TermAlive, Goto, TypeOK
<1>3. ASSUME NEW p \in Proc, Spawn(p) PROVE TermAlive'
  BY <1>3 DEF Spawn, TermAlive, TypeOK
<1>4. ASSUME NEW p \in Proc, Environment(p), ~IOFault(p) PROVE TermAlive'
  BY <1>4 DEF Environment, Launch, Crash, Terminate, Exit, Collect, GraceExpires,
     Foreign, ForeignExits, Die, Goto, At, locals, TermAlive, TypeOK
<1>5. ASSUME NEW p \in Proc, IOFault(p) PROVE TermAlive'
  <2>1. AfterFault(p) \in Living
    BY <1>5 DEF IOFault, FaultPoint, AfterFault, AfterSpawnSection
  <2>2. QED
    BY <1>5, <2>1 DEF IOFault, Goto, TermAlive, TypeOK
<1>6. QED
  BY <1>1, <1>2, <1>3, <1>4, <1>5 DEF Next

\* ensurePartner's spawn: nobody stands in the partner's role, and the child is
\* the one that is waited for.
LEMMA SpawnOnce ==
  ASSUME TypeOK, OnceInv, NEW p \in Proc, Spawn(p), Smooth'
  PROVE  OnceInv'
<1>1. PICK child \in Proc : Spawn(p)!2!(child)
  BY DEF Spawn
<1>2. PICK r \in Role : r = role[p]
  BY DEF Spawn, At, TypeOK
<1>3. PICK other \in Role : other = Partner(r) /\ other # r /\ Partner(other) = r
  BY TwoRoles
<1>4. ~Named(child)
  BY <1>1, SmoothSpend DEF Reuse
<1>5. /\ pc[p] = "spawn" /\ pc[child] \in {"dead", "returned"}
      /\ UNCHANGED <<seen, beat>>
  BY <1>1 DEF Spawn, At, Free, Faded, files
<1>6. /\ Stands(other) = {} /\ ~Exists(beat[other])
      /\ beat[r] = p /\ Stands(r) = {p}
  BY <1>2, <1>3, <1>5 DEF OnceInv, OneStands, Knows, Fresh, Standing, Stands
<1>7. /\ pc' = [pc EXCEPT ![p] = "releaseSpawnLock", ![child] = "openRoleLock"]
      /\ role' = [role EXCEPT ![child] = other]
      /\ pending' = [pending EXCEPT ![p] = [pid |-> child, open |-> TRUE],
                                    ![child] = NoPending]
  BY <1>1, <1>2, <1>3
<1>8. Stands(other)' = {child} /\ Stands(r)' = {p}
  BY <1>2, <1>3, <1>5, <1>6, <1>7 DEF Stands, Standing, TypeOK
<1>9. \A s \in Role : s = r \/ s = other
  BY <1>3 DEF Role
<1>10. OneStands'
  <2>1. ASSUME NEW s \in Role, NEW x \in Stands(s)', NEW y \in Stands(s)' PROVE x = y
    BY <1>8, <1>9, <2>1
  <2>2. QED
    BY <2>1 DEF OneStands
<1>11. ASSUME NEW q \in Proc PROVE Knows(q)'
  <2>1. CASE q = p
    BY <1>2, <1>5, <1>6, <1>7, <2>1 DEF Knows, TypeOK, Spawning
  <2>2. CASE q = child
    BY <1>5, <1>7, <2>2 DEF Knows, TypeOK, Spawning, Standing, Fresh
  <2>3. CASE q \notin {p, child}
    <3>1. pc'[q] \notin Standing
      <4>1. pc[q] \in Standing => role[q] \in Role /\ q \in Stands(role[q])
        BY DEF Stands, Standing, TypeOK
      <4>2. pc'[q] = pc[q]
        BY <1>7, <2>3 DEF TypeOK
      <4>3. QED
        BY <1>6, <1>9, <2>3, <4>1, <4>2
    <3>2. QED
      BY <3>1 DEF Knows, Spawning, Standing
  <2>4. QED
    BY <2>1, <2>2, <2>3
<1>12. Awaited'
  <2>1. ~Exists(beat[other])'
    <3>1. beat[other] # child /\ beat[other] \in Pid
      BY <1>3, <1>4 DEF Named, TypeOK
    <3>2. QED
      BY <1>5, <1>6, <1>7, <3>1 DEF Exists, TypeOK, Pid
  <2>2. Awaits(p, child)'
    BY <1>2, <1>5, <1>6, <1>7 DEF Awaits, TypeOK
  <2>3. ASSUME NEW s \in Role, NEW c \in Stands(s)', beat'[s] # c
        PROVE  s = other /\ c = child
    BY <1>5, <1>6, <1>8, <1>9, <2>3
  <2>4. QED
    BY <1>3, <1>8, <2>1, <2>2, <2>3 DEF Awaited
<1>13. NotStarted'
  <2>1. spent["launch"] # 0 /\ spent["launch"] <= spent'["launch"] /\ spent["launch"] \in Nat
    BY <1>1, <1>5, SpendCounts, StartedFact DEF OnceInv, EnvEvent, TypeOK
  <2>2. spent'["launch"] # 0
    BY <2>1, SpendTyped, <1>1 DEF EnvEvent
  <2>3. QED
    BY <2>2 DEF NotStarted
<1>14. QED
  BY <1>10, <1>11, <1>12, <1>13 DEF OnceInv

\* The start of the service is the first event of all.
LEMMA LaunchOnce ==
  ASSUME TypeOK, OnceInv, NEW p \in Proc, Launch(p), StartedOnce'
  PROVE  OnceInv'
<1>1. spent["launch"] = 0 /\ spent'["launch"] # 0
  <2>1. PICK events : "launch" \in events /\ Spend(events)
    BY DEF Launch
  <2>2. spent'["launch"] = spent["launch"] + 1 /\ spent["launch"] \in Nat
    BY <2>1, SpendCounts DEF EnvEvent, TypeOK
  <2>3. QED
    BY <2>2 DEF StartedOnce
<1>2. (\A q \in Proc : pc[q] = "dead") /\ \A r \in Role : beat[r] = Nobody
  BY <1>1 DEF OnceInv, NotStarted
<1>3. /\ pc' = [pc EXCEPT ![p] = "openRoleLock"] /\ role' = [role EXCEPT ![p] = "primary"]
      /\ beat' = beat
  BY DEF Launch, Goto, files
<1>4. \A q \in Proc : pc'[q] \in Standing => q = p
  BY <1>2, <1>3 DEF Standing, TypeOK
<1>5. Stands("watchdog")' = {} /\ Stands("primary")' = {p}
  BY <1>3, <1>4 DEF Stands, TypeOK, Standing
<1>6. OneStands'
  BY <1>4 DEF OneStands, Stands
<1>7. \A q \in Proc : Knows(q)'
  BY <1>3, <1>4 DEF Knows, Spawning, Standing, Fresh, TypeOK
<1>8. Awaited'
  <2>1. \A s \in Role : Partner(s) = "watchdog" \/ s = "watchdog"
    BY DEF Partner, Role
  <2>2. \A s \in Role : ~Exists(beat[s])'
    BY <1>2, <1>3 DEF Exists
  <2>3. QED
    BY <1>5, <2>1, <2>2 DEF Awaited
<1>9. NotStarted'
  BY <1>1 DEF NotStarted
<1>10. QED
  BY <1>6, <1>7, <1>8, <1>9 DEF OnceInv

\* The time a spawned partner is given ends only when it has published its
\* heartbeat.
LEMMA GraceOnce ==
  ASSUME TypeOK, OnceInv, NEW p \in Proc, GraceExpires(p), Smooth'
  PROVE  OnceInv'
<1>1. spent' = spent /\ pc[pending[p].pid] \notin Fresh
  BY SmoothSpend DEF GraceExpires, Fresh
<1>2. UNCHANGED <<pc, role, seen, beat>> /\ pending[p].open
      /\ \A q \in Proc \ {p} : pending'[q] = pending[q]
  BY DEF GraceExpires, files, TypeOK
<1>3. NotStarted'
  BY <1>1, <1>2 DEF OnceInv, NotStarted
<1>4. CASE pc[p] \in Standing
  <2>1. pc[p] \notin Spawning /\ Knows(p)
    BY <1>2 DEF OnceInv, Knows, NoPending
  <2>2. Knows(p)'
    BY <1>2, <2>1 DEF Knows, Spawning, Exists, Stands
  <2>3. \A c \in Stands(Partner(role[p])) : beat[Partner(role[p])] = c
    <3>1. role[p] \in Role /\ Partner(role[p]) \in Role /\ Partner(Partner(role[p])) = role[p]
      BY <1>4, TwoRoles DEF Standing, TypeOK
    <3>2. p \in Stands(role[p])
      BY <1>4 DEF Stands
    <3>3. ASSUME NEW c \in Stands(Partner(role[p])), beat[Partner(role[p])] # c PROVE FALSE
      <4>1. pending[p].pid = c
        <5>1. \A q \in Stands(role[p]) : Awaits(q, c)
          BY <3>1, <3>3 DEF OnceInv, Awaited
        <5>2. QED
          BY <3>2, <5>1 DEF Awaits
      <4>2. pc[c] \in Fresh
        BY <3>1, <3>3 DEF OnceInv, Knows, Stands
      <4>3. QED
        BY <1>1, <4>1, <4>2
    <3>4. QED
      BY <3>3
  <2>4. Goto(p, pc[p])
    BY <1>2 DEF Goto, TypeOK
  <2>5. QED
    BY <1>1, <1>2, <1>4, <2>2, <2>3, <2>4, LocalStep
<1>5. CASE pc[p] \notin Standing
  BY <1>2, <1>3, <1>5, ShrinkStep
<1>6. QED
  BY <1>4, <1>5

\* The environment.
LEMMA EnvironmentOnce ==
  ASSUME TypeOK, TermAlive, OnceInv, NEW p \in Proc, Environment(p), Smooth', StartedOnce'
  PROVE  OnceInv'
<1>1. ASSUME Die(p), Alive(p), spent["launch"] <= spent'["launch"], spent' \in [EnvEvent -> Nat] PROVE OnceInv'
  <2>1. NotStarted'
    BY <1>1, StartedFact DEF OnceInv, NotStarted, TypeOK, EnvEvent
  <2>2. /\ beat' = beat
        /\ \A q \in Proc : pc[q] = "dead" => pc'[q] = "dead"
    BY <1>1 DEF Die, files, TypeOK
  <2>3. \A q \in Proc : pc'[q] \in Standing => q # p /\ pc'[q] = pc[q]
    BY <1>1 DEF Die, Standing, TypeOK
  <2>4. \A q \in Proc \ {p} : role'[q] = role[q] /\ seen'[q] = seen[q] /\ pending'[q] = pending[q]
    BY <1>1 DEF Die, TypeOK
  <2>5. QED
    BY <2>1, <2>2, <2>3, <2>4, ShrinkStep
<1>2. CASE Launch(p)
  BY <1>2, LaunchOnce
<1>3. CASE Crash(p)
  BY <1>1, <1>3, SpendCounts, SpendTyped DEF Crash, EnvEvent
<1>4. CASE Exit(p)
  BY <1>1, <1>4 DEF Exit, TermAlive, TypeOK, EnvEvent
<1>5. CASE Terminate(p)
  <2>1. NotStarted'
    <3>1. spent["launch"] # 0
      BY <1>5, StartedFact DEF OnceInv, Terminate
    <3>2. QED
      BY <1>5, <3>1, SpendCounts, SpendTyped DEF Terminate, NotStarted, EnvEvent, TypeOK
  <2>2. QED
    BY <1>5, <2>1, ShrinkStep DEF Terminate, files
<1>6. CASE Collect(p)
  <2>1. NotStarted'
    BY <1>6 DEF Collect, OnceInv, NotStarted, At, files
  <2>2. QED
    BY <1>6, <2>1, ShrinkStep DEF Collect, At, Goto, files, Standing, TypeOK
<1>7. CASE ForeignExits(p)
  <2>1. NotStarted'
    BY <1>7 DEF ForeignExits, OnceInv, NotStarted, At, files
  <2>2. QED
    BY <1>7, <2>1, ShrinkStep DEF ForeignExits, At, Goto, files, locals, Standing, TypeOK
<1>8. CASE GraceExpires(p)
  BY <1>8, GraceOnce
<1>9. ~Foreign(p) /\ ~IOFault(p)
  BY SmoothSpend DEF Foreign, IOFault
<1>10. QED
  BY <1>2, <1>3, <1>4, <1>5, <1>6, <1>7, <1>8, <1>9 DEF Environment

\* OnceInv is inductive while steps are smooth and the program is started once.
LEMMA OnceStep ==
  TypeOK /\ TermAlive /\ OnceInv /\ [Next]_vars /\ Smooth' /\ StartedOnce' => OnceInv'
<1> SUFFICES ASSUME TypeOK, TermAlive, OnceInv, [Next]_vars, Smooth', StartedOnce'
             PROVE  OnceInv'
  OBVIOUS
<1>1. CASE UNCHANGED vars
  BY <1>1 DEF vars, locals, files, OnceInv, OneStands, Knows, Awaited, Awaits,
     NotStarted, Stands, Exists
<1>2. ASSUME NEW p \in Proc, Step(p) PROVE OnceInv'
  BY <1>2, ClaimOnce, RunOnce, SpawnOnce DEF Step
<1>3. ASSUME NEW p \in Proc, Environment(p) PROVE OnceInv'
  BY <1>3, EnvironmentOnce
<1>4. QED
  BY <1>1, <1>2, <1>3 DEF Next

\* One process of a role stands, so one claims it.
LEMMA SerialFact == OnceInv => SerialClaims
  BY DEF OnceInv, OneStands, Stands, SerialClaims, Claimants, Standing

-----------------------------------------------------------------------------
(* claimSpawnLock ends well.                                               *)

\* A spawn lock is that of a process of the partner's role, if the process lives;
\* a second attempt at one finds no file; no error is on its way out of Run.
SpawnLocksSound ==
    /\ failing = {}
    /\ \A p \in Proc : attempt[p] = 1 => pc[p] \in RoleClaim \union SpawnClaim
    /\ \A p \in Proc : attempt[p] = 1 /\ pc[p] \in SpawnClaim =>
            \/ pc[p] = "writeSpawnLock"
            \/ pc[p] = "openSpawnLock" /\ spawnLock[Partner(role[p])] = NoFile
    /\ \A r \in Role, p \in Proc :
            spawnLock[r].owner = p /\ Alive(p) => role[p] = Partner(r)

\* A step of a process that changes no spawn lock and enters no second attempt at
\* one.
LEMMA SpawnLocksKept ==
  ASSUME TypeOK, SpawnLocksSound, NEW p \in Proc, Alive(p),
         NEW stage \in Living, Goto(p, stage),
         UNCHANGED <<role, spawnLock, failing>>,
         \A q \in Proc \ {p} : attempt'[q] = attempt[q],
         attempt'[p] = 1 => stage \in RoleClaim
  PROVE  SpawnLocksSound'
<1>1. pc' = [pc EXCEPT ![p] = stage]
  BY DEF Goto
<1>2. \A q \in Proc : Alive(q)' => Alive(q)
  BY <1>1 DEF TypeOK
<1>3. stage \in RoleClaim => stage \notin SpawnClaim
  OBVIOUS
<1>4. QED
  BY <1>1, <1>2, <1>3 DEF SpawnLocksSound, TypeOK

\* The steps of the program.
LEMMA SpawnLocksRun ==
  ASSUME TypeOK, OnceInv, SpawnLocksSound, NEW p \in Proc, Step(p), Smooth'
  PROVE  SpawnLocksSound'
<1> DEFINE other == Partner(role[p])
<1>a. /\ Alive(p) => role[p] \in Role /\ other \in Role /\ Partner(other) = role[p]
      /\ attempt[p] \in 0 .. 1
  BY TwoRoles DEF TypeOK
<1>b. /\ failing = {}
      /\ attempt[p] = 1 => pc[p] \in RoleClaim \union SpawnClaim
      /\ attempt[p] = 1 /\ pc[p] \in SpawnClaim =>
            \/ pc[p] = "writeSpawnLock"
            \/ pc[p] = "openSpawnLock" /\ spawnLock[other] = NoFile
  BY DEF SpawnLocksSound
\* The only process that works on the partner's spawn lock.
<1>c. ASSUME pc[p] \in SpawnClaim \union SpawnSection,
             NEW q \in Proc, pc[q] \in SpawnClaim \union SpawnSection, Partner(role[q]) = other
      PROVE  q = p
  <2>1. role[p] \in Role /\ role[q] \in Role
    BY <1>c DEF TypeOK
  <2>2. role[q] = role[p]
    BY <1>c, <2>1, TwoRoles
  <2>3. QED
    BY <1>c, <2>1, <2>2 DEF OnceInv, OneStands, Stands, Standing
<1>1. CASE ClaimRoleLock(p)
  <2>1. pc[p] \in RoleClaim /\ UNCHANGED <<role, spawnLock, failing>>
    BY <1>1
    DEF ClaimRoleLock, CreateRoleLock, RoleLockTaken, WriteRoleLock, ReadRoleLock,
        RoleLockStale, RoleLockMine, RoleLockRefused, RemoveRoleLock, RoleLockBusy,
        At, Move, Read, Judge, claim, locals, files
  <2>2. attempt' = attempt \/ \E a \in 0 .. 1 : attempt' = [attempt EXCEPT ![p] = a]
    BY <1>1, <1>a
    DEF ClaimRoleLock, CreateRoleLock, RoleLockTaken, WriteRoleLock, ReadRoleLock,
        RoleLockStale, RoleLockMine, RoleLockRefused, RemoveRoleLock, RoleLockBusy,
        Move, Read, Judge, locals
  <2>3. \E stage \in Living : Goto(p, stage) /\ (stage \in RoleClaim \/ attempt'[p] = 0)
    BY <1>1, <1>a
    DEF ClaimRoleLock, CreateRoleLock, RoleLockTaken, WriteRoleLock, ReadRoleLock,
        RoleLockStale, RoleLockMine, RoleLockRefused, RemoveRoleLock, RoleLockBusy,
        Move, Read, Judge, TypeOK
  <2>4. QED
    BY <2>1, <2>2, <2>3, SpawnLocksKept DEF TypeOK
<1>2. CASE ReadOwnState(p)
  BY <1>2, <1>a, <1>b, SpawnLocksKept DEF ReadOwnState, Read, At, See, Goto, files, TypeOK
<1>3. CASE RoleClaimed(p)
  BY <1>3, <1>a, <1>b, SpawnLocksKept DEF RoleClaimed, Judge, At, Forget, Goto, files, See, TypeOK
<1>4. CASE RoleClaimRefused(p)
  BY <1>4, <1>a, <1>b, SpawnLocksKept DEF RoleClaimRefused, Judge, At, Forget, Goto, files, See, TypeOK
<1>5. CASE WriteOwnState(p)
  BY <1>5, <1>a, <1>b, SpawnLocksKept DEF WriteOwnState, At, Goto, locals, TypeOK
<1>6. CASE SpawnLockTaken(p)
  BY <1>6, <1>a, <1>b, SpawnLocksKept DEF SpawnLockTaken, Move, NoFile, At, Goto, locals, files, TypeOK
<1>7. CASE ReadSpawnLock(p)
  BY <1>7, <1>a, <1>b, SpawnLocksKept DEF ReadSpawnLock, Read, ReadPIDFile, At, See, Goto, files, TypeOK
<1>8. CASE SpawnLockStale(p)
  BY <1>8, <1>a, <1>b, SpawnLocksKept DEF SpawnLockStale, Judge, At, Forget, Goto, files, See, TypeOK
<1>9. CASE SpawnLockVetted(p)
  <2>1. /\ Alive(p) /\ attempt' = [attempt EXCEPT ![p] = 0]
        /\ UNCHANGED <<role, spawnLock, failing>>
    BY <1>9 DEF SpawnLockVetted, Judge, At, files
  <2>2. \E stage \in Living : Goto(p, stage)
    BY <1>9 DEF SpawnLockVetted, Judge
  <2>3. QED
    BY <2>1, <2>2, SpawnLocksKept DEF TypeOK
<1>10. CASE ReadPartner(p)
  BY <1>10, <1>a, <1>b, SpawnLocksKept DEF ReadPartner, Read, At, See, Goto, files, TypeOK
<1>11. CASE PartnerAlive(p)
  BY <1>11, <1>a, <1>b, SpawnLocksKept DEF PartnerAlive, Judge, NoPending, At, Forget, Goto, files, See, TypeOK
<1>12. CASE AwaitPartner(p)
  BY <1>12, <1>a, <1>b, SpawnLocksKept DEF AwaitPartner, Judge, At, Forget, Goto, files, See, TypeOK
<1>13. CASE PartnerGone(p)
  BY <1>13, <1>a, <1>b, SpawnLocksKept DEF PartnerGone, Judge, NoPending, At, Forget, Goto, files, See, TypeOK
<1>14. CASE RecheckPartner(p)
  BY <1>14, <1>a, <1>b, SpawnLocksKept DEF RecheckPartner, Read, At, See, Goto, files, TypeOK
<1>15. CASE PartnerReturned(p)
  BY <1>15, <1>a, <1>b, SpawnLocksKept DEF PartnerReturned, Judge, NoPending, At, Forget, Goto, files, See, TypeOK
<1>16. CASE PartnerStillGone(p)
  BY <1>16, <1>a, <1>b, SpawnLocksKept DEF PartnerStillGone, Judge, At, Forget, Goto, files, See, TypeOK
<1>17. CASE ReleaseSpawnLock(p)
  BY <1>17, <1>a, <1>b, SpawnLocksKept DEF ReleaseSpawnLock, Move, ReadPIDFile, AfterSpawnSection, At, Goto, locals, files, TypeOK
<1>18. CASE Tick(p)
  BY <1>18, <1>a, <1>b, SpawnLocksKept DEF Tick, Move, At, Goto, locals, files, TypeOK
<1>19. CASE ContextDone(p)
  BY <1>19, <1>a, <1>b, SpawnLocksKept DEF ContextDone, Move, At, Goto, locals, files, TypeOK
<1>20. CASE RemoveOwnState(p)
  BY <1>20, <1>a, <1>b, SpawnLocksKept DEF RemoveOwnState, Move, At, Goto, locals, files, TypeOK
<1>21. CASE EraseOwnState(p)
  BY <1>21, <1>a, <1>b, SpawnLocksKept DEF EraseOwnState, At, Goto, locals, TypeOK
<1>22. CASE ReleaseRole(p)
  BY <1>22, <1>a, <1>b, SpawnLocksKept DEF ReleaseRole, Move, ReadPIDFile, At, Goto, locals, files, TypeOK
<1>23. CASE UnlinkRoleLock(p)
  BY <1>23, <1>a, <1>b, SpawnLocksKept DEF UnlinkRoleLock, At, Goto, NoFile, locals, TypeOK
<1>24. CASE CreateSpawnLock(p)
  <2>1. /\ pc[p] = "openSpawnLock" /\ pc' = [pc EXCEPT ![p] = "writeSpawnLock"]
        /\ spawnLock' = [spawnLock EXCEPT ![other] = EmptyFile(p)]
        /\ UNCHANGED <<role, failing, attempt>>
    BY <1>24 DEF CreateSpawnLock, At, Goto, locals
  <2>2. EmptyFile(p).owner = p
    BY DEF EmptyFile
  <2>3. \A r \in Role, q \in Proc : spawnLock'[r].owner = q /\ Alive(q)' => role'[q] = Partner(r)
    BY <1>a, <2>1, <2>2 DEF SpawnLocksSound, TypeOK
  <2>4. ASSUME NEW q \in Proc, attempt[q] = 1
        PROVE  /\ pc'[q] \in RoleClaim \union SpawnClaim
               /\ pc'[q] \in SpawnClaim =>
                    \/ pc'[q] = "writeSpawnLock"
                    \/ pc'[q] = "openSpawnLock" /\ spawnLock'[Partner(role[q])] = NoFile
    <3>1. CASE q = p
      BY <2>1, <3>1 DEF TypeOK
    <3>2. CASE q # p
      BY <1>c, <2>1, <2>4, <3>2 DEF SpawnLocksSound, TypeOK
    <3>3. QED
      BY <3>1, <3>2
  <2>5. QED
    BY <1>b, <2>1, <2>3, <2>4 DEF SpawnLocksSound
<1>25. CASE WriteSpawnLock(p)
  <2>1. /\ pc[p] = "writeSpawnLock" /\ pc' = [pc EXCEPT ![p] = "recheckPartner"]
        /\ attempt' = [attempt EXCEPT ![p] = 0]
        /\ UNCHANGED <<role, failing>>
    BY <1>25 DEF WriteSpawnLock, At, Goto, claim
  <2>2. /\ spawnLock'[other].owner = spawnLock[other].owner
        /\ \A r \in Role \ {other} : spawnLock'[r] = spawnLock[r]
    BY <1>a, <1>25 DEF WriteSpawnLock, Stamp, EmptyFile, StampedFile, TypeOK, At
  <2>3. \A r \in Role : spawnLock'[r].owner = spawnLock[r].owner
    BY <2>2
  <2>4. ASSUME NEW q \in Proc, attempt'[q] = 1
        PROVE  /\ pc'[q] \in RoleClaim \union SpawnClaim
               /\ pc'[q] \in SpawnClaim =>
                    \/ pc'[q] = "writeSpawnLock"
                    \/ pc'[q] = "openSpawnLock" /\ spawnLock'[Partner(role[q])] = NoFile
    <3>1. q # p /\ pc'[q] = pc[q] /\ attempt[q] = 1
      BY <2>1, <2>4 DEF TypeOK
    <3>2. pc[q] \in SpawnClaim => Partner(role[q]) \in Role \ {other}
      BY <1>c, <2>1, <3>1, TwoRoles DEF TypeOK
    <3>3. QED
      BY <2>2, <3>1, <3>2 DEF SpawnLocksSound
  <2>5. QED
    BY <1>b, <2>1, <2>3, <2>4 DEF SpawnLocksSound, TypeOK
<1>26. CASE RemoveSpawnLock(p)
  <2>1. /\ pc[p] = "removeSpawnLock" /\ attempt[p] = 0
        /\ pc' = [pc EXCEPT ![p] = "openSpawnLock"] /\ attempt' = [attempt EXCEPT ![p] = 1]
        /\ spawnLock' = [spawnLock EXCEPT ![other] = NoFile]
        /\ UNCHANGED <<role, failing>>
    <3>1. pc[p] = "removeSpawnLock" /\ attempt[p] = 0
      BY <1>a, <1>b, <1>26 DEF RemoveSpawnLock, At
    <3>2. QED
      BY <1>26, <3>1 DEF RemoveSpawnLock, Goto
  <2>2. NoFile.owner = Nobody
    BY DEF NoFile
  <2>3. \A r \in Role, q \in Proc : spawnLock'[r].owner = q /\ Alive(q)' => role'[q] = Partner(r)
    BY <1>a, <2>1, <2>2, NobodyAssumption DEF SpawnLocksSound, TypeOK
  <2>4. ASSUME NEW q \in Proc, attempt'[q] = 1
        PROVE  /\ pc'[q] \in RoleClaim \union SpawnClaim
               /\ pc'[q] \in SpawnClaim =>
                    \/ pc'[q] = "writeSpawnLock"
                    \/ pc'[q] = "openSpawnLock" /\ spawnLock'[Partner(role[q])] = NoFile
    <3>1. CASE q = p
      BY <1>a, <2>1, <3>1 DEF TypeOK
    <3>2. CASE q # p
      BY <1>c, <2>1, <2>4, <3>2 DEF SpawnLocksSound, TypeOK
    <3>3. QED
      BY <3>1, <3>2
  <2>5. QED
    BY <1>b, <2>1, <2>3, <2>4 DEF SpawnLocksSound
<1>27. CASE UnlinkSpawnLock(p)
  <2>1. /\ pc[p] = "unlinkSpawnLock" /\ pc' = [pc EXCEPT ![p] = "select"]
        /\ spawnLock' = [spawnLock EXCEPT ![other] = NoFile]
        /\ UNCHANGED <<role, failing, attempt>>
    BY <1>b, <1>27 DEF UnlinkSpawnLock, At, Goto, locals, AfterSpawnSection
  <2>2. NoFile.owner = Nobody
    BY DEF NoFile
  <2>3. \A r \in Role, q \in Proc : spawnLock'[r].owner = q /\ Alive(q)' => role'[q] = Partner(r)
    BY <1>a, <2>1, <2>2, NobodyAssumption DEF SpawnLocksSound, TypeOK
  <2>4. ASSUME NEW q \in Proc, attempt[q] = 1
        PROVE  /\ pc'[q] \in RoleClaim \union SpawnClaim
               /\ pc'[q] \in SpawnClaim =>
                    \/ pc'[q] = "writeSpawnLock"
                    \/ pc'[q] = "openSpawnLock" /\ spawnLock'[Partner(role[q])] = NoFile
    BY <1>b, <1>c, <2>1, <2>4 DEF SpawnLocksSound, TypeOK
  <2>5. QED
    BY <1>b, <2>1, <2>3, <2>4 DEF SpawnLocksSound
\* The file that cannot be removed is that of another process of the same role.
<1>28. ~SpawnLockBusy(p)
  <2> SUFFICES ASSUME SpawnLockBusy(p) PROVE FALSE
    OBVIOUS
  <2>1. PICK q \in Proc : spawnLock[other] = EmptyFile(q) /\ pc[q] = "writeSpawnLock"
    BY DEF SpawnLockBusy, Busy
  <2>2. pc[p] = "removeSpawnLock" /\ spawnLock[other].owner = q
    BY <2>1 DEF SpawnLockBusy, At, EmptyFile
  <2>3. Partner(role[q]) = other
    BY <1>a, <2>1, <2>2, TwoRoles DEF SpawnLocksSound
  <2>4. QED
    BY <1>c, <2>1, <2>2, <2>3
<1>29. CASE Spawn(p)
  <2>1. PICK child \in Proc : Spawn(p)!2!(child)
    BY <1>29 DEF Spawn
  <2>2. ~Named(child)
    BY <2>1, SmoothSpend DEF Reuse
  <2>3. /\ pc[p] = "spawn" /\ pc[child] \in {"dead", "returned"}
        /\ UNCHANGED <<attempt, spawnLock>>
    BY <1>29, <2>1 DEF Spawn, At, Free, Faded, files
  <2>4. failing' = {} /\ \A r \in Role : spawnLock[r].owner # child
    BY <1>b, <2>1, <2>2 DEF Named
  <2>5. \A q \in Proc \ {p, child} : pc'[q] = pc[q] /\ role'[q] = role[q]
    BY <2>1 DEF TypeOK
  <2>6. /\ pc'[p] = "releaseSpawnLock" /\ role'[p] = role[p]
        /\ attempt[p] # 1 /\ attempt[child] # 1
    BY <1>b, <2>1, <2>3 DEF TypeOK, SpawnLocksSound
  <2>7. QED
    BY <2>3, <2>4, <2>5, <2>6 DEF SpawnLocksSound
<1>30. QED
  BY <1>1, <1>2, <1>3, <1>4, <1>5, <1>6, <1>7, <1>8, <1>9, <1>10, <1>11, <1>12, <1>13, <1>14, <1>15, <1>16, <1>17, <1>18, <1>19, <1>20, <1>21, <1>22, <1>23, <1>24, <1>25, <1>26, <1>27, <1>28, <1>29 DEF
     Step, CheckOwnState, EnsurePartner, ClaimSpawnLock, Return

\* The environment.
LEMMA SpawnLocksEnvironment ==
  ASSUME TypeOK, SpawnLocksSound, NEW p \in Proc, Environment(p), Smooth'
  PROVE  SpawnLocksSound'
<1>1. CASE Launch(p)
  <2>1. ~Named(p)
    BY <1>1, SmoothSpend DEF Launch, Reuse
  <2>2. pc[p] \in {"dead", "returned"} /\ pc' = [pc EXCEPT ![p] = "openRoleLock"]
    BY <1>1 DEF Launch, Free, Faded, Goto
  <2>3. \A r \in Role : spawnLock[r].owner # p
    BY <2>1 DEF Named
  <2>4. attempt[p] # 1
    BY <2>2 DEF SpawnLocksSound
  <2>5. /\ \A q \in Proc \ {p} : role'[q] = role[q]
        /\ UNCHANGED <<attempt, spawnLock>> /\ failing' = {}
    BY <1>1 DEF Launch, files, TypeOK, SpawnLocksSound
  <2>6. QED
    BY <2>2, <2>3, <2>4, <2>5 DEF SpawnLocksSound, TypeOK
<1>2. ASSUME Die(p) PROVE SpawnLocksSound'
  <2>1. \A q \in Proc : Alive(q)' => q # p /\ pc'[q] = pc[q] /\ role'[q] = role[q]
    BY <1>2 DEF Die, TypeOK
  <2>2. /\ failing' = {} /\ spawnLock' = spawnLock
        /\ \A q \in Proc : attempt'[q] = 1 => q # p /\ attempt[q] = 1
    BY <1>2 DEF Die, files, SpawnLocksSound, TypeOK
  <2>3. \A q \in Proc : attempt[q] = 1 /\ q # p => pc'[q] = pc[q] /\ role'[q] = role[q]
    BY <1>2 DEF Die, SpawnLocksSound, TypeOK
  <2>4. QED
    BY <2>1, <2>2, <2>3 DEF SpawnLocksSound
<1>3. CASE Terminate(p) \/ GraceExpires(p)
  <2>1. pc' = pc /\ role' = role /\ attempt' = attempt /\ failing' = failing /\ spawnLock' = spawnLock
    BY <1>3 DEF Terminate, GraceExpires, files
  <2>2. QED
    BY <2>1 DEF SpawnLocksSound
<1>4. CASE Collect(p) \/ ForeignExits(p)
  <2>1. /\ pc[p] \in {"zombie", "foreign"} /\ pc' = [pc EXCEPT ![p] = "dead"]
        /\ role' = role /\ attempt' = attempt /\ failing' = failing /\ spawnLock' = spawnLock
    BY <1>4 DEF Collect, ForeignExits, At, Goto, files, locals
  <2>2. \A q \in Proc : pc[q] \in Living \/ pc'[q] \in Living => pc'[q] = pc[q]
    BY <2>1 DEF TypeOK
  <2>3. QED
    BY <2>1, <2>2 DEF SpawnLocksSound
<1>5. ~Foreign(p) /\ ~IOFault(p)
  BY SmoothSpend DEF Foreign, IOFault
<1>6. QED
  BY <1>1, <1>2, <1>3, <1>4, <1>5 DEF Environment, Crash, Exit

LEMMA SpawnLocksStep ==
  TypeOK /\ OnceInv /\ SpawnLocksSound /\ [Next]_vars /\ Smooth' => SpawnLocksSound'
<1> SUFFICES ASSUME TypeOK, OnceInv, SpawnLocksSound, [Next]_vars, Smooth'
             PROVE  SpawnLocksSound'
  OBVIOUS
<1>1. CASE UNCHANGED vars
  BY <1>1 DEF vars, locals, files, SpawnLocksSound
<1>2. QED
  BY <1>1, SpawnLocksRun, SpawnLocksEnvironment DEF Next

-----------------------------------------------------------------------------
(* claimRoleLock ends well, or with a refusal.                             *)

\* A role lock is that of a process of the role, if the process lives, and so is
\* the pid just read from it; a second attempt at one finds no file.
RoleLocksSound ==
    /\ \A p \in Proc : pc[p] # "foreign"
    /\ \A p \in Proc : attempt[p] = 1 /\ pc[p] \in RoleClaim =>
            \/ pc[p] = "writeRoleLock"
            \/ pc[p] = "openRoleLock" /\ roleLock[role[p]] = NoFile
    /\ \A r \in Role, p \in Proc :
            roleLock[r].owner = p /\ Alive(p) => role[p] = r
    /\ \A p, q \in Proc :
            pc[p] = "vetRoleLock" /\ seen[p] = q /\ Alive(q) => role[q] = role[p]

\* A step of a process that is past claimRoleLock.
LEMMA RoleLocksKept ==
  ASSUME TypeOK, RoleLocksSound, NEW p \in Proc, Alive(p),
         NEW stage \in Living \ RoleClaim, Goto(p, stage), role' = role,
         roleLock' = roleLock \/ roleLock' = [roleLock EXCEPT ![role[p]] = NoFile],
         \A q \in Proc \ {p} : attempt'[q] = attempt[q] /\ seen'[q] = seen[q]
  PROVE  RoleLocksSound'
<1>1. pc'[p] = stage /\ \A q \in Proc \ {p} : pc'[q] = pc[q]
  BY DEF Goto, TypeOK
<1>2. \A q \in Proc : Alive(q)' => Alive(q)
  BY <1>1
<1>3. \A r \in Role : roleLock'[r] = roleLock[r] \/ roleLock'[r] = NoFile
  BY DEF TypeOK
<1>4. NoFile.owner = Nobody
  BY DEF NoFile
<1>5. \A q \in Proc : Alive(q) => role[q] \in Role
  BY DEF TypeOK
<1>6. \A q \in Proc : pc'[q] # "foreign"
  BY <1>1 DEF RoleLocksSound
<1>7. ASSUME NEW q \in Proc, attempt'[q] = 1, pc'[q] \in RoleClaim
      PROVE  \/ pc'[q] = "writeRoleLock"
             \/ pc'[q] = "openRoleLock" /\ roleLock'[role[q]] = NoFile
  BY <1>1, <1>3, <1>5, <1>7 DEF RoleLocksSound
<1>8. ASSUME NEW r \in Role, NEW q \in Proc, roleLock'[r].owner = q, Alive(q)' PROVE role[q] = r
  BY <1>2, <1>3, <1>4, <1>8, NobodyAssumption DEF RoleLocksSound
<1>9. ASSUME NEW a \in Proc, NEW q \in Proc, pc'[a] = "vetRoleLock", seen'[a] = q, Alive(q)'
      PROVE  role[q] = role[a]
  BY <1>1, <1>2, <1>9 DEF RoleLocksSound
<1>10. QED
  BY <1>6, <1>7, <1>8, <1>9 DEF RoleLocksSound

\* The steps of claimRoleLock.
LEMMA RoleLocksClaim ==
  ASSUME TypeOK, OnceInv, RoleLocksSound, NEW p \in Proc, ClaimRoleLock(p)
  PROVE  RoleLocksSound'
<1> DEFINE mine == role[p]
<1>a. /\ pc[p] \in RoleClaim /\ mine \in Role /\ attempt[p] \in 0 .. 1
      /\ role' = role
  BY DEF TypeOK, ClaimRoleLock, CreateRoleLock, RoleLockTaken, WriteRoleLock, ReadRoleLock,
         RoleLockStale, RoleLockMine, RoleLockRefused, RemoveRoleLock, RoleLockBusy,
         At, Move, Read, Judge, claim, locals
<1>b. pc[p] \in {"readRoleLock", "vetRoleLock", "removeRoleLock"} => attempt[p] = 0
  BY <1>a DEF RoleLocksSound
\* The only process that works on the role's lock.
<1>c. ASSUME NEW q \in Proc \ {p}, pc[q] \in RoleClaim PROVE role[q] \in Role \ {mine}
  BY <1>a, <1>c DEF OnceInv, OneStands, Stands, Standing, TypeOK
<1>d. PICK stage \in Living : Goto(p, stage)
  BY DEF ClaimRoleLock, CreateRoleLock, RoleLockTaken, WriteRoleLock, ReadRoleLock,
         RoleLockStale, RoleLockMine, RoleLockRefused, RemoveRoleLock, RoleLockBusy,
         Move, Read, Judge
<1>e. pc'[p] = stage /\ \A q \in Proc \ {p} : pc'[q] = pc[q]
  BY <1>d DEF Goto, TypeOK
<1>f. \A q \in Proc : Alive(q)' => Alive(q)
  BY <1>a, <1>e
<1>1. \A q \in Proc : pc'[q] # "foreign"
  BY <1>e DEF RoleLocksSound
<1>2. /\ \A r \in Role \ {mine} : roleLock'[r] = roleLock[r]
      /\ \A q \in Proc \ {p} : attempt'[q] = attempt[q] /\ seen'[q] = seen[q]
  BY <1>a
  DEF TypeOK, ClaimRoleLock, CreateRoleLock, RoleLockTaken, WriteRoleLock, ReadRoleLock,
      RoleLockStale, RoleLockMine, RoleLockRefused, RemoveRoleLock, RoleLockBusy,
      Stamp, Move, Read, Judge, See, Forget, claim, locals, files
<1>3. roleLock'[mine].owner \in {roleLock[mine].owner, p, Nobody}
  BY <1>a
  DEF TypeOK, ClaimRoleLock, CreateRoleLock, RoleLockTaken, WriteRoleLock, ReadRoleLock,
      RoleLockStale, RoleLockMine, RoleLockRefused, RemoveRoleLock, RoleLockBusy,
      Stamp, EmptyFile, StampedFile, NoFile, Move, Read, Judge, locals, files
<1>4. ASSUME attempt'[p] = 1, stage \in RoleClaim
      PROVE  \/ stage = "writeRoleLock"
             \/ stage = "openRoleLock" /\ roleLock'[mine] = NoFile
  <2>1. CASE CreateRoleLock(p)
    BY <1>e, <2>1 DEF CreateRoleLock, Goto, TypeOK
  <2>2. ~RoleLockTaken(p)
    BY <1>a, <1>4 DEF RoleLockTaken, Move, At, locals, RoleLocksSound
  <2>3. ~WriteRoleLock(p) /\ ~RoleLockMine(p) /\ ~RoleLockRefused(p) /\ ~RoleLockBusy(p)
    BY <1>4 DEF WriteRoleLock, RoleLockMine, RoleLockRefused, RoleLockBusy, TypeOK
  <2>4. ~ReadRoleLock(p) /\ ~RoleLockStale(p)
    BY <1>b, <1>4 DEF ReadRoleLock, Read, RoleLockStale, Judge, At
  <2>5. CASE RemoveRoleLock(p)
    BY <1>a, <1>b, <1>e, <2>5 DEF RemoveRoleLock, At, Goto, TypeOK
  <2>6. QED
    BY <2>1, <2>2, <2>3, <2>4, <2>5 DEF ClaimRoleLock
<1>5. ASSUME NEW q \in Proc, stage = "vetRoleLock", seen'[p] = q, Alive(q)
      PROVE  role[q] = mine
  <2>1. ReadRoleLock(p)
    BY <1>5, <1>e
    DEF TypeOK, ClaimRoleLock, CreateRoleLock, RoleLockTaken, WriteRoleLock,
        RoleLockStale, RoleLockMine, RoleLockRefused, RemoveRoleLock, RoleLockBusy,
        Move, Judge, Goto
  <2>2. seen'[p] = ReadPIDFile(roleLock[mine])
    BY <2>1 DEF ReadRoleLock, Read, See, TypeOK
  <2>3. QED
    BY <1>a, <1>5, <2>2, NobodyAssumption DEF ReadPIDFile, RoleLocksSound
<1>6. ASSUME NEW q \in Proc, attempt'[q] = 1, pc'[q] \in RoleClaim
      PROVE  \/ pc'[q] = "writeRoleLock"
             \/ pc'[q] = "openRoleLock" /\ roleLock'[role[q]] = NoFile
  <2>1. CASE q = p
    BY <1>4, <1>6, <1>e, <2>1
  <2>2. CASE q # p
    BY <1>2, <1>6, <1>c, <1>e, <2>2 DEF RoleLocksSound
  <2>3. QED
    BY <2>1, <2>2
<1>7. ASSUME NEW r \in Role, NEW q \in Proc, roleLock'[r].owner = q, Alive(q)' PROVE role[q] = r
  BY <1>2, <1>3, <1>7, <1>f, NobodyAssumption DEF RoleLocksSound
<1>8. ASSUME NEW a \in Proc, NEW q \in Proc, pc'[a] = "vetRoleLock", seen'[a] = q, Alive(q)'
      PROVE  role[q] = role[a]
  BY <1>2, <1>5, <1>8, <1>e, <1>f DEF RoleLocksSound
<1>9. QED
  BY <1>1, <1>6, <1>7, <1>8, <1>a DEF RoleLocksSound

\* The other steps of the program, a spawn apart.
LEMMA RoleLocksRun ==
  ASSUME TypeOK, RoleLocksSound, NEW p \in Proc, Step(p), ~Spawn(p), ~ClaimRoleLock(p)
  PROVE  RoleLocksSound'
<1> USE DEF Step, CheckOwnState, EnsurePartner, ClaimSpawnLock, Return,
            ReadOwnState, RoleClaimed, RoleClaimRefused, WriteOwnState, ReadPartner,
            PartnerAlive, AwaitPartner, PartnerGone, CreateSpawnLock, SpawnLockTaken,
            WriteSpawnLock, ReadSpawnLock, SpawnLockStale, SpawnLockVetted,
            RemoveSpawnLock, SpawnLockBusy, RecheckPartner, PartnerReturned,
            PartnerStillGone, ReleaseSpawnLock, UnlinkSpawnLock, Tick, ContextDone,
            RemoveOwnState, EraseOwnState, ReleaseRole, UnlinkRoleLock,
            Move, Read, Judge
<1>1. Alive(p) /\ role' = role
  BY DEF At, claim, locals
<1>2. \E stage \in Living \ RoleClaim : Goto(p, stage)
  BY DEF AfterSpawnSection
<1>3. roleLock' = roleLock \/ roleLock' = [roleLock EXCEPT ![role[p]] = NoFile]
  BY DEF files
<1>4. \A q \in Proc \ {p} : attempt'[q] = attempt[q] /\ seen'[q] = seen[q]
  BY DEF See, Forget, claim, locals, TypeOK
<1>5. QED
  BY <1>1, <1>2, <1>3, <1>4, RoleLocksKept

\* A process is started, by its partner or by the service manager.
LEMMA RoleLocksStart ==
  ASSUME TypeOK, RoleLocksSound, SpawnLocksSound, NEW p \in Proc, Spawn(p) \/ Launch(p), Smooth'
  PROVE  RoleLocksSound'
<1>1. \E child \in Proc :
        /\ Free(child) /\ ~Named(child)
        /\ \A q \in Proc \ {child} :
              role'[q] = role[q] /\ (pc'[q] = pc[q] \/ (Alive(q) /\ pc'[q] = "releaseSpawnLock"))
        /\ pc'[child] = "openRoleLock"
        /\ UNCHANGED <<attempt, seen, roleLock>>
  <2>1. CASE Spawn(p)
    <3>1. PICK child \in Proc : Spawn(p)!2!(child)
      BY <2>1 DEF Spawn
    <3>2. Free(child) /\ ~Named(child) /\ pc[p] = "spawn"
      BY <2>1, <3>1, SmoothSpend DEF Reuse, Spawn, At
    <3>3. child # p
      BY <3>2 DEF Free, Faded, Named, At
    <3>4. /\ \A q \in Proc \ {child} :
                role'[q] = role[q] /\ (pc'[q] = pc[q] \/ (Alive(q) /\ pc'[q] = "releaseSpawnLock"))
          /\ pc'[child] = "openRoleLock"
      BY <3>1, <3>2, <3>3 DEF TypeOK
    <3>5. UNCHANGED <<attempt, seen, roleLock>>
      BY <2>1 DEF Spawn, files
    <3>6. QED
      BY <3>2, <3>4, <3>5
  <2>2. CASE Launch(p)
    <3>1. Free(p) /\ ~Named(p)
      BY <2>2, SmoothSpend DEF Launch, Reuse
    <3>2. /\ \A q \in Proc \ {p} : role'[q] = role[q] /\ pc'[q] = pc[q]
          /\ pc'[p] = "openRoleLock"
          /\ UNCHANGED <<attempt, seen, roleLock>>
      BY <2>2 DEF Launch, Goto, files, TypeOK
    <3>3. QED
      BY <3>1, <3>2
  <2>3. QED
    BY <2>1, <2>2
<1>2. PICK child \in Proc :
        /\ Free(child) /\ ~Named(child)
        /\ \A q \in Proc \ {child} :
              role'[q] = role[q] /\ (pc'[q] = pc[q] \/ (Alive(q) /\ pc'[q] = "releaseSpawnLock"))
        /\ pc'[child] = "openRoleLock"
        /\ UNCHANGED <<attempt, seen, roleLock>>
  BY <1>1
<1>3. /\ \A r \in Role : roleLock[r].owner # child
      /\ \A q \in Proc : pc[q] = "vetRoleLock" => seen[q] # child
  BY <1>2 DEF Named
<1>4. attempt[child] # 1
  BY <1>2 DEF Free, Faded, SpawnLocksSound
<1>5. \A q \in Proc : Alive(q)' /\ q # child => Alive(q)
  BY <1>2
<1>6. \A q \in Proc : pc'[q] # "foreign"
  BY <1>2 DEF RoleLocksSound
<1>7. ASSUME NEW q \in Proc, attempt'[q] = 1, pc'[q] \in RoleClaim
      PROVE  \/ pc'[q] = "writeRoleLock"
             \/ pc'[q] = "openRoleLock" /\ roleLock'[role'[q]] = NoFile
  BY <1>2, <1>4, <1>7 DEF RoleLocksSound
<1>8. ASSUME NEW r \in Role, NEW q \in Proc, roleLock'[r].owner = q, Alive(q)' PROVE role'[q] = r
  BY <1>2, <1>3, <1>8, <1>5 DEF RoleLocksSound
<1>9. ASSUME NEW a \in Proc, NEW q \in Proc, pc'[a] = "vetRoleLock", seen'[a] = q, Alive(q)'
      PROVE  role'[q] = role'[a]
  BY <1>2, <1>3, <1>9, <1>5 DEF RoleLocksSound
<1>10. QED
  BY <1>6, <1>7, <1>8, <1>9 DEF RoleLocksSound

\* The environment.
LEMMA RoleLocksEnvironment ==
  ASSUME TypeOK, RoleLocksSound, SpawnLocksSound, NEW p \in Proc, Environment(p), Smooth'
  PROVE  RoleLocksSound'
<1>1. CASE Launch(p)
  BY <1>1, RoleLocksStart
<1>2. ASSUME Die(p) PROVE RoleLocksSound'
  <2>1. /\ \A q \in Proc : pc'[q] \in {pc[q], "dead", "zombie"}
        /\ pc'[p] \notin Living
        /\ \A q \in Proc : Alive(q)' => pc'[q] = pc[q]
    BY <1>2 DEF Die, TypeOK
  <2>2. /\ \A q \in Proc \ {p} :
              role'[q] = role[q] /\ attempt'[q] = attempt[q] /\ seen'[q] = seen[q]
        /\ roleLock' = roleLock
    BY <1>2 DEF Die, files, TypeOK
  <2>3. QED
    BY <2>1, <2>2 DEF RoleLocksSound
<1>3. CASE Terminate(p) \/ GraceExpires(p)
  <2>1. UNCHANGED <<pc, role, attempt, seen, roleLock>>
    BY <1>3 DEF Terminate, GraceExpires, files
  <2>2. QED
    BY <2>1 DEF RoleLocksSound
<1>4. CASE Collect(p) \/ ForeignExits(p)
  <2>1. /\ pc[p] \in {"zombie", "foreign"} /\ pc' = [pc EXCEPT ![p] = "dead"]
        /\ UNCHANGED <<role, attempt, seen, roleLock>>
    BY <1>4 DEF Collect, ForeignExits, At, Goto, files, locals
  <2>2. \A q \in Proc : pc'[q] \in {pc[q], "dead"}
    BY <2>1 DEF TypeOK
  <2>3. QED
    BY <2>1, <2>2 DEF RoleLocksSound
<1>5. ~Foreign(p) /\ ~IOFault(p)
  BY SmoothSpend DEF Foreign, IOFault
<1>6. QED
  BY <1>1, <1>2, <1>3, <1>4, <1>5 DEF Environment, Crash, Exit

LEMMA RoleLocksStep ==
  TypeOK /\ OnceInv /\ SpawnLocksSound /\ RoleLocksSound /\ [Next]_vars /\ Smooth' => RoleLocksSound'
<1> SUFFICES ASSUME TypeOK, OnceInv, SpawnLocksSound, RoleLocksSound, [Next]_vars, Smooth'
             PROVE  RoleLocksSound'
  OBVIOUS
<1>1. CASE UNCHANGED vars
  BY <1>1 DEF vars, locals, files, RoleLocksSound
<1>2. QED
  BY <1>1, RoleLocksClaim, RoleLocksRun, RoleLocksStart, RoleLocksEnvironment DEF Next

-----------------------------------------------------------------------------
(* The theorems.                                                           *)

\* All that is known of the pair while the program is started once.
PairInv ==
    /\ TermAlive
    /\ Smooth /\ StartedOnce => OnceInv /\ LockInv /\ SpawnLocksSound /\ RoleLocksSound

LEMMA PairInvStep == TypeOK /\ PairInv /\ [Next]_vars => PairInv'
<1> SUFFICES ASSUME TypeOK, PairInv, [Next]_vars PROVE PairInv'
  OBVIOUS
<1>1. TermAlive'
  BY TermStep DEF PairInv
<1>2. ASSUME Smooth', StartedOnce' PROVE OnceInv' /\ LockInv' /\ SpawnLocksSound' /\ RoleLocksSound'
  <2>1. Smooth /\ StartedOnce
    <3>1. TypeOK'
      BY StepTyped
    <3>2. spent \in [EnvEvent -> Nat] /\ spent' \in [EnvEvent -> Nat]
      BY <3>1 DEF TypeOK
    <3>3. QED
      BY <1>2, <3>2, SpentGrows DEF Smooth, StartedOnce, EnvEvent
  <2>2. OnceInv'
    BY <1>2, <2>1, OnceStep DEF PairInv
  <2>3. LockInv'
    BY <1>2, <2>1, SerialFact, LockInvStep DEF PairInv, NoFaults, Smooth
  <2>4. SpawnLocksSound'
    BY <1>2, <2>1, SpawnLocksStep DEF PairInv
  <2>5. RoleLocksSound'
    BY <1>2, <2>1, RoleLocksStep DEF PairInv
  <2>6. QED
    BY <2>2, <2>3, <2>4, <2>5
<1>3. QED
  BY <1>1, <1>2 DEF PairInv

LEMMA PairInvInit == Init => PairInv
<1> SUFFICES ASSUME Init PROVE PairInv
  OBVIOUS
<1>1. \A r : Stands(r) = {} /\ Holders(r) = {}
  BY DEF Init, Stands, Standing, Holders
<1>2. OnceInv
  BY <1>1 DEF Init, OnceInv, OneStands, Knows, Standing, Spawning, Awaited, NotStarted
<1>3. LockInv
  BY <1>1 DEF Init, LockInv, HolderOwnsLock, StampSound, VetSound, RemoveSound
<1>4. SpawnLocksSound
  BY DEF Init, SpawnLocksSound
<1>5. RoleLocksSound
  BY DEF Init, RoleLocksSound
<1>6. QED
  BY <1>2, <1>3, <1>4, <1>5 DEF Init, PairInv, TermAlive

LEMMA PairInvAlways == Spec => []PairInv
  BY PairInvInit, PairInvStep, Typed, PTL DEF Spec

\* Whatever the number of kills and stops, and wherever they happen: no two
\* processes of one role are past claimRole, and none claims a role while another
\* does, as long as the program is started once.
THEOREM OneStartIsSafe == Spec => [](Smooth => SafeIfStartedOnce)
<1>1. PairInv => (Smooth => SafeIfStartedOnce)
  BY SerialFact, OneHolder DEF PairInv, SafeIfStartedOnce, StartedOnce, LockInv
<1>2. QED
  BY <1>1, PairInvAlways, PTL

\* The step that settles an error of Run, once the invariants are known.
LEMMA RefusalFact ==
  ASSUME TypeOK, OnceInv, SpawnLocksSound, SpawnLocksSound', RoleLocksSound,
         [Next]_vars, Smooth', NEW p \in Proc, Errs(p)
  PROVE  pc[p] = "vetRoleLock" /\ GivenUp(seen[p], role[p])
<1>1. pc[p] \in RoleClaim \union OwnStateCheck /\ pc'[p] \in {"returned", "releaseRole"}
  BY DEF Errs, SpawnLocksSound
<1>2. PICK q \in Proc : Step(q) \/ Environment(q)
  BY <1>1 DEF Next, vars
<1>3. ~Environment(q)
  <2>1. ~Foreign(q) /\ ~IOFault(q)
    BY SmoothSpend DEF Foreign, IOFault
  <2>2. QED
    BY <1>1, <2>1
    DEF Environment, Launch, Crash, Exit, Terminate, Collect, GraceExpires, ForeignExits,
        Die, Goto, At, TypeOK
<1>4. ~Spawn(q)
  BY <1>1 DEF Spawn, At, TypeOK
<1>5. Step(q) /\ q = p
  <2>1. \E stage \in Living : Goto(q, stage)
    BY <1>2, <1>3, <1>4, ProgramStep
  <2>2. QED
    BY <1>1, <1>2, <1>3, <2>1 DEF Goto, TypeOK
<1>6. role[p] \in Role /\ p \in Stands(role[p])
  BY <1>1 DEF TypeOK, Stands, Standing
<1>7. ~RoleClaimRefused(p)
  BY DEF RoleClaimRefused, Judge, At, OnceInv, Knows
<1>8. ~(RemoveRoleLock(p) /\ attempt[p] # 0)
  BY DEF RemoveRoleLock, At, RoleLocksSound, TypeOK
<1>9. ~RoleLockBusy(p)
  <2> SUFFICES ASSUME RoleLockBusy(p) PROVE FALSE
    OBVIOUS
  <2>1. PICK o \in Proc : roleLock[role[p]] = EmptyFile(o) /\ pc[o] = "writeRoleLock"
    BY DEF RoleLockBusy, Busy
  <2>2. pc[p] = "removeRoleLock" /\ roleLock[role[p]].owner = o
    BY <2>1 DEF RoleLockBusy, At, EmptyFile
  <2>3. o \in Stands(role[p])
    BY <1>6, <2>1, <2>2 DEF RoleLocksSound, Stands, Standing
  <2>4. QED
    BY <1>6, <2>1, <2>2, <2>3 DEF OnceInv, OneStands
<1>10. RoleLockRefused(p)
  BY <1>1, <1>4, <1>5, <1>7, <1>8, <1>9
  DEF TypeOK, Step, ClaimRoleLock, CheckOwnState, EnsurePartner, ClaimSpawnLock, Return,
      CreateRoleLock, RoleLockTaken, WriteRoleLock, ReadRoleLock, RoleLockStale,
      RoleLockMine, RemoveRoleLock, ReadOwnState, RoleClaimed, WriteOwnState, ReadPartner,
      PartnerAlive, AwaitPartner, PartnerGone, CreateSpawnLock, SpawnLockTaken,
      WriteSpawnLock, ReadSpawnLock, SpawnLockStale, SpawnLockVetted, RemoveSpawnLock,
      SpawnLockBusy, RecheckPartner, PartnerReturned, PartnerStillGone,
      ReleaseSpawnLock, UnlinkSpawnLock, Tick, ContextDone, RemoveOwnState, EraseOwnState,
      ReleaseRole, UnlinkRoleLock, Move, Read, Judge, Goto, At
<1>11. /\ pc[p] = "vetRoleLock" /\ seen[p] # p /\ Exists(seen[p])
  BY <1>10 DEF RoleLockRefused, Judge, At
<1>12. seen[p] \in Proc /\ pc[seen[p]] \in PC \ {"dead", "foreign"}
  BY <1>11 DEF Exists, TypeOK, Pid, RoleLocksSound
<1>13. Alive(seen[p]) => role[seen[p]] = role[p] /\ pc[seen[p]] \notin Standing
  BY <1>6, <1>11, <1>12 DEF RoleLocksSound, OnceInv, OneStands, Stands
<1>14. QED
  BY <1>11, <1>12, <1>13 DEF GivenUp, Standing

\* With one start, and while no system call fails, no spawned process is late and
\* no pid that is still written somewhere is used again: a process leaves Run with
\* an error only when claimRoleLock refuses it because of a predecessor that is on
\* its way out or not reaped.
THEOREM NoErrorUnprovoked == Spec /\ []Smooth => ErrorsAreRefusals
<1>1. ASSUME TypeOK, PairInv, PairInv', [Next]_vars, Smooth, Smooth', NEW p \in Proc,
             Errs(p), spent'["launch"] <= 1, spent'["fault"] = 0
      PROVE  pc[p] = "vetRoleLock" /\ GivenUp(seen[p], role[p])
  <2>1. StartedOnce /\ StartedOnce'
    <3>1. TypeOK'
      BY <1>1, StepTyped
    <3>2. spent \in [EnvEvent -> Nat] /\ spent' \in [EnvEvent -> Nat]
      BY <1>1, <3>1 DEF TypeOK
    <3>3. QED
      BY <1>1, <3>2, SpentGrows DEF StartedOnce, EnvEvent
  <2>2. QED
    BY <1>1, <2>1, RefusalFact DEF PairInv
<1>2. TypeOK /\ PairInv /\ PairInv' /\ [Next]_vars /\ Smooth /\ Smooth' =>
        [\A p \in Proc :
          Errs(p) /\ spent'["launch"] <= 1 /\ spent'["fault"] = 0 =>
              /\ pc[p] = "vetRoleLock"
              /\ GivenUp(seen[p], role[p])]_vars
  BY <1>1
<1>3. QED
  BY <1>2, PairInvAlways, Typed, PTL DEF Spec, ErrorsAreRefusals

-----------------------------------------------------------------------------
(* ensurePartner starts no process too many.                               *)

\* No process has been told to stop.
Calm == Smooth /\ StartedOnce /\ spent["term"] = 0

\* Then none is on its way out of Run.
NobodyLeaves == Calm => /\ term = {}
                        /\ \A p \in Proc : pc[p] \notin CleanUp \union RoleRelease

LEMMA NobodyLeavesStep == TypeOK /\ PairInv /\ NobodyLeaves /\ [Next]_vars => NobodyLeaves'
<1> SUFFICES ASSUME TypeOK, PairInv, NobodyLeaves, [Next]_vars, Calm'
             PROVE  term' = {} /\ \A q \in Proc : pc'[q] \notin CleanUp \union RoleRelease
  BY DEF NobodyLeaves
<1>1. Calm
  <2>1. TypeOK'
    BY StepTyped
  <2>2. spent \in [EnvEvent -> Nat] /\ spent' \in [EnvEvent -> Nat]
    BY <2>1 DEF TypeOK
  <2>3. QED
    BY <2>2, SpentGrows DEF Calm, Smooth, StartedOnce, EnvEvent
<1>2. OnceInv /\ SpawnLocksSound /\ SpawnLocksSound'
  BY <1>1, PairInvStep DEF Calm, PairInv
<1>3. failing = {} /\ failing' = {}
  BY <1>2 DEF SpawnLocksSound
<1>4. term = {} /\ \A q \in Proc : pc[q] \notin CleanUp \union RoleRelease
  BY <1>1 DEF NobodyLeaves
<1>5. CASE UNCHANGED vars
  BY <1>4, <1>5 DEF vars, locals
<1>6. ASSUME NEW p \in Proc, Step(p), ~Spawn(p)
      PROVE  term' = {} /\ \A q \in Proc : pc'[q] \notin CleanUp \union RoleRelease
  <2>1. term' = {}
    BY <1>4, <1>6, ProgramStep
  <2>2. ~RoleClaimRefused(p)
    BY <1>2 DEF RoleClaimRefused, Judge, At, OnceInv, Knows
  <2>3. /\ ~SpawnLockBusy(p) /\ ~ContextDone(p)
        /\ ~RemoveOwnState(p) /\ ~EraseOwnState(p) /\ ~ReleaseRole(p) /\ ~UnlinkRoleLock(p)
    BY <1>3, <1>4
    DEF SpawnLockBusy, ContextDone, RemoveOwnState, EraseOwnState, ReleaseRole,
        UnlinkRoleLock, Move, At
  <2>4. RemoveSpawnLock(p) => Goto(p, "openSpawnLock")
    BY <1>3 DEF RemoveSpawnLock
  <2>5. \E stage \in Living \ (CleanUp \union RoleRelease) : Goto(p, stage)
    BY <1>3, <1>6, <2>2, <2>3, <2>4
    DEF Step, ClaimRoleLock, CheckOwnState, EnsurePartner, ClaimSpawnLock, Return,
        CreateRoleLock, RoleLockTaken, WriteRoleLock, ReadRoleLock, RoleLockStale,
        RoleLockMine, RoleLockRefused, RemoveRoleLock, RoleLockBusy, ReadOwnState,
        RoleClaimed, WriteOwnState, ReadPartner, PartnerAlive,
        AwaitPartner, PartnerGone, CreateSpawnLock, SpawnLockTaken, WriteSpawnLock,
        ReadSpawnLock, SpawnLockStale, SpawnLockVetted,
        RecheckPartner, PartnerReturned, PartnerStillGone,
        ReleaseSpawnLock, UnlinkSpawnLock, Tick, Move, Read, Judge, AfterSpawnSection
  <2>6. QED
    BY <1>4, <2>1, <2>5 DEF Goto, TypeOK
<1>7. ASSUME NEW p \in Proc, Spawn(p)
      PROVE  term' = {} /\ \A q \in Proc : pc'[q] \notin CleanUp \union RoleRelease
  BY <1>4, <1>7 DEF Spawn, TypeOK
<1>8. ASSUME NEW p \in Proc, Environment(p)
      PROVE  term' = {} /\ \A q \in Proc : pc'[q] \notin CleanUp \union RoleRelease
  <2>1. ~IOFault(p) /\ ~Foreign(p)
    BY SmoothSpend DEF IOFault, Foreign, Calm
  <2>2. ~Terminate(p)
    <3>1. Terminate(p) => spent'["term"] = spent["term"] + 1
      BY SpendCounts DEF Terminate, EnvEvent
    <3>2. QED
      BY <1>1, <3>1 DEF Calm
  <2>3. QED
    BY <1>4, <1>8, <2>1, <2>2
    DEF Environment, Launch, Crash, Exit, Collect, GraceExpires, ForeignExits, Die,
        Goto, At, locals, TypeOK
<1>9. QED
  BY <1>5, <1>6, <1>7, <1>8 DEF Next

\* With one start and no stop, ensurePartner starts a partner only when no process
\* holds that role, claims it, or has given it up without having left it.
THEOREM OneSpawn == Spec /\ []Calm => NoRedundantSpawn
<1>1. Init => NobodyLeaves
  BY DEF Init, NobodyLeaves
<1>2. Spec => []NobodyLeaves
  BY <1>1, NobodyLeavesStep, PairInvAlways, Typed, PTL DEF Spec
<1>3. ASSUME TypeOK, PairInv, NobodyLeaves, Calm, NEW p \in Proc, Spawn(p)
      PROVE  Claimants(Partner(role[p])) \union Holders(Partner(role[p])) = {}
  <2>1. Stands(Partner(role[p])) = {}
    BY <1>3 DEF PairInv, Calm, OnceInv, Knows, Spawn, At
  <2>2. \A q \in Proc : pc[q] \notin RoleRelease
    BY <1>3 DEF NobodyLeaves
  <2>3. QED
    BY <2>1, <2>2 DEF Stands, Standing, Claimants, Holders
<1>4. TypeOK /\ PairInv /\ NobodyLeaves /\ Calm =>
        [\A p \in Proc : Spawn(p) =>
          Claimants(Partner(role[p])) \union Holders(Partner(role[p])) = {}]_vars
  BY <1>3
<1>5. QED
  BY <1>2, <1>4, PairInvAlways, Typed, PTL DEF NoRedundantSpawn

-----------------------------------------------------------------------------
(* The pair implements RolePair, its restart apart.                        *)

RoleHolders == [r \in Role |-> Holder(r)]

\* A role's holder, while there is at most one.
LEMMA HolderIs ==
  ASSUME MutualExclusion, NEW r \in Role
  PROVE  /\ Holders(r) = {} => Holder(r) = Nobody
         /\ \A p \in Holders(r) : Holder(r) = p /\ p \in Proc /\ p # Nobody
<1>1. Holders(r) # {} => Holder(r) \in Holders(r)
  BY DEF Holder
<1>2. QED
  BY <1>1, NobodyAssumption DEF MutualExclusion, Holder, Holders

\* A role whose holders stay the same has the same one.
LEMMA HolderStays ==
  ASSUME MutualExclusion, NEW r \in Role, Holders(r)' = Holders(r)
  PROVE  Holder(r)' = Holder(r)
<1>1. CASE Holders(r) = {}
  BY <1>1 DEF Holder
<1>2. ASSUME NEW p \in Holders(r) PROVE Holder(r)' = Holder(r)
  <2>1. Holders(r) = {p} /\ Holders(r)' = {p}
    BY <1>2 DEF MutualExclusion
  <2>2. Holder(r) = p /\ Holder(r)' = p
    BY <2>1 DEF Holder
  <2>3. QED
    BY <2>2
<1>3. QED
  BY <1>1, <1>2

\* A step makes at most one process a holder, or no longer one.
LEMMA OneMoves ==
  ASSUME TypeOK, [Next]_vars, ~UNCHANGED vars
  PROVE  \E p \in Proc :
            /\ \A q \in Proc \ {p} : /\ pc'[q] \in Holding <=> pc[q] \in Holding
                                     /\ pc[q] \in Holding => role'[q] = role[q]
            /\ pc[p] \in Holding /\ pc'[p] \in Holding => role'[p] = role[p]
<1>1. ASSUME NEW p \in Proc, Step(p), ~Spawn(p)
      PROVE  role' = role /\ \A q \in Proc \ {p} : pc'[q] = pc[q]
  BY <1>1, ProgramStep DEF Goto, TypeOK
<1>3. ASSUME NEW p \in Proc, Spawn(p)
      PROVE  \A q \in Proc : /\ pc'[q] \in Holding <=> pc[q] \in Holding
                             /\ pc[q] \in Holding => role'[q] = role[q]
  <2>1. PICK child \in Proc : Spawn(p)!2!(child)
    BY <1>3 DEF Spawn
  <2>2. pc[p] = "spawn" /\ pc[child] \in {"dead", "returned"}
    BY <1>3, <2>1 DEF Spawn, At, Free, Faded
  <2>3. QED
    BY <2>1, <2>2 DEF TypeOK
<1>4. ASSUME NEW p \in Proc, Environment(p)
      PROVE  /\ \A q \in Proc \ {p} : /\ pc'[q] \in Holding <=> pc[q] \in Holding
                                      /\ role'[q] = role[q]
             /\ pc'[p] \in Holding => role'[p] = role[p]
  BY <1>4 DEF Environment, Launch, Crash, Terminate, Exit, Collect, GraceExpires,
     Foreign, ForeignExits, IOFault, Die, Goto, At, locals, TypeOK
<1>5. QED
  BY <1>1, <1>3, <1>4 DEF Next

\* A step of the pair is a step of RolePair, or a stutter.
LEMMA PairStep ==
  ASSUME TypeOK, MutualExclusion, MutualExclusion', [Next]_vars
  PROVE  [Pair!Next]_RoleHolders
<1>1. CASE UNCHANGED vars
  BY <1>1 DEF vars, locals, RoleHolders, Holder, Holders
<1>2. CASE ~UNCHANGED vars
  <2>1. PICK p \in Proc :
            /\ \A q \in Proc \ {p} : /\ pc'[q] \in Holding <=> pc[q] \in Holding
                                     /\ pc[q] \in Holding => role'[q] = role[q]
            /\ pc[p] \in Holding /\ pc'[p] \in Holding => role'[p] = role[p]
    BY <1>2, OneMoves
  <2>2. \A r : Holders(r) \ {p} = Holders(r)' \ {p}
    BY <2>1 DEF Holders
  <2>3. \A r \in Role : Holder(r)' = Holder(r) \/ p \in Holders(r) \union Holders(r)'
    BY <2>2, HolderStays
  <2>4. CASE pc[p] \in Holding <=> pc'[p] \in Holding
    <3>1. \A r : Holders(r)' = Holders(r)
      BY <2>1, <2>4 DEF Holders
    <3>2. QED
      BY <3>1, HolderStays DEF RoleHolders
  <2>5. CASE pc[p] \in Holding /\ pc'[p] \notin Holding
    <3>1. PICK r \in Role : r = role[p]
      BY <2>5 DEF TypeOK
    <3>2. p \in Holders(r) /\ \A s : p \notin Holders(s)' /\ (s # r => p \notin Holders(s))
      BY <2>5, <3>1 DEF Holders
    <3>3. Holders(r)' = {}
      BY <2>2, <3>2 DEF MutualExclusion
    <3>4. Holder(r) # Nobody /\ Holder(r)' = Nobody
      BY <3>2, <3>3, HolderIs DEF Holder
    <3>5. \A s \in Role \ {r} : Holder(s)' = Holder(s)
      BY <2>3, <3>2
    <3>6. RoleHolders[r] # Nobody
      BY <3>4 DEF RoleHolders
    <3>7. \A s \in Role : RoleHolders'[s] = IF s = r THEN Nobody ELSE RoleHolders[s]
      BY <3>4, <3>5 DEF RoleHolders
    <3>8. RoleHolders' = [s \in Role |-> RoleHolders'[s]]
      BY DEF RoleHolders
    <3>9. RoleHolders' = [RoleHolders EXCEPT ![r] = Nobody]
      BY <3>7, <3>8 DEF RoleHolders
    <3>10. Pair!Vacate(r)
      BY <3>6, <3>9 DEF Pair!Vacate, RoleHolders
    <3>11. QED
      BY <3>10 DEF Pair!Next
  <2>6. CASE pc[p] \notin Holding /\ pc'[p] \in Holding
    <3>1. TypeOK'
      BY StepTyped
    <3>2. PICK r \in Role : r = role'[p]
      BY <2>6, <3>1 DEF TypeOK
    <3>3. p \in Holders(r)' /\ \A s : p \notin Holders(s) /\ (s # r => p \notin Holders(s)')
      BY <2>6, <3>2 DEF Holders
    <3>4. Holders(r) = {} /\ Holders(r)' = {p}
      BY <2>2, <3>3 DEF MutualExclusion
    <3>5. Holder(r) = Nobody /\ Holder(r)' = p
      BY <3>4, HolderIs DEF Holder
    <3>6. \A s \in Role \ {r} : Holder(s)' = Holder(s)
      BY <2>3, <3>3
    <3>7. RoleHolders' = [RoleHolders EXCEPT ![r] = p] /\ RoleHolders[r] = Nobody
      BY <3>5, <3>6 DEF RoleHolders
    <3>8. Pair!Acquire(r, p)
      BY <3>7 DEF Pair!Acquire, RoleHolders
    <3>9. QED
      BY <3>8 DEF Pair!Next
  <2>7. QED
    BY <2>4, <2>5, <2>6
<1>3. QED
  BY <1>1, <1>2

\* Started once, the protocol of lock files, spawn locks and heartbeats implements
\* RolePair: at every step each role has at most one holder, a role passes to a
\* process only while it is vacant, and no step changes both roles.  (That a vacant
\* role is filled again is liveness.)
THEOREM ImplementsRolePair ==
  Spec /\ [](Smooth /\ StartedOnce) => Pair!Init /\ [][Pair!Next]_RoleHolders
<1>1. Init => Pair!Init
  BY DEF Init, Pair!Init, Holder, Holders
<1>2. (Smooth => SafeIfStartedOnce) /\ Smooth /\ StartedOnce => MutualExclusion
  BY DEF SafeIfStartedOnce, StartedOnce
<1>3. TypeOK /\ MutualExclusion /\ MutualExclusion' /\ [Next]_vars => [Pair!Next]_RoleHolders
  BY PairStep
<1>4. Spec /\ [](Smooth /\ StartedOnce) => []MutualExclusion
  BY <1>2, OneStartIsSafe, PTL
<1>5. QED
  BY <1>1, <1>3, <1>4, Typed, PTL DEF Spec
=============================================================================
