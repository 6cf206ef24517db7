------------------------------ MODULE Watchdog ------------------------------
(***************************************************************************)
(* The primary/watchdog pair of internal/watchdog/watchdog.go.             *)
(*                                                                         *)
(* A process runs Watchdog.Run for one role.  Processes meet only in the   *)
(* state directory: per role a lock file (<role>.lock), a spawn lock file  *)
(* (<role>.spawn.lock) and a heartbeat file (<role>.json).  Each action is *)
(* one system call of one process together with the local code that       *)
(* follows it, so a process may be overtaken or killed between any two.    *)
(*                                                                         *)
(* A process identifier names a slot of the operating system's process     *)
(* table; a dead slot is used again by a later process.                    *)
(***************************************************************************)
EXTENDS Naturals, FiniteSets

CONSTANTS
    Proc,        \* process identifiers
    Nobody,      \* no process: an absent or unreadable pid
    Budgets,     \* how often each event may happen: one budget, or several
    Posix        \* unlink and zombies as on Linux (TRUE) or on Windows (FALSE)

\* "reuse": a pid still written in some file names a new process; "late": a
\* spawned process has not claimed its role when startupGrace ends.
EnvEvent == {"launch", "crash", "term", "fault", "foreign", "reuse", "late"}

ASSUME NobodyAssumption == Nobody \notin Proc
ASSUME BudgetAssumption == Budgets \subseteq [EnvEvent -> Nat]
ASSUME PlatformAssumption == Posix \in BOOLEAN

VARIABLES
    pc,          \* the next system call of each process, or how it ended
    role,        \* Watchdog.Role of each process
    parent,      \* the process that spawned it, while that one lives
    pending,     \* pendingSpawnPID, and whether pendingSpawnUntil is ahead
    attempt,     \* the loop variable of claimRoleLock and claimSpawnLock
    seen,        \* the pid just read from a file and not yet judged
    failing,     \* processes that leave the loop of Run with an error: it is
                 \* returned once their defers ran
    term,        \* processes whose context is cancelled
    roleLock,    \* <role>.lock
    spawnLock,   \* <role>.spawn.lock
    beat,        \* the pid in <role>.json
    spent        \* how often each event has happened

files == <<roleLock, spawnLock, beat>>
locals == <<role, parent, pending, attempt, seen, failing, term>>
claim == <<role, parent, pending, seen, failing, term>>  \* all but attempt
vars == <<pc, locals, files, spent>>

-----------------------------------------------------------------------------
(* Roles, files and the stages of a process.                               *)

Role == {"primary", "watchdog"}
NoRole == "none"
Partner(r) == IF r = "primary" THEN "watchdog" ELSE "primary"

Pid == Proc \union {Nobody}

\* A lock file is created empty and stamped with its owner's pid afterwards.
LockFile == [owner : Pid, stamped : BOOLEAN]
NoFile == [owner |-> Nobody, stamped |-> FALSE]
EmptyFile(p) == [owner |-> p, stamped |-> FALSE]
StampedFile(p) == [owner |-> p, stamped |-> TRUE]
ReadPIDFile(f) == IF f.stamped THEN f.owner ELSE Nobody

NoPending == [pid |-> Nobody, open |-> FALSE]

RoleClaim == {"openRoleLock", "writeRoleLock", "readRoleLock", "vetRoleLock",
              "removeRoleLock"}
OwnStateCheck == {"readOwnState", "vetOwnState"}
Supervision == {"writeOwnState", "readPartner", "vetPartner"}
SpawnClaim == {"openSpawnLock", "writeSpawnLock", "readSpawnLock",
               "vetSpawnLock", "removeSpawnLock"}
SpawnSection == {"recheckPartner", "vetRecheck", "spawn", "releaseSpawnLock",
                 "unlinkSpawnLock"}
CleanUp == {"removeOwnState", "eraseOwnState"}
RoleRelease == {"releaseRole", "unlinkRoleLock"}

\* From the claimed lock to its release.
Holding == OwnStateCheck \union Supervision \union SpawnClaim
             \union SpawnSection \union {"select"} \union CleanUp
             \union RoleRelease
\* A process of this program that has not ended.
Living == RoleClaim \union Holding \union {"returned"}
PC == Living \union {"dead", "zombie", "foreign"}

Alive(p) == pc[p] \in Living

\* processExists: signal 0 (OpenProcess on Windows) also succeeds for a process
\* that has exited and is not yet reaped, and for one of another program.
Exists(pid) == pid # Nobody /\ pc[pid] # "dead"

\* Is the pid written anywhere, or remembered by a process?
Named(p) ==
    \/ \E r \in Role : p \in {roleLock[r].owner, spawnLock[r].owner, beat[r]}
    \/ \E q \in Proc : pc[q] # "returned" /\ p \in {pending[q].pid, seen[q]}

\* A process lingers after Run has returned.  Once nothing refers to it, it
\* plays no further part, and its slot serves again: the table stays finite.
Faded(p) == pc[p] = "returned" /\ \A q \in Proc : parent[q] # p

\* A slot of the process table the operating system may hand out.
Free(p) == pc[p] = "dead" \/ (Faded(p) /\ ~Named(p))

\* Events happen, within one of the budgets.
Spend(events) ==
    LET after == [e \in EnvEvent |-> spent[e] + IF e \in events THEN 1 ELSE 0]
    IN /\ \E b \in Budgets : \A e \in EnvEvent : after[e] <= b[e]
       /\ spent' = after

\* A pid still written in some file is used again at a price.
Reuse(p) == IF Named(p) THEN {"reuse"} ELSE {}

-----------------------------------------------------------------------------
Init ==
    /\ pc = [p \in Proc |-> "dead"]
    /\ role = [p \in Proc |-> NoRole]
    /\ parent = [p \in Proc |-> Nobody]
    /\ pending = [p \in Proc |-> NoPending]
    /\ attempt = [p \in Proc |-> 0]
    /\ seen = [p \in Proc |-> Nobody]
    /\ failing = {}
    /\ term = {}
    /\ roleLock = [r \in Role |-> NoFile]
    /\ spawnLock = [r \in Role |-> NoFile]
    /\ beat = [r \in Role |-> Nobody]
    /\ spent = [e \in EnvEvent |-> 0]

At(p, stage) == pc[p] = stage
Goto(p, stage) == pc' = [pc EXCEPT ![p] = stage]

\* The file's pid becomes the one under judgement.
See(p, pid) == seen' = [seen EXCEPT ![p] = pid]
Forget(p) == See(p, Nobody)

\* A system call or a test that changes only where the process is.
Move(p, from, to) ==
    At(p, from) /\ Goto(p, to) /\ UNCHANGED <<locals, files, spent>>

\* A file is read; its pid is judged in the next step.
Read(p, from, pid, to) ==
    /\ At(p, from)
    /\ See(p, pid)
    /\ Goto(p, to)
    /\ UNCHANGED <<role, parent, pending, attempt, failing, term, files, spent>>

\* The pid is judged, which may settle the pending spawn or the attempts.
Judge(p, from, to) ==
    /\ At(p, from)
    /\ Forget(p)
    /\ Goto(p, to)
    /\ UNCHANGED <<role, parent, failing, term, files, spent>>

-----------------------------------------------------------------------------
(* claimRoleLock: create the file, or judge the one that is there.         *)

CreateRoleLock(p) ==
    /\ At(p, "openRoleLock")
    /\ roleLock[role[p]] = NoFile
    /\ roleLock' = [roleLock EXCEPT ![role[p]] = EmptyFile(p)]
    /\ Goto(p, "writeRoleLock")
    /\ UNCHANGED <<locals, spawnLock, beat, spent>>

RoleLockTaken(p) ==
    /\ Move(p, "openRoleLock", "readRoleLock")
    /\ roleLock[role[p]] # NoFile

\* The pid goes to the file the process created, wherever its name now leads.
Stamp(lock, r, p) ==
    IF lock[r] = EmptyFile(p) THEN [lock EXCEPT ![r] = StampedFile(p)] ELSE lock

WriteRoleLock(p) ==
    /\ At(p, "writeRoleLock")
    /\ roleLock' = Stamp(roleLock, role[p], p)
    /\ attempt' = [attempt EXCEPT ![p] = 0]
    /\ Goto(p, "readOwnState")
    /\ UNCHANGED <<claim, spawnLock, beat, spent>>

ReadRoleLock(p) ==
    Read(p, "readRoleLock", ReadPIDFile(roleLock[role[p]]), "vetRoleLock")

RoleLockStale(p) ==
    /\ Judge(p, "vetRoleLock", "removeRoleLock")
    /\ ~Exists(seen[p])
    /\ UNCHANGED <<pending, attempt>>

RoleLockMine(p) ==
    /\ Judge(p, "vetRoleLock", "readOwnState")
    /\ seen[p] = p
    /\ attempt' = [attempt EXCEPT ![p] = 0]
    /\ UNCHANGED pending

RoleLockRefused(p) ==
    /\ Judge(p, "vetRoleLock", "returned")
    /\ seen[p] # p
    /\ Exists(seen[p])
    /\ attempt' = [attempt EXCEPT ![p] = 0]
    /\ UNCHANGED pending

\* On Windows a file that its creator still has open cannot be removed.
Busy(file, stage) ==
    ~Posix /\ \E q \in Proc : file = EmptyFile(q) /\ pc[q] = stage

\* The second of lockRetryAttempts ends in an error whatever it removed.
RemoveRoleLock(p) ==
    /\ At(p, "removeRoleLock")
    /\ ~Busy(roleLock[role[p]], "writeRoleLock")
    /\ roleLock' = [roleLock EXCEPT ![role[p]] = NoFile]
    /\ Goto(p, IF attempt[p] = 0 THEN "openRoleLock" ELSE "returned")
    /\ attempt' = [attempt EXCEPT ![p] = 1 - attempt[p]]
    /\ UNCHANGED <<claim, spawnLock, beat, spent>>

RoleLockBusy(p) ==
    /\ At(p, "removeRoleLock")
    /\ Busy(roleLock[role[p]], "writeRoleLock")
    /\ attempt' = [attempt EXCEPT ![p] = 0]
    /\ Goto(p, "returned")
    /\ UNCHANGED <<claim, files, spent>>

-----------------------------------------------------------------------------
(* The rest of claimRole: no other process may own the role's heartbeat.   *)

ReadOwnState(p) == Read(p, "readOwnState", beat[role[p]], "vetOwnState")

RoleClaimed(p) ==
    /\ Judge(p, "vetOwnState", "writeOwnState")
    /\ seen[p] = p \/ ~Exists(seen[p])
    /\ UNCHANGED <<pending, attempt>>

\* Mutant of RoleClaimRefused: the error path forgets releaseRole.
RoleClaimRefusedKeepingLock(p) ==
    /\ Judge(p, "vetOwnState", "returned")
    /\ seen[p] # p
    /\ Exists(seen[p])
    /\ UNCHANGED <<pending, attempt>>

RoleClaimRefused(p) ==
    /\ Judge(p, "vetOwnState", "releaseRole")
    /\ seen[p] # p
    /\ Exists(seen[p])
    /\ UNCHANGED <<pending, attempt>>

-----------------------------------------------------------------------------
(* One turn of Run's loop: publish the heartbeat, then ensurePartner.      *)

\* Temporary file and rename: readers see the old pid or the new one.
WriteOwnState(p) ==
    /\ At(p, "writeOwnState")
    /\ beat' = [beat EXCEPT ![role[p]] = p]
    /\ Goto(p, "readPartner")
    /\ UNCHANGED <<locals, roleLock, spawnLock, spent>>

ReadPartner(p) ==
    Read(p, "readPartner", beat[Partner(role[p])], "vetPartner")

\* Mutants of PartnerStarting: the pending spawn is ignored; its end is ignored.
PartnerNeverStarting(p) == FALSE
PartnerStartingForever(p) == Exists(pending[p].pid)

\* The last spawned partner still has time to publish its heartbeat.
PartnerStarting(p) == pending[p].open /\ Exists(pending[p].pid)

\* Mutant of PartnerAlive: clearPendingSpawn forgets pendingSpawnUntil.
PartnerAliveHalfCleared(p) ==
    /\ Judge(p, "vetPartner", "select")
    /\ Exists(seen[p])
    /\ pending' = [pending EXCEPT ![p].pid = Nobody]
    /\ UNCHANGED attempt

\* Whether the heartbeat is fresh depends on when it was written: both happen.
\* A fresh one of a live process, or a stale one of a live process that is not
\* being waited for: nothing is spawned.
PartnerAlive(p) ==
    /\ Judge(p, "vetPartner", "select")
    /\ Exists(seen[p])
    /\ pending' = [pending EXCEPT ![p] = NoPending]
    /\ UNCHANGED attempt

AwaitPartner(p) ==
    /\ Judge(p, "vetPartner", "select")
    /\ PartnerStarting(p)
    /\ UNCHANGED <<pending, attempt>>

PartnerGone(p) ==
    /\ Judge(p, "vetPartner", "openSpawnLock")
    /\ ~Exists(seen[p])
    /\ ~PartnerStarting(p)
    /\ pending' = [pending EXCEPT ![p] = NoPending]
    /\ UNCHANGED attempt

-----------------------------------------------------------------------------
(* claimSpawnLock on the partner's spawn lock.                             *)

CreateSpawnLock(p) ==
    /\ At(p, "openSpawnLock")
    /\ spawnLock[Partner(role[p])] = NoFile
    /\ spawnLock' = [spawnLock EXCEPT ![Partner(role[p])] = EmptyFile(p)]
    /\ Goto(p, "writeSpawnLock")
    /\ UNCHANGED <<locals, roleLock, beat, spent>>

SpawnLockTaken(p) ==
    /\ Move(p, "openSpawnLock", "readSpawnLock")
    /\ spawnLock[Partner(role[p])] # NoFile

WriteSpawnLock(p) ==
    /\ At(p, "writeSpawnLock")
    /\ spawnLock' = Stamp(spawnLock, Partner(role[p]), p)
    /\ attempt' = [attempt EXCEPT ![p] = 0]
    /\ Goto(p, "recheckPartner")
    /\ UNCHANGED <<claim, roleLock, beat, spent>>

ReadSpawnLock(p) ==
    Read(p, "readSpawnLock", ReadPIDFile(spawnLock[Partner(role[p])]),
         "vetSpawnLock")

\* Mutant of SpawnLockStale: a lock left by a dead spawner is respected.
SpawnLockStaleRespected(p) ==
    /\ Judge(p, "vetSpawnLock", "select")
    /\ ~Exists(seen[p])
    /\ attempt' = [attempt EXCEPT ![p] = 0]
    /\ UNCHANGED pending

SpawnLockStale(p) ==
    /\ Judge(p, "vetSpawnLock", "removeSpawnLock")
    /\ ~Exists(seen[p])
    /\ UNCHANGED <<pending, attempt>>

\* The process's own lock of an earlier turn, or that of another spawner.
SpawnLockVetted(p) ==
    /\ Judge(p, "vetSpawnLock", IF seen[p] = p THEN "recheckPartner" ELSE "select")
    /\ Exists(seen[p])
    /\ attempt' = [attempt EXCEPT ![p] = 0]
    /\ UNCHANGED pending

\* Mutant of RemoveSpawnLock: claimSpawnLock tries only once.
RemoveSpawnLockOnce(p) ==
    /\ At(p, "removeSpawnLock")
    /\ ~Busy(spawnLock[Partner(role[p])], "writeSpawnLock")
    /\ spawnLock' = [spawnLock EXCEPT ![Partner(role[p])] = NoFile]
    /\ Goto(p, "removeOwnState")
    /\ failing' = failing \union {p}
    /\ attempt' = [attempt EXCEPT ![p] = 0]
    /\ UNCHANGED <<role, parent, pending, seen, term, roleLock, beat, spent>>

\* A second stale lock in a row is reported as an error, which ends Run.
RemoveSpawnLock(p) ==
    /\ At(p, "removeSpawnLock")
    /\ ~Busy(spawnLock[Partner(role[p])], "writeSpawnLock")
    /\ spawnLock' = [spawnLock EXCEPT ![Partner(role[p])] = NoFile]
    /\ Goto(p, IF attempt[p] = 0 THEN "openSpawnLock" ELSE "removeOwnState")
    /\ failing' = IF attempt[p] = 0 THEN failing ELSE failing \union {p}
    /\ attempt' = [attempt EXCEPT ![p] = 1 - attempt[p]]
    /\ UNCHANGED <<role, parent, pending, seen, term, roleLock, beat, spent>>

SpawnLockBusy(p) ==
    /\ At(p, "removeSpawnLock")
    /\ Busy(spawnLock[Partner(role[p])], "writeSpawnLock")
    /\ failing' = failing \union {p}
    /\ attempt' = [attempt EXCEPT ![p] = 0]
    /\ Goto(p, "removeOwnState")
    /\ UNCHANGED <<role, parent, pending, seen, term, files, spent>>

-----------------------------------------------------------------------------
(* ensurePartner under the spawn lock, and releaseSpawnLock.               *)

RecheckPartner(p) ==
    Read(p, "recheckPartner", beat[Partner(role[p])], "vetRecheck")

\* Mutant of PartnerReturned: the early return does not release the lock.
PartnerReturnedKeepingLock(p) ==
    /\ Judge(p, "vetRecheck", "select")
    /\ Exists(seen[p])
    /\ pending' = [pending EXCEPT ![p] = NoPending]
    /\ UNCHANGED attempt

PartnerReturned(p) ==
    /\ Judge(p, "vetRecheck", "releaseSpawnLock")
    /\ Exists(seen[p])
    /\ pending' = [pending EXCEPT ![p] = NoPending]
    /\ UNCHANGED attempt

PartnerStillGone(p) ==
    /\ Judge(p, "vetRecheck", "spawn")
    /\ ~Exists(seen[p])
    /\ UNCHANGED <<pending, attempt>>

\* Mutant of Spawn: setPendingSpawn is forgotten.
SpawnUnrecorded(p) ==
    /\ At(p, "spawn")
    /\ \E child \in Proc :
        /\ Free(child)
        /\ Spend(Reuse(child))
        /\ pc' = [pc EXCEPT ![p] = "releaseSpawnLock",
                            ![child] = "openRoleLock"]
        /\ role' = [role EXCEPT ![child] = Partner(role[p])]
        /\ parent' = [parent EXCEPT ![child] = p]
        /\ pending' = [pending EXCEPT ![child] = NoPending]
        /\ failing' = failing \ {child}
        /\ term' = term \ {child}
    /\ UNCHANGED <<attempt, seen, files>>

\* cmd.Start, never followed by Wait; setPendingSpawn with the child's pid.
Spawn(p) ==
    /\ At(p, "spawn")
    /\ \E child \in Proc :
        /\ Free(child)
        /\ Spend(Reuse(child))
        /\ pc' = [pc EXCEPT ![p] = "releaseSpawnLock",
                            ![child] = "openRoleLock"]
        /\ role' = [role EXCEPT ![child] = Partner(role[p])]
        /\ parent' = [parent EXCEPT ![child] = p]
        /\ pending' = [pending EXCEPT ![p] = [pid |-> child, open |-> TRUE],
                                      ![child] = NoPending]
        /\ failing' = failing \ {child}
        /\ term' = term \ {child}
    /\ UNCHANGED <<attempt, seen, files>>

\* Where the deferred release leads: on with the loop, or out of Run.
AfterSpawnSection(p) == IF p \in failing THEN "removeOwnState" ELSE "select"

ReleaseSpawnLock(p) ==
    Move(p, "releaseSpawnLock",
         IF ReadPIDFile(spawnLock[Partner(role[p])]) = p
         THEN "unlinkSpawnLock" ELSE AfterSpawnSection(p))

UnlinkSpawnLock(p) ==
    /\ At(p, "unlinkSpawnLock")
    /\ spawnLock' = [spawnLock EXCEPT ![Partner(role[p])] = NoFile]
    /\ Goto(p, AfterSpawnSection(p))
    /\ UNCHANGED <<locals, roleLock, beat, spent>>

-----------------------------------------------------------------------------
(* Run's select, and its deferred removeOwnState and releaseRole.          *)

\* select may prefer the tick to a cancelled context.
Tick(p) == Move(p, "select", "writeOwnState")

ContextDone(p) ==
    /\ Move(p, "select", "removeOwnState")
    /\ p \in term

\* Mutant of RemoveOwnState: the heartbeat is left behind.
RemoveOwnStateSkipped(p) == Move(p, "removeOwnState", "releaseRole")

RemoveOwnState(p) ==
    Move(p, "removeOwnState", IF beat[role[p]] = p THEN "eraseOwnState" ELSE "releaseRole")

EraseOwnState(p) ==
    /\ At(p, "eraseOwnState")
    /\ beat' = [beat EXCEPT ![role[p]] = Nobody]
    /\ Goto(p, "releaseRole")
    /\ UNCHANGED <<locals, roleLock, spawnLock, spent>>

ReleaseRole(p) ==
    Move(p, "releaseRole",
         IF ReadPIDFile(roleLock[role[p]]) = p
         THEN "unlinkRoleLock" ELSE "returned")

UnlinkRoleLock(p) ==
    /\ At(p, "unlinkRoleLock")
    /\ roleLock' = [roleLock EXCEPT ![role[p]] = NoFile]
    /\ Goto(p, "returned")
    /\ UNCHANGED <<locals, spawnLock, beat, spent>>

-----------------------------------------------------------------------------
(* The environment.                                                        *)

\* The service manager starts the program, always with --role=primary.
Launch(p) ==
    /\ Spend({"launch"} \union Reuse(p))
    /\ Free(p)
    /\ Goto(p, "openRoleLock")
    /\ role' = [role EXCEPT ![p] = "primary"]
    /\ parent' = [parent EXCEPT ![p] = Nobody]
    /\ pending' = [pending EXCEPT ![p] = NoPending]
    /\ failing' = failing \ {p}
    /\ term' = term \ {p}
    /\ UNCHANGED <<attempt, seen, files>>

\* A process ends.  Its parent never waits for it, so it stays in the process
\* table while the parent lives; init adopts and reaps its own children.
Die(p) ==
    LET Reaped(q) == parent[q] = p /\ pc[q] = "zombie"
    IN /\ pc' = [q \in Proc |->
                    IF q = p
                    THEN IF parent[p] = Nobody THEN "dead" ELSE "zombie"
                    ELSE IF Reaped(q) THEN "dead" ELSE pc[q]]
       /\ role' = [role EXCEPT ![p] = NoRole]
       /\ parent' = [q \in Proc |->
                        IF parent[q] = p THEN Nobody ELSE parent[q]]
       /\ pending' = [pending EXCEPT ![p] = NoPending]
       /\ attempt' = [attempt EXCEPT ![p] = 0]
       /\ seen' = [seen EXCEPT ![p] = Nobody]
       /\ failing' = failing \ {p}
       /\ term' = term \ {p}
       /\ UNCHANGED files

Crash(p) == Alive(p) /\ Spend({"crash"}) /\ Die(p)

\* The context is cancelled: a signal, or the service framework's Stop.
Terminate(p) ==
    /\ Alive(p)
    /\ p \notin term
    /\ Spend({"term"})
    /\ term' = term \union {p}
    /\ UNCHANGED <<pc, role, parent, pending, attempt, seen, failing, files>>

\* main returns as soon as the service framework does: it does not wait for
\* Run's defers.
Exit(p) == p \in term /\ Die(p) /\ UNCHANGED spent

\* On Windows the parent's handle keeps an ended child visible until the
\* garbage collector closes it.
Collect(p) ==
    /\ ~Posix
    /\ At(p, "zombie")
    /\ Goto(p, "dead")
    /\ parent' = [parent EXCEPT ![p] = Nobody]
    /\ UNCHANGED <<role, pending, attempt, seen, failing, term, files, spent>>

\* pendingSpawnUntil passes.
GraceExpires(p) ==
    /\ pending[p].open
    /\ IF pc[pending[p].pid] \in RoleClaim \union OwnStateCheck
                                   \union {"writeOwnState"}
         THEN Spend({"late"}) ELSE UNCHANGED spent
    /\ pending' = [pending EXCEPT ![p].open = FALSE]
    /\ UNCHANGED <<pc, role, parent, attempt, seen, failing, term, files>>

\* A process of another program gets a pid that somebody still knows, and later
\* ends.
Foreign(p) ==
    /\ At(p, "dead")
    /\ Named(p)
    /\ Spend({"foreign"})
    /\ Goto(p, "foreign")
    /\ UNCHANGED <<locals, files>>

ForeignExits(p) ==
    /\ At(p, "foreign")
    /\ Goto(p, "dead")
    /\ UNCHANGED <<locals, files, spent>>

\* The stages whose system call may fail.
FaultPoint == Living \ {"vetRoleLock", "vetOwnState", "vetPartner",
                        "vetSpawnLock", "vetRecheck", "select", "returned"}

\* Where the code goes when the call fails: a lock file that cannot be read is
\* taken for a stale one, and the defers ignore their own failures.
AfterFault(p) ==
    CASE pc[p] \in {"openRoleLock", "writeRoleLock", "removeRoleLock",
                    "releaseRole", "unlinkRoleLock"} -> "returned"
      [] pc[p] = "readRoleLock" -> "vetRoleLock"
      [] pc[p] = "readSpawnLock" -> "vetSpawnLock"
      [] pc[p] \in {"readOwnState"} \union CleanUp -> "releaseRole"
      [] pc[p] \in {"recheckPartner", "spawn"} -> "releaseSpawnLock"
      [] pc[p] \in {"releaseSpawnLock", "unlinkSpawnLock"} -> AfterSpawnSection(p)
      [] OTHER -> "removeOwnState"

\* The failures that end the loop of Run with an error.
Fatal == {"writeOwnState", "readPartner", "openSpawnLock", "writeSpawnLock",
          "removeSpawnLock", "recheckPartner", "spawn"}

\* A lock file that cannot be written is removed by its name.
DropLock(lock, r, stage, p) ==
    IF pc[p] = stage THEN [lock EXCEPT ![r] = NoFile] ELSE lock

IOFault(p) ==
    /\ pc[p] \in FaultPoint
    /\ Spend({"fault"})
    /\ Goto(p, AfterFault(p))
    /\ roleLock' = DropLock(roleLock, role[p], "writeRoleLock", p)
    /\ spawnLock' = DropLock(spawnLock, Partner(role[p]), "writeSpawnLock", p)
    /\ failing' = IF pc[p] \in Fatal THEN failing \union {p} ELSE failing
    /\ attempt' = IF pc[p] \in {"readRoleLock", "readSpawnLock"} THEN attempt
                  ELSE [attempt EXCEPT ![p] = 0]
    /\ UNCHANGED <<role, parent, pending, seen, term, beat>>

-----------------------------------------------------------------------------
ClaimRoleLock(p) ==
    \/ CreateRoleLock(p) \/ RoleLockTaken(p) \/ WriteRoleLock(p)
    \/ ReadRoleLock(p) \/ RoleLockStale(p) \/ RoleLockMine(p)
    \/ RoleLockRefused(p) \/ RemoveRoleLock(p) \/ RoleLockBusy(p)

CheckOwnState(p) == ReadOwnState(p) \/ RoleClaimed(p) \/ RoleClaimRefused(p)

ClaimSpawnLock(p) ==
    \/ CreateSpawnLock(p) \/ SpawnLockTaken(p) \/ WriteSpawnLock(p)
    \/ ReadSpawnLock(p) \/ SpawnLockStale(p) \/ SpawnLockVetted(p)
    \/ RemoveSpawnLock(p) \/ SpawnLockBusy(p)

EnsurePartner(p) ==
    \/ ReadPartner(p) \/ PartnerAlive(p) \/ AwaitPartner(p) \/ PartnerGone(p)
    \/ ClaimSpawnLock(p)
    \/ RecheckPartner(p) \/ PartnerReturned(p) \/ PartnerStillGone(p)
    \/ Spawn(p) \/ ReleaseSpawnLock(p) \/ UnlinkSpawnLock(p)

Return(p) ==
    \/ ContextDone(p) \/ RemoveOwnState(p) \/ EraseOwnState(p)
    \/ ReleaseRole(p) \/ UnlinkRoleLock(p)

\* What the program does when nothing fails.
Step(p) ==
    \/ ClaimRoleLock(p) \/ CheckOwnState(p) \/ WriteOwnState(p)
    \/ EnsurePartner(p) \/ Tick(p) \/ Return(p)

Environment(p) ==
    \/ Launch(p) \/ Crash(p) \/ Terminate(p) \/ Exit(p) \/ Collect(p)
    \/ GraceExpires(p) \/ Foreign(p) \/ ForeignExits(p) \/ IOFault(p)

Next == \E p \in Proc : Step(p) \/ Environment(p)

Spec == Init /\ [][Next]_vars

\* Every process is scheduled, time passes, a terminated process ends, and the
\* garbage collector runs.
Fairness == \A p \in Proc :
    /\ WF_vars(Step(p))
    /\ WF_vars(GraceExpires(p))
    /\ WF_vars(Exit(p))
    /\ WF_vars(Collect(p))

FairSpec == Spec /\ Fairness

-----------------------------------------------------------------------------
\* The types of the variables; a process of this program has a role, and one
\* that waits for a partner knows the partner's pid.
TypeOK ==
    /\ pc \in [Proc -> PC]
    /\ role \in [Proc -> Role \union {NoRole}]
    /\ \A p \in Proc : Alive(p) => role[p] \in Role
    /\ parent \in [Proc -> Pid]
    /\ pending \in [Proc -> [pid : Pid, open : BOOLEAN]]
    /\ \A p \in Proc : pending[p].open => pending[p].pid \in Proc
    /\ attempt \in [Proc -> 0 .. 1]
    /\ seen \in [Proc -> Pid]
    /\ failing \in SUBSET Proc
    /\ term \in SUBSET Proc
    /\ roleLock \in [Role -> LockFile]
    /\ spawnLock \in [Role -> LockFile]
    /\ beat \in [Role -> Pid]
    /\ spent \in [EnvEvent -> Nat]
=============================================================================
