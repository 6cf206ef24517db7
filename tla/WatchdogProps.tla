--------------------------- MODULE WatchdogProps ---------------------------
(***************************************************************************)
(* What the primary/watchdog pair guarantees, and what it does not.        *)
(***************************************************************************)
EXTENDS Watchdog

-----------------------------------------------------------------------------
(* Safety.                                                                 *)

\* Processes of role r that have claimed it and not yet given it back.
Holders(r) == {p \in Proc : pc[p] \in Holding /\ role[p] = r}

\* Processes of role r that are at claimRoleLock.
Claimants(r) == {p \in Proc : pc[p] \in RoleClaim /\ role[p] = r}

\* No two processes are past claimRole for the same role: a claim succeeds
\* only when the lock's owner is gone (claimRole, claimRoleLock).
MutualExclusion ==
    \A r \in Role : \A p, q \in Holders(r) : p = q

\* The lock file names the process that holds the role, so no claim of another
\* process, no clean-up and no release ever takes it away from its holder.
HolderOwnsLock ==
    \A r \in Role : \A p \in Holders(r) : roleLock[r] = StampedFile(p)

\* At most one process of a role is claiming it at any time.
SerialClaims ==
    \A r \in Role : \A p, q \in Claimants(r) : p = q

\* What makes MutualExclusion inductive.  The lock file names the holder; a
\* process about to stamp a lock file finds its own empty file there; one that
\* has read a lock file has read its holder, and takes the file for its own only
\* if it is; one about to remove a lock file removes nobody's (claimRoleLock).
StampSound ==
    \A p \in Proc : pc[p] = "writeRoleLock" => roleLock[role[p]] = EmptyFile(p)
VetSound ==
    \A p \in Proc : pc[p] = "vetRoleLock" =>
        /\ \A q \in Holders(role[p]) : seen[p] = q
        /\ seen[p] = p => roleLock[role[p]] = StampedFile(p)
RemoveSound ==
    \A p \in Proc : pc[p] = "removeRoleLock" => Holders(role[p]) = {}

LockInv == HolderOwnsLock /\ StampSound /\ VetSound /\ RemoveSound

\* Neither two kills, nor a graceful stop, nor a failing system call gives a role
\* to two processes, as long as the program is started once: the spawn lock and
\* the pending spawn let only one successor claim it at a time.
SafeIfStartedOnce ==
    spent["launch"] <= 1 => MutualExclusion /\ SerialClaims /\ LockInv

\* The files do not lie about the living, as long as no system call fails and no
\* pid that is still written somewhere names a new process.  A role lock or a
\* heartbeat that names a living process names one that holds the role: one that
\* was refused or has returned from Run keeps neither its successor out nor its
\* partner from restarting the role (claimRole's own releaseRole, the defers of
\* Run).  A spawn lock that names a living process names one inside
\* ensurePartner's locked section: no way out of it leaks the lock, which would
\* stop every other process of the role from restarting the partner.
FilesHonest ==
    spent["fault"] + spent["reuse"] = 0 =>
        \A r \in Role : \A p \in {q \in Proc : Alive(q)} :
            /\ p \in {ReadPIDFile(roleLock[r]), beat[r]} => p \in Holders(r)
            /\ p = ReadPIDFile(spawnLock[r])
                 => role[p] = Partner(r) /\ pc[p] \in SpawnSection

\* The step that settles that Run returns an error: claimRole returns one, or
\* supervision does.
Errs(p) ==
    \/ pc[p] \in RoleClaim \union OwnStateCheck /\ pc'[p] \in {"returned", "releaseRole"}
    \/ p \in failing' \ failing

\* A process that has removed its heartbeat and is giving its role back, or has
\* returned from Run, or has ended and is not reaped: of no use to its partner,
\* but there for processExists.
GivenUp(p, r) ==
    pc[p] = "zombie" \/ (pc[p] \in RoleRelease \union {"returned"} /\ role[p] = r)

\* With one start and no failing system call, Run returns an error in one way
\* only: claimRoleLock refuses a process that was started while its predecessor,
\* named by the lock, is still giving the role back or is not yet reaped.  So
\* supervision never ends by itself: ensurePartner returns no error, which
\* claimSpawnLock's comment promises ("an error only for I/O failures"), neither
\* attempt of claimRoleLock is in vain, and no process that serves keeps another
\* one out.
ErrorsAreRefusals ==
    [][\A p \in Proc :
          Errs(p) /\ spent'["launch"] <= 1 /\ spent'["fault"] = 0 =>
              /\ pc[p] = "vetRoleLock"
              /\ GivenUp(seen[p], role[p])]_vars

\* ensurePartner starts a partner only when no process holds that role or is
\* on its way to claim it (the heartbeat check, its repetition under the spawn
\* lock, and the pending spawn together).
NoRedundantSpawn ==
    [][\A p \in Proc : Spawn(p) =>
          Claimants(Partner(role[p])) \union Holders(Partner(role[p])) = {}]_vars

-----------------------------------------------------------------------------
(* Liveness, and the abstract pair.                                        *)

SomeHolder == \E r \in Role : Holders(r) # {}
PairUp == \A r \in Role : Holders(r) # {}
AllDown == \A p \in Proc : ~Alive(p)

\* README, "a primary/watchdog pair provides automatic restart": once a role
\* is held, both come to be held, unless every process dies first.
PairRecovers == SomeHolder ~> (PairUp \/ AllDown)

\* A role's lock or heartbeat names a process that exists for processExists but
\* does not hold the role: a zombie, a stranger, or one that got the pid since.
Squatted(r) ==
    \E p \in Proc \ Holders(r) :
        Exists(p) /\ p \in {ReadPIDFile(roleLock[r]), beat[r]}

\* Nothing but a squatted pid keeps the pair from recovering: no crash at any
\* point, no lock left behind and no pid used again blocks it otherwise.
RecoversUnlessSquatted ==
    SomeHolder ~> (PairUp \/ AllDown \/ \E r \in Role : Squatted(r))

Holder(r) == IF Holders(r) = {} THEN Nobody ELSE CHOOSE p \in Holders(r) : TRUE

Pair == INSTANCE RolePair WITH holder <- [r \in Role |-> Holder(r)]

\* The protocol of files implements the abstract pair, its restart included.
ImplementsPair == Pair!Spec
=============================================================================
