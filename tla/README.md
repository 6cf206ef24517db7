# Verification of almighty-blocker-unstoppable

TLA+ models of the program's concurrent parts, TLC configurations that check
them on small instances, and TLAPS proofs. Line numbers refer to the Go source
under `src/`.

## 1. The system

The program keeps a machine's DNS and firewall settings in a configured state.
A service manager starts it as *primary*; the primary starts a second process,
the *watchdog*, and each restarts the other. Both processes run the same
guards: `runApplication` (`main.go:93-208`) applies a baseline, starts the
guards, and only then looks at the role. Nothing but the state directory is
shared by design, and the firewall and DNS settings are shared in fact.

| component | state | operations | meets others through |
| --- | --- | --- | --- |
| watchdog pair, `internal/watchdog` | `<role>.lock`, `<role>.spawn.lock`, `<role>.json`; the pending spawn in memory | `Run`, `claimRole`, `ensurePartner`, `claimSpawnLock`, releases | files, the process table |
| firewall guard, `internal/firewallguard` | firewall rules (Windows), ipsets and iptables rules (Linux); `torEntryIPs`, `lastChunks`, `missing` | `RunOnce`, `Run`, `SetTorEntryIPs`, `reconcileOnce` | the firewall, `reconcileMu` |
| DNS guard, `internal/dnshijack` | `/etc/resolv.conf` or the servers, DoH flags and DoH mappings of interfaces; `lastSeen` | `EnforceOnce`, `Run`, `enforce` | the file or the registry |
| Tor refresh, `internal/torfetch` | none | `FetchGuardIPs`, `RunRefreshLoop` | calls `SetTorEntryIPs` and `RunOnce` |
| service runner, `service_runner.go` | the cancel function | `Start`, `Stop`, `runAsService` | context of `runApplication`; stops services by name |
| start-up registration, `startup_*.go` | a unit file and what systemd has loaded of it, or a Windows service | `ensureStartupRegistration` | service manager |
| configuration, `internal/config` | `Loader.cfg`, the watcher's queue | `LoadFromBytes`, `NewLoader`, `reload`, `Watch` | env.json; `main.go` uses `LoadFromBytes` on the embedded text |
| build tool, `cmd/build`, with `internal/redirects` | env.json, the generated Go sources, the binaries | one invocation | env.json, which its user edits too |
| camouflage, logger | none of interest | | |

What is hard, and what makes each part correct:

- **Pair.** Files are created, read, judged and removed by separate system
  calls, and a kill may come between any two. At most one process holds a role;
  its lock file stays its own; nothing left behind by a dead process keeps the
  pair from recovering; nobody is spawned twice.
- **Firewall guards.** Two processes repair the same rules, with separate
  commands for deleting and adding, while lists change and commands fail. What
  is configured ends up in force; what is removed disappears; an address that
  is blocked does not silently become reachable; drift is logged.
- **DNS guards.** The same for name servers: they come back; a link is not
  replaced; temporary files are accounted for; a mapping is not lost.
- **Service.** The primary registers the service it runs as, command by command,
  before it claims its role, and a process that fails has a service stopped by
  name. Whatever was interrupted, a registered program is registered as it
  wants, and a primary is up in the end.
- **Configuration.** The build tool rewrites a file a user edits, and reads it
  three times; a loader follows the same file by notifications. No setting is
  lost, a binary embeds what belongs together, and the loader ends with the file
  as it is.

The hazards, line by line and with the properties that address them, are in
`PROJECT.json`.

## 2. Modules

| module | contents |
| --- | --- |
| `RolePair` | abstract specification: each role has at most one holder, and is refilled while the other is held |
| `Watchdog` | the pair; one action per system call |
| `WatchdogProps` | its properties and the refinement mapping to `RolePair` |
| `WatchdogProofs` | theorems about it, for any number of starts |
| `WatchdogOnceProofs` | theorems about a pair that is started once, and the refinement of `RolePair` |
| `GuardRuntime` | how `main.go` runs a firewall guard in a process: baseline, periodic check, Tor refresh, `reconcileMu` |
| `FirewallGuardWindows`, `...Props` | `reconcileOnce` over numbered netsh rules; composes with `GuardRuntime` |
| `FirewallGuardWindowsProofs` | theorems about its types, the rules of `blockAddress` and a Tor refresh |
| `FirewallGuardLinux`, `...Props` | `reconcileOnce` over ipsets and iptables; composes with `GuardRuntime` |
| `FirewallGuardLinuxProofs` | theorems about its types, the addresses of `blockAddress` and the REJECT rules |
| `DnsGuardLinux` | `enforce` on `/etc/resolv.conf`, with its properties |
| `DnsGuardLinuxProofs` | theorems about its types, the temporary files and the link |
| `DnsGuardWindows`, `...Props` | `enforce` on interfaces |
| `DnsGuardWindowsProofs` | theorems about its types, the DoH mappings, the DoH flags and the first server |
| `ServiceLifecycle` | the program under systemd or the SCM: registration, role, `Start`, `Stop`, reboots |
| `ServiceLifecycleProofs` | theorems about its types, the names of services and the registration |
| `EnvDocument` | env.json as a value: the list algorithms of `config.go`, `redirects.go`, `cmd/build` and `hijack_*.go` as operators |
| `EnvFile` | env.json as a file: editors, and the notifications of its directory |
| `BuildTool` | an invocation of `cmd/build`, read by read and write by write |
| `ConfigLoader` | `NewLoader`, `reload` and `Watch` |
| `Configuration` | `BuildTool` and `ConfigLoader` on one `EnvFile`, with their properties |
| `ConfigurationProofs` | theorems about its types, the loader, the user's settings, the Tor list, the binaries and their DNS servers, and about the list algorithms |
| `MC*` | the instances: budgets, lists, symmetry |

Definitions whose comment says *Mutant of X* are deliberately wrong variants
of X. They occur in no specification and serve to show that a property notices
such a mistake.

### The environment

Every module counts in `spent` how often each event of its environment has
happened: a start, a kill, a failing call, a published list, an outsider's
change. The constant `Budgets` is a set of such counts, and the counts of a
behaviour stay within one of them; an instance can thus allow *a kill or a
failure* without allowing both. The program's own actions are not bounded; they
run for ever because every model is finite by its data. One or two events are
enough here: each is followed by complete passes of the guards, and the errors
found needed one or two. The theorems hold for every `Budgets`.

### The pair (`Watchdog`)

A process is a slot of the process table. `pc` names the next system call, in
the words of the function it belongs to; `role`, `pending`, `attempt`, `seen`
are `Watchdog.Role`, the pending spawn, the loop variable of the claims, and the
pid just read. A lock file is a record `[owner, stamped]`: it is created empty
(`os.OpenFile`, line 302) and stamped afterwards (304), and a reader of an empty
file sees no pid, which the code takes for stale (321). Judging the pid is a
step of its own, as is the removal that follows: another process may come
between. A dead slot is used again; if some file or process still knows its pid,
that is the event `reuse`. A stranger that gets such a pid is the event
`foreign`. On Linux a dead child of a living parent stays a zombie, because
`spawn` never waits (215), and `processExists` counts zombies as alive; on
Windows the handle does the same until it is collected, and an open file cannot
be removed (`Posix`). Time is abstract. Whether a heartbeat is fresh only
matters when its process exists, and then both outcomes lead to no spawn, so it
is left open. A spawned process that has not claimed its role when
`startupGrace` ends is the event `late`. An error of a system call (`IOFault`)
goes where the code goes.

Kept out: the workload (nil in `main.go`), `MkdirAll`, the contents of the
state file other than the pid, torn reads of it (the rename is atomic), and a
process that hangs.

### The firewall guards

`GuardRuntime` has the modes off, baseline, and then guard or warn, after the
build that is installed. A build with `-tags noprotection` only warns, does not
refresh the Tor list, and returns from `runApplication` before it would spawn a
watchdog (`main.go:164-171`), so `Installed` lets two processes run only of the
protected build. The goroutines `run` and `refresh` queue for `reconcileMu`; a
refresh sets `torEntryIPs` before it queues. A killed process forgets everything
and starts with the embedded list again. The platform modules extend each of
these actions with what the lists do to the firewall.

On Windows `rules[prefix][i]` is the set of rules of that name, each a set of
addresses, since netsh adds a second rule of the same name happily. `ShowRule`,
`DeleteRule`, `AddRule` and the clean-up are single commands. Addresses are
numbers, in the order of their text, and a chunk is cut by rank.

On Linux `sets` and `rejects` are the ipsets and the number of identical REJECT
rules (counted up to `MaxRejects`). `create`, `flush`, each `add`, `-C` and `-A`
are single commands, with the early returns of `applySet` and the `continue` of
`applyLinuxRules`; the check of a guard that only warns looks at names.

### The DNS guards

`DnsGuardLinux` goes through `enforce` call by call: read, compare, log,
`EvalSymlinks`, `CreateTemp`, write/close/chmod, rename, each with its error
path. The file may be a plain file, a link or absent. The nameserver lists are
sequences of numbers; the comparison is order-sensitive as in the code.

`DnsGuardWindows` keeps per interface and family the list of servers, the
`DohFlags` in the registry (`doh`), those of them that are in use (`loaded`), and
the global DoH mappings. A flag comes into use when the servers of its family are
set after it was written, which is why the code does both in this order
(`hijack_windows.go:159-161`); that the DNS client loads the flags at no other
time, in particular not when an interface comes up, is an assumption of the model.
`set` makes one server the only one, `add ... index=` inserts; a command fails for
a refused interface or a server already listed, and then the rest of the family is
skipped. Whether netsh refuses a duplicate, and that an index beyond the end means
the end, is taken from netsh's behaviour and marked external. A key of the registry
that cannot be read makes a flag that is there count as missing (`FindsMissing`).
A process that ends its baseline begins its guard with an empty `lastSeen`.

Both have `lastLog`, which is not a variable of the program: it records what was
logged last, so that a property can speak of it.

### The service (`ServiceLifecycle`)

A process has a `stage`, the name it was given as `--service-name`, who started
it, and its `home`: the service whose control group it is in, if any.
`runApplication` is the order of stages: baseline, then the registration
(primary only, `main.go:198-206`), then the claim. How a role is claimed is the
subject of `Watchdog`; here a claim is one step. Each file operation and each
command of `ensureStartupRegistration` is a step that may fail, after which the
role is claimed all the same. `unit[n]` is the unit file, what systemd has
loaded of it, and `is-enabled`; `os.WriteFile` truncates before it writes. On
Windows the three are one entry. `wanted` is what the manager is to keep
running: `Start`'s error path takes the service of the process's own name out of
it (`service_runner.go:62`), wherever the process itself belongs. `Stop` cancels
the context and does not wait, so `Stop` ends a process at any stage. systemd
ends the control group when the main process is gone and then restarts it
(`Restart=always`); the SCM does neither, and the unit of `deploy/` is an initial
state. `daemon-reload` has systemd load the unit files of all services, and
`enable` does the same (`Reloaded`). `systemctl`, `sc.exe` and kardianos/service are
external.

### The configuration (`EnvDocument`, `EnvFile`, `BuildTool`, `ConfigLoader`)

A document is a record of its eight keys; an entry of a list of addresses is the
address it names and the way it is written, a line of a block list a sequence of
fields. Three decoders read it, and they do not accept the same: `cmd/build`
rewrites it as a map of anything (`main.go:166-167`), `redirects.go` decodes the
three keys of the sources, and the program, with `config.go`, all keys. So a document also has
`misfits`, the keys whose value is of a wrong type, and `ReadConfig`, `SourcesLoad`
and `Loads` say who refuses which. `NoDocument` is what all of them reject: a
truncated file, or a mix of two. `Site` says what the sources hold that documents
name, and which are remote: of those `FetchBlock` reads 10 MiB (`BodyLimit`, counted
in fields) and takes the line that the end falls into as it stands (`Fetched`,
`LimitedLine`). That a source cannot be fetched is `Aborted`. A save is a rename,
or a truncation and a write. Two writers into one file may leave a mix, which is
again `NoDocument` (`Fill`); a rename takes the file away from whoever has it
open, as on Linux, and such a writer then writes into nothing (`open`). `events`
is the queue of the directory's watch with `QueueSize` places, and what does not
fit is dropped; `missed` records that env.json changed with no notification of it
left in the queue. `overtaken`, `crossed`, `fresh` of an invocation and `saved`
are not variables of the program: they record who else was at work and what the
user wrote.

## 3. Runs

Every passing run exhausts its state space, and every event of its budgets may
happen at any point.

| run | instance | asks | result |
| --- | --- | --- | --- |
| `pair` | Windows, 3 slots; one start with two kills and a stop, or a kill and a failing call; or two starts with a kill or a failing call | does one start ever give a role to two processes? does `Run` ever return an error, but for a role that `claimRoleLock` refuses because a predecessor is giving it back or is not reaped? does a living process leave a role lock, a spawn lock or a heartbeat behind, with two starts too? | no |
| `restart` | Windows, 4 slots, one start, two kills, fair | is a spawn ever redundant, does the protocol implement `RolePair`? | never; yes |
| `squatted` | Linux, 3 slots, a kill, pids used again by the program twice and by a stranger once, fair | can anything but a squatted pid prevent recovery? | nothing else can |
| `split_brain` | Linux, two starts, a kill | are roles exclusive? | violated, finding |
| `zombie` | Linux, one start, a kill, fair | does the pair recover? | violated, finding |
| `windows_rules` | three addresses in rules of one; both processes and a kill, or one and two other events | do blocked addresses stay blocked, is the list in force when a refresh returns, do the rules end as configured, is every listed address blocked again and again, is a lasting difference logged? | holds |
| `linux_sets` | an IPv4 and an IPv6 address; both processes and a kill, or one and two other events | is every gap in a set about to be closed, does one process ever double a rule, are listed addresses rejected again and again, do removed ones go, is the removal of a rule logged? | holds |
| `resolv_conf` | both processes, a kill, a failing call, an outsider's write, link or deletion; or two writes | do the nameservers come back, is the link kept, are temporary files removed, is the last drift the one logged last? | holds |
| `interfaces` | two interfaces of which one refuses; both processes and a kill, or one and a change with a failing command or another change | are the servers and flags of the other one restored, does anything but a kill or a failed command leave a flag in the registry unused, does the first server stay first, is a missing mapping about to be added, is the last drift the one logged last? | holds |
| `service` | systemd and the SCM, installed or not, two names, 4 slots; kills with one of a failing command, a reboot, a stop, an error, tampering, a start by hand; or two starts by hand | is a primary registered as it wants, does Windows restart it under its name, is a primary up in the end? | holds |
| `second_start` | systemd, installed, one start by hand, fair | does the pair restart? | violated, finding |
| `configuration` | six documents, limits 0 and 2; two invocations with a fault, or one with two saves, or a save and a fault; a loader with two places in its queue and a build, or saves, other files, a fault | are settings kept, do binaries match env.json and what is read of its sources, is the Tor list kept, cut to its limit only, which servers does a binary enforce, is the loader current? | holds |

Why these bounds. Three or four slots for the pair: two roles, a late starter
and the ghost of a dead one. Four for the service: a pair and two that come from
outside it. A queue of two: a save fits, a save and another file do not. Six
documents: duplicates in every list; legacy keys and a `torEntryIPs` of a wrong
type; none of the DNS keys; a `DNS` of a wrong type, which the program refuses and
the build does not; a `sourceList` of a wrong type, which the build refuses and the
program does not; sources without a redirect. One remote source is longer than what
is read of it, with the end inside a line. Two addresses, one IPv6, on Linux: both families,
and a list that is refilled while another is not. Three on Windows: a list of
two rules, one of each family, that may shrink to nothing. `InitialStaleSweep` is
200 in the code and the number of rules in the model. Two IPv4 servers and no
IPv6: a list with an inside, and a family that only needs clearing.

### What the properties leave out, and why

Each exception written into a property is a behaviour of the code, seen in a
counterexample while the property was without it:

- **Refused roles.** `Run` does return errors with one start and no failing call: a
  partner that is spawned while its predecessor removes its own files, or before it
  is reaped, finds a living pid in the lock and is refused (`watchdog.go:330`). The
  next check of the survivor spawns another. `ErrorsAreRefusals` names this as the only one.
- **Two starts.** `SafeIfStartedOnce` and `ErrorsAreRefusals` speak of one start of
  the program: see `split_brain`. With two, `claimSpawnLock` also returns an
  error with no call failing: of two processes at a stale spawn lock, one may
  find it stale twice and then leaves `Run` (`watchdog.go:383`), although the
  comment at line 347 names I/O failures only. Nor does `pair` allow a stop
  together with a failing call: a process whose release fails is succeeded while
  it lingers.
- **A late partner, a pid used again.** The events `late` and `reuse` are in the
  budgets of `pair` and `restart` zero times, so their properties say nothing about
  `startupGrace` being too short, or about a stranger's pid. A partner that needs longer than
  `startupGrace` is spawned a second time, and then `SerialClaims` and
  `MutualExclusion` fail; a process that gets a pid still written in a file can
  take a lock for its own, since the code identifies a process by its pid alone;
  `FilesHonest` speaks of the time before that.
- **A graceful stop.** `restart` has none: a stopping process removes its
  heartbeat before its lock, and a partner spawned in between is refused, so a
  spawn is redundant.
- **A failed clean-up.** `cleanupStaleChunks` forgets a rule it could not delete,
  so the rule stays until the sweep of the next start. `RulesConverge` therefore
  excludes failing deletes of the last start (`LastStartUnhindered`), and is
  checked for an `initialStaleSweep` that reaches every rule there is.
- **Two writers.** With both processes `RulesConverge` does not hold under
  fairness alone: each may for ever look at a rule just when the other has
  deleted and not yet added it, and then rewrite it itself. The check intervals
  of 15 seconds make that very unlikely, but no code excludes it; `ListedBlocked`
  is what remains. On Linux every pass empties the sets for a moment, and two
  processes can keep some set incomplete at every moment, so `ListedBlocked`
  speaks of one address at a time there.
- **Warning on Linux.** `rulesExist` looks at names; `RemovalReported` does not
  speak of addresses missing from a set. Two processes may append the same
  REJECT rule twice, which does no harm to what the properties say.
- **`/etc/resolv.conf`.** A deleted file is not restored (`enforce` returns when
  it cannot be read). A link made between `EvalSymlinks` and the rename is
  replaced by a file.
- **No servers at all.** An empty list has the signature of "nothing seen"
  (`hijack_linux.go:107`, `hijack_windows.go:147`). `DriftLogged` and
  `ChangeLogged` leave it out: the removal of all servers is never logged,
  although README.md:103 says that removals are.
- **DoH flags.** A process that is killed after it wrote the flags, or whose `set`
  fails then while the servers are in order, leaves flags that are in the registry
  and not in use. Every later check reads the registry, finds all in order, and does
  not set the servers again before they drift. `InterfacesRestored` therefore asks
  for flags in use only if there was no kill and no failed command, and
  `FlagsTakeEffect` says that these two are the only causes.
- **Two guards, one list.** A process that starts again applies the embedded Tor
  list, also when the other one has applied a newer list by then (`main.go:124`); the
  newer one is back with its next fetch. `RefreshApplied` speaks of the moment at
  which a refresh returns, and of a process that runs alone.
- **Who stops the service.** `PrimaryKept` lists its excuses in `Excused`. A
  second process, or one whose heartbeat cannot be written, has the service of
  its name stopped, and systemd does not restart what it was asked to stop (the
  run `second_start`). On Windows nothing restarts a pair of which both are dead.
  A deleted or truncated unit does not survive a boot.
- **The name of the service.** `NameKept` speaks of processes that Windows starts
  from an entry this program wrote. The entry of `deploy/windows` names no
  service, a systemd unit names none, and a spawned primary is not told one
  (`watchdog.go:211`). Under a name of one's own such a process registers the
  default name as well; after the next boot both services start a primary, and
  the one that is refused its role stops the service of the default name, which
  may be the healthy one.
- **Two registrars.** A primary started by hand may truncate the unit that
  another has just verified; `RegistrationHolds` allows for that while
  `spent["hand"] > 0`.
- **env.json under the build tool.** A save between the tool's reading and its
  writing is overwritten (30 seconds pass if Onionoo is slow), a kill between
  `os.WriteFile`'s truncation and its write leaves nothing, and two invocations
  may overwrite each other: `SettingsKept` excludes these by name. A build that is
  overlapped by another, or by a save, may embed one document with the redirects
  of another, or a truncated one: `BinariesMatch` is about `fresh` invocations.
- **Long sources.** What a remote source has beyond 10 MiB is not embedded, without
  an error, and the last line may be embedded cut (`redirects.go:102`).
  `BinariesMatch` promises every redirect of a source only if it is no longer.
- **Values of a wrong type.** `"DNS": "192.0.2.1"`, or a number in `blockAddress`,
  passes the build, which decodes neither key; the program refuses the whole document
  and enforces its defaults, without blocking anything (`main.go:105-106`).
  `ServersEnforced` says so.
- **The loader.** A change between `NewLoader` and `watcher.Add`, or one whose
  notification did not fit in the queue, is not noticed before the next
  (`missed`).
- **Servers that are URLs.** `upstreamDNS` may hold URLs. They are taken for the
  chosen servers, name no address, and keep the defaults away, so that nothing is
  enforced: the exception in `ServersEnforced`.

### Fairness

- `Watchdog`: every process is scheduled (`Step`), time passes
  (`GraceExpires`), a cancelled process ends (`Exit`), the garbage collector
  runs (`Collect`). All weak. A goroutine that can run does run; no process is
  ever assumed to win a race.
- `ServiceLifecycle`: processes are scheduled (`Step`, `Stop`), the manager starts
  what it is to run and ends what it is to stop (`ManagerStart`, `KillGroup`), all
  weak. Kills, reboots, stops and failures are never fair.
- `Configuration` has safety properties only and needs none.
- Guards: a process is restarted (`Start`: by the service manager, or by the
  pair), its ticker fires, Onionoo answers in the end, and commands return, all
  weak. A goroutine that waits for `reconcileMu` gets it (strong: Go's mutex
  hands itself to a waiter of more than a millisecond). Nothing of the
  environment is fair; liveness properties speak of a primary that goes on
  guarding.

## 4. Findings

Three runs end in a counterexample to a sentence of the repository; each entry
of `findings` quotes it.

- `split_brain`: a second start reads the lock file before its creator has
  stamped it, removes it, and two processes hold the primary role
  (`watchdog.go:321`).
- `zombie`: a killed child of a living process is never waited for, counts as
  alive, and is not restarted (`watchdog.go:215`). The watchdog's parent is the
  primary, so on Linux the pair does not survive the death of the watchdog.
- `second_start`: a process that uses the state directory of the running service and
  is therefore refused the primary role calls `s.Stop()` on
  the service of that name (`service_runner.go:62`), which is the healthy one.
  systemd stops the pair and does not restart it.

README.md:41 names `1.1.1.3`, `1.0.0.3` and two IPv6 addresses as the default of
`DNS`; the code has `1.1.1.1` and `1.0.0.1` (`main.go:33`). The model has what the code
has; there is nothing in it for a run to find out.

## 5. Proofs

The constants' assumptions used are the named `ASSUME`s of the modules; TLC
evaluates them in every run. A theorem whose statement has a hypothesis of its
own says below why the code justifies it. The inductive invariants that are more
than the property were first checked with TLC on the instances of the runs.

### The pair

`WatchdogProofs`, for every number of processes, every budget of events and both
platforms:

- `Typed`: `Spec => []TypeOK`, with one step per action.
- `HoldersOwnLocks`: `Spec /\ []SerialClaims /\ []NoFaults => []HolderOwnsLock`; the
  lock file names the holder, which `SafeIfStartedOnce` contains.
- `ExclusiveRoles`: the same for `[]MutualExclusion`.
- `FilesNameOwners`: `Spec => []FilesHonest`, for any number of starts.

The invariant of the second and third is `LockInv`. `HolderOwnsLock` alone is not
inductive: a process that has read a lock file and is about to remove it could
remove the holder's. So `LockInv` adds what a process knows at each such point:
about to stamp, it finds its own empty file (`StampSound`); having read, it has
read the holder, or there is none (`VetSound`); about to remove, there is no
holder (`RemoveSound`). Each of these would be broken by a second claimant of the
same role, which is why `[]SerialClaims` is an assumption here: the run
`split_brain` shows the protocol does not provide it when the program is started
twice. `MutualExclusion` follows from `HolderOwnsLock`, as a file names one
process. `FilesInv`, the invariant of the fourth, says of every file that names a
living process at which stages of `Run` that process is; it is inductive as long
as a pid is not used again.

`WatchdogOnceProofs` shows what `WatchdogProofs` assumes. `Smooth` is the hypothesis that
no system call has failed, no partner has been late for `startupGrace`, and no
pid still in a file was used again, by the program or a stranger; kills and stops
are unrestricted.

- `OneStartIsSafe`: `Spec => [](Smooth => SafeIfStartedOnce)`.
- `NoErrorUnprovoked`: `Spec /\ []Smooth => ErrorsAreRefusals`. Supervision returns no
  error at all, and of the claims only one that finds a predecessor in the lock that
  is at `releaseRole`, has returned from `Run`, or is a zombie (`RefusalFact`).
- `OneSpawn`: if also nobody is asked to stop (`Calm`), `NoRedundantSpawn`.
- `ImplementsRolePair`: as long as `Smooth` and `spent["launch"] <= 1` hold,
  `Pair!Init /\ [][Pair!Next]_RoleHolders`: each step of the protocol is a step of
  `RolePair`, or none.

That two processes never claim a role together is the work of three mechanisms
at once, the heartbeat, its repetition under the spawn lock, and the pending
spawn, so the invariant `OnceInv` has to say how they fit: of each role one
process at most is anywhere between `claimRoleLock` and the end of
`removeOwnState` (`OneStands`); while it has not published its heartbeat, every
process of the other role is waiting for exactly this one (`Awaited`); and what a
process has read on its way to `spawn` excludes that its partner lives
(`Knows`). `SpawnLocksSound` adds who a spawn lock belongs to, from which follows
that `claimSpawnLock` never finds a second owner. The run `pair` checks
`SafeIfStartedOnce` with one failing call as well; the theorem leaves that out,
because after a failing call a process may linger in `Run` without its lock, and
that the pair survives one such call is a matter of counting, not of an
invariant.

### The firewall guards

`FirewallGuardLinuxProofs`, for every list of addresses, any number of processes
that includes the primary, and any number of events:

- `Typed`: `Spec => []TypeOK`, in particular that an ipset only gets addresses of
  its family. The inductive invariant `TypeInv` adds that what a pass has left to
  add is of the family it is at (`TodoOfFamily`), and that a process that is down
  is in the middle of nothing and waits for nothing (`OffIsIdle`). That the next
  address to add is one of those left (`LeastInSet`) rests on the well-foundedness
  of `<`.
- `ManualSurvives`: `Spec => []ManualGapsCovered`. Given `TypeInv` the property is
  inductive: a flush empties the set and owes all of it, an addition takes one
  address off what is owed and puts it into the set, and no other step of a
  process loses what it owes (`Safe`, one lemma per action). `OffIsIdle` is what
  excludes that a process stops owing by entering `reconcileOnce` while down. A
  failing command or tampering is counted in `spent`, and the property then says
  nothing.
- `AddedOnce`: `Spec => []RuleAddedOnce`, for `Proc \subseteq {"primary",
  "watchdog"}`, the two roles of the program. `SingleInv` adds that before the
  first spawn only the primary runs, and that a pass at `-A` is right that there
  is no such rule.

`FirewallGuardWindowsProofs`, for every list of addresses that `MaxRule` rules hold
(`BoundAssumption`), every size of a chunk and every budget:

- `Typed`: `Spec => []TypeOK`. `PassInv` adds that a pass works on a list the
  process has had, and where in that list each stage may be; `FinishList` and the
  clean-up would otherwise record or delete rules that do not exist.
- `ManualStable`: `Spec => ManualBlockStable`, for the two roles. The property is a
  step property, and a process that is about to rewrite a rule would break it. So
  `ManualInv` says that once the rules are in force nobody is at the deletion or
  addition of one (`Writes`), that none lies beyond them for the clean-up to take
  for stale (`NothingBeyond`), and that until then nobody but a primary in its
  baseline is there (`FirstPass`).
- `RefreshIsApplied`: `Spec => RefreshApplied`, for the two roles and `WithinSweep`:
  no list of Tor addresses needs more rules than another plus `InitialStaleSweep`.
  In the code that is 200 rules of 25 addresses; a process that has forgotten what
  its predecessor wrote does not find rules beyond it (`cleanupStaleChunks`).
  `TorInv` follows a pass: what it has passed is written (`Written`), or swept
  (`Swept`); and between passes no rule lies beyond those that the process
  remembers (`Remembered`) or a sweep would reach (`WithinReach`).

### The DNS guards

`DnsGuardLinuxProofs`, for every set of processes that includes the primary, and
every list of servers:

- `Typed`, `OnlyKillsLeaveTemps` (`Spec => []TempsAccounted`) and `LinkSurvives`
  (`Spec => SymlinkPreserved`). The invariant adds that a process that is down is
  at no stage of `enforce`, so that a kill in the middle is what loses count of a
  file, and that a writer past `EvalSymlinks` has found the target of the link.

`DnsGuardWindowsProofs`, for every set of processes and interfaces, every list
of servers and any number of events:

- `Typed`: `Spec => []TypeOK`. Besides the types, no loop of `enforce` runs past
  the list it goes through (`InLoops`), and the lists on an interface stay lists
  of servers under `set` and `add` (`CommandTyped`).
- `MappingsSurvive`: if there is a process at all, `[]MappingGapsCovered`: until
  a command fails, a server without its DoH mapping is one some process has yet
  to add, or some process is down. The property allows more than is inductive: it
  lets a guarding process at "add" count for all later servers as well, although
  after this one it adds the next one only once it has deleted it. The invariant
  `GapsCovered` counts, for a process that guards, only the server it is at, and
  for one that applies its baseline all that are left. `OffIdle` says that a dead
  process does not act.
- `FlagsInUse`: `Spec => FlagsTakeEffect`. A process that has written a flag has the
  `set` of its family before it (`WillSet`), whatever others do to the interface; each
  step either keeps that, or loads the flag, or is the kill or the failure that the
  property names (`WillSetKept`).
- `FirstStaysFirst`: `Spec => FirstServerKept`. A list is rebuilt by `set` of the
  first and insertions behind it, and an insertion beyond the end goes to the end
  (`CommandKeepsFirst`, by the laws of `SubSeq` and concatenation).

### The service

`ServiceLifecycleProofs`, for any number of processes, all names and budgets:

- `Typed`: `Spec => []TypeOK`, with `OwnCommands`: systemd's commands are only run
  on Linux, those of the SCM on Windows.
- `NameIsKept`: `DefaultInstall => (Spec => NameKept)`.
- `Holds`: `DefaultInstall => (Spec => []RegistrationHolds)`.

`DefaultInstall` says that before the program runs for the first time, at most the
service of the default name is installed. That is what `deploy/` installs; two
units under different names, neither of which passes its name to the program,
would both register the default one. `AchievedInv` of `Holds` says what each
command of a registration has left for the next one to rely on: the unit is the
program's own once it was read or written, loaded once it was reloaded, enabled
once that was seen or done. Another primary's truncation would take that away, so
on Linux `SoleInv` has to show that without a start by hand there is no other at
work: what systemd starts is alone until it supervises, because it ends the whole
control group first.

### The configuration

`ConfigurationProofs`, for every set of documents, flags, sources and answers,
any number of invocations and any length of the queue:

- `CurrentLoader`: `Spec => []LoaderCurrent`. The inductive `LoaderInv` says what
  holds while a notification is handled: what the loader has read or loaded is
  the file as it is, or a notification of env.json is left, or one was missed.
  It needs facts about a queue that drops what does not fit (`Queued`).
- `UserSettings`: `Spec => []SettingsKept`. The inductive `SettingsInv` carries the
  settings through an invocation: as long as nobody disturbs it, what it holds
  between reading and writing has the settings saved last.
- `Typed`: `Spec => []TypeOK`. The inductive `BuildTyped` adds that what is left to
  fetch are known sources, and what is left to build are targets of the flags.
- `Servers`: `Spec => []ServersEnforced`, from `BuildTyped` and what
  `EnforcedServers` makes of any document, those included that only the program
  refuses (`Enforced`, `NothingJoined`).
- `TorList`: `Spec => []TorListKept`. A limit of 0 keeps all; any other keeps as many as
  it allows (`Allowed`).
- `BuiltAsConfigured`: `Spec => []BinariesMatch`: the redirects of what is read of each
  source, which are those it holds if it is not cut (`WholeSources`). The inductive `BuildInv` says of an invocation that is `fresh`
  that no other is at work, and, stage by stage, how what it holds relates to
  env.json: the list is short of duplicates from reading to the end (`ListSound`);
  the redirects that are merged and those of the sources that are left are those
  of env.json (`RedirectsSound`); the targets that are built hold the generated
  sources (`BinariesSound`). That the list is taken from the one the user saved
  needs `FirstRead`: until some invocation opens env.json, it is what was saved, or
  empty.

The algorithms on lists (`normalizeIPList`, `LoadSources`, `FetchBlock`) keep the
first of equal entries. `Distinct` is therefore defined by positions rather than
by a fold: what it returns is then a matter of counting them (`Ranks`) instead of
induction over the list, and `DistinctMembers`, `NormalizedList` and `MergedLines`
hold for lists of any length.

### Model-checked only

Liveness under fairness, and with it that a vacant role of `RolePair` is filled
again, needs `ENABLED`. `SafeIfStartedOnce` with a failing call, and `DriftReported`,
`DriftLogged` and `ChangeLogged`, which are liveness, stay with TLC too.

## 6. Not modelled

- `BuildManagedContent` (`redirects.go`), which only its test calls, and the
  transport part of `upstreamDNS`, which nothing reads.
- The HTTP requests of `internal/torfetch` and `internal/redirects`, and the
  sorting of what they return: an answer is a list, or an error.
- The text of netsh, ipset and `resolv.conf`: parsing is taken to return what
  is there. `normalizeHostPort` and the lists of `EnvDocument` are modelled by
  what they do to an entry, not character by character.
- Flags other than `--service-name`, and registration with an empty name, on
  other systems or in an unprotected build, where it does nothing.
- A look-up of interface identifiers that fails (then no flag counts as
  missing), and the several spellings of one netsh command.
- Of a rule of the Windows firewall, everything but its name and its remote addresses:
  one that somebody disabled, or gave another action, is neither in the model nor
  noticed by the code (`reconcile`, `guard_windows.go:129-135`), although README.md:103
  promises a log entry for changed settings.
- A failing `os.Remove` of a temporary file, which the code ignores.
- An env.json that is just `null`.
- An answer of Onionoo without any guard is a success with an empty list, which removes
  every Tor rule (`torfetch.go:74`). Lists of the models may be empty; whether a fetch
  should refuse it is stated nowhere.
- On Windows, that a rename fails because another process has the file open
  (`watchdog.go:252`): it is one of the failing calls, but not tied to a reader.
- A process that hangs: fairness makes every process go on.
- Camouflage, logging, the deployment scripts, stub guards: no state that another
  part reads.

## 7. Plan

The run table stays at a dozen: one run per instance, with all the questions it
can answer.

Done, in this order: the pair with `RolePair` and its proofs; `GuardRuntime` with
both firewall guards; both DNS guards; the service with its registration; the
configuration with the build tool and the loader; the proofs of section 5.

Left, in order of importance:

1. `PartnerTimer`: `heartbeatInterval`, `staleAfter` and `startupGrace` in
   integer time, for the one process and its partner that `Watchdog` abstracts.
2. `AddressLists`, `ServerLists`: `dedupeSorted`, `splitDesiredServers`,
   `parseDNSServers`, `missingRedirects` against reference definitions.
