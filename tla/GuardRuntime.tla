---------------------------- MODULE GuardRuntime ----------------------------
(***************************************************************************)
(* How main.go runs the firewall guard in every process of the program.    *)
(*                                                                         *)
(* A process applies the rules once with a Guard made for that, and then   *)
(* runs a second Guard whose periodic check and Tor refresh both call      *)
(* reconcileOnce and take turns under reconcileMu.  What reconcileOnce     *)
(* does depends on the platform: FirewallGuardWindows, FirewallGuardLinux. *)
(***************************************************************************)
EXTENDS Naturals, FiniteSets

CONSTANTS
    Proc,         \* the roles that run: {"primary", "watchdog"} or fewer
    IP,           \* addresses, in the order of their text form
    V6,           \* those that are IPv6
    ManualIPs,    \* the literal addresses of blockAddress
    SeedTorIPs,   \* torEntryIPs of the embedded configuration
    Publications, \* the guard lists Onionoo may publish
    Builds,       \* what may be installed: "guard", or -tags noprotection: "warn"
    Budgets       \* how often each event may happen: one budget, or several

EnvEvent == {"spawn", "crash", "fault", "publish", "tamper"}

ASSUME RolesAssumption == "primary" \in Proc
ASSUME ListsAssumption ==
    /\ IP \subseteq Nat /\ IsFiniteSet(IP) /\ V6 \subseteq IP
    /\ Publications \subseteq SUBSET IP
    /\ ManualIPs \subseteq IP /\ SeedTorIPs \subseteq IP
ASSUME BuildAssumption == Builds \subseteq {"guard", "warn"}
ASSUME EventsAssumption == Budgets \subseteq [EnvEvent -> Nat]

VARIABLES
    mode,         \* off, applying the baseline, or the build that guards
    torEntryIPs,  \* Guard.torEntryIPs of each process
    turn,         \* the goroutine inside reconcileOnce
    queued,       \* goroutines waiting for reconcileMu
    published,    \* what Onionoo answers
    spent         \* how often each event has happened

runtime == <<mode, torEntryIPs, turn, queued, published, spent>>

Prefix == {"manual", "tor"}  \* the two lists of addresses
Goroutine == {"run", "refresh"}

RuntimeInit ==
    /\ mode = [p \in Proc |-> "off"]
    /\ torEntryIPs = [p \in Proc |-> SeedTorIPs]
    /\ turn = [p \in Proc |-> "nobody"]
    /\ queued = [p \in Proc |-> {}]
    /\ published \in Publications
    /\ spent = [e \in EnvEvent |-> 0]

Guarding(p) == mode[p] \in {"guard", "warn"}
Busy(p) == turn[p] # "nobody"
Idle(p, g) == Guarding(p) /\ g \notin queued[p] /\ turn[p] # g
Wants(p, g) == queued' = [queued EXCEPT ![p] = @ \union {g}]

\* Does this process's present Guard only warn?
Warns(p) == mode[p] = "warn"

\* The builds p may be of: only protected ones come in pairs, both of one build.
Installed(p) ==
    {b \in Builds : p = "watchdog" \/ (\E q \in Proc \ {p} : mode[q] # "off")
                        => b = "guard"}

\* An event happens, within one of the budgets.
Spend(e) ==
    LET after == [spent EXCEPT ![e] = @ + 1]
    IN /\ \E b \in Budgets : \A x \in EnvEvent : after[x] <= b[x]
       /\ spent' = after

-----------------------------------------------------------------------------
\* The service manager or the watchdog (re)starts the primary; a primary past
\* its baseline spawns the watchdog.  Either first applies the embedded
\* configuration.
Launch(p) ==
    /\ mode[p] = "off"
    /\ IF p = "watchdog" THEN mode["primary"] = "guard" /\ Spend("spawn")
       ELSE UNCHANGED spent
    /\ mode' = [mode EXCEPT ![p] = "baseline"]
    /\ turn' = [turn EXCEPT ![p] = "main"]
    /\ UNCHANGED <<torEntryIPs, queued, published>>

\* The ticker of Run fires.
RequestCheck(p) ==
    /\ Idle(p, "run")
    /\ Wants(p, "run")
    /\ UNCHANGED <<mode, torEntryIPs, turn, published, spent>>

\* RunRefreshLoop got an answer and applies it: SetTorEntryIPs, then RunOnce.
\* A failed request changes nothing.  Unprotected builds run no such loop.
RequestRefresh(p) ==
    /\ ~Warns(p)
    /\ Idle(p, "refresh")
    /\ torEntryIPs' = [torEntryIPs EXCEPT ![p] = published]
    /\ Wants(p, "refresh")
    /\ UNCHANGED <<mode, turn, published, spent>>

\* A goroutine gets reconcileMu.
Enter(p, g) ==
    /\ turn[p] = "nobody"
    /\ g \in queued[p]
    /\ turn' = [turn EXCEPT ![p] = g]
    /\ queued' = [queued EXCEPT ![p] = @ \ {g}]
    /\ UNCHANGED <<mode, torEntryIPs, published, spent>>

\* reconcileOnce returns.  After the baseline the guarding goroutines start,
\* with a new Guard of the build that is installed; Run checks at once.
Leave(p) ==
    /\ turn' = [turn EXCEPT ![p] = "nobody"]
    /\ IF Guarding(p) THEN UNCHANGED mode
       ELSE \E build \in Installed(p) : mode' = [mode EXCEPT ![p] = build]
    /\ queued' = IF Guarding(p) THEN queued ELSE [queued EXCEPT ![p] = {"run"}]
    /\ UNCHANGED <<torEntryIPs, published>>

-----------------------------------------------------------------------------
(* The environment.                                                        *)

\* How a command ends; one that fails costs a fault.
Outcome(ok) == (ok /\ UNCHANGED spent) \/ (~ok /\ Spend("fault"))

\* The process is killed, or stops: all it keeps in memory is gone.
Kill(p) ==
    /\ mode[p] # "off"
    /\ Spend("crash")
    /\ mode' = [mode EXCEPT ![p] = "off"]
    /\ torEntryIPs' = [torEntryIPs EXCEPT ![p] = SeedTorIPs]
    /\ turn' = [turn EXCEPT ![p] = "nobody"]
    /\ queued' = [queued EXCEPT ![p] = {}]
    /\ UNCHANGED published

PublishList(S) ==
    /\ S # published
    /\ Spend("publish")
    /\ published' = S
    /\ UNCHANGED <<mode, torEntryIPs, turn, queued>>

RuntimeTypeOK ==
    /\ mode \in [Proc -> {"off", "baseline", "guard", "warn"}]
    /\ torEntryIPs \in [Proc -> SUBSET IP]
    /\ turn \in [Proc -> Goroutine \union {"nobody", "main"}]
    /\ queued \in [Proc -> SUBSET Goroutine]
    /\ published \in Publications
    /\ spent \in [EnvEvent -> Nat]
=============================================================================
