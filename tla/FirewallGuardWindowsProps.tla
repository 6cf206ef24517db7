--------------------- MODULE FirewallGuardWindowsProps ---------------------
(***************************************************************************)
(* What the netsh rules guarantee while processes of the program come and  *)
(* go, Onionoo publishes new lists and rules are tampered with.            *)
(***************************************************************************)
EXTENDS FirewallGuardWindows

\* The rules of a list are in force: each as desired, and no stale one.
InForce(prefix, tor) ==
    LET chunks == Chunks(prefix, tor)
    IN \A i \in 1..MaxRule :
          IF i \in DOMAIN chunks
            THEN rules[prefix][i] # {} /\ RuleRemoteIPs(prefix, i) = chunks[i]
            ELSE rules[prefix][i] = {}

\* No command has failed so far, and nobody has tampered with the rules.
Undisturbed == spent["fault"] + spent["tamper"] = 0

\* The addresses of blockAddress, once blocked, stay blocked through every Tor
\* refresh, every restart of either process and every clean-up, by its own
\* process or the other, unless a command fails or somebody tampers: a rule in
\* force is never rewritten, and the two families of names never meet
\* (reconcile, cleanupStaleChunks).
ManualBlockStable ==
    [][InForce("manual", {}) /\ Undisturbed' => InForce("manual", {})']_rules

\* When the RunOnce of a Tor refresh returns, its list is in force: it neither
\* applied an older copy of the list nor left a rule of a longer one behind, if
\* the process is alone
\* (SetTorEntryIPs, reconcileOnce under reconcileMu).
RefreshApplied ==
    [][\A p \in Proc :
          turn[p] = "refresh" /\ turn'[p] = "nobody" /\ Guarding(p)'
          /\ Undisturbed' /\ spent["spawn"] = 0
              => InForce("tor", torEntryIPs[p])]_vars

\* README, "new Onionoo IPs are added and removed IPs are cleaned
\* automatically": in the end the rules are exactly those of the list published
\* last, and of blockAddress, whoever tampered with them and however often the
\* process was restarted.  A delete that fails leaves a rule the process has
\* forgotten (cleanupStaleChunks), and the sweep of the next process, if no
\* command of that one fails, makes it good.  (Not so with two processes.)
Enforced == <>[](mode["primary"] = "guard")
LastStartUnhindered ==
    \/ [](spent["fault"] = 0)
    \/ <>(spent["fault"] = 1 /\ mode["primary"] = "off")
RulesConverge ==
    Enforced /\ LastStartUnhindered
        => <>(\/ spent["spawn"] > 0
              \/ [](InForce("tor", published) /\ InForce("manual", {})))

\* Weaker, but whatever netsh commands fail on the way, and with both processes:
\* again and again every address of either list is in some rule (a rule that
\* could not be written is found missing or changed by the next check).
Blocked(a) == \E x \in Prefix, i \in 1..MaxRule : a \in RuleRemoteIPs(x, i)
ListedBlocked ==
    Enforced => []<>(\A a \in published \union ManualIPs : Blocked(a))

\* README, "then only logs if settings are changed or removed": while a rule of
\* the configuration is missing or changed and stays so, a guard that only warns
\* has logged it (reconcileOnce, the field missing).
Wanting(prefix, tor) ==
    \E i \in DOMAIN Chunks(prefix, tor) :
        RuleRemoteIPs(prefix, i) # Chunks(prefix, tor)[i]
Differs == Wanting("manual", {}) \/ Wanting("tor", SeedTorIPs)
DriftReported ==
    <>[](mode["primary"] = "warn" /\ Differs) => <>[]missing["primary"]
=============================================================================
