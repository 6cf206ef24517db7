---------------------- MODULE FirewallGuardLinuxProps ----------------------
(***************************************************************************)
(* What the ipsets and REJECT rules guarantee although every pass of every *)
(* process empties and refills the sets under the others.                  *)
(***************************************************************************)
EXTENDS FirewallGuardLinux

ManualDone(p) == pass[p].prefix = "tor" \/ pass[p].at \in {"check", "append"}

\* Process p has yet to add address a of blockAddress in its present pass, which
\* is not one that only looks.
OwesManual(p, f, a) ==
    /\ Busy(p) /\ pass[p].at \notin {"list", "find"}
    /\ \/ f = "inet6" /\ pass[p].fam = "inet"
       \/ /\ pass[p].fam = f
          /\ ~ManualDone(p)
          /\ pass[p].at = "add" => a \in pass[p].todo

\* An address of blockAddress is missing from its set only while some process
\* is about to add it, or is down: whoever flushes the set last refills it,
\* however the commands of the two processes interleave (applySet).
ManualGapsCovered ==
    spent["fault"] + spent["tamper"] = 0 =>
    \A f \in Family : \A a \in Desired("manual", f, {}) :
        a \in sets["manual"][f].ips
        \/ \E p \in Proc : mode[p] = "off" \/ OwesManual(p, f, a)

\* However often it is restarted, killed between the check and the addition or
\* tampered with, a single process never adds a rule that is there: only a check
\* that fails, or a second process between "-C" and "-A", doubles one, which
\* nothing removes (ensureRejectRule).
RuleAddedOnce ==
    spent["spawn"] + spent["fault"] = 0 =>
        \A x \in Prefix, f \in Family : rejects[x][f] <= 1

\* README, "new Onionoo IPs are added": every address of either list comes to
\* be rejected again and again, whatever was tampered with, whichever command
\* failed and whoever was killed, if the primary goes on enforcing the lists;
\* with a second process too, although each empties the sets under the other.
Enforced == <>[](mode["primary"] = "guard")
Rejected(x, a) ==
    \E f \in Family : a \in sets[x][f].ips /\ rejects[x][f] > 0
ListedBlocked ==
    Enforced => /\ \A a \in ManualIPs : []<>Rejected("manual", a)
                /\ \A a \in UNION Publications :
                      []<>(a \in published => Rejected("tor", a))

\* README, "removed IPs are cleaned automatically": an address that is no
\* longer published stays out of the Tor sets in the end.
RemovedCleaned ==
    Enforced => <>[](\A f \in Family : sets["tor"][f].ips \subseteq published)

\* README, "then only logs if settings are changed or removed": while a rule of
\* a warn-only guard is missing and stays so, a check has logged it.  (Not so
\* for an address that is missing from a set: rulesExist looks at names only.)
RemovalReported ==
    <>[](mode["primary"] = "warn" /\ \E x \in Prefix, f \in Family : rejects[x][f] = 0)
        => <>[]missing["primary"]
=============================================================================
