------------------------ MODULE DnsGuardWindowsProps ------------------------
(***************************************************************************)
(* What the interface guard guarantees.                                    *)
(***************************************************************************)
EXTENDS DnsGuardWindows

Stage == {"idle", "list", "delete", "add", "next", "read", "judge", "flag",
          "apply"}
ServerList == Seq(Nat)
Locals == [at : Stage, todo : SUBSET Iface, iface : Iface \union {NoIface},
           fam : Family, idx : Nat, read : [Family -> ServerList], ok : BOOLEAN]

\* No loop of enforce runs past the servers it goes through, and the parts
\* about one interface are at one.
InLoops(l) ==
    /\ l.at = "delete" => l.idx \in 1..(Len(Servers) + 1)
    /\ l.at \in {"add", "flag"} => l.idx \in 1..Len(Servers)
    /\ l.at = "flag" => l.fam = "v4"
    /\ l.at = "apply" => l.idx \in 1..Len(Desired(l.fam)) \/ l.idx = 1
    /\ l.at \in {"read", "judge", "flag", "apply"} => l.iface \in Iface

\* The type invariant.
TypeOK ==
    /\ up \subseteq Iface
    /\ dns \in [Iface -> [Family -> ServerList]]
    /\ doh \in [Iface -> SUBSET ToSet(Servers)]
    /\ loaded \in [Iface -> SUBSET ToSet(Servers)]
    /\ encryption \subseteq ToSet(Servers)
    /\ mode \in [Proc -> {"off", "baseline", "guard", "warn"}]
    /\ pass \in [Proc -> Locals]
    /\ \A p \in Proc : InLoops(pass[p])
    /\ lastSeen \in [Proc -> [Iface -> ServerList]]
    /\ lastLog \in [Proc -> [Iface -> ServerList]]
    /\ spent \in [EnvEvent -> Nat]

\* ensureDoHEncryption deletes the mapping of a server before it adds it, in
\* every pass of every process.  A mapping is missing only while a process has
\* yet to add it again: no interleaving of two processes loses it.
OwesMapping(p, n) ==
    \/ mode[p] = "off"
    \/ At(p, "list") /\ mode[p] = "baseline"
    \/ At(p, "delete") /\ mode[p] = "baseline"
         /\ \E k \in pass[p].idx..Len(Servers) : Servers[k] = n
    \/ At(p, "add") /\ \E k \in pass[p].idx..Len(Servers) : Servers[k] = n
MappingGapsCovered ==
    spent["fault"] = 0 =>
        \A n \in ToSet(Servers) :
            n \in encryption \/ \E p \in Proc : OwesMapping(p, n)

\* An interface whose first server is the desired one keeps it first through
\* every command of either process: the list is rebuilt behind it
\* (applyInterfaceDNS).
FirstServerKept ==
    [][\A p \in Proc, i \in Iface, f \in Family :
          EnforceStep(p) /\ dns[i][f] # <<>> /\ Desired(f) # <<>>
          /\ dns[i][f][1] = Desired(f)[1]
              => dns'[i][f] # <<>> /\ dns'[i][f][1] = Desired(f)[1]]_vars

\* A flag is of use once the DNS client loads it, which it does when the servers
\* are set again after the flag was written (enforce).
WillSet(p, i, n) ==
    /\ pass[p].iface = i
    /\ \/ At(p, "flag")
       \/ /\ At(p, "apply")
          /\ \/ pass[p].idx = 1 /\ n \in ToSet(Desired(pass[p].fam))
             \/ pass[p].fam = "v4" /\ n \in ToSet(DesiredV6)
Unused(i, n) == n \in doh[i] \ loaded[i] /\ ~\E p \in Proc : WillSet(p, i, n)

\* A flag is left in the registry without being in use only by a process that is
\* killed after it wrote the flag, or whose "set" for that server's family fails.
\* Whatever the processes and outsiders do to the interface in between, nothing
\* else does it.  (What is left so is found in order by every later check, and
\* its servers are not set again until they drift.)
FlagsTakeEffect ==
    [][\A i \in Iface, n \in ToSet(Servers) :
          ~Unused(i, n) /\ Unused(i, n)' =>
              \E p \in Proc : WillSet(p, i, n) /\ (mode'[p] = "off" \/ ApplyFails(p))]_vars

\* A server is mapped to the DoH template, but for the moment between the deletion
\* of its mapping and the addition.
Mapped(n) == n \in encryption \/ \E p \in Proc : At(p, "add") /\ Servers[pass[p].idx] = n

\* Guard's comment, "restores it when changed": in the end every interface that is
\* up has the configured servers, with their flags in the registry, and every
\* server its mapping, even if another interface refuses them (enforce goes on
\* after a failed interface).  If no process was killed and no command failed, the
\* flags are in use too; FlagsTakeEffect says what they may come to otherwise.
Restored(i) ==
    /\ \A f \in Family : dns[i][f] = Desired(f)
    /\ i \notin NoGuid => ToSet(Servers) \subseteq doh[i]
    /\ spent["crash"] + spent["fault"] = 0 => doh[i] \subseteq loaded[i]
InterfacesRestored ==
    <>[](mode["primary"] = "guard")
        => <>[](/\ \A i \in up \ Broken : Restored(i)
                /\ \A n \in ToSet(Servers) : Mapped(n))

\* lastSeen's comment, "lets us re-log every distinct change": a drift that
\* lasts is the one logged last by a guard that only warns.
LastingDriftLogged(four, six) ==
    \A i \in Iface :
        <>[](/\ mode["primary"] = "warn" /\ i \in up
             /\ dns[i] = [f \in Family |-> IF f = "v4" THEN four ELSE six]
             /\ <<four, six>> # <<DesiredV4, DesiredV6>>)
            => <>[](lastLog["primary"][i] = Signature(four, six))

\* This is so while there are servers.  README's "logs if settings are changed
\* or removed" also promises it for none, whose signature is that of an interface
\* nothing was seen of: without the exception the property fails.
ChangeLogged ==
    \A four, six \in Lists :
        <<four, six>> # << <<>>, <<>> >> => LastingDriftLogged(four, six)
=============================================================================
