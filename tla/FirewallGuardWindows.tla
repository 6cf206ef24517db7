------------------------ MODULE FirewallGuardWindows ------------------------
(***************************************************************************)
(* internal/firewallguard on Windows.                                      *)
(*                                                                         *)
(* Each list is kept in numbered outbound rules of at most ChunkSize       *)
(* addresses.  Each action that touches the rules is one netsh command,    *)
(* so the processes interleave between any two commands.                   *)
(***************************************************************************)
EXTENDS GuardRuntime

CONSTANTS
    ChunkSize,
    InitialStaleSweep,
    MaxRule        \* bound: no list needs more rules, so none beyond exists

ASSUME SizesAssumption ==
    /\ ChunkSize \in Nat \ {0}
    /\ InitialStaleSweep \in Nat
    /\ MaxRule \in Nat

VARIABLES
    rules,       \* the firewall: the remote addresses of the rules of a name
    lastChunks,  \* Guard.lastChunks of each process
    missing,     \* Guard.missing of each process
    pass         \* the locals of its reconcileOnce

vars == <<runtime, rules, lastChunks, missing, pass>>

-----------------------------------------------------------------------------
(* Lists, chunks and rule names.                                           *)

Rank(S, a) == Cardinality({b \in S : b < a})
ChunkCount(S) == (Cardinality(S) + ChunkSize - 1) \div ChunkSize
SplitChunks(S) ==
    [i \in 1..ChunkCount(S) |-> {a \in S : Rank(S, a) \div ChunkSize = i - 1}]

RuleCount(S) == ChunkCount(S \ V6) + ChunkCount(S \intersect V6)

\* IPv4 chunks first, then IPv6 chunks; no rule mixes the two.
SplitIPChunksByFamily(S) ==
    LET four == SplitChunks(S \ V6)
        six == SplitChunks(S \intersect V6)
        n == ChunkCount(S \ V6)
    IN [i \in 1..RuleCount(S) |->
           IF i <= n THEN four[i] ELSE six[i - n]]

Chunks(prefix, tor) ==
    SplitIPChunksByFamily(IF prefix = "manual" THEN ManualIPs ELSE tor)

\* MaxRule is as large as it says.
ASSUME BoundAssumption ==
    \A S \in {ManualIPs, SeedTorIPs} \union Publications : RuleCount(S) <= MaxRule

\* netsh lists every rule of a name, and ruleRemoteIPs reads them as one.
RuleRemoteIPs(prefix, i) == UNION rules[prefix][i]

\* Mutants of RuleMatches: every rule is written anew on every check; a rule is
\* only looked up by its name.
RuleMatchesNever(prefix, i, chunk) == FALSE
RuleMatchesByName(prefix, i, chunk) == rules[prefix][i] # {}

RuleMatches(prefix, i, chunk) ==
    rules[prefix][i] # {} /\ RuleRemoteIPs(prefix, i) = chunk

-----------------------------------------------------------------------------
(* reconcileOnce begins with a copy of the list, made under reconcileMu.   *)

NewPass(tor) ==
    [at |-> "show", prefix |-> "manual", idx |-> 1, tor |-> tor,
     drift |-> FALSE]
NoPass == NewPass({})
NoHistory == <<>>  \* an empty lastChunks

Init ==
    /\ RuntimeInit
    /\ rules = [x \in Prefix |-> [i \in 1..MaxRule |-> {}]]
    /\ lastChunks = [p \in Proc |-> NoHistory]
    /\ missing = [p \in Proc |-> FALSE]
    /\ pass = [p \in Proc |-> NoPass]

Start(p) ==
    /\ Launch(p)
    /\ pass' = [pass EXCEPT ![p] = NewPass(SeedTorIPs)]
    /\ UNCHANGED <<rules, lastChunks, missing>>

Tick(p) == RequestCheck(p) /\ UNCHANGED <<rules, lastChunks, missing, pass>>

Refresh(p) == RequestRefresh(p) /\ UNCHANGED <<rules, lastChunks, missing, pass>>

EnterReconcile(p, g) ==
    /\ Enter(p, g)
    /\ pass' = [pass EXCEPT ![p] = NewPass(torEntryIPs[p])]
    /\ UNCHANGED <<rules, lastChunks, missing>>

-----------------------------------------------------------------------------
(* reconcile: one netsh command at a time.                                 *)

PassChunks(p) == Chunks(pass[p].prefix, pass[p].tor)
At(p, stage) == Busy(p) /\ pass[p].at = stage

SetRule(p, contents) ==
    rules' = [rules EXCEPT ![pass[p].prefix][pass[p].idx] = contents]

\* ruleRemoteIPs: a failing "show" looks like a missing rule.  A rule that is
\* right is left alone, and a warn-only guard leaves every rule alone.
ShowRule(p) ==
    LET i == pass[p].idx
        matches(ok) == ok /\ RuleMatches(pass[p].prefix, i, PassChunks(p)[i])
    IN /\ At(p, "show")
       /\ i \in DOMAIN PassChunks(p)
       /\ \E ok \in BOOLEAN :
             /\ Outcome(ok)
             /\ pass' = [pass EXCEPT ![p] =
                   IF matches(ok) THEN [@ EXCEPT !.idx = i + 1]
                   ELSE IF Warns(p)
                     THEN [@ EXCEPT !.idx = i + 1, !.drift = TRUE]
                   ELSE [@ EXCEPT !.at = "delete", !.drift = TRUE]]
       /\ UNCHANGED <<mode, torEntryIPs, turn, queued, published, rules,
                      lastChunks, missing>>

\* writeRule, first half: "delete" removes every rule of the name.
DeleteRule(p) ==
    /\ At(p, "delete")
    /\ \E ok \in BOOLEAN :
          /\ Outcome(ok)
          /\ IF ok THEN SetRule(p, {}) ELSE UNCHANGED rules
    /\ pass' = [pass EXCEPT ![p].at = "add"]
    /\ UNCHANGED <<mode, torEntryIPs, turn, queued, published, lastChunks,
                   missing>>

\* writeRule, second half: "add" adds a rule even when the name is taken.
AddRule(p) ==
    LET i == pass[p].idx
        was == rules[pass[p].prefix][i]
    IN /\ At(p, "add")
       /\ \E ok \in BOOLEAN :
             /\ Outcome(ok)
             /\ IF ok THEN SetRule(p, was \union {PassChunks(p)[i]})
                      ELSE UNCHANGED rules
       /\ pass' = [pass EXCEPT ![p].at = "show", ![p].idx = i + 1]
       /\ UNCHANGED <<mode, torEntryIPs, turn, queued, published, lastChunks,
                      missing>>

-----------------------------------------------------------------------------
(* After the chunks: cleanupStaleChunks, and then the next list, or the    *)
(* end of reconcileOnce.                                                   *)

\* A warn-only guard warns of the first drift and remembers that it did; the
\* Guard of the baseline is dropped, and with it its lastChunks.
FinishPass(p, chunks) ==
    /\ Leave(p)
    /\ UNCHANGED spent
    /\ pass' = [pass EXCEPT ![p] = NoPass]
    /\ missing' = [missing EXCEPT ![p] = Warns(p) /\ pass[p].drift]
    /\ lastChunks' = [lastChunks EXCEPT ![p] =
                         IF Guarding(p) THEN chunks ELSE NoHistory]

FinishList(p, chunks) ==
    IF pass[p].prefix = "tor" THEN FinishPass(p, chunks)
    ELSE /\ pass' = [pass EXCEPT ![p].prefix = "tor", ![p].idx = 1,
                                 ![p].at = "show"]
         /\ lastChunks' = [lastChunks EXCEPT ![p] = chunks]
         /\ UNCHANGED <<runtime, missing>>

ChunksChecked(p) ==
    /\ At(p, "show")
    /\ pass[p].idx \notin DOMAIN PassChunks(p)
    /\ IF Warns(p) THEN FinishList(p, lastChunks[p])
       ELSE /\ pass' = [pass EXCEPT ![p].at = "cleanup"]
            /\ UNCHANGED <<runtime, lastChunks, missing>>
    /\ UNCHANGED rules

\* Mutant of CurrentCount: one too many.
CurrentCountPlusOne(p) == Cardinality(DOMAIN PassChunks(p)) + 1

CurrentCount(p) == Cardinality(DOMAIN PassChunks(p))

\* Mutant of PreviousCount: no sweep when lastChunks knows nothing.
PreviousCountUnswept(p) ==
    IF pass[p].prefix \in DOMAIN lastChunks[p]
      THEN lastChunks[p][pass[p].prefix]
      ELSE 0

PreviousCount(p) ==
    IF pass[p].prefix \in DOMAIN lastChunks[p]
      THEN lastChunks[p][pass[p].prefix]
      ELSE CurrentCount(p) + InitialStaleSweep

\* Mutant of StaleChunkIndexes: the first stale rule is passed over.
StaleChunkIndexesOffByOne(p) ==
    {i \in (CurrentCount(p) + 2)..PreviousCount(p) : i <= MaxRule}

\* Rules beyond MaxRule do not exist: deleting them changes nothing.
StaleChunkIndexes(p) ==
    {i \in (CurrentCount(p) + 1)..PreviousCount(p) : i <= MaxRule}

\* One stale rule is deleted; whether that worked is not looked at.
DeleteStaleRule(p) ==
    /\ At(p, "cleanup")
    /\ pass[p].idx \in StaleChunkIndexes(p)
    /\ \E ok \in BOOLEAN :
          /\ Outcome(ok)
          /\ IF ok THEN SetRule(p, {}) ELSE UNCHANGED rules
    /\ pass' = [pass EXCEPT ![p].idx = @ + 1]
    /\ UNCHANGED <<mode, torEntryIPs, turn, queued, published, lastChunks,
                   missing>>

Recorded(chunks, prefix, n) ==
    [x \in DOMAIN chunks \union {prefix} |-> IF x = prefix THEN n ELSE chunks[x]]

\* The loop is over: lastChunks is set, whatever the deletions did.
CleanupDone(p) ==
    /\ At(p, "cleanup")
    /\ pass[p].idx \notin StaleChunkIndexes(p)
    /\ FinishList(p, Recorded(lastChunks[p], pass[p].prefix, CurrentCount(p)))
    /\ UNCHANGED rules

-----------------------------------------------------------------------------
Crash(p) ==
    /\ Kill(p)
    /\ lastChunks' = [lastChunks EXCEPT ![p] = NoHistory]
    /\ missing' = [missing EXCEPT ![p] = FALSE]
    /\ pass' = [pass EXCEPT ![p] = NoPass]
    /\ UNCHANGED rules

Publish(S) == PublishList(S) /\ UNCHANGED <<rules, lastChunks, missing, pass>>

\* Somebody deletes a rule of ours, or rewrites its remote addresses.
Tamper(prefix, i, contents) ==
    /\ rules[prefix][i] # {}
    /\ Spend("tamper")
    /\ rules' = [rules EXCEPT ![prefix][i] = contents]
    /\ UNCHANGED <<mode, torEntryIPs, turn, queued, published, lastChunks,
                   missing, pass>>

ReconcileStep(p) ==
    \/ ShowRule(p) \/ DeleteRule(p) \/ AddRule(p) \/ ChunksChecked(p)
    \/ DeleteStaleRule(p) \/ CleanupDone(p)

Step(p) ==
    \/ Start(p) \/ Tick(p) \/ Refresh(p)
    \/ \E g \in Goroutine : EnterReconcile(p, g)
    \/ ReconcileStep(p)

Environment ==
    \/ \E p \in Proc : Crash(p)
    \/ \E S \in Publications : Publish(S)
    \/ \E x \in Prefix, i \in 1..MaxRule, a \in IP :
          Tamper(x, i, {}) \/ Tamper(x, i, {{a}})

Next == Environment \/ \E p \in Proc : Step(p)

\* Processes are restarted, timers fire, a netsh command returns, Onionoo
\* answers in the end, and a goroutine that waits for the mutex gets it.
Fairness ==
    \A p \in Proc :
        /\ WF_vars(Start(p))
        /\ WF_vars(Tick(p))
        /\ WF_vars(Refresh(p))
        /\ WF_vars(ReconcileStep(p))
        /\ \A g \in Goroutine : SF_vars(EnterReconcile(p, g))

Spec == Init /\ [][Next]_vars
FairSpec == Spec /\ Fairness

TypeOK ==
    /\ RuntimeTypeOK
    /\ rules \in [Prefix -> [1..MaxRule -> SUBSET SUBSET IP]]
    /\ lastChunks \in [Proc -> UNION {[D -> 0..MaxRule] : D \in SUBSET Prefix}]
    /\ missing \in [Proc -> BOOLEAN]
    /\ pass \in [Proc -> [at : {"show", "delete", "add", "cleanup"},
                          prefix : Prefix, idx : Nat, tor : SUBSET IP,
                          drift : BOOLEAN]]
=============================================================================
