--------------------- MODULE FirewallGuardWindowsProofs ---------------------
(***************************************************************************)
(* Theorems about the netsh rules, for all lists of addresses, all sizes   *)
(* of chunks and sweeps, and every budget of kills, failing commands, new  *)
(* lists and tampering.                                                    *)
(*                                                                         *)
(* Typed: type correctness, and with it that no loop runs past the rules   *)
(* its list has.  ManualStable: what blockAddress blocks stays blocked.    *)
(* RefreshIsApplied: a refresh that returns has its list in force.  The    *)
(* last two are about the two roles the program has.                       *)
(***************************************************************************)
EXTENDS FirewallGuardWindowsProps, FiniteSetTheorems, TLAPS

\* The lists of Tor addresses a process may come to hold.
Lists == {SeedTorIPs} \union Publications

Locals == [at : {"show", "delete", "add", "cleanup"}, prefix : Prefix, idx : Nat,
           tor : SUBSET IP, drift : BOOLEAN]
Histories == UNION {[D -> 0..MaxRule] : D \in SUBSET Prefix}

\* A pass is made with one of the lists, and a rule it is to write is one of its
\* list; no process that is down is inside reconcileOnce or waits for it.
PassInv ==
    \A p \in Proc :
        /\ torEntryIPs[p] \in Lists
        /\ Busy(p) => /\ pass[p].tor \in Lists
                      /\ pass[p].idx >= 1
                      /\ pass[p].at \in {"delete", "add"} => pass[p].idx \in DOMAIN PassChunks(p)
        /\ mode[p] = "off" => ~Busy(p) /\ queued[p] = {}

TypeInv == TypeOK /\ PassInv

-----------------------------------------------------------------------------
(* Operators.                                                              *)

LEMMA DivNat == ASSUME NEW a \in Nat, NEW b \in Nat \ {0} PROVE a \div b \in Nat
  BY SMT

LEMMA ListsTyped == \A S \in Lists : S \in SUBSET IP /\ RuleCount(S) <= MaxRule
  BY ListsAssumption, BoundAssumption DEF Lists

LEMMA ChunkCountNat == ASSUME NEW S \in SUBSET IP PROVE ChunkCount(S) \in Nat
<1>1. Cardinality(S) \in Nat
  BY ListsAssumption, FS_Subset, FS_CardinalityType
<1>2. Cardinality(S) + ChunkSize - 1 \in Nat /\ ChunkSize \in Nat \ {0}
  BY <1>1, SizesAssumption
<1>3. QED
  BY <1>2, DivNat DEF ChunkCount

LEMMA RuleCountNat == ASSUME NEW S \in SUBSET IP PROVE RuleCount(S) \in Nat
<1>1. S \ V6 \in SUBSET IP /\ S \intersect V6 \in SUBSET IP
  OBVIOUS
<1>2. QED
  BY <1>1, ChunkCountNat DEF RuleCount

\* The chunks of a list, and the addresses in them.
LEMMA SplitTyped ==
  ASSUME NEW S \in SUBSET IP
  PROVE  /\ DOMAIN SplitIPChunksByFamily(S) = 1..RuleCount(S)
         /\ \A i \in 1..RuleCount(S) : SplitIPChunksByFamily(S)[i] \in SUBSET IP
<1> DEFINE four == SplitChunks(S \ V6)
           six == SplitChunks(S \intersect V6)
           n == ChunkCount(S \ V6)
           m == ChunkCount(S \intersect V6)
<1>1. SplitIPChunksByFamily(S) = [i \in 1..RuleCount(S) |-> IF i <= n THEN four[i] ELSE six[i - n]]
  BY DEF SplitIPChunksByFamily
<1>2. n \in Nat /\ m \in Nat
  <2>1. S \ V6 \in SUBSET IP /\ S \intersect V6 \in SUBSET IP
    OBVIOUS
  <2>2. QED
    BY <2>1, ChunkCountNat
<1>3. ASSUME NEW i \in 1..n PROVE four[i] \in SUBSET IP
  BY <1>3 DEF SplitChunks
<1>4. ASSUME NEW i \in 1..m PROVE six[i] \in SUBSET IP
  BY <1>4 DEF SplitChunks
<1>5. ASSUME NEW i \in 1..RuleCount(S)
      PROVE  (IF i <= n THEN four[i] ELSE six[i - n]) \in SUBSET IP
  <2>1. CASE i <= n
    BY <1>2, <1>3, <2>1
  <2>2. CASE ~(i <= n)
    <3>1. i - n \in 1..m
      BY <1>2, <2>2 DEF RuleCount
    <3>2. QED
      BY <1>4, <2>2, <3>1
  <2>3. QED
    BY <2>1, <2>2
<1> HIDE DEF four, six, n
<1>6. QED
  BY <1>1, <1>5

\* The rules of a list: as many as there are chunks, and no more than MaxRule.
Count(prefix, tor) == RuleCount(IF prefix = "manual" THEN ManualIPs ELSE tor)

LEMMA ChunksTyped ==
  ASSUME NEW x \in Prefix, NEW tor \in Lists
  PROVE  /\ Count(x, tor) \in 0..MaxRule
         /\ DOMAIN Chunks(x, tor) = 1..Count(x, tor)
         /\ Cardinality(DOMAIN Chunks(x, tor)) = Count(x, tor)
         /\ \A i \in DOMAIN Chunks(x, tor) : i \in 1..MaxRule /\ Chunks(x, tor)[i] \in SUBSET IP
<1> DEFINE S == IF x = "manual" THEN ManualIPs ELSE tor
<1>1. S \in SUBSET IP /\ RuleCount(S) <= MaxRule
  BY ListsTyped, ListsAssumption, BoundAssumption
<1>2. RuleCount(S) \in Nat
  BY <1>1, RuleCountNat
<1>3. /\ DOMAIN Chunks(x, tor) = 1..RuleCount(S)
      /\ \A i \in 1..RuleCount(S) : Chunks(x, tor)[i] \in SUBSET IP
  BY <1>1, SplitTyped DEF Chunks
<1>4. Cardinality(1..RuleCount(S)) = RuleCount(S)
  BY <1>2, FS_Interval
<1> HIDE DEF S
<1>5. Count(x, tor) = RuleCount(S)
  BY DEF Count, S
<1>6. QED
  BY <1>1, <1>2, <1>3, <1>4, <1>5, SizesAssumption

LEMMA HistoryTyped ==
  ASSUME NEW h \in Histories, NEW x \in Prefix, NEW n \in 0..MaxRule
  PROVE  /\ Recorded(h, x, n) \in Histories
         /\ DOMAIN Recorded(h, x, n) = {x} \union DOMAIN h
         /\ Recorded(h, x, n)[x] = n
         /\ \A y \in DOMAIN h \ {x} : Recorded(h, x, n)[y] = h[y]
<1>1. PICK D \in SUBSET Prefix : h \in [D -> 0..MaxRule]
  BY DEF Histories
<1>2. Recorded(h, x, n) \in [D \union {x} -> 0..MaxRule]
  BY <1>1 DEF Recorded
<1>3. D \union {x} \in SUBSET Prefix
  BY <1>1
<1>4. QED
  BY <1>1, <1>2, <1>3 DEF Histories, Recorded

LEMMA NoHistoryTyped == NoHistory \in Histories /\ DOMAIN NoHistory = {}
<1>1. NoHistory \in [{} -> 0..MaxRule]
  BY DEF NoHistory
<1>2. QED
  BY <1>1 DEF Histories

LEMMA SpendTyped ==
  ASSUME spent \in [EnvEvent -> Nat], NEW e \in EnvEvent, Spend(e)
  PROVE  spent' \in [EnvEvent -> Nat]
  BY DEF Spend

LEMMA OutcomeTyped ==
  ASSUME spent \in [EnvEvent -> Nat], NEW ok \in BOOLEAN, Outcome(ok)
  PROVE  spent' \in [EnvEvent -> Nat]
  BY SpendTyped DEF Outcome, EnvEvent

-----------------------------------------------------------------------------
(* Type correctness.                                                       *)

\* The parts of TypeInv, and of what a step does to one process.
RulesTyped == rules \in [Prefix -> [1..MaxRule -> SUBSET SUBSET IP]]
ProcTyped ==
    /\ mode \in [Proc -> {"off", "baseline", "guard", "warn"}]
    /\ torEntryIPs \in [Proc -> SUBSET IP]
    /\ turn \in [Proc -> Goroutine \union {"nobody", "main"}]
    /\ queued \in [Proc -> SUBSET Goroutine]
    /\ published \in Publications
    /\ lastChunks \in [Proc -> Histories]
    /\ missing \in [Proc -> BOOLEAN]
    /\ pass \in [Proc -> Locals]

LEMMA Parts ==
  /\ TypeInv <=> /\ RulesTyped /\ ProcTyped /\ PassInv /\ spent \in [EnvEvent -> Nat]
  /\ TypeInv' <=> /\ RulesTyped' /\ ProcTyped' /\ PassInv' /\ spent' \in [EnvEvent -> Nat]
  BY DEF TypeInv, TypeOK, RuntimeTypeOK, RulesTyped, ProcTyped, Histories, Locals

LEMMA Fresh ==
  /\ SeedTorIPs \in Lists /\ SeedTorIPs \in SUBSET IP /\ Publications \subseteq Lists
  /\ \A tor \in SUBSET IP : /\ NewPass(tor) \in Locals
                            /\ NewPass(tor).at = "show" /\ NewPass(tor).idx = 1
                            /\ NewPass(tor).tor = tor
  /\ NoPass \in Locals
  BY ListsAssumption DEF Lists, NewPass, NoPass, Locals, Prefix

\* The chunks of a pass.
LEMMA PassChunksTyped ==
  ASSUME TypeInv, NEW p \in Proc, Busy(p)
  PROVE  /\ CurrentCount(p) \in 0..MaxRule
         /\ DOMAIN PassChunks(p) = 1..CurrentCount(p)
         /\ \A i \in DOMAIN PassChunks(p) : i \in 1..MaxRule /\ PassChunks(p)[i] \in SUBSET IP
<1>1. pass[p].prefix \in Prefix /\ pass[p].tor \in Lists
  BY DEF TypeInv, TypeOK, PassInv
<1>2. QED
  BY <1>1, ChunksTyped DEF PassChunks, CurrentCount

\* A process goes on with its pass.
LEMMA GoesOnTyped ==
  ASSUME TypeInv, NEW p \in Proc, Busy(p), NEW l \in Locals,
         l.tor = pass[p].tor, l.idx >= 1,
         l.at \in {"delete", "add"} => l.idx \in DOMAIN Chunks(l.prefix, l.tor),
         pass' = [pass EXCEPT ![p] = l], UNCHANGED <<mode, torEntryIPs, turn, queued, published>>,
         lastChunks' \in [Proc -> Histories], UNCHANGED missing
  PROVE  ProcTyped' /\ PassInv'
<1>1. ProcTyped /\ PassInv
  BY Parts
<1>2. ProcTyped'
  BY <1>1 DEF ProcTyped
<1>3. pass'[p] = l /\ \A q \in Proc \ {p} : pass'[q] = pass[q]
  BY <1>1 DEF ProcTyped
<1>4. PassInv'
  BY <1>1, <1>3 DEF PassInv, Busy, PassChunks
<1>5. QED
  BY <1>2, <1>4

\* A process is outside reconcileOnce, or begins it.
LEMMA OutsideTyped ==
  ASSUME TypeInv, NEW p \in Proc, ProcTyped',
         torEntryIPs'[p] \in Lists,
         turn'[p] # "nobody" =>
             /\ mode'[p] # "off"
             /\ pass'[p].tor \in Lists /\ pass'[p].idx = 1 /\ pass'[p].at = "show",
         mode'[p] = "off" => queued'[p] = {},
         \A q \in Proc \ {p} :
             /\ mode'[q] = mode[q] /\ torEntryIPs'[q] = torEntryIPs[q]
             /\ turn'[q] = turn[q] /\ queued'[q] = queued[q] /\ pass'[q] = pass[q]
  PROVE  PassInv'
  BY DEF TypeInv, PassInv, Busy, PassChunks

LEMMA SetRuleTyped ==
  ASSUME TypeInv, NEW p \in Proc, NEW contents \in SUBSET SUBSET IP, SetRule(p, contents)
  PROVE  RulesTyped'
  BY DEF SetRule, TypeInv, TypeOK, RulesTyped

LEMMA RuleIn ==
  ASSUME RulesTyped, NEW x \in Prefix, NEW k \in 1..MaxRule
  PROVE  rules[x][k] \in SUBSET SUBSET IP
  BY DEF RulesTyped

LEMMA RulesKept == ASSUME TypeInv, UNCHANGED rules PROVE RulesTyped'
  BY DEF TypeInv, TypeOK, RulesTyped
LEMMA SpentTyped == TypeInv => spent \in [EnvEvent -> Nat]
  BY Parts

\* The locals after a command.
Moved(r, n) == {[r EXCEPT !.idx = n], [r EXCEPT !.idx = n, !.drift = TRUE],
                [r EXCEPT !.at = "show", !.idx = n]}
LEMMA LocalsMoved ==
  ASSUME NEW r \in Locals, NEW n \in Nat, NEW l \in Moved(r, n)
  PROVE  /\ l \in Locals /\ l.tor = r.tor /\ l.prefix = r.prefix /\ l.idx = n
         /\ l.at \in {r.at, "show"}
<1>1. CASE l = [r EXCEPT !.idx = n]
  BY <1>1 DEF Locals
<1>2. CASE l = [r EXCEPT !.idx = n, !.drift = TRUE]
  <2>1. l \in Locals
    BY <1>2 DEF Locals
  <2>2. l.tor = r.tor /\ l.prefix = r.prefix /\ l.at = r.at
    BY <1>2 DEF Locals
  <2>3. l.idx = n
    BY <1>2 DEF Locals
  <2>4. QED
    BY <2>1, <2>2, <2>3
<1>3. CASE l = [r EXCEPT !.at = "show", !.idx = n]
  <2>1. l \in Locals
    BY <1>3 DEF Locals
  <2>2. l.tor = r.tor /\ l.prefix = r.prefix /\ l.at = "show"
    BY <1>3 DEF Locals
  <2>3. l.idx = n
    BY <1>3 DEF Locals
  <2>4. QED
    BY <2>1, <2>2, <2>3
<1>4. QED
  BY <1>1, <1>2, <1>3 DEF Moved

LEMMA LocalsToWrite ==
  ASSUME NEW r \in Locals,
         NEW l \in {[r EXCEPT !.at = "delete", !.drift = TRUE], [r EXCEPT !.at = "add"]}
  PROVE  /\ l \in Locals /\ l.tor = r.tor /\ l.prefix = r.prefix /\ l.idx = r.idx
         /\ l = [r EXCEPT !.at = "add"] => l.at = "add"
         /\ l.at \in {"delete", "add"}
  BY DEF Locals

LEMMA ShowTyped == ASSUME TypeInv, NEW p \in Proc, ShowRule(p) PROVE TypeInv'
<1> DEFINE i == pass[p].idx
<1>1. PICK ok \in BOOLEAN :
         /\ Outcome(ok)
         /\ pass' = [pass EXCEPT ![p] =
               IF ok /\ RuleMatches(pass[p].prefix, i, PassChunks(p)[i])
                 THEN [@ EXCEPT !.idx = i + 1]
               ELSE IF Warns(p) THEN [@ EXCEPT !.idx = i + 1, !.drift = TRUE]
               ELSE [@ EXCEPT !.at = "delete", !.drift = TRUE]]
  BY DEF ShowRule
<1>2. Busy(p) /\ pass[p].at = "show" /\ i \in DOMAIN PassChunks(p)
      /\ UNCHANGED <<mode, torEntryIPs, turn, queued, published, rules, lastChunks, missing>>
  BY DEF ShowRule, At
<1>3. ProcTyped /\ PassInv
  BY Parts
<1>4. pass[p] \in Locals /\ i \in Nat /\ i >= 1
  BY <1>2, <1>3 DEF ProcTyped, PassInv, Locals
<1>5. PICK l \in {[pass[p] EXCEPT !.idx = i + 1],
                  [pass[p] EXCEPT !.idx = i + 1, !.drift = TRUE],
                  [pass[p] EXCEPT !.at = "delete", !.drift = TRUE]} :
        pass' = [pass EXCEPT ![p] = l]
  BY <1>1, <1>3 DEF ProcTyped
<1>6. /\ l \in Locals /\ l.tor = pass[p].tor /\ l.prefix = pass[p].prefix /\ l.idx >= 1
      /\ l.at \in {"delete", "add"} => l.idx = i
  <2>1. CASE l = [pass[p] EXCEPT !.at = "delete", !.drift = TRUE]
    BY <1>4, <2>1, LocalsToWrite
  <2>2. CASE l # [pass[p] EXCEPT !.at = "delete", !.drift = TRUE]
    <3>1. i + 1 \in Nat /\ i + 1 >= 1
      BY <1>4
    <3>2. /\ l \in Locals /\ l.tor = pass[p].tor /\ l.prefix = pass[p].prefix
          /\ l.idx = i + 1 /\ l.at \in {pass[p].at, "show"}
      <4>1. PICK n \in Nat : n = i + 1
        BY <3>1
      <4>2. l \in Moved(pass[p], n)
        BY <1>4, <1>5, <2>2, <4>1 DEF Moved
      <4>3. pass[p] \in Locals
        BY <1>4
      <4>4. /\ l \in Locals /\ l.tor = pass[p].tor /\ l.prefix = pass[p].prefix /\ l.idx = n
            /\ l.at \in {pass[p].at, "show"}
        BY <4>2, <4>3, LocalsMoved
      <4>5. QED
        BY <4>1, <4>4
    <3>3. QED
      BY <1>2, <3>1, <3>2
  <2>3. QED
    BY <2>1, <2>2
<1>7. ProcTyped' /\ PassInv'
  BY <1>2, <1>3, <1>5, <1>6, GoesOnTyped DEF ProcTyped, PassChunks
<1>8. spent' \in [EnvEvent -> Nat] /\ RulesTyped'
  BY <1>1, <1>2, OutcomeTyped, SpentTyped, RulesKept
<1>9. QED
  BY <1>7, <1>8, Parts

\* The commands that write and delete.
LEMMA WriteTyped ==
  ASSUME TypeInv, NEW p \in Proc, DeleteRule(p) \/ AddRule(p) \/ DeleteStaleRule(p)
  PROVE  TypeInv'
<1> DEFINE i == pass[p].idx
<1>1. ProcTyped /\ PassInv
  BY Parts
<1>2. Busy(p) /\ pass[p] \in Locals /\ i \in Nat /\ i >= 1
  <2>1. Busy(p)
    BY DEF DeleteRule, AddRule, DeleteStaleRule, At
  <2>2. QED
    BY <1>1, <2>1 DEF ProcTyped, PassInv, Locals
<1>3. UNCHANGED <<mode, torEntryIPs, turn, queued, published, lastChunks, missing>>
  BY DEF DeleteRule, AddRule, DeleteStaleRule
<1>4. PICK l \in {[pass[p] EXCEPT !.at = "add"], [pass[p] EXCEPT !.idx = i + 1],
                  [pass[p] EXCEPT !.at = "show", !.idx = i + 1]} :
        /\ pass' = [pass EXCEPT ![p] = l]
        /\ l = [pass[p] EXCEPT !.at = "add"] => pass[p].at = "delete"
        /\ l = [pass[p] EXCEPT !.idx = i + 1] => pass[p].at = "cleanup"
  BY <1>1 DEF DeleteRule, AddRule, DeleteStaleRule, At, ProcTyped, Locals
<1>5. /\ l \in Locals /\ l.tor = pass[p].tor /\ l.prefix = pass[p].prefix /\ l.idx >= 1
      /\ l.at \in {"delete", "add"} => l.idx = i /\ pass[p].at = "delete"
  <2>1. CASE l = [pass[p] EXCEPT !.at = "add"]
    BY <1>2, <1>4, <2>1, LocalsToWrite
  <2>2. CASE l # [pass[p] EXCEPT !.at = "add"]
    <3>1. i + 1 \in Nat /\ i + 1 >= 1
      BY <1>2
    <3>2. /\ l \in Locals /\ l.tor = pass[p].tor /\ l.prefix = pass[p].prefix
          /\ l.idx = i + 1 /\ l.at \in {pass[p].at, "show"}
      <4>1. PICK n \in Nat : n = i + 1
        BY <3>1
      <4>2. l \in Moved(pass[p], n)
        BY <1>4, <2>2, <4>1 DEF Moved
      <4>3. pass[p] \in Locals
        BY <1>2
      <4>4. /\ l \in Locals /\ l.tor = pass[p].tor /\ l.prefix = pass[p].prefix /\ l.idx = n
            /\ l.at \in {pass[p].at, "show"}
        BY <4>2, <4>3, LocalsMoved
      <4>5. QED
        BY <4>1, <4>4
    <3>3. l.at \notin {"delete", "add"}
      <4>1. CASE l = [pass[p] EXCEPT !.idx = i + 1]
        BY <1>4, <3>2, <4>1
      <4>2. CASE l = [pass[p] EXCEPT !.at = "show", !.idx = i + 1]
        BY <1>2, <4>2 DEF Locals
      <4>3. QED
        BY <1>4, <2>2, <4>1, <4>2
    <3>4. QED
      BY <3>1, <3>2, <3>3
  <2>3. QED
    BY <2>1, <2>2
<1>6. l.at \in {"delete", "add"} => i \in DOMAIN PassChunks(p)
  BY <1>1, <1>2, <1>5 DEF PassInv
<1>7. ProcTyped' /\ PassInv'
  BY <1>1, <1>2, <1>3, <1>4, <1>5, <1>6, GoesOnTyped DEF ProcTyped, PassChunks
<1>8. RulesTyped' /\ spent' \in [EnvEvent -> Nat]
  <2>1. CASE DeleteRule(p) \/ DeleteStaleRule(p)
    BY <2>1, OutcomeTyped, SpentTyped, SetRuleTyped, RulesKept DEF DeleteRule, DeleteStaleRule
  <2>2. CASE AddRule(p)
    <3>1. PICK ok \in BOOLEAN :
             /\ Outcome(ok)
             /\ IF ok THEN SetRule(p, rules[pass[p].prefix][i] \union {PassChunks(p)[i]})
                      ELSE UNCHANGED rules
      BY <2>2 DEF AddRule
    <3>2. i \in DOMAIN PassChunks(p)
      BY <1>1, <1>2, <2>2 DEF AddRule, At, PassInv
    <3>3. i \in 1..MaxRule /\ PassChunks(p)[i] \in SUBSET IP
      BY <1>2, <3>2, PassChunksTyped
    <3>4. rules[pass[p].prefix][i] \union {PassChunks(p)[i]} \in SUBSET SUBSET IP
      <4>1. pass[p].prefix \in Prefix
        BY <1>2 DEF Locals
      <4>2. rules[pass[p].prefix][i] \in SUBSET SUBSET IP
        BY <3>3, <4>1, Parts, RuleIn
      <4>3. QED
        BY <3>3, <4>2
    <3>5. QED
      BY <3>1, <3>4, OutcomeTyped, SpentTyped, SetRuleTyped, RulesKept
  <2>3. QED
    BY <2>1, <2>2
<1>9. QED
  BY <1>7, <1>8, Parts

\* The end of a list, and of a pass.
LEMMA FinishTyped ==
  ASSUME TypeInv, NEW p \in Proc, Busy(p), NEW chunks \in Histories, FinishList(p, chunks)
  PROVE  ProcTyped' /\ PassInv' /\ UNCHANGED spent
<1>1. ProcTyped /\ PassInv
  BY Parts
<1>2. CASE pass[p].prefix = "tor"
  <2>1. FinishPass(p, chunks)
    BY <1>2 DEF FinishList
  <2>2. /\ mode' \in [Proc -> {"off", "baseline", "guard", "warn"}]
        /\ \A q \in Proc \ {p} : mode'[q] = mode[q]
        /\ mode'[p] # "off"
    <3>1. mode[p] # "off"
      BY <1>1 DEF PassInv
    <3>2. CASE Guarding(p)
      BY <1>1, <2>1, <3>1, <3>2 DEF FinishPass, Leave, ProcTyped
    <3>3. CASE ~Guarding(p)
      <4>1. PICK build \in {"guard", "warn"} : mode' = [mode EXCEPT ![p] = build]
        BY <2>1, <3>3, BuildAssumption DEF FinishPass, Leave, Installed
      <4>2. QED
        BY <1>1, <4>1 DEF ProcTyped
    <3>4. QED
      BY <3>2, <3>3
  <2>3. /\ torEntryIPs' = torEntryIPs /\ published' = published /\ spent' = spent
        /\ turn' = [turn EXCEPT ![p] = "nobody"]
        /\ queued' = [queued EXCEPT ![p] = IF Guarding(p) THEN @ ELSE {"run"}]
        /\ pass' = [pass EXCEPT ![p] = NoPass]
        /\ missing' = [missing EXCEPT ![p] = Warns(p) /\ pass[p].drift]
        /\ lastChunks' = [lastChunks EXCEPT ![p] = IF Guarding(p) THEN chunks ELSE NoHistory]
    BY <1>1, <2>1 DEF FinishPass, Leave, ProcTyped
  <2>4. missing' \in [Proc -> BOOLEAN]
    BY <1>1, <2>3 DEF ProcTyped, Locals, Warns
  <2>5. ProcTyped'
    BY <1>1, <2>2, <2>3, <2>4, Fresh, NoHistoryTyped DEF ProcTyped, Goroutine
  <2>6. PassInv'
    <3>1. turn'[p] = "nobody" /\ torEntryIPs'[p] \in Lists
      BY <1>1, <2>3 DEF ProcTyped, PassInv
    <3>2. \A q \in Proc \ {p} :
             /\ mode'[q] = mode[q] /\ torEntryIPs'[q] = torEntryIPs[q]
             /\ turn'[q] = turn[q] /\ queued'[q] = queued[q] /\ pass'[q] = pass[q]
      BY <1>1, <2>2, <2>3 DEF ProcTyped
    <3>3. QED
      BY <2>2, <2>5, <3>1, <3>2, OutsideTyped
  <2>7. QED
    BY <2>3, <2>5, <2>6
<1>3. CASE pass[p].prefix # "tor"
  <2> DEFINE l == [pass[p] EXCEPT !.prefix = "tor", !.idx = 1, !.at = "show"]
  <2>1. /\ pass' = [pass EXCEPT ![p] = l]
        /\ lastChunks' = [lastChunks EXCEPT ![p] = chunks]
        /\ UNCHANGED <<mode, torEntryIPs, turn, queued, published, spent, missing>>
    BY <1>1, <1>3 DEF FinishList, runtime, ProcTyped
  <2>2. l \in Locals /\ l.tor = pass[p].tor /\ l.idx = 1 /\ l.at = "show"
    BY <1>1 DEF ProcTyped, Locals, Prefix
  <2>3. lastChunks' \in [Proc -> Histories]
    BY <1>1, <2>1 DEF ProcTyped
  <2>4. l.idx >= 1 /\ ~(l.at \in {"delete", "add"})
    BY <2>2
  <2> HIDE DEF l
  <2>5. ProcTyped' /\ PassInv'
    BY <2>1, <2>2, <2>3, <2>4, GoesOnTyped
  <2>6. QED
    BY <2>1, <2>5
<1>4. QED
  BY <1>2, <1>3

LEMMA ListDoneTyped ==
  ASSUME TypeInv, NEW p \in Proc, ChunksChecked(p) \/ CleanupDone(p)
  PROVE  TypeInv'
<1>1. ProcTyped /\ PassInv /\ Busy(p) /\ UNCHANGED rules
  BY Parts DEF ChunksChecked, CleanupDone, At
<1>2. lastChunks[p] \in Histories /\ pass[p] \in Locals /\ pass[p].prefix \in Prefix
  BY <1>1 DEF ProcTyped, Locals
<1>3. CASE CleanupDone(p)
  <2>1. Recorded(lastChunks[p], pass[p].prefix, CurrentCount(p)) \in Histories
    BY <1>1, <1>2, PassChunksTyped, HistoryTyped
  <2>2. QED
    BY <1>1, <1>3, <2>1, FinishTyped, RulesKept, SpentTyped, Parts DEF CleanupDone
<1>4. CASE ChunksChecked(p) /\ Warns(p)
  BY <1>1, <1>2, <1>4, FinishTyped, RulesKept, SpentTyped, Parts DEF ChunksChecked
<1>5. CASE ChunksChecked(p) /\ ~Warns(p)
  <2> DEFINE l == [pass[p] EXCEPT !.at = "cleanup"]
  <2>1. /\ pass' = [pass EXCEPT ![p] = l]
        /\ UNCHANGED <<mode, torEntryIPs, turn, queued, published, spent, lastChunks, missing>>
    BY <1>1, <1>5 DEF ChunksChecked, runtime, ProcTyped
  <2>2. l \in Locals /\ l.tor = pass[p].tor /\ l.idx >= 1 /\ l.at = "cleanup"
    BY <1>1, <1>2 DEF Locals, PassInv
  <2>3. lastChunks' \in [Proc -> Histories]
    BY <1>1, <2>1 DEF ProcTyped
  <2> HIDE DEF l
  <2>4. ProcTyped' /\ PassInv'
    BY <1>1, <2>1, <2>2, <2>3, GoesOnTyped
  <2>5. QED
    BY <1>1, <2>1, <2>4, RulesKept, SpentTyped, Parts
<1>6. QED
  BY <1>3, <1>4, <1>5

\* A process starts, is killed, or a goroutine of it asks for the mutex or gets it.
LEMMA RunTyped ==
  ASSUME TypeInv, NEW p \in Proc,
         \/ Start(p) \/ Tick(p) \/ Refresh(p) \/ Crash(p)
         \/ \E g \in Goroutine : EnterReconcile(p, g)
  PROVE  TypeInv'
<1>1. ProcTyped /\ PassInv /\ spent \in [EnvEvent -> Nat]
  BY Parts
<1>2. RulesTyped'
  BY RulesKept DEF Start, Tick, Refresh, Crash, EnterReconcile
<1>3. spent' \in [EnvEvent -> Nat]
  BY <1>1, SpendTyped DEF Start, Launch, Tick, RequestCheck, Refresh, RequestRefresh,
     Crash, Kill, EnterReconcile, Enter, EnvEvent
<1>4. \A q \in Proc \ {p} :
         /\ mode'[q] = mode[q] /\ torEntryIPs'[q] = torEntryIPs[q]
         /\ turn'[q] = turn[q] /\ queued'[q] = queued[q] /\ pass'[q] = pass[q]
  BY <1>1 DEF ProcTyped, Start, Launch, Tick, RequestCheck, Refresh, RequestRefresh,
     Crash, Kill, EnterReconcile, Enter, Wants
<1>5. CASE Start(p)
  <2>1. ProcTyped'
    BY <1>1, <1>5, Fresh DEF Start, Launch, ProcTyped
  <2>2. QED
    BY <1>1, <1>2, <1>3, <1>4, <1>5, <2>1, Fresh, OutsideTyped, Parts
       DEF Start, Launch, ProcTyped, PassInv
<1>6. CASE Crash(p)
  <2>1. ProcTyped'
    BY <1>1, <1>6, Fresh, NoHistoryTyped DEF Crash, Kill, ProcTyped
  <2>2. QED
    BY <1>1, <1>2, <1>3, <1>4, <1>6, <2>1, Fresh, OutsideTyped, Parts
       DEF Crash, Kill, ProcTyped
<1>7. CASE Tick(p) \/ Refresh(p)
  <2>1. published \in Lists /\ published \in SUBSET IP
    BY <1>1, Fresh, ListsTyped DEF ProcTyped
  <2>2. /\ UNCHANGED <<mode, turn, pass, published, lastChunks, missing>>
        /\ torEntryIPs' \in {torEntryIPs, [torEntryIPs EXCEPT ![p] = published]}
        /\ \E g \in Goroutine : queued' = [queued EXCEPT ![p] = @ \union {g}]
        /\ mode[p] # "off"
    BY <1>7 DEF Tick, RequestCheck, Refresh, RequestRefresh, Idle, Guarding, Wants, Goroutine
  <2>3. ProcTyped'
    BY <1>1, <2>1, <2>2 DEF ProcTyped
  <2>4. PassInv'
    <3>1. torEntryIPs'[p] \in Lists
      BY <1>1, <2>1, <2>2 DEF ProcTyped, PassInv
    <3>2. QED
      BY <1>1, <1>4, <2>2, <3>1 DEF PassInv, Busy, PassChunks
  <2>5. QED
    BY <1>2, <1>3, <2>3, <2>4, Parts
<1>8. ASSUME NEW g \in Goroutine, EnterReconcile(p, g) PROVE TypeInv'
  <2>1. /\ turn' = [turn EXCEPT ![p] = g] /\ queued' = [queued EXCEPT ![p] = @ \ {g}]
        /\ UNCHANGED <<mode, torEntryIPs, published, lastChunks, missing>>
        /\ pass' = [pass EXCEPT ![p] = NewPass(torEntryIPs[p])]
        /\ g \in queued[p]
    BY <1>8 DEF EnterReconcile, Enter
  <2>2. torEntryIPs[p] \in Lists /\ torEntryIPs[p] \in SUBSET IP /\ mode[p] # "off"
    BY <1>1, <2>1 DEF ProcTyped, PassInv
  <2>3. ProcTyped'
    BY <1>1, <2>1, <2>2, Fresh DEF ProcTyped
  <2>4. /\ mode'[p] # "off" /\ torEntryIPs'[p] \in Lists
        /\ pass'[p].tor \in Lists /\ pass'[p].idx = 1 /\ pass'[p].at = "show"
    BY <1>1, <2>1, <2>2, Fresh DEF ProcTyped
  <2>5. PassInv'
    BY <1>4, <2>3, <2>4, OutsideTyped
  <2>6. QED
    BY <1>2, <1>3, <2>3, <2>5, Parts
<1>9. QED
  BY <1>5, <1>6, <1>7, <1>8

\* What happens outside the program.
LEMMA EnvironmentTyped ==
  ASSUME TypeInv,
         \/ \E S \in Publications : Publish(S)
         \/ \E x \in Prefix, i \in 1..MaxRule, a \in IP :
               Tamper(x, i, {}) \/ Tamper(x, i, {{a}})
  PROVE  TypeInv'
<1>1. ProcTyped /\ PassInv /\ spent \in [EnvEvent -> Nat]
  BY Parts
<1>2. spent' \in [EnvEvent -> Nat]
  BY <1>1, SpendTyped DEF Publish, PublishList, Tamper, EnvEvent
<1>3. ProcTyped' /\ PassInv'
  BY <1>1 DEF Publish, PublishList, Tamper, ProcTyped, PassInv, Busy, PassChunks
<1>4. RulesTyped'
  <2>1. CASE UNCHANGED rules
    BY <2>1, RulesKept
  <2>2. ASSUME NEW x \in Prefix, NEW i \in 1..MaxRule, NEW a \in IP,
               NEW contents \in {{}, {{a}}}, Tamper(x, i, contents)
        PROVE  RulesTyped'
    <3>1. contents \in SUBSET SUBSET IP
      OBVIOUS
    <3>2. rules' = [rules EXCEPT ![x][i] = contents]
      BY <2>2 DEF Tamper
    <3>3. QED
      BY <3>1, <3>2, Parts DEF RulesTyped
  <2>3. QED
    BY <2>1, <2>2 DEF Publish
<1>5. QED
  BY <1>2, <1>3, <1>4, Parts

LEMMA StepTyped == ASSUME TypeInv, [Next]_vars PROVE TypeInv'
<1>1. CASE UNCHANGED vars
  BY <1>1 DEF vars, runtime, TypeInv, TypeOK, RuntimeTypeOK, PassInv, Busy, PassChunks
<1>2. ASSUME NEW p \in Proc, Step(p) PROVE TypeInv'
  BY <1>2, RunTyped, ShowTyped, WriteTyped, ListDoneTyped DEF Step, ReconcileStep
<1>3. CASE Environment
  BY <1>3, RunTyped, EnvironmentTyped DEF Environment
<1>4. QED
  BY <1>1, <1>2, <1>3 DEF Next

LEMMA InitTyped == Init => TypeInv
<1> SUFFICES ASSUME Init PROVE TypeInv
  OBVIOUS
<1>1. RulesTyped
  BY DEF Init, RulesTyped
<1>2. ProcTyped
  BY Fresh, NoHistoryTyped DEF Init, RuntimeInit, ProcTyped
<1>3. PassInv
  BY Fresh DEF Init, RuntimeInit, PassInv, Busy
<1>4. spent \in [EnvEvent -> Nat]
  BY DEF Init, RuntimeInit
<1>5. QED
  BY <1>1, <1>2, <1>3, <1>4, Parts

\* The type invariant, for all lists that MaxRule rules hold.
THEOREM Typed == Spec => []TypeOK
<1>1. TypeInv /\ [Next]_vars => TypeInv'
  BY StepTyped
<1>2. TypeInv => TypeOK
  BY DEF TypeInv
<1>3. QED
  BY <1>1, <1>2, InitTyped, PTL DEF Spec

-----------------------------------------------------------------------------
(* What the commands do while none of them fails and nobody tampers.       *)

\* Events are never forgotten.
LEMMA CalmBefore ==
  ASSUME TypeInv, [Next]_vars
  PROVE  /\ Undisturbed' => Undisturbed
         /\ spent'["spawn"] = 0 => spent["spawn"] = 0
<1>1. spent \in [EnvEvent -> Nat]
  BY SpentTyped
<1>2. CASE UNCHANGED spent
  BY <1>2 DEF Undisturbed
<1>3. ASSUME NEW e \in EnvEvent, Spend(e)
      PROVE  /\ Undisturbed' => Undisturbed
             /\ spent'["spawn"] = 0 => spent["spawn"] = 0
  BY <1>1, <1>3 DEF Undisturbed, Spend, EnvEvent
<1>4. UNCHANGED spent \/ \E e \in EnvEvent : Spend(e)
  <2>1. CASE Environment
    BY <2>1 DEF Environment, Crash, Kill, Publish, PublishList, Tamper, EnvEvent
  <2>2. ASSUME NEW p \in Proc, Step(p) PROVE UNCHANGED spent \/ \E e \in EnvEvent : Spend(e)
    <3>1. CASE ReconcileStep(p)
      BY <3>1 DEF ReconcileStep, ShowRule, DeleteRule, AddRule, ChunksChecked,
         DeleteStaleRule, CleanupDone, FinishList, FinishPass, Outcome, EnvEvent, runtime
    <3>2. CASE ~ReconcileStep(p)
      BY <2>2, <3>2 DEF Step, Start, Launch, Tick, RequestCheck, Refresh, RequestRefresh,
         EnterReconcile, Enter, EnvEvent
    <3>3. QED
      BY <3>1, <3>2
  <2>3. QED
    BY <2>1, <2>2 DEF Next, vars, runtime
<1>5. QED
  BY <1>2, <1>3, <1>4

LEMMA CalmCommand ==
  ASSUME TypeInv, NEW ok \in BOOLEAN, Outcome(ok), Undisturbed'
  PROVE  ok
  BY SpentTyped DEF Outcome, Spend, Undisturbed, EnvEvent

LEMMA CalmRules ==
  ASSUME TypeInv, NEW x \in Prefix, NEW i, NEW contents, Tamper(x, i, contents)
  PROVE  ~Undisturbed'
  BY SpentTyped DEF Tamper, Spend, Undisturbed, EnvEvent

\* The contents of a name are the chunk; of all names, the list.
Fits(contents, chunk) == contents # {} /\ UNION contents = chunk
AllFit(contents, chunks) ==
    \A i \in 1..MaxRule :
        IF i \in DOMAIN chunks THEN Fits(contents[i], chunks[i]) ELSE contents[i] = {}

LEMMA InForceFits ==
  ASSUME NEW x \in Prefix, NEW tor
  PROVE  /\ InForce(x, tor) <=> AllFit(rules[x], Chunks(x, tor))
         /\ InForce(x, tor)' <=> AllFit(rules'[x], Chunks(x, tor))
  BY DEF InForce, AllFit, Fits, RuleRemoteIPs

\* What a command of p leaves alone.
OthersKept(p) ==
    \A q \in Proc \ {p} :
        /\ pass'[q] = pass[q] /\ turn'[q] = turn[q] /\ mode'[q] = mode[q]
        /\ lastChunks'[q] = lastChunks[q] /\ torEntryIPs'[q] = torEntryIPs[q]
RuleSet(p, contents) ==
    /\ \A x \in Prefix, i \in 1..MaxRule :
          rules'[x][i] = IF x = pass[p].prefix /\ i = pass[p].idx THEN contents
                         ELSE rules[x][i]
SamePass(p) ==
    /\ OthersKept(p)
    /\ UNCHANGED <<mode, turn, lastChunks, torEntryIPs>>
    /\ pass'[p].prefix = pass[p].prefix /\ pass'[p].tor = pass[p].tor

LEMMA ShowEffect ==
  ASSUME TypeInv, Undisturbed', NEW p \in Proc, ShowRule(p)
  PROVE  /\ Busy(p) /\ pass[p].at = "show"
         /\ pass[p].idx \in 1..CurrentCount(p) /\ pass[p].idx \in 1..MaxRule
         /\ UNCHANGED rules /\ SamePass(p)
         /\ \/ /\ Fits(rules[pass[p].prefix][pass[p].idx], PassChunks(p)[pass[p].idx])
               /\ pass'[p].idx = pass[p].idx + 1 /\ pass'[p].at = "show"
            \/ /\ Warns(p)
               /\ pass'[p].idx = pass[p].idx + 1 /\ pass'[p].at = "show"
            \/ /\ ~Warns(p)
               /\ ~Fits(rules[pass[p].prefix][pass[p].idx], PassChunks(p)[pass[p].idx])
               /\ pass'[p].idx = pass[p].idx /\ pass'[p].at = "delete"
<1> DEFINE i == pass[p].idx
           fits == Fits(rules[pass[p].prefix][i], PassChunks(p)[i])
<1>1. /\ Busy(p) /\ pass[p].at = "show" /\ i \in DOMAIN PassChunks(p)
      /\ UNCHANGED <<rules, mode, turn, lastChunks, torEntryIPs>>
  BY DEF ShowRule, At
<1>2. i \in 1..CurrentCount(p) /\ i \in 1..MaxRule
  BY <1>1, PassChunksTyped
<1>3. PICK ok \in BOOLEAN :
         /\ Outcome(ok)
         /\ pass' = [pass EXCEPT ![p] =
               IF ok /\ fits THEN [@ EXCEPT !.idx = i + 1]
               ELSE IF Warns(p) THEN [@ EXCEPT !.idx = i + 1, !.drift = TRUE]
               ELSE [@ EXCEPT !.at = "delete", !.drift = TRUE]]
  BY DEF ShowRule, RuleMatches, RuleRemoteIPs, Fits
<1>4. ok
  BY <1>3, CalmCommand
<1>5. pass \in [Proc -> Locals] /\ pass[p] \in Locals
  BY Parts DEF ProcTyped
<1> HIDE DEF fits
<1>6. OthersKept(p)
  BY <1>1, <1>3, <1>5 DEF OthersKept
<1>7. CASE fits
  <2>1. pass'[p] = [pass[p] EXCEPT !.idx = i + 1]
    BY <1>3, <1>4, <1>5, <1>7
  <2>2. QED
    BY <1>1, <1>2, <1>5, <1>6, <1>7, <2>1 DEF Locals, SamePass, fits
<1>8. CASE ~fits /\ Warns(p)
  <2>1. pass'[p] = [pass[p] EXCEPT !.idx = i + 1, !.drift = TRUE]
    BY <1>3, <1>4, <1>5, <1>8
  <2>2. pass'[p].idx = i + 1
    BY <1>5, <2>1 DEF Locals
  <2>3. pass'[p].at = pass[p].at /\ pass'[p].prefix = pass[p].prefix /\ pass'[p].tor = pass[p].tor
    BY <1>5, <2>1 DEF Locals
  <2>4. QED
    BY <1>1, <1>2, <1>6, <1>8, <2>2, <2>3 DEF SamePass
<1>9. CASE ~fits /\ ~Warns(p)
  <2>1. pass'[p] = [pass[p] EXCEPT !.at = "delete", !.drift = TRUE]
    BY <1>3, <1>4, <1>5, <1>9
  <2>2. pass'[p].at = "delete"
    BY <1>5, <2>1 DEF Locals
  <2>3. pass'[p].idx = i /\ pass'[p].prefix = pass[p].prefix /\ pass'[p].tor = pass[p].tor
    BY <1>5, <2>1 DEF Locals
  <2>4. QED
    BY <1>1, <1>2, <1>6, <1>9, <2>2, <2>3 DEF SamePass, fits
<1>10. QED
  BY <1>7, <1>8, <1>9

LEMMA WriteEffect ==
  ASSUME TypeInv, Undisturbed', NEW p \in Proc, DeleteRule(p) \/ AddRule(p)
  PROVE  /\ Busy(p) /\ pass[p].at \in {"delete", "add"}
         /\ pass[p].idx \in 1..CurrentCount(p) /\ pass[p].idx \in 1..MaxRule
         /\ SamePass(p)
         /\ \/ /\ DeleteRule(p) /\ RuleSet(p, {})
               /\ pass'[p].at = "add" /\ pass'[p].idx = pass[p].idx
            \/ /\ AddRule(p) /\ pass[p].at = "add"
               /\ RuleSet(p, rules[pass[p].prefix][pass[p].idx] \union {PassChunks(p)[pass[p].idx]})
               /\ pass'[p].at = "show" /\ pass'[p].idx = pass[p].idx + 1
<1> DEFINE i == pass[p].idx
<1>1. /\ Busy(p) /\ pass[p].at \in {"delete", "add"}
      /\ UNCHANGED <<mode, turn, lastChunks, torEntryIPs>>
  BY DEF DeleteRule, AddRule, At
<1>2. i \in DOMAIN PassChunks(p)
  BY <1>1 DEF TypeInv, PassInv
<1>3. i \in 1..CurrentCount(p) /\ i \in 1..MaxRule
  BY <1>1, <1>2, PassChunksTyped
<1>4. pass \in [Proc -> Locals] /\ pass[p] \in Locals /\ pass[p].prefix \in Prefix /\ RulesTyped
  BY Parts DEF ProcTyped, Locals
<1>5. CASE DeleteRule(p)
  <2>1. PICK ok \in BOOLEAN :
          Outcome(ok) /\ IF ok THEN SetRule(p, {}) ELSE UNCHANGED rules
    BY <1>5 DEF DeleteRule
  <2>2. SetRule(p, {})
    BY <2>1, CalmCommand
  <2>3. RuleSet(p, {})
    BY <1>3, <1>4, <2>2 DEF SetRule, RuleSet, RulesTyped
  <2>4. pass' = [pass EXCEPT ![p] = [@ EXCEPT !.at = "add"]]
    BY <1>5 DEF DeleteRule
  <2>5. pass'[p].at = "add" /\ pass'[p].idx = i /\ pass'[p].prefix = pass[p].prefix
        /\ pass'[p].tor = pass[p].tor
    BY <1>4, <2>4 DEF Locals
  <2>6. OthersKept(p)
    BY <1>1, <1>4, <2>4 DEF OthersKept
  <2>7. QED
    BY <1>1, <1>3, <1>5, <2>3, <2>5, <2>6 DEF SamePass
<1>6. CASE AddRule(p)
  <2> DEFINE contents == rules[pass[p].prefix][i] \union {PassChunks(p)[i]}
  <2>1. PICK ok \in BOOLEAN :
          Outcome(ok) /\ IF ok THEN SetRule(p, contents) ELSE UNCHANGED rules
    BY <1>6 DEF AddRule
  <2> HIDE DEF contents
  <2>2. SetRule(p, contents)
    BY <2>1, CalmCommand
  <2>3. RuleSet(p, contents)
    BY <1>3, <1>4, <2>2 DEF SetRule, RuleSet, RulesTyped
  <2>4. pass' = [pass EXCEPT ![p].at = "show", ![p].idx = i + 1]
    BY <1>6 DEF AddRule
  <2>5. pass'[p].at = "show" /\ pass'[p].idx = i + 1 /\ pass'[p].prefix = pass[p].prefix
        /\ pass'[p].tor = pass[p].tor
    BY <1>4, <2>4 DEF Locals
  <2>6. OthersKept(p) /\ pass[p].at = "add"
    BY <1>1, <1>4, <1>6, <2>4 DEF OthersKept, AddRule, At
  <2>7. QED
    BY <1>1, <1>3, <1>6, <2>3, <2>5, <2>6 DEF SamePass, contents
<1>7. QED
  BY <1>5, <1>6

LEMMA StaleEffect ==
  ASSUME TypeInv, Undisturbed', NEW p \in Proc, DeleteStaleRule(p)
  PROVE  /\ Busy(p) /\ pass[p].at = "cleanup" /\ pass'[p].at = "cleanup"
         /\ pass[p].idx \in StaleChunkIndexes(p) /\ pass[p].idx \in 1..MaxRule
         /\ pass[p].idx > CurrentCount(p)
         /\ RuleSet(p, {}) /\ SamePass(p) /\ pass'[p].idx = pass[p].idx + 1
<1> DEFINE i == pass[p].idx
<1>1. /\ Busy(p) /\ pass[p].at = "cleanup" /\ i \in StaleChunkIndexes(p)
      /\ UNCHANGED <<mode, turn, lastChunks, torEntryIPs>>
  BY DEF DeleteStaleRule, At
<1>2. pass \in [Proc -> Locals] /\ pass[p] \in Locals /\ pass[p].prefix \in Prefix /\ RulesTyped
  BY Parts DEF ProcTyped, Locals
<1>3. i \in 1..MaxRule /\ i > CurrentCount(p)
  <2>1. CurrentCount(p) \in Nat
    BY <1>1, PassChunksTyped
  <2>2. i \in (CurrentCount(p) + 1)..PreviousCount(p) /\ i <= MaxRule
    BY <1>1 DEF StaleChunkIndexes
  <2>3. i \in Nat
    BY <1>2 DEF Locals
  <2>4. i >= CurrentCount(p) + 1
    BY <2>2
  <2>5. QED
    BY <2>1, <2>2, <2>3, <2>4, SizesAssumption
<1>4. PICK ok \in BOOLEAN :
        Outcome(ok) /\ IF ok THEN SetRule(p, {}) ELSE UNCHANGED rules
  BY DEF DeleteStaleRule
<1>5. SetRule(p, {})
  BY <1>4, CalmCommand
<1>6. RuleSet(p, {})
  BY <1>2, <1>3, <1>5 DEF SetRule, RuleSet, RulesTyped
<1>7. pass' = [pass EXCEPT ![p] = [pass[p] EXCEPT !.idx = i + 1]]
  BY <1>2 DEF DeleteStaleRule
<1>8. pass'[p].at = "cleanup" /\ pass'[p].idx = i + 1 /\ pass'[p].prefix = pass[p].prefix
      /\ pass'[p].tor = pass[p].tor
  BY <1>1, <1>2, <1>7 DEF Locals
<1>9. OthersKept(p)
  BY <1>1, <1>2, <1>7 DEF OthersKept
<1>10. QED
  BY <1>1, <1>3, <1>6, <1>8, <1>9 DEF SamePass

\* The end of a list: on to the clean-up, to the next list, or home.
ToCleanup(p) ==
    /\ ~Warns(p) /\ pass[p].at = "show" /\ pass[p].idx > CurrentCount(p)
    /\ SamePass(p) /\ pass'[p].at = "cleanup" /\ pass'[p].idx = pass[p].idx
ListDone(p, chunks) ==
    \/ Warns(p) /\ chunks = lastChunks[p]
    \/ /\ pass[p].at = "cleanup" /\ pass[p].idx \notin StaleChunkIndexes(p)
       /\ chunks = Recorded(lastChunks[p], pass[p].prefix, CurrentCount(p))
ToNextList(p, chunks) ==
    /\ pass[p].prefix = "manual" /\ ListDone(p, chunks)
    /\ OthersKept(p) /\ UNCHANGED <<mode, turn, torEntryIPs>>
    /\ lastChunks'[p] = chunks
    /\ pass'[p].prefix = "tor" /\ pass'[p].idx = 1 /\ pass'[p].at = "show"
    /\ pass'[p].tor = pass[p].tor
Home(p, chunks) ==
    /\ pass[p].prefix = "tor" /\ ListDone(p, chunks)
    /\ OthersKept(p) /\ UNCHANGED torEntryIPs
    /\ mode'[p] # "off" /\ (Guarding(p) => mode'[p] = mode[p])
    /\ lastChunks'[p] = (IF Guarding(p) THEN chunks ELSE NoHistory)
    /\ queued'[p] = (IF Guarding(p) THEN queued[p] ELSE {"run"})
    /\ turn'[p] = "nobody"

LEMMA ListDoneEffect ==
  ASSUME TypeInv, NEW p \in Proc, ChunksChecked(p) \/ CleanupDone(p)
  PROVE  /\ Busy(p) /\ UNCHANGED rules
         /\ \/ ToCleanup(p)
            \/ \E chunks \in Histories : ToNextList(p, chunks) \/ Home(p, chunks)
<1>1. ProcTyped /\ PassInv /\ Busy(p) /\ UNCHANGED rules
  BY Parts DEF ChunksChecked, CleanupDone, At
<1>2. lastChunks[p] \in Histories /\ pass[p] \in Locals /\ pass[p].prefix \in Prefix
  BY <1>1 DEF ProcTyped, Locals
<1>3. ASSUME NEW chunks \in Histories, ListDone(p, chunks), FinishList(p, chunks)
      PROVE  ToNextList(p, chunks) \/ Home(p, chunks)
  <2>1. CASE pass[p].prefix = "tor"
    <3>1. FinishPass(p, chunks)
      BY <1>3, <2>1 DEF FinishList
    <3>2. mode[p] # "off"
      BY <1>1 DEF PassInv
    <3>3. /\ \A q \in Proc \ {p} : mode'[q] = mode[q]
          /\ mode'[p] # "off" /\ (Guarding(p) => mode'[p] = mode[p])
      <4>1. CASE Guarding(p)
        BY <3>1, <3>2, <4>1 DEF FinishPass, Leave
      <4>2. CASE ~Guarding(p)
        <5>1. PICK build \in {"guard", "warn"} : mode' = [mode EXCEPT ![p] = build]
          BY <3>1, <4>2, BuildAssumption DEF FinishPass, Leave, Installed
        <5>2. QED
          BY <1>1, <4>2, <5>1 DEF ProcTyped
      <4>3. QED
        BY <4>1, <4>2
    <3>4. OthersKept(p)
      BY <1>1, <3>1, <3>3 DEF FinishPass, Leave, ProcTyped, OthersKept
    <3>5. /\ turn'[p] = "nobody" /\ UNCHANGED torEntryIPs
          /\ lastChunks'[p] = (IF Guarding(p) THEN chunks ELSE NoHistory)
          /\ queued'[p] = (IF Guarding(p) THEN queued[p] ELSE {"run"})
      BY <1>1, <3>1 DEF FinishPass, Leave, ProcTyped
    <3>6. QED
      BY <1>3, <2>1, <3>3, <3>4, <3>5 DEF Home
  <2>2. CASE pass[p].prefix # "tor"
    <3> DEFINE l == [pass[p] EXCEPT !.prefix = "tor", !.idx = 1, !.at = "show"]
    <3>1. /\ pass' = [pass EXCEPT ![p] = l]
          /\ lastChunks' = [lastChunks EXCEPT ![p] = chunks]
          /\ UNCHANGED <<mode, torEntryIPs, turn>>
      BY <1>1, <1>3, <2>2 DEF FinishList, runtime, ProcTyped
    <3>2. l.tor = pass[p].tor /\ l.idx = 1 /\ l.at = "show" /\ l.prefix = "tor"
      BY <1>2 DEF Locals
    <3> HIDE DEF l
    <3>3. pass'[p] = l /\ lastChunks'[p] = chunks /\ OthersKept(p)
      BY <1>1, <3>1 DEF ProcTyped, OthersKept
    <3>4. pass[p].prefix = "manual"
      BY <1>2, <2>2 DEF Prefix
    <3>5. QED
      BY <1>3, <3>1, <3>2, <3>3, <3>4 DEF ToNextList
  <2>3. QED
    BY <2>1, <2>2
<1>4. CASE CleanupDone(p)
  <2> DEFINE chunks == Recorded(lastChunks[p], pass[p].prefix, CurrentCount(p))
  <2>1. chunks \in Histories
    BY <1>1, <1>2, PassChunksTyped, HistoryTyped
  <2>2. FinishList(p, chunks) /\ ListDone(p, chunks)
    BY <1>4 DEF CleanupDone, ListDone, At
  <2>3. QED
    BY <1>1, <1>3, <2>1, <2>2
<1>5. CASE ChunksChecked(p) /\ Warns(p)
  <2>1. FinishList(p, lastChunks[p]) /\ ListDone(p, lastChunks[p])
    BY <1>5 DEF ChunksChecked, ListDone
  <2>2. QED
    BY <1>1, <1>2, <1>3, <2>1
<1>6. CASE ChunksChecked(p) /\ ~Warns(p)
  <2>1. /\ pass' = [pass EXCEPT ![p] = [pass[p] EXCEPT !.at = "cleanup"]]
        /\ UNCHANGED <<mode, torEntryIPs, turn, lastChunks>>
        /\ pass[p].at = "show" /\ pass[p].idx \notin DOMAIN PassChunks(p)
    BY <1>1, <1>6 DEF ChunksChecked, runtime, ProcTyped, At
  <2>2. /\ pass'[p].at = "cleanup" /\ pass'[p].idx = pass[p].idx
        /\ pass'[p].prefix = pass[p].prefix /\ pass'[p].tor = pass[p].tor
        /\ OthersKept(p)
    BY <1>1, <1>2, <2>1 DEF ProcTyped, Locals, OthersKept
  <2>3. pass[p].idx \in Nat /\ pass[p].idx >= 1
    BY <1>1, <1>2 DEF Locals, PassInv
  <2>4. pass[p].idx > CurrentCount(p)
    BY <1>1, <2>1, <2>3, PassChunksTyped
  <2>5. QED
    BY <1>1, <1>6, <2>1, <2>2, <2>4 DEF ToCleanup, SamePass
<1>7. QED
  BY <1>4, <1>5, <1>6

-----------------------------------------------------------------------------
(* blockAddress.                                                           *)

\* Process p is between the two commands that write a rule of the list.
Writes(p, x) == Busy(p) /\ pass[p].prefix = x /\ pass[p].at \in {"delete", "add"}

\* Until its rules are in force for the first time, only a primary in its
\* baseline is there: it has written the rules up to the one it is at.
ManualCount == RuleCount(ManualIPs)
ManualChunks == Chunks("manual", {})
FirstPass ==
    /\ \A q \in Proc \ {"primary"} : mode[q] = "off"
    /\ mode["primary"] \in {"off", "baseline"}
    /\ Busy("primary") =>
          /\ pass["primary"].prefix = "manual"
          /\ pass["primary"].at # "cleanup"
          /\ \A j \in 1..ManualCount :
                j < pass["primary"].idx => Fits(rules["manual"][j], ManualChunks[j])
          /\ pass["primary"].at = "add" => rules["manual"][pass["primary"].idx] = {}

\* Then nobody ever writes one again.
NothingBeyond ==
    \A i \in 1..MaxRule : i > ManualCount => rules["manual"][i] = {}
ManualInv ==
    /\ TypeInv
    /\ Undisturbed =>
          /\ NothingBeyond
          /\ InForce("manual", {}) => \A p \in Proc : ~Writes(p, "manual")
          /\ InForce("manual", {}) \/ FirstPass

LEMMA ManualChunksTyped ==
  /\ ManualCount \in 0..MaxRule
  /\ DOMAIN ManualChunks = 1..ManualCount
  /\ \A tor : Chunks("manual", tor) = ManualChunks /\ Count("manual", tor) = ManualCount
<1>1. \A tor : Chunks("manual", tor) = ManualChunks /\ Count("manual", tor) = ManualCount
  BY DEF ManualChunks, ManualCount, Chunks, Count
<1>2. QED
  BY <1>1, ChunksTyped, Fresh DEF Prefix

LEMMA ManualPass ==
  ASSUME TypeInv, NEW p \in Proc, Busy(p), pass[p].prefix = "manual"
  PROVE  PassChunks(p) = ManualChunks /\ CurrentCount(p) = ManualCount
<1>1. pass[p].tor \in Lists
  BY DEF TypeInv, PassInv
<1>2. QED
  BY <1>1, ManualChunksTyped, ChunksTyped DEF PassChunks, CurrentCount, Prefix

\* A process comes to write a rule only by finding that it does not fit.
LEMMA WritesStep ==
  ASSUME TypeInv, Undisturbed', [Next]_vars, NEW p \in Proc, NEW x \in Prefix, Writes(p, x)'
  PROVE  \/ Writes(p, x)
         \/ /\ pass[p].prefix = x /\ Busy(p) /\ ~Warns(p) /\ UNCHANGED rules
            /\ pass[p].idx \in 1..CurrentCount(p) /\ pass[p].idx \in 1..MaxRule
            /\ ~Fits(rules[x][pass[p].idx], PassChunks(p)[pass[p].idx])
<1>1. /\ pass \in [Proc -> Locals] /\ turn \in [Proc -> Goroutine \union {"nobody", "main"}]
      /\ torEntryIPs \in [Proc -> SUBSET IP]
  BY Parts DEF ProcTyped
<1>2. CASE pass'[p] = pass[p] /\ turn'[p] = turn[p]
  BY <1>2 DEF Writes, Busy
<1>3. CASE ShowRule(p)
  BY <1>3, ShowEffect DEF Writes, SamePass, Busy
<1>4. CASE DeleteRule(p) \/ AddRule(p)
  BY <1>4, WriteEffect DEF Writes, SamePass, Busy
<1>5. CASE ChunksChecked(p) \/ CleanupDone(p)
  BY <1>5, ListDoneEffect DEF Writes, SamePass, Busy, ToCleanup, ToNextList, Home
<1>6. CASE DeleteStaleRule(p)
  BY <1>6, StaleEffect DEF Writes, SamePass, Busy
<1>7. CASE Start(p) \/ Crash(p) \/ \E g \in Goroutine : EnterReconcile(p, g)
  <2>1. pass'[p].at = "show"
    BY <1>1, <1>7, Fresh, ListsAssumption DEF Start, Crash, EnterReconcile, NoPass
  <2>2. QED
    BY <2>1 DEF Writes
<1>8. CASE Tick(p) \/ Refresh(p)
  BY <1>2, <1>8 DEF Tick, RequestCheck, Refresh, RequestRefresh
<1>9. ASSUME NEW q \in Proc \ {p}, Step(q) \/ Crash(q)
      PROVE  pass'[p] = pass[p] /\ turn'[p] = turn[p]
  <2>1. CASE ReconcileStep(q)
    <3>1. OthersKept(q)
      BY <2>1, ShowEffect, WriteEffect, StaleEffect, ListDoneEffect
         DEF ReconcileStep, SamePass, ToCleanup, ToNextList, Home
    <3>2. QED
      BY <3>1 DEF OthersKept
  <2>2. CASE ~ReconcileStep(q)
    BY <1>1, <1>9, <2>2 DEF Step, Start, Launch, Tick, RequestCheck, Refresh,
       RequestRefresh, EnterReconcile, Enter, Crash, Kill
  <2>3. QED
    BY <2>1, <2>2
<1>10. CASE UNCHANGED <<pass, turn>>
  BY <1>2, <1>10
<1>11. QED
  BY <1>2, <1>3, <1>4, <1>5, <1>6, <1>7, <1>8, <1>9, <1>10
     DEF Next, Environment, Step, ReconcileStep, Publish, PublishList, Tamper, vars, runtime

\* Only three commands change a rule.
LEMMA RulesStep ==
  ASSUME TypeInv, Undisturbed', [Next]_vars
  PROVE  \/ UNCHANGED rules
         \/ \E p \in Proc : DeleteRule(p) \/ AddRule(p) \/ DeleteStaleRule(p)
<1>1. ASSUME NEW x \in Prefix, NEW i \in 1..MaxRule, NEW a \in IP,
             Tamper(x, i, {}) \/ Tamper(x, i, {{a}})
      PROVE  FALSE
  BY <1>1, CalmRules
<1>2. ASSUME NEW p \in Proc, Step(p),
             ~(DeleteRule(p) \/ AddRule(p) \/ DeleteStaleRule(p))
      PROVE  UNCHANGED rules
  BY <1>2 DEF Step, ReconcileStep, Start, Tick, Refresh, EnterReconcile, ShowRule,
     ChunksChecked, CleanupDone
<1>3. QED
  BY <1>1, <1>2 DEF Next, Environment, Crash, Publish, vars

\* Whose rules are in force, and nobody writes, they stay in force.
LEMMA ManualStays ==
  ASSUME TypeInv, Undisturbed', [Next]_vars, InForce("manual", {}),
         \A p \in Proc : ~Writes(p, "manual")
  PROVE  InForce("manual", {})'
<1>1. AllFit(rules["manual"], ManualChunks)
  BY InForceFits DEF ManualChunks, Prefix
<1>2. SUFFICES ASSUME NEW i \in 1..MaxRule PROVE rules'["manual"][i] = rules["manual"][i]
  BY <1>1, InForceFits DEF ManualChunks, Prefix, AllFit
<1>3. CASE UNCHANGED rules
  BY <1>3
<1>4. ASSUME NEW p \in Proc, DeleteRule(p) \/ AddRule(p)
      PROVE  rules'["manual"][i] = rules["manual"][i]
  <2>1. pass[p].prefix # "manual"
    BY <1>4, WriteEffect DEF Writes
  <2>2. QED
    BY <1>4, <2>1, WriteEffect DEF RuleSet, Prefix
<1>5. ASSUME NEW p \in Proc, DeleteStaleRule(p)
      PROVE  rules'["manual"][i] = rules["manual"][i]
  <2>1. CASE pass[p].prefix = "manual" /\ i = pass[p].idx
    <3>1. i > ManualCount
      BY <1>5, <2>1, StaleEffect, ManualPass
    <3>2. rules["manual"][i] = {}
      BY <1>1, <3>1, ManualChunksTyped DEF AllFit
    <3>3. QED
      BY <1>5, <2>1, <3>2, StaleEffect DEF RuleSet, Prefix
  <2>2. QED
    BY <1>5, <2>1, StaleEffect DEF RuleSet, Prefix
<1>6. QED
  BY <1>3, <1>4, <1>5, RulesStep

LEMMA NobodyStarts ==
  ASSUME TypeInv, Undisturbed', [Next]_vars, InForce("manual", {}),
         \A p \in Proc : ~Writes(p, "manual")
  PROVE  \A p \in Proc : ~Writes(p, "manual")'
<1> SUFFICES ASSUME NEW p \in Proc, Writes(p, "manual")' PROVE FALSE
  OBVIOUS
<1>1. /\ pass[p].prefix = "manual" /\ Busy(p)
      /\ pass[p].idx \in 1..CurrentCount(p) /\ pass[p].idx \in 1..MaxRule
      /\ ~Fits(rules["manual"][pass[p].idx], PassChunks(p)[pass[p].idx])
  BY WritesStep DEF Prefix
<1>2. AllFit(rules["manual"], ManualChunks)
  BY InForceFits DEF ManualChunks, Prefix
<1>3. QED
  BY <1>1, <1>2, ManualPass, ManualChunksTyped DEF AllFit

\* In the first pass only the primary takes a step.
LEMMA FirstAlone ==
  ASSUME Proc \subseteq {"primary", "watchdog"}, TypeInv, FirstPass, NEW p \in Proc,
         Step(p) \/ Crash(p)
  PROVE  p = "primary" /\ ~Guarding("primary")
<1>1. ~Guarding("primary") /\ \A q \in Proc \ {"primary"} : mode[q] = "off"
  BY DEF FirstPass, Guarding
<1>2. \A q \in Proc : mode[q] = "off" => ~Busy(q) /\ queued[q] = {}
  BY DEF TypeInv, PassInv
<1>3. CASE p # "primary"
  <2>1. p = "watchdog" /\ mode[p] = "off" /\ ~Busy(p) /\ queued[p] = {}
    BY <1>1, <1>2, <1>3
  <2>2. ~Crash(p) /\ ~Tick(p) /\ ~Refresh(p) /\ ~\E g \in Goroutine : EnterReconcile(p, g)
    BY <2>1 DEF Crash, Kill, Tick, RequestCheck, Refresh, RequestRefresh, Idle, Guarding,
       EnterReconcile, Enter
  <2>3. ~ReconcileStep(p)
    BY <2>1 DEF ReconcileStep, ShowRule, DeleteRule, AddRule, ChunksChecked, DeleteStaleRule,
       CleanupDone, At
  <2>4. ~Start(p)
    BY <2>1 DEF Start, Launch, FirstPass
  <2>5. QED
    BY <2>2, <2>3, <2>4 DEF Step
<1>4. QED
  BY <1>1, <1>3

\* The first pass, step by step: the next rule is checked, deleted or added.
LEMMA FirstPassStep ==
  ASSUME Proc \subseteq {"primary", "watchdog"}, TypeInv, Undisturbed', [Next]_vars,
         NothingBeyond, FirstPass, ~InForce("manual", {})
  PROVE  /\ NothingBeyond'
         /\ InForce("manual", {})' => \A p \in Proc : ~Writes(p, "manual")'
         /\ FirstPass'
<1> DEFINE w == "primary"
           i == pass[w].idx
<1>1. w \in Proc /\ mode[w] \in {"off", "baseline"} /\ ~Warns(w)
  BY RolesAssumption DEF FirstPass, Warns
<1>2. ASSUME UNCHANGED <<mode, turn, pass, rules>>
      PROVE  FirstPass' /\ NothingBeyond' /\ ~InForce("manual", {})'
  BY <1>2 DEF FirstPass, Busy, NothingBeyond, InForce, RuleRemoteIPs
<1>3. ~AllFit(rules["manual"], ManualChunks)
  BY InForceFits DEF ManualChunks, Prefix
<1>4. ASSUME UNCHANGED rules, \A q \in Proc \ {w} : mode'[q] = mode[q],
             mode'[w] \in {"off", "baseline"},
             Busy(w)' => pass'[w].prefix = "manual" /\ pass'[w].at = "show" /\ pass'[w].idx = 1
      PROVE  FirstPass' /\ NothingBeyond' /\ ~InForce("manual", {})'
  BY <1>4 DEF FirstPass, NothingBeyond, InForce, RuleRemoteIPs
<1>5. CASE Start(w) \/ Crash(w) \/ \E g \in Goroutine : EnterReconcile(w, g)
  <2>1. ProcTyped
    BY Parts
  <2>2. UNCHANGED rules /\ \A q \in Proc \ {w} : mode'[q] = mode[q]
    BY <1>5, <2>1 DEF Start, Launch, Crash, Kill, EnterReconcile, Enter, ProcTyped
  <2>3. mode'[w] \in {"off", "baseline"}
    BY <1>1, <1>5, <2>1 DEF Start, Launch, Crash, Kill, EnterReconcile, Enter, ProcTyped
  <2>4. Busy(w)' => pass'[w] \in {NewPass(SeedTorIPs), NewPass(torEntryIPs[w])}
    BY <1>1, <1>5, <2>1 DEF Start, Crash, Kill, EnterReconcile, ProcTyped, Busy
  <2>5. \A tor : /\ NewPass(tor).prefix = "manual" /\ NewPass(tor).at = "show"
                 /\ NewPass(tor).idx = 1
    BY DEF NewPass
  <2>6. FirstPass' /\ NothingBeyond' /\ ~InForce("manual", {})'
    BY <1>4, <2>2, <2>3, <2>4, <2>5
  <2>7. QED
    BY <2>6
<1>6. CASE ShowRule(w) \/ DeleteRule(w) \/ AddRule(w)
  <2>1. Busy(w) /\ pass[w].prefix = "manual" /\ SamePass(w)
        /\ i \in 1..ManualCount /\ i \in 1..MaxRule
    BY <1>1, <1>6, ShowEffect, WriteEffect, ManualPass DEF FirstPass
  <2>2. PassChunks(w) = ManualChunks /\ \A j \in 1..ManualCount : j < i => Fits(rules["manual"][j], ManualChunks[j])
    BY <1>1, <2>1, ManualPass DEF FirstPass
  <2>3. \A q \in Proc \ {w} : mode'[q] = "off" /\ ~Busy(q)'
    BY <2>1 DEF SamePass, OthersKept, FirstPass, TypeInv, PassInv, Busy
  <2>4. mode'[w] = mode[w] /\ pass'[w].prefix = "manual" /\ Busy(w)'
    BY <2>1 DEF SamePass, Busy
  <2>5. i \in Nat /\ ManualCount \in 0..MaxRule
    BY <2>1, ManualChunksTyped
  <2>6. CASE ShowRule(w)
    <3>1. /\ UNCHANGED rules
          /\ \/ pass'[w].at = "delete" /\ pass'[w].idx = i
             \/ /\ pass'[w].at = "show" /\ pass'[w].idx = i + 1
                /\ Fits(rules["manual"][i], ManualChunks[i])
      BY <1>1, <2>1, <2>2, <2>6, ShowEffect
    <3>2. NothingBeyond' /\ ~InForce("manual", {})'
      BY <3>1 DEF NothingBeyond, InForce, RuleRemoteIPs
    <3>3. \A j \in 1..ManualCount :
             j < pass'[w].idx => Fits(rules'["manual"][j], ManualChunks[j])
      BY <2>2, <2>5, <3>1
    <3>4. FirstPass'
      BY <1>1, <2>3, <2>4, <3>1, <3>3 DEF FirstPass
    <3>5. QED
      BY <3>2, <3>4
  <2>7. CASE DeleteRule(w) \/ AddRule(w)
    <3>1. PICK contents \in {{}, rules["manual"][i] \union {ManualChunks[i]}} :
            /\ \A j \in 1..MaxRule :
                 rules'["manual"][j] = IF j = i THEN contents ELSE rules["manual"][j]
            /\ \/ contents = {} /\ pass'[w].at = "add" /\ pass'[w].idx = i
               \/ /\ contents = {ManualChunks[i]}
                  /\ pass'[w].at = "show" /\ pass'[w].idx = i + 1
      <4>1. pass[w].at = "add" => rules["manual"][i] = {}
        BY <2>1 DEF FirstPass
      <4>2. CASE DeleteRule(w)
        <5>1. RuleSet(w, {}) /\ pass'[w].at = "add" /\ pass'[w].idx = i
          BY <1>1, <4>2, WriteEffect DEF DeleteRule, AddRule, At
        <5>2. QED
          BY <2>1, <5>1 DEF RuleSet, Prefix
      <4>3. CASE AddRule(w)
        <5>1. /\ RuleSet(w, rules["manual"][i] \union {ManualChunks[i]}) /\ pass[w].at = "add"
              /\ pass'[w].at = "show" /\ pass'[w].idx = i + 1
          BY <1>1, <2>1, <2>2, <4>3, WriteEffect DEF DeleteRule, AddRule, At
        <5>2. rules["manual"][i] \union {ManualChunks[i]} = {ManualChunks[i]}
          BY <4>1, <5>1
        <5>3. QED
          BY <2>1, <5>1, <5>2 DEF RuleSet, Prefix
      <4>4. QED
        BY <2>7, <4>2, <4>3
    <3>2. NothingBeyond'
      BY <2>1, <2>5, <3>1 DEF NothingBeyond
    <3>3. \A j \in 1..ManualCount : j \in 1..MaxRule
      BY <2>5, SizesAssumption
    <3>4. \A j \in 1..ManualCount :
             j < pass'[w].idx => Fits(rules'["manual"][j], ManualChunks[j])
      <4> SUFFICES ASSUME NEW j \in 1..ManualCount, j < pass'[w].idx
                   PROVE  Fits(rules'["manual"][j], ManualChunks[j])
        OBVIOUS
      <4>1. CASE j < i
        BY <2>2, <2>5, <3>1, <3>3, <4>1
      <4>2. CASE ~(j < i)
        <5>1. j = i /\ contents = {ManualChunks[i]}
          BY <2>5, <3>1, <4>2
        <5>2. QED
          BY <2>1, <3>1, <5>1 DEF Fits
      <4>3. QED
        BY <4>1, <4>2
    <3>5. FirstPass'
      BY <1>1, <2>1, <2>3, <2>4, <3>1, <3>4 DEF FirstPass
    <3>6. InForce("manual", {})' => \A p \in Proc : ~Writes(p, "manual")'
      <4>1. SUFFICES ASSUME InForce("manual", {})' PROVE pass'[w].at = "show"
        BY <2>3 DEF Writes
      <4>2. AllFit(rules'["manual"], ManualChunks)
        BY <4>1, InForceFits DEF ManualChunks, Prefix
      <4>3. contents # {}
        BY <2>1, <3>1, <4>2, ManualChunksTyped DEF AllFit, Fits
      <4>4. QED
        BY <3>1, <4>3
    <3>7. QED
      BY <3>2, <3>5, <3>6
  <2>8. QED
    BY <1>6, <2>6, <2>7
<1>7. CASE ChunksChecked(w) \/ CleanupDone(w) \/ DeleteStaleRule(w)
  <2>1. Busy(w) /\ pass[w].prefix = "manual" /\ pass[w].at # "cleanup"
    BY <1>1, <1>7, ListDoneEffect, StaleEffect DEF FirstPass
  <2>2. ToCleanup(w)
    BY <1>1, <1>7, <2>1, ListDoneEffect, StaleEffect DEF ToNextList, Home, ListDone
  <2>3. i > ManualCount /\ i \in Nat
    BY <1>1, <2>1, <2>2, ManualPass, Parts DEF ToCleanup, ProcTyped, Locals
  <2>4. AllFit(rules["manual"], ManualChunks)
    BY <1>1, <2>1, <2>3, ManualChunksTyped DEF FirstPass, NothingBeyond, AllFit
  <2>5. QED
    BY <1>3, <2>4
<1>8. ASSUME NEW p \in Proc, Step(p) \/ Crash(p)
      PROVE  Step(w) \/ Crash(w)
  BY <1>8, FirstAlone
<1>9. CASE Tick(w) \/ Refresh(w)
  BY <1>1, <1>9 DEF Tick, RequestCheck, Refresh, RequestRefresh, Idle, Guarding
<1>10. CASE UNCHANGED vars \/ \E S \in Publications : Publish(S)
  BY <1>2, <1>10 DEF vars, runtime, Publish, PublishList
<1>11. ASSUME NEW x \in Prefix, NEW k \in 1..MaxRule, NEW a \in IP,
             Tamper(x, k, {}) \/ Tamper(x, k, {{a}})
       PROVE  FALSE
  BY <1>11, CalmRules
<1>12. QED
  BY <1>5, <1>6, <1>7, <1>8, <1>9, <1>10, <1>11 DEF Next, Environment, Step, ReconcileStep

LEMMA ManualStep ==
  ASSUME Proc \subseteq {"primary", "watchdog"}, ManualInv, [Next]_vars
  PROVE  ManualInv'
<1>1. TypeInv'
  BY StepTyped DEF ManualInv
<1> SUFFICES ASSUME Undisturbed'
             PROVE  /\ NothingBeyond'
                    /\ InForce("manual", {})' => \A p \in Proc : ~Writes(p, "manual")'
                    /\ InForce("manual", {})' \/ FirstPass'
  BY <1>1 DEF ManualInv
<1>2. TypeInv /\ NothingBeyond /\ (InForce("manual", {}) => \A p \in Proc : ~Writes(p, "manual"))
      /\ (InForce("manual", {}) \/ FirstPass)
  BY CalmBefore DEF ManualInv
<1>3. CASE InForce("manual", {})
  <2>1. InForce("manual", {})' /\ \A p \in Proc : ~Writes(p, "manual")'
    BY <1>2, <1>3, ManualStays, NobodyStarts
  <2>2. AllFit(rules'["manual"], ManualChunks)
    BY <2>1, InForceFits DEF ManualChunks, Prefix
  <2>3. NothingBeyond'
    BY <2>2, ManualChunksTyped DEF AllFit, NothingBeyond
  <2>4. QED
    BY <2>1, <2>3
<1>4. CASE ~InForce("manual", {})
  BY <1>2, <1>4, FirstPassStep
<1>5. QED
  BY <1>3, <1>4

\* What blockAddress blocks stays blocked, in a process that runs alone or in a
\* pair, through every kill, restart, refresh and clean-up: the only two roles
\* the program has.
THEOREM ManualStable ==
  Proc \subseteq {"primary", "watchdog"} => (Spec => ManualBlockStable)
<1> SUFFICES ASSUME Proc \subseteq {"primary", "watchdog"} PROVE Spec => ManualBlockStable
  OBVIOUS
<1>1. Init => ManualInv
  <2> SUFFICES ASSUME Init PROVE ManualInv
    OBVIOUS
  <2>1. NothingBeyond /\ FirstPass /\ \A p \in Proc : ~Busy(p)
    BY RolesAssumption DEF Init, RuntimeInit, NothingBeyond, FirstPass, Busy, Prefix
  <2>2. QED
    BY <2>1, InitTyped DEF ManualInv, Writes
<1>2. ManualInv /\ [Next]_vars => ManualInv'
  BY ManualStep
<1>3. ManualInv /\ [Next]_vars
        => [InForce("manual", {}) /\ Undisturbed' => InForce("manual", {})']_rules
  BY CalmBefore, ManualStays DEF ManualInv
<1>4. QED
  BY <1>1, <1>2, <1>3, PTL DEF Spec, ManualBlockStable

-----------------------------------------------------------------------------
(* A Tor refresh, of a process that runs alone.                            *)

\* No list needs so many more rules than another that the sweep of a process
\* that knows nothing of its predecessor would not reach them.
WithinSweep == \A S, T \in Lists : RuleCount(S) <= RuleCount(T) + InitialStaleSweep

Alone == spent["spawn"] = 0 => \A q \in Proc \ {"primary"} : mode[q] = "off"

\* A refresh works with the list that was set for it; a guard that only warns
\* has no refresh, writes nothing and remembers no rules.
Turns(p) ==
    /\ turn[p] = "refresh" => ~Warns(p) /\ pass[p].tor = torEntryIPs[p]
    /\ "refresh" \in queued[p] => ~Warns(p)
    /\ Warns(p) => DOMAIN lastChunks[p] = {} /\ (Busy(p) => pass[p].at = "show")

\* A pass over the Tor rules has written those it has passed, and deleted the
\* stale ones it has passed; what is left of those is yet to come.
Written(contents, l) ==
    \A j \in 1..RuleCount(l.tor) :
        j < l.idx => Fits(contents[j], Chunks("tor", l.tor)[j])
Swept(contents, l, previous) ==
    /\ l.idx > RuleCount(l.tor)
    /\ \A i \in 1..MaxRule :
          contents[i] # {} => i <= RuleCount(l.tor) \/ (l.idx <= i /\ i <= previous)
InTor(p) == Busy(p) /\ pass[p].prefix = "tor"
TorPass(p) ==
    InTor(p) /\ ~Warns(p) =>
        /\ Written(rules["tor"], pass[p])
        /\ pass[p].at = "show" => pass[p].idx <= RuleCount(pass[p].tor) + 1
        /\ pass[p].at = "add" => rules["tor"][pass[p].idx] = {}
        /\ pass[p].at = "cleanup" => Swept(rules["tor"], pass[p], PreviousCount(p))

\* No rule lies beyond those the process remembers or is writing; none beyond
\* the sweep of a process that remembers nothing.
Remembered(p) ==
    "tor" \in DOMAIN lastChunks[p] =>
        \A i \in 1..MaxRule :
            rules["tor"][i] # {} =>
                \/ i <= lastChunks[p]["tor"]
                \/ InTor(p) /\ i <= RuleCount(pass[p].tor)
WithinReach ==
    \A i \in 1..MaxRule :
        rules["tor"][i] # {} => \A T \in Lists : i <= RuleCount(T) + InitialStaleSweep

TorParts(p) == Turns(p) /\ TorPass(p) /\ Remembered(p) /\ WithinReach
TorInv ==
    /\ TypeInv
    /\ Alone
    /\ Undisturbed /\ spent["spawn"] = 0 => TorParts("primary")

LEMMA TorChunks ==
  ASSUME TypeInv, NEW p \in Proc, InTor(p)
  PROVE  /\ PassChunks(p) = Chunks("tor", pass[p].tor)
         /\ CurrentCount(p) = RuleCount(pass[p].tor)
         /\ pass[p].tor \in Lists /\ pass[p].idx \in Nat /\ pass[p].idx >= 1
         /\ RuleCount(pass[p].tor) \in 0..MaxRule
         /\ DOMAIN Chunks("tor", pass[p].tor) = 1..RuleCount(pass[p].tor)
<1>1. pass[p].tor \in Lists /\ pass[p].idx \in Nat /\ pass[p].idx >= 1
  BY DEF TypeInv, TypeOK, PassInv, InTor
<1>2. QED
  BY <1>1, ChunksTyped DEF PassChunks, CurrentCount, InTor, Count, Prefix

LEMMA AloneStep ==
  ASSUME Proc \subseteq {"primary", "watchdog"}, TypeInv, Alone, [Next]_vars
  PROVE  Alone'
<1> SUFFICES ASSUME spent'["spawn"] = 0, NEW q \in Proc \ {"primary"}
             PROVE  mode'[q] = "off"
  BY DEF Alone
<1>1. q = "watchdog" /\ mode[q] = "off" /\ spent["spawn"] = 0
  BY CalmBefore DEF Alone
<1>2. ASSUME NEW p \in Proc, Step(p) PROVE mode'[q] = "off"
  <2>1. CASE Start(p)
    <3>1. p # "watchdog"
      BY <1>1, <2>1, SpentTyped DEF Start, Launch, Spend, EnvEvent
    <3>2. QED
      BY <1>1, <2>1, <3>1 DEF Start, Launch
  <2>2. CASE Tick(p) \/ Refresh(p) \/ \E g \in Goroutine : EnterReconcile(p, g)
    BY <1>1, <2>2 DEF Tick, Refresh, RequestCheck, RequestRefresh, EnterReconcile, Enter
  <2>3. CASE ShowRule(p) \/ DeleteRule(p) \/ AddRule(p) \/ DeleteStaleRule(p)
    BY <1>1, <2>3 DEF ShowRule, DeleteRule, AddRule, DeleteStaleRule
  <2>4. CASE ChunksChecked(p) \/ CleanupDone(p)
    <3>1. Busy(p) /\ mode[p] # "off"
      BY <2>4, ListDoneEffect DEF TypeInv, PassInv
    <3>2. q # p
      BY <1>1, <3>1
    <3>3. QED
      BY <1>1, <2>4, <3>2, ListDoneEffect
         DEF ToCleanup, ToNextList, Home, SamePass, OthersKept
  <2>5. QED
    BY <1>2, <2>1, <2>2, <2>3, <2>4 DEF Step, ReconcileStep
<1>3. CASE \E p \in Proc : Crash(p)
  BY <1>1, <1>3, Parts DEF Crash, Kill, ProcTyped
<1>4. CASE UNCHANGED mode
  BY <1>1, <1>4
<1>5. QED
  BY <1>2, <1>3, <1>4 DEF Next, Environment, Publish, PublishList, Tamper, vars, runtime

\* The rules are as before, or fewer, and the process is not at the Tor rules.
LEMMA TorOutside ==
  ASSUME NEW p \in Proc, TorParts(p), Turns(p)', ~InTor(p)', rules'["tor"] = rules["tor"],
         \/ lastChunks'[p] = lastChunks[p] /\ ~InTor(p)
         \/ DOMAIN lastChunks'[p] = {}
  PROVE  TorParts(p)'
<1>1. TorPass(p)' /\ WithinReach'
  BY DEF TorParts, TorPass, WithinReach
<1>2. Remembered(p)'
  BY DEF TorParts, Remembered
<1>3. QED
  BY <1>1, <1>2 DEF TorParts

\* Steps of the primary that are no part of a pass.
LEMMA TorRun ==
  ASSUME TypeInv, NEW p \in Proc, TorParts(p),
         \/ Start(p) \/ Tick(p) \/ Refresh(p) \/ Crash(p)
         \/ \E g \in Goroutine : EnterReconcile(p, g)
  PROVE  TorParts(p)'
<1>1. ProcTyped /\ PassInv /\ Turns(p)
  BY Parts DEF TorParts
<1>2. UNCHANGED rules
  BY DEF Start, Tick, Refresh, Crash, EnterReconcile
<1>3. CASE Start(p)
  <2>1. /\ ~Busy(p) /\ queued'[p] = {} /\ turn'[p] = "main" /\ mode'[p] = "baseline"
        /\ pass'[p] = NewPass(SeedTorIPs) /\ UNCHANGED lastChunks
    BY <1>1, <1>3 DEF Start, Launch, PassInv, ProcTyped
  <2>2. Turns(p)' /\ ~InTor(p)' /\ ~InTor(p)
    BY <2>1 DEF Turns, Warns, InTor, NewPass
  <2>3. QED
    BY <1>2, <2>1, <2>2, TorOutside
<1>4. CASE Crash(p)
  <2>1. /\ turn'[p] = "nobody" /\ queued'[p] = {} /\ mode'[p] = "off"
        /\ lastChunks'[p] = NoHistory
    BY <1>1, <1>4 DEF Crash, Kill, ProcTyped
  <2>2. Turns(p)' /\ ~InTor(p)' /\ DOMAIN lastChunks'[p] = {}
    BY <2>1, NoHistoryTyped DEF Turns, Warns, InTor, Busy
  <2>3. QED
    BY <1>2, <2>2, TorOutside
<1>5. CASE Tick(p) \/ Refresh(p)
  <2>1. /\ UNCHANGED <<mode, turn, pass, lastChunks>>
        /\ queued'[p] \in {queued[p] \union {"run"}, queued[p] \union {"refresh"}}
        /\ "refresh" \in queued'[p] => "refresh" \in queued[p] \/ ~Warns(p)
        /\ turn[p] = "refresh" => UNCHANGED torEntryIPs
    BY <1>1, <1>5 DEF Tick, RequestCheck, Refresh, RequestRefresh, Idle, Wants, ProcTyped
  <2>2. Turns(p)'
    BY <1>1, <2>1 DEF Turns, Warns, Busy
  <2>3. TorPass(p)' /\ Remembered(p)' /\ WithinReach'
    BY <1>2, <2>1 DEF TorParts, TorPass, Remembered, WithinReach, InTor, Busy, Warns,
       PreviousCount, CurrentCount, PassChunks
  <2>4. QED
    BY <2>2, <2>3 DEF TorParts
<1>6. ASSUME NEW g \in Goroutine, EnterReconcile(p, g) PROVE TorParts(p)'
  <2>1. /\ turn'[p] = g /\ g \in queued[p] /\ queued'[p] = queued[p] \ {g} /\ ~Busy(p)
        /\ UNCHANGED <<mode, torEntryIPs, lastChunks>>
        /\ pass'[p] = NewPass(torEntryIPs[p])
    BY <1>1, <1>6 DEF EnterReconcile, Enter, ProcTyped, Busy
  <2>2. Turns(p)' /\ ~InTor(p)' /\ ~InTor(p)
    BY <1>1, <2>1 DEF Turns, Warns, InTor, NewPass
  <2>3. QED
    BY <1>2, <2>1, <2>2, TorOutside
<1>7. QED
  BY <1>3, <1>4, <1>5, <1>6

\* A command that stays in its pass leaves the turns as they are.
LEMMA TorTurns ==
  ASSUME NEW p \in Proc, Turns(p), SamePass(p), UNCHANGED queued,
         Warns(p) => pass'[p].at = "show"
  PROVE  Turns(p)'
  BY DEF Turns, SamePass, Warns

\* The commands of a pass over the Tor rules.
LEMMA TorCommand ==
  ASSUME WithinSweep, TypeInv, Undisturbed', NEW p \in Proc, TorParts(p), InTor(p),
         ShowRule(p) \/ DeleteRule(p) \/ AddRule(p) \/ DeleteStaleRule(p)
  PROVE  TorPass(p)' /\ Remembered(p)' /\ WithinReach'
<1> DEFINE i == pass[p].idx
           n == RuleCount(pass[p].tor)
           chunks == Chunks("tor", pass[p].tor)
<1>1. /\ PassChunks(p) = chunks /\ CurrentCount(p) = n /\ pass[p].tor \in Lists
      /\ i \in Nat /\ i >= 1 /\ n \in 0..MaxRule /\ n \in Nat /\ MaxRule \in Nat
  BY TorChunks, SizesAssumption
<1>2. SamePass(p) /\ i \in 1..MaxRule
  BY ShowEffect, WriteEffect, StaleEffect
<1>3. /\ InTor(p)' /\ (Warns(p)' <=> Warns(p)) /\ pass'[p].tor = pass[p].tor
      /\ UNCHANGED lastChunks /\ PreviousCount(p)' = PreviousCount(p)
  BY <1>2 DEF SamePass, InTor, Busy, Warns, PreviousCount, CurrentCount, PassChunks
<1>4. Written(rules["tor"], pass[p]) \/ Warns(p)
  BY DEF TorParts, TorPass
<1>5. \A j \in 1..n : j \in 1..MaxRule
  BY <1>1
<1>6. CASE ShowRule(p)
  <2>1. UNCHANGED rules
    BY <1>6, ShowEffect
  <2>2. Remembered(p)' /\ WithinReach'
    BY <1>3, <2>1 DEF TorParts, Remembered, WithinReach
  <2>3. ASSUME ~Warns(p)
        PROVE  /\ Written(rules'["tor"], pass'[p])
               /\ pass'[p].at \in {"show", "delete"} /\ pass'[p].idx <= n + 1
    <3>1. /\ i \in 1..n
          /\ \/ pass'[p].at = "delete" /\ pass'[p].idx = i
             \/ /\ pass'[p].at = "show" /\ pass'[p].idx = i + 1
                /\ Fits(rules["tor"][i], chunks[i])
      BY <1>1, <1>6, <2>3, ShowEffect DEF InTor
    <3>2. QED
      BY <1>1, <1>3, <1>4, <2>1, <2>3, <3>1 DEF Written
  <2>4. TorPass(p)'
    BY <1>3, <2>3 DEF TorPass
  <2>5. QED
    BY <2>2, <2>4
<1>7. CASE DeleteRule(p) \/ DeleteStaleRule(p)
  <2>1. \A j \in 1..MaxRule : rules'["tor"][j] = IF j = i THEN {} ELSE rules["tor"][j]
    <3>1. RuleSet(p, {})
      BY <1>7, WriteEffect, StaleEffect DEF DeleteRule, AddRule, DeleteStaleRule, At
    <3>2. QED
      BY <3>1 DEF RuleSet, Prefix, InTor
  <2>2. Remembered(p)' /\ WithinReach'
    BY <1>3, <2>1 DEF TorParts, Remembered, WithinReach
  <2>3. CASE DeleteRule(p)
    <3>1. pass'[p].at = "add" /\ pass'[p].idx = i
      BY <2>3, WriteEffect DEF DeleteRule, AddRule, At
    <3>2. Written(rules'["tor"], pass'[p]) \/ Warns(p)
      BY <1>1, <1>3, <1>4, <1>5, <2>1, <3>1 DEF Written
    <3>3. rules'["tor"][i] = {}
      BY <1>2, <2>1
    <3>4. QED
      BY <1>3, <2>2, <3>1, <3>2, <3>3 DEF TorPass
  <2>4. CASE DeleteStaleRule(p)
    <3>1. /\ pass'[p].at = "cleanup" /\ pass'[p].idx = i + 1 /\ i > n
          /\ pass[p].at = "cleanup"
      BY <1>1, <2>4, StaleEffect
    <3>2. Written(rules'["tor"], pass'[p]) \/ Warns(p)
      BY <1>1, <1>3, <1>4, <1>5, <2>1, <3>1 DEF Written
    <3>3. Swept(rules'["tor"], pass'[p], PreviousCount(p)) \/ Warns(p)
      <4>1. Swept(rules["tor"], pass[p], PreviousCount(p)) \/ Warns(p)
        BY <3>1 DEF TorParts, TorPass
      <4>2. QED
        BY <1>1, <1>3, <2>1, <3>1, <4>1 DEF Swept
    <3>4. QED
      BY <1>3, <2>2, <3>1, <3>2, <3>3 DEF TorPass
  <2>5. QED
    BY <1>7, <2>3, <2>4
<1>8. CASE AddRule(p)
  <2>1. /\ RuleSet(p, rules["tor"][i] \union {chunks[i]}) /\ pass[p].at = "add"
        /\ pass'[p].at = "show" /\ pass'[p].idx = i + 1 /\ i \in 1..n
    BY <1>1, <1>8, WriteEffect DEF DeleteRule, AddRule, At, InTor
  <2>2. \A j \in 1..MaxRule :
           rules'["tor"][j] = IF j = i THEN rules["tor"][i] \union {chunks[i]} ELSE rules["tor"][j]
    BY <2>1 DEF RuleSet, Prefix, InTor
  <2>3. \A T \in Lists : RuleCount(T) \in Nat /\ n <= RuleCount(T) + InitialStaleSweep
    BY <1>1, ListsTyped, RuleCountNat DEF WithinSweep
  <2>4. WithinReach'
    <3> SUFFICES ASSUME NEW j \in 1..MaxRule, rules'["tor"][j] # {}, NEW T \in Lists
                 PROVE  j <= RuleCount(T) + InitialStaleSweep
      BY DEF WithinReach
    <3>1. CASE j = i
      BY <1>1, <2>1, <2>3, <3>1, SizesAssumption
    <3>2. CASE j # i
      BY <2>2, <3>2 DEF TorParts, WithinReach
    <3>3. QED
      BY <3>1, <3>2
  <2>5. Remembered(p)'
    <3> SUFFICES ASSUME "tor" \in DOMAIN lastChunks[p], NEW j \in 1..MaxRule,
                        rules'["tor"][j] # {}
                 PROVE  j <= lastChunks[p]["tor"] \/ j <= n
      BY <1>3 DEF Remembered
    <3>1. CASE j = i
      BY <2>1, <3>1
    <3>2. CASE j # i
      BY <2>2, <3>2 DEF TorParts, Remembered
    <3>3. QED
      BY <3>1, <3>2
  <2>6. ASSUME ~Warns(p) PROVE Written(rules'["tor"], pass'[p])
    <3> SUFFICES ASSUME NEW j \in 1..n, j < i + 1 PROVE Fits(rules'["tor"][j], chunks[j])
      BY <1>3, <2>1 DEF Written
    <3>1. CASE j = i
      <4>1. rules["tor"][i] = {}
        BY <2>1, <2>6 DEF TorParts, TorPass
      <4>2. rules'["tor"][j] = {chunks[j]}
        BY <1>5, <2>2, <3>1, <4>1
      <4>3. QED
        BY <4>2 DEF Fits
    <3>2. CASE j # i
      BY <1>1, <1>4, <1>5, <2>2, <2>6, <3>2 DEF Written
    <3>3. QED
      BY <3>1, <3>2
  <2>7. i + 1 <= n + 1
    BY <1>1, <2>1
  <2>8. TorPass(p)'
    BY <1>3, <2>1, <2>6, <2>7 DEF TorPass
  <2>9. QED
    BY <2>4, <2>5, <2>8
<1>9. QED
  BY <1>6, <1>7, <1>8

\* When the clean-up has no rule left to delete, no stale rule is left.
LEMMA SweptClean ==
  ASSUME TypeInv, NEW p \in Proc, InTor(p), ~Warns(p), TorPass(p),
         pass[p].at = "cleanup", pass[p].idx \notin StaleChunkIndexes(p)
  PROVE  \A i \in 1..MaxRule :
            IF i <= RuleCount(pass[p].tor)
              THEN Fits(rules["tor"][i], Chunks("tor", pass[p].tor)[i])
              ELSE rules["tor"][i] = {}
<1> SUFFICES ASSUME NEW i \in 1..MaxRule
             PROVE  IF i <= RuleCount(pass[p].tor)
                      THEN Fits(rules["tor"][i], Chunks("tor", pass[p].tor)[i])
                      ELSE rules["tor"][i] = {}
  OBVIOUS
<1> DEFINE n == RuleCount(pass[p].tor)
           k == pass[p].idx
<1>1. CurrentCount(p) = n /\ n \in Nat /\ k \in Nat /\ k >= 1 /\ MaxRule \in Nat
  BY TorChunks, SizesAssumption
<1>2. Written(rules["tor"], pass[p]) /\ Swept(rules["tor"], pass[p], PreviousCount(p))
  BY DEF TorPass
<1>3. k > n
  BY <1>2 DEF Swept
<1>4. CASE i <= n
  BY <1>1, <1>2, <1>3, <1>4 DEF Written
<1>5. CASE ~(i <= n)
  <2>1. SUFFICES ASSUME rules["tor"][i] # {} PROVE FALSE
    BY <1>5
  <2>2. k <= i /\ i <= PreviousCount(p)
    BY <1>2, <1>5, <2>1 DEF Swept
  <2>3. PreviousCount(p) \in Nat
    <3>1. lastChunks[p] \in Histories
      BY Parts DEF ProcTyped
    <3>2. CASE "tor" \in DOMAIN lastChunks[p]
      <4>1. lastChunks[p]["tor"] \in 0..MaxRule
        BY <3>1, <3>2 DEF Histories
      <4>2. QED
        BY <1>1, <3>2, <4>1 DEF PreviousCount, InTor
    <3>3. CASE "tor" \notin DOMAIN lastChunks[p]
      BY <1>1, <3>3, SizesAssumption DEF PreviousCount, InTor
    <3>4. QED
      BY <3>2, <3>3
  <2>4. k \in (n + 1)..PreviousCount(p) /\ k <= MaxRule
    BY <1>1, <1>3, <2>2, <2>3
  <2>5. k \in StaleChunkIndexes(p)
    BY <1>1, <2>4 DEF StaleChunkIndexes
  <2>6. QED
    BY <2>5
<1>6. QED
  BY <1>4, <1>5

\* The end of the Tor rules, and of the list before it.
LEMMA TorListDone ==
  ASSUME TypeInv, NEW p \in Proc, TorParts(p), ChunksChecked(p) \/ CleanupDone(p)
  PROVE  TorParts(p)'
<1>1. /\ Busy(p) /\ UNCHANGED rules
      /\ \/ ToCleanup(p)
         \/ \E chunks \in Histories : ToNextList(p, chunks) \/ Home(p, chunks)
  BY ListDoneEffect
<1>2. lastChunks[p] \in Histories /\ pass[p].prefix \in Prefix
  BY <1>1, Parts DEF ProcTyped, Locals
<1>3. queued'[p] = queued[p] \/ (~Guarding(p) /\ queued'[p] = {"run"})
  <2>1. UNCHANGED queued \/ (~Guarding(p) /\ queued' = [queued EXCEPT ![p] = {"run"}])
    BY DEF ChunksChecked, CleanupDone, FinishList, FinishPass, Leave, runtime
  <2>2. QED
    BY <2>1, Parts DEF ProcTyped
<1>4. CASE ToCleanup(p)
  <2>1. Turns(p)'
    BY <1>3, <1>4 DEF TorParts, Turns, ToCleanup, SamePass, Warns, Guarding
  <2>2. WithinReach'
    BY <1>1 DEF TorParts, WithinReach
  <2>3. /\ (InTor(p)' <=> InTor(p)) /\ pass'[p].tor = pass[p].tor
        /\ UNCHANGED lastChunks /\ PreviousCount(p)' = PreviousCount(p)
    BY <1>4 DEF ToCleanup, SamePass, InTor, Busy, PreviousCount, CurrentCount, PassChunks
  <2>4. Remembered(p)'
    BY <1>1, <2>3 DEF TorParts, Remembered
  <2>5. ASSUME InTor(p) PROVE TorPass(p)'
    <3> DEFINE i == pass[p].idx
               n == RuleCount(pass[p].tor)
    <3>1. /\ CurrentCount(p) = n /\ pass[p].tor \in Lists /\ n \in Nat /\ i \in Nat
      BY <2>5, TorChunks
    <3>2. ~Warns(p) /\ i > n /\ pass'[p].idx = i /\ pass'[p].at = "cleanup"
          /\ pass[p].at = "show"
      BY <1>4, <3>1 DEF ToCleanup
    <3>3. Written(rules["tor"], pass[p]) /\ i <= n + 1
      BY <2>5, <3>2 DEF TorParts, TorPass
    <3>4. Written(rules'["tor"], pass'[p])
      BY <1>1, <2>3, <3>2, <3>3 DEF Written
    <3>5. i = n + 1
      BY <3>1, <3>2, <3>3
    <3>6. \A j \in 1..MaxRule : rules["tor"][j] # {} => j <= n \/ j <= PreviousCount(p)
      <4>1. CASE "tor" \in DOMAIN lastChunks[p]
        BY <2>5, <4>1 DEF TorParts, Remembered, PreviousCount, InTor
      <4>2. CASE "tor" \notin DOMAIN lastChunks[p]
        BY <2>5, <3>1, <4>2 DEF TorParts, WithinReach, PreviousCount, InTor
      <4>3. QED
        BY <4>1, <4>2
    <3>7. Swept(rules'["tor"], pass'[p], PreviousCount(p))
      <4>1. \A j \in 1..MaxRule : ~(j <= n) => i <= j
        BY <3>1, <3>5
      <4>2. QED
        BY <1>1, <2>3, <3>2, <3>6, <4>1 DEF Swept
    <3>8. QED
      BY <2>3, <3>2, <3>4, <3>7 DEF TorPass
  <2>6. TorPass(p)'
    BY <2>3, <2>5 DEF TorPass
  <2>7. QED
    BY <2>1, <2>2, <2>4, <2>6 DEF TorParts
<1>5. ASSUME NEW chunks \in Histories, ToNextList(p, chunks) PROVE TorParts(p)'
  <2>1. /\ pass[p].prefix = "manual" /\ ~InTor(p)
        /\ \/ chunks = lastChunks[p]
           \/ chunks = Recorded(lastChunks[p], "manual", CurrentCount(p))
    BY <1>5 DEF ToNextList, ListDone, InTor
  <2>2. CurrentCount(p) \in 0..MaxRule
    BY <1>1, PassChunksTyped
  <2>3. "tor" \in DOMAIN chunks =>
          "tor" \in DOMAIN lastChunks[p] /\ chunks["tor"] = lastChunks[p]["tor"]
    <3>1. CASE chunks = lastChunks[p]
      BY <3>1
    <3>2. CASE chunks = Recorded(lastChunks[p], "manual", CurrentCount(p))
      <4>1. /\ DOMAIN chunks = {"manual"} \union DOMAIN lastChunks[p]
            /\ \A y \in DOMAIN lastChunks[p] \ {"manual"} : chunks[y] = lastChunks[p][y]
        BY <1>2, <2>2, <3>2, HistoryTyped DEF Prefix
      <4>2. QED
        BY <4>1
    <3>3. QED
      BY <2>1, <3>1, <3>2
  <2>4. Turns(p)'
    <3>1. Warns(p) => chunks = lastChunks[p]
      BY <1>1, <1>5 DEF TorParts, Turns, ToNextList, ListDone
    <3>2. QED
      BY <1>3, <1>5, <3>1 DEF TorParts, Turns, ToNextList, Warns, Guarding
  <2>5. WithinReach'
    BY <1>1 DEF TorParts, WithinReach
  <2>6. Remembered(p)'
    BY <1>1, <1>5, <2>1, <2>3 DEF TorParts, Remembered, ToNextList
  <2>7. TorPass(p)'
    <3>1. pass'[p].idx = 1 /\ pass'[p].at = "show" /\ pass'[p].tor = pass[p].tor
      BY <1>5 DEF ToNextList
    <3>2. RuleCount(pass[p].tor) \in Nat
      BY <1>1, ListsTyped, RuleCountNat DEF TypeInv, PassInv
    <3>3. Written(rules'["tor"], pass'[p])
      BY <3>1, <3>2 DEF Written
    <3>4. 1 <= RuleCount(pass[p].tor) + 1
      BY <3>2
    <3>5. QED
      BY <3>1, <3>3, <3>4 DEF TorPass
  <2>8. QED
    BY <2>4, <2>5, <2>6, <2>7 DEF TorParts
<1>6. ASSUME NEW chunks \in Histories, Home(p, chunks) PROVE TorParts(p)'
  <2>1. InTor(p) /\ turn'[p] = "nobody" /\ ~InTor(p)' /\ ListDone(p, chunks)
    BY <1>1, <1>6 DEF Home, InTor, Busy
  <2>2. Warns(p) => chunks = lastChunks[p]
    BY <1>1, <2>1 DEF TorParts, Turns, ListDone
  <2>3. Turns(p)'
    <3>1. CASE Guarding(p)
      BY <1>3, <1>6, <2>1, <2>2, <3>1 DEF TorParts, Turns, Home, Warns, Busy
    <3>2. CASE ~Guarding(p)
      BY <1>3, <1>6, <2>1, <3>2, NoHistoryTyped DEF Turns, Home, Warns, Busy, TorParts,
         Guarding
    <3>3. QED
      BY <3>1, <3>2
  <2>4. TorPass(p)' /\ WithinReach'
    BY <1>1, <2>1 DEF TorParts, WithinReach, TorPass
  <2>5. Remembered(p)'
    <3> SUFFICES ASSUME "tor" \in DOMAIN lastChunks'[p], NEW i \in 1..MaxRule,
                        rules["tor"][i] # {}
                 PROVE  i <= lastChunks'[p]["tor"]
      BY <1>1 DEF Remembered
    <3>1. Guarding(p) /\ lastChunks'[p] = chunks
      BY <1>6, NoHistoryTyped DEF Home
    <3>2. ~Warns(p)
      BY <2>2, <3>1 DEF TorParts, Turns
    <3>3. chunks["tor"] = CurrentCount(p) /\ CurrentCount(p) = RuleCount(pass[p].tor)
      <4>1. chunks = Recorded(lastChunks[p], "tor", CurrentCount(p))
        BY <2>1, <3>2 DEF ListDone, InTor
      <4>2. CurrentCount(p) \in 0..MaxRule /\ CurrentCount(p) = RuleCount(pass[p].tor)
        BY <1>1, <2>1, PassChunksTyped, TorChunks
      <4>3. QED
        BY <1>2, <4>1, <4>2, HistoryTyped DEF Prefix
    <3>4. i <= RuleCount(pass[p].tor)
      BY <2>1, <3>2, SweptClean DEF ListDone, TorParts
    <3>5. QED
      BY <3>1, <3>3, <3>4
  <2>6. QED
    BY <2>3, <2>4, <2>5 DEF TorParts
<1>7. QED
  BY <1>1, <1>4, <1>5, <1>6

LEMMA TorStep ==
  ASSUME Proc \subseteq {"primary", "watchdog"}, WithinSweep, TorInv, [Next]_vars
  PROVE  TorInv'
<1> DEFINE w == "primary"
<1>1. TypeInv /\ TypeInv' /\ Alone'
  BY StepTyped, AloneStep DEF TorInv
<1> SUFFICES ASSUME Undisturbed', spent'["spawn"] = 0 PROVE TorParts(w)'
  BY <1>1 DEF TorInv
<1>2. TorParts(w) /\ w \in Proc /\ \A q \in Proc \ {w} : mode[q] = "off" /\ mode'[q] = "off"
  BY <1>1, CalmBefore, RolesAssumption DEF TorInv, Alone
<1>3. ASSUME NEW p \in Proc, Step(p) \/ Crash(p), p # w PROVE FALSE
  <2>1. p = "watchdog" /\ mode[p] = "off" /\ mode'[p] = "off" /\ ~Busy(p) /\ queued[p] = {}
    BY <1>1, <1>2, <1>3 DEF TypeInv, PassInv
  <2>2. ~Crash(p) /\ ~Tick(p) /\ ~Refresh(p) /\ ~\E g \in Goroutine : EnterReconcile(p, g)
    BY <2>1 DEF Crash, Kill, Tick, RequestCheck, Refresh, RequestRefresh, Idle, Guarding,
       EnterReconcile, Enter
  <2>3. ~ReconcileStep(p)
    BY <2>1 DEF ReconcileStep, ShowRule, DeleteRule, AddRule, ChunksChecked, DeleteStaleRule,
       CleanupDone, At
  <2>4. ~Start(p)
    BY <1>1, <2>1 DEF Start, Launch, TypeInv, TypeOK, RuntimeTypeOK
  <2>5. QED
    BY <1>3, <2>2, <2>3, <2>4 DEF Step
<1>4. CASE \/ Start(w) \/ Tick(w) \/ Refresh(w) \/ Crash(w)
           \/ \E g \in Goroutine : EnterReconcile(w, g)
  BY <1>1, <1>2, <1>4, TorRun
<1>5. CASE ShowRule(w) \/ DeleteRule(w) \/ AddRule(w) \/ DeleteStaleRule(w)
  <2>1. UNCHANGED queued
    BY <1>5 DEF ShowRule, DeleteRule, AddRule, DeleteStaleRule
  <2>2. SamePass(w) /\ Busy(w) /\ (pass[w].at = "show" => pass'[w].at = "show" \/ ~Warns(w))
    BY <1>1, <1>2, <1>5, ShowEffect, WriteEffect, StaleEffect
  <2>3. Turns(w)'
    BY <1>2, <2>1, <2>2, TorTurns DEF TorParts, Turns
  <2>4. CASE InTor(w)
    BY <1>1, <1>2, <1>5, <2>3, <2>4, TorCommand DEF TorParts
  <2>5. CASE ~InTor(w)
    <3>1. pass[w].prefix # "tor"
      BY <2>2, <2>5 DEF InTor
    <3>2. \A i \in 1..MaxRule : rules'["tor"][i] = rules["tor"][i]
      <4>1. UNCHANGED rules \/ \E contents : RuleSet(w, contents)
        BY <1>1, <1>2, <1>5, ShowEffect, WriteEffect, StaleEffect
      <4>2. QED
        BY <3>1, <4>1 DEF RuleSet, Prefix
    <3>3. ~InTor(w)' /\ UNCHANGED lastChunks
      BY <2>2, <3>1 DEF SamePass, InTor
    <3>4. TorPass(w)' /\ Remembered(w)' /\ WithinReach'
      BY <1>2, <2>5, <3>2, <3>3 DEF TorParts, TorPass, Remembered, WithinReach
    <3>5. QED
      BY <2>3, <3>4 DEF TorParts
  <2>6. QED
    BY <2>4, <2>5
<1>6. CASE ChunksChecked(w) \/ CleanupDone(w)
  BY <1>1, <1>2, <1>6, TorListDone
<1>7. CASE UNCHANGED vars \/ \E S \in Publications : Publish(S)
  <2>1. UNCHANGED <<mode, torEntryIPs, turn, queued, rules, lastChunks, pass>>
    BY <1>7 DEF vars, runtime, Publish, PublishList
  <2>2. QED
    BY <1>2, <2>1 DEF TorParts, Turns, TorPass, Remembered, WithinReach, InTor, Busy, Warns,
       PreviousCount, CurrentCount, PassChunks
<1>8. ASSUME NEW x \in Prefix, NEW k \in 1..MaxRule, NEW a \in IP,
             Tamper(x, k, {}) \/ Tamper(x, k, {{a}})
      PROVE  FALSE
  BY <1>1, <1>8, CalmRules
<1>9. QED
  BY <1>3, <1>4, <1>5, <1>6, <1>7, <1>8 DEF Next, Environment, Step, ReconcileStep

\* A refresh returns by coming home, and then its list is in force.
LEMMA RefreshReturns ==
  ASSUME Proc \subseteq {"primary", "watchdog"}, TorInv, [Next]_vars, NEW p \in Proc,
         turn[p] = "refresh", turn'[p] = "nobody", Guarding(p)', Undisturbed',
         spent["spawn"] = 0
  PROVE  InForce("tor", torEntryIPs[p])
<1>1. TypeInv /\ Undisturbed /\ ProcTyped
  BY CalmBefore, Parts DEF TorInv
<1>2. p = "primary" /\ TorParts(p) /\ Busy(p)
  BY <1>1 DEF TorInv, Alone, TypeInv, PassInv, Busy
<1>3. ChunksChecked(p) \/ CleanupDone(p)
  <2>1. CASE \E q \in Proc \ {p} : Step(q) \/ Crash(q)
    <3>1. PICK q \in Proc \ {p} : Step(q) \/ Crash(q)
      BY <2>1
    <3>2. OthersKept(q)
      <4>1. CASE ReconcileStep(q)
        BY <1>1, <4>1, ShowEffect, WriteEffect, StaleEffect, ListDoneEffect
           DEF ReconcileStep, SamePass, ToCleanup, ToNextList, Home
      <4>2. CASE ~ReconcileStep(q)
        BY <1>1, <3>1, <4>2 DEF OthersKept, ProcTyped, Step, Start, Launch, Tick,
           RequestCheck, Refresh, RequestRefresh, EnterReconcile, Enter, Crash, Kill
      <4>3. QED
        BY <4>1, <4>2
    <3>3. QED
      BY <3>2 DEF OthersKept
  <2>2. CASE Crash(p)
    BY <1>1, <2>2 DEF Crash, Kill, ProcTyped, Guarding
  <2>3. CASE ShowRule(p) \/ DeleteRule(p) \/ AddRule(p) \/ DeleteStaleRule(p)
    BY <1>1, <2>3 DEF ShowRule, DeleteRule, AddRule, DeleteStaleRule
  <2>4. CASE Start(p) \/ Tick(p) \/ Refresh(p) \/ \E g \in Goroutine : EnterReconcile(p, g)
    BY <1>1, <2>4 DEF Start, Launch, Tick, RequestCheck, Refresh, RequestRefresh,
       EnterReconcile, Enter, ProcTyped
  <2>5. CASE UNCHANGED turn
    BY <2>5
  <2>6. QED
    BY <2>1, <2>2, <2>3, <2>4, <2>5
       DEF Next, Environment, Step, ReconcileStep, Publish, PublishList, Tamper, vars, runtime
<1>4. PICK chunks \in Histories : Home(p, chunks)
  <2>1. ~ToCleanup(p) /\ \A chunks \in Histories : ~ToNextList(p, chunks)
    BY DEF ToCleanup, ToNextList, SamePass
  <2>2. QED
    BY <1>1, <1>3, <2>1, ListDoneEffect
<1>5. InTor(p) /\ ~Warns(p) /\ pass[p].tor = torEntryIPs[p]
  BY <1>2, <1>4 DEF Home, InTor, TorParts, Turns
<1>6. pass[p].at = "cleanup" /\ pass[p].idx \notin StaleChunkIndexes(p)
  BY <1>4, <1>5 DEF Home, ListDone
<1>7. AllFit(rules["tor"], Chunks("tor", pass[p].tor))
  <2>1. RuleCount(pass[p].tor) \in 0..MaxRule
        /\ DOMAIN Chunks("tor", pass[p].tor) = 1..RuleCount(pass[p].tor)
    BY <1>1, <1>5, TorChunks
  <2>2. QED
    BY <1>1, <1>2, <1>5, <1>6, <2>1, SweptClean DEF AllFit, TorParts
<1>8. QED
  BY <1>5, <1>7, InForceFits DEF Prefix

\* A refresh that returns, in a process that runs alone, has its list in force,
\* through every kill, restart and sequence of lists; for lists no further apart
\* than the sweep of a new process reaches.
THEOREM RefreshIsApplied ==
  Proc \subseteq {"primary", "watchdog"} /\ WithinSweep => (Spec => RefreshApplied)
<1> SUFFICES ASSUME Proc \subseteq {"primary", "watchdog"}, WithinSweep
             PROVE  Spec => RefreshApplied
  OBVIOUS
<1>1. Init => TorInv
  <2> SUFFICES ASSUME Init PROVE TorInv
    OBVIOUS
  <2>1. /\ \A p \in Proc : mode[p] = "off" /\ ~Busy(p) /\ queued[p] = {}
                           /\ lastChunks[p] = NoHistory
        /\ \A i \in 1..MaxRule : rules["tor"][i] = {}
    BY DEF Init, RuntimeInit, Busy, Prefix
  <2>2. TorParts("primary")
    BY <2>1, RolesAssumption, NoHistoryTyped
       DEF TorParts, Turns, TorPass, Remembered, WithinReach, InTor, Warns, Busy
  <2>3. QED
    BY <2>1, <2>2, InitTyped DEF TorInv, Alone
<1>2. TorInv /\ [Next]_vars => TorInv'
  BY TorStep
<1>3. TorInv /\ [Next]_vars
        => [\A p \in Proc :
               turn[p] = "refresh" /\ turn'[p] = "nobody" /\ Guarding(p)'
               /\ Undisturbed' /\ spent["spawn"] = 0
                   => InForce("tor", torEntryIPs[p])]_vars
  BY RefreshReturns
<1>4. QED
  BY <1>1, <1>2, <1>3, PTL DEF Spec, RefreshApplied
=============================================================================
