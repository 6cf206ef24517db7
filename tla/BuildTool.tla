------------------------------ MODULE BuildTool ------------------------------
(***************************************************************************)
(* cmd/build: it brings torEntryIPs of env.json up to date, embeds the     *)
(* file, merges the block lists it names, and compiles the targets.        *)
(* Invocations share env.json, the generated sources and the binaries;     *)
(* every failure ends an invocation where it stands.                       *)
(***************************************************************************)
EXTENDS EnvFile

CONSTANTS
    Tool,     \* invocations of the tool
    Flags,    \* their flags
    Site,     \* what each source holds: lines of fields; and whether it is remote
    BodyLimit,\* how many fields are read of a remote source, for its 10 MiB
    Answers   \* what Onionoo may answer: lists of addresses

ASSUME FlagsAssumption ==
    /\ Flags \subseteq [refresh : BOOLEAN, limit : Nat, unprotected : BOOLEAN,
                        targets : Seq(STRING)]
    /\ Flags # {}
ASSUME SourcesAssumption ==
    /\ \A source \in DOMAIN Site :
          Site[source] \in [remote : BOOLEAN, lines : Seq(Seq(Field))]
    /\ BodyLimit \in Nat
    /\ \A doc \in Documents : ToSet(LoadSources(doc)) \subseteq DOMAIN Site
ASSUME AnswersAssumption == Answers \subseteq Seq(Entry)

VARIABLES
    tool,            \* the invocations
    generatedEnv,    \* generated_env.go: the text it embeds
    generatedHosts,  \* generated_hosts.go: the redirects it embeds
    dist             \* the binaries, by target and protection

buildVars == <<tool, generatedEnv, generatedHosts, dist>>

\* text is what was read of env.json, or is to be written; rest the sources to
\* fetch, then the targets to build; lines the redirects so far; open whether the
\* file it has opened for writing is still env.json.  For the properties:
\* overtaken, a user saved env.json between its reading and its writing; crossed,
\* another invocation ran at the same time; fresh, no save and no other
\* invocation since it began.
Stage == {"idle", "read", "fetch", "truncate", "write", "embed", "generate",
          "sources", "fetchBlock", "generateHosts", "build", "done", "failed"}
Active(t) == tool[t].stage \notin {"idle", "done", "failed"}
AtStage(t, stage) == tool[t].stage = stage

Missing == [env |-> NoDocument, hosts |-> <<>>, built |-> FALSE]

BuildInit ==
    /\ tool = [t \in Tool |->
                 [stage |-> "idle", flags |-> CHOOSE f \in Flags : TRUE,
                  text |-> NoDocument, rest |-> <<>>, lines |-> <<>>,
                  open |-> FALSE, overtaken |-> FALSE, crossed |-> FALSE,
                  fresh |-> TRUE]]
    /\ generatedEnv = NoDocument
    /\ generatedHosts = <<>>
    /\ dist = [binary \in (UNION {ToSet(f.targets) : f \in Flags}) \X BOOLEAN |-> Missing]

Goto(t, stage) == tool' = [tool EXCEPT ![t].stage = stage]

Invoke(t, flags) ==
    /\ AtStage(t, "idle")
    /\ Spend("run")
    /\ LET others == \E u \in Tool : Active(u)
       IN tool' = [u \in Tool |->
            IF u = t THEN [tool[u] EXCEPT !.stage = "read", !.flags = flags,
                             !.crossed = @ \/ others, !.fresh = ~others]
            ELSE [tool[u] EXCEPT !.crossed = @ \/ Active(u), !.fresh = FALSE]]
    /\ UNCHANGED <<env, saved, editing, watched, events, missed>>
    /\ UNCHANGED <<generatedEnv, generatedHosts, dist>>

-----------------------------------------------------------------------------
(* normalizeConfigTorIPs.                                                  *)

WithTorIPs(doc, list, limit) ==
    [doc EXCEPT !.torEntryIPs = NormalizeIPList(list, limit),
                !.misfits = @ \ {"torEntryIPs"}]

ReadConfig(t) ==
    /\ AtStage(t, "read")
    /\ tool' = [tool EXCEPT ![t] =
         IF env = NoDocument THEN [@ EXCEPT !.stage = "failed"]
         ELSE [@ EXCEPT !.stage = IF tool[t].flags.refresh THEN "fetch" ELSE "truncate",
                 !.text = WithTorIPs(env, env.torEntryIPs, tool[t].flags.limit)]]
    /\ UNCHANGED <<fileVars, generatedEnv, generatedHosts, dist>>

\* The request takes up to 30 seconds; env.json is not read again.
FetchTorGuardIPs(t) ==
    /\ AtStage(t, "fetch")
    /\ \E answer \in Answers :
          LET limit == tool[t].flags.limit
          IN tool' = [tool EXCEPT ![t].stage = "truncate",
               ![t].text = WithTorIPs(@, NormalizeIPList(answer, limit), limit)]
    /\ UNCHANGED <<fileVars, generatedEnv, generatedHosts, dist>>

\* os.WriteFile truncates, and writes.
TruncateConfig(t) ==
    /\ AtStage(t, "truncate")
    /\ tool' = [tool EXCEPT ![t].stage = "write", ![t].open = TRUE]
    /\ Change(NoDocument, <<EnvWritten>>)
    /\ UNCHANGED <<saved, editing, spent, generatedEnv, generatedHosts, dist>>

\* Mutant of Written: the other keys pass through a struct that lacks one.
WrittenTyped(t) == [tool[t].text EXCEPT !.upstreamDNS = <<>>]

Written(t) == tool[t].text

\* A file that was replaced since it was opened is written in vain.
WriteConfig(t) ==
    /\ AtStage(t, "write")
    /\ tool' = [tool EXCEPT ![t].stage = "embed", ![t].open = FALSE]
    /\ IF tool[t].open THEN Fill(Written(t)) ELSE UNCHANGED <<env, watched, events, missed>>
    /\ UNCHANGED <<saved, editing, spent, generatedEnv, generatedHosts, dist>>

-----------------------------------------------------------------------------
(* main: the generated sources.                                            *)

\* The file is embedded as it is, even if it is no JSON just now.
ReadForEmbedding(t) ==
    /\ AtStage(t, "embed")
    /\ tool' = [tool EXCEPT ![t].stage = "generate", ![t].text = env]
    /\ UNCHANGED <<fileVars, generatedEnv, generatedHosts, dist>>

GenerateEnv(t) ==
    /\ AtStage(t, "generate")
    /\ Goto(t, "sources")
    /\ generatedEnv' = tool[t].text
    /\ UNCHANGED <<fileVars, generatedHosts, dist>>

\* The sources are those of env.json, read once more; none is no error.
ReadSources(t) ==
    /\ AtStage(t, "sources")
    /\ tool' = [tool EXCEPT ![t] =
         IF ~SourcesLoad(env) THEN [@ EXCEPT !.stage = "failed"]
         ELSE LET sources == LoadSources(env)
              IN [@ EXCEPT !.rest = sources, !.lines = <<>>,
                    !.stage = IF sources = <<>> THEN "generateHosts" ELSE "fetchBlock"]]
    /\ UNCHANGED <<fileVars, generatedEnv, generatedHosts, dist>>

\* How many fields the first n lines hold.
Size(lines, n) == Cardinality(UNION {{k} \X DOMAIN lines[k] : k \in 1..n})

\* What is left of line k when the body is read no further than BodyLimit: nothing
\* if it is beyond, and if the end falls into it, its fields before the end and the
\* first characters of the one the end falls into, which mostly are a host.
Stub(field) == IF field.kind = "comment" THEN field
               ELSE [kind |-> "host", text |-> "stub"]
LimitedLine(lines, k) ==
    LET left == BodyLimit - Size(lines, k - 1)
    IN IF Size(lines, k) <= BodyLimit THEN lines[k]
       ELSE IF left < 0 THEN <<>>
       ELSE Append(SubSeq(lines[k], 1, left), Stub(lines[k][left + 1]))

\* The lines of a source as they are read: a file as a whole, what is remote
\* through io.LimitReader, without an error where it ends.
Fetched(source) ==
    LET lines == Site[source].lines
    IN [k \in DOMAIN lines |->
            IF Site[source].remote THEN LimitedLine(lines, k) ELSE lines[k]]

\* Mutant of Merge: only the duplicates within a source are dropped.
MergePerSource(lines, source) == lines \o ParseLines(Fetched(source))

\* FetchBlock appends what is new in a source.
Merge(lines, source) == Distinct(lines \o ParseLines(Fetched(source)), <<>>)

\* Sources without any redirect are an error.
FetchSource(t) ==
    /\ AtStage(t, "fetchBlock")
    /\ LET lines == Merge(tool[t].lines, Head(tool[t].rest))
           rest == Tail(tool[t].rest)
       IN tool' = [tool EXCEPT ![t] = [@ EXCEPT !.lines = lines, !.rest = rest,
            !.stage = IF rest # <<>> THEN "fetchBlock"
                      ELSE IF lines = <<>> THEN "failed" ELSE "generateHosts"]]
    /\ UNCHANGED <<fileVars, generatedEnv, generatedHosts, dist>>

GenerateHosts(t) ==
    /\ AtStage(t, "generateHosts")
    /\ LET targets == tool[t].flags.targets
       IN tool' = [tool EXCEPT ![t] = [@ EXCEPT !.rest = targets,
                     !.stage = IF targets = <<>> THEN "done" ELSE "build"]]
    /\ generatedHosts' = tool[t].lines
    /\ UNCHANGED <<fileVars, generatedEnv, dist>>

\* go build compiles what the generated sources hold by then.
BuildTarget(t) ==
    /\ AtStage(t, "build")
    /\ LET rest == Tail(tool[t].rest)
       IN tool' = [tool EXCEPT ![t] = [@ EXCEPT !.rest = rest,
                     !.stage = IF rest = <<>> THEN "done" ELSE "build"]]
    /\ dist' = [dist EXCEPT ![<<Head(tool[t].rest), tool[t].flags.unprotected>>] =
                  [env |-> generatedEnv, hosts |-> generatedHosts, built |-> TRUE]]
    /\ UNCHANGED <<fileVars, generatedEnv, generatedHosts>>

\* A step of an invocation fails, which ends it; or it is killed.
Aborted(t) ==
    /\ Active(t)
    /\ Spend("fault")
    /\ Goto(t, "failed")
    /\ UNCHANGED <<env, saved, editing, watched, events, missed>>
    /\ UNCHANGED <<generatedEnv, generatedHosts, dist>>

ToolStep(t) ==
    \/ ReadConfig(t) \/ FetchTorGuardIPs(t) \/ TruncateConfig(t) \/ WriteConfig(t)
    \/ ReadForEmbedding(t) \/ GenerateEnv(t) \/ ReadSources(t) \/ FetchSource(t)
    \/ GenerateHosts(t) \/ BuildTarget(t) \/ Aborted(t)

\* What a save of env.json means to the invocations.
Overtake(replaced) ==
    /\ tool' = [t \in Tool |-> [tool[t] EXCEPT
                  !.fresh = FALSE, !.open = @ /\ ~replaced,
                  !.overtaken = @ \/ tool[t].stage \in {"fetch", "truncate", "write"}]]
    /\ UNCHANGED <<generatedEnv, generatedHosts, dist>>
=============================================================================
