---------------------------- MODULE Configuration ----------------------------
(***************************************************************************)
(* env.json with everybody who uses it: the editor of its user, the build  *)
(* tool, and a loader that watches it.                                     *)
(***************************************************************************)
EXTENDS BuildTool, ConfigLoader

vars == <<fileVars, buildVars, loader>>

Init == FileInit /\ BuildInit /\ LoaderInit

UserStep ==
    \/ \E doc \in Documents : SaveByRename(doc) /\ Overtake(TRUE)
    \/ (WriteInPlace \/ \E doc \in Documents : TruncateInPlace(doc)) /\ Overtake(FALSE)
    \/ ChangeOther /\ UNCHANGED buildVars
    \/ \E t \in Tool, flags \in Flags : Invoke(t, flags)

Next ==
    \/ UserStep /\ UNCHANGED loader
    \/ (\E t \in Tool : ToolStep(t)) /\ UNCHANGED loader
    \/ LoaderStep /\ UNCHANGED buildVars

Spec == Init /\ [][Next]_vars

-----------------------------------------------------------------------------
(* What env.json, the binaries and the loaded configuration have in common.*)

\* The type invariant; only an invocation that writes has env.json open, and the
\* directory is watched exactly while Watch runs.
TypeOK ==
    /\ FileTypeOK
    /\ \A t \in Tool :
         /\ tool[t].stage \in Stage
         /\ tool[t].flags \in Flags
         /\ tool[t].text \in {NoDocument} \union Document
         /\ tool[t].stage \in {"fetch", "truncate", "write"} => tool[t].text # NoDocument
         /\ tool[t].open => tool[t].stage \in {"write", "failed"}
    /\ generatedEnv \in {NoDocument} \union Document
    /\ loader.phase \in LoaderPhase
    /\ watched <=> loader.phase \in {"waiting", "reload", "parse", "notify"}
    /\ {loader.cfg, loader.told} \subseteq {NoDocument} \union Document

\* The build tool rewrites the whole of env.json but keeps what the user saved,
\* all keys besides torEntryIPs, and leaves a file that can be read.  It does not
\* if the user saves the file while an invocation is between reading and writing
\* it, if two invocations run at once, or if one is killed between truncating
\* and writing it (normalizeConfigTorIPs, os.WriteFile).
SettingsKept ==
    \/ \E t \in Tool : tool[t].overtaken \/ tool[t].crossed
    \/ IF env = NoDocument
         THEN \/ editing # NoDocument
              \/ spent["fault"] > 0
              \/ \E t \in Tool : tool[t].stage = "write"
         ELSE Settings(env) = Settings(saved)

NoDuplicates(list) == \A i, j \in DOMAIN list : list[i] = list[j] => i = j

\* The redirects of the sources of a document, and those FetchBlock finds in what
\* it reads of them.
Listed(doc) ==
    UNION {ToSet(ParseLines(Site[source].lines)) : source \in ToSet(LoadSources(doc))}
Redirects(doc) ==
    UNION {ToSet(ParseLines(Fetched(source))) : source \in ToSet(LoadSources(doc))}
ReadWhole(source) ==
    Site[source].remote =>
        \A k \in DOMAIN Site[source].lines : Size(Site[source].lines, k) <= BodyLimit

\* An invocation that succeeds with nobody else at work leaves binaries, all the
\* targets asked for, that embed env.json as it is and, once, every redirect of what
\* is read of every source it names; a source that fails is no reason to leave it
\* out.  That is every redirect of every source only if no remote source is longer
\* than 10 MiB: what such a source has beyond them is left out without a word, and
\* the line the end falls into is embedded as far as it was read (FetchBlock).
BinariesMatch ==
    \A t \in Tool : tool[t].stage = "done" /\ tool[t].fresh =>
        \A target \in ToSet(tool[t].flags.targets) :
            LET binary == dist[<<target, tool[t].flags.unprotected>>]
            IN /\ binary.env = env
               /\ NoDuplicates(binary.hosts)
               /\ ToSet(binary.hosts) = Redirects(env)
               /\ (\A source \in ToSet(LoadSources(env)) : ReadWhole(source))
                    => ToSet(binary.hosts) = Listed(env)

\* README's flags: "max number of unique IP entries kept in torEntryIPs (default 0,
\* unlimited)".  What an invocation leaves there is a list of strings, whatever it
\* was, all of them addresses without ports, each once, no more than the limit.  If
\* that invocation alone has kept the list of the user, they are addresses of the
\* user, all if there is no limit or it is not exceeded, else as many as it allows.
TorListKept ==
    \A t \in Tool :
        LET list == env.torEntryIPs
            limit == tool[t].flags.limit
            given == {e.ip : e \in ToSet(saved.torEntryIPs)} \ {""}
            kept == /\ ~tool[t].flags.refresh
                    /\ \A u \in Tool \ {t} : tool[u].stage = "idle"
        IN tool[t].stage = "done" /\ tool[t].fresh =>
             /\ "torEntryIPs" \notin env.misfits
             /\ NoDuplicates(list)
             /\ \A e \in ToSet(list) : e.form = "plain" /\ e.ip # ""
             /\ limit > 0 => Len(list) <= limit
             /\ kept => /\ {e.ip : e \in ToSet(list)} \subseteq given
                        /\ Len(list) = IF limit \in 1..Cardinality(given)
                                         THEN limit ELSE Cardinality(given)

\* What a binary enforces, whatever the build tool let pass: the addresses of DNS
\* if the program can load the document and that key is not empty; the defaults if
\* the program refuses the document, so that a value of a wrong type in any of its
\* keys takes the user's servers away though the build succeeded, or if all three
\* keys are empty; and never nothing, unless the first key that is not empty names
\* no IP address: upstreamDNS may hold URLs, for which there is no default
\* (LoadFromBytes, normalizeEnvConfig, runApplication).
ServersEnforced ==
    \A binary \in {dist[b] : b \in DOMAIN dist} :
        LET doc == binary.env
            servers == ToSet(EnforcedServers(doc))
            own == {e.ip : e \in ToSet(doc.DNS)} \ {""}
        IN binary.built =>
            /\ ~Loads(doc) => servers = ToSet(DefaultDNS)
            /\ Loads(doc) =>
                 /\ doc.DNS # <<>> => servers = own
                 /\ doc.DNS \o doc.dns \o doc.upstreamDNS = <<>>
                      => servers = ToSet(DefaultDNS)
                 /\ servers # {} \/ \A e \in ToSet(ChosenDNS(doc)) : e.ip = ""

\* A loader that is waiting, with no notification of env.json left, has loaded
\* the file as it is and told onChange so, however it was saved and whoever saved
\* it; not if it changed before the watch began, or while the queue was full of
\* other files' events, or LoadFromBytes refuses it (NewLoader, Watch).
LoaderCurrent ==
    loader.phase = "waiting" /\ ~Pending(events) /\ ~missed /\ Loads(env) =>
        /\ loader.cfg = LoadFromBytes(env)
        /\ loader.told \in {NoDocument, loader.cfg}
=============================================================================
