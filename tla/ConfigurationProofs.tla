------------------------ MODULE ConfigurationProofs ------------------------
(***************************************************************************)
(* Theorems about env.json, for all documents, flags, sources and answers, *)
(* any number of invocations and any length of the queue.                  *)
(*                                                                         *)
(* CurrentLoader: what the loader has while it handles a notification is   *)
(* what it would read now, or a notification is left, or one was missed.   *)
(* UserSettings: the tool carries the settings of the user from reading    *)
(* env.json to writing it, while nobody else touches the file.             *)
(* Typed, Servers: every copy of env.json anybody has is a document, and   *)
(* what a document's lists come to is known without regard to their order. *)
(* TorList, BuiltAsConfigured: an invocation that nobody disturbs knows at *)
(* each stage how what it has relates to env.json.                         *)
(***************************************************************************)
EXTENDS Configuration, SequenceTheorems, FiniteSetTheorems, WellFoundedInduction,
        TLAPS

-----------------------------------------------------------------------------
(* The queue of notifications.                                             *)

QueueTyped ==
    /\ events \in Seq(Event) /\ Len(events) <= QueueSize
    /\ watched \in BOOLEAN /\ missed \in BOOLEAN

LEMMA EventTypes ==
    /\ <<EnvWritten>> \in Seq(Event) /\ <<OtherCreated>> \in Seq(Event)
    /\ <<OtherCreated, EnvCreated>> \in Seq(Event)
  BY DEF Event, EnvWritten, EnvCreated, OtherCreated

LEMMA Prefix ==
  ASSUME NEW S, NEW s, NEW n \in Nat \ {0}, \A i \in 1..n : s[i] \in S
  PROVE  /\ SubSeq(s, 1, n) \in Seq(S)
         /\ Len(SubSeq(s, 1, n)) = n
         /\ \A i \in 1..n : SubSeq(s, 1, n)[i] = s[i]
  BY SubSeqProperties

\* A queue that takes up new notifications keeps to its size, and keeps those it
\* has.
LEMMA QueueKeeps ==
  ASSUME QueueTyped, NEW new \in Seq(Event)
  PROVE  /\ Queued(new) \in Seq(Event) /\ Len(Queued(new)) <= QueueSize
         /\ Pending(events) => Pending(Queued(new))
<1> DEFINE all == events \o new
<1>1. /\ all \in Seq(Event) /\ Len(events) \in Nat /\ Len(all) \in Nat
      /\ Len(events) <= Len(all)
      /\ \A i \in 1..Len(events) : all[i] = events[i]
  BY ConcatProperties, LenProperties DEF QueueTyped
<1>2. CASE ~watched
  BY <1>2 DEF QueueTyped, Queued
<1>3. CASE watched /\ Len(all) > QueueSize
  <2>1. Queued(new) = SubSeq(all, 1, QueueSize)
    BY <1>3, QueueAssumption DEF Queued, FirstOf
  <2>2. \A i \in 1..QueueSize : all[i] \in Event
    BY <1>1, <1>3, QueueAssumption, ElementOfSeq
  <2>3. /\ SubSeq(all, 1, QueueSize) \in Seq(Event)
        /\ Len(SubSeq(all, 1, QueueSize)) = QueueSize
        /\ \A i \in 1..QueueSize : SubSeq(all, 1, QueueSize)[i] = all[i]
    BY <2>2, QueueAssumption, Prefix
  <2>4. ASSUME Pending(events) PROVE Pending(Queued(new))
    <3>1. PICK i \in DOMAIN events : Relevant(events[i])
      BY <2>4 DEF Pending
    <3>2. i \in 1..Len(events) /\ i \in 1..QueueSize
      BY <3>1, <1>1, QueueAssumption, LenProperties DEF QueueTyped
    <3>3. Queued(new)[i] = events[i] /\ i \in DOMAIN Queued(new)
      BY <3>2, <2>1, <2>3, <1>1, LenProperties
    <3>4. QED
      BY <3>1, <3>3 DEF Pending
  <2>5. QED
    <3>1. Len(Queued(new)) = QueueSize /\ QueueSize <= QueueSize
      BY <2>1, <2>3, QueueAssumption
    <3>2. QED
      BY <2>1, <2>3, <2>4, <3>1
<1>4. CASE watched /\ Len(all) <= QueueSize
  <2>1. Queued(new) = all
    BY <1>1, <1>4, QueueAssumption DEF Queued, FirstOf
  <2>2. ASSUME Pending(events) PROVE Pending(Queued(new))
    <3>1. PICK i \in DOMAIN events : Relevant(events[i])
      BY <2>2 DEF Pending
    <3>2. i \in 1..Len(events)
      BY <3>1, LenProperties DEF QueueTyped
    <3>3. all[i] = events[i] /\ i \in DOMAIN all
      BY <3>2, <1>1, LenProperties
    <3>4. QED
      BY <3>1, <3>3, <2>1 DEF Pending
  <2>3. QED
    BY <1>1, <1>4, <2>1, <2>2
<1>5. QED
  BY <1>1, <1>2, <1>3, <1>4, QueueAssumption DEF QueueTyped

\* What a step of anybody but the loader does to the file and to the queue:
\* nothing, or the file changes, or a notification of another file comes.
FileStep ==
    \/ UNCHANGED <<env, watched, events, missed>>
    \/ \E new \in Seq(Event) : Change(env', new)
    \/ ChangeOther

LEMMA ChangedText ==
  ASSUME NEW text, NEW new \in Seq(Event), Change(text, new)
  PROVE  FileStep
<1>1. env' = text
  BY DEF Change
<1>2. Change(env', new)
  BY <1>1 DEF Change
<1>3. QED
  BY <1>2 DEF FileStep

LEMMA Filled ==
  ASSUME NEW text, Fill(text)
  PROVE  FileStep
<1>1. PICK result : Change(result, <<EnvWritten>>)
  BY DEF Fill
<1>2. QED
  BY <1>1, ChangedText, EventTypes

LEMMA OthersStep ==
  ASSUME UserStep \/ \E t \in Tool : ToolStep(t)
  PROVE  FileStep
<1>1. ASSUME NEW doc \in Documents, SaveByRename(doc) PROVE FileStep
  BY <1>1, ChangedText, EventTypes DEF SaveByRename
<1>2. ASSUME NEW doc \in Documents, TruncateInPlace(doc) PROVE FileStep
  BY <1>2, ChangedText, EventTypes DEF TruncateInPlace
<1>3. CASE WriteInPlace
  BY <1>3, Filled DEF WriteInPlace
<1>4. CASE ChangeOther
  BY <1>4 DEF FileStep
<1>5. ASSUME NEW t \in Tool, NEW flags \in Flags, Invoke(t, flags) PROVE FileStep
  BY <1>5 DEF Invoke, FileStep
<1>6. ASSUME NEW t \in Tool, ToolStep(t) PROVE FileStep
  <2>1. CASE TruncateConfig(t)
    BY <2>1, ChangedText, EventTypes DEF TruncateConfig
  <2>2. CASE WriteConfig(t)
    <3>1. CASE tool[t].open
      BY <2>2, <3>1, Filled DEF WriteConfig
    <3>2. CASE ~tool[t].open
      BY <2>2, <3>2 DEF WriteConfig, FileStep
    <3>3. QED
      BY <3>1, <3>2
  <2>3. CASE ~TruncateConfig(t) /\ ~WriteConfig(t)
    BY <1>6, <2>3 DEF ToolStep, ReadConfig, FetchTorGuardIPs, ReadForEmbedding,
       GenerateEnv, ReadSources, FetchSource, GenerateHosts, BuildTarget, Aborted,
       fileVars, FileStep
  <2>4. QED
    BY <2>1, <2>2, <2>3
<1>7. QED
  BY <1>1, <1>2, <1>3, <1>4, <1>5, <1>6 DEF UserStep

-----------------------------------------------------------------------------
(* The loader.                                                             *)

\* Nothing tells the loader of a change, and none went by untold.
Quiet == ~missed /\ ~Pending(events)

\* What makes LoaderCurrent inductive: the configuration is that of the file also
\* before the watch begins and before onChange is called, and reload holds the
\* text of the file.
LoaderInv ==
    /\ QueueTyped
    /\ loader = [phase |-> loader.phase, cfg |-> loader.cfg,
                 told |-> loader.told, text |-> loader.text]
    /\ loader.phase \in LoaderPhase
    /\ watched <=> loader.phase \in {"waiting", "reload", "parse", "notify"}
    /\ ~watched => events = <<>>
    /\ loader.phase # "notify" => loader.told \in {NoDocument, loader.cfg}
    /\ loader.phase = "parse" /\ Quiet => loader.text = env
    /\ loader.phase \in {"loaded", "waiting", "notify"} /\ Quiet /\ Loads(env)
         => loader.cfg = LoadFromBytes(env)
    /\ loader.phase = "off" => loader.cfg = NoDocument /\ loader.told = NoDocument

LEMMA NotificationSkipped ==
  ASSUME events \in Seq(Event), events # <<>>, Pending(events),
         ~Relevant(Head(events))
  PROVE  Pending(Tail(events))
<1>1. PICK i \in DOMAIN events : Relevant(events[i])
  BY DEF Pending
<1>2. i \in 1..Len(events) /\ i # 1 /\ Len(events) \in Nat
  BY <1>1, LenProperties
<1>3. i - 1 \in DOMAIN Tail(events) /\ Tail(events)[i - 1] = events[i]
  BY <1>2, HeadTailProperties, LenProperties
<1>4. QED
  BY <1>1, <1>3 DEF Pending

\* A change of the file is told, or known to be missed.
LEMMA ChangeNoticed ==
  ASSUME LoaderInv, FileStep, UNCHANGED loader
  PROVE  LoaderInv'
<1>1. CASE UNCHANGED <<env, watched, events, missed>>
  BY <1>1 DEF LoaderInv, QueueTyped, Quiet, Pending, LoaderPhase
<1>2. ASSUME NEW new \in Seq(Event), Change(env', new) PROVE LoaderInv'
  <2>1. events' = Queued(new) /\ watched' = watched
    BY <1>2 DEF Change
  <2>2. /\ missed' \in BOOLEAN
        /\ missed' <=> (missed \/ ~watched \/ ~Pending(events'))
    BY <1>2 DEF Change
  <2>3. ~Quiet'
    BY <2>2 DEF Quiet
  <2>4. QueueTyped'
    BY <2>1, <2>2, QueueKeeps DEF LoaderInv, QueueTyped
  <2>5. ~watched => events' = <<>>
    BY <2>1 DEF LoaderInv, Queued
  <2>6. QED
    BY <2>1, <2>3, <2>4, <2>5 DEF LoaderInv
<1>3. CASE ChangeOther
  <2>1. /\ events' = Queued(<<OtherCreated>>) /\ watched
        /\ UNCHANGED <<env, watched, missed>>
    BY <1>3 DEF ChangeOther
  <2>2. QueueTyped' /\ (Quiet' => Quiet)
    BY <2>1, QueueKeeps, EventTypes DEF LoaderInv, QueueTyped, Quiet
  <2>3. QED
    BY <2>1, <2>2 DEF LoaderInv
<1>4. QED
  BY <1>1, <1>2, <1>3 DEF FileStep

LEMMA LoaderStepKeeps ==
  ASSUME LoaderInv, LoaderStep
  PROVE  LoaderInv'
<1>1. CASE NewLoader
  <2>1. watched = FALSE /\ events = <<>> /\ missed' = FALSE
    BY <1>1 DEF NewLoader, LoaderInv, QueueTyped
  <2>2. UNCHANGED <<env, watched, events>>
    BY <1>1 DEF NewLoader
  <2>3. CASE ~Loads(env)
    BY <1>1, <2>1, <2>2, <2>3 DEF NewLoader, LoaderInv, QueueTyped, Quiet, LoaderPhase
  <2>4. CASE Loads(env)
    BY <1>1, <2>1, <2>2, <2>4 DEF NewLoader, LoaderInv, QueueTyped, Quiet, LoaderPhase
  <2>5. QED
    BY <2>3, <2>4
<1>2. CASE AddWatch
  <2>1. /\ loader.phase = "loaded" /\ ~watched
        /\ UNCHANGED <<env, events, missed>>
    BY <1>2 DEF AddWatch, LoaderInv
  <2>2. CASE loader' = [loader EXCEPT !.phase = "waiting"] /\ watched' = TRUE
    BY <2>1, <2>2 DEF LoaderInv, QueueTyped, Quiet, Pending, LoaderPhase
  <2>3. CASE loader' = [loader EXCEPT !.phase = "ended"] /\ UNCHANGED watched
    BY <2>1, <2>3 DEF LoaderInv, QueueTyped, Quiet, Pending, LoaderPhase
  <2>4. QED
    BY <1>2, <2>2, <2>3 DEF AddWatch
<1>3. CASE NextEvent
  <2>1. /\ loader.phase = "waiting" /\ events # <<>> /\ events' = Tail(events)
        /\ UNCHANGED <<env, watched, missed>>
    BY <1>3 DEF NextEvent
  <2>2. QueueTyped'
    <3>1. events' \in Seq(Event) /\ Len(events') = Len(events) - 1
      BY <2>1, HeadTailProperties DEF LoaderInv, QueueTyped
    <3>2. Len(events) \in Nat
      BY LenProperties DEF LoaderInv, QueueTyped
    <3>3. QED
      BY <2>1, <3>1, <3>2, QueueAssumption DEF LoaderInv, QueueTyped
  <2>3. CASE Reacts(Head(events))
    <3>1. loader' = [loader EXCEPT !.phase = "reload"]
      BY <1>3, <2>3 DEF NextEvent
    <3>2. QED
      BY <2>1, <2>2, <3>1 DEF LoaderInv, LoaderPhase
  <2>4. CASE ~Reacts(Head(events))
    <3>1. loader' = [loader EXCEPT !.phase = "waiting"]
      BY <1>3, <2>4 DEF NextEvent
    <3>2. Pending(events) => Pending(events')
      BY <2>1, <2>4, NotificationSkipped DEF LoaderInv, QueueTyped, Reacts
    <3>3. Quiet' => Quiet
      BY <2>1, <3>2 DEF Quiet
    <3>4. QED
      BY <2>1, <2>2, <3>1, <3>3 DEF LoaderInv, LoaderPhase
  <2>5. QED
    BY <2>3, <2>4
<1>4. CASE ReadFile
  BY <1>4 DEF ReadFile, LoaderInv, QueueTyped, LoaderPhase
<1>5. CASE Adopt
  <2>1. loader.phase = "parse" /\ UNCHANGED <<env, watched, events, missed>>
    BY <1>5 DEF Adopt, fileVars
  <2>2. Quiet' <=> Quiet
    BY <2>1 DEF Quiet, Pending
  <2>3. CASE ~Loads(loader.text)
    <3>1. loader' = [loader EXCEPT !.phase = "waiting"]
      BY <1>5, <2>3 DEF Adopt
    <3>2. QED
      BY <2>1, <2>2, <2>3, <3>1 DEF LoaderInv, QueueTyped, LoaderPhase
  <2>4. CASE Loads(loader.text)
    <3>1. loader' = [loader EXCEPT !.phase = "notify", !.text = NoDocument,
                       !.cfg = LoadFromBytes(loader.text)]
      BY <1>5, <2>4 DEF Adopt
    <3>2. QED
      BY <2>1, <2>2, <3>1 DEF LoaderInv, QueueTyped, LoaderPhase
  <2>5. QED
    BY <2>3, <2>4
<1>6. CASE Notify
  <2>1. /\ loader.phase = "notify" /\ UNCHANGED <<env, watched, events, missed>>
        /\ loader' = [loader EXCEPT !.phase = "waiting", !.told = loader.cfg]
    BY <1>6 DEF Notify, fileVars
  <2>2. Quiet' <=> Quiet
    BY <2>1 DEF Quiet, Pending
  <2>3. QED
    BY <2>1, <2>2 DEF LoaderInv, QueueTyped, LoaderPhase
<1>7. CASE CancelWatch
  <2>1. <<>> \in Seq(Event) /\ Len(<<>>) <= QueueSize
    BY EmptySeq, QueueAssumption
  <2>2. QED
    BY <1>7, <2>1 DEF CancelWatch, LoaderInv, QueueTyped, LoaderPhase
<1>8. QED
  BY <1>1, <1>2, <1>3, <1>4, <1>5, <1>6, <1>7 DEF LoaderStep

LEMMA LoaderInvAlways == Spec => []LoaderInv
<1>1. Init => LoaderInv
  <2>1. <<>> \in Seq(Event) /\ Len(<<>>) <= QueueSize
    BY EmptySeq, QueueAssumption
  <2> SUFFICES ASSUME Init PROVE LoaderInv
    OBVIOUS
  <2>2. watched = FALSE /\ events = <<>> /\ missed = FALSE
    BY DEF Init, FileInit
  <2>3. loader = [phase |-> "off", cfg |-> NoDocument, told |-> NoDocument,
                  text |-> NoDocument]
    BY DEF Init, LoaderInit
  <2>4. QueueTyped
    BY <2>1, <2>2 DEF QueueTyped
  <2>5. QED
    BY <2>2, <2>3, <2>4 DEF LoaderInv, LoaderPhase
<1>2. LoaderInv /\ [Next]_vars => LoaderInv'
  <2> SUFFICES ASSUME LoaderInv, [Next]_vars PROVE LoaderInv'
    OBVIOUS
  <2>1. CASE LoaderStep
    BY <2>1, LoaderStepKeeps
  <2>2. CASE (UserStep \/ \E t \in Tool : ToolStep(t)) /\ UNCHANGED loader
    BY <2>2, OthersStep, ChangeNoticed
  <2>3. CASE UNCHANGED vars
    BY <2>3, ChangeNoticed DEF vars, fileVars, FileStep
  <2>4. QED
    BY <2>1, <2>2, <2>3 DEF Next
<1>3. QED
  BY <1>1, <1>2, PTL DEF Spec

\* Watch, reload: a loader that is waiting for notifications, with none of
\* env.json left and none missed, has loaded the file as it is and told onChange
\* so, for all documents, any length of the queue and any number of changes.
THEOREM CurrentLoader == Spec => []LoaderCurrent
<1>1. LoaderInv => LoaderCurrent
  BY DEF LoaderInv, LoaderCurrent, Quiet
<1>2. QED
  BY <1>1, LoaderInvAlways, PTL

-----------------------------------------------------------------------------
(* The build tool.                                                         *)

Undisturbed == \A t \in Tool : ~tool[t].overtaken /\ ~tool[t].crossed

\* Invocation t has read env.json and not yet written it.
Carries(t) == tool[t].stage \in {"fetch", "truncate", "write"}

Keys == {"sourceList", "sources", "files", "DNS", "dns", "upstreamDNS",
         "blockAddress", "torEntryIPs", "misfits"}
IsText(text) == DOMAIN text = Keys

\* What the steps of the tool rely on, disturbed or not.
Shape ==
    /\ tool = [t \in Tool |-> tool[t]]
    /\ \A t \in Tool : DOMAIN tool[t] = {"stage", "flags", "text", "rest", "lines",
                                     "open", "overtaken", "crossed", "fresh"}
    /\ saved \in Documents /\ editing \in Documents \union {NoDocument}
    /\ spent \in [EnvEvent -> Nat]

\* What makes SettingsKept inductive: an invocation that has read env.json has the
\* user's settings, and nobody else is writing the file; while it writes, the file
\* it has opened is env.json, and empty.
OneActive == \A t, u \in Tool : Active(t) /\ Active(u) => t = u
SettingsCarried ==
    \A t \in Tool : Carries(t) =>
        /\ editing = NoDocument
        /\ IsText(tool[t].text) /\ Settings(tool[t].text) = Settings(saved)
WritesWhereOpened ==
    \A t \in Tool : AtStage(t, "write") => env = NoDocument /\ tool[t].open
FileSound ==
    /\ editing # NoDocument => env = NoDocument
    /\ env # NoDocument => IsText(env) /\ Settings(env) = Settings(saved)
    /\ env = NoDocument => \/ editing # NoDocument
                           \/ spent["fault"] > 0
                           \/ \E t \in Tool : AtStage(t, "write")
Kept == OneActive /\ SettingsCarried /\ WritesWhereOpened /\ FileSound
SettingsInv == Shape /\ (Undisturbed => Kept)

LEMMA DocumentsAreTexts ==
    /\ \A doc \in Documents : IsText(doc)
    /\ \A text : IsText(text) => text # NoDocument
<1>1. \A doc \in Documents : IsText(doc)
  BY DocumentsAssumption DEF Document, IsText, Keys
<1>2. ~IsText(NoDocument)
  BY DEF IsText, NoDocument, Keys
<1>3. QED
  BY <1>1, <1>2

\* The tool changes no setting.
LEMMA TorIPsOnly ==
  ASSUME NEW doc, IsText(doc), NEW list, NEW limit
  PROVE  /\ Settings(WithTorIPs(doc, list, limit)) = Settings(doc)
         /\ IsText(WithTorIPs(doc, list, limit))
<1> DEFINE new == WithTorIPs(doc, list, limit)
<1>1. /\ DOMAIN new = DOMAIN doc /\ new.misfits = doc.misfits \ {"torEntryIPs"}
      /\ \A key \in DOMAIN doc \ {"torEntryIPs", "misfits"} : new[key] = doc[key]
  BY DEF WithTorIPs, IsText, Keys
<1>2. Settings(new) = Settings(doc)
  BY <1>1 DEF Settings
<1>3. QED
  BY <1>1, <1>2 DEF IsText

\* A step of invocation t leaves the others as they are, and records no
\* disturbance.
StepOf(t) ==
    /\ Active(t)
    /\ tool' = [u \in Tool |-> tool'[u]]
    /\ \A u \in Tool \ {t} : tool'[u] = tool[u]
    /\ DOMAIN tool'[t] = DOMAIN tool[t]
    /\ tool'[t].overtaken = tool[t].overtaken
    /\ tool'[t].crossed = tool[t].crossed

LEMMA StepsAreOwn ==
  ASSUME Shape, NEW t \in Tool, ToolStep(t)
  PROVE  StepOf(t)
<1> USE DEF Shape, StepOf, Active, AtStage
<1>1. CASE ReadConfig(t)
  BY <1>1 DEF ReadConfig
<1>2. CASE FetchTorGuardIPs(t)
  BY <1>2 DEF FetchTorGuardIPs
<1>3. CASE TruncateConfig(t)
  BY <1>3 DEF TruncateConfig
<1>4. CASE WriteConfig(t)
  BY <1>4 DEF WriteConfig
<1>5. CASE ReadForEmbedding(t)
  BY <1>5 DEF ReadForEmbedding
<1>6. CASE GenerateEnv(t)
  BY <1>6 DEF GenerateEnv, Goto
<1>7. CASE ReadSources(t)
  BY <1>7 DEF ReadSources
<1>8. CASE FetchSource(t)
  BY <1>8 DEF FetchSource
<1>9. CASE GenerateHosts(t)
  BY <1>9 DEF GenerateHosts
<1>10. CASE BuildTarget(t)
  BY <1>10 DEF BuildTarget
<1>11. CASE Aborted(t)
  BY <1>11 DEF Aborted, Goto
<1>12. QED
  BY <1>1, <1>2, <1>3, <1>4, <1>5, <1>6, <1>7, <1>8, <1>9, <1>10, <1>11
     DEF ToolStep

\* A step of an invocation that leaves the file alone, and neither carries the
\* settings afterwards nor was about to write them.
LEMMA BesideTheFile ==
  ASSUME Shape, Kept, NEW t \in Tool, StepOf(t),
         UNCHANGED <<env, saved, editing>>, spent'["fault"] >= spent["fault"],
         spent["fault"] \in Nat, spent'["fault"] \in Nat,
         ~Carries(t)',
         tool[t].stage # "write" \/ spent'["fault"] > 0
  PROVE  Kept'
<1>1. OneActive'
  BY DEF Kept, OneActive, StepOf, Active
<1>2. SettingsCarried'
  BY DEF Kept, SettingsCarried, StepOf, Carries
<1>3. WritesWhereOpened'
  BY DEF Kept, WritesWhereOpened, StepOf, Carries, AtStage
<1>4. FileSound'
  <2>1. ASSUME NEW u \in Tool, AtStage(u, "write")
        PROVE  AtStage(u, "write")' \/ spent'["fault"] > 0
    BY <2>1 DEF StepOf, AtStage
  <2>2. spent["fault"] > 0 => spent'["fault"] > 0
    OBVIOUS
  <2>3. QED
    BY <2>1, <2>2 DEF Kept, FileSound
<1>5. QED
  BY <1>1, <1>2, <1>3, <1>4 DEF Kept

LEMMA FaultsCounted ==
  ASSUME Shape, NEW e \in EnvEvent, Spend(e)
  PROVE  /\ spent' \in [EnvEvent -> Nat]
         /\ spent["fault"] \in Nat /\ spent'["fault"] >= spent["fault"]
         /\ e = "fault" => spent'["fault"] > 0
  BY DEF Shape, Spend, EnvEvent

\* normalizeConfigTorIPs: env.json is read, and its list replaced; the request
\* may replace it once more.
LEMMA ReadConfigKeeps ==
  ASSUME Shape, Kept, NEW t \in Tool, ReadConfig(t)
  PROVE  Kept'
<1>1. StepOf(t) /\ UNCHANGED <<env, saved, editing, spent>>
  BY StepsAreOwn DEF ReadConfig, ToolStep, fileVars
<1>2. spent["fault"] \in Nat
  BY DEF Shape, EnvEvent
<1>3. CASE env = NoDocument
  <2>1. tool'[t].stage = "failed" /\ tool[t].stage = "read"
    BY <1>3 DEF ReadConfig, Shape, AtStage
  <2>2. QED
    BY <1>1, <1>2, <2>1, BesideTheFile DEF Carries
<1>4. CASE env # NoDocument
  <2>1. /\ tool'[t].text = WithTorIPs(env, env.torEntryIPs, tool[t].flags.limit)
        /\ tool'[t].stage \in {"fetch", "truncate"}
    BY <1>4 DEF ReadConfig, Shape
  <2>2. IsText(tool'[t].text) /\ Settings(tool'[t].text) = Settings(saved)
    BY <1>4, <2>1, TorIPsOnly DEF Kept, FileSound
  <2>3. editing = NoDocument
    BY <1>4 DEF Kept, FileSound
  <2>4. OneActive'
    BY <1>1, <2>1 DEF Kept, OneActive, StepOf, Active
  <2>5. SettingsCarried'
    BY <1>1, <2>2, <2>3 DEF Kept, SettingsCarried, StepOf, Carries
  <2>6. WritesWhereOpened'
    BY <1>1, <2>1 DEF Kept, WritesWhereOpened, StepOf, AtStage
  <2>7. FileSound'
    BY <1>1, <1>4 DEF Kept, FileSound
  <2>8. QED
    BY <2>4, <2>5, <2>6, <2>7 DEF Kept
<1>5. QED
  BY <1>3, <1>4

LEMMA FetchKeeps ==
  ASSUME Shape, Kept, NEW t \in Tool, FetchTorGuardIPs(t)
  PROVE  Kept'
<1>1. StepOf(t) /\ UNCHANGED <<env, saved, editing, spent>>
  BY StepsAreOwn DEF FetchTorGuardIPs, ToolStep, fileVars
<1>2. PICK answer \in Answers :
        LET limit == tool[t].flags.limit
        IN tool' = [tool EXCEPT ![t].stage = "truncate",
             ![t].text = WithTorIPs(@, NormalizeIPList(answer, limit), limit)]
  BY DEF FetchTorGuardIPs
<1> DEFINE limit == tool[t].flags.limit
<1>3. /\ tool'[t].stage = "truncate" /\ Carries(t)
      /\ tool'[t].text =
           WithTorIPs(tool[t].text, NormalizeIPList(answer, limit), limit)
  BY <1>2 DEF FetchTorGuardIPs, Shape, AtStage, Carries
<1>4. /\ editing = NoDocument
      /\ IsText(tool'[t].text) /\ Settings(tool'[t].text) = Settings(saved)
  BY <1>3, TorIPsOnly DEF Kept, SettingsCarried
<1>5. OneActive'
  BY <1>1, <1>3 DEF Kept, OneActive, StepOf, Active
<1>6. SettingsCarried'
  BY <1>1, <1>4 DEF Kept, SettingsCarried, StepOf, Carries
<1>7. WritesWhereOpened'
  BY <1>1, <1>3 DEF Kept, WritesWhereOpened, StepOf, AtStage
<1>8. FileSound'
  <2>1. ASSUME NEW u \in Tool, AtStage(u, "write") PROVE AtStage(u, "write")'
    BY <1>1, <2>1 DEF FetchTorGuardIPs, StepOf, AtStage
  <2>2. QED
    BY <1>1, <2>1 DEF Kept, FileSound
<1>9. QED
  BY <1>5, <1>6, <1>7, <1>8 DEF Kept

\* os.WriteFile: env.json is empty until it is written.
LEMMA TruncateKeeps ==
  ASSUME Shape, Kept, NEW t \in Tool, TruncateConfig(t)
  PROVE  Kept'
<1>1. StepOf(t) /\ UNCHANGED <<saved, editing, spent>>
  BY StepsAreOwn DEF TruncateConfig, ToolStep
<1>2. env' = NoDocument
  BY DEF TruncateConfig, Change
<1>3. /\ tool'[t].stage = "write" /\ tool'[t].open /\ tool'[t].text = tool[t].text
      /\ tool[t].stage = "truncate"
  BY DEF TruncateConfig, Shape, AtStage
<1>4. OneActive'
  BY <1>1, <1>3 DEF Kept, OneActive, StepOf, Active
<1>5. SettingsCarried'
  BY <1>1, <1>3 DEF Kept, SettingsCarried, StepOf, Carries
<1>6. WritesWhereOpened'
  BY <1>1, <1>2, <1>3 DEF Kept, WritesWhereOpened, StepOf, AtStage
<1>7. FileSound'
  BY <1>1, <1>2, <1>3 DEF Kept, FileSound, AtStage
<1>8. QED
  BY <1>4, <1>5, <1>6, <1>7 DEF Kept

LEMMA WriteKeeps ==
  ASSUME Shape, Kept, NEW t \in Tool, WriteConfig(t)
  PROVE  Kept'
<1>1. StepOf(t) /\ UNCHANGED <<saved, editing, spent>>
  BY StepsAreOwn DEF WriteConfig, ToolStep
<1>2. /\ tool[t].stage = "write" /\ tool[t].open /\ env = NoDocument
      /\ tool'[t].stage = "embed"
  BY DEF WriteConfig, Shape, AtStage, Kept, WritesWhereOpened
<1>3. env' = tool[t].text
  BY <1>2 DEF WriteConfig, Written, Fill, Change
<1>4. /\ editing = NoDocument
      /\ IsText(env') /\ Settings(env') = Settings(saved)
  BY <1>2, <1>3 DEF Kept, SettingsCarried, Carries
<1>5. OneActive'
  BY <1>1, <1>2 DEF Kept, OneActive, StepOf, Active
<1>6. SettingsCarried'
  BY <1>1, <1>2 DEF Kept, SettingsCarried, StepOf, Carries
<1>7. WritesWhereOpened'
  <2>1. \A u \in Tool : Active(u) => u = t
    BY <1>2 DEF Kept, OneActive, Active
  <2>2. ASSUME NEW u \in Tool PROVE ~AtStage(u, "write")'
    BY <1>1, <1>2, <2>1 DEF StepOf, AtStage, Active
  <2>3. QED
    BY <2>2 DEF WritesWhereOpened
<1>8. FileSound'
  BY <1>1, <1>4, DocumentsAreTexts DEF FileSound
<1>9. QED
  BY <1>5, <1>6, <1>7, <1>8 DEF Kept

\* Everything else an invocation does leaves env.json alone.
LEMMA ToolStepKeeps ==
  ASSUME SettingsInv, NEW t \in Tool, ToolStep(t)
  PROVE  SettingsInv'
<1>1. StepOf(t)
  BY StepsAreOwn DEF SettingsInv
<1>2. UNCHANGED <<saved, editing>>
  BY DEF ToolStep, ReadConfig, FetchTorGuardIPs, TruncateConfig, WriteConfig,
     ReadForEmbedding, GenerateEnv, ReadSources, FetchSource, GenerateHosts,
     BuildTarget, Aborted, fileVars
<1>3. CASE Aborted(t)
  <2>1. spent' \in [EnvEvent -> Nat] /\ "fault" \in EnvEvent
    BY <1>3, FaultsCounted DEF Aborted, EnvEvent, SettingsInv
  <2>2. /\ spent["fault"] \in Nat /\ spent'["fault"] \in Nat
        /\ spent'["fault"] >= spent["fault"] /\ spent'["fault"] > 0
    BY <1>3, <2>1, FaultsCounted DEF Aborted, SettingsInv
  <2>3. tool'[t].stage = "failed" /\ UNCHANGED env
    BY <1>3 DEF Aborted, Goto, SettingsInv, Shape
  <2>4. Kept => Kept'
    BY <1>1, <1>2, <2>2, <2>3, BesideTheFile DEF SettingsInv, Carries
  <2>5. QED
    BY <1>1, <1>2, <2>1, <2>4 DEF SettingsInv, Shape, StepOf, Undisturbed
<1>4. CASE ~Aborted(t)
  <2>1. UNCHANGED spent
    BY <1>4 DEF ToolStep, ReadConfig, FetchTorGuardIPs, TruncateConfig, WriteConfig,
       ReadForEmbedding, GenerateEnv, ReadSources, FetchSource, GenerateHosts,
       BuildTarget, fileVars
  <2>2. Kept => Kept'
    <3>1. CASE ReadConfig(t)
      BY <3>1, ReadConfigKeeps DEF SettingsInv
    <3>2. CASE FetchTorGuardIPs(t)
      BY <3>2, FetchKeeps DEF SettingsInv
    <3>3. CASE TruncateConfig(t)
      BY <3>3, TruncateKeeps DEF SettingsInv
    <3>4. CASE WriteConfig(t)
      BY <3>4, WriteKeeps DEF SettingsInv
    <3>5. CASE \/ ReadForEmbedding(t) \/ GenerateEnv(t) \/ ReadSources(t)
               \/ FetchSource(t) \/ GenerateHosts(t) \/ BuildTarget(t)
      <4>1. /\ UNCHANGED env
            /\ tool[t].stage # "write"
            /\ tool'[t].stage \in {"generate", "sources", "fetchBlock",
                                   "generateHosts", "build", "done", "failed"}
        BY <3>5 DEF ReadForEmbedding, GenerateEnv, ReadSources, FetchSource,
           GenerateHosts, BuildTarget, fileVars, Goto, AtStage, SettingsInv, Shape
      <4>2. spent["fault"] \in Nat /\ spent'["fault"] >= spent["fault"]
        BY <2>1 DEF SettingsInv, Shape, EnvEvent
      <4>3. QED
        BY <1>1, <1>2, <2>1, <4>1, <4>2, BesideTheFile DEF SettingsInv, Carries
    <3>6. QED
      BY <1>4, <3>1, <3>2, <3>3, <3>4, <3>5 DEF ToolStep
  <2>3. QED
    BY <1>1, <1>2, <2>1, <2>2 DEF SettingsInv, Shape, StepOf, Undisturbed
<1>5. QED
  BY <1>3, <1>4

\* A step that touches neither the file nor the invocations.
LEMMA FileUntouched ==
  ASSUME SettingsInv, UNCHANGED <<env, saved, editing, tool>>,
         spent' \in [EnvEvent -> Nat], spent["fault"] \in Nat,
         spent'["fault"] >= spent["fault"]
  PROVE  SettingsInv'
<1>1. Shape' /\ (Undisturbed' => Undisturbed)
  BY DEF SettingsInv, Shape, Undisturbed
<1>2. ASSUME Kept PROVE Kept'
  <2>1. OneActive' /\ SettingsCarried' /\ WritesWhereOpened'
    BY <1>2 DEF Kept, OneActive, SettingsCarried, WritesWhereOpened, Active, Carries,
       AtStage
  <2>2. spent["fault"] > 0 => spent'["fault"] > 0
    BY DEF EnvEvent
  <2>3. FileSound'
    BY <1>2, <2>2 DEF Kept, FileSound, AtStage
  <2>4. QED
    BY <2>1, <2>3 DEF Kept
<1>3. QED
  BY <1>1, <1>2 DEF SettingsInv

\* A save disturbs every invocation that carries the settings.
LEMMA SaveNoticed ==
  ASSUME Shape, NEW replaced \in BOOLEAN, Overtake(replaced)
  PROVE  /\ tool' = [t \in Tool |-> tool'[t]]
         /\ \A t \in Tool :
              /\ DOMAIN tool'[t] = DOMAIN tool[t]
              /\ tool'[t].stage = tool[t].stage
              /\ tool'[t].crossed = tool[t].crossed
              /\ tool'[t].overtaken <=> (tool[t].overtaken \/ Carries(t))
  BY DEF Shape, Overtake, Carries

\* A save while no invocation carries the settings.
LEMMA SaveKeeps ==
  ASSUME SettingsInv, NEW replaced \in BOOLEAN, Overtake(replaced),
         saved' \in Documents, editing' \in Documents \union {NoDocument},
         spent' \in [EnvEvent -> Nat],
         Kept /\ (\A t \in Tool : ~Carries(t)) => FileSound'
  PROVE  SettingsInv'
<1>1. /\ tool' = [t \in Tool |-> tool'[t]]
      /\ \A t \in Tool :
           /\ DOMAIN tool'[t] = DOMAIN tool[t]
           /\ tool'[t].stage = tool[t].stage
           /\ tool'[t].crossed = tool[t].crossed
           /\ tool'[t].overtaken <=> (tool[t].overtaken \/ Carries(t))
  BY SaveNoticed DEF SettingsInv
<1>2. Shape'
  BY <1>1 DEF SettingsInv, Shape
<1>3. ASSUME Undisturbed' PROVE Kept'
  <2>1. Undisturbed /\ \A t \in Tool : ~Carries(t)
    BY <1>1, <1>3 DEF Undisturbed
  <2>2. OneActive'
    BY <1>1, <2>1 DEF SettingsInv, Kept, OneActive, Active
  <2>3. SettingsCarried' /\ WritesWhereOpened'
    BY <1>1, <2>1 DEF SettingsCarried, WritesWhereOpened, Carries, AtStage
  <2>4. QED
    BY <2>1, <2>2, <2>3 DEF SettingsInv, Kept
<1>4. QED
  BY <1>2, <1>3 DEF SettingsInv

LEMMA UserStepKeeps ==
  ASSUME SettingsInv, UserStep
  PROVE  SettingsInv'
<1>1. ASSUME NEW doc \in Documents, SaveByRename(doc), Overtake(TRUE)
      PROVE  SettingsInv'
  <2>1. env' = doc /\ saved' = doc /\ editing = NoDocument /\ UNCHANGED editing
    BY <1>1 DEF SaveByRename, Change
  <2>2. spent' \in [EnvEvent -> Nat]
    BY <1>1, FaultsCounted DEF SaveByRename, SettingsInv, EnvEvent
  <2>3. FileSound'
    BY <2>1, DocumentsAreTexts DEF FileSound
  <2>4. QED
    BY <1>1, <2>1, <2>2, <2>3, SaveKeeps
<1>2. ASSUME NEW doc \in Documents, TruncateInPlace(doc), Overtake(FALSE)
      PROVE  SettingsInv'
  <2>1. env' = NoDocument /\ editing' = doc /\ UNCHANGED saved
    BY <1>2 DEF TruncateInPlace, Change
  <2>2. spent' \in [EnvEvent -> Nat]
    BY <1>2, FaultsCounted DEF TruncateInPlace, SettingsInv, EnvEvent
  <2>3. FileSound' /\ saved' \in Documents
    BY <2>1, DocumentsAreTexts DEF FileSound, SettingsInv, Shape
  <2>4. QED
    BY <1>2, <2>1, <2>2, <2>3, SaveKeeps
<1>3. ASSUME WriteInPlace, Overtake(FALSE) PROVE SettingsInv'
  <2>1. /\ editing \in Documents /\ saved' = editing /\ editing' = NoDocument
        /\ UNCHANGED spent
    BY <1>3 DEF WriteInPlace, SettingsInv, Shape
  <2>2. ASSUME Kept PROVE FileSound'
    <3>1. env = NoDocument
      BY <1>3, <2>2 DEF WriteInPlace, Kept, FileSound
    <3>2. env' = editing
      BY <1>3, <3>1 DEF WriteInPlace, Fill, Change
    <3>3. QED
      BY <2>1, <3>2, DocumentsAreTexts DEF FileSound
  <2>3. QED
    BY <1>3, <2>1, <2>2, SaveKeeps DEF SettingsInv, Shape
<1>4. ASSUME ChangeOther, UNCHANGED buildVars PROVE SettingsInv'
  <2>1. UNCHANGED <<env, saved, editing, tool>>
    BY <1>4 DEF ChangeOther, buildVars
  <2>2. /\ spent' \in [EnvEvent -> Nat] /\ spent["fault"] \in Nat
        /\ spent'["fault"] >= spent["fault"]
    BY <1>4, FaultsCounted DEF ChangeOther, SettingsInv, EnvEvent
  <2>3. QED
    BY <2>1, <2>2, FileUntouched
<1>5. ASSUME NEW t \in Tool, NEW flags \in Flags, Invoke(t, flags)
      PROVE  SettingsInv'
  <2> DEFINE others == \E u \in Tool : Active(u)
  <2>1. tool' = [u \in Tool |->
            IF u = t THEN [tool[u] EXCEPT !.stage = "read", !.flags = flags,
                             !.crossed = @ \/ others, !.fresh = ~others]
            ELSE [tool[u] EXCEPT !.crossed = @ \/ Active(u), !.fresh = FALSE]]
    BY <1>5 DEF Invoke
  <2>2. /\ UNCHANGED <<env, saved, editing>> /\ tool[t].stage = "idle"
        /\ spent' \in [EnvEvent -> Nat]
        /\ spent["fault"] \in Nat /\ spent'["fault"] >= spent["fault"]
        /\ spent'["fault"] \in Nat
    BY <1>5, FaultsCounted DEF Invoke, SettingsInv, EnvEvent, AtStage
  <2>3. /\ tool' = [u \in Tool |-> tool'[u]]
        /\ \A u \in Tool : DOMAIN tool'[u] = DOMAIN tool[u]
        /\ tool'[t].stage = "read" /\ tool'[t].overtaken = tool[t].overtaken
        /\ tool'[t].crossed <=> (tool[t].crossed \/ others)
        /\ \A u \in Tool \ {t} :
             /\ tool'[u].stage = tool[u].stage
             /\ tool'[u].overtaken = tool[u].overtaken
             /\ tool'[u].crossed <=> (tool[u].crossed \/ Active(u))
    BY <2>1 DEF SettingsInv, Shape
  <2>4. Shape'
    BY <2>2, <2>3 DEF SettingsInv, Shape
  <2>5. ASSUME Undisturbed' PROVE Kept'
    <3>1. Undisturbed /\ ~others
      BY <2>3, <2>5 DEF Undisturbed
    <3>2. Kept
      BY <3>1 DEF SettingsInv
    <3>3. OneActive'
      BY <2>3, <3>1 DEF OneActive, Active
    <3>4. \A u \in Tool : /\ ~Carries(u)' /\ ~AtStage(u, "write")'
                          /\ ~AtStage(u, "write")
      BY <2>2, <2>3, <3>1 DEF Carries, AtStage, Active
    <3>5. SettingsCarried' /\ WritesWhereOpened'
      BY <3>4 DEF SettingsCarried, WritesWhereOpened
    <3>6. FileSound'
      BY <2>2, <3>2, <3>4 DEF Kept, FileSound
    <3>7. QED
      BY <3>3, <3>5, <3>6 DEF Kept
  <2>6. QED
    BY <2>4, <2>5 DEF SettingsInv
<1>6. QED
  BY <1>1, <1>2, <1>3, <1>4, <1>5 DEF UserStep

LEMMA SettingsInvAlways == Spec => []SettingsInv
<1>1. Init => SettingsInv
  <2> SUFFICES ASSUME Init PROVE SettingsInv
    OBVIOUS
  <2>1. \A t \in Tool : tool[t].stage = "idle"
    BY DEF Init, BuildInit
  <2>2. Shape
    BY DEF Init, BuildInit, FileInit, Shape
  <2>3. FileSound
    BY DocumentsAreTexts DEF Init, FileInit, FileSound
  <2>4. OneActive /\ SettingsCarried /\ WritesWhereOpened
    BY <2>1 DEF OneActive, SettingsCarried, WritesWhereOpened, Active, Carries, AtStage
  <2>5. QED
    BY <2>2, <2>3, <2>4 DEF SettingsInv, Kept
<1>2. SettingsInv /\ [Next]_vars => SettingsInv'
  <2> SUFFICES ASSUME SettingsInv, [Next]_vars PROVE SettingsInv'
    OBVIOUS
  <2>1. CASE UserStep
    BY <2>1, UserStepKeeps
  <2>2. ASSUME NEW t \in Tool, ToolStep(t) PROVE SettingsInv'
    BY <2>2, ToolStepKeeps
  <2>3. CASE LoaderStep /\ UNCHANGED buildVars
    <3>1. UNCHANGED <<env, saved, editing, tool>>
      BY <2>3 DEF LoaderStep, NewLoader, AddWatch, NextEvent, ReadFile, Adopt, Notify,
         CancelWatch, fileVars, buildVars
    <3>2. \/ UNCHANGED spent
          \/ \E e \in EnvEvent : Spend(e)
      BY <2>3 DEF LoaderStep, NewLoader, AddWatch, NextEvent, ReadFile, Adopt, Notify,
         CancelWatch, fileVars, EnvEvent
    <3>3. /\ spent' \in [EnvEvent -> Nat] /\ spent["fault"] \in Nat
          /\ spent'["fault"] >= spent["fault"]
      <4>1. CASE UNCHANGED spent
        BY <4>1 DEF SettingsInv, Shape, EnvEvent
      <4>2. CASE \E e \in EnvEvent : Spend(e)
        BY <4>2, FaultsCounted DEF SettingsInv
      <4>3. QED
        BY <3>2, <4>1, <4>2
    <3>4. QED
      BY <3>1, <3>3, FileUntouched
  <2>4. CASE UNCHANGED vars
    <3>1. UNCHANGED <<env, saved, editing, tool, spent>>
      BY <2>4 DEF vars, fileVars, buildVars
    <3>2. /\ spent' \in [EnvEvent -> Nat] /\ spent["fault"] \in Nat
          /\ spent'["fault"] >= spent["fault"]
      BY <3>1 DEF SettingsInv, Shape, EnvEvent
    <3>3. QED
      BY <3>1, <3>2, FileUntouched
  <2>5. QED
    BY <2>1, <2>2, <2>3, <2>4 DEF Next
<1>3. QED
  BY <1>1, <1>2, PTL DEF Spec

\* README's build tool: undisturbed, it keeps what the user saved, for all
\* documents, flags, sources, answers of Onionoo and any number of invocations.
THEOREM UserSettings == Spec => []SettingsKept
<1>1. SettingsInv => SettingsKept
  BY DEF SettingsInv, Undisturbed, Kept, FileSound, SettingsKept, AtStage
<1>2. QED
  BY <1>1, SettingsInvAlways, PTL

-----------------------------------------------------------------------------
(* Lists.                                                                  *)

\* Some facts about sequences and their members.
LEMMA Members ==
  ASSUME NEW S, NEW s \in Seq(S)
  PROVE  /\ Len(s) \in Nat /\ DOMAIN s = 1..Len(s)
         /\ ToSet(s) \subseteq S
         /\ \A i \in 1..Len(s) : s[i] \in S /\ s[i] \in ToSet(s)
         /\ \A e \in ToSet(s) : \E i \in 1..Len(s) : e = s[i]
  BY LenProperties, ElementOfSeq DEF ToSet

LEMMA OwnMembers ==
  ASSUME NEW S, NEW s \in Seq(S), NEW T, ToSet(s) \subseteq T
  PROVE  s \in Seq(T)
<1>1. Len(s) \in Nat /\ s \in [1..Len(s) -> S]
  BY LenProperties
<1>2. \A i \in 1..Len(s) : s[i] \in T
  BY Members
<1>3. s \in [1..Len(s) -> T]
  BY <1>1, <1>2
<1>4. QED
  BY <1>1, <1>3, SeqDef

LEMMA HeadAndTail ==
  ASSUME NEW S, NEW s \in Seq(S), s # <<>>
  PROVE  /\ Head(s) \in S /\ Head(s) \in ToSet(s) /\ Tail(s) \in Seq(S)
         /\ ToSet(s) = {Head(s)} \union ToSet(Tail(s))
<1>1. /\ Head(s) \in S /\ Tail(s) \in Seq(S) /\ Len(Tail(s)) = Len(s) - 1
      /\ \A i \in 1..Len(Tail(s)) : Tail(s)[i] = s[i + 1]
  BY HeadTailProperties
<1>2. Len(s) \in Nat \ {0} /\ Len(Tail(s)) \in Nat /\ Head(s) = s[1]
  BY EmptySeq, <1>1, LenProperties
<1>3. Head(s) \in ToSet(s)
  <2>1. 1 \in 1..Len(s)
    BY <1>2
  <2>2. QED
    BY <1>2, <2>1, Members
<1>4. ASSUME NEW e \in ToSet(s) PROVE e = Head(s) \/ e \in ToSet(Tail(s))
  <2>1. PICK i \in 1..Len(s) : e = s[i]
    BY Members
  <2>2. CASE i = 1
    BY <2>1, <2>2, <1>2
  <2>3. CASE i # 1
    <3>1. i - 1 \in 1..Len(Tail(s)) /\ (i - 1) + 1 = i
      BY <2>3, <1>1, <1>2
    <3>2. Tail(s)[i - 1] = s[i]
      BY <1>1, <3>1
    <3>3. QED
      BY <2>1, <3>1, <3>2, <1>1, Members
  <2>4. QED
    BY <2>2, <2>3
<1>5. ASSUME NEW e \in ToSet(Tail(s)) PROVE e \in ToSet(s)
  <2>1. PICK i \in 1..Len(Tail(s)) : e = Tail(s)[i]
    BY <1>1, Members
  <2>2. i + 1 \in 1..Len(s) /\ e = s[i + 1]
    BY <2>1, <1>1, <1>2
  <2>3. QED
    BY <2>2, Members
<1>6. QED
  BY <1>1, <1>3, <1>4, <1>5

LEMMA JoinedMembers ==
  ASSUME NEW S, NEW s \in Seq(S), NEW t \in Seq(S)
  PROVE  s \o t \in Seq(S) /\ ToSet(s \o t) = ToSet(s) \union ToSet(t)
<1>1. /\ s \o t \in Seq(S) /\ Len(s \o t) = Len(s) + Len(t)
      /\ \A i \in 1..Len(s) + Len(t) :
             (s \o t)[i] = IF i <= Len(s) THEN s[i] ELSE t[i - Len(s)]
  BY ConcatProperties
<1>2. Len(s) \in Nat /\ Len(t) \in Nat
  BY LenProperties
<1>3. ASSUME NEW e \in ToSet(s \o t) PROVE e \in ToSet(s) \union ToSet(t)
  <2>1. PICK i \in 1..Len(s) + Len(t) : e = (s \o t)[i]
    BY <1>1, Members
  <2>2. CASE i <= Len(s)
    <3>1. i \in 1..Len(s) /\ e = s[i]
      BY <2>1, <2>2, <1>1, <1>2
    <3>2. QED
      BY <3>1, Members
  <2>3. CASE ~(i <= Len(s))
    <3>1. i - Len(s) \in 1..Len(t) /\ e = t[i - Len(s)]
      BY <2>1, <2>3, <1>1, <1>2
    <3>2. QED
      BY <3>1, Members
  <2>4. QED
    BY <2>2, <2>3
<1>4. ASSUME NEW e \in ToSet(s) PROVE e \in ToSet(s \o t)
  <2>1. PICK i \in 1..Len(s) : e = s[i]
    BY Members
  <2>2. i \in 1..Len(s \o t) /\ e = (s \o t)[i]
    BY <1>1, <1>2, <2>1
  <2>3. QED
    BY <1>1, <2>2, Members
<1>5. ASSUME NEW e \in ToSet(t) PROVE e \in ToSet(s \o t)
  <2>1. PICK i \in 1..Len(t) : e = t[i]
    BY Members
  <2>2. i + Len(s) \in 1..Len(s) + Len(t) /\ ~(i + Len(s) <= Len(s))
        /\ (i + Len(s)) - Len(s) = i
    BY <1>2, <2>1
  <2>3. i + Len(s) \in 1..Len(s \o t) /\ e = (s \o t)[i + Len(s)]
    BY <1>1, <2>1, <2>2
  <2>4. QED
    BY <1>1, <2>3, Members
<1>6. QED
  BY <1>1, <1>3, <1>4, <1>5

\* A list without duplicates is as long as it has members.
LEMMA LengthOfDistinct ==
  ASSUME NEW S, NEW s \in Seq(S), NoDuplicates(s)
  PROVE  IsFiniteSet(ToSet(s)) /\ Cardinality(ToSet(s)) = Len(s)
<1> DEFINE n == Len(s)
<1>1. n \in Nat /\ DOMAIN s = 1..n /\ s \in [1..n -> ToSet(s)]
  BY LenProperties, Members
<1>2. s \in Bijection(1..n, ToSet(s))
  BY <1>1, Members DEF Bijection, Injection, Surjection, IsInjective, NoDuplicates
<1>3. IsFiniteSet(1..n) /\ Cardinality(1..n) = n
  BY <1>1, FS_Interval
<1>4. ExistsBijection(1..n, ToSet(s))
  BY <1>2 DEF ExistsBijection
<1>5. QED
  BY <1>3, <1>4, FS_Bijection

Rank(P, i) == Cardinality({j \in P : j <= i})

\* The positions of a set are numbered in their order.
LEMMA Ranks ==
  ASSUME NEW n \in Nat, NEW P \in SUBSET (1..n)
  PROVE  /\ Cardinality(P) \in Nat
         /\ \A i \in P : Rank(P, i) \in 1..Cardinality(P)
         /\ \A i, j \in P : Rank(P, i) = Rank(P, j) => i = j
         /\ \A k \in 1..Cardinality(P) : \E i \in P : Rank(P, i) = k
<1>1. IsFiniteSet(P) /\ Cardinality(P) \in Nat
  <2>1. IsFiniteSet(1..n)
    BY FS_Interval
  <2>2. IsFiniteSet(P)
    BY <2>1, FS_Subset
  <2>3. QED
    BY <2>2, FS_CardinalityType
<1>2. ASSUME NEW i \in P
      PROVE  /\ IsFiniteSet({j \in P : j <= i}) /\ Rank(P, i) \in 1..Cardinality(P)
  <2>1. IsFiniteSet({j \in P : j <= i}) /\ Rank(P, i) <= Cardinality(P)
    BY <1>1, FS_Subset DEF Rank
  <2>2. Rank(P, i) \in Nat /\ Rank(P, i) # 0
    BY <2>1, FS_CardinalityType, FS_EmptySet DEF Rank
  <2>3. QED
    BY <1>1, <2>1, <2>2
<1>3. ASSUME NEW i \in P, NEW j \in P, i < j PROVE Rank(P, i) # Rank(P, j)
  <2>1. {k \in P : k <= i} \in SUBSET {k \in P : k <= j}
    <3>1. i \in Nat /\ j \in Nat /\ \A k \in P : k \in Nat
      OBVIOUS
    <3>2. \A k \in P : k <= i => k <= j
      BY <1>3, <3>1
    <3>3. QED
      BY <3>2
  <2>2. j \in {k \in P : k <= j} /\ j \notin {k \in P : k <= i}
    BY <1>3
  <2>3. QED
    BY <1>2, <2>1, <2>2, FS_Subset DEF Rank
<1>4. ASSUME NEW i \in P, NEW j \in P, Rank(P, i) = Rank(P, j) PROVE i = j
  BY <1>3, <1>4
<1> DEFINE r == [i \in P |-> Rank(P, i)]
<1>5. r \in Injection(P, 1..Cardinality(P))
  BY <1>2, <1>4 DEF Injection, IsInjective
<1>6. IsFiniteSet(1..Cardinality(P)) /\ Cardinality(1..Cardinality(P)) = Cardinality(P)
  BY <1>1, FS_Interval
<1>7. r \in Surjection(P, 1..Cardinality(P))
  BY <1>5, <1>6, FS_Injection
<1>8. QED
  BY <1>1, <1>2, <1>4, <1>7 DEF Surjection

LEMMA AtPositions ==
  ASSUME NEW S, NEW list \in Seq(S), NEW P \in SUBSET (1..Len(list))
  PROVE  /\ At(list, P) \in Seq(S)
         /\ ToSet(At(list, P)) = {list[i] : i \in P}
         /\ (\A i, j \in P : list[i] = list[j] => i = j) => NoDuplicates(At(list, P))
<1> DEFINE n == Cardinality(P)
           place == [k \in 1..n |-> CHOOSE i \in P : Rank(P, i) = k]
<1>1. /\ Len(list) \in Nat /\ n \in Nat
      /\ \A i \in P : Rank(P, i) \in 1..n
      /\ \A i, j \in P : Rank(P, i) = Rank(P, j) => i = j
      /\ \A k \in 1..n : \E i \in P : Rank(P, i) = k
  BY LenProperties, Ranks
<1>2. \A k \in 1..n : place[k] \in P /\ Rank(P, place[k]) = k
  BY <1>1
<1>3. \A i \in P : \E k \in 1..n : place[k] = i
  BY <1>1, <1>2
<1>4. At(list, P) = [k \in 1..n |-> list[place[k]]]
  BY DEF At, Rank
<1> HIDE DEF place, n
<1>5. \A i \in P : list[i] \in S
  BY ElementOfSeq
<1>6. At(list, P) \in [1..n -> S]
  BY <1>2, <1>4, <1>5
<1>7. At(list, P) \in Seq(S)
  BY <1>1, <1>6, SeqDef
<1>8. ToSet(At(list, P)) = {list[i] : i \in P}
  BY <1>2, <1>3, <1>4 DEF ToSet
<1>9. ASSUME \A i, j \in P : list[i] = list[j] => i = j
      PROVE  NoDuplicates(At(list, P))
  <2>1. DOMAIN At(list, P) = 1..n /\ \A k \in 1..n : At(list, P)[k] = list[place[k]]
    BY <1>4
  <2>2. ASSUME NEW k \in 1..n, NEW m \in 1..n, At(list, P)[k] = At(list, P)[m] PROVE k = m
    <3>0. place[k] \in P /\ place[m] \in P /\ list[place[k]] = list[place[m]]
      BY <1>2, <2>1, <2>2
    <3>1. place[k] = place[m]
      BY <1>9, <3>0
    <3>2. QED
      BY <1>2, <3>1
  <2>3. QED
    BY <2>1, <2>2 DEF NoDuplicates
<1>10. QED
  BY <1>7, <1>8, <1>9

\* What is left of a list: each member but the blank one, once.
LEMMA DistinctMembers ==
  ASSUME NEW S, NEW list \in Seq(S), NEW blank
  PROVE  /\ Distinct(list, blank) \in Seq(S)
         /\ ToSet(Distinct(list, blank)) = ToSet(list) \ {blank}
         /\ NoDuplicates(Distinct(list, blank))
<1> DEFINE P == {i \in DOMAIN list :
                   list[i] # blank /\ \A j \in 1..(i - 1) : list[j] # list[i]}
<1>1. Len(list) \in Nat /\ DOMAIN list = 1..Len(list)
  BY LenProperties
<1>2. P \in SUBSET (1..Len(list))
  BY <1>1
<1>3. ASSUME NEW i \in P, NEW j \in P, list[i] = list[j] PROVE i = j
  <2>1. i \in 1..Len(list) /\ j \in 1..Len(list)
    BY <1>2
  <2>2. ~(i < j) /\ ~(j < i)
    BY <1>3, <2>1
  <2>3. QED
    BY <2>1, <2>2
<1>4. ASSUME NEW e \in ToSet(list), e # blank PROVE \E i \in P : list[i] = e
  <2> DEFINE places == {i \in 1..Len(list) : list[i] = e}
  <2>1. places # {} /\ places \subseteq Nat
    BY <1>1, Members
  <2>2. PICK i \in places : \A j \in places : ~(<<j, i>> \in OpToRel(<, Nat))
    BY <2>1, NatLessThanWellFounded, WFMin
  <2>3. ASSUME NEW j \in 1..(i - 1) PROVE list[j] # e
    <3>1. j \in 1..Len(list) /\ j < i /\ j \in Nat /\ i \in Nat
      BY <1>1
    <3>2. <<j, i>> \in OpToRel(<, Nat)
      BY <3>1 DEF OpToRel
    <3>3. QED
      BY <2>2, <3>1, <3>2
  <2>4. i \in P /\ list[i] = e
    BY <1>1, <1>4, <2>3
  <2>5. QED
    BY <2>4
<1>5. \A i \in P : list[i] \in ToSet(list) /\ list[i] # blank
  BY <1>2, Members
<1>6. Distinct(list, blank) = At(list, P)
  BY DEF Distinct
<1> HIDE DEF P
<1>7. ToSet(list) \ {blank} = {list[i] : i \in P}
  BY <1>4, <1>5
<1>8. /\ At(list, P) \in Seq(S)
      /\ ToSet(At(list, P)) = {list[i] : i \in P}
      /\ NoDuplicates(At(list, P))
  BY <1>2, <1>3, AtPositions
<1>9. QED
  BY <1>6, <1>7, <1>8

-----------------------------------------------------------------------------
(* The lists of env.json.                                                  *)

Name == STRING
Addresses(list) == {e.ip : e \in ToSet(list)} \ {""}

\* The addresses a list of entries names, each once.
LEMMA AddressesOf ==
  ASSUME NEW list \in Seq(Entry)
  PROVE  /\ IPs(list) \in Seq(Name) /\ NoDuplicates(IPs(list))
         /\ ToSet(IPs(list)) = Addresses(list)
<1> DEFINE names == [i \in DOMAIN list |-> list[i].ip]
<1>1. Len(list) \in Nat /\ DOMAIN list = 1..Len(list)
      /\ \A i \in 1..Len(list) : list[i] \in Entry
  BY Members
<1>2. names \in [1..Len(list) -> Name]
  BY <1>1 DEF Entry, Name
<1>3. names \in Seq(Name)
  BY <1>1, <1>2, SeqDef
<1>4. ToSet(names) = {e.ip : e \in ToSet(list)}
  BY <1>1 DEF ToSet
<1>5. IPs(list) = Distinct(names, "")
  BY DEF IPs
<1> HIDE DEF names
<1>6. /\ Distinct(names, "") \in Seq(Name) /\ NoDuplicates(Distinct(names, ""))
      /\ ToSet(Distinct(names, "")) = ToSet(names) \ {""}
  BY <1>3, DistinctMembers
<1>7. QED
  BY <1>4, <1>5, <1>6 DEF Addresses

\* What normalizeIPList makes of a list of entries.
Normal(list, limit) ==
    /\ NoDuplicates(list)
    /\ \A e \in ToSet(list) : e.form = "plain" /\ e.ip # ""
    /\ limit > 0 => Len(list) <= limit
Allowed(number, limit) == IF limit \in 1..number THEN limit ELSE number
TakenFrom(list, given, limit) ==
    /\ {e.ip : e \in ToSet(list)} \subseteq given
    /\ Len(list) = Allowed(Cardinality(given), limit)

LEMMA FirstMembers ==
  ASSUME NEW S, NEW s \in Seq(S), NEW limit \in Nat
  PROVE  /\ FirstOf(s, limit) \in Seq(S) /\ Len(FirstOf(s, limit)) = Allowed(Len(s), limit)
         /\ limit > 0 => Len(FirstOf(s, limit)) <= limit
         /\ Len(FirstOf(s, limit)) <= Len(s)
         /\ \A i \in 1..Len(FirstOf(s, limit)) : FirstOf(s, limit)[i] = s[i]
<1>1. Len(s) \in Nat /\ \A i \in 1..Len(s) : s[i] \in S
  BY Members
<1>2. CASE limit > 0 /\ Len(s) > limit
  <2>1. FirstOf(s, limit) = SubSeq(s, 1, limit)
    BY <1>2 DEF FirstOf
  <2>2. \A i \in 1..limit : s[i] \in S
    BY <1>1, <1>2
  <2>3. limit \in Nat \ {0}
    BY <1>2
  <2>4. /\ SubSeq(s, 1, limit) \in Seq(S) /\ Len(SubSeq(s, 1, limit)) = limit
        /\ \A i \in 1..limit : SubSeq(s, 1, limit)[i] = s[i]
    BY <2>2, <2>3, Prefix
  <2>5. Allowed(Len(s), limit) = limit
    BY <1>1, <1>2 DEF Allowed
  <2>6. QED
    BY <1>1, <1>2, <2>1, <2>4, <2>5
<1>3. CASE ~(limit > 0 /\ Len(s) > limit)
  <2>1. Allowed(Len(s), limit) = Len(s) /\ FirstOf(s, limit) = s
    BY <1>1, <1>3 DEF Allowed, FirstOf
  <2>2. QED
    BY <1>1, <1>3, <2>1
<1>4. QED
  BY <1>2, <1>3

LEMMA NormalizedList ==
  ASSUME NEW list \in Seq(Entry), NEW limit \in Nat
  PROVE  /\ NormalizeIPList(list, limit) \in Seq(Entry)
         /\ Normal(NormalizeIPList(list, limit), limit)
         /\ TakenFrom(NormalizeIPList(list, limit), Addresses(list), limit)
<1> DEFINE all == IPs(list)
           ips == FirstOf(all, limit)
           out == NormalizeIPList(list, limit)
<1>1. /\ all \in Seq(Name) /\ NoDuplicates(all) /\ ToSet(all) = Addresses(list)
      /\ Len(all) = Cardinality(Addresses(list))
  BY AddressesOf, LengthOfDistinct
<1>2. out = [i \in DOMAIN ips |-> Plain(ips[i])]
  BY DEF NormalizeIPList
<1> HIDE DEF all, out
<1>3. /\ ips \in Seq(Name) /\ Len(ips) = Allowed(Len(all), limit)
      /\ limit > 0 => Len(ips) <= limit
      /\ Len(ips) <= Len(all) /\ \A i \in 1..Len(ips) : ips[i] = all[i]
  BY <1>1, FirstMembers
<1> HIDE DEF ips
<1>4. /\ Len(ips) \in Nat /\ DOMAIN ips = 1..Len(ips) /\ Len(all) \in Nat
      /\ DOMAIN all = 1..Len(all)
      /\ \A i \in 1..Len(ips) : ips[i] \in Name
  BY <1>1, <1>3, Members
<1>5. \A i \in 1..Len(ips) : out[i] = [ip |-> ips[i], form |-> "plain"]
  BY <1>2, <1>4 DEF Plain
<1>6. out \in [1..Len(ips) -> Entry]
  BY <1>2, <1>4 DEF Plain, Entry, Name
<1>7. out \in Seq(Entry) /\ Len(out) = Len(ips) /\ DOMAIN out = 1..Len(ips)
  <2>1. out \in Seq(Entry)
    BY <1>4, <1>6, SeqDef
  <2>2. Len(out) \in Nat /\ DOMAIN out = 1..Len(out) /\ DOMAIN out = 1..Len(ips)
    BY <2>1, <1>6, LenProperties
  <2>3. Len(out) = Len(ips)
    <3>1. 1..Len(out) = 1..Len(ips) /\ Len(out) \in Nat /\ Len(ips) \in Nat
      BY <1>4, <2>2
    <3> HIDE DEF out
    <3>2. QED
      BY <3>1
  <2>4. QED
    BY <2>1, <2>2, <2>3
<1>8. \A i \in 1..Len(ips) : i \in 1..Len(all) /\ ips[i] = all[i] /\ ips[i] \in Addresses(list)
  <2>0. Len(ips) \in Nat /\ Len(all) \in Nat /\ Len(ips) <= Len(all)
    BY <1>3, <1>4
  <2>1. ASSUME NEW i \in 1..Len(ips) PROVE i \in 1..Len(all)
    BY <2>0
  <2>2. \A i \in 1..Len(all) : all[i] \in Addresses(list)
    BY <1>1, Members
  <2>3. QED
    BY <1>3, <2>1, <2>2
<1>9. NoDuplicates(out)
  <2>1. ASSUME NEW i \in 1..Len(ips), NEW j \in 1..Len(ips), out[i] = out[j] PROVE i = j
    <3>0. [ip |-> ips[i], form |-> "plain"] = [ip |-> ips[j], form |-> "plain"]
      BY <1>5, <2>1
    <3>1. ips[i] = ips[j]
      BY <3>0
    <3>2. all[i] = all[j] /\ i \in DOMAIN all /\ j \in DOMAIN all
      BY <1>4, <1>8, <3>1
    <3>3. QED
      BY <1>1, <3>2 DEF NoDuplicates
  <2>2. QED
    BY <1>7, <2>1 DEF NoDuplicates
<1>10. \A e \in ToSet(out) : \E i \in 1..Len(ips) : e = [ip |-> ips[i], form |-> "plain"]
  BY <1>5, <1>7, Members
<1>11. \A e \in ToSet(out) : e.form = "plain" /\ e.ip \in Addresses(list)
  BY <1>8, <1>10
<1>12. "" \notin Addresses(list)
  BY DEF Addresses
<1>13. {e.ip : e \in ToSet(out)} \subseteq Addresses(list)
  BY <1>11
<1>14. Normal(out, limit)
  BY <1>3, <1>7, <1>9, <1>11, <1>12 DEF Normal
<1>15. TakenFrom(out, Addresses(list), limit)
  BY <1>1, <1>3, <1>7, <1>13 DEF TakenFrom
<1>16. QED
  BY <1>7, <1>14, <1>15 DEF out

-----------------------------------------------------------------------------
(* What is read of env.json.                                               *)

\* A text that env.json, or a copy of it, may be: its sources are known.
Text == {NoDocument} \union
        {doc \in Document : ToSet(LoadSources(doc)) \subseteq DOMAIN Site}

LEMMA SomeTexts ==
  /\ Documents \subseteq Text
  /\ NoDocument \in Text
  /\ \A doc \in Text : doc # NoDocument => doc \in Document
  BY DocumentsAssumption, SourcesAssumption DEF Text

\* The list that is chosen for DNS is one of entries.
LEMMA ChosenTyped ==
  ASSUME NEW doc \in Document
  PROVE  ChosenDNS(doc) \in Seq(Entry)
  BY DEF ChosenDNS, Document

LEMMA NothingJoined ==
  ASSUME NEW S, NEW s \in Seq(S), NEW t \in Seq(S), NEW u \in Seq(S), s \o t \o u = <<>>
  PROVE  s = <<>> /\ t = <<>> /\ u = <<>>
<1>1. Len(s) \in Nat /\ Len(t) \in Nat /\ Len(u) \in Nat /\ Len(<<>>) = 0
  BY LenProperties, EmptySeq
<1>2. s \o t \in Seq(S) /\ Len(s \o t) = Len(s) + Len(t)
  BY ConcatProperties
<1>3. Len((s \o t) \o u) = Len(s \o t) + Len(u)
  BY <1>2, ConcatProperties
<1>4. Len(s) = 0 /\ Len(t) = 0 /\ Len(u) = 0
  BY <1>1, <1>2, <1>3
<1>5. QED
  BY <1>4, EmptySeq

LEMMA NormalizedServers ==
  ASSUME NEW doc \in Document
  PROVE  /\ LoadFromBytes(doc).DNS \in Seq(Entry)
         /\ LoadFromBytes(doc).DNS = <<>> <=> ChosenDNS(doc) = <<>>
         /\ Addresses(LoadFromBytes(doc).DNS) = Addresses(ChosenDNS(doc))
         /\ LoadFromBytes(doc) = [doc EXCEPT !.DNS = LoadFromBytes(doc).DNS]
<1> DEFINE chosen == ChosenDNS(doc)
           out == [i \in DOMAIN chosen |-> NormalizeHostPort(chosen[i])]
<1>1. chosen \in Seq(Entry)
  BY ChosenTyped
<1>2. LoadFromBytes(doc) = [doc EXCEPT !.DNS = out]
  BY DEF LoadFromBytes
<1>3. LoadFromBytes(doc).DNS = out
  BY <1>2 DEF Document
<1> HIDE DEF chosen
<1>4. /\ Len(chosen) \in Nat /\ DOMAIN chosen = 1..Len(chosen)
      /\ \A i \in 1..Len(chosen) : chosen[i] \in Entry
  BY <1>1, Members
<1>5. \A e \in Entry : NormalizeHostPort(e) \in Entry /\ NormalizeHostPort(e).ip = e.ip
  BY DEF Entry, NormalizeHostPort
<1>6. out \in [1..Len(chosen) -> Entry]
  BY <1>4, <1>5
<1>7. out \in Seq(Entry) /\ Len(out) = Len(chosen)
  <2>1. out \in Seq(Entry)
    BY <1>4, <1>6, SeqDef
  <2>2. Len(out) \in Nat /\ DOMAIN out = 1..Len(out) /\ DOMAIN out = 1..Len(chosen)
    BY <2>1, <1>6, LenProperties
  <2>3. QED
    BY <1>4, <2>1, <2>2
<1>8. out = <<>> <=> chosen = <<>>
  BY <1>1, <1>7, EmptySeq
<1>9. {e.ip : e \in ToSet(out)} = {e.ip : e \in ToSet(chosen)}
  BY <1>4, <1>5 DEF ToSet
<1>10. QED
  BY <1>2, <1>3, <1>7, <1>8, <1>9 DEF Addresses, chosen

LEMMA LoadedTyped ==
  ASSUME NEW doc \in Text, Loads(doc)
  PROVE  LoadFromBytes(doc) \in Text
<1>1. doc \in Document /\ ToSet(LoadSources(doc)) \subseteq DOMAIN Site
  BY DEF Text, Loads
<1>2. LoadFromBytes(doc) \in Document /\ LoadSources(LoadFromBytes(doc)) = LoadSources(doc)
  BY <1>1, NormalizedServers DEF Document, LoadSources
<1>3. QED
  BY <1>1, <1>2 DEF Text

LEMMA RewrittenTyped ==
  ASSUME NEW doc \in Text, doc # NoDocument, NEW list \in Seq(Entry), NEW limit \in Nat
  PROVE  /\ WithTorIPs(doc, list, limit) \in Text
         /\ WithTorIPs(doc, list, limit) # NoDocument
         /\ WithTorIPs(doc, list, limit).torEntryIPs = NormalizeIPList(list, limit)
         /\ "torEntryIPs" \notin WithTorIPs(doc, list, limit).misfits
<1>1. doc \in Document /\ ToSet(LoadSources(doc)) \subseteq DOMAIN Site
  BY DEF Text
<1>2. NormalizeIPList(list, limit) \in Seq(Entry)
  BY NormalizedList
<1>3. /\ WithTorIPs(doc, list, limit) \in Document
      /\ LoadSources(WithTorIPs(doc, list, limit)) = LoadSources(doc)
      /\ WithTorIPs(doc, list, limit).torEntryIPs = NormalizeIPList(list, limit)
      /\ "torEntryIPs" \notin WithTorIPs(doc, list, limit).misfits
  BY <1>1, <1>2 DEF WithTorIPs, Document, LoadSources
<1>4. \A text \in Document : text # NoDocument
  <2>1. \A text \in Document : "DNS" \in DOMAIN text
    BY DEF Document
  <2>2. DOMAIN NoDocument = {}
    BY DEF NoDocument
  <2>3. QED
    BY <2>1, <2>2
<1>5. QED
  BY <1>1, <1>3, <1>4 DEF Text

\* The servers that are enforced: the defaults, or the addresses of the list that
\* is chosen.
LEMMA Enforced ==
  ASSUME NEW doc \in Document, Loads(doc)
  PROVE  ToSet(EnforcedServers(doc)) =
            IF ChosenDNS(doc) = <<>> THEN ToSet(DefaultDNS) ELSE Addresses(ChosenDNS(doc))
  BY NormalizedServers, AddressesOf DEF EnforcedServers

-----------------------------------------------------------------------------
(* Sources and redirects.                                                  *)

Lines == UNION {ToSet(ParseLines(Fetched(source))) : source \in DOMAIN Site}

LEMMA ParsedLines ==
  ASSUME NEW source \in DOMAIN Site
  PROVE  /\ ParseLines(Fetched(source)) \in Seq(Lines)
         /\ <<>> \notin ToSet(ParseLines(Fetched(source)))
<1> DEFINE raw == Fetched(source)
           lines == [i \in DOMAIN raw |-> NormalizeLine(raw[i])]
           S == {NormalizeLine(raw[i]) : i \in DOMAIN raw}
<1>1. PICK n \in Nat : DOMAIN raw = 1..n
  <2>1. Site[source].lines \in Seq(Seq(Field))
    BY SourcesAssumption
  <2>2. DOMAIN raw = DOMAIN Site[source].lines
    BY DEF Fetched
  <2>3. QED
    BY <2>1, <2>2, LenProperties
<1>2. lines \in [1..n -> S]
  BY <1>1
<1>3. lines \in Seq(S)
  BY <1>1, <1>2, SeqDef
<1>4. ParseLines(raw) = Distinct(lines, <<>>)
  BY DEF ParseLines
<1> HIDE DEF lines, S
<1>5. ParseLines(raw) \in Seq(S) /\ ToSet(ParseLines(raw)) = ToSet(lines) \ {<<>>}
  BY <1>3, <1>4, DistinctMembers
<1>6. ToSet(ParseLines(raw)) \subseteq Lines
  BY DEF Lines
<1>7. QED
  BY <1>5, <1>6, OwnMembers

LEMMA MergedLines ==
  ASSUME NEW lines \in Seq(Lines), NEW source \in DOMAIN Site
  PROVE  /\ Merge(lines, source) \in Seq(Lines)
         /\ NoDuplicates(Merge(lines, source))
         /\ ToSet(Merge(lines, source)) = ToSet(lines) \union ToSet(ParseLines(Fetched(source)))
<1>1. <<>> \notin Lines
  BY ParsedLines DEF Lines
<1>2. ToSet(lines) \subseteq Lines /\ ParseLines(Fetched(source)) \in Seq(Lines)
  BY Members, ParsedLines
<1>3. /\ lines \o ParseLines(Fetched(source)) \in Seq(Lines)
      /\ ToSet(lines \o ParseLines(Fetched(source))) =
            ToSet(lines) \union ToSet(ParseLines(Fetched(source)))
  BY <1>2, JoinedMembers
<1>4. /\ Merge(lines, source) \in Seq(Lines) /\ NoDuplicates(Merge(lines, source))
      /\ ToSet(Merge(lines, source)) =
            ToSet(lines \o ParseLines(Fetched(source))) \ {<<>>}
  BY <1>3, DistinctMembers DEF Merge
<1>5. ToSet(ParseLines(Fetched(source))) \subseteq Lines
  BY <1>2, Members
<1>6. QED
  BY <1>1, <1>2, <1>3, <1>4, <1>5

LEMMA KnownSources ==
  ASSUME NEW doc \in Text, doc # NoDocument
  PROVE  /\ LoadSources(doc) \in Seq(Name)
         /\ ToSet(LoadSources(doc)) \subseteq DOMAIN Site
<1>1. doc \in Document /\ ToSet(LoadSources(doc)) \subseteq DOMAIN Site
  BY DEF Text
<1>2. /\ doc.sourceList \in Seq(Name) /\ doc.sources \in Seq(Name)
      /\ doc.files \in Seq(Name)
  BY <1>1 DEF Document, Name
<1>3. doc.sourceList \o doc.sources \o doc.files \in Seq(Name)
  BY <1>2, ConcatProperties
<1>4. QED
  BY <1>1, <1>3, DistinctMembers DEF LoadSources

-----------------------------------------------------------------------------
(* Types.                                                                  *)

\* What the steps rely on: env.json and its copies are texts, what is left to
\* fetch are known sources, and what is left to build are targets of the flags.
ToolTyped(r) ==
    /\ r.stage \in Stage /\ r.flags \in Flags /\ r.text \in Text
    /\ r.lines \in Seq(Lines)
    /\ r.stage \in {"fetch", "truncate", "write"} => r.text # NoDocument
    /\ r.stage = "fetch" => r.flags.refresh
    /\ r.open => r.stage \in {"write", "failed"}
    /\ r.stage = "fetchBlock" => r.rest # <<>> /\ r.rest \in Seq(DOMAIN Site)
    /\ r.stage = "build" => r.rest # <<>> /\ r.rest \in Seq(ToSet(r.flags.targets))
Binaries == (UNION {ToSet(f.targets) : f \in Flags}) \X BOOLEAN
BuildTyped ==
    /\ \A t \in Tool : ToolTyped(tool[t])
    /\ env \in Text
    /\ generatedEnv \in Text /\ generatedHosts \in Seq(Lines)
    /\ DOMAIN dist = Binaries /\ \A b \in Binaries : dist[b].env \in Text
LoaderTyped == loader.cfg \in Text /\ loader.told \in Text /\ loader.text \in Text


LEMMA InitTyped ==
  ASSUME Init
  PROVE  BuildTyped /\ LoaderTyped
<1>1. env \in Text /\ NoDocument \in Text
  BY SomeTexts DEF Init, FileInit
<1>2. (CHOOSE f \in Flags : TRUE) \in Flags
  BY FlagsAssumption
<1>3. <<>> \in Seq(Lines)
  BY EmptySeq
<1>4. \A t \in Tool : ToolTyped(tool[t])
  BY <1>1, <1>2, <1>3 DEF Init, BuildInit, ToolTyped, Stage
<1>5. DOMAIN dist = Binaries /\ \A b \in Binaries : dist[b].env \in Text
  BY <1>1 DEF Init, BuildInit, Binaries, Missing
<1>6. generatedEnv \in Text /\ generatedHosts \in Seq(Lines)
  BY <1>1, <1>3 DEF Init, BuildInit
<1>7. LoaderTyped
  BY <1>1 DEF Init, LoaderInit, LoaderTyped
<1>8. QED
  BY <1>1, <1>4, <1>5, <1>6, <1>7 DEF BuildTyped

\* What a step of an invocation writes into env.json is a text.
LEMMA FilledTyped ==
  ASSUME NEW text \in Text, Fill(text)
  PROVE  env' \in Text
  BY SomeTexts DEF Fill, Change

\* The record of an invocation as its flags bound it.
LEMMA FlagTypes ==
  ASSUME NEW flags \in Flags
  PROVE  /\ flags.refresh \in BOOLEAN /\ flags.limit \in Nat
         /\ flags.unprotected \in BOOLEAN /\ flags.targets \in Seq(STRING)
  BY FlagsAssumption

LEMMA ReadTyped ==
  ASSUME Shape, BuildTyped, NEW t \in Tool, ReadConfig(t)
  PROVE  ToolTyped(tool'[t])
<1>1. ToolTyped(tool[t]) /\ env \in Text /\ tool[t].stage = "read"
  BY DEF BuildTyped, ReadConfig, AtStage
<1>2. CASE env = NoDocument
  BY <1>1, <1>2 DEF Shape, ReadConfig, ToolTyped, Stage
<1>3. CASE env # NoDocument
  <2> DEFINE text == WithTorIPs(env, env.torEntryIPs, tool[t].flags.limit)
  <2>1. tool[t].flags.limit \in Nat /\ env.torEntryIPs \in Seq(Entry)
    BY <1>1, <1>3, FlagTypes, SomeTexts DEF ToolTyped, Document
  <2>2. text \in Text /\ text # NoDocument
    BY <1>1, <1>3, <2>1, RewrittenTyped
  <2>3. /\ tool'[t].stage = IF tool[t].flags.refresh THEN "fetch" ELSE "truncate"
        /\ tool'[t].text = text
        /\ tool'[t].flags = tool[t].flags /\ tool'[t].lines = tool[t].lines
        /\ tool'[t].open = tool[t].open
    BY <1>3 DEF Shape, ReadConfig
  <2> HIDE DEF text
  <2>4. QED
    BY <1>1, <2>2, <2>3 DEF ToolTyped, Stage
<1>4. QED
  BY <1>2, <1>3

LEMMA FetchTyped ==
  ASSUME Shape, BuildTyped, NEW t \in Tool, FetchTorGuardIPs(t)
  PROVE  ToolTyped(tool'[t])
<1> DEFINE limit == tool[t].flags.limit
<1>1. PICK answer \in Answers :
        tool' = [tool EXCEPT ![t].stage = "truncate",
             ![t].text = WithTorIPs(@, NormalizeIPList(answer, limit), limit)]
  BY DEF FetchTorGuardIPs
<1>2. ToolTyped(tool[t]) /\ tool[t].stage = "fetch"
  BY DEF BuildTyped, FetchTorGuardIPs, AtStage
<1>3. tool[t].text \in Text /\ tool[t].text # NoDocument /\ limit \in Nat
  BY <1>2, FlagTypes DEF ToolTyped
<1>4. NormalizeIPList(answer, limit) \in Seq(Entry)
  BY <1>3, AnswersAssumption, NormalizedList
<1> DEFINE text == WithTorIPs(tool[t].text, NormalizeIPList(answer, limit), limit)
<1>5. text \in Text /\ text # NoDocument
  BY <1>3, <1>4, RewrittenTyped
<1>6. /\ tool'[t].stage = "truncate" /\ tool'[t].text = text
      /\ tool'[t].flags = tool[t].flags /\ tool'[t].lines = tool[t].lines
      /\ tool'[t].open = tool[t].open
  BY <1>1 DEF Shape
<1> HIDE DEF text
<1>7. QED
  BY <1>2, <1>5, <1>6 DEF ToolTyped, Stage

LEMMA SourcesTyped ==
  ASSUME Shape, BuildTyped, NEW t \in Tool, ReadSources(t)
  PROVE  ToolTyped(tool'[t])
<1>1. ToolTyped(tool[t]) /\ env \in Text /\ tool[t].stage = "sources"
  BY DEF BuildTyped, ReadSources, AtStage
<1>2. CASE ~SourcesLoad(env)
  BY <1>1, <1>2 DEF Shape, ReadSources, ToolTyped, Stage
<1>3. CASE SourcesLoad(env)
  <2>1. LoadSources(env) \in Seq(DOMAIN Site) /\ <<>> \in Seq(Lines)
    BY <1>1, <1>3, KnownSources, OwnMembers, EmptySeq DEF SourcesLoad
  <2>2. /\ tool'[t].rest = LoadSources(env) /\ tool'[t].lines = <<>>
        /\ tool'[t].stage = IF LoadSources(env) = <<>> THEN "generateHosts" ELSE "fetchBlock"
        /\ tool'[t].flags = tool[t].flags /\ tool'[t].text = tool[t].text
        /\ tool'[t].open = tool[t].open
    BY <1>3 DEF Shape, ReadSources
  <2>3. QED
    BY <1>1, <2>1, <2>2 DEF ToolTyped, Stage
<1>4. QED
  BY <1>2, <1>3

LEMMA FetchSourceEffect ==
  ASSUME Shape, NEW t \in Tool, FetchSource(t)
  PROVE  LET lines == Merge(tool[t].lines, Head(tool[t].rest))
             rest == Tail(tool[t].rest)
         IN /\ tool[t].stage = "fetchBlock"
            /\ tool'[t].lines = lines /\ tool'[t].rest = rest
            /\ tool'[t].stage = IF rest # <<>> THEN "fetchBlock"
                                ELSE IF lines = <<>> THEN "failed" ELSE "generateHosts"
            /\ tool'[t].flags = tool[t].flags /\ tool'[t].text = tool[t].text
            /\ tool'[t].open = tool[t].open
  BY DEF Shape, FetchSource, AtStage

LEMMA FetchSourceTyped ==
  ASSUME Shape, BuildTyped, NEW t \in Tool, FetchSource(t)
  PROVE  ToolTyped(tool'[t])
<1> DEFINE lines == Merge(tool[t].lines, Head(tool[t].rest))
           rest == Tail(tool[t].rest)
<1>1. /\ tool[t].stage = "fetchBlock"
      /\ tool'[t].lines = lines /\ tool'[t].rest = rest
      /\ tool'[t].stage = IF rest # <<>> THEN "fetchBlock"
                          ELSE IF lines = <<>> THEN "failed" ELSE "generateHosts"
      /\ tool'[t].flags = tool[t].flags /\ tool'[t].text = tool[t].text
      /\ tool'[t].open = tool[t].open
  BY FetchSourceEffect
<1>2. ToolTyped(tool[t])
  BY DEF BuildTyped
<1>3. /\ tool[t].rest # <<>> /\ tool[t].rest \in Seq(DOMAIN Site)
      /\ tool[t].lines \in Seq(Lines)
  BY <1>1, <1>2 DEF ToolTyped
<1>4. Head(tool[t].rest) \in DOMAIN Site /\ rest \in Seq(DOMAIN Site)
  BY <1>3, HeadAndTail
<1>5. lines \in Seq(Lines)
  BY <1>3, <1>4, MergedLines
<1> HIDE DEF lines, rest
<1>6. QED
  BY <1>1, <1>2, <1>4, <1>5 DEF ToolTyped, Stage

LEMMA GenerateHostsTyped ==
  ASSUME Shape, BuildTyped, NEW t \in Tool, GenerateHosts(t)
  PROVE  ToolTyped(tool'[t]) /\ generatedHosts' \in Seq(Lines)
<1>1. ToolTyped(tool[t]) /\ tool[t].stage = "generateHosts"
  BY DEF BuildTyped, GenerateHosts, AtStage
<1> DEFINE targets == tool[t].flags.targets
<1>2. targets \in Seq(ToSet(targets))
  BY <1>1, FlagTypes, OwnMembers DEF ToolTyped
<1>3. /\ tool'[t].rest = targets /\ tool'[t].lines = tool[t].lines
      /\ tool'[t].stage = IF targets = <<>> THEN "done" ELSE "build"
      /\ tool'[t].flags = tool[t].flags /\ tool'[t].text = tool[t].text
      /\ tool'[t].open = tool[t].open /\ generatedHosts' = tool[t].lines
  BY DEF Shape, GenerateHosts
<1>4. QED
  BY <1>1, <1>2, <1>3 DEF ToolTyped, Stage

LEMMA BuildTargetEffect ==
  ASSUME Shape, NEW t \in Tool, BuildTarget(t)
  PROVE  LET rest == Tail(tool[t].rest)
         IN /\ tool[t].stage = "build"
            /\ tool'[t].rest = rest /\ tool'[t].lines = tool[t].lines
            /\ tool'[t].stage = IF rest = <<>> THEN "done" ELSE "build"
            /\ tool'[t].flags = tool[t].flags /\ tool'[t].text = tool[t].text
            /\ tool'[t].open = tool[t].open
  BY DEF Shape, BuildTarget, AtStage

LEMMA BuildTargetTyped ==
  ASSUME Shape, BuildTyped, NEW t \in Tool, BuildTarget(t)
  PROVE  /\ ToolTyped(tool'[t])
         /\ DOMAIN dist' = Binaries /\ \A b \in Binaries : dist'[b].env \in Text
<1> DEFINE rest == Tail(tool[t].rest)
<1>1. /\ tool[t].stage = "build"
      /\ tool'[t].rest = rest /\ tool'[t].lines = tool[t].lines
      /\ tool'[t].stage = IF rest = <<>> THEN "done" ELSE "build"
      /\ tool'[t].flags = tool[t].flags /\ tool'[t].text = tool[t].text
      /\ tool'[t].open = tool[t].open
  BY BuildTargetEffect
<1>2. ToolTyped(tool[t])
  BY DEF BuildTyped
<1>3. tool[t].rest # <<>> /\ tool[t].rest \in Seq(ToSet(tool[t].flags.targets))
  BY <1>1, <1>2 DEF ToolTyped
<1>4. rest \in Seq(ToSet(tool[t].flags.targets))
  BY <1>3, HeadAndTail
<1>5. DOMAIN dist' = Binaries /\ \A b \in Binaries : dist'[b].env \in Text
  BY DEF BuildTarget, BuildTyped
<1> HIDE DEF rest
<1>6. QED
  BY <1>1, <1>2, <1>4, <1>5 DEF ToolTyped, Stage

LEMMA ToolStepTyped ==
  ASSUME Shape, BuildTyped, NEW t \in Tool, ToolStep(t)
  PROVE  BuildTyped'
<1>1. StepOf(t) /\ ToolTyped(tool[t])
  BY StepsAreOwn DEF BuildTyped
<1>2. (ToolTyped(tool'[t]) => \A u \in Tool : ToolTyped(tool'[u])) /\ NoDocument \in Text
  BY <1>1, SomeTexts DEF BuildTyped, StepOf
<1>3. CASE ReadConfig(t) \/ FetchTorGuardIPs(t) \/ ReadSources(t) \/ FetchSource(t)
  <2>1. UNCHANGED <<env, generatedEnv, generatedHosts, dist>>
    BY <1>3 DEF ReadConfig, FetchTorGuardIPs, ReadSources, FetchSource, fileVars
  <2>2. ToolTyped(tool'[t])
    BY <1>3, ReadTyped, FetchTyped, SourcesTyped, FetchSourceTyped
  <2>3. QED
    BY <1>2, <2>1, <2>2 DEF BuildTyped
<1>4. CASE TruncateConfig(t)
  <2>1. env' = NoDocument /\ UNCHANGED <<generatedEnv, generatedHosts, dist>>
    BY <1>4 DEF TruncateConfig, Change
  <2>2. ToolTyped(tool'[t])
    BY <1>1, <1>4 DEF TruncateConfig, Shape, AtStage, ToolTyped, Stage
  <2>3. QED
    BY <1>2, <2>1, <2>2 DEF BuildTyped
<1>5. CASE WriteConfig(t)
  <2>1. UNCHANGED <<generatedEnv, generatedHosts, dist>>
    BY <1>5 DEF WriteConfig
  <2>2. env' \in Text
    <3>1. CASE tool[t].open
      BY <1>1, <1>5, <3>1, FilledTyped DEF WriteConfig, Written, ToolTyped
    <3>2. CASE ~tool[t].open
      BY <1>5, <3>2 DEF WriteConfig, BuildTyped
    <3>3. QED
      BY <3>1, <3>2
  <2>3. ToolTyped(tool'[t])
    BY <1>1, <1>5 DEF WriteConfig, Shape, AtStage, ToolTyped, Stage
  <2>4. QED
    BY <1>2, <2>1, <2>2, <2>3 DEF BuildTyped
<1>6. CASE ReadForEmbedding(t) \/ GenerateEnv(t)
  <2>1. UNCHANGED <<env, generatedHosts, dist>> /\ generatedEnv' \in Text
    BY <1>1, <1>6 DEF ReadForEmbedding, GenerateEnv, fileVars, BuildTyped, ToolTyped
  <2>2. /\ tool'[t].stage \in {"generate", "sources"} /\ tool'[t].text \in Text
        /\ tool'[t].flags = tool[t].flags /\ tool'[t].lines = tool[t].lines
        /\ tool'[t].open = tool[t].open /\ tool[t].stage \in {"embed", "generate"}
    <3>1. CASE ReadForEmbedding(t)
      BY <3>1 DEF ReadForEmbedding, Shape, AtStage, BuildTyped
    <3>2. CASE GenerateEnv(t)
      BY <1>1, <3>2 DEF GenerateEnv, Goto, Shape, AtStage, ToolTyped
    <3>3. QED
      BY <1>6, <3>1, <3>2
  <2>3. ToolTyped(tool'[t])
    BY <1>1, <2>2 DEF ToolTyped, Stage
  <2>4. QED
    BY <1>2, <2>1, <2>3 DEF BuildTyped
<1>7. CASE GenerateHosts(t)
  <2>1. UNCHANGED <<env, generatedEnv, dist>>
    BY <1>7 DEF GenerateHosts, fileVars
  <2>2. QED
    BY <1>2, <1>7, <2>1, GenerateHostsTyped DEF BuildTyped
<1>8. CASE BuildTarget(t)
  <2>1. UNCHANGED <<env, generatedEnv, generatedHosts>>
    BY <1>8 DEF BuildTarget, fileVars
  <2>2. QED
    BY <1>2, <1>8, <2>1, BuildTargetTyped DEF BuildTyped
<1>9. CASE Aborted(t)
  <2>1. UNCHANGED <<env, generatedEnv, generatedHosts, dist>>
    BY <1>9 DEF Aborted
  <2>2. ToolTyped(tool'[t])
    BY <1>1, <1>9 DEF Aborted, Goto, Shape, ToolTyped, Stage
  <2>3. QED
    BY <1>2, <2>1, <2>2 DEF BuildTyped
<1>10. QED
  BY <1>3, <1>4, <1>5, <1>6, <1>7, <1>8, <1>9 DEF ToolStep

LEMMA SaveTyped ==
  ASSUME Shape, BuildTyped, NEW replaced \in BOOLEAN, Overtake(replaced), env' \in Text
  PROVE  BuildTyped'
<1>1. UNCHANGED <<generatedEnv, generatedHosts, dist>>
  BY DEF Overtake
<1>2. ASSUME NEW t \in Tool PROVE ToolTyped(tool'[t])
  <2>1. /\ tool'[t].stage = tool[t].stage /\ tool'[t].flags = tool[t].flags
        /\ tool'[t].text = tool[t].text /\ tool'[t].lines = tool[t].lines
        /\ tool'[t].rest = tool[t].rest
        /\ tool'[t].open => tool[t].open
    BY DEF Overtake, Shape
  <2>2. ToolTyped(tool[t])
    BY DEF BuildTyped
  <2>3. QED
    BY <2>1, <2>2 DEF ToolTyped
<1>3. QED
  BY <1>1, <1>2 DEF BuildTyped

LEMMA UserStepTyped ==
  ASSUME Shape, BuildTyped, UserStep
  PROVE  BuildTyped'
<1>1. ASSUME NEW doc \in Documents, SaveByRename(doc), Overtake(TRUE)
      PROVE  BuildTyped'
  BY <1>1, SaveTyped, SomeTexts DEF SaveByRename, Change
<1>2. ASSUME NEW doc \in Documents, TruncateInPlace(doc), Overtake(FALSE)
      PROVE  BuildTyped'
  BY <1>2, SaveTyped, SomeTexts DEF TruncateInPlace, Change
<1>3. ASSUME WriteInPlace, Overtake(FALSE) PROVE BuildTyped'
  <2>1. editing \in Text
    BY SomeTexts DEF Shape
  <2>2. env' \in Text
    BY <1>3, <2>1, FilledTyped DEF WriteInPlace
  <2>3. QED
    BY <1>3, <2>2, SaveTyped
<1>4. ASSUME ChangeOther, UNCHANGED buildVars PROVE BuildTyped'
  BY <1>4 DEF ChangeOther, buildVars, BuildTyped
<1>5. ASSUME NEW t \in Tool, NEW flags \in Flags, Invoke(t, flags) PROVE BuildTyped'
  <2>1. UNCHANGED <<env, generatedEnv, generatedHosts, dist>>
    BY <1>5 DEF Invoke
  <2>2. ASSUME NEW u \in Tool PROVE ToolTyped(tool'[u])
    <3>1. /\ tool'[u].text = tool[u].text /\ tool'[u].lines = tool[u].lines
          /\ tool'[u].rest = tool[u].rest /\ tool'[u].open = tool[u].open
          /\ \/ tool'[u].stage = tool[u].stage /\ tool'[u].flags = tool[u].flags
             \/ /\ tool[u].stage = "idle"
                /\ tool'[u].stage = "read" /\ tool'[u].flags = flags
      BY <1>5 DEF Invoke, Shape, AtStage
    <3>2. QED
      BY <3>1 DEF BuildTyped, ToolTyped, Stage
  <2>3. QED
    BY <2>1, <2>2 DEF BuildTyped
<1>6. QED
  BY <1>1, <1>2, <1>3, <1>4, <1>5 DEF UserStep

LEMMA LoaderStepTyped ==
  ASSUME LoaderInv, LoaderTyped, env \in Text, LoaderStep
  PROVE  LoaderTyped'
<1>1. CASE NewLoader
  BY <1>1, LoadedTyped DEF NewLoader, LoaderInv, LoaderTyped
<1>2. CASE AddWatch \/ NextEvent \/ CancelWatch
  BY <1>2 DEF AddWatch, NextEvent, CancelWatch, LoaderInv, LoaderTyped
<1>3. CASE ReadFile
  BY <1>3 DEF ReadFile, LoaderInv, LoaderTyped
<1>4. CASE Adopt
  BY <1>4, LoadedTyped, SomeTexts DEF Adopt, LoaderInv, LoaderTyped
<1>5. CASE Notify
  BY <1>5 DEF Notify, LoaderInv, LoaderTyped
<1>6. QED
  BY <1>1, <1>2, <1>3, <1>4, <1>5 DEF LoaderStep

LEMMA TypesAlways == Spec => [](SettingsInv /\ LoaderInv /\ BuildTyped /\ LoaderTyped)
<1>1. SettingsInv /\ LoaderInv /\ BuildTyped /\ LoaderTyped /\ [Next]_vars
        => BuildTyped' /\ LoaderTyped'
  <2> SUFFICES ASSUME SettingsInv, LoaderInv, BuildTyped, LoaderTyped, [Next]_vars
               PROVE  BuildTyped' /\ LoaderTyped'
    OBVIOUS
  <2>1. Shape /\ env \in Text
    BY DEF SettingsInv, BuildTyped
  <2>2. CASE UserStep /\ UNCHANGED loader
    BY <2>1, <2>2, UserStepTyped DEF LoaderTyped
  <2>3. ASSUME NEW t \in Tool, ToolStep(t), UNCHANGED loader
        PROVE  BuildTyped' /\ LoaderTyped'
    BY <2>1, <2>3, ToolStepTyped DEF LoaderTyped
  <2>4. CASE LoaderStep /\ UNCHANGED buildVars
    <3>1. UNCHANGED env
      BY <2>4 DEF LoaderStep, NewLoader, AddWatch, NextEvent, ReadFile, Adopt, Notify,
         CancelWatch, fileVars
    <3>2. BuildTyped'
      BY <2>4, <3>1 DEF BuildTyped, buildVars
    <3>3. QED
      BY <2>1, <2>4, <3>2, LoaderStepTyped
  <2>5. CASE UNCHANGED vars
    BY <2>5 DEF vars, fileVars, buildVars, BuildTyped, LoaderTyped
  <2>6. QED
    BY <2>2, <2>3, <2>4, <2>5 DEF Next
<1>2. QED
  BY <1>1, InitTyped, SettingsInvAlways, LoaderInvAlways, PTL DEF Spec

\* env.json, every copy the tool and the loader have of it, and what the binaries
\* embed are documents or nothing at all; only an invocation that writes has
\* env.json open, and the directory is watched exactly while Watch runs.
THEOREM Typed == Spec => []TypeOK
<1>1. SettingsInv /\ LoaderInv /\ BuildTyped /\ LoaderTyped => TypeOK
  <2> SUFFICES ASSUME SettingsInv, LoaderInv, BuildTyped, LoaderTyped PROVE TypeOK
    OBVIOUS
  <2>1. Text \subseteq {NoDocument} \union Document
    BY SomeTexts
  <2>2. FileTypeOK
    BY <2>1 DEF FileTypeOK, SettingsInv, Shape, BuildTyped, LoaderInv, QueueTyped
  <2>3. QED
    BY <2>1, <2>2 DEF TypeOK, LoaderInv, BuildTyped, LoaderTyped, ToolTyped
<1>2. QED
  BY <1>1, TypesAlways, PTL

\* LoadFromBytes, normalizeEnvConfig, runApplication: what a binary enforces, for
\* whatever document it embeds and whoever built it: the defaults if the program
\* refuses the document, though the build tool did not, or if it names nothing;
\* else the addresses of DNS, if that is not empty, and never nothing unless the
\* list that is chosen names no address.
THEOREM Servers == Spec => []ServersEnforced
<1> DEFINE Sound(text) ==
             LET servers == ToSet(EnforcedServers(text))
                 own == {e.ip : e \in ToSet(text.DNS)} \ {""}
             IN /\ ~Loads(text) => servers = ToSet(DefaultDNS)
                /\ Loads(text) =>
                     /\ text.DNS # <<>> => servers = own
                     /\ text.DNS \o text.dns \o text.upstreamDNS = <<>>
                          => servers = ToSet(DefaultDNS)
                     /\ servers # {} \/ \A e \in ToSet(ChosenDNS(text)) : e.ip = ""
<1>1. ASSUME BuildTyped, NEW b \in DOMAIN dist PROVE Sound(dist[b].env)
  <2> DEFINE doc == dist[b].env
             servers == ToSet(EnforcedServers(doc))
             chosen == ChosenDNS(doc)
  <2>1. CASE ~Loads(doc)
    BY <2>1 DEF EnforcedServers
  <2>2. CASE Loads(doc)
    <3>1. doc \in Document
      BY <2>2, <1>1, SomeTexts DEF BuildTyped, Loads
    <3>2. servers = IF chosen = <<>> THEN ToSet(DefaultDNS) ELSE Addresses(chosen)
      BY <2>2, <3>1, Enforced
    <3>3. "1.1.1.1" \in ToSet(DefaultDNS)
      BY DEF DefaultDNS, ToSet
    <3>4. chosen = <<>> => servers # {}
      BY <3>2, <3>3
    <3>5. chosen # <<>> /\ servers = {} => \A e \in ToSet(chosen) : e.ip = ""
      BY <3>2 DEF Addresses
    <3>6. doc.DNS # <<>> => chosen = doc.DNS
      BY DEF ChosenDNS
    <3>7. doc.DNS # <<>> => servers = {e.ip : e \in ToSet(doc.DNS)} \ {""}
      BY <3>2, <3>6 DEF Addresses
    <3>8. doc.DNS \o doc.dns \o doc.upstreamDNS = <<>> => servers = ToSet(DefaultDNS)
      <4>1. doc.DNS \in Seq(Entry) /\ doc.dns \in Seq(Entry) /\ doc.upstreamDNS \in Seq(Entry)
        BY <3>1 DEF Document
      <4>2. doc.DNS \o doc.dns \o doc.upstreamDNS = <<>> =>
              doc.DNS = <<>> /\ doc.dns = <<>> /\ doc.upstreamDNS = <<>>
        BY <4>1, NothingJoined
      <4>3. QED
        BY <3>2, <4>2 DEF ChosenDNS
    <3> HIDE DEF servers, chosen, doc
    <3>9. QED
      BY <2>2, <3>4, <3>5, <3>7, <3>8 DEF servers, chosen, doc
  <2>3. QED
    BY <2>1, <2>2
<1>2. BuildTyped => ServersEnforced
  <2> SUFFICES ASSUME BuildTyped, NEW binary \in {dist[b] : b \in DOMAIN dist}
               PROVE  Sound(binary.env)
    BY DEF ServersEnforced
  <2>1. PICK b \in DOMAIN dist : binary = dist[b]
    OBVIOUS
  <2> HIDE DEF Sound
  <2>2. QED
    BY <1>1, <2>1
<1>3. QED
  BY <1>2, TypesAlways, PTL

-----------------------------------------------------------------------------
(* An invocation that nobody disturbs.                                     *)

Others(t) == Tool \ {t}

\* The list of torEntryIPs, from reading env.json to the end.  While no invocation
\* has opened env.json, it is the file the user saved.
Fits(text, limit, given, kept) ==
    /\ "torEntryIPs" \notin text.misfits
    /\ Normal(text.torEntryIPs, limit)
    /\ kept => TakenFrom(text.torEntryIPs, given, limit)
Rewritten == {"embed", "generate", "sources", "fetchBlock", "generateHosts", "build",
              "done"}
ListSound(r, file, given, kept) ==
    /\ r.stage \in {"truncate", "write"} =>
         Fits(r.text, r.flags.limit, given, kept)
    /\ r.stage = "write" => r.open /\ file = NoDocument
    /\ r.stage \in Rewritten =>
         file # NoDocument /\ Fits(file, r.flags.limit, given, kept)
KeepsList(t) ==
    ~tool[t].flags.refresh /\ \A u \in Others(t) : tool[u].stage = "idle"
FirstRead ==
    (\A t \in Tool : tool[t].stage \in {"idle", "read", "fetch", "truncate"})
      => env \in {saved, NoDocument}

\* The redirects of the sources that are merged, and of those that are left, are
\* those of env.json.
RedirectsOf(sources) == UNION {ToSet(ParseLines(Fetched(source))) : source \in sources}
RedirectsSound(r, file, embedded, hosts) ==
    /\ r.stage = "generate" => r.text = file
    /\ r.stage \in {"sources", "fetchBlock", "generateHosts", "build", "done"} =>
         embedded = file
    /\ r.stage \in {"fetchBlock", "generateHosts"} => NoDuplicates(r.lines)
    /\ r.stage = "fetchBlock" =>
         ToSet(r.lines) \union RedirectsOf(ToSet(r.rest)) = Redirects(file)
    /\ r.stage = "generateHosts" => ToSet(r.lines) = Redirects(file)
    /\ r.stage \in {"build", "done"} =>
         NoDuplicates(hosts) /\ ToSet(hosts) = Redirects(file)

\* The targets that are built hold the generated sources.
BinariesSound(r, embedded, hosts, binaries) ==
    /\ r.stage = "done" => r.rest = <<>>
    /\ r.stage \in {"build", "done"} =>
         \A target \in ToSet(r.flags.targets) \ ToSet(r.rest) :
            binaries[<<target, r.flags.unprotected>>] =
                [env |-> embedded, hosts |-> hosts, built |-> TRUE]

InvocationSound(t) ==
    /\ \A u \in Others(t) : ~Active(u)
    /\ ListSound(tool[t], env, Addresses(saved.torEntryIPs), KeepsList(t))
    /\ RedirectsSound(tool[t], env, generatedEnv, generatedHosts)
    /\ BinariesSound(tool[t], generatedEnv, generatedHosts, dist)
BuildInv ==
    /\ FirstRead
    /\ \A t \in Tool : tool[t].fresh /\ tool[t].stage # "idle" => InvocationSound(t)

LEMMA EmptyList ==
  /\ ToSet(<<>>) = {} /\ NoDuplicates(<<>>) /\ RedirectsOf({}) = {}
  BY DEF ToSet, NoDuplicates, RedirectsOf

LEMMA RedirectsAre ==
  ASSUME NEW doc
  PROVE  Redirects(doc) = RedirectsOf(ToSet(LoadSources(doc)))
  BY DEF Redirects, RedirectsOf

LEMMA OneMoreSource ==
  ASSUME NEW source, NEW sources
  PROVE  RedirectsOf({source} \union sources) =
            ToSet(ParseLines(Fetched(source))) \union RedirectsOf(sources)
  BY DEF RedirectsOf

\* The list an invocation writes is short of duplicates, and, if it is alone and
\* asks nobody for another, taken from that of the user.
LEMMA ListFits ==
  ASSUME NEW doc \in Text, doc # NoDocument, NEW list \in Seq(Entry), NEW limit \in Nat,
         NEW given, NEW kept, kept => Addresses(list) = given
  PROVE  Fits(WithTorIPs(doc, list, limit), limit, given, kept)
  BY RewrittenTyped, NormalizedList DEF Fits

\* What every step of an invocation leaves alone.
Alike(r, s) ==
    /\ s.flags = r.flags /\ s.fresh = r.fresh
LEMMA StepsAlike ==
  ASSUME Shape, NEW t \in Tool, ToolStep(t)
  PROVE  Alike(tool[t], tool'[t])
<1> USE DEF Shape, Alike
<1>1. CASE ReadConfig(t) \/ FetchTorGuardIPs(t)
  BY <1>1 DEF ReadConfig, FetchTorGuardIPs
<1>2. CASE TruncateConfig(t) \/ WriteConfig(t)
  BY <1>2 DEF TruncateConfig, WriteConfig
<1>3. CASE ReadForEmbedding(t) \/ GenerateEnv(t) \/ Aborted(t)
  BY <1>3 DEF ReadForEmbedding, GenerateEnv, Aborted, Goto
<1>4. CASE ReadSources(t) \/ FetchSource(t)
  BY <1>4 DEF ReadSources, FetchSource
<1>5. CASE GenerateHosts(t) \/ BuildTarget(t)
  BY <1>5 DEF GenerateHosts, BuildTarget
<1>6. QED
  BY <1>1, <1>2, <1>3, <1>4, <1>5 DEF ToolStep

LEMMA StepsOnFile ==
  ASSUME NEW t \in Tool, ToolStep(t)
  PROVE  /\ saved' = saved
         /\ ~TruncateConfig(t) /\ ~WriteConfig(t) => env' = env
  BY DEF ToolStep, ReadConfig, FetchTorGuardIPs, TruncateConfig, WriteConfig,
     ReadForEmbedding, GenerateEnv, ReadSources, FetchSource, GenerateHosts,
     BuildTarget, Aborted, fileVars

\* What a step leaves of an invocation.
SoundAfter(t) ==
    /\ ListSound(tool'[t], env', Addresses(saved.torEntryIPs), KeepsList(t))
    /\ RedirectsSound(tool'[t], env', generatedEnv', generatedHosts')
    /\ BinariesSound(tool'[t], generatedEnv', generatedHosts', dist')

LEMMA ReadSound ==
  ASSUME Shape, BuildTyped, FirstRead, NEW t \in Tool, InvocationSound(t), ReadConfig(t)
  PROVE  SoundAfter(t)
<1>1. ToolTyped(tool[t]) /\ env \in Text /\ tool[t].stage = "read"
  BY DEF BuildTyped, ReadConfig, AtStage
<1>2. CASE env = NoDocument
  <2>1. tool'[t].stage = "failed"
    BY <1>2 DEF ReadConfig, Shape
  <2>2. QED
    BY <2>1 DEF SoundAfter, ListSound, RedirectsSound, BinariesSound, Rewritten
<1>3. CASE env # NoDocument
  <2> DEFINE limit == tool[t].flags.limit
             text == WithTorIPs(env, env.torEntryIPs, limit)
             given == Addresses(saved.torEntryIPs)
             kept == KeepsList(t)
  <2>1. limit \in Nat /\ env.torEntryIPs \in Seq(Entry)
    BY <1>1, <1>3, FlagTypes, SomeTexts DEF ToolTyped, Document
  <2>2. kept => Addresses(env.torEntryIPs) = given
    <3>1. kept => \A u \in Tool : tool[u].stage \in {"idle", "read", "fetch", "truncate"}
      BY <1>1 DEF KeepsList, Others
    <3>2. QED
      BY <1>3, <3>1 DEF FirstRead
  <2>3. /\ tool'[t].stage \in {"fetch", "truncate"} /\ tool'[t].text = text
        /\ tool'[t].flags.limit = limit
    BY <1>3 DEF Shape, ReadConfig
  <2> HIDE DEF given, kept, limit
  <2>4. Fits(text, limit, given, kept)
    BY <1>1, <1>3, <2>1, <2>2, ListFits
  <2> HIDE DEF text
  <2>5. ListSound(tool'[t], env', given, kept)
    BY <2>3, <2>4 DEF ListSound, Rewritten
  <2>6. QED
    BY <2>3, <2>5 DEF SoundAfter, RedirectsSound, BinariesSound, given, kept
<1>4. QED
  BY <1>2, <1>3

LEMMA FetchSound ==
  ASSUME Shape, BuildTyped, NEW t \in Tool, InvocationSound(t), FetchTorGuardIPs(t)
  PROVE  SoundAfter(t)
<1> DEFINE limit == tool[t].flags.limit
           given == Addresses(saved.torEntryIPs)
           kept == KeepsList(t)
<1>1. PICK answer \in Answers :
        tool' = [tool EXCEPT ![t].stage = "truncate",
             ![t].text = WithTorIPs(@, NormalizeIPList(answer, limit), limit)]
  BY DEF FetchTorGuardIPs
<1>2. ToolTyped(tool[t]) /\ tool[t].stage = "fetch"
  BY DEF BuildTyped, FetchTorGuardIPs, AtStage
<1>3. tool[t].text \in Text /\ tool[t].text # NoDocument /\ limit \in Nat
  BY <1>2, FlagTypes DEF ToolTyped
<1>4. NormalizeIPList(answer, limit) \in Seq(Entry)
  BY <1>3, AnswersAssumption, NormalizedList
<1> DEFINE text == WithTorIPs(tool[t].text, NormalizeIPList(answer, limit), limit)
<1>5. /\ tool'[t].stage = "truncate" /\ tool'[t].text = text
      /\ tool'[t].flags.limit = limit
  BY <1>1 DEF Shape
<1>6. kept = FALSE
  <2>1. tool[t].flags.refresh
    BY <1>2 DEF ToolTyped
  <2>2. QED
    BY <2>1 DEF KeepsList
<1> HIDE DEF given, kept, limit
<1>7. Fits(text, limit, given, kept)
  BY <1>3, <1>4, <1>6, ListFits
<1> HIDE DEF text
<1>8. ListSound(tool'[t], env', given, kept)
  BY <1>5, <1>7 DEF ListSound, Rewritten
<1>9. QED
  BY <1>5, <1>8 DEF SoundAfter, RedirectsSound, BinariesSound, given, kept

LEMMA TruncateSound ==
  ASSUME Shape, NEW t \in Tool, InvocationSound(t), TruncateConfig(t)
  PROVE  SoundAfter(t)
<1>1. /\ tool[t].stage = "truncate" /\ tool'[t].stage = "write" /\ tool'[t].open
      /\ tool'[t].text = tool[t].text /\ tool'[t].flags = tool[t].flags
  BY DEF TruncateConfig, Shape, AtStage
<1>2. env' = NoDocument
  BY DEF TruncateConfig, Change
<1>3. QED
  BY <1>1, <1>2 DEF InvocationSound, SoundAfter, ListSound, RedirectsSound,
     BinariesSound, Rewritten

LEMMA WriteSound ==
  ASSUME Shape, BuildTyped, NEW t \in Tool, InvocationSound(t), WriteConfig(t)
  PROVE  SoundAfter(t)
<1>1. /\ tool[t].stage = "write" /\ tool'[t].stage = "embed"
      /\ tool'[t].flags = tool[t].flags
  BY DEF WriteConfig, Shape, AtStage
<1>2. tool[t].open /\ env = NoDocument
  BY <1>1 DEF InvocationSound, ListSound
<1>3. env' = tool[t].text
  BY <1>2 DEF WriteConfig, Written, Fill, Change
<1>4. env' # NoDocument
  BY <1>1, <1>3 DEF BuildTyped, ToolTyped
<1>5. QED
  BY <1>1, <1>3, <1>4 DEF InvocationSound, SoundAfter, ListSound, RedirectsSound,
     BinariesSound, Rewritten

\* After that an invocation leaves env.json as it is.
LEMMA ListStays ==
  ASSUME NEW r, NEW s, NEW file, NEW given, NEW kept,
         ListSound(r, file, given, kept), r.stage \in Rewritten,
         s.flags = r.flags, s.stage \in Rewritten \union {"failed"}
  PROVE  ListSound(s, file, given, kept) /\ file # NoDocument
  BY DEF ListSound, Rewritten

LEMMA EmbedSound ==
  ASSUME Shape, NEW t \in Tool, InvocationSound(t), ReadForEmbedding(t) \/ GenerateEnv(t)
  PROVE  SoundAfter(t)
<1>1. /\ tool[t].stage \in Rewritten /\ tool'[t].stage \in Rewritten
      /\ tool'[t].flags = tool[t].flags /\ UNCHANGED env
  <2>1. CASE ReadForEmbedding(t)
    BY <2>1 DEF ReadForEmbedding, Shape, AtStage, fileVars, Rewritten
  <2>2. CASE GenerateEnv(t)
    BY <2>2 DEF GenerateEnv, Goto, Shape, AtStage, fileVars, Rewritten
  <2>3. QED
    BY <2>1, <2>2
<1>2. ListSound(tool'[t], env', Addresses(saved.torEntryIPs), KeepsList(t))
  BY <1>1, ListStays DEF InvocationSound
<1>3. RedirectsSound(tool'[t], env', generatedEnv', generatedHosts')
  <2>1. CASE ReadForEmbedding(t)
    <3>1. tool'[t].stage = "generate" /\ tool'[t].text = env
      BY <2>1 DEF ReadForEmbedding, Shape
    <3>2. QED
      BY <1>1, <3>1 DEF RedirectsSound
  <2>2. CASE GenerateEnv(t)
    <3>1. /\ tool[t].stage = "generate" /\ tool'[t].stage = "sources"
          /\ generatedEnv' = tool[t].text
      BY <2>2 DEF GenerateEnv, Goto, Shape, AtStage
    <3>2. QED
      BY <1>1, <3>1 DEF InvocationSound, RedirectsSound
  <2>3. QED
    BY <2>1, <2>2
<1>4. BinariesSound(tool'[t], generatedEnv', generatedHosts', dist')
  <2>1. tool'[t].stage \in {"generate", "sources"}
    BY DEF ReadForEmbedding, GenerateEnv, Goto, Shape
  <2>2. QED
    BY <2>1 DEF BinariesSound
<1>5. QED
  BY <1>2, <1>3, <1>4 DEF SoundAfter

LEMMA SourcesSound ==
  ASSUME Shape, NEW t \in Tool, InvocationSound(t), ReadSources(t)
  PROVE  SoundAfter(t)
<1>1. tool[t].stage = "sources" /\ UNCHANGED <<env, generatedEnv>>
  BY DEF ReadSources, AtStage, fileVars
<1>2. env # NoDocument /\ generatedEnv = env
  BY <1>1 DEF InvocationSound, ListSound, RedirectsSound, Rewritten
<1>3. CASE ~SourcesLoad(env)
  <2>1. tool'[t].stage = "failed"
    BY <1>3 DEF ReadSources, Shape
  <2>2. QED
    BY <2>1 DEF SoundAfter, ListSound, RedirectsSound, BinariesSound, Rewritten
<1>4. CASE SourcesLoad(env)
  <2> DEFINE sources == LoadSources(env)
  <2>1. /\ tool'[t].rest = sources /\ tool'[t].lines = <<>>
        /\ tool'[t].stage = IF sources = <<>> THEN "generateHosts" ELSE "fetchBlock"
        /\ tool'[t].flags = tool[t].flags
    BY <1>4 DEF Shape, ReadSources
  <2>2. ListSound(tool'[t], env', Addresses(saved.torEntryIPs), KeepsList(t))
    BY <1>1, <2>1, ListStays DEF InvocationSound, Rewritten
  <2>3. Redirects(env) = RedirectsOf(ToSet(sources))
    BY RedirectsAre
  <2> HIDE DEF sources
  <2>4. RedirectsSound(tool'[t], env', generatedEnv', generatedHosts')
    <3>1. ToSet(tool'[t].lines) = {} /\ NoDuplicates(tool'[t].lines)
      BY <2>1, EmptyList
    <3>2. sources = <<>> => Redirects(env) = {}
      BY <2>3, EmptyList
    <3>3. QED
      BY <1>1, <1>2, <2>1, <2>3, <3>1, <3>2 DEF RedirectsSound
  <2>5. BinariesSound(tool'[t], generatedEnv', generatedHosts', dist')
    BY <2>1 DEF BinariesSound
  <2>6. QED
    BY <2>2, <2>4, <2>5 DEF SoundAfter
<1>5. QED
  BY <1>3, <1>4

LEMMA FetchSourceSound ==
  ASSUME Shape, BuildTyped, NEW t \in Tool, InvocationSound(t), FetchSource(t)
  PROVE  SoundAfter(t)
<1> DEFINE before == tool[t].lines
           lines == Merge(before, Head(tool[t].rest))
           rest == Tail(tool[t].rest)
<1>1. /\ tool[t].stage = "fetchBlock"
      /\ tool'[t].lines = lines /\ tool'[t].rest = rest
      /\ tool'[t].stage = IF rest # <<>> THEN "fetchBlock"
                          ELSE IF lines = <<>> THEN "failed" ELSE "generateHosts"
      /\ tool'[t].flags = tool[t].flags
  BY FetchSourceEffect
<1>2. UNCHANGED <<env, generatedEnv>>
  BY DEF FetchSource, fileVars
<1>3. /\ tool[t].rest # <<>> /\ tool[t].rest \in Seq(DOMAIN Site)
      /\ before \in Seq(Lines)
  BY <1>1 DEF BuildTyped, ToolTyped
<1>4. /\ Head(tool[t].rest) \in DOMAIN Site
      /\ ToSet(tool[t].rest) = {Head(tool[t].rest)} \union ToSet(rest)
  BY <1>3, HeadAndTail
<1>5. /\ NoDuplicates(lines)
      /\ ToSet(lines) = ToSet(before) \union ToSet(ParseLines(Fetched(Head(tool[t].rest))))
  BY <1>3, <1>4, MergedLines
<1>6. ToSet(before) \union RedirectsOf(ToSet(tool[t].rest)) = Redirects(env)
  BY <1>1 DEF InvocationSound, RedirectsSound
<1>7. RedirectsOf(ToSet(tool[t].rest)) =
        ToSet(ParseLines(Fetched(Head(tool[t].rest)))) \union RedirectsOf(ToSet(rest))
  BY <1>4, OneMoreSource
<1>8. ToSet(lines) \union RedirectsOf(ToSet(rest)) = Redirects(env)
  BY <1>5, <1>6, <1>7
<1>9. rest = <<>> => RedirectsOf(ToSet(rest)) = {}
  BY EmptyList
<1>10. ListSound(tool'[t], env', Addresses(saved.torEntryIPs), KeepsList(t))
  BY <1>1, <1>2, ListStays DEF InvocationSound, Rewritten
<1>11. generatedEnv = env
  BY <1>1 DEF InvocationSound, RedirectsSound
<1> HIDE DEF lines, rest, before
<1>12. RedirectsSound(tool'[t], env', generatedEnv', generatedHosts')
  BY <1>1, <1>2, <1>5, <1>8, <1>9, <1>11 DEF RedirectsSound
<1>13. BinariesSound(tool'[t], generatedEnv', generatedHosts', dist')
  BY <1>1 DEF BinariesSound
<1>14. QED
  BY <1>10, <1>12, <1>13 DEF SoundAfter

LEMMA GenerateHostsSound ==
  ASSUME Shape, NEW t \in Tool, InvocationSound(t), GenerateHosts(t)
  PROVE  SoundAfter(t)
<1> DEFINE targets == tool[t].flags.targets
<1>1. /\ tool[t].stage = "generateHosts" /\ UNCHANGED <<env, generatedEnv>>
      /\ tool'[t].rest = targets /\ generatedHosts' = tool[t].lines
      /\ tool'[t].stage = IF targets = <<>> THEN "done" ELSE "build"
      /\ tool'[t].flags = tool[t].flags
  BY DEF Shape, GenerateHosts, AtStage, fileVars
<1>2. ListSound(tool'[t], env', Addresses(saved.torEntryIPs), KeepsList(t))
  BY <1>1, ListStays DEF InvocationSound, Rewritten
<1>3. RedirectsSound(tool'[t], env', generatedEnv', generatedHosts')
  BY <1>1 DEF InvocationSound, RedirectsSound
<1>4. BinariesSound(tool'[t], generatedEnv', generatedHosts', dist')
  BY <1>1 DEF BinariesSound
<1>5. QED
  BY <1>2, <1>3, <1>4 DEF SoundAfter

LEMMA BuildTargetSound ==
  ASSUME Shape, BuildTyped, NEW t \in Tool, InvocationSound(t), BuildTarget(t)
  PROVE  SoundAfter(t)
<1> DEFINE rest == Tail(tool[t].rest)
           first == Head(tool[t].rest)
           targets == tool[t].flags.targets
           unprotected == tool[t].flags.unprotected
           now == [env |-> generatedEnv, hosts |-> generatedHosts, built |-> TRUE]
<1>1. /\ tool[t].stage = "build" /\ tool'[t].rest = rest
      /\ tool'[t].stage = IF rest = <<>> THEN "done" ELSE "build"
      /\ tool'[t].flags = tool[t].flags
  BY BuildTargetEffect
<1>2. /\ UNCHANGED <<env, generatedEnv, generatedHosts>>
      /\ dist' = [dist EXCEPT ![<<first, unprotected>>] = now]
  BY DEF BuildTarget, fileVars
<1>3. ToolTyped(tool[t]) /\ tool[t].flags \in Flags
  BY DEF BuildTyped, ToolTyped
<1>4. /\ tool[t].rest # <<>> /\ tool[t].rest \in Seq(ToSet(targets))
      /\ unprotected \in BOOLEAN
  BY <1>1, <1>3, FlagTypes DEF ToolTyped
<1>5. first \in ToSet(targets) /\ ToSet(tool[t].rest) = {first} \union ToSet(rest)
  BY <1>4, HeadAndTail
<1>6. \A target \in ToSet(targets) : <<target, unprotected>> \in DOMAIN dist
  BY <1>3, <1>4 DEF BuildTyped, Binaries
<1>7. ListSound(tool'[t], env', Addresses(saved.torEntryIPs), KeepsList(t))
  BY <1>1, <1>2, ListStays DEF InvocationSound, Rewritten
<1>8. RedirectsSound(tool'[t], env', generatedEnv', generatedHosts')
  BY <1>1, <1>2 DEF InvocationSound, RedirectsSound
<1>9. \A target \in ToSet(targets) \ ToSet(tool[t].rest) : dist[<<target, unprotected>>] = now
  BY <1>1 DEF InvocationSound, BinariesSound
<1>10. ASSUME NEW target \in ToSet(targets) \ ToSet(rest)
       PROVE  dist'[<<target, unprotected>>] = now
  <2>1. <<target, unprotected>> \in DOMAIN dist
    BY <1>6
  <2>2. CASE target = first
    BY <1>2, <2>1, <2>2
  <2>3. CASE target # first
    <3>1. dist[<<target, unprotected>>] = now
      BY <1>5, <1>9, <2>3
    <3>2. dist'[<<target, unprotected>>] = dist[<<target, unprotected>>]
      BY <1>2, <2>1, <2>3
    <3>3. QED
      BY <3>1, <3>2
  <2>4. QED
    BY <2>2, <2>3
<1>11. BinariesSound(tool'[t], generatedEnv', generatedHosts', dist')
  BY <1>1, <1>2, <1>10 DEF BinariesSound
<1>12. QED
  BY <1>7, <1>8, <1>11 DEF SoundAfter

LEMMA AbortedSound ==
  ASSUME Shape, NEW t \in Tool, Aborted(t)
  PROVE  SoundAfter(t)
<1>1. tool'[t].stage = "failed"
  BY DEF Aborted, Goto, Shape
<1>2. QED
  BY <1>1 DEF SoundAfter, ListSound, RedirectsSound, BinariesSound, Rewritten

LEMMA ToolStepSound ==
  ASSUME Shape, BuildTyped, BuildInv, NEW t \in Tool, ToolStep(t)
  PROVE  BuildInv'
<1>1. StepOf(t) /\ Alike(tool[t], tool'[t]) /\ saved' = saved
  BY StepsAreOwn, StepsAlike, StepsOnFile
<1>2. FirstRead'
  <2>1. CASE TruncateConfig(t)
    BY <2>1 DEF TruncateConfig, Shape, FirstRead
  <2>2. CASE WriteConfig(t)
    BY <2>2 DEF WriteConfig, Shape, FirstRead
  <2>3. CASE ~TruncateConfig(t) /\ ~WriteConfig(t)
    <3>1. env' = env
      BY <2>3, StepsOnFile
    <3>2. tool'[t].stage \in {"idle", "read", "fetch", "truncate"} =>
            tool[t].stage \in {"idle", "read", "fetch", "truncate"}
      <4>1. CASE ReadConfig(t) \/ FetchTorGuardIPs(t)
        BY <4>1 DEF ReadConfig, FetchTorGuardIPs, AtStage
      <4>2. CASE ReadForEmbedding(t) \/ GenerateEnv(t) \/ Aborted(t)
        BY <4>2 DEF ReadForEmbedding, GenerateEnv, Aborted, Goto, Shape
      <4>3. CASE ReadSources(t)
        BY <4>3 DEF ReadSources, Shape
      <4>4. CASE FetchSource(t)
        BY <4>4, FetchSourceEffect
      <4>5. CASE GenerateHosts(t)
        BY <4>5 DEF GenerateHosts, Shape
      <4>6. CASE BuildTarget(t)
        BY <4>6, BuildTargetEffect
      <4>7. QED
        BY <2>3, <4>1, <4>2, <4>3, <4>4, <4>5, <4>6 DEF ToolStep
    <3>3. QED
      BY <1>1, <3>1, <3>2 DEF BuildInv, FirstRead, StepOf
  <2>4. QED
    BY <2>1, <2>2, <2>3
<1>3. ASSUME NEW u \in Tool, (tool[u].fresh /\ tool[u].stage # "idle")'
      PROVE  InvocationSound(u)'
  <2>1. u = t
    BY <1>1, <1>3 DEF BuildInv, InvocationSound, StepOf, Others
  <2>2. InvocationSound(t)
    BY <1>1, <1>3, <2>1 DEF BuildInv, Alike, StepOf, Active
  <2>3. SoundAfter(t)
    BY <2>2, ReadSound, FetchSound, TruncateSound, WriteSound, EmbedSound, SourcesSound,
       FetchSourceSound, GenerateHostsSound, BuildTargetSound, AbortedSound
       DEF ToolStep, BuildInv
  <2>4. KeepsList(t)' = KeepsList(t) /\ \A v \in Others(t) : ~Active(v)'
    BY <1>1, <2>2 DEF KeepsList, Alike, StepOf, Others, InvocationSound, Active
  <2>5. QED
    BY <1>1, <2>1, <2>3, <2>4 DEF InvocationSound, SoundAfter, Others
<1>4. QED
  BY <1>2, <1>3 DEF BuildInv

\* A save leaves no invocation undisturbed.
LEMMA SaveSound ==
  ASSUME Shape, BuildInv, NEW replaced \in BOOLEAN, Overtake(replaced),
         FirstRead => env' \in {saved', NoDocument}
  PROVE  BuildInv'
<1>1. \A t \in Tool : tool'[t].fresh = FALSE
  BY DEF Shape, Overtake
<1>2. FirstRead'
  BY DEF BuildInv, FirstRead
<1>3. QED
  BY <1>1, <1>2 DEF BuildInv

LEMMA UserStepSound ==
  ASSUME Shape, BuildInv, UserStep
  PROVE  BuildInv'
<1>1. ASSUME NEW doc \in Documents, SaveByRename(doc), Overtake(TRUE)
      PROVE  BuildInv'
  BY <1>1, SaveSound DEF SaveByRename, Change
<1>2. ASSUME NEW doc \in Documents, TruncateInPlace(doc), Overtake(FALSE)
      PROVE  BuildInv'
  BY <1>2, SaveSound DEF TruncateInPlace, Change
<1>3. ASSUME WriteInPlace, Overtake(FALSE) PROVE BuildInv'
  BY <1>3, SaveSound DEF WriteInPlace, Fill, Change
<1>4. ASSUME ChangeOther, UNCHANGED buildVars PROVE BuildInv'
  BY <1>4 DEF ChangeOther, buildVars, BuildInv, FirstRead, InvocationSound, KeepsList,
     Active
<1>5. ASSUME NEW t \in Tool, NEW flags \in Flags, Invoke(t, flags) PROVE BuildInv'
  <2> DEFINE others == \E u \in Tool : Active(u)
  <2>1. /\ UNCHANGED <<env, saved>> /\ tool[t].stage = "idle"
        /\ tool'[t].stage = "read" /\ tool'[t].fresh = ~others
        /\ \A u \in Others(t) : tool'[u].stage = tool[u].stage /\ tool'[u].fresh = FALSE
    BY <1>5 DEF Invoke, Shape, AtStage, Others
  <2>2. FirstRead'
    BY <2>1 DEF BuildInv, FirstRead, Others
  <2>3. ASSUME NEW u \in Tool, (tool[u].fresh /\ tool[u].stage # "idle")'
        PROVE  InvocationSound(u)'
    <3>1. u = t /\ ~others
      BY <2>1, <2>3 DEF Others
    <3>2. \A v \in Others(t) : ~Active(v)'
      BY <2>1, <3>1 DEF Others, Active
    <3>3. /\ ListSound(tool'[t], env', Addresses(saved'.torEntryIPs), KeepsList(t)')
          /\ RedirectsSound(tool'[t], env', generatedEnv', generatedHosts')
          /\ BinariesSound(tool'[t], generatedEnv', generatedHosts', dist')
      BY <2>1 DEF ListSound, RedirectsSound, BinariesSound, Rewritten
    <3>4. QED
      BY <3>1, <3>2, <3>3 DEF InvocationSound, Others
  <2>4. QED
    BY <2>2, <2>3 DEF BuildInv
<1>6. QED
  BY <1>1, <1>2, <1>3, <1>4, <1>5 DEF UserStep

LEMMA BuildInvAlways == Spec => []BuildInv
<1>1. Init => BuildInv
  BY DEF Init, FileInit, BuildInit, BuildInv, FirstRead
<1>2. Shape /\ BuildTyped /\ BuildInv /\ [Next]_vars => BuildInv'
  <2> SUFFICES ASSUME Shape, BuildTyped, BuildInv, [Next]_vars PROVE BuildInv'
    OBVIOUS
  <2>1. CASE UserStep
    BY <2>1, UserStepSound
  <2>2. ASSUME NEW t \in Tool, ToolStep(t) PROVE BuildInv'
    BY <2>2, ToolStepSound
  <2>3. CASE (LoaderStep /\ UNCHANGED buildVars) \/ UNCHANGED vars
    <3>1. UNCHANGED <<env, saved>> /\ UNCHANGED buildVars
      BY <2>3 DEF LoaderStep, NewLoader, AddWatch, NextEvent, ReadFile, Adopt, Notify,
         CancelWatch, fileVars, vars
    <3>2. QED
      BY <3>1 DEF buildVars, BuildInv, FirstRead, InvocationSound, KeepsList, Active
  <2>4. QED
    BY <2>1, <2>2, <2>3 DEF Next
<1>3. SettingsInv => Shape
  BY DEF SettingsInv
<1>4. QED
  BY <1>1, <1>2, <1>3, TypesAlways, PTL DEF Spec

\* normalizeConfigTorIPs: an undisturbed invocation leaves a list of addresses
\* without ports, each once, no more than -tor-ip-limit of them and, if it alone
\* has kept the list of the user, all of that list if there is no limit or the
\* limit is not exceeded, else as many as it allows, for any list and any answer.
THEOREM TorList == Spec => []TorListKept
<1>1. BuildInv => TorListKept
  <2> SUFFICES ASSUME BuildInv, NEW t \in Tool, tool[t].stage = "done", tool[t].fresh
               PROVE  LET list == env.torEntryIPs
                          limit == tool[t].flags.limit
                          given == {e.ip : e \in ToSet(saved.torEntryIPs)} \ {""}
                          kept == /\ ~tool[t].flags.refresh
                                  /\ \A u \in Tool \ {t} : tool[u].stage = "idle"
                      IN /\ "torEntryIPs" \notin env.misfits
                         /\ NoDuplicates(list)
                         /\ \A e \in ToSet(list) : e.form = "plain" /\ e.ip # ""
                         /\ limit > 0 => Len(list) <= limit
                         /\ kept => /\ {e.ip : e \in ToSet(list)} \subseteq given
                                    /\ Len(list) = IF limit \in 1..Cardinality(given)
                                                     THEN limit ELSE Cardinality(given)
    BY DEF TorListKept
  <2>1. Fits(env, tool[t].flags.limit, Addresses(saved.torEntryIPs), KeepsList(t))
    BY DEF BuildInv, InvocationSound, ListSound, Rewritten
  <2>2. QED
    BY <2>1 DEF Fits, Normal, TakenFrom, Allowed, Addresses, KeepsList, Others
<1>2. QED
  BY <1>1, BuildInvAlways, PTL

\* A source that is read as a whole holds what is fetched of it.
LEMMA WholeSources ==
  ASSUME NEW doc \in Text, doc # NoDocument,
         \A source \in ToSet(LoadSources(doc)) : ReadWhole(source)
  PROVE  Listed(doc) = Redirects(doc)
<1>1. ASSUME NEW source \in ToSet(LoadSources(doc))
      PROVE  Fetched(source) = Site[source].lines
  <2> DEFINE lines == Site[source].lines
  <2>1. source \in DOMAIN Site
    BY DEF Text
  <2>2. lines \in Seq(Seq(Field))
    BY <2>1, SourcesAssumption
  <2>3. lines = [k \in DOMAIN lines |-> lines[k]]
    BY <2>2, LenProperties
  <2>4. ASSUME NEW k \in DOMAIN lines, Site[source].remote
        PROVE  LimitedLine(lines, k) = lines[k]
    <3>1. Size(lines, k) <= BodyLimit
      BY <2>4 DEF ReadWhole
    <3>2. QED
      BY <3>1 DEF LimitedLine
  <2>5. Fetched(source) = [k \in DOMAIN lines |-> lines[k]]
    BY <2>4 DEF Fetched
  <2>6. QED
    BY <2>3, <2>5
<1>2. QED
  BY <1>1 DEF Listed, Redirects

\* cmd/build: the binaries of an undisturbed invocation that succeeds embed
\* env.json as it is and, once, every redirect FetchBlock reads of its sources,
\* which is every redirect they hold if none is longer than its limit, for any
\* number of sources and targets.
THEOREM BuiltAsConfigured == Spec => []BinariesMatch
<1>1. BuildInv /\ BuildTyped => BinariesMatch
  <2> SUFFICES ASSUME BuildInv, BuildTyped,
                      NEW t \in Tool, tool[t].stage = "done", tool[t].fresh,
                      NEW target \in ToSet(tool[t].flags.targets)
               PROVE  LET binary == dist[<<target, tool[t].flags.unprotected>>]
                      IN /\ binary.env = env
                         /\ NoDuplicates(binary.hosts)
                         /\ ToSet(binary.hosts) = Redirects(env)
                         /\ (\A source \in ToSet(LoadSources(env)) : ReadWhole(source))
                              => ToSet(binary.hosts) = Listed(env)
    BY DEF BinariesMatch
  <2>1. InvocationSound(t)
    BY DEF BuildInv
  <2>2. ToSet(tool[t].rest) = {}
    BY <2>1, EmptyList DEF InvocationSound, BinariesSound
  <2>3. dist[<<target, tool[t].flags.unprotected>>] =
          [env |-> generatedEnv, hosts |-> generatedHosts, built |-> TRUE]
    BY <2>1, <2>2 DEF InvocationSound, BinariesSound
  <2>4. /\ generatedEnv = env /\ NoDuplicates(generatedHosts)
        /\ ToSet(generatedHosts) = Redirects(env)
    BY <2>1 DEF InvocationSound, RedirectsSound
  <2>5. env \in Text /\ env # NoDocument
    BY <2>1 DEF BuildTyped, InvocationSound, ListSound, Rewritten
  <2>6. (\A source \in ToSet(LoadSources(env)) : ReadWhole(source))
          => Redirects(env) = Listed(env)
    BY <2>5, WholeSources
  <2>7. QED
    BY <2>3, <2>4, <2>6
<1>2. QED
  BY <1>1, BuildInvAlways, TypesAlways, PTL
=============================================================================
