------------------------------- MODULE EnvFile -------------------------------
(***************************************************************************)
(* The file env.json: its content, the editor that saves it, and the       *)
(* notifications of its directory that fsnotify delivers.                  *)
(***************************************************************************)
EXTENDS EnvDocument, FiniteSets

CONSTANTS
    Documents,  \* what a user may save
    QueueSize,  \* how many notifications the system keeps
    Budgets     \* how often each event may happen: one budget, or several

\* "save": an editor replaces the file; "inplace": it writes into the file;
\* "other": another file of the directory changes; "run": the build tool is run;
\* "fault": an operation of a process fails, or the build tool is killed;
\* "watch": a loader starts; "cancel": its context is cancelled.
EnvEvent == {"save", "inplace", "other", "run", "fault", "watch", "cancel"}

ASSUME DocumentsAssumption == Documents \subseteq Document
ASSUME QueueAssumption == QueueSize \in Nat \ {0}
ASSUME EnvBudgets == Budgets \subseteq [EnvEvent -> Nat]

VARIABLES
    env,      \* env.json
    saved,    \* the document a user saved last
    editing,  \* the document an editor has yet to write, after truncating
    watched,  \* whether a watch of the directory is set
    events,   \* its notifications, oldest first
    missed,   \* whether env.json changed with no notification left to tell
    spent     \* how often each event has happened

fileVars == <<env, saved, editing, watched, events, missed, spent>>

Spend(e) ==
    LET after == [spent EXCEPT ![e] = @ + 1]
    IN /\ \E b \in Budgets : \A x \in EnvEvent : after[x] <= b[x]
       /\ spent' = after

Event == [file : {"env", "other"}, op : {"write", "create"}]
EnvWritten == [file |-> "env", op |-> "write"]
EnvCreated == [file |-> "env", op |-> "create"]
OtherCreated == [file |-> "other", op |-> "create"]

\* Those that Watch reacts to.
Relevant(event) == event.file = "env" /\ event.op \in {"write", "create"}
Pending(queue) == \E i \in DOMAIN queue : Relevant(queue[i])

\* A queue that is full drops what is new.
Queued(new) ==
    IF watched THEN FirstOf(events \o new, QueueSize) ELSE events

\* env.json changes.
Change(text, new) ==
    /\ env' = text
    /\ events' = Queued(new)
    /\ missed' = (missed \/ ~watched \/ ~Pending(events'))
    /\ UNCHANGED watched

\* A text is written into the truncated file; if somebody else has written there
\* meanwhile, what is left may be a mix of both.
Fill(text) == \E result \in {text} \union (IF env = NoDocument THEN {} ELSE {NoDocument}) :
                 Change(result, <<EnvWritten>>)

FileInit ==
    /\ saved \in Documents
    /\ env = saved
    /\ editing = NoDocument
    /\ watched = FALSE /\ events = <<>> /\ missed = FALSE
    /\ spent = [e \in EnvEvent |-> 0]

\* An editor writes a temporary file and renames it.
SaveByRename(doc) ==
    /\ editing = NoDocument
    /\ Spend("save")
    /\ Change(doc, <<OtherCreated, EnvCreated>>)
    /\ saved' = doc
    /\ UNCHANGED editing

\* An editor truncates the file, and writes it.
TruncateInPlace(doc) ==
    /\ editing = NoDocument
    /\ Spend("inplace")
    /\ Change(NoDocument, <<EnvWritten>>)
    /\ editing' = doc
    /\ UNCHANGED saved
WriteInPlace ==
    /\ editing # NoDocument
    /\ Fill(editing)
    /\ saved' = editing
    /\ editing' = NoDocument
    /\ UNCHANGED spent

\* Another file of the directory is written.
ChangeOther ==
    /\ watched
    /\ Spend("other")
    /\ events' = Queued(<<OtherCreated>>)
    /\ UNCHANGED <<env, saved, editing, watched, missed>>

FileTypeOK ==
    /\ env \in {NoDocument} \union Document
    /\ saved \in Documents
    /\ editing \in Documents \union {NoDocument}
    /\ watched \in BOOLEAN /\ missed \in BOOLEAN
    /\ events \in Seq(Event) /\ Len(events) <= QueueSize
    /\ ~watched => events = <<>>
    /\ spent \in [EnvEvent -> Nat]
=============================================================================
