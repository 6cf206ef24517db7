----------------------------- MODULE ConfigLoader -----------------------------
(***************************************************************************)
(* The Loader of config.go, which keeps a configuration in step with       *)
(* env.json: NewLoader, then Watch.                                        *)
(***************************************************************************)
EXTENDS EnvFile

VARIABLE loader

\* cfg is the configuration, told the one onChange was last called with, text
\* what reload has read.
LoaderPhase == {"off", "failed", "loaded", "waiting", "reload", "parse", "notify",
                "ended"}
LoaderInit ==
    loader = [phase |-> "off", cfg |-> NoDocument, told |-> NoDocument, text |-> NoDocument]

\* NewLoader: the first load, which must succeed.
NewLoader ==
    /\ loader.phase = "off"
    /\ Spend("watch")
    /\ loader' = IF ~Loads(env) THEN [loader EXCEPT !.phase = "failed"]
                 ELSE [loader EXCEPT !.phase = "loaded", !.cfg = LoadFromBytes(env)]
    /\ missed' = FALSE
    /\ UNCHANGED <<env, saved, editing, watched, events>>

\* Watch begins: the directory is watched from now on, or cannot be.
AddWatch ==
    /\ loader.phase = "loaded"
    /\ \/ /\ loader' = [loader EXCEPT !.phase = "waiting"]
          /\ watched' = TRUE
          /\ UNCHANGED spent
       \/ /\ Spend("fault")
          /\ loader' = [loader EXCEPT !.phase = "ended"]
          /\ UNCHANGED watched
    /\ UNCHANGED <<env, saved, editing, events, missed>>

\* Mutant of Reacts: replacing the file is not noticed.
ReactsToWrites(event) == Relevant(event) /\ event.op = "write"

\* Events of other files are skipped; Write and Create are reacted to.
Reacts(event) == Relevant(event)

NextEvent ==
    /\ loader.phase = "waiting"
    /\ events # <<>>
    /\ events' = Tail(events)
    /\ loader' = [loader EXCEPT !.phase =
                    IF Reacts(Head(events)) THEN "reload" ELSE "waiting"]
    /\ UNCHANGED <<env, saved, editing, watched, missed, spent>>

\* reload reads the file ...
ReadFile ==
    /\ loader.phase = "reload"
    /\ loader' = [loader EXCEPT !.phase = "parse", !.text = env]
    /\ missed' = FALSE
    /\ UNCHANGED <<env, saved, editing, watched, events, spent>>

\* ... and keeps what it has if LoadFromBytes refuses that.
Adopt ==
    /\ loader.phase = "parse"
    /\ loader' =
         IF ~Loads(loader.text) THEN [loader EXCEPT !.phase = "waiting"]
         ELSE [loader EXCEPT !.phase = "notify", !.text = NoDocument,
                 !.cfg = LoadFromBytes(loader.text)]
    /\ UNCHANGED fileVars

\* onChange(l.Config())
Notify ==
    /\ loader.phase = "notify"
    /\ loader' = [loader EXCEPT !.phase = "waiting", !.told = loader.cfg]
    /\ UNCHANGED fileVars

\* Mutant of CancelWatch: the watcher is not closed.
CancelWatchUnclosed ==
    /\ loader.phase = "waiting"
    /\ Spend("cancel")
    /\ loader' = [loader EXCEPT !.phase = "ended"]
    /\ UNCHANGED <<env, saved, editing, watched, events, missed>>

\* The context is cancelled, and the watcher closed.
CancelWatch ==
    /\ loader.phase = "waiting"
    /\ Spend("cancel")
    /\ loader' = [loader EXCEPT !.phase = "ended"]
    /\ watched' = FALSE /\ events' = <<>>
    /\ UNCHANGED <<env, saved, editing, missed>>

LoaderStep ==
    NewLoader \/ AddWatch \/ NextEvent \/ ReadFile \/ Adopt \/ Notify \/ CancelWatch
=============================================================================
