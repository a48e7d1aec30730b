----------------------------- MODULE KeyboardReader -----------------------------
(***************************************************************************)
(* The thread that reads lines of the console and posts each as an event   *)
(* (KeyboardReader.cpp), and the owner that starts and stops it.  Stopping *)
(* first cancels the read that is pending in the console, then sets the    *)
(* flag, then waits for the thread.  A read that is cancelled fails, and   *)
(* the stream stays failed: every later read ends at once with nothing.    *)
(* The console and its user are external.                                  *)
(***************************************************************************)
EXTENDS Naturals

VARIABLES
  reader,          \* the thread: "none", "fresh", "loop", "reading", "line", "ended"
  owner,           \* "idle", "starting", "stopping" (cancelled), "joining"
  isRunning, isGoingToStop,
  cinFailed,       \* std::cin is in a failed state
  typed,           \* the user has typed a line that nobody has read
  posted           \* what this step posted: "nothing", a "typed" line, an "invented" one

readerVars == <<reader, owner, isRunning, isGoingToStop, cinFailed, typed, posted>>

ReaderInit ==
  /\ reader = "none" /\ owner = "idle"
  /\ isRunning = FALSE /\ isGoingToStop = FALSE
  /\ cinFailed = FALSE /\ typed = FALSE /\ posted = "nothing"

\* start, up to the wait for the thread's promise.
StartReader ==
  /\ owner = "idle" /\ ~isRunning
  /\ reader' = "fresh" /\ owner' = "starting"
  /\ posted' = "nothing"
  /\ UNCHANGED <<isRunning, isGoingToStop, cinFailed, typed>>

\* The promise is kept, or 400 ms have passed.
ReaderStarted ==
  /\ owner = "starting"
  /\ owner' = "idle" /\ isRunning' = TRUE
  /\ posted' = "nothing"
  /\ UNCHANGED <<reader, isGoingToStop, cinFailed, typed>>

\* stop: CancelIoEx ends the read that is pending; one that begins later is
\* not ended.
CancelRead ==
  /\ owner = "idle" /\ isRunning
  /\ owner' = "stopping"
  /\ cinFailed' = (cinFailed \/ (reader = "reading" /\ ~typed))
  /\ posted' = "nothing"
  /\ UNCHANGED <<reader, isRunning, isGoingToStop, typed>>

\* A slip: the flag is set when the thread has been waited for.
SetFlagAfterJoin ==
  /\ owner = "stopping"
  /\ owner' = "joining" /\ isGoingToStop' = (isGoingToStop \/ reader = "ended")
  /\ posted' = "nothing"
  /\ UNCHANGED <<reader, isRunning, cinFailed, typed>>

SetFlag ==
  /\ owner = "stopping"
  /\ owner' = "joining" /\ isGoingToStop' = TRUE
  /\ posted' = "nothing"
  /\ UNCHANGED <<reader, isRunning, cinFailed, typed>>

\* The thread has been waited for; isGoingToStop stays set.
Join ==
  /\ owner = "joining" /\ reader = "ended"
  /\ owner' = "idle" /\ reader' = "none"
  /\ isRunning' = FALSE
  /\ posted' = "nothing"
  /\ UNCHANGED <<isGoingToStop, cinFailed, typed>>

\* read: the promise, then the head of the loop.
Loop ==
  /\ reader \in {"fresh", "loop"}
  /\ reader' = CASE reader = "fresh" -> "loop"
                 [] isGoingToStop   -> "ended"
                 [] OTHER           -> "reading"
  /\ posted' = "nothing"
  /\ UNCHANGED <<owner, isRunning, isGoingToStop, cinFailed, typed>>

\* std::getline returns with the line typed, or with nothing from a stream
\* that has failed; the line is posted (handleNewCharRead, ReadLineEventCooker).
ReadLine ==
  /\ reader = "reading" /\ (cinFailed \/ typed)
  /\ reader' = "loop"
  /\ posted' = IF cinFailed THEN "invented" ELSE "typed"
  /\ typed' = (typed /\ cinFailed)
  /\ UNCHANGED <<owner, isRunning, isGoingToStop, cinFailed>>

UserTypes ==
  /\ ~typed /\ typed' = TRUE
  /\ posted' = "nothing"
  /\ UNCHANGED <<reader, owner, isRunning, isGoingToStop, cinFailed>>

ReaderNext ==
  \/ StartReader \/ ReaderStarted \/ CancelRead \/ SetFlag \/ Join
  \/ Loop \/ ReadLine \/ UserTypes

ReaderSpec == ReaderInit /\ [][ReaderNext]_readerVars

\* Both threads are scheduled.
ReaderFairness ==
  /\ WF_readerVars(ReaderStarted) /\ WF_readerVars(SetFlag) /\ WF_readerVars(Join)
  /\ WF_readerVars(Loop) /\ WF_readerVars(ReadLine)
-----------------------------------------------------------------------------
\* Every variable keeps its type, and the owner has no thread it could lose:
\* there is one exactly while it starts, runs or is waited for (start, stop).
ReaderTypeOK ==
  /\ reader \in {"none", "fresh", "loop", "reading", "ended"}
  /\ owner \in {"idle", "starting", "stopping", "joining"}
  /\ {isRunning, isGoingToStop, cinFailed, typed} \subseteq BOOLEAN
  /\ posted \in {"nothing", "typed", "invented"}
  /\ reader # "none" <=> isRunning \/ owner = "starting"

\* An empty line that nobody typed is posted only while the owner is stopping
\* the thread, between CancelIoEx and the thread's next look at the flag.  The
\* stream stays failed ever after: only because isGoingToStop is never reset
\* does a reader that is started again not post such lines without end.
InventedWhileStopping ==
  posted = "invented" => owner \in {"stopping", "joining"}

\* Stopping ends, unless the thread waits for a line: CancelIoEx came before it
\* began to read, and nobody types (stop; the wait has no limit).
StopEndsOrWaits ==
  owner = "stopping" ~> \/ owner = "idle"
                        \/ reader = "reading" /\ ~cinFailed /\ ~typed
=============================================================================
