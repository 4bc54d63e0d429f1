--------------------------- MODULE FoxdbgLifecycle --------------------------
(***************************************************************************)
(* Start and stop of foxdbg: foxdbg_init and foxdbg_shutdown of            *)
(* lib/foxdbg.c on an application thread, and the server thread of         *)
(* lib/foxdbg_thread.cpp, which spends its life in lws_service.  What the  *)
(* two share is the flag running, the static context and the wakeup that   *)
(* lws_cancel_service leaves in the context.                               *)
(***************************************************************************)
EXTENDS Naturals

CONSTANT MaxInits       \* bound: calls of foxdbg_init

ASSUME InitsAssumption == MaxInits \in Nat \ {0}

Contexts == 1..MaxInits
Null == 0

VARIABLES
  app,          \* what the application thread does
  server,       \* what the server thread does, "none" when there is no thread
  running,      \* std::atomic_bool running
  context,      \* static struct lws_context *context
  listening,    \* the context whose listening socket owns the port
  inits,        \* number of calls of foxdbg_init
  wakeup,       \* wakeup[x]: eventfd of context x, written and not yet read
  event,        \* a socket of the context has something to report
  client,       \* a client is connected, so a socket is always writeable
  \* History, read by no guard:
  refused       \* the latest creation of a context failed, and not for the port

vars == <<app, server, running, context, listening, inits, wakeup, event, client, refused>>

Init ==
  /\ app = "idle"
  /\ server = "none"
  /\ running = FALSE
  /\ context = Null
  /\ listening = Null
  /\ inits = 0
  /\ wakeup = [x \in Contexts |-> FALSE]
  /\ event = FALSE
  /\ client = FALSE
  /\ refused = FALSE

-----------------------------------------------------------------------------
(* The application calls init and shutdown in any order.                   *)

\* foxdbg_init, foxdbg_thread_init: running.store(true)
InitRunning ==
  /\ app \in {"idle", "up"}
  /\ inits < MaxInits
  /\ inits' = inits + 1
  /\ running' = TRUE
  /\ app' = "init.thread"
  /\ UNCHANGED <<server, context, listening, wakeup, event, client, refused>>

\* foxdbg_server_thread = std::thread(...): to assign to a thread that was not
\* joined terminates the process.
InitThread ==
  /\ app = "init.thread"
  /\ IF server = "none"
     THEN server' = "create" /\ app' = "up"
     ELSE app' = "crashed" /\ UNCHANGED server
  /\ UNCHANGED <<running, context, listening, inits, wakeup, event, client, refused>>

\* foxdbg_thread_shutdown: lws_cancel_service, which follows its argument.
ShutdownCancel ==
  /\ app \in {"idle", "up"}
  /\ IF context = Null
     THEN app' = "crashed" /\ UNCHANGED wakeup
     ELSE app' = "shutdown.store" /\ wakeup' = [wakeup EXCEPT ![context] = TRUE]
  /\ UNCHANGED <<server, running, context, listening, inits, event, client, refused>>

\* Mutant: running is left as it is.
BugShutdownStore ==
  /\ app = "shutdown.store"
  /\ app' = "shutdown.join"
  /\ UNCHANGED <<server, running, context, listening, inits, wakeup, event, client, refused>>

\* running.store(false)
ShutdownStore ==
  /\ app = "shutdown.store"
  /\ running' = FALSE
  /\ app' = "shutdown.join"
  /\ UNCHANGED <<server, context, listening, inits, wakeup, event, client, refused>>

\* Mutant: the thread is detached.
BugShutdownJoin ==
  /\ app = "shutdown.join"
  /\ app' = "idle"
  /\ UNCHANGED <<server, running, context, listening, inits, wakeup, event, client, refused>>

\* foxdbg_server_thread.join(), when there is a thread to join
ShutdownJoin ==
  /\ app = "shutdown.join"
  /\ server \in {"none", "exited"}
  /\ server' = "none"
  /\ app' = "idle"
  /\ UNCHANGED <<running, context, listening, inits, wakeup, event, client, refused>>

-----------------------------------------------------------------------------
(* The server thread.  A crash of the process ends it as well.             *)

\* Mutant: a context is created although the port is taken.
BugCreateContext ==
  /\ app # "crashed"
  /\ server = "create"
  /\ context' = inits
  /\ listening' = IF listening = Null THEN inits ELSE listening
  /\ refused' = FALSE
  /\ server' = "loop"
  /\ UNCHANGED <<app, running, inits, wakeup, event, client>>

\* lws_create_context fails while another context of foxdbg listens on the port,
\* since nothing destroys a context, and may fail at any time for a reason that
\* is not foxdbg's: another process has the port, or there is no memory.
CreateContext ==
  /\ app # "crashed"
  /\ server = "create"
  /\ \/ listening = Null /\ context' = inits /\ listening' = inits
     \/ context' = Null /\ UNCHANGED listening
  /\ refused' = (context' = Null /\ listening = Null)
  /\ server' = "loop"
  /\ UNCHANGED <<app, running, inits, wakeup, event, client>>

\* Mutant: the loop never ends.
BugTestRunning ==
  /\ app # "crashed"
  /\ server = "loop"
  /\ server' = IF context = Null THEN "loop" ELSE "poll"
  /\ UNCHANGED <<app, running, context, listening, inits, wakeup, event, client, refused>>

\* while (running.load()) lws_service(...): without a context lws_service returns
\* at once.  After the loop the thread function returns.
TestRunning ==
  /\ app # "crashed"
  /\ server = "loop"
  /\ server' = IF ~running THEN "exited" ELSE IF context = Null THEN "loop" ELSE "poll"
  /\ UNCHANGED <<app, running, context, listening, inits, wakeup, event, client, refused>>

\* poll returns, lws reads the eventfd and runs the callbacks; they close the
\* connection of the client when running is false.
ServiceWake ==
  /\ app # "crashed"
  /\ server = "poll"
  /\ wakeup[context] \/ event \/ client
  /\ wakeup' = [wakeup EXCEPT ![context] = FALSE]
  /\ event' = FALSE
  /\ client' = (client /\ running)
  /\ server' = "loop"
  /\ UNCHANGED <<app, running, context, listening, inits, refused>>

\* With nothing to report poll returns as well: lws keeps a timer of 30 seconds
\* armed and waits no longer than for the next timer.
ServiceTimer ==
  /\ app # "crashed"
  /\ server = "poll"
  /\ ~(wakeup[context] \/ event \/ client)
  /\ server' = "loop"
  /\ UNCHANGED <<app, running, context, listening, inits, wakeup, event, client, refused>>

\* A client connects or goes away.
ClientEvent ==
  /\ app # "crashed"
  /\ server \in {"loop", "poll"} /\ context # Null
  /\ client' = ~client
  /\ event' = TRUE
  /\ UNCHANGED <<app, server, running, context, listening, inits, wakeup, refused>>

-----------------------------------------------------------------------------
App == InitRunning \/ InitThread \/ ShutdownCancel \/ ShutdownStore \/ ShutdownJoin

Server == CreateContext \/ TestRunning \/ ServiceWake

Next == App \/ Server \/ ServiceTimer \/ ClientEvent

Spec == Init /\ [][Next]_vars

\* Both threads run; the application may stay up for ever, and no client need
\* ever come.  What is shown with this alone does not wait for the timer.
Fairness == WF_vars(Server) /\ WF_vars(InitThread \/ ShutdownStore \/ ShutdownJoin)

FairSpec == Spec /\ Fairness

\* The timer of lws expires.
TimerExpires == WF_vars(ServiceTimer)

-----------------------------------------------------------------------------
(* Properties.                                                             *)

\* Every variable keeps its type, and the static context is the one that owns
\* the port, or none.
TypeOK ==
  /\ app \in {"idle", "init.thread", "up", "shutdown.store", "shutdown.join", "crashed"}
  /\ server \in {"none", "create", "loop", "poll", "exited"}
  /\ running \in BOOLEAN
  /\ context \in {Null, listening}
  /\ listening \in Contexts \union {Null}
  /\ inits \in 0..MaxInits
  /\ wakeup \in [Contexts -> BOOLEAN]
  /\ event \in BOOLEAN
  /\ client \in BOOLEAN
  /\ refused \in BOOLEAN

\* After a foxdbg_shutdown that returned, and only then, there is no thread, in
\* whatever order the calls were made: an init that follows does not meet a
\* thread that was not joined, and foxdbg is not up without its thread.
ThreadMatchesCalls ==
  /\ app = "idle" => server = "none"
  /\ app = "up" => server # "none"

\* A shutdown that has cleared running returns, in the worst case after the timer
\* has expired: the wakeup of lws_cancel_service is sent before running is
\* cleared, and the server thread may consume it and go back to poll.
ShutdownReturns == TimerExpires => (app = "shutdown.join" ~> app = "idle")

\* It does not need the timer when a client is connected at that moment.
ShutdownReturnsWithClient == (app = "shutdown.join" /\ client) ~> app = "idle"

\* "initialise the foxglove server": the server thread has a context to serve,
\* unless lws was refused it by something else than foxdbg.
ServesContext == server \in {"loop", "poll"} /\ ~refused => context # Null
=============================================================================
