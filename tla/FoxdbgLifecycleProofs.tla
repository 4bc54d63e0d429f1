------------------------ MODULE FoxdbgLifecycleProofs -----------------------
(***************************************************************************)
(* Start and stop of foxdbg, for any number of calls of foxdbg_init.       *)
(***************************************************************************)
EXTENDS FoxdbgLifecycle, TLAPS

\* A thread that waits in poll waits on a context.
PollInv == server = "poll" => context # Null

IInv == TypeOK /\ ThreadMatchesCalls /\ PollInv

USE DEF Contexts, Null

LEMMA InitIInv == Init => IInv
<1> SUFFICES ASSUME Init PROVE IInv
  OBVIOUS
<1>1. 0 \in 0..MaxInits /\ [x \in Contexts |-> FALSE] \in [Contexts -> BOOLEAN]
  BY InitsAssumption
<1>2. TypeOK
  BY <1>1 DEF Init, TypeOK
<1> QED
  BY <1>2 DEF Init, IInv, ThreadMatchesCalls, PollInv

LEMMA AppIInv ==
  ASSUME IInv, App
  PROVE  IInv'
<1>1. CASE InitRunning
  BY <1>1, InitsAssumption DEF InitRunning, IInv, TypeOK, ThreadMatchesCalls, PollInv
<1>2. CASE InitThread
  BY <1>2 DEF InitThread, IInv, TypeOK, ThreadMatchesCalls, PollInv
<1>3. CASE ShutdownCancel
  BY <1>3 DEF ShutdownCancel, IInv, TypeOK, ThreadMatchesCalls, PollInv
<1>4. CASE ShutdownStore
  BY <1>4 DEF ShutdownStore, IInv, TypeOK, ThreadMatchesCalls, PollInv
<1>5. CASE ShutdownJoin
  BY <1>5 DEF ShutdownJoin, IInv, TypeOK, ThreadMatchesCalls, PollInv
<1> QED
  BY <1>1, <1>2, <1>3, <1>4, <1>5 DEF App

LEMMA ServerIInv ==
  ASSUME IInv, Server
  PROVE  IInv'
<1>1. CASE CreateContext
  BY <1>1 DEF CreateContext, IInv, TypeOK, ThreadMatchesCalls, PollInv
<1>2. CASE TestRunning
  BY <1>2 DEF TestRunning, IInv, TypeOK, ThreadMatchesCalls, PollInv
<1>3. CASE ServiceWake
  BY <1>3 DEF ServiceWake, IInv, TypeOK, ThreadMatchesCalls, PollInv
<1> QED
  BY <1>1, <1>2, <1>3 DEF Server

LEMMA NextIInv == IInv /\ [Next]_vars => IInv'
<1> SUFFICES ASSUME IInv, [Next]_vars PROVE IInv'
  OBVIOUS
<1>1. CASE App
  BY <1>1, AppIInv
<1>2. CASE Server
  BY <1>2, ServerIInv
<1>3. CASE ClientEvent
  BY <1>3 DEF ClientEvent, IInv, TypeOK, ThreadMatchesCalls, PollInv
<1>4. CASE ServiceTimer
  BY <1>4 DEF ServiceTimer, IInv, TypeOK, ThreadMatchesCalls, PollInv
<1>5. CASE UNCHANGED vars
  BY <1>5 DEF vars, IInv, TypeOK, ThreadMatchesCalls, PollInv
<1> QED
  BY <1>1, <1>2, <1>3, <1>4, <1>5 DEF Next

LEMMA Invariance == Spec => []IInv
BY InitIInv, NextIInv, PTL DEF Spec

\* Types, and a static context that is the one that owns the port, or none.
THEOREM LifecycleTypeCorrect == Spec => []TypeOK
<1>1. IInv => TypeOK
  BY DEF IInv
<1> QED
  BY <1>1, Invariance, PTL

\* The server thread never outlives a foxdbg_shutdown that returned.
THEOREM ThreadIsJoined == Spec => []ThreadMatchesCalls
<1>1. IInv => ThreadMatchesCalls
  BY DEF IInv
<1> QED
  BY <1>1, Invariance, PTL

-----------------------------------------------------------------------------
(* What a restart serves.                                                  *)

\* A shutdown that does not crash finds a context, which keeps the port for ever:
\* whoever starts again finds it taken.  An init that is not behind a shutdown ends
\* the process, also when the creation of the first context failed.
PortInv ==
  /\ app \in {"shutdown.store", "shutdown.join"} => listening # Null
  /\ inits > 0 /\ app = "idle" => listening # Null
  /\ inits > 1 /\ app = "init.thread" /\ server = "none" => listening # Null
  /\ inits > 1 /\ app = "up" => listening # Null

\* The second and every later call of foxdbg_init that returns has started a thread
\* that, once it has tried to create its context, has none: it accepts no client,
\* and its loop does not wait.
RestartIdles == inits > 1 /\ app = "up" /\ server # "create" => context = Null

RestartInv == PortInv /\ RestartIdles

LEMMA InitRestartInv == Init => RestartInv
BY DEF Init, RestartInv, PortInv, RestartIdles

LEMMA AppRestartInv ==
  ASSUME IInv, RestartInv, App
  PROVE  RestartInv'
<1> USE DEF IInv, TypeOK, ThreadMatchesCalls, RestartInv, PortInv, RestartIdles
<1>1. CASE InitRunning
  <2>1. inits \in Nat /\ inits' = inits + 1 /\ app' = "init.thread"
        /\ UNCHANGED <<server, context, listening>>
    BY <1>1 DEF InitRunning
  <2>2. app = "idle" \/ (app = "up" /\ server # "none")
    BY <1>1 DEF InitRunning
  <2>3. PortInv'
    BY <2>1, <2>2
  <2> QED
    BY <2>1, <2>3
<1>2. CASE InitThread
  BY <1>2 DEF InitThread
<1>3. CASE ShutdownCancel
  BY <1>3 DEF ShutdownCancel
<1>4. CASE ShutdownStore
  BY <1>4 DEF ShutdownStore
<1>5. CASE ShutdownJoin
  BY <1>5 DEF ShutdownJoin
<1> QED
  BY <1>1, <1>2, <1>3, <1>4, <1>5 DEF App

LEMMA ServerRestartInv ==
  ASSUME IInv, RestartInv, Server
  PROVE  RestartInv'
<1> USE DEF IInv, TypeOK, ThreadMatchesCalls, RestartInv, PortInv, RestartIdles
<1>1. CASE CreateContext
  BY <1>1 DEF CreateContext
<1>2. CASE TestRunning
  BY <1>2 DEF TestRunning
<1>3. CASE ServiceWake
  BY <1>3 DEF ServiceWake
<1> QED
  BY <1>1, <1>2, <1>3 DEF Server

LEMMA NextRestartInv == IInv /\ RestartInv /\ [Next]_vars => RestartInv'
<1> SUFFICES ASSUME IInv, RestartInv, [Next]_vars PROVE RestartInv'
  OBVIOUS
<1>1. CASE App
  BY <1>1, AppRestartInv
<1>2. CASE Server
  BY <1>2, ServerRestartInv
<1>3. CASE ClientEvent
  BY <1>3 DEF ClientEvent, RestartInv, PortInv, RestartIdles
<1>4. CASE ServiceTimer
  BY <1>4 DEF ServiceTimer, RestartInv, PortInv, RestartIdles
<1>5. CASE UNCHANGED vars
  BY <1>5 DEF vars, RestartInv, PortInv, RestartIdles
<1> QED
  BY <1>1, <1>2, <1>3, <1>4, <1>5 DEF Next

LEMMA RestartInvariance == Spec => []RestartInv
BY InitRestartInv, NextRestartInv, Invariance, PTL DEF Spec

\* A thread that a second or later foxdbg_init has started never serves, in whatever
\* order init and shutdown are called and whether or not lws refused a context.
THEOREM RestartsNeverServe == Spec => []RestartIdles
<1>1. RestartInv => RestartIdles
  BY DEF RestartInv
<1> QED
  BY <1>1, RestartInvariance, PTL
=============================================================================
