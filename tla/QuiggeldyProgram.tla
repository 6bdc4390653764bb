-------------------------- MODULE QuiggeldyProgram ---------------------------
(* The quiggeldy program: its main thread, the thread that handles signals *)
(* and the server object they share without a lock.  The server itself is  *)
(* external: it serves until it is idle for too long or is destroyed.      *)
EXTENDS Naturals, FiniteSets

CONSTANT MaxSignals  \* bound: signals sent by users

ASSUME SignalAssumption == MaxSignals \in Nat

VARIABLES
  cfg,        \* what the command line says
  pc,         \* the main thread
  sigthread,  \* the signal thread
  signal,     \* the signal it handles
  handler,    \* signal_handler; "default" before signals are blocked
  pending,    \* blocked signals that nobody has waited for yet
  server,     \* the unique_ptr: TRUE where it points to the object
  object,     \* the server it points, or pointed, to
  old,        \* thread -> did it find the pointer set in unique_ptr::reset?
  work,       \* is there work in the server?
  work_left_at_shutdown,
  exit,       \* how the process ended; "crashed": its behaviour is undefined from there
  armed,      \* PR_SET_PDEATHSIG
  parent,     \* is the parent process alive?
  signalled,  \* history: has a signal of somebody else reached it?
  sent        \* signals sent by users so far

process == <<cfg, pc, exit, armed>>
signals == <<sigthread, signal, handler, pending>>
outside == <<parent, sent, signalled>>
shared == <<server, object, old, work, work_left_at_shutdown>>
programVars == <<process, signals, shared, outside>>

Signals == {"TERM", "CONT", "OTHER"}
Config ==
  [help : BOOLEAN, vx : BOOLEAN, ignore_parent_death : BOOLEAN, backend_arq : BOOLEAN,
   backend_sim : BOOLEAN, mock_mode : BOOLEAN, fpga_ip : BOOLEAN, timeout : BOOLEAN]

ProgramInit ==
  /\ pc = "none" /\ exit = "none" /\ armed = FALSE /\ parent = TRUE /\ signalled = FALSE
  /\ sigthread = "none" /\ signal = "OTHER" /\ handler = "default" /\ pending = {} /\ sent = 0
  /\ server = FALSE /\ object = "none" /\ old = [x \in {"main", "signal"} |-> FALSE]
  /\ work = FALSE /\ work_left_at_shutdown = FALSE

Runs == pc # "none" /\ exit = "none"

(* The process ends, and all of its threads. *)
End(status) ==
  /\ exit' = status
  /\ UNCHANGED <<cfg, pc, armed>>

(* A signal reaches the process: until signals are blocked it has its      *)
(* default effect.  Pending signals of one kind are one.                   *)
Receive(s) ==
  /\ signalled' = (signalled \/ Runs)
  /\ \/ /\ Runs /\ handler = "default" /\ s # "CONT"
        /\ End("killed") /\ UNCHANGED <<signals, shared>>
     \/ /\ Runs /\ handler # "default"
        /\ pending' = pending \cup {s}
        /\ UNCHANGED <<process, sigthread, signal, handler, shared>>
     \/ /\ ~Runs \/ (handler = "default" /\ s = "CONT")
        /\ UNCHANGED <<process, signals, shared>>

UserSignal(s) ==
  /\ Runs /\ sent < MaxSignals /\ sent' = sent + 1
  /\ Receive(s)
  /\ UNCHANGED parent

(* The parent dies, and the kernel tells a child that asked for it.        *)
ParentDies ==
  /\ parent /\ parent' = FALSE
  /\ IF armed THEN Receive("TERM") ELSE UNCHANGED <<process, signals, shared, signalled>>
  /\ UNCHANGED sent

----------------------------------------------------------------------------
(* The main thread. *)

At(p) == Runs /\ pc = p
Goto(p) == pc' = p /\ UNCHANGED <<cfg, exit, armed>>

(* The launcher's child becomes quiggeldy, or exits if it is not found.    *)
Exec ==
  /\ At("exec")
  /\ Goto("parse") \/ End("failure")
  /\ UNCHANGED <<signals, shared, outside>>

(* Options are read, and the help or version texts and unknown             *)
(* architectures end the program.                                          *)
Parse ==
  /\ At("parse")
  /\ IF cfg.help THEN End("success") ELSE IF cfg.vx THEN Goto("prctl") ELSE End("failure")
  /\ UNCHANGED <<signals, shared, outside>>

(* A parent that is dead already is not noticed. *)
SetParentDeathSignal ==
  /\ At("prctl")
  /\ armed' = ~cfg.ignore_parent_death
  /\ pc' = "signals"
  /\ UNCHANGED <<cfg, exit, signals, shared, outside>>

(* setup_signal_handler_thread: a dummy handler until the server runs.     *)
SetupSignalHandlerThread ==
  /\ At("signals")
  /\ handler' = "dummy" /\ sigthread' = "wait"
  /\ Goto("allocate")
  /\ UNCHANGED <<signal, pending, shared, outside>>

(* The choice of the backend, worker and server.  The ARQ backend is the   *)
(* default, and needs an FPGA unless it is mocked.                         *)
BackendFound ==
  /\ ~(cfg.backend_arq /\ cfg.backend_sim)
  /\ cfg.backend_sim \/ cfg.mock_mode \/ cfg.fpga_ip

Allocate ==
  /\ At("allocate")
  /\ IF BackendFound
     THEN server' = TRUE /\ object' = "alive" /\ Goto("install")
     ELSE UNCHANGED <<server, object>> /\ End("failure")
  /\ UNCHANGED <<signals, old, work, work_left_at_shutdown, outside>>

InstallHandler ==
  /\ At("install")
  /\ handler' = "real"
  /\ Goto("start")
  /\ UNCHANGED <<sigthread, signal, pending, shared, outside>>

(* std::visit( *server, ...): with no server the process crashes.          *)
DereferenceServer ==
  /\ At("start")
  /\ IF server THEN Goto("starting") ELSE End("crashed")
  /\ UNCHANGED <<signals, shared, outside>>

(* start_server throws where the port is taken by now.  On an object that  *)
(* the signal thread has destroyed since, or is destroying, its behaviour  *)
(* is undefined.                                                           *)
StartServer ==
  /\ At("starting")
  /\ \/ object # "dead" /\ (Goto("serve") \/ End("killed"))
     \/ object # "alive" /\ End("crashed")
  /\ UNCHANGED <<signals, shared, outside>>

(* Clients. *)
WorkArrives ==
  /\ At("serve") /\ object = "alive" /\ ~work /\ work' = TRUE
  /\ UNCHANGED <<process, signals, server, object, old, work_left_at_shutdown, outside>>
WorkDone ==
  /\ At("serve") /\ object = "alive" /\ work /\ work' = FALSE
  /\ UNCHANGED <<process, signals, server, object, old, work_left_at_shutdown, outside>>

(* start_server returns: there was no work for too long, or the server is  *)
(* being destroyed.                                                        *)
IdleTimeout ==
  /\ At("serve") /\ object = "alive" /\ cfg.timeout /\ ~work
  /\ Goto("reset")
  /\ UNCHANGED <<signals, shared, outside>>

ShutDown ==
  /\ At("serve") /\ object = "dying"
  /\ Goto("reset")
  /\ UNCHANGED <<signals, shared, outside>>

(* unique_ptr::reset in two steps: the old pointer is read; then it is     *)
(* replaced by null, and what the old one pointed to is destroyed.         *)
ReadPointer(thread) == old' = [old EXCEPT ![thread] = server] /\ UNCHANGED <<server, object>>

BeginReset ==
  /\ At("reset")
  /\ ReadPointer("main") /\ Goto("delete")
  /\ UNCHANGED <<signals, work, work_left_at_shutdown, outside>>

Reset ==
  /\ At("delete")
  /\ \/ old["main"] /\ object = "alive" /\ server' = FALSE /\ object' = "dead" /\ Goto("wake")
     \/ old["main"] /\ object # "alive" /\ End("crashed") /\ UNCHANGED <<server, object>>
     \/ ~old["main"] /\ server' = FALSE /\ Goto("wake") /\ UNCHANGED object
  /\ UNCHANGED <<signals, old, work, work_left_at_shutdown, outside>>

(* Mutant: the signal thread is joined, but not woken up. *)
JoinAtOnce ==
  /\ At("wake")
  /\ Goto("join")
  /\ UNCHANGED <<signals, shared, outside>>

(* pthread_kill makes the signal thread look at the server again. *)
WakeSignalThread ==
  /\ At("wake")
  /\ pending' = IF sigthread = "ended" THEN pending ELSE pending \cup {"CONT"}
  /\ Goto("join")
  /\ UNCHANGED <<sigthread, signal, handler, shared, outside>>

Join ==
  /\ At("join") /\ sigthread = "ended"
  /\ End(IF work_left_at_shutdown THEN "failure" ELSE "success")
  /\ UNCHANGED <<signals, shared, outside>>

MainThread ==
  \/ Exec \/ Parse \/ SetParentDeathSignal \/ SetupSignalHandlerThread \/ Allocate \/ InstallHandler
  \/ DereferenceServer \/ StartServer \/ IdleTimeout \/ ShutDown \/ BeginReset \/ Reset \/ WakeSignalThread \/ Join

----------------------------------------------------------------------------
(* The signal thread. *)

SignalAt(p) == Runs /\ sigthread = p
SignalGoto(p) == sigthread' = p /\ UNCHANGED <<signal, handler, pending>>

(* sigwait, and the handler that is set then: the dummy ignores everything.*)
SigWait ==
  /\ SignalAt("wait")
  /\ \E s \in pending :
       /\ pending' = pending \ {s} /\ signal' = s
       /\ sigthread' = IF handler = "dummy" THEN "wait" ELSE "check"
  /\ UNCHANGED <<process, handler, shared, outside>>

(* Mutant: the signal is handled whether there is a server or not. *)
CheckSignal ==
  /\ SignalAt("check")
  /\ SignalGoto(CASE signal = "OTHER" -> "wait"
                  [] signal = "CONT" -> "continue"
                  [] signal = "TERM" -> "shutdown")
  /\ UNCHANGED <<process, shared, outside>>

(* With no server the thread ends; signals it does not know it ignores.    *)
CheckServer ==
  /\ SignalAt("check")
  /\ SignalGoto(CASE ~server -> "ended"
                  [] server /\ signal = "OTHER" -> "wait"
                  [] server /\ signal = "CONT" -> "continue"
                  [] server /\ signal = "TERM" -> "shutdown")
  /\ UNCHANGED <<process, shared, outside>>

(* reset_idle_timeout, on whatever the pointer says now. *)
ResetIdleTimeout ==
  /\ SignalAt("continue")
  /\ IF server THEN SignalGoto("wait") /\ UNCHANGED process
     ELSE End("crashed") /\ UNCHANGED signals
  /\ UNCHANGED <<shared, outside>>

HasWorkLeft ==
  /\ SignalAt("shutdown")
  /\ IF server
     THEN /\ work_left_at_shutdown' = work /\ ReadPointer("signal")
          /\ SignalGoto("delete") /\ UNCHANGED process
     ELSE End("crashed") /\ UNCHANGED <<signals, old, work_left_at_shutdown, server, object>>
  /\ UNCHANGED <<work, outside>>

(* The destructor stops the server and waits until it has stopped.         *)
BeginShutdown ==
  /\ SignalAt("delete")
  /\ server' = FALSE
  /\ IF object = "alive"
     THEN object' = "dying" /\ SignalGoto("deleting") /\ UNCHANGED process
     ELSE UNCHANGED <<object, signals>> /\ End("crashed")
  /\ UNCHANGED <<old, work, work_left_at_shutdown, outside>>

EndShutdown ==
  /\ SignalAt("deleting") /\ pc # "serve"
  /\ object' = "dead" /\ SignalGoto("ended")
  /\ UNCHANGED <<process, server, old, work, work_left_at_shutdown, outside>>

SignalThread ==
  \/ SigWait \/ CheckServer \/ ResetIdleTimeout \/ HasWorkLeft \/ BeginShutdown \/ EndShutdown
=============================================================================
