--------------------------- MODULE SignalOverride ---------------------------
(***************************************************************************)
(* SignalOverrideIntTerm, which run_until_halt of ARQConnection and        *)
(* SimConnection holds while it polls.  Signal handlers belong to the      *)
(* process: threads that wait on different connections, as execute_messages*)
(* of a MultiConnection starts them, override the same handlers.           *)
(***************************************************************************)
EXTENDS Naturals, Sequences

CONSTANT
  Thread       \* threads that wait, each on a connection of its own

Signal == <<"SIGINT", "SIGTERM">>    \* in the order in which they are overridden

VARIABLES
  handler,     \* handler[s]: what the process does on signal s
  previous,    \* previous[t][s]: m_previous_handler_sigint, m_previous_handler_sigterm
  step,        \* the step of the override thread t is at
  at           \* the signal it is at

vars == <<handler, previous, step, at>>

(* The process may have been started with the signals ignored.             *)
Init ==
  /\ \E h \in {"SIG_DFL", "SIG_IGN"} : handler = [s \in 1 .. 2 |-> h]
  /\ previous = [t \in Thread |-> [s \in 1 .. 2 |-> "SIG_DFL"]]
  /\ step = [t \in Thread |-> "outside"]
  /\ at = [t \in Thread |-> 1]

(* Thread t is done with signal at[t] in this step: it goes on with the    *)
(* next signal, or with the next step after the last one.                  *)
Advance(t, from, to) ==
  /\ step[t] = from
  /\ IF at[t] < Len(Signal)
     THEN at' = [at EXCEPT ![t] = @ + 1] /\ UNCHANGED step
     ELSE at' = [at EXCEPT ![t] = 1] /\ step' = [step EXCEPT ![t] = to]

Enter(t) ==
  /\ step[t] = "outside"
  /\ step' = [step EXCEPT ![t] = "ignore"]
  /\ UNCHANGED <<handler, previous, at>>

(* Constructor, member initialisers: signal() swaps in SIG_IGN to learn    *)
(* the present handler.                                                    *)
Ignore(t) ==
  /\ Advance(t, "ignore", "install")
  /\ previous' = [previous EXCEPT ![t][at[t]] = handler[at[t]]]
  /\ handler' = [handler EXCEPT ![at[t]] = "SIG_IGN"]

(* Constructor, body: an ignored signal gets the exit handler, another one *)
(* its handler back.                                                       *)
Install(t) ==
  /\ Advance(t, "install", "inside")
  /\ handler' = [handler EXCEPT ![at[t]] =
                   IF previous[t][at[t]] = "SIG_IGN" THEN "handler" ELSE previous[t][at[t]]]
  /\ UNCHANGED previous

(* The halt has been seen.                                                 *)
Leave(t) ==
  /\ step[t] = "inside"
  /\ step' = [step EXCEPT ![t] = "restore"]
  /\ UNCHANGED <<handler, previous, at>>

(* Destructor: a signal that was ignored is ignored again.                 *)
Restore(t) ==
  /\ Advance(t, "restore", "outside")
  /\ handler' = [handler EXCEPT ![at[t]] =
                   IF previous[t][at[t]] = "SIG_IGN" THEN "SIG_IGN" ELSE @]
  /\ UNCHANGED previous

Next == \E t \in Thread : Enter(t) \/ Ignore(t) \/ Install(t) \/ Leave(t) \/ Restore(t)

Spec == Init /\ [][Next]_vars
----------------------------------------------------------------------------
(* signal.cpp: for the lifetime of the override SIGINT and SIGTERM allow   *)
(* exiting the polling loop: neither is ignored while a thread polls and   *)
(* no other one is half way through its constructor.                       *)
SignalsEndTheWait ==
  \A t \in Thread :
    /\ step[t] = "inside"
    /\ \A u \in Thread : step[u] \in {"outside", "inside"}
    => \A s \in 1 .. 2 : handler[s] # "SIG_IGN"
=============================================================================
