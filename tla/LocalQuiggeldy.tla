---------------------------- MODULE LocalQuiggeldy ----------------------------
(* wrap_with_quiggeldy: a quiggeldy of its own around a command that makes  *)
(* its connections from the environment.  Or quiggeldy is started by hand,  *)
(* with any options, and its clients come from elsewhere.                   *)
EXTENDS QuiggeldyProgram, FromEnv

CONSTANT MaxFPGAs  \* bound: length of the FPGA list

ASSUME FPGAAssumption == MaxFPGAs \in Nat

VARIABLES
  by_hand,     \* who starts quiggeldy?
  env,         \* the environment, of the wrapper and of the command
  w_pc,        \* the wrapper
  pid,         \* m_quiggeldy_pid # 0
  command,     \* the wrapper's child
  connection   \* what the command has got to execute on

wrapper == <<by_hand, env, w_pc, pid, command, connection>>
vars == <<programVars, wrapper>>

NoConnection == [backend |-> "none", size |-> 0, per_multi |-> 1, groups |-> <<>>]

TypeOK ==
  /\ cfg \in Config
  /\ pc \in {"none", "exec", "parse", "prctl", "signals", "allocate", "install", "start",
             "starting", "serve", "reset", "delete", "wake", "join"}
  /\ exit \in {"none", "success", "failure", "killed", "crashed"}
  /\ sigthread \in {"none", "wait", "check", "continue", "shutdown", "delete", "deleting", "ended"}
  /\ signal \in Signals /\ handler \in {"default", "dummy", "real"} /\ pending \subseteq Signals
  /\ server \in BOOLEAN /\ object \in {"none", "alive", "dying", "dead"}
  /\ old \in [{"main", "signal"} -> BOOLEAN]
  /\ {work, work_left_at_shutdown, armed, parent, signalled, by_hand, pid} \subseteq BOOLEAN
  /\ sent \in 0 .. MaxSignals
  /\ env \in Environment(MaxFPGAs)
  /\ w_pc \in {"launch", "fork", "wait", "term", "reap", "ended", "killed"}
  /\ command \in {"none", "forked", "running", "connected", "undefined", "ended"}
  /\ connection.backend \in {"zero_mock", "quiggeldy", "arq", "sim", "none"}

(* The environment's idle timeout of "0" switches it off.                  *)
WrapperCfg(timeout) ==
  [help |-> FALSE, vx |-> TRUE, ignore_parent_death |-> FALSE, mock_mode |-> FALSE,
   backend_arq |-> env.has_fpga_ips, backend_sim |-> ~env.has_fpga_ips,
   fpga_ip |-> env.has_fpga_ips, timeout |-> timeout]

Init ==
  /\ ProgramInit
  /\ by_hand \in BOOLEAN
  /\ env \in Environment(MaxFPGAs)
  /\ by_hand => env = [zero_mock |-> "unset", quiggeldy |-> "unset", has_fpga_ips |-> FALSE,
                       fpga_ips |-> 0, sim_port |-> FALSE]
  /\ IF by_hand THEN cfg \in Config ELSE \E timeout \in BOOLEAN : cfg = WrapperCfg(timeout)
  /\ w_pc = "launch" /\ pid = FALSE /\ command = "none" /\ connection = NoConnection

----------------------------------------------------------------------------
(* Mutant: the port is written into the variable that enables quiggeldy. *)
LaunchAndSetPort ==
  /\ pc' = "exec" /\ pid' = TRUE
  /\ env' = [env EXCEPT !.quiggeldy = "port"]
  /\ UNCHANGED <<cfg, exit, armed, signals, shared, outside>>

(* EnsureLocalQuiggeldy: there is one already where the variable is set,    *)
(* to whatever.  setup_quiggeldy forks, and the child becomes quiggeldy.    *)
LaunchQuiggeldy ==
  /\ pc' = "exec" /\ pid' = TRUE
  /\ env' = [env EXCEPT !.quiggeldy = "1"]
  /\ UNCHANGED <<cfg, exit, armed, signals, shared, outside>>

(* Where get_unused_port, get_fpga_ip or the fork throws nothing has been  *)
(* started yet.  A list that is set but empty is not one of one FPGA.      *)
Launch ==
  /\ ~by_hand /\ w_pc = "launch"
  /\ \/ env.quiggeldy # "unset" /\ w_pc' = "fork" /\ UNCHANGED <<programVars, env, pid>>
     \/ /\ env.quiggeldy = "unset" /\ (env.has_fpga_ips => HasOneFPGA(env))
        /\ LaunchQuiggeldy /\ w_pc' = "fork"
     \/ env.quiggeldy = "unset" /\ w_pc' = "ended" /\ UNCHANGED <<programVars, env, pid>>
  /\ UNCHANGED <<by_hand, command, connection>>

LaunchByHand ==
  /\ by_hand /\ w_pc = "launch"
  /\ pc' = "exec" /\ w_pc' = "ended"
  /\ UNCHANGED <<cfg, exit, armed, signals, shared, outside, by_hand, env, pid, command, connection>>

(* fork for the command may fail. *)
Fork ==
  /\ w_pc = "fork"
  /\ \/ command' = "forked" /\ w_pc' = "wait"
     \/ command' = "none" /\ w_pc' = "term"
  /\ UNCHANGED <<programVars, by_hand, env, pid, connection>>

WaitForCommand ==
  /\ w_pc = "wait" /\ command = "ended"
  /\ w_pc' = "term"
  /\ UNCHANGED <<programVars, by_hand, env, pid, command, connection>>

(* Mutant: the process is told to end, and not waited for. *)
TerminateOnly ==
  /\ w_pc = "term"
  /\ w_pc' = "ended"
  /\ IF pid THEN Receive("TERM") /\ UNCHANGED <<parent, sent>> ELSE UNCHANGED programVars
  /\ UNCHANGED <<by_hand, env, pid, command, connection>>

(* The destructor: terminate sends SIGTERM and then waits for the process. *)
Terminate ==
  /\ w_pc = "term"
  /\ w_pc' = IF pid THEN "reap" ELSE "ended"
  /\ IF pid THEN Receive("TERM") /\ UNCHANGED <<parent, sent>> ELSE UNCHANGED programVars
  /\ UNCHANGED <<by_hand, env, pid, command, connection>>

Reap ==
  /\ w_pc = "reap" /\ ~Runs
  /\ w_pc' = "ended"
  /\ UNCHANGED <<programVars, by_hand, env, pid, command, connection>>

(* The wrapper dies without its destructors. *)
WrapperIsKilled ==
  /\ ~by_hand /\ w_pc \notin {"ended", "killed"}
  /\ ParentDies
  /\ w_pc' = "killed"
  /\ UNCHANGED <<by_hand, env, pid, command, connection>>

LauncherDies == by_hand /\ w_pc = "ended" /\ ParentDies /\ UNCHANGED wrapper

----------------------------------------------------------------------------
(* The wrapper's child. *)

(* Where the command is not found the child goes on as the wrapper does:   *)
(* its destructor tells quiggeldy to end, and it exits as if all went well.*)
CommandExec ==
  /\ command = "forked"
  /\ \/ command' = "running" /\ UNCHANGED programVars
     \/ /\ command' = "ended"
        /\ IF pid THEN Receive("TERM") /\ UNCHANGED <<parent, sent>> ELSE UNCHANGED programVars
  /\ UNCHANGED <<by_hand, env, w_pc, pid, connection>>

(* The command makes its connections, n of them in each MultiConnection.   *)
(* Where a group overruns the list its connections are moved out of memory *)
(* that holds none: the command crashes, or goes on with them.             *)
Connect(n, all_jboa) ==
  LET backend == Backend(env)
      size == Found(env)[backend]
      overrun == Overrun(Groups(size, n, all_jboa), size)
  IN /\ command = "running"
     /\ command' \in CASE backend = "none" -> {"ended"}
                       [] backend = "quiggeldy" -> {"connected"}
                       [] OTHER -> IF overrun THEN {"undefined", "ended"} ELSE {"connected"}
     /\ connection' =
          CASE backend = "none" -> NoConnection
            [] backend = "quiggeldy" ->
                 [backend |-> backend, size |-> 1, per_multi |-> 1, groups |-> Groups(1, 1, FALSE)]
            [] OTHER ->
                 [backend |-> backend, size |-> size, per_multi |-> PerMulti(size, n, all_jboa),
                  groups |-> Groups(size, n, all_jboa)]
     /\ UNCHANGED <<programVars, by_hand, env, w_pc, pid>>

(* Or it asks for one with the full stream interface, as the hardware tests *)
(* do, of which those that get none end.                                    *)
ConnectFullStream ==
  LET backend == Backend(env)
  IN /\ command = "running"
     /\ \/ /\ HasFullStream(backend)
           /\ command' = "connected"
           /\ connection' = FullStream([NoConnection EXCEPT !.backend = backend])
        \/ /\ ~HasFullStream(backend)
           /\ command' = "ended"
           /\ UNCHANGED connection
     /\ UNCHANGED <<programVars, by_hand, env, w_pc, pid>>

CommandEnds ==
  /\ command \in {"running", "connected", "undefined"}
  /\ command' = "ended"
  /\ UNCHANGED <<programVars, by_hand, env, w_pc, pid, connection>>

(* The server has clients: elsewhere, or the command. *)
HasClients == by_hand \/ (command = "connected" /\ connection.backend = "quiggeldy" /\ pid)

----------------------------------------------------------------------------
Program == MainThread \/ SignalThread \/ WorkDone
Wrapper == Launch \/ LaunchByHand \/ Fork \/ WaitForCommand \/ Terminate \/ Reap

Next ==
  \/ Wrapper \/ CommandExec \/ CommandEnds \/ WrapperIsKilled \/ LauncherDies
  \/ ConnectFullStream \/ \E n \in 0 .. MaxFPGAs, all_jboa \in BOOLEAN : Connect(n, all_jboa)
  \/ (Program \/ (HasClients /\ WorkArrives)) /\ UNCHANGED wrapper
  \/ (\E s \in Signals : UserSignal(s)) /\ UNCHANGED wrapper

(* Threads and processes that can go on do so, and work is finished.  When *)
(* a command ends, when clients come and who sends signals is up to them.  *)
Fairness ==
  /\ WF_vars(MainThread /\ UNCHANGED wrapper)
  /\ WF_vars(SignalThread /\ UNCHANGED wrapper)
  /\ WF_vars(WorkDone /\ UNCHANGED wrapper)
  /\ WF_vars(Wrapper) /\ WF_vars(CommandExec)

Spec == Init /\ [][Next]_vars /\ Fairness

----------------------------------------------------------------------------
(* With an idle timeout, quiggeldy and the wrapper end once the command    *)
(* has, however it has and whatever is left of the wrapper.  A crash, the  *)
(* end of all that is known of a program, counts as its end here.          *)
WrapperEnds ==
  (~by_hand /\ cfg.timeout /\ command \in {"none", "ended"} /\ w_pc \in {"term", "reap", "killed"})
    ~> (w_pc \in {"ended", "killed"} /\ ~Runs)

(* And a signal to end that the real handler gets ends the program, with   *)
(* or without an idle timeout and whatever its clients do.                 *)
TermEnds == (handler = "real" /\ "TERM" \in pending) ~> ~Runs

EverythingEnds == WrapperEnds /\ TermEnds

(* The two threads never use a server that is gone, or being destroyed,    *)
(* unless a signal from outside came just before or while the main thread  *)
(* called start_server, or while it was resetting the server itself.       *)
CrashesOnlyOnSignal ==
  exit = "crashed" => signalled /\ (pc \in {"start", "starting"} \/ (old["main"] /\ pc \in {"delete", "wake", "join"}))

(* The wrapper leaves no process behind when it returns: the quiggeldy it  *)
(* launched has ended, and so has the command.                             *)
NothingLeftRunning == w_pc = "ended" /\ ~by_hand => ~Runs /\ command \in {"none", "ended"}

(* A command goes through the quiggeldy the wrapper made for it, whatever  *)
(* hardware or simulation the environment names, unless zero mock          *)
(* connections are enabled.  Its groups take every connection found, once  *)
(* and in the order of the list; only where the list is longer than the    *)
(* group size, and no multiple of it, does the code run behind its end.    *)
CommandGetsConnections ==
  LET groups == connection.groups
      size == connection.size
      per_multi == connection.per_multi
  IN /\ command \in {"connected", "undefined"} /\ pid =>
          connection.backend = IF env.zero_mock = "1" THEN "zero_mock" ELSE "quiggeldy"
     /\ command = "connected" =>
          /\ groups # <<>> /\ groups[1].first = 0 /\ groups[Len(groups)].last = size
          /\ \A k \in 1 .. Len(groups) - 1 : groups[k].last = groups[k + 1].first
          /\ \A k \in 1 .. Len(groups) : groups[k].first < size
     /\ command = "undefined" => per_multi < size /\ size % per_multi # 0

(* connection_from_env.h: the number of multi-connections is rounded off,  *)
(* where there are enough connections for one.                             *)
GroupsRoundedOff ==
  command \in {"connected", "undefined"} /\ connection.per_multi <= connection.size =>
    Len(connection.groups) = connection.size \div connection.per_multi
=============================================================================
