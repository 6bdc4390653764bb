------------------------------- MODULE FromEnv -------------------------------
(* Which connections get_connection_list_from_env makes of an environment, *)
(* and how it packs them into MultiConnections.                            *)
EXTENDS Naturals, Sequences, FiniteSetsExt

(* The variables that are read.  The FPGA list is its length, 0 where the  *)
(* variable is not set (has_fpga_ips), or is set to nothing.               *)
Switch == {"unset", "0", "1"}
Environment(MaxFPGAs) ==
  {env \in [zero_mock : Switch, quiggeldy : Switch, has_fpga_ips : BOOLEAN,
            fpga_ips : 0 .. MaxFPGAs, sim_port : BOOLEAN] :
     env.fpga_ips > 0 => env.has_fpga_ips}

(* How many connections of each type there would be. *)
zeromockconnections(env) == IF env.zero_mock = "1" THEN 1 ELSE 0
quiggeldyclients(env) == IF env.quiggeldy = "1" THEN 1 ELSE 0
arqconnections(env) == env.fpga_ips
simconnections(env) == IF env.sim_port THEN 1 ELSE 0

(* get_fpga_ip, which is for exactly one. *)
HasOneFPGA(env) == env.fpga_ips = 1

(* The first type with a connection is taken; with none the code throws.   *)
Backend(env) ==
  CASE zeromockconnections(env) > 0 -> "zero_mock"
    [] zeromockconnections(env) = 0 /\ quiggeldyclients(env) > 0 -> "quiggeldy"
    [] zeromockconnections(env) + quiggeldyclients(env) = 0 /\ arqconnections(env) > 0 -> "arq"
    [] OTHER -> IF simconnections(env) > 0 THEN "sim" ELSE "none"

Found(env) ==
  [zero_mock |-> zeromockconnections(env), quiggeldy |-> quiggeldyclients(env),
   arq |-> arqconnections(env), sim |-> simconnections(env), none |-> 0]

(* number_connections_per_multi after the two corrections. *)
PerMulti(size, n, all_jboa) ==
  IF ~all_jboa THEN 1 ELSE IF n = 0 THEN size ELSE n

(* Mutant: the size of the list does not bound the groups. *)
UnboundedGroups(size, n, all_jboa) ==
  LET per_multi == PerMulti(size, n, all_jboa)
      count == (size + per_multi - 1) \div per_multi
  IN [k \in 1 .. count |-> [first |-> (k - 1) * per_multi, last |-> k * per_multi]]

(* Group k takes the connections from first (inclusive) to last, counted   *)
(* from 0: the loop goes in steps of the group size, and each group ends   *)
(* std::min(group size, size) behind its begin.                            *)
Groups(size, n, all_jboa) ==
  LET per_multi == PerMulti(size, n, all_jboa)
      count == (size + per_multi - 1) \div per_multi
  IN [k \in 1 .. count |->
        [first |-> (k - 1) * per_multi,
         last |-> (k - 1) * per_multi + Min({per_multi, size})]]

(* The iterators of a group end behind the end of the list.                *)
Overrun(groups, size) == \E k \in 1 .. Len(groups) : groups[k].last > size

(* get_connection_full_stream_interface_from_env: the first connection is   *)
(* taken out of its MultiConnection and the others are given up.  Through   *)
(* quiggeldy there is no such interface.                                    *)
HasFullStream(backend) == backend \in {"zero_mock", "arq", "sim"}
FullStream(connection) ==
  [connection EXCEPT !.size = 1, !.per_multi = 1, !.groups = <<[first |-> 0, last |-> 1]>>]
=============================================================================
