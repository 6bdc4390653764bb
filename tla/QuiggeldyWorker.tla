-------------------------- MODULE QuiggeldyWorker --------------------------
(***************************************************************************)
(* The QuiggeldyWorker: it shares one board between the sessions of its    *)
(* clients, and the board with the other users of the cluster by a slurm   *)
(* license.                                                                *)
(*                                                                         *)
(* The worker is called by one thread of the scheduler, a library.  The    *)
(* scheduler is taken to do what the comments of the worker say: setup     *)
(* when there is work and no connection, perform_reinit before each work,  *)
(* forced if another session or nobody had the board, and                  *)
(* perform_reinit_snapshot before a session loses the board.  An exception *)
(* of work is the answer to the client; an exception of another call ends  *)
(* that call only.  An entry that is set is uploaded when the session is   *)
(* served next.                                                            *)
(*                                                                         *)
(* The reinit stack of a session has one entry here; Reinit models stacks. *)
(* Mock mode, which makes every call a no-op, is left out.                 *)
(***************************************************************************)
EXTENDS Naturals

CONSTANTS
  Session,                   \* session ids of the clients
  NoSession,                 \* nobody's session
  Snapshotting,              \* sessions whose reinit entry has a snapshot
  m_max_num_connection_attempts,
  SlurmInstalled,            \* can execlp find salloc and scancel?
  MaxVersion                 \* bound: states a session gives the board

ASSUME SessionAssumption == NoSession \notin Session /\ Snapshotting \subseteq Session
ASSUME AttemptsAssumption == m_max_num_connection_attempts \in Nat
ASSUME SlurmAssumption == SlurmInstalled \in BOOLEAN

(* What the chip is configured to: the n-th state that a session gave it.  *)
State(s, n) == [owner |-> s, version |-> n]
Unknown == State(NoSession, 0)
ChipState == [owner : Session \cup {NoSession}, version : Nat]
ReinitEntry == [request : ChipState, reinit_pending : BOOLEAN]

VARIABLES
  m_connection,              \* is there a connection?
  m_has_slurm_allocation,
  m_allocate_license,        \* not initialised by the constructor, then set once
  m_sessions_with_failed_reinit,
  m_sessions_with_failed_reinit_schedule_out,
  num_attempts,              \* failed attempts of the current setup_connection
  call,                      \* what the worker is asked to do next, or "idle"
  after,                     \* call: what follows the teardown under way
  target,                    \* the session that is served
  current,                   \* the session whose state the chip has
  reinit,                    \* reinit[s]: the entry on the server
  license,                   \* who slurm has given the license to
  chip,
  request,                   \* request[s]: does s wait for an answer?
  set,                       \* set[s]: has s a new entry to upload?
  version,                   \* version[s]: states that s gave the chip so far
  expected                   \* expected[s]: the one s must find at its next work

bookkeeping == <<m_has_slurm_allocation, license>>
failures == <<m_sessions_with_failed_reinit, m_sessions_with_failed_reinit_schedule_out>>
clients == <<request, set, version, expected>>
vars == <<m_connection, bookkeeping, m_allocate_license, failures, num_attempts,
          call, after, target, current, reinit, chip, clients>>

Init ==
  /\ m_connection = FALSE /\ m_has_slurm_allocation = FALSE
  /\ m_allocate_license \in BOOLEAN
  /\ m_sessions_with_failed_reinit = {}
  /\ m_sessions_with_failed_reinit_schedule_out = {}
  /\ num_attempts = 0
  /\ call = "idle" /\ after = "idle" /\ target = NoSession /\ current = NoSession
  /\ reinit = [s \in Session |-> [request |-> State(s, 0), reinit_pending |-> TRUE]]
  /\ license = "free" /\ chip = Unknown
  /\ request = [s \in Session |-> FALSE]
  /\ set = [s \in Session |-> FALSE]
  /\ version = [s \in Session |-> 0]
  /\ expected = [s \in Session |-> 0]

----------------------------------------------------------------------------
(* The world around the worker. *)

Submit(s) ==
  /\ ~request[s] /\ version[s] < MaxVersion
  /\ request' = [request EXCEPT ![s] = TRUE]
  /\ UNCHANGED <<m_connection, bookkeeping, m_allocate_license, failures, num_attempts,
                 call, after, target, current, reinit, chip, set, version, expected>>

(* A client that waits for no answer sets a reinit program.                *)
Set(s) ==
  /\ ~request[s] /\ version[s] < MaxVersion
  /\ set' = [set EXCEPT ![s] = TRUE]
  /\ version' = [version EXCEPT ![s] = @ + 1]
  /\ expected' = [expected EXCEPT ![s] = version'[s]]
  /\ UNCHANGED <<m_connection, bookkeeping, m_allocate_license, failures, num_attempts,
                 call, after, target, current, reinit, chip, request>>

(* Other users of the cluster take the license and leave anything behind.  *)
Foreign ==
  /\ \/ license = "free" /\ license' = "foreign"
     \/ license = "foreign" /\ license' = "free"
  /\ chip' = Unknown
  /\ UNCHANGED <<m_connection, m_has_slurm_allocation, m_allocate_license, failures,
                 num_attempts, call, after, target, current, reinit, clients>>

(* The scheduler turns to a session that waits ...                         *)
Serve(s) ==
  /\ call = "idle" /\ request[s]
  /\ target' = s
  /\ call' = CASE ~m_connection -> "acquire"
               [] m_connection /\ current \in {s, NoSession} -> "reinit"
               [] OTHER -> "snapshot"
  /\ UNCHANGED <<m_connection, bookkeeping, m_allocate_license, failures, num_attempts,
                 after, current, reinit, chip, clients>>

(* ... or releases the board, as it does in intervals.                     *)
GiveUp ==
  /\ call = "idle" /\ (m_connection \/ m_has_slurm_allocation)
  /\ target' = NoSession /\ after' = "idle"
  /\ call' = IF m_connection /\ current # NoSession THEN "snapshot" ELSE "disconnect"
  /\ UNCHANGED <<m_connection, bookkeeping, m_allocate_license, failures, num_attempts,
                 current, reinit, chip, clients>>

----------------------------------------------------------------------------
(* setup. *)

(* setup_connection: the old connection goes first.                        *)
SetupConnection(mode) == m_connection' = FALSE /\ num_attempts' = 0 /\ call' = mode

(* A license is acquired once: salloc blocks until it is available and may *)
(* fail, which is thrown.  A child that cannot execute salloc exits with   *)
(* the status of a success.                                                *)
Acquire ==
  /\ call = "acquire"
  /\ \/ /\ ~m_allocate_license \/ m_has_slurm_allocation
        /\ SetupConnection("connect") /\ UNCHANGED bookkeeping
     \/ /\ m_allocate_license /\ ~m_has_slurm_allocation
        /\ IF SlurmInstalled THEN license = "free" /\ license' = "quiggeldy"
                             ELSE UNCHANGED license
        /\ m_has_slurm_allocation' = TRUE
        /\ SetupConnection("connect")
  /\ UNCHANGED <<m_allocate_license, failures, after, target, current, reinit, chip, clients>>

(* It fails when the license could be had; a failure while it waits        *)
(* changes no more.                                                        *)
SallocFails ==
  /\ call = "acquire" /\ m_allocate_license /\ ~m_has_slurm_allocation
  /\ SlurmInstalled /\ license = "free"
  /\ call' = "idle"
  /\ UNCHANGED <<m_connection, bookkeeping, m_allocate_license, failures, num_attempts,
                 after, target, current, reinit, chip, clients>>

(* The connection is there; work, if it asked for a new one, returns.      *)
Connect ==
  /\ call \in {"connect", "reconnect"}
  /\ m_connection' = TRUE
  /\ call' = IF call = "connect" THEN "reinit" ELSE "idle"
  /\ request' = [request EXCEPT ![target] = @ /\ call = "connect"]
  /\ UNCHANGED <<bookkeeping, m_allocate_license, failures, num_attempts, after, target,
                 current, reinit, chip, set, version, expected>>

(* Mutant: one attempt more.                                               *)
ConnectFailsOnceMore ==
  /\ call \in {"connect", "reconnect"} /\ num_attempts <= m_max_num_connection_attempts
  /\ num_attempts' = num_attempts + 1
  /\ UNCHANGED <<m_connection, bookkeeping, m_allocate_license, failures, call, after,
                 target, current, reinit, chip, clients>>

ConnectFails ==
  /\ call \in {"connect", "reconnect"} /\ num_attempts < m_max_num_connection_attempts
  /\ num_attempts' = num_attempts + 1
  /\ UNCHANGED <<m_connection, bookkeeping, m_allocate_license, failures, call, after,
                 target, current, reinit, chip, clients>>

(* The last failure is thrown.  From work it reaches the client, who knows *)
(* then that what the chip was left with is gone: there is no connection   *)
(* to take the snapshot from.                                              *)
GiveUpConnecting ==
  /\ call \in {"connect", "reconnect"} /\ num_attempts >= m_max_num_connection_attempts
  /\ call' = "idle" /\ current' = NoSession
  /\ IF call = "connect" THEN UNCHANGED <<request, expected>>
     ELSE /\ request' = [request EXCEPT ![target] = FALSE]
          /\ expected' = [expected EXCEPT ![target] = reinit[target].request.version]
  /\ UNCHANGED <<m_connection, bookkeeping, m_allocate_license, failures, num_attempts,
                 after, target, reinit, chip, set, version>>

----------------------------------------------------------------------------
(* perform_reinit and perform_reinit_snapshot. *)

(* teardown is called, and returns to c.                                   *)
Teardown(c) == call' = "disconnect" /\ after' = c

(* What the scheduler passes to perform_reinit.                            *)
Uploaded(s) ==
  IF set[s] THEN [request |-> State(s, expected[s]), reinit_pending |-> TRUE] ELSE reinit[s]

Due(s) == Uploaded(s).reinit_pending \/ current # s

(* Mutant: force is ignored.                                               *)
DueIfPending(s) == Uploaded(s).reinit_pending

(* A session without snapshot starts from its reinit program whenever it   *)
(* lost the board.                                                         *)
PerformReinit ==
  /\ call = "reinit"
  /\ reinit' = [reinit EXCEPT ![target] = [Uploaded(target) EXCEPT !.reinit_pending = FALSE]]
  /\ chip' = IF Due(target) THEN Uploaded(target).request ELSE chip
  /\ set' = [set EXCEPT ![target] = FALSE]
  /\ expected' = IF target \in Snapshotting \/ ~Due(target) THEN expected
                 ELSE [expected EXCEPT ![target] = Uploaded(target).request.version]
  /\ current' = target /\ call' = "work"
  /\ UNCHANGED <<m_connection, bookkeeping, m_allocate_license, failures, num_attempts,
                 after, target, request, version>>

(* Mutant: the failed session is not noted.                                *)
ReinitFailsQuietly ==
  /\ call = "reinit" /\ Due(target)
  /\ reinit' = [reinit EXCEPT ![target] = Uploaded(target)]
  /\ set' = [set EXCEPT ![target] = FALSE]
  /\ chip' = Unknown /\ current' = NoSession
  /\ Teardown("work")
  /\ UNCHANGED <<m_connection, bookkeeping, m_allocate_license, failures, num_attempts,
                 target, request, version, expected>>

(* The program throws: the hardware is given up, and work is called next.  *)
ReinitFails ==
  /\ call = "reinit" /\ Due(target)
  /\ reinit' = [reinit EXCEPT ![target] = Uploaded(target)]
  /\ set' = [set EXCEPT ![target] = FALSE]
  /\ chip' = Unknown /\ current' = NoSession
  /\ m_sessions_with_failed_reinit' = m_sessions_with_failed_reinit \cup {target}
  /\ Teardown("work")
  /\ UNCHANGED <<m_connection, bookkeeping, m_allocate_license,
                 m_sessions_with_failed_reinit_schedule_out, num_attempts,
                 target, request, version, expected>>

(* The request of an entry becomes what the chip is read to be.            *)
Snapshot ==
  /\ call = "snapshot"
  /\ reinit' = IF current \in Snapshotting THEN [reinit EXCEPT ![current].request = chip]
               ELSE reinit
  /\ current' = NoSession
  /\ IF target = NoSession THEN Teardown("idle") ELSE call' = "reinit" /\ UNCHANGED after
  /\ UNCHANGED <<m_connection, bookkeeping, m_allocate_license, failures, num_attempts,
                 target, chip, clients>>

(* Mutant: the session that could not be read is not noted.                *)
SnapshotFailsQuietly ==
  /\ call = "snapshot" /\ current \in Snapshotting
  /\ current' = NoSession
  /\ Teardown(IF target = NoSession THEN "idle" ELSE "acquire")
  /\ UNCHANGED <<m_connection, bookkeeping, m_allocate_license, failures, num_attempts,
                 target, reinit, chip, clients>>

(* The state of the session is lost, for good.                             *)
SnapshotFails ==
  /\ call = "snapshot" /\ current \in Snapshotting
  /\ m_sessions_with_failed_reinit_schedule_out' =
       m_sessions_with_failed_reinit_schedule_out \cup {current}
  /\ current' = NoSession
  /\ Teardown(IF target = NoSession THEN "idle" ELSE "acquire")
  /\ UNCHANGED <<m_connection, bookkeeping, m_allocate_license,
                 m_sessions_with_failed_reinit, num_attempts, target, reinit, chip, clients>>

----------------------------------------------------------------------------
(* work and teardown. *)

(* Mutant: the failure stays noted.                                        *)
RefuseForever ==
  /\ call = "work"
  /\ target \in m_sessions_with_failed_reinit \cup m_sessions_with_failed_reinit_schedule_out
  /\ request' = [request EXCEPT ![target] = FALSE]
  /\ call' = "idle"
  /\ UNCHANGED <<m_connection, bookkeeping, m_allocate_license, failures, num_attempts,
                 after, target, current, reinit, chip, set, version, expected>>

(* A failed reinit is answered once, a lost session always, by a throw.    *)
Refuse ==
  /\ call = "work"
  /\ target \in m_sessions_with_failed_reinit \cup m_sessions_with_failed_reinit_schedule_out
  /\ m_sessions_with_failed_reinit' = m_sessions_with_failed_reinit \ {target}
  /\ request' = [request EXCEPT ![target] = FALSE]
  /\ call' = "idle"
  /\ UNCHANGED <<m_connection, bookkeeping, m_allocate_license,
                 m_sessions_with_failed_reinit_schedule_out, num_attempts,
                 after, target, current, reinit, chip, set, version, expected>>

(* The program runs; it returns or throws, or its response has a timeout   *)
(* notification and the connection is set up anew before it returns.       *)
Work ==
  /\ call = "work"
  /\ target \notin m_sessions_with_failed_reinit \cup m_sessions_with_failed_reinit_schedule_out
  /\ version' = [version EXCEPT ![target] = @ + 1]
  /\ expected' = [expected EXCEPT ![target] = version'[target]]
  /\ chip' = State(target, version'[target])
  /\ \/ /\ request' = [request EXCEPT ![target] = FALSE]
        /\ call' = "idle" /\ UNCHANGED <<m_connection, num_attempts>>
     \/ SetupConnection("reconnect") /\ UNCHANGED request
  /\ UNCHANGED <<bookkeeping, m_allocate_license, failures, after, target, current,
                 reinit, set>>

(* Mutant: the license goes first.                                         *)
DisconnectLast ==
  /\ call = "disconnect"
  /\ call' = IF m_allocate_license THEN "release" ELSE after
  /\ UNCHANGED <<m_connection, bookkeeping, m_allocate_license, failures, num_attempts,
                 after, target, current, reinit, chip, clients>>

Disconnect ==
  /\ call = "disconnect"
  /\ m_connection' = FALSE
  /\ call' = IF m_allocate_license THEN "release" ELSE after
  /\ UNCHANGED <<bookkeeping, m_allocate_license, failures, num_attempts,
                 after, target, current, reinit, chip, clients>>

(* Mutant: scancel is not executed.                                        *)
ReleaseWithoutScancel ==
  /\ call = "release"
  /\ call' = after
  /\ m_has_slurm_allocation' = FALSE
  /\ UNCHANGED <<m_connection, license, m_allocate_license, failures, num_attempts,
                 after, target, current, reinit, chip, clients>>

(* slurm_allocation_release: nothing if there is nothing to release; a     *)
(* scancel that fails is thrown and the license stays allocated.           *)
Release ==
  /\ call = "release"
  /\ call' = after
  /\ \/ UNCHANGED bookkeeping
     \/ /\ m_has_slurm_allocation
        /\ m_has_slurm_allocation' = FALSE
        /\ license' = IF SlurmInstalled THEN "free" ELSE license
  /\ UNCHANGED <<m_connection, m_allocate_license, failures, num_attempts,
                 after, target, current, reinit, chip, clients>>

----------------------------------------------------------------------------
Worker ==
  \/ Acquire \/ SallocFails \/ Connect \/ ConnectFails \/ GiveUpConnecting
  \/ PerformReinit \/ ReinitFails \/ Snapshot \/ SnapshotFails
  \/ Refuse \/ Work \/ Disconnect \/ Release

Next ==
  \/ \E s \in Session : Submit(s) \/ Set(s) \/ Serve(s)
  \/ Foreign \/ GiveUp
  \/ Worker

(* The thread of the scheduler goes on, and is fair to the sessions; for   *)
(* none of them slurm refuses the license, or the board is unreachable,    *)
(* whenever it is tried.                                                   *)
Spec ==
  /\ Init /\ [][Next]_vars
  /\ WF_vars(Worker) /\ WF_vars(Foreign)
  /\ \A s \in Session : /\ SF_vars(Serve(s))
                         /\ SF_vars(target = s /\ Acquire)
                         /\ SF_vars(target = s /\ Connect)

----------------------------------------------------------------------------
(* Properties. *)

TypeOK ==
  /\ m_connection \in BOOLEAN /\ m_has_slurm_allocation \in BOOLEAN
  /\ m_allocate_license \in BOOLEAN
  /\ m_sessions_with_failed_reinit \subseteq Session
  /\ m_sessions_with_failed_reinit_schedule_out \subseteq Snapshotting
  /\ num_attempts \in 0 .. m_max_num_connection_attempts
  /\ call \in {"idle", "acquire", "connect", "reconnect", "snapshot", "reinit", "work",
               "disconnect", "release"}
  /\ after \in {"idle", "acquire", "work"}
  /\ target \in Session \cup {NoSession} /\ current \in Session \cup {NoSession}
  /\ reinit \in [Session -> ReinitEntry]
  /\ license \in {"free", "quiggeldy", "foreign"} /\ chip \in ChipState
  /\ request \in [Session -> BOOLEAN] /\ set \in [Session -> BOOLEAN]
  /\ version \in [Session -> Nat] /\ expected \in [Session -> Nat]

(* A worker that is to allocate the license has a connection, or opens     *)
(* one, only while slurm has given it the license: acquiring, failed       *)
(* connects, teardowns in the middle of a call and scancel that fails keep *)
(* the order (setup, teardown).                                            *)
ConnectionIsLicensed ==
  m_allocate_license /\ (m_connection \/ call \in {"connect", "reconnect"}) =>
    license = "quiggeldy"

(* perform_reinit, perform_reinit_snapshot and work dereference the        *)
(* connection unless the session is refused: it is there, although a       *)
(* failure may have torn it down between two calls.                        *)
NoNullConnection ==
  \/ call \in {"reinit", "snapshot"}
  \/ /\ call = "work"
     /\ target \notin m_sessions_with_failed_reinit \cup m_sessions_with_failed_reinit_schedule_out
  => m_connection

(* "session-user might try again": a failed reinit costs the one answer it *)
(* belongs to, and is forgotten when the next session is served.           *)
FailureIsOneAnswer == call = "idle" => m_sessions_with_failed_reinit = {}

(* Work of a session runs on the state this session left, restored if      *)
(* others had the board since, or on its reinit program if it has no       *)
(* snapshot; never on another session's or an outdated state.              *)
WorksOnOwnState ==
  [][call = "work" /\ version'[target] # version[target] /\ m_allocate_license
       => chip = State(target, expected[target])]_vars

(* Every request is answered, by a response or an exception.               *)
RequestsAreAnswered == \A s \in Session : request[s] ~> ~request[s]
=============================================================================
