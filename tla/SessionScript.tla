---------------------------- MODULE SessionScript ----------------------------
(***************************************************************************)
(* scripts/tgcompat-session.sh: "start" (also the first half of "run") and *)
(* "stop", run by any number of shells, around the pid file, the socket    *)
(* file and the daemons they start.  A step is one test or one command of  *)
(* the script, or one step of a daemon's life (src/tgcompatd.c).           *)
(***************************************************************************)
EXTENDS Naturals, FiniteSets

CONSTANTS Scripts,  \* shells that run the script
          Pids,     \* process ids for daemons, none used twice
          None,
          OneAtATime,  \* whether a shell waits until the others are done
          CanCrash     \* whether a daemon may be killed

ASSUME ScriptAssumptions ==
  /\ None \notin Pids
  /\ OneAtATime \in BOOLEAN /\ CanCrash \in BOOLEAN

VARIABLES
  pid_file,  \* the process id in tgcompatd.pid, None without the file
  socket,    \* the daemon whose socket has the path broker.sock, or None
  daemon,    \* of a process id: unborn, forked, started, bound, listening,
             \* stopping or dead
  termed,    \* the daemons that were sent SIGTERM
  script     \* of a shell: [pc, pid, said]

vars == <<pid_file, socket, daemon, termed, script>>

Init == /\ pid_file = None /\ socket = None
        /\ daemon = [d \in Pids |-> "unborn"]
        /\ termed = {}
        /\ script = [s \in Scripts |->
                       [pc |-> "idle", pid |-> None, said |-> "nothing"]]

Alive(d) == d # None /\ daemon[d] \notin {"unborn", "dead"}

\* Before its exec a child is still the shell, and its executable differs.
is_managed_daemon == Alive(pid_file) /\ daemon[pid_file] # "forked"

Ends(s, word) == script' = [script EXCEPT ![s] =
                   [pc |-> "idle", pid |-> None, said |-> word]]
Goes(s, pc) == script' = [script EXCEPT ![s].pc = pc]

MayBegin(s) == /\ script[s].pc = "idle"
               /\ OneAtATime => \A t \in Scripts : script[t].pc = "idle"

-----------------------------------------------------------------------------
(* start_daemon.                                                           *)

start_begins(s) ==
  /\ MayBegin(s)
  /\ IF is_managed_daemon THEN Ends(s, "already running") ELSE Goes(s, "stale")
  /\ UNCHANGED <<pid_file, socket, daemon, termed>>

\* Mutant of stale: any pid file is taken for a stale one.
any_pid_file == pid_file # None

\* The pid file names a process that is gone.
stale == pid_file # None /\ ~Alive(pid_file)

start_judges(s) ==
  /\ script[s].pc = "stale"
  /\ IF stale THEN Goes(s, "clean")
     ELSE IF pid_file # None THEN Ends(s, "refused")
     ELSE Goes(s, "probe")
  /\ UNCHANGED <<pid_file, socket, daemon, termed>>

start_cleans(s) ==
  /\ script[s].pc = "clean"
  /\ pid_file' = None /\ socket' = None
  /\ Goes(s, "probe")
  /\ UNCHANGED <<daemon, termed>>

start_probes(s) ==
  /\ script[s].pc = "probe"
  /\ IF socket # None THEN Ends(s, "refused") ELSE Goes(s, "spawn")
  /\ UNCHANGED <<pid_file, socket, daemon, termed>>

start_spawns(s) ==
  /\ script[s].pc = "spawn"
  /\ \E d \in Pids :
       /\ daemon[d] = "unborn"
       /\ daemon' = [daemon EXCEPT ![d] = "forked"]
       /\ script' = [script EXCEPT ![s].pc = "record", ![s].pid = d]
  /\ UNCHANGED <<pid_file, socket, termed>>

start_records(s) ==
  /\ script[s].pc = "record"
  /\ pid_file' = script[s].pid
  /\ Goes(s, "wait")
  /\ UNCHANGED <<socket, daemon, termed>>

\* A round of the wait: is_managed_daemon reads the pid file into managed_pid,
\* so the test for an early exit is about that process.
start_waits(s) ==
  /\ script[s].pc = "wait"
  /\ \/ socket # None /\ is_managed_daemon /\ Ends(s, "ready")
     \/ ~Alive(pid_file) /\ Ends(s, "exited during startup")
     \/ Ends(s, "timed out")
  /\ UNCHANGED <<pid_file, socket, daemon, termed>>

-----------------------------------------------------------------------------
(* stop_daemon.                                                            *)

stop_begins(s) ==
  /\ MayBegin(s)
  /\ IF is_managed_daemon
     THEN /\ termed' = termed \cup {pid_file}
          /\ script' = [script EXCEPT ![s].pc = "stopping", ![s].pid = pid_file]
     ELSE Ends(s, "not running") /\ UNCHANGED termed
  /\ UNCHANGED <<pid_file, socket, daemon>>

stop_waits(s) ==
  /\ script[s].pc = "stopping"
  /\ \/ ~Alive(script[s].pid) /\ pid_file' = None /\ Ends(s, "stopped")
     \/ Ends(s, "did not stop") /\ UNCHANGED pid_file
  /\ UNCHANGED <<socket, daemon, termed>>

-----------------------------------------------------------------------------
(* A daemon.                                                               *)

Becomes(d, state) == /\ daemon' = [daemon EXCEPT ![d] = state]
                     /\ UNCHANGED <<pid_file, termed, script>>

Exec(d) == daemon[d] = "forked" /\ Becomes(d, "started") /\ UNCHANGED socket

\* lstat and bind refuse a path that exists.
transport_listen(d) ==
  /\ daemon[d] = "started"
  /\ IF socket # None THEN UNCHANGED socket /\ Becomes(d, "dead")
                      ELSE socket' = d /\ Becomes(d, "bound")

\* chmod and listen: from here on connections succeed.
Listen(d) == daemon[d] = "bound" /\ Becomes(d, "listening") /\ UNCHANGED socket

\* The signal: before the mask is set it kills, later it ends the accept loop.
Stop(d) == /\ d \in termed
           /\ \/ daemon[d] \in {"forked", "started"} /\ Becomes(d, "dead")
              \/ daemon[d] = "listening" /\ Becomes(d, "stopping")
           /\ UNCHANGED socket

\* The end of main removes whatever has the path.
Unlink(d) == daemon[d] = "stopping" /\ socket' = None /\ Becomes(d, "dead")

Crash(d) == CanCrash /\ Alive(d) /\ Becomes(d, "dead") /\ UNCHANGED socket

-----------------------------------------------------------------------------
Script(s) == \/ start_begins(s) \/ start_judges(s) \/ start_cleans(s)
             \/ start_probes(s) \/ start_spawns(s) \/ start_records(s)
             \/ start_waits(s) \/ stop_begins(s) \/ stop_waits(s)

Daemon(d) == \/ Exec(d) \/ transport_listen(d) \/ Listen(d) \/ Stop(d)
             \/ Unlink(d) \/ Crash(d)

Next == (\E s \in Scripts : Script(s)) \/ (\E d \in Pids : Daemon(d))

Spec == Init /\ [][Next]_vars

-----------------------------------------------------------------------------
\* A daemon that accepts connections can be reached, and can be stopped: the
\* socket file is its own, and the pid file names it, whatever crashed, was
\* refused or timed out before, except while its pid is about to be recorded.
\* With OneAtATime, nobody removes or replaces the socket of a live daemon, and
\* so there is one broker, with one set of semaphores.  The script takes no
\* lock: shells that start at the same moment can break this.
OneService ==
  \A d \in Pids : daemon[d] = "listening" =>
    /\ socket = d
    /\ \/ pid_file = d
       \/ \E s \in Scripts : script[s].pc = "record" /\ script[s].pid = d
=============================================================================
