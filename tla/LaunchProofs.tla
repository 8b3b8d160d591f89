---------------------------- MODULE LaunchProofs ----------------------------
(***************************************************************************)
(* Proofs about what a game is launched with: the session script, the      *)
(* reader of ELF files, and the shims for mprotect, for Android's /proc    *)
(* and for semaphores inside one process.  They share no state, and each   *)
(* part has an invariant of its own.                                       *)
(***************************************************************************)
EXTENDS SessionScript, ElfInterpreter, AndroidRoot, SysvShim, MprotectShim,
        WellFoundedInduction, TLAPS

-----------------------------------------------------------------------------
(* tgcompat-session.sh.                                                    *)

Lives == {"unborn", "forked", "started", "bound", "listening", "stopping", "dead"}
ScriptState == [pc : {"idle", "stale", "clean", "probe", "spawn", "record",
                      "wait", "stopping"},
                pid : Pids \cup {None},
                said : {"nothing", "already running", "refused", "ready",
                        "exited during startup", "timed out", "not running",
                        "stopped", "did not stop"}]

ScriptTypeOK ==
  /\ pid_file \in Pids \cup {None} /\ socket \in Pids \cup {None}
  /\ daemon \in [Pids -> Lives] /\ termed \subseteq Pids
  /\ script \in [Scripts -> ScriptState]

\* The strengthening, for shells that take turns: a live daemon is the one in
\* the pid file or the one about to be written there, so there is at most one,
\* and none while a shell is between its tests and the fork.
ScriptInv ==
  /\ ScriptTypeOK
  /\ \A s, t \in Scripts : script[s].pc # "idle" /\ script[t].pc # "idle" => s = t
  /\ \A d \in Pids : daemon[d] \notin {"unborn", "dead"} =>
       \/ pid_file = d
       \/ \E s \in Scripts : script[s].pc = "record" /\ script[s].pid = d
  /\ \A d \in Pids : daemon[d] \in {"bound", "listening", "stopping"} => socket = d
  /\ \A s \in Scripts :
       /\ script[s].pc = "clean" =>
            pid_file # None /\ daemon[pid_file] \in {"unborn", "dead"}
       /\ script[s].pc \in {"probe", "spawn", "record"} => pid_file = None
       /\ script[s].pc = "record" => script[s].pid \in Pids
       /\ script[s].pc = "stopping" => pid_file \in Pids /\ pid_file = script[s].pid

\* Before the first shell runs, no daemon is alive and no file is there.
LEMMA ScriptInitially == Init => ScriptInv
BY ScriptAssumptions DEF Init, ScriptInv, ScriptTypeOK, ScriptState, Lives

\* Only one daemon is alive at a time.
LEMMA OneAlive ==
  ASSUME ScriptInv, NEW d \in Pids, NEW e \in Pids,
         daemon[d] \notin {"unborn", "dead"}, daemon[e] \notin {"unborn", "dead"}
  PROVE  d = e
BY ScriptAssumptions DEF ScriptInv

\* None is alive once the pid file has been judged stale or absent, until the
\* shell forks.
LEMMA NoneAlive ==
  ASSUME ScriptInv, NEW s \in Scripts, script[s].pc \in {"clean", "probe", "spawn"}
  PROVE  \A d \in Pids : daemon[d] \in {"unborn", "dead"}
<1> SUFFICES ASSUME NEW d \in Pids, daemon[d] \notin {"unborn", "dead"}
             PROVE  FALSE
  BY Zenon
<1>1. \A t \in Scripts : script[t].pc # "record"
  BY Zenon DEF ScriptInv
<1>2. pid_file = d
  BY <1>1, Zenon DEF ScriptInv
<1> QED
  BY <1>2, ScriptAssumptions DEF ScriptInv

\* While shells take turns, a step of one keeps the invariant if it keeps what
\* the invariant says of that shell and of the files and daemons.
LEMMA OneShell ==
  ASSUME ScriptInv, NEW s \in Scripts,
         \/ script[s].pc # "idle"
         \/ \A t \in Scripts : script[t].pc = "idle",
         script' \in [Scripts -> ScriptState],
         \A t \in Scripts \ {s} : script'[t] = script[t],
         pid_file' \in Pids \cup {None}, socket' \in Pids \cup {None},
         daemon' \in [Pids -> Lives], termed' \subseteq Pids,
         \A d \in Pids : daemon'[d] \notin {"unborn", "dead"} =>
           pid_file' = d \/ (script'[s].pc = "record" /\ script'[s].pid = d),
         \A d \in Pids : daemon'[d] \in {"bound", "listening", "stopping"} =>
           socket' = d,
         script'[s].pc = "clean" =>
           pid_file' # None /\ daemon'[pid_file'] \in {"unborn", "dead"},
         script'[s].pc \in {"probe", "spawn", "record"} => pid_file' = None,
         script'[s].pc = "record" => script'[s].pid \in Pids,
         script'[s].pc = "stopping" =>
           pid_file' \in Pids /\ pid_file' = script'[s].pid
  PROVE  ScriptInv'
<1>1. ScriptTypeOK'
  BY Zenon DEF ScriptTypeOK
<1>2. \A t \in Scripts \ {s} : script'[t].pc = "idle"
  BY DEF ScriptInv
<1> QED
  BY <1>1, <1>2 DEF ScriptInv

\* The state, as the steps of a shell need it.
LEMMA ShellTypes ==
  ASSUME ScriptInv, NEW s \in Scripts
  PROVE  /\ ScriptTypeOK /\ pid_file \in Pids \cup {None}
         /\ socket \in Pids \cup {None} /\ daemon \in [Pids -> Lives]
         /\ termed \subseteq Pids
         /\ \A d \in Pids : daemon[d] \in {"bound", "listening", "stopping"} =>
              socket = d
         /\ (\/ script[s].pc # "idle" /\ script[s].pc # "record"
             \/ \A t \in Scripts : script[t].pc = "idle") =>
              \A d \in Pids : daemon[d] \notin {"unborn", "dead"} => pid_file = d
BY DEF ScriptInv, ScriptTypeOK

\* A shell that ends.
LEMMA ShellEnds ==
  ASSUME ScriptTypeOK, NEW s \in Scripts,
         NEW word \in {"already running", "refused", "ready",
                       "exited during startup", "timed out", "not running",
                       "stopped", "did not stop"},
         Ends(s, word)
  PROVE  /\ script' \in [Scripts -> ScriptState] /\ script'[s].pc = "idle"
         /\ \A t \in Scripts \ {s} : script'[t] = script[t]
BY Zenon DEF Ends, ScriptTypeOK, ScriptState

\* A shell that goes on.
LEMMA ShellGoes ==
  ASSUME ScriptTypeOK, NEW s \in Scripts,
         NEW pc \in {"stale", "clean", "probe", "spawn", "wait"},
         Goes(s, pc)
  PROVE  /\ script' \in [Scripts -> ScriptState] /\ script'[s].pc = pc
         /\ \A t \in Scripts \ {s} : script'[t] = script[t]
<1> DEFINE new == [script[s] EXCEPT !.pc = pc]
<1>1. script \in [Scripts -> ScriptState] /\ script[s] \in ScriptState
  BY DEF ScriptTypeOK
<1>2. new \in ScriptState /\ new.pc = pc
  BY <1>1, Zenon DEF ScriptState
<1>3. script' = [script EXCEPT ![s] = new]
  BY DEF Goes
<1> HIDE DEF new
<1> QED
  BY <1>1, <1>2, <1>3, Zenon

\* A shell that goes on with a process id.
LEMMA ShellTakes ==
  ASSUME ScriptTypeOK, NEW s \in Scripts, NEW pc \in {"record", "stopping"},
         NEW d \in Pids \cup {None},
         script' = [script EXCEPT ![s].pc = pc, ![s].pid = d]
  PROVE  /\ script' \in [Scripts -> ScriptState]
         /\ script'[s].pc = pc /\ script'[s].pid = d
         /\ \A t \in Scripts \ {s} : script'[t] = script[t]
<1> DEFINE new == [script[s] EXCEPT !.pc = pc, !.pid = d]
<1>1. script \in [Scripts -> ScriptState] /\ script[s] \in ScriptState
  BY DEF ScriptTypeOK
<1>2. new \in ScriptState /\ new.pc = pc /\ new.pid = d
  BY <1>1, Zenon DEF ScriptState
<1>3. script' = [script EXCEPT ![s] = new]
  BY <1>1, Zenon
<1> HIDE DEF new
<1> QED
  BY <1>1, <1>2, <1>3, Zenon

\* start: the first test, the judgement of the pid file, the cleaning and the
\* probe of the socket.
LEMMA StartTests ==
  ASSUME ScriptInv, OneAtATime, NEW s \in Scripts,
         start_begins(s) \/ start_judges(s) \/ start_cleans(s) \/ start_probes(s)
  PROVE  ScriptInv'
<1>t. /\ ScriptTypeOK /\ pid_file \in Pids \cup {None}
      /\ socket \in Pids \cup {None} /\ daemon \in [Pids -> Lives]
      /\ termed \subseteq Pids
      /\ \A d \in Pids : daemon[d] \in {"bound", "listening", "stopping"} =>
           socket = d
  BY ShellTypes, Zenon
<1>1. CASE start_begins(s)
  <2>1. /\ \A t \in Scripts : script[t].pc = "idle"
        /\ UNCHANGED <<pid_file, socket, daemon, termed>>
        /\ Ends(s, "already running") \/ Goes(s, "stale")
    BY <1>1, Zenon DEF start_begins, MayBegin
  <2>2. \A d \in Pids : daemon[d] \notin {"unborn", "dead"} => pid_file = d
    BY <2>1, ShellTypes, Zenon
  <2>3. /\ script' \in [Scripts -> ScriptState]
        /\ script'[s].pc \in {"idle", "stale"}
        /\ \A t \in Scripts \ {s} : script'[t] = script[t]
    <3>1. CASE Ends(s, "already running")
      BY <1>t, <3>1, ShellEnds, Zenon
    <3>2. CASE Goes(s, "stale")
      BY <1>t, <3>2, ShellGoes
    <3> QED
      BY <2>1, <3>1, <3>2, Zenon
  <2> QED
    BY <1>t, <2>1, <2>2, <2>3, OneShell, Zenon
<1>2. CASE start_judges(s)
  <2>1. /\ script[s].pc = "stale"
        /\ UNCHANGED <<pid_file, socket, daemon, termed>>
        /\ \/ stale /\ Goes(s, "clean")
           \/ Ends(s, "refused")
           \/ pid_file = None /\ Goes(s, "probe")
    BY <1>2 DEF start_judges
  <2>2. \A d \in Pids : daemon[d] \notin {"unborn", "dead"} => pid_file = d
    BY <2>1, ShellTypes
  <2>3. /\ script' \in [Scripts -> ScriptState]
        /\ \A t \in Scripts \ {s} : script'[t] = script[t]
        /\ \/ stale /\ script'[s].pc = "clean"
           \/ script'[s].pc = "idle"
           \/ pid_file = None /\ script'[s].pc = "probe"
    <3>1. CASE Ends(s, "refused")
      BY <1>t, <3>1, ShellEnds, Zenon
    <3>2. CASE stale /\ Goes(s, "clean")
      BY <1>t, <3>2, ShellGoes
    <3>3. CASE pid_file = None /\ Goes(s, "probe")
      BY <1>t, <3>3, ShellGoes
    <3> QED
      BY <2>1, <3>1, <3>2, <3>3, Zenon
  <2>4. stale => pid_file # None /\ daemon[pid_file] \in {"unborn", "dead"}
    BY <1>t DEF stale, Alive
  <2> QED
    BY <1>t, <2>1, <2>2, <2>3, <2>4, OneShell
<1>3. CASE start_cleans(s)
  <2>1. /\ script[s].pc = "clean" /\ pid_file' = None /\ socket' = None
        /\ Goes(s, "probe") /\ UNCHANGED <<daemon, termed>>
    BY <1>3, Zenon DEF start_cleans
  <2>2. \A d \in Pids : daemon[d] \in {"unborn", "dead"}
    BY <2>1, NoneAlive, Zenon
  <2>3. /\ script' \in [Scripts -> ScriptState] /\ script'[s].pc = "probe"
        /\ \A t \in Scripts \ {s} : script'[t] = script[t]
    BY <1>t, <2>1, ShellGoes
  <2> QED
    BY <1>t, <2>1, <2>2, <2>3, OneShell, Zenon
<1>4. CASE start_probes(s)
  <2>1. /\ script[s].pc = "probe"
        /\ UNCHANGED <<pid_file, socket, daemon, termed>>
        /\ Ends(s, "refused") \/ Goes(s, "spawn")
    BY <1>4 DEF start_probes
  <2>2. /\ \A d \in Pids : daemon[d] \in {"unborn", "dead"}
        /\ pid_file = None
    BY <2>1, NoneAlive, Zenon DEF ScriptInv
  <2>3. /\ script' \in [Scripts -> ScriptState]
        /\ script'[s].pc \in {"idle", "spawn"}
        /\ \A t \in Scripts \ {s} : script'[t] = script[t]
    <3>1. CASE Ends(s, "refused")
      BY <1>t, <3>1, ShellEnds, Zenon
    <3>2. CASE Goes(s, "spawn")
      BY <1>t, <3>2, ShellGoes
    <3> QED
      BY <2>1, <3>1, <3>2, Zenon
  <2> QED
    BY <1>t, <2>1, <2>2, <2>3, OneShell
<1> QED
  BY <1>1, <1>2, <1>3, <1>4, Zenon

\* start: the fork, the pid file, and the rounds of the wait.
LEMMA StartForks ==
  ASSUME ScriptInv, NEW s \in Scripts,
         start_spawns(s) \/ start_records(s) \/ start_waits(s)
  PROVE  ScriptInv'
<1>t. /\ ScriptTypeOK /\ pid_file \in Pids \cup {None}
      /\ socket \in Pids \cup {None} /\ daemon \in [Pids -> Lives]
      /\ termed \subseteq Pids
      /\ \A d \in Pids : daemon[d] \in {"bound", "listening", "stopping"} =>
           socket = d
  BY ShellTypes
<1>1. CASE start_spawns(s)
  <2>1. /\ script[s].pc = "spawn" /\ UNCHANGED <<pid_file, socket, termed>>
        /\ \E d \in Pids :
             /\ daemon' = [daemon EXCEPT ![d] = "forked"]
             /\ script' = [script EXCEPT ![s].pc = "record", ![s].pid = d]
    BY <1>1, Zenon DEF start_spawns
  <2>2. PICK d \in Pids :
             /\ daemon' = [daemon EXCEPT ![d] = "forked"]
             /\ script' = [script EXCEPT ![s].pc = "record", ![s].pid = d]
    BY <2>1, Zenon
  <2>3. /\ \A e \in Pids : daemon[e] \in {"unborn", "dead"}
        /\ pid_file = None
    BY <2>1, NoneAlive DEF ScriptInv
  <2>4. /\ script' \in [Scripts -> ScriptState] /\ script'[s].pc = "record"
        /\ script'[s].pid = d /\ \A t \in Scripts \ {s} : script'[t] = script[t]
    BY <1>t, <2>2, ShellTakes, Zenon
  <2>5. daemon' \in [Pids -> Lives]
    BY <1>t, <2>2 DEF Lives
  <2>6. \A e \in Pids : daemon'[e] = IF e = d THEN "forked" ELSE daemon[e]
    BY <1>t, <2>2
  <2> QED
    BY <1>t, <2>1, <2>3, <2>4, <2>5, <2>6, OneShell
<1>2. CASE start_records(s)
  <2>1. /\ script[s].pc = "record" /\ pid_file' = script[s].pid
        /\ Goes(s, "wait") /\ UNCHANGED <<socket, daemon, termed>>
    BY <1>2, Zenon DEF start_records
  <2>2. /\ script[s].pid \in Pids
        /\ \A d \in Pids : daemon[d] \notin {"unborn", "dead"} =>
             script[s].pid = d
    BY <2>1, ScriptAssumptions DEF ScriptInv
  <2>3. /\ script' \in [Scripts -> ScriptState] /\ script'[s].pc = "wait"
        /\ \A t \in Scripts \ {s} : script'[t] = script[t]
    BY <1>t, <2>1, ShellGoes
  <2> QED
    BY <1>t, <2>1, <2>2, <2>3, OneShell, Zenon
<1>3. CASE start_waits(s)
  <2>1. /\ script[s].pc = "wait"
        /\ UNCHANGED <<pid_file, socket, daemon, termed>>
        /\ \/ Ends(s, "ready") \/ Ends(s, "exited during startup")
           \/ Ends(s, "timed out")
    BY <1>3, Zenon DEF start_waits
  <2>2. \A d \in Pids : daemon[d] \notin {"unborn", "dead"} => pid_file = d
    BY <2>1, ShellTypes, Zenon
  <2>3. /\ script' \in [Scripts -> ScriptState] /\ script'[s].pc = "idle"
        /\ \A t \in Scripts \ {s} : script'[t] = script[t]
    BY <1>t, <2>1, ShellEnds, Zenon
  <2> QED
    BY <1>t, <2>1, <2>2, <2>3, OneShell, Zenon
<1> QED
  BY <1>1, <1>2, <1>3, Zenon

\* stop: the signal to the daemon of the pid file, and the wait for its end.
LEMMA StopSteps ==
  ASSUME ScriptInv, OneAtATime, NEW s \in Scripts, stop_begins(s) \/ stop_waits(s)
  PROVE  ScriptInv'
<1>t. /\ ScriptTypeOK /\ pid_file \in Pids \cup {None}
      /\ socket \in Pids \cup {None} /\ daemon \in [Pids -> Lives]
      /\ termed \subseteq Pids
      /\ \A d \in Pids : daemon[d] \in {"bound", "listening", "stopping"} =>
           socket = d
  BY ShellTypes, Zenon
<1>1. CASE stop_begins(s)
  <2>1. /\ \A t \in Scripts : script[t].pc = "idle"
        /\ UNCHANGED <<pid_file, socket, daemon>>
    BY <1>1, Zenon DEF stop_begins, MayBegin
  <2>2. \A d \in Pids : daemon[d] \notin {"unborn", "dead"} => pid_file = d
    BY <2>1, ShellTypes, Zenon
  <2>3. CASE ~is_managed_daemon
    <3>1. Ends(s, "not running") /\ UNCHANGED termed
      BY <1>1, <2>3, Zenon DEF stop_begins
    <3>2. /\ script' \in [Scripts -> ScriptState] /\ script'[s].pc = "idle"
          /\ \A t \in Scripts \ {s} : script'[t] = script[t]
      BY <1>t, <3>1, ShellEnds, Zenon
    <3> QED
      BY <1>t, <2>1, <2>2, <3>1, <3>2, OneShell, Zenon
  <2>4. CASE is_managed_daemon
    <3>1. /\ termed' = termed \cup {pid_file}
          /\ script' = [script EXCEPT ![s].pc = "stopping", ![s].pid = pid_file]
      BY <1>1, <2>4, Zenon DEF stop_begins
    <3>2. pid_file \in Pids
      BY <1>t, <2>4, Zenon DEF is_managed_daemon, Alive
    <3>3. /\ script' \in [Scripts -> ScriptState] /\ script'[s].pc = "stopping"
          /\ script'[s].pid = pid_file
          /\ \A t \in Scripts \ {s} : script'[t] = script[t]
      BY <1>t, <3>1, ShellTakes, Zenon
    <3>4. termed' \subseteq Pids
      BY <1>t, <3>1, <3>2
    <3> QED
      BY <1>t, <2>1, <2>2, <3>2, <3>3, <3>4, OneShell, Zenon
  <2> QED
    BY <2>3, <2>4, Zenon
<1>2. CASE stop_waits(s)
  <2>1. /\ script[s].pc = "stopping" /\ UNCHANGED <<socket, daemon, termed>>
        /\ \/ ~Alive(script[s].pid) /\ pid_file' = None /\ Ends(s, "stopped")
           \/ Ends(s, "did not stop") /\ UNCHANGED pid_file
    BY <1>2, Zenon DEF stop_waits
  <2>2. \A d \in Pids : daemon[d] \notin {"unborn", "dead"} => pid_file = d
    BY <2>1, ShellTypes, Zenon
  <2>3. pid_file \in Pids /\ pid_file = script[s].pid
    BY <2>1, Zenon DEF ScriptInv
  <2>4. /\ script' \in [Scripts -> ScriptState] /\ script'[s].pc = "idle"
        /\ \A t \in Scripts \ {s} : script'[t] = script[t]
    BY <1>t, <2>1, ShellEnds, Zenon
  <2>5. \/ pid_file' = None /\ daemon[pid_file] \in {"unborn", "dead"}
        \/ pid_file' = pid_file
    BY <2>1, <2>3, ScriptAssumptions, Zenon DEF Alive
  <2>6. \A d \in Pids : daemon[d] \notin {"unborn", "dead"} => pid_file' = d
    BY <2>2, <2>5, Zenon
  <2> QED
    BY <1>t, <2>1, <2>4, <2>5, <2>6, OneShell, Zenon
<1> QED
  BY <1>1, <1>2, Zenon

\* A daemon that changes its state, or its end, moves no other.
LEMMA DaemonSteps ==
  ASSUME ScriptInv, NEW d \in Pids, Daemon(d)
  PROVE  ScriptInv'
<1>t. /\ socket \in Pids \cup {None} /\ daemon \in [Pids -> Lives]
  BY Zenon DEF ScriptInv, ScriptTypeOK
<1>1. PICK state \in Lives \ {"unborn"} : Becomes(d, state)
  BY Zenon DEF Daemon, Exec, transport_listen, Listen, Stop, Unlink, Crash, Lives
<1>2. /\ UNCHANGED <<pid_file, termed, script>>
      /\ daemon' \in [Pids -> Lives] /\ daemon'[d] = state
      /\ \A e \in Pids \ {d} : daemon'[e] = daemon[e]
  BY <1>t, <1>1, Zenon DEF Becomes
<1>3. daemon[d] \notin {"unborn", "dead"}
  BY ScriptAssumptions, Zenon
     DEF Daemon, Exec, transport_listen, Listen, Stop, Unlink, Crash, Alive
<1>4. \A e \in Pids \ {d} : daemon[e] \in {"unborn", "dead"}
  BY <1>3, OneAlive, Zenon
<1>5. /\ socket' \in Pids \cup {None}
      /\ state \in {"bound", "listening", "stopping"} => socket' = d
  <2>1. CASE Exec(d)
    BY <1>t, <1>2, <2>1, Zenon DEF Exec, Becomes
  <2>2. CASE transport_listen(d)
    BY <1>t, <1>2, <2>2, Zenon DEF transport_listen, Becomes
  <2>3. CASE Listen(d)
    BY <1>t, <1>2, <2>3, Zenon DEF Listen, Becomes, ScriptInv
  <2>4. CASE Stop(d)
    BY <1>t, <1>2, <2>4 DEF Stop, Becomes, ScriptInv
  <2>5. CASE Unlink(d)
    BY <1>t, <1>2, <2>5, Zenon DEF Unlink, Becomes
  <2>6. CASE Crash(d)
    BY <1>t, <1>2, <2>6, Zenon DEF Crash, Becomes
  <2> QED
    BY <2>1, <2>2, <2>3, <2>4, <2>5, <2>6, Zenon DEF Daemon
<1>6. \A s \in Scripts : script[s].pc = "clean" => pid_file # d
  BY <1>3, Zenon DEF ScriptInv
<1>7. ScriptTypeOK'
  BY <1>2, <1>5, Zenon DEF ScriptInv, ScriptTypeOK
<1>8. \A e \in Pids : daemon'[e] \notin {"unborn", "dead"} =>
        daemon[e] \notin {"unborn", "dead"}
  BY <1>2, <1>3, Zenon
<1>9. \A e \in Pids : daemon'[e] \in {"bound", "listening", "stopping"} =>
        socket' = e
  BY <1>2, <1>4, <1>5, Zenon
<1>10. \A s \in Scripts : script[s].pc = "clean" =>
         pid_file # None /\ daemon'[pid_file] \in {"unborn", "dead"}
  BY <1>2, <1>6, Zenon DEF ScriptInv, ScriptTypeOK
<1> QED
  BY <1>2, <1>7, <1>8, <1>9, <1>10 DEF ScriptInv

\* While shells take turns, a daemon that accepts connections is the one that
\* broker.sock and tgcompatd.pid name, whatever crashed, was refused or timed
\* out before.
THEOREM OneDaemonServes ==
  ASSUME OneAtATime PROVE Spec => []OneService
<1>1. ScriptInv /\ [Next]_vars => ScriptInv'
  <2> SUFFICES ASSUME ScriptInv, [Next]_vars PROVE ScriptInv'
    BY Zenon
  <2>1. CASE \E s \in Scripts : Script(s)
    BY <2>1, StartTests, StartForks, StopSteps, Zenon DEF Script
  <2>2. CASE \E d \in Pids : Daemon(d)
    BY <2>2, DaemonSteps, Zenon
  <2>3. CASE UNCHANGED vars
    BY <2>3, Zenon DEF vars, ScriptInv, ScriptTypeOK
  <2> QED
    BY <2>1, <2>2, <2>3, Zenon DEF Next
<1>2. ScriptInv => OneService
  BY DEF ScriptInv, OneService
<1> QED
  BY <1>1, <1>2, ScriptInitially, PTL DEF Spec

-----------------------------------------------------------------------------
(* read_elf_interpreter.                                                   *)

\* An entry of a table with n entries ends where the table does, or before.
LEMMA EntryInTable ==
  ASSUME NEW n \in Nat, NEW i \in Nat, NEW size \in Nat, i < n
  PROVE  i * size + size <= n * size
<1> DEFINE k == n - i - 1
<1>1. k \in Nat /\ n = i + 1 + k
  OBVIOUS
<1>2. n * size = i * size + size + k * size
  BY <1>1
<1>3. k * size \in Nat
  BY <1>1
<1> QED
  BY <1>2, <1>3

\* A table that the header check of read_elf_interpreter lets pass really ends
\* inside the file: neither the product nor the sum of the check wraps.
LEMMA TableInside ==
  ASSUME NEW phoff \in 0..(Word - 1), NEW phnum \in Nat, NEW size \in 0..IntMax,
         table_fits(phoff, phnum, size)
  PROVE  phoff + phnum * EntrySize <= size
<1> DEFINE q == (IntMax - phoff) \div EntrySize
<1>1. /\ IntMax \in Nat /\ EntrySize \in Nat \ {0} /\ Word = 2 * IntMax + 2
      /\ phoff <= IntMax /\ phnum <= q
  BY ElfAssumptions, Zenon DEF table_fits
<1>2. q \in Nat /\ q * EntrySize <= IntMax - phoff
  BY <1>1
<1>3. phnum * EntrySize <= q * EntrySize
  BY <1>1, <1>2
<1>4. phnum * EntrySize \in Nat
  BY <1>1
<1>5. phoff + phnum * EntrySize < Word
  BY <1>1, <1>2, <1>3, <1>4
<1> QED
  BY <1>1, <1>4, <1>5 DEF table_fits, Wrap

\* The same of the interpreter's name, and it fits the buffer.
LEMMA NameInside ==
  ASSUME NEW offset \in 0..(Word - 1), NEW filesz \in 0..(Word - 1),
         NEW size \in 0..IntMax, interp_fits(offset, filesz, size)
  PROVE  offset + filesz <= size /\ filesz <= Capacity
BY ElfAssumptions DEF interp_fits, Wrap

-----------------------------------------------------------------------------
Places == {"open", "header", "entry", "interp", "found", "no"}

ElfState == [at : Places, size : 0..IntMax, now : Int, header : Header,
             entry : Segment, index : Nat, start : Nat, length : Nat, got : Int]

\* The strengthening: while entries are read, the header has passed its check.
ElfInv ==
  /\ elf \in ElfState
  /\ elf.at = "entry" =>
       table_fits(elf.header.phoff, elf.header.phnum, elf.size)
  /\ ReadsInside

\* A call of read_exact_at changes only what it is about.
LEMMA ReadsType ==
  ASSUME NEW e \in ElfState, NEW at \in Places, NEW start \in Nat,
         NEW length \in Nat
  PROVE  [e EXCEPT !.at = at, !.start = start, !.length = length, !.got = 0]
           \in ElfState
<1> DEFINE f == [[e EXCEPT !.at = at] EXCEPT !.start = start]
<1>1. [e EXCEPT !.at = at] \in ElfState
  BY DEF ElfState
<1>2. f \in ElfState
  BY <1>1, Zenon DEF ElfState
<1>3. [e EXCEPT !.at = at, !.start = start, !.length = length, !.got = 0]
        = [[f EXCEPT !.length = length] EXCEPT !.got = 0]
  OBVIOUS
<1> HIDE DEF f
<1>4. [f EXCEPT !.length = length] \in ElfState
  BY <1>2 DEF ElfState
<1>5. [[f EXCEPT !.length = length] EXCEPT !.got = 0] \in ElfState
  <2>1. 0 \in Int
    OBVIOUS
  <2> QED
    BY <1>4, <2>1, Zenon DEF ElfState
<1> QED
  BY <1>3, <1>5, Zenon

\* A state as the loop of read_elf_interpreter leaves it when it goes on: the
\* next entry lies inside the file, or the loop ends.
LEMMA NextEntryInside ==
  ASSUME NEW e \in ElfState,
         table_fits(e.header.phoff, e.header.phnum, e.size),
         NEW f, f = NextEntry(e)
  PROVE  /\ f \in ElfState
         /\ f.at \in {"entry", "no"}
         /\ f.at = "entry" =>
              /\ table_fits(f.header.phoff, f.header.phnum, f.size)
              /\ f.start + f.length <= f.size
<1> DEFINE place == e.header.phoff + e.index * EntrySize
<1>1. /\ e.header.phoff \in 0..(Word - 1) /\ e.header.phnum \in Nat
      /\ e.size \in 0..IntMax /\ e.index \in Nat
  BY Zenon DEF ElfState, Header
<1>2. EntrySize \in Nat /\ Word \in Nat
  BY ElfAssumptions
<1>3. e.index * EntrySize \in Nat /\ place \in Nat
  BY <1>1, <1>2
<1>4. e.header.phoff + e.header.phnum * EntrySize <= e.size
  BY <1>1, TableInside, Zenon
<1>5. ASSUME e.index < e.header.phnum
      PROVE  place + EntrySize <= e.size
  <2>1. e.index * EntrySize + EntrySize <= e.header.phnum * EntrySize
    BY <1>1, <1>2, <1>5, EntryInTable, Zenon
  <2>2. e.header.phnum * EntrySize \in Nat
    BY <1>1, <1>2
  <2> QED
    BY <1>1, <1>2, <1>3, <1>4, <2>1, <2>2
<1> HIDE DEF place
<1>6. CASE e.index < e.header.phnum /\ readable_at(EntrySize, place)
  <2>1. f = [e EXCEPT !.at = "entry", !.start = place, !.length = EntrySize,
                      !.got = 0]
    BY <1>6, Zenon DEF NextEntry, Reads, place
  <2>2. /\ f.at = "entry" /\ f.header = e.header
        /\ f.size = e.size /\ f.start = place /\ f.length = EntrySize
    BY <2>1, Zenon DEF ElfState
  <2>3. f \in ElfState
    <3>1. "entry" \in Places
      BY DEF Places
    <3>2. place \in Nat /\ EntrySize \in Nat
      BY <1>2, <1>3, Zenon
    <3>3. [e EXCEPT !.at = "entry", !.start = place, !.length = EntrySize,
                    !.got = 0] \in ElfState
      BY <3>1, <3>2, ReadsType, Zenon
    <3> QED
      BY <2>1, <3>3, Zenon
  <2> QED
    BY <2>2, <2>3, <1>5, <1>6, Zenon
<1>7. CASE ~(e.index < e.header.phnum /\ readable_at(EntrySize, place))
  <2>1. f = [e EXCEPT !.at = "no"]
    BY <1>7, Zenon DEF NextEntry, Reads, place
  <2> QED
    BY <2>1, Zenon DEF ElfState, Places
<1> QED
  BY <1>6, <1>7, Zenon

\* A state that differs only in where the reader is, or in what was read.
LEMMA MovesType ==
  ASSUME NEW e \in ElfState, NEW n \in Int
  PROVE  /\ \A at \in Places : [e EXCEPT !.at = at] \in ElfState
         /\ [e EXCEPT !.got = n] \in ElfState
         /\ [e EXCEPT !.now = n] \in ElfState
BY Zenon DEF ElfState

\* The file is opened and nothing has been asked for yet.
LEMMA ElfInitially == ElfInit => ElfInv
<1> SUFFICES ASSUME ElfInit PROVE ElfInv
  BY Zenon
<1>1. elf.at = "open"
  BY DEF ElfInit
<1>2. elf \in ElfState
  BY ElfAssumptions DEF ElfInit, ElfState, Places, Header, Segment
<1> QED
  BY <1>1, <1>2, Zenon DEF ElfInv, ReadsInside

\* One step per action of the reader, and one for the process that truncates.
LEMMA ElfStep == ElfInv /\ [ElfNext]_elf => ElfInv'
<1> SUFFICES ASSUME ElfInv, [ElfNext]_elf PROVE ElfInv'
  BY Zenon
<1>t. elf \in ElfState
  BY Zenon DEF ElfInv
<1>no. ASSUME elf' = [elf EXCEPT !.at = "no"] PROVE ElfInv'
  <2>1. "no" \in Places
    BY DEF Places
  <2>2. elf' \in ElfState
    BY <1>t, <1>no, <2>1, 0 \in Int, MovesType, Zenon
  <2>3. elf'.at = "no"
    BY <1>t, <1>no DEF ElfState
  <2> QED
    BY <2>2, <2>3, Zenon DEF ElfInv, ReadsInside
<1>1. CASE OpenElf
  <2>1. readable_at(HeaderSize, 0) /\ HeaderSize \in Nat
    BY ElfAssumptions DEF readable_at
  <2>2. elf' = [elf EXCEPT !.at = "header", !.start = 0, !.length = HeaderSize,
                           !.got = 0]
    BY <1>1, <2>1 DEF OpenElf, Reads
  <2>3. "header" \in Places /\ 0 \in Nat
    BY DEF Places
  <2>4. elf' \in ElfState
    <3>1. [elf EXCEPT !.at = "header", !.start = 0, !.length = HeaderSize,
                      !.got = 0] \in ElfState
      BY <1>t, <2>1, <2>3, ReadsType, Zenon
    <3> QED
      BY <2>2, <3>1
  <2>5. elf'.at = "header"
    BY <1>t, <2>2, Zenon DEF ElfState
  <2> QED
    BY <2>4, <2>5 DEF ElfInv, ReadsInside
<1>2. CASE OpenFails \/ PreadEnds
  BY <1>2, <1>no, Zenon DEF OpenFails, PreadEnds
<1>3. CASE PreadSome \/ Truncate
  <2>1. PICK n \in Int : \/ elf' = [elf EXCEPT !.got = n]
                         \/ elf' = [elf EXCEPT !.now = n]
    <3>1. CASE PreadSome
      <4>1. PICK n \in 1..(elf.length - elf.got) :
              elf' = [elf EXCEPT !.got = @ + n]
        BY <3>1, Zenon DEF PreadSome
      <4>2. elf.length \in Int /\ elf.got \in Int
        BY <1>t DEF ElfState
      <4>3. elf.got + n \in Int
        BY <4>2
      <4> QED
        BY <4>1, <4>3, Zenon
    <3>2. CASE Truncate
      BY <3>2, ElfAssumptions DEF Truncate
    <3> QED
      BY <1>3, <3>1, <3>2, Zenon
  <2>2. elf' \in ElfState
    BY <1>t, <2>1, MovesType, Zenon
  <2>3. /\ elf'.at = elf.at /\ elf'.header = elf.header /\ elf'.size = elf.size
        /\ elf'.start = elf.start /\ elf'.length = elf.length
    BY <1>t, <2>1 DEF ElfState
  <2> QED
    BY <2>2, <2>3, Zenon DEF ElfInv, ReadsInside
<1>4. CASE UNCHANGED elf \/ PreadAgain
  BY <1>4 DEF PreadAgain, ElfInv, ReadsInside
<1>5. CASE ReadHeader
  <2>1. PICK h \in Headers :
          elf' = IF h.ok /\ table_fits(h.phoff, h.phnum, elf.size)
                 THEN NextEntry([elf EXCEPT !.header = h])
                 ELSE [elf EXCEPT !.at = "no"]
    BY <1>5, Zenon DEF ReadHeader
  <2> DEFINE e == [elf EXCEPT !.header = h]
  <2>2. e \in ElfState /\ e.header = h /\ e.size = elf.size
    BY <1>t, ElfAssumptions, Zenon DEF ElfState
  <2> HIDE DEF e
  <2>3. CASE h.ok /\ table_fits(h.phoff, h.phnum, elf.size)
    <3>1. elf' = NextEntry(e)
      BY <2>1, <2>3, Zenon DEF e
    <3> QED
      BY <2>2, <2>3, <3>1, NextEntryInside DEF ElfInv, ReadsInside
  <2> QED
    BY <2>1, <2>3, <1>no
<1>6. CASE ReadEntry
  <2>1. elf.at = "entry" /\ table_fits(elf.header.phoff, elf.header.phnum, elf.size)
    BY <1>6, Zenon DEF ReadEntry, Whole, ElfInv
  <2>2. PICK p \in Segments :
          elf' = IF ~p.interp THEN NextEntry([elf EXCEPT !.index = @ + 1])
                 ELSE IF interp_fits(p.offset, p.filesz, elf.size)
                 THEN Reads([elf EXCEPT !.entry = p], "interp", p.filesz, p.offset)
                 ELSE [elf EXCEPT !.at = "no"]
    BY <1>6, Zenon DEF ReadEntry
  <2>3. CASE ~p.interp
    <3> DEFINE e == [elf EXCEPT !.index = @ + 1]
    <3>1. elf.index + 1 \in Nat
      BY <1>t DEF ElfState
    <3>2. e \in ElfState /\ e.header = elf.header /\ e.size = elf.size
      BY <1>t, <3>1, Zenon DEF ElfState
    <3>3. elf' = NextEntry(e)
      BY <2>2, <2>3
    <3> HIDE DEF e
    <3> QED
      BY <2>1, <3>2, <3>3, NextEntryInside DEF ElfInv, ReadsInside
  <2>4. CASE p.interp /\ interp_fits(p.offset, p.filesz, elf.size)
    <3> DEFINE e == [elf EXCEPT !.entry = p]
    <3>1. p \in Segment
      BY ElfAssumptions
    <3>2. e \in ElfState /\ e.size = elf.size
      BY <1>t, <3>1, Zenon DEF ElfState
    <3>3. elf' = Reads(e, "interp", p.filesz, p.offset)
      BY <2>2, <2>4, Zenon
    <3> HIDE DEF e
    <3>4. p.offset \in 0..(Word - 1) /\ p.filesz \in 0..(Word - 1)
      BY <3>1, Zenon DEF Segment
    <3>5. elf.size \in 0..IntMax
      BY <1>t, Zenon DEF ElfState
    <3>6. p.offset + p.filesz <= elf.size /\ p.filesz <= Capacity
      BY <2>4, <3>4, <3>5, NameInside, Zenon
    <3>7. p.offset \in Nat /\ p.filesz \in Nat
      BY <3>4, ElfAssumptions
    <3>8. readable_at(p.filesz, p.offset)
      BY <3>5, <3>6, <3>7, ElfAssumptions DEF readable_at
    <3>9. elf' = [e EXCEPT !.at = "interp", !.start = p.offset,
                           !.length = p.filesz, !.got = 0]
      BY <3>3, <3>8, Zenon DEF Reads
    <3>10. elf' \in ElfState
      <4>1. "interp" \in Places
        BY Zenon DEF Places
      <4>2. [e EXCEPT !.at = "interp", !.start = p.offset,
                      !.length = p.filesz, !.got = 0] \in ElfState
        BY <4>1, <3>2, <3>7, ReadsType, Zenon
      <4> QED
        BY <3>9, <4>2, Zenon
    <3>11. /\ elf'.at = "interp" /\ elf'.start = p.offset
           /\ elf'.length = p.filesz /\ elf'.size = elf.size
      BY <3>2, <3>9, Zenon DEF ElfState
    <3> QED
      BY <3>6, <3>10, <3>11 DEF ElfInv, ReadsInside
  <2>5. CASE p.interp /\ ~interp_fits(p.offset, p.filesz, elf.size)
    BY <2>2, <2>5, <1>no, Zenon
  <2> QED
    BY <2>3, <2>4, <2>5, Zenon
<1>7. CASE ReadInterpreter
  <2>1. PICK at \in {"found", "no"} : elf' = [elf EXCEPT !.at = at]
    BY <1>7, Zenon DEF ReadInterpreter
  <2>2. at \in Places
    BY DEF Places
  <2>3. elf' \in ElfState
    BY <1>t, <2>1, <2>2, 0 \in Int, MovesType, Zenon
  <2>4. elf'.at = at
    BY <1>t, <2>1 DEF ElfState
  <2> QED
    BY <2>3, <2>4, Zenon DEF ElfInv, ReadsInside
<1> QED
  BY <1>1, <1>2, <1>3, <1>4, <1>5, <1>6, <1>7, Zenon DEF ElfNext, ElfReader

\* Whatever a file's header and segments claim, and whoever truncates it
\* meanwhile, read_elf_interpreter asks pread only for bytes inside the file
\* it measured, and reads no name longer than its buffer.
THEOREM ElfReadsInside == ElfSpec => []ReadsInside
<1>1. ElfInv => ReadsInside
  BY DEF ElfInv
<1> QED
  BY <1>1, ElfInitially, ElfStep, PTL DEF ElfSpec

-----------------------------------------------------------------------------
(* mprotect_shim.c.                                                        *)

MpTypeOK ==
  /\ call \in [at : {"idle", "readable", "scratch", "copy", "replace", "back",
                     "protect", "returned"}, want : Protections]
  /\ range \in [byte : Bytes, prot : Protections]
  /\ scratch \in {{}} \cup {{b} : b \in Bytes}
  /\ latest \in Bytes /\ gone \in {"no", "raced", "dropped"}

\* The strengthening says where the bytes are at each step of the copy: in the
\* range until it is replaced, in the scratch mapping until they are back, and
\* that nothing is executable meanwhile.
MpInv ==
  /\ MpTypeOK
  /\ gone = "dropped" => range.prot = {} /\ call.at \in {"idle", "returned"}
  /\ call.at # "back" /\ gone = "no" => range.byte = latest
  /\ call.at \in {"replace", "back"} /\ gone = "no" => scratch = {latest}
  /\ call.at \in {"replace", "back"} => \E b \in Bytes : scratch = {b}
  /\ call.at \in {"scratch", "copy", "replace", "back"} => "X" \notin range.prot
  /\ call.at \in {"idle", "readable", "scratch", "returned"} => scratch = {}

\* No call of mprotect is under way, and nothing is half copied.
LEMMA MpInitially == MpInit => MpInv
BY DEF MpInit, MpInv, MpTypeOK, Nowhere, Protections

\* Moving on changes the place only.
LEMMA MpGoes ==
  ASSUME MpTypeOK, NEW from, NEW to, Mp_goes(from, to),
         to \in {"idle", "readable", "scratch", "copy", "replace", "back",
                 "protect", "returned"}
  PROVE  /\ call.at = from /\ call'.at = to /\ call'.want = call.want
         /\ call' \in [at : {"idle", "readable", "scratch", "copy", "replace",
                             "back", "protect", "returned"}, want : Protections]
BY Zenon DEF Mp_goes, MpTypeOK

\* Giving up leaves the range as it is, wherever it happens but after the
\* replacement.
LEMMA MpGivesUp ==
  ASSUME MpInv, NEW from \in {"readable", "scratch", "replace", "protect"},
         Mp_gives_up(from)
  PROVE  MpInv'
<1>1. /\ call.at = from /\ call'.at = "returned"
      /\ call' \in [at : {"idle", "readable", "scratch", "copy", "replace",
                          "back", "protect", "returned"}, want : Protections]
  BY MpGoes, Zenon DEF Mp_gives_up, MpInv
<1>2. MpTypeOK'
  BY <1>1, Zenon DEF MpInv, MpTypeOK, Mp_gives_up
<1> QED
  BY <1>1, <1>2, Zenon DEF MpInv, Mp_gives_up

\* Every step of a call, and of the other threads meanwhile, keeps it.
LEMMA MpStep == MpInv /\ [MpNext]_mpvars => MpInv'
<1> SUFFICES ASSUME MpInv, [MpNext]_mpvars PROVE MpInv'
  BY Zenon
<1> DEFINE Ats == {"idle", "readable", "scratch", "copy", "replace", "back",
                   "protect", "returned"}
<1>t. /\ MpTypeOK /\ latest \in Bytes /\ call \in [at : Ats, want : Protections]
      /\ range \in [byte : Bytes, prot : Protections]
  BY Zenon DEF MpInv, MpTypeOK
<1>1. CASE mprotect
  <2>1. PICK want \in Protections :
          \/ Protected(want) /\ call' = [at |-> "returned", want |-> want]
          \/ UNCHANGED range /\ call' = [at |-> "returned", want |-> want]
          \/ UNCHANGED range /\ call' = [at |-> "readable", want |-> want]
    BY <1>1, Zenon DEF mprotect
  <2>2. /\ call.at = "idle" /\ gone # "dropped"
        /\ UNCHANGED <<scratch, latest, gone>>
    BY <1>1, Zenon DEF mprotect
  <2>3. /\ call'.at \in {"returned", "readable"}
        /\ call' \in [at : Ats, want : Protections]
    BY <2>1
  <2>4. /\ range' \in [byte : Bytes, prot : Protections]
        /\ range'.byte = range.byte
    BY <1>t, <2>1, Zenon DEF Protected
  <2>5. MpTypeOK'
    BY <2>2, <2>3, <2>4, Zenon DEF MpInv, MpTypeOK
  <2> QED
    BY <2>2, <2>3, <2>4, <2>5, Zenon DEF MpInv
<1>2. CASE make_readable
  <2>1. CASE Mp_gives_up("readable")
    BY <2>1, MpGivesUp, Zenon
  <2>2. CASE /\ Mp_goes("readable", "scratch")
             /\ Protected({"R"} \cup (call.want \cap {"W"}))
             /\ UNCHANGED <<scratch, latest, gone>>
    <3>1. /\ call.at = "readable" /\ call'.at = "scratch"
          /\ call' \in [at : Ats, want : Protections]
      BY <1>t, <2>2, MpGoes, Zenon
    <3>2. /\ {"R"} \cup (call.want \cap {"W"}) \in Protections
          /\ "X" \notin {"R"} \cup (call.want \cap {"W"})
      BY DEF Protections
    <3>3. /\ range' \in [byte : Bytes, prot : Protections]
          /\ range'.byte = range.byte /\ "X" \notin range'.prot
      BY <1>t, <2>2, <3>2, Zenon DEF Protected
    <3>4. MpTypeOK'
      BY <2>2, <3>1, <3>3, Zenon DEF MpInv, MpTypeOK
    <3> QED
      BY <2>2, <3>1, <3>3, <3>4, Zenon DEF MpInv
  <2> QED
    BY <1>2, <2>1, <2>2, Zenon DEF make_readable
<1>3. CASE map_scratch
  <2>1. CASE Mp_gives_up("scratch")
    BY <2>1, MpGivesUp, Zenon
  <2>2. CASE /\ Mp_goes("scratch", "copy")
             /\ scratch' = {Zero}
             /\ UNCHANGED <<range, latest, gone>>
    <3>1. /\ call.at = "scratch" /\ call'.at = "copy"
          /\ call' \in [at : Ats, want : Protections]
      BY <1>t, <2>2, MpGoes, Zenon
    <3>2. MpTypeOK'
      BY <2>2, <3>1, BytesAssumption, Zenon DEF MpInv, MpTypeOK
    <3> QED
      BY <2>2, <3>1, <3>2, Zenon DEF MpInv
  <2> QED
    BY <1>3, <2>1, <2>2, Zenon DEF map_scratch
<1>4. CASE copy_out
  <2>1. /\ call.at = "copy" /\ call'.at = "replace"
        /\ call' \in [at : Ats, want : Protections]
    BY <1>t, <1>4, MpGoes, Zenon DEF copy_out
  <2>2. range.byte \in Bytes /\ scratch' = {range.byte}
        /\ UNCHANGED <<range, latest, gone>>
    BY <1>t, <1>4, Zenon DEF copy_out
  <2>3. MpTypeOK'
    BY <2>1, <2>2, Zenon DEF MpInv, MpTypeOK
  <2> QED
    BY <2>1, <2>2, <2>3, Zenon DEF MpInv
<1>5. CASE map_replacement
  <2>1. CASE Mp_gives_up("replace")
    BY <2>1, MpGivesUp, Zenon
  <2>2. CASE /\ Mp_goes("replace", "back")
             /\ range' = [byte |-> Zero, prot |-> {"R", "W"}]
             /\ UNCHANGED <<scratch, latest, gone>>
    <3>1. /\ call.at = "replace" /\ call'.at = "back"
          /\ call' \in [at : Ats, want : Protections]
      BY <1>t, <2>2, MpGoes, Zenon
    <3>2. /\ range' \in [byte : Bytes, prot : Protections]
          /\ "X" \notin range'.prot
      BY <2>2, BytesAssumption, Zenon DEF Protections
    <3>3. MpTypeOK'
      BY <2>2, <3>1, <3>2, Zenon DEF MpInv, MpTypeOK
    <3> QED
      BY <2>2, <3>1, <3>2, <3>3, Zenon DEF MpInv
  <2>3. CASE /\ Mp_goes("replace", "returned")
             /\ range' = [byte |-> Zero, prot |-> {}]
             /\ scratch' = {} /\ gone' = "dropped"
             /\ UNCHANGED latest
    <3>1. /\ call'.at = "returned" /\ call' \in [at : Ats, want : Protections]
      BY <1>t, <2>3, MpGoes, Zenon
    <3>2. range' \in [byte : Bytes, prot : Protections] /\ range'.prot = {}
      BY <2>3, BytesAssumption, Zenon DEF Protections
    <3>3. MpTypeOK'
      BY <2>3, <3>1, <3>2, Zenon DEF MpInv, MpTypeOK
    <3> QED
      BY <2>3, <3>1, <3>2, <3>3, Zenon DEF MpInv
  <2> QED
    BY <1>5, <2>1, <2>2, <2>3, Zenon DEF map_replacement
<1>6. CASE copy_back
  <2>1. /\ call.at = "back" /\ call'.at = "protect"
        /\ call' \in [at : Ats, want : Protections]
    BY <1>t, <1>6, MpGoes, Zenon DEF copy_back
  <2>2. PICK b \in Bytes : scratch = {b}
    BY <2>1, Zenon DEF MpInv
  <2>3. (CHOOSE c \in Bytes : scratch = {c}) = b
    BY <2>2, Zenon
  <2>4. /\ range' = [range EXCEPT !.byte = b]
        /\ UNCHANGED <<scratch, latest, gone>>
    BY <1>6, <2>3, Zenon DEF copy_back
  <2>5. range' \in [byte : Bytes, prot : Protections] /\ range'.byte = b
    BY <1>t, <2>4
  <2>6. MpTypeOK'
    BY <2>1, <2>4, <2>5 DEF MpInv, MpTypeOK
  <2>7. gone # "dropped" /\ (gone = "no" => b = latest)
    BY <2>1, <2>2 DEF MpInv
  <2> QED
    BY <2>1, <2>4, <2>5, <2>6, <2>7, Zenon DEF MpInv
<1>7. CASE protect
  <2>1. CASE Mp_gives_up("protect")
    BY <2>1, MpGivesUp, Zenon
  <2>2. CASE /\ Mp_goes("protect", "returned")
             /\ Protected(call.want)
             /\ scratch' = {}
             /\ UNCHANGED <<latest, gone>>
    <3>1. /\ call.at = "protect" /\ call'.at = "returned"
          /\ call' \in [at : Ats, want : Protections]
      BY <1>t, <2>2, MpGoes, Zenon
    <3>2. /\ range' \in [byte : Bytes, prot : Protections]
          /\ range'.byte = range.byte
      BY <1>t, <2>2, Zenon DEF Protected
    <3>3. MpTypeOK'
      BY <2>2, <3>1, <3>2, Zenon DEF MpInv, MpTypeOK
    <3> QED
      BY <2>2, <3>1, <3>2, <3>3 DEF MpInv
  <2> QED
    BY <1>7, <2>1, <2>2 DEF protect
<1>8. CASE Mp_returns
  BY <1>8, Zenon DEF Mp_returns, Nowhere, MpInv, MpTypeOK, Protections
<1>9. CASE Mp_store
  <2>1. /\ "W" \in range.prot /\ latest' \in Bytes
        /\ range' = [range EXCEPT !.byte = latest']
        /\ gone' = IF call.at \in {"replace", "back"} THEN "raced" ELSE gone
        /\ UNCHANGED <<call, scratch>>
    BY <1>9, Zenon DEF Mp_store
  <2>2. /\ range' \in [byte : Bytes, prot : Protections]
        /\ range'.byte = latest' /\ range'.prot = range.prot
    BY <1>t, <2>1, Zenon
  <2>3. MpTypeOK'
    BY <2>1, <2>2, Zenon DEF MpInv, MpTypeOK
  <2>4. gone # "dropped"
    BY <2>1, Zenon DEF MpInv
  <2> QED
    BY <2>1, <2>2, <2>3, <2>4, Zenon DEF MpInv
<1>10. CASE UNCHANGED mpvars
  BY <1>10, Zenon DEF mpvars, MpInv, MpTypeOK
<1> QED
  BY <1>1, <1>2, <1>3, <1>4, <1>5, <1>6, <1>7, <1>8, <1>9, <1>10, Zenon DEF MpNext

\* However the copy of mprotect ends, no half copied range is executable, none
\* is left behind, and the scratch mapping is released, unless another thread
\* stored between the two copies or the kernel dropped the range.
THEOREM CopyIsWhole == MpSpec => []MemoryStaysWhole
<1>1. MpInv => MemoryStaysWhole
  BY DEF MpInv, MpTypeOK, MemoryStaysWhole
<1> QED
  BY <1>1, MpInitially, MpStep, PTL DEF MpSpec

-----------------------------------------------------------------------------
(* android_root_shim.c.                                                    *)

Targets == [ok : BOOLEAN, length : Nat,
            file : {"net", "stat", "root", "other", "none",
                    "shadow net", "shadow stat"}]
CallTypes ==
  [by : {"open", "openat", "fopen", "access", "opendir", "stat", "none"},
   path : [place : {"net", "stat", "root", "other", "none"}, rest : Nat],
   flags : {{}} \cup Flags, mode : {"none", "r", "r+", "w", "R_OK", "W_OK"}]
RootState ==
  [net : Settings, stat : Settings, retries : BOOLEAN,
   at : {"idle", "kernel", "done", "failed"}, call : CallTypes,
   mapped : Targets, flags : SUBSET ((UNION Flags) \cup {"O_PATH"}), tries : {0, 1}]

Fits(target) ==
  target.file \in {"shadow net", "shadow stat"} => target.length + 1 <= PathMax

\* The strengthening: what a call was mapped to is what it would be mapped to
\* again, as the settings do not change.
RootInv ==
  /\ root \in RootState
  /\ Fits(root.mapped)
  /\ root.call = NoCall \/ (root.call \in Calls /\ root.mapped = mapped(root.call))
  /\ root.call = NoCall => root.tries = 0
  /\ root.tries = 0 => root.flags = root.call.flags
  /\ RetryAsksForLess

\* rewrite_proc_net and rewrite_proc_stat: the subtractions do not wrap, and
\* what they write fits the buffer with its end.
LEMMA RewriteFits ==
  ASSUME NEW path \in Paths, root.net \in Settings, root.stat \in Settings
  PROVE  rewrite_proc(path) \in Targets /\ Fits(rewrite_proc(path))
<1>1. /\ path.place \in {"net", "stat", "root", "other"} /\ path.rest \in Nat
      /\ SizeMax \in Nat /\ PathMax \in Nat
  BY RootAssumptions
<1>2. ASSUME NEW s \in Settings
      PROVE  /\ rewrite_proc_net(path, s) \in Targets
             /\ Fits(rewrite_proc_net(path, s))
             /\ rewrite_proc_stat(path, s) \in Targets
             /\ Fits(rewrite_proc_stat(path, s))
  <2>1. s.length \in Nat
    BY RootAssumptions, Zenon
  <2>2. path.rest < PathMax =>
          Minus(Minus(PathMax, path.rest), 1) = PathMax - path.rest - 1
    BY <1>1 DEF Minus
  <2>3. /\ Own(path) \in Targets /\ Fits(Own(path))
        /\ TooLong \in Targets /\ Fits(TooLong)
    BY <1>1, Zenon DEF Targets, Fits, Own, TooLong
  <2>4. ASSUME NEW n \in Nat, NEW file \in {"shadow net", "shadow stat"},
               n + 1 <= PathMax
        PROVE  To(file, n) \in Targets /\ Fits(To(file, n))
    BY <2>4, Zenon DEF Targets, Fits, To
  <2>5. \/ rewrite_proc_net(path, s) \in {Own(path), TooLong}
        \/ /\ rewrite_proc_net(path, s) = To("shadow net", s.length + path.rest)
           /\ (s.length + path.rest) + 1 <= PathMax
    <3>1. CASE path.place # "net" \/ Unusable(s)
      BY <3>1, Zenon DEF rewrite_proc_net
    <3>2. CASE /\ ~(path.place # "net" \/ Unusable(s))
               /\ \/ path.rest >= PathMax
                  \/ s.length > Minus(Minus(PathMax, path.rest), 1)
      BY <3>2, Zenon DEF rewrite_proc_net
    <3>3. CASE /\ ~(path.place # "net" \/ Unusable(s))
               /\ ~(path.rest >= PathMax)
               /\ ~(s.length > Minus(Minus(PathMax, path.rest), 1))
      <4>1. (s.length + path.rest) + 1 <= PathMax
        BY <1>1, <2>1, <2>2, <3>3
      <4>2. rewrite_proc_net(path, s) = To("shadow net", s.length + path.rest)
        BY <3>3, Zenon DEF rewrite_proc_net
      <4> QED
        BY <4>1, <4>2, Zenon
    <3> QED
      BY <3>1, <3>2, <3>3, Zenon
  <2>6. \/ rewrite_proc_stat(path, s) \in {Own(path), TooLong}
        \/ /\ rewrite_proc_stat(path, s) = To("shadow stat", s.length)
           /\ s.length + 1 <= PathMax
    <3>1. CASE path.place # "stat" \/ Unusable(s)
      BY <3>1, Zenon DEF rewrite_proc_stat
    <3>2. CASE ~(path.place # "stat" \/ Unusable(s)) /\ s.length >= PathMax
      BY <3>2, Zenon DEF rewrite_proc_stat
    <3>3. CASE ~(path.place # "stat" \/ Unusable(s)) /\ ~(s.length >= PathMax)
      <4>1. s.length + 1 <= PathMax
        BY <1>1, <2>1, <3>3
      <4>2. rewrite_proc_stat(path, s) = To("shadow stat", s.length)
        BY <3>3, Zenon DEF rewrite_proc_stat
      <4> QED
        BY <4>1, <4>2, Zenon
    <3> QED
      BY <3>1, <3>2, <3>3, Zenon
  <2>7. s.length + path.rest \in Nat
    BY <1>1, <2>1
  <2> QED
    BY <2>1, <2>3, <2>4, <2>5, <2>6, <2>7, Zenon
<1> QED
  BY <1>2, Zenon DEF rewrite_proc

\* Whatever function is called, its path is rewritten or left alone, and a call
\* that only looks goes where its path is rewritten to.
LEMMA MappedByIntent ==
  ASSUME NEW c \in Calls
  PROVE  /\ mapped(c) \in {Own(c.path), rewrite_proc(c.path)}
         /\ ~Changes(c) => mapped(c) = rewrite_proc(c.path)
<1>1. CASE c \in [by : {"open", "openat"}, path : Paths, flags : Flags,
                  mode : {"none"}]
  <2>1. c.by \in {"open", "openat"}
    BY <1>1, Zenon
  <2>2. mapped(c) = IF read_only_open(c.flags) THEN rewrite_proc(c.path)
                    ELSE Own(c.path)
    BY <2>1, Zenon DEF mapped
  <2>3. ~Changes(c) => read_only_open(c.flags)
    BY Zenon DEF Changes, read_only_open, ReadOnly, flags_have_mode
  <2> QED
    BY <2>2, <2>3, Zenon
<1>2. CASE c \in [by : {"fopen"}, path : Paths, flags : {{}},
                  mode : {"r", "r+", "w"}]
  <2>1. c.by = "fopen" /\ c.mode \in {"r", "r+", "w"}
    BY <1>2, Zenon
  <2> QED
    BY <2>1, Zenon DEF mapped, Changes
<1>3. CASE c \in [by : {"access"}, path : Paths, flags : {{}},
                  mode : {"R_OK", "W_OK"}]
  <2>1. c.by = "access" /\ c.mode \in {"R_OK", "W_OK"}
    BY <1>3, Zenon
  <2> QED
    BY <2>1, Zenon DEF mapped, Changes
<1>4. CASE c \in [by : {"opendir", "stat"}, path : Paths, flags : {{}},
                  mode : {"none"}]
  <2>1. c.by \in {"opendir", "stat"}
    BY <1>4, Zenon
  <2> QED
    BY <2>1, Zenon DEF mapped
<1> QED
  BY <1>1, <1>2, <1>3, <1>4, Zenon DEF Calls

\* What a call is mapped to depends on the settings only.
LEMMA MappedAgain ==
  ASSUME NEW c \in Calls, root'.net = root.net, root'.stat = root.stat
  PROVE  mapped(c)' = mapped(c)
BY Zenon DEF mapped, rewrite_proc

\* Whatever the settings, no call has been made and no path replaced.
LEMMA RootInitially == RootInit => RootInv
<1> SUFFICES ASSUME NEW n \in Settings, NEW s \in Settings, NEW r \in BOOLEAN,
                    root = [net |-> n, stat |-> s, retries |-> r, at |-> "idle",
                            call |-> NoCall, mapped |-> TooLong, flags |-> {},
                            tries |-> 0]
             PROVE  RootInv
  BY Zenon DEF RootInit
<1>1. NoCall \in CallTypes /\ TooLong \in Targets /\ NoCall.flags = {}
  BY Zenon DEF NoCall, CallTypes, TooLong, Targets
<1>2. root \in RootState
  BY <1>1, Zenon DEF RootState
<1>3. Fits(root.mapped)
  BY Zenon DEF Fits, TooLong
<1> QED
  BY <1>1, <1>2, <1>3 DEF RootInv, RetryAsksForLess

\* A call is well formed, and not the one no process has made.
LEMMA CallsTyped ==
  ASSUME NEW c \in Calls
  PROVE  /\ c \in CallTypes /\ c # NoCall /\ c.path \in Paths
         /\ c.flags \in {{}} \cup Flags
<1>1. \A p \in Paths : p \in [place : {"net", "stat", "root", "other", "none"},
                              rest : Nat]
  BY RootAssumptions, Zenon
<1> QED
  BY <1>1 DEF Calls, CallTypes, NoCall

\* One step per action of the library inside a process: a call, its two
\* attempts and its return.
LEMMA RootStep == RootInv /\ [RootNext]_root => RootInv'
<1> SUFFICES ASSUME RootInv, [RootNext]_root PROVE RootInv'
  OBVIOUS
<1>t. /\ root \in RootState /\ root.net \in Settings /\ root.stat \in Settings
      /\ root.flags \in SUBSET ((UNION Flags) \cup {"O_PATH"})
  BY Zenon DEF RootInv, RootState
<1>1. ASSUME NEW c \in Calls, Call(c) PROVE RootInv'
  <2>1. mapped(c) \in Targets /\ Fits(mapped(c))
    <3>1. Own(c.path) \in Targets /\ Fits(Own(c.path))
      BY CallsTyped, RootAssumptions, Zenon DEF Own, Targets, Fits
    <3> QED
      BY <1>t, <3>1, MappedByIntent, CallsTyped, RewriteFits, Zenon
  <2>2. PICK at \in {"kernel", "failed"} :
          root' = [root EXCEPT !.at = at, !.call = c, !.mapped = mapped(c),
                               !.flags = c.flags, !.tries = 0]
    BY <1>1, Zenon DEF Call
  <2>3. /\ root'.net = root.net /\ root'.stat = root.stat /\ root'.call = c
        /\ root'.mapped = mapped(c) /\ root'.flags = c.flags /\ root'.tries = 0
    BY <1>t, <2>2 DEF RootState
  <2>4. c.flags \in SUBSET ((UNION Flags) \cup {"O_PATH"})
    BY CallsTyped
  <2>5. root' \in RootState
    BY <1>t, <2>1, <2>2, <2>4, CallsTyped, Zenon DEF RootState
  <2>6. mapped(root.call)' = mapped(c)
    BY <2>3 DEF mapped, rewrite_proc
  <2>7. Fits(root.mapped)' /\ RetryAsksForLess'
    <3>1. Fits(root.mapped)'
      BY <2>1, <2>3, Zenon DEF Fits
    <3>2. RetryAsksForLess'
      BY <2>3 DEF RetryAsksForLess
    <3> QED
      BY <3>1, <3>2
  <2> QED
    BY <2>3, <2>5, <2>6, <2>7, CallsTyped, Zenon DEF RootInv
<1>2. ASSUME NEW at \in {"idle", "done", "failed"}, root' = [root EXCEPT !.at = at]
      PROVE  RootInv'
  <2>1. /\ root'.net = root.net /\ root'.stat = root.stat
        /\ root'.call = root.call /\ root'.mapped = root.mapped
        /\ root'.flags = root.flags /\ root'.tries = root.tries
    BY <1>t, <1>2, Zenon DEF RootState
  <2>2. root' \in RootState
    BY <1>t, <1>2, Zenon DEF RootState
  <2>3. root.call \in Calls => mapped(root.call)' = mapped(root.call)
    BY <2>1, MappedAgain, Zenon
  <2> QED
    BY <2>1, <2>2, <2>3, Zenon DEF RootInv, RetryAsksForLess, Fits
<1>3. ASSUME NEW error, may_retry(root.mapped.file, root.flags, error),
             root.tries = 0,
             root' = [root EXCEPT !.flags = retry_flags(root.flags), !.tries = 1]
      PROVE  RootInv'
  <2>1. /\ root'.net = root.net /\ root'.stat = root.stat
        /\ root'.call = root.call /\ root'.mapped = root.mapped
        /\ root'.flags = retry_flags(root.flags) /\ root'.tries = 1
    BY <1>t, <1>3, Zenon DEF RootState
  <2>2. retry_flags(root.flags) \in SUBSET ((UNION Flags) \cup {"O_PATH"})
    <3>1. ASSUME NEW B, NEW F \in SUBSET (B \cup {"O_PATH"})
          PROVE  retry_flags(F) \in SUBSET (B \cup {"O_PATH"})
      BY Zenon DEF retry_flags
    <3> QED
      BY <1>t, <3>1, Zenon
  <2>3. root' \in RootState
    BY <1>t, <1>3, <2>2, Zenon DEF RootState
  <2>4. root.call \in Calls => mapped(root.call)' = mapped(root.call)
    BY <2>1, MappedAgain
  <2>5. "O_DIRECTORY" \in root.flags /\ root.flags = root.call.flags
    BY <1>3 DEF may_retry, RootInv
  <2>6. RetryAsksForLess'
    BY <2>1, <2>5, Zenon DEF RetryAsksForLess, retry_flags
  <2>7. root.call # NoCall
    BY <2>5 DEF NoCall
  <2>8. Fits(root.mapped)'
    BY <2>1, Zenon DEF RootInv, Fits
  <2> QED
    BY <2>1, <2>3, <2>4, <2>6, <2>7, <2>8 DEF RootInv
<1>4. CASE \E c \in Calls : Call(c)
  BY <1>1, <1>4
<1>5. CASE Succeeds
  BY <1>2, <1>5 DEF Succeeds
<1>6. CASE Returns
  BY <1>2, <1>6 DEF Returns
<1>7. CASE \E error \in {"EACCES", "EPERM", "ENOENT"} : Fails(error)
  BY <1>2, <1>3, <1>7, Zenon DEF Fails
<1>8. CASE UNCHANGED root
  <2>1. root' = [root EXCEPT !.at = root.at]
    BY <1>t, <1>8, Zenon DEF RootState
  <2>2. root.call \in Calls => mapped(root.call)' = mapped(root.call)
    BY <1>8, MappedAgain, Zenon
  <2> QED
    BY <1>8, <2>2, Zenon DEF RootInv, RetryAsksForLess, Fits
<1> QED
  BY <1>4, <1>5, <1>6, <1>7, <1>8, Zenon DEF RootNext

\* What the three theorems on the replaced paths need, in every state.
LEMMA RootInvariant == RootSpec => []RootInv
BY RootInitially, RootStep, PTL DEF RootSpec

\* Whatever is asked for, and however long the settings and the path are, a
\* path that rewrite_proc_net or rewrite_proc_stat replaces fits its buffer.
THEOREM PathsFit == RootSpec => []RewrittenPathFits
<1>1. RootInv => RewrittenPathFits
  BY Zenon DEF RootInv, Fits, RewrittenPathFits
<1> QED
  BY <1>1, RootInvariant, PTL

\* The second attempt of openat never gives a process more than its first asked
\* for.
THEOREM RetriesAskForLess == RootSpec => []RetryAsksForLess
<1>1. RootInv => RetryAsksForLess
  BY DEF RootInv
<1> QED
  BY <1>1, RootInvariant, PTL

\* Whichever of its functions a process uses, all that only look at a path see
\* one file.
THEOREM ProcIsOne == RootSpec => OneViewOfProc
<1> DEFINE Agrees ==
      LET a == root.call
          b == root'.call
      IN  a # b /\ a.path = b.path /\ ~Changes(a) /\ ~Changes(b) =>
            root'.mapped = root.mapped
<1>1. ASSUME RootInv, RootNext, root.call # root'.call,
             root.call.path = root'.call.path, ~Changes(root.call),
             ~Changes(root'.call)
      PROVE  root'.mapped = root.mapped
  <2>1. root \in RootState
    BY <1>1, Zenon DEF RootInv
  <2>2. PICK c \in Calls : Call(c)
    <3>1. ~Succeeds /\ ~Returns /\ \A error : ~Fails(error)
      BY <1>1, <2>1, Zenon DEF Succeeds, Returns, Fails, RootState
    <3> QED
      BY <1>1, <3>1, Zenon DEF RootNext
  <2>3. root'.call = c /\ root'.mapped = mapped(c)
    BY <2>1, <2>2, Zenon DEF Call, RootState
  <2>4. root.call.path = c.path /\ ~Changes(c)
    BY <1>1, <2>3, Zenon
  <2>5. root.call # NoCall
    BY <2>4, CallsTyped, RootAssumptions DEF NoCall
  <2>6. root.call \in Calls /\ root.mapped = mapped(root.call)
    BY <1>1, <2>5 DEF RootInv
  <2>7. mapped(c) = rewrite_proc(c.path)
    BY <2>4, MappedByIntent, Zenon
  <2>8. mapped(root.call) = rewrite_proc(c.path)
    BY <1>1, <2>4, <2>6, MappedByIntent, Zenon
  <2> QED
    BY <2>3, <2>6, <2>7, <2>8, Zenon
<1>2. RootInv /\ [RootNext]_root => [Agrees]_root
  BY <1>1, Zenon
<1> QED
  BY <1>2, RootInvariant, PTL DEF RootSpec, OneViewOfProc

-----------------------------------------------------------------------------
(* steam-sysv-shim.c.                                                      *)

ShimTable(V) == [ShimSlots -> [used : BOOLEAN, key : Nat, count : Nat, value : V]]

\* The strengthening: the table has its shape, and only threads sleep.  What
\* the values are does not matter for it.
ShimInv ==
  /\ \E V : sets \in ShimTable(V)
  /\ DOMAIN waits = Threads
  /\ asleep \subseteq Threads
  /\ SleepersBlocked
  /\ ShimKeysUnique

\* The scan for a free slot ends at one if there is one.
LEMMA FirstIsOne ==
  ASSUME NEW T, T \subseteq Nat, T # {}
  PROVE  First(T) \in T
<1> DEFINE R == OpToRel(<, Nat)
<1>1. IsWellFoundedOn(R, Nat)
  BY NatLessThanWellFounded, Zenon
<1> HIDE DEF R
<1>2. PICK x \in T : \A y \in T : ~(<<y, x>> \in R)
  BY <1>1, WFMin, Zenon
<1>3. \A y \in T : ~(y < x)
  BY <1>2, Zenon DEF R, OpToRel
<1>4. \A y \in T : x <= y
  BY <1>3
<1> QED
  BY <1>4, Zenon DEF First

\* No slot is in use, so nobody sleeps.
LEMMA ShimInitially == ShimInit => ShimInv
<1> SUFFICES ASSUME ShimInit PROVE ShimInv
  OBVIOUS
<1>1. sets \in ShimTable({FreeSet.value})
  BY Zenon DEF ShimInit, ShimTable, FreeSet
<1>2. ShimKeysUnique
  BY DEF ShimInit, ShimKeysUnique, FreeSet
<1>3. DOMAIN waits = Threads /\ asleep = {}
  BY Zenon DEF ShimInit
<1> QED
  BY <1>1, <1>2, <1>3, Zenon DEF ShimInv, SleepersBlocked

\* A slot that gets new values keeps its key and stays in use.
LEMMA ValuesChange ==
  ASSUME ShimInv, NEW id \in ShimSlots, NEW v,
         sets' = [sets EXCEPT ![id].value = v]
  PROVE  (\E V : sets' \in ShimTable(V)) /\ ShimKeysUnique'
<1>1. PICK V : sets \in ShimTable(V)
  BY DEF ShimInv
<1>2. sets' \in ShimTable(V \cup {v})
  BY <1>1, Zenon DEF ShimTable
<1>3. \A i \in ShimSlots : sets'[i].used = sets[i].used /\ sets'[i].key = sets[i].key
  BY <1>1 DEF ShimTable
<1> QED
  BY <1>2, <1>3 DEF ShimInv, ShimKeysUnique

\* semget: the new set takes a slot nobody sleeps on, and a key nobody has.
LEMMA ShimGets ==
  ASSUME ShimInv, semget
  PROVE  ShimInv'
<1>1. PICK key \in ShimKeys, nsems \in 1 .. MaxShimSems :
        /\ slots_with(key) = {} /\ free_slots # {}
        /\ sets' = [sets EXCEPT ![First(free_slots)] =
                      [FreeSet EXCEPT !.used = TRUE, !.key = key, !.count = nsems]]
        /\ UNCHANGED <<waits, asleep>>
  BY Zenon DEF semget
<1> DEFINE slot == First(free_slots)
           new == [FreeSet EXCEPT !.used = TRUE, !.key = key, !.count = nsems]
<1>2. PICK V : sets \in ShimTable(V)
  BY DEF ShimInv
<1>3. slot \in ShimSlots /\ ~sets[slot].used
  <2>1. free_slots \subseteq Nat
    BY ShimAssumptions DEF free_slots, ShimSlots
  <2>2. slot \in free_slots
    BY <1>1, <2>1, FirstIsOne, Zenon
  <2> QED
    BY <2>2, Zenon DEF free_slots
<1>4. /\ new \in [used : BOOLEAN, key : Nat, count : Nat,
                  value : V \cup {FreeSet.value}]
      /\ new.used = TRUE /\ new.key = key
  <2>1. FreeSet \in [used : BOOLEAN, key : Nat, count : Nat, value : {FreeSet.value}]
    BY DEF FreeSet
  <2>2. key \in Nat /\ nsems \in Nat
    BY ShimAssumptions
  <2> QED
    BY <2>1, <2>2, Zenon
<1> HIDE DEF slot, new
<1>5. /\ sets' = [sets EXCEPT ![slot] = new]
      /\ sets'[slot] = new
      /\ \A i \in ShimSlots : i # slot => sets'[i] = sets[i]
  BY <1>1, <1>2, <1>3 DEF slot, new, ShimTable
<1>6. sets' \in ShimTable(V \cup {FreeSet.value})
  BY <1>2, <1>4, <1>5, Zenon DEF ShimTable
<1>7. \A i \in ShimSlots : sets[i].used => sets[i].key # key \/ key = IPC_PRIVATE
  BY <1>1, Zenon DEF slots_with
<1>8. ShimKeysUnique'
  BY <1>4, <1>5, <1>7 DEF ShimInv, ShimKeysUnique
<1>9. SleepersBlocked'
  <2> SUFFICES ASSUME NEW t \in asleep'
               PROVE  /\ from_id(waits[t].id)'
                      /\ (judge(sets[waits[t].id], waits[t].ops) = "blocked")'
    BY DEF SleepersBlocked
  <2>1. /\ t \in asleep /\ from_id(waits[t].id)
        /\ judge(sets[waits[t].id], waits[t].ops) = "blocked"
    BY <1>1, Zenon DEF ShimInv, SleepersBlocked
  <2>2. waits[t].id # slot /\ waits[t].id \in ShimSlots
    BY <1>3, <2>1, Zenon DEF from_id
  <2>3. sets'[waits[t].id] = sets[waits[t].id] /\ waits' = waits
    BY <1>1, <1>5, <2>2, Zenon
  <2> QED
    BY <2>1, <2>3, Zenon DEF from_id, judge
<1> QED
  BY <1>1, <1>6, <1>8, <1>9, Zenon DEF ShimInv

\* semctl: a removal and a SETVAL wake everybody.
LEMMA ShimControls ==
  ASSUME ShimInv, semctl
  PROVE  ShimInv'
<1>1. PICK id \in ShimSlots :
        \/ remove_set(id)
        \/ \E semnum \in ShimSems, value \in ShimValues : setval(id, semnum, value)
  BY Zenon DEF semctl
<1>2. UNCHANGED waits /\ asleep' = {}
  BY <1>1, Zenon DEF semctl, remove_set, setval
<1>3. SleepersBlocked'
  BY <1>2, Zenon DEF SleepersBlocked
<1>4. (\E V : sets' \in ShimTable(V)) /\ ShimKeysUnique'
  <2>1. CASE remove_set(id)
    <3>1. PICK V : sets \in ShimTable(V)
      BY Zenon DEF ShimInv
    <3>2. sets' = [sets EXCEPT ![id] = FreeSet]
      BY <2>1, Zenon DEF remove_set
    <3>3. FreeSet \in [used : BOOLEAN, key : Nat, count : Nat,
                       value : V \cup {FreeSet.value}] /\ FreeSet.used = FALSE
      BY Zenon DEF FreeSet
    <3>4. sets' \in ShimTable(V \cup {FreeSet.value})
      BY <3>1, <3>2, <3>3, Zenon DEF ShimTable
    <3>5. /\ sets'[id].used = FALSE
          /\ \A i \in ShimSlots : i # id => sets'[i] = sets[i]
      BY <3>1, <3>2, <3>3, Zenon DEF ShimTable
    <3>6. ShimKeysUnique'
      BY <3>5, Zenon DEF ShimInv, ShimKeysUnique
    <3> QED
      BY <3>4, <3>6, Zenon
  <2>2. ASSUME NEW semnum \in ShimSems, NEW value \in ShimValues,
               setval(id, semnum, value)
        PROVE  (\E V : sets' \in ShimTable(V)) /\ ShimKeysUnique'
    <3> DEFINE v == [sets[id].value EXCEPT ![semnum] = value]
    <3>1. sets' = [sets EXCEPT ![id].value = v]
      BY <2>2 DEF setval
    <3> HIDE DEF v
    <3> QED
      BY <3>1, ValuesChange, Zenon
  <2> QED
    BY <1>1, <2>1, <2>2, Zenon
<1> QED
  BY <1>2, <1>3, <1>4, Zenon DEF ShimInv

\* One round of semop, first or after a wakeup: a thread sleeps only on what
\* blocks it, and what is performed wakes everybody.
LEMMA ShimAttempts ==
  ASSUME ShimInv, NEW t \in Threads, NEW id, NEW ops, attempt(t, id, ops)
  PROVE  ShimInv'
<1> DEFINE verdict == IF from_id(id) THEN judge(sets[id], ops) ELSE "EINVAL"
<1>1. CASE /\ verdict = "0" /\ perform(id, ops)
           /\ waits' = [waits EXCEPT ![t] = NoSemop]
  <2>1. id \in ShimSlots
    BY <1>1 DEF from_id
  <2> DEFINE v == performed(sets[id].value, ops)
  <2>2. sets' = [sets EXCEPT ![id].value = v] /\ asleep' = {}
    BY <1>1 DEF perform
  <2> HIDE DEF v
  <2>3. (\E V : sets' \in ShimTable(V)) /\ ShimKeysUnique'
    BY <2>1, <2>2, ValuesChange, Zenon
  <2>4. DOMAIN waits' = Threads
    BY <1>1 DEF ShimInv
  <2> QED
    BY <2>2, <2>3, <2>4 DEF ShimInv, SleepersBlocked
<1>2. CASE /\ verdict = "blocked"
           /\ waits' = [waits EXCEPT ![t] = [id |-> id, ops |-> ops]]
           /\ asleep' = asleep \cup {t}
           /\ UNCHANGED sets
  <2>1. /\ DOMAIN waits' = Threads
        /\ waits'[t].id = id /\ waits'[t].ops = ops
        /\ \A u \in Threads : u # t => waits'[u] = waits[u]
    BY <1>2, Zenon DEF ShimInv
  <2>2. from_id(id) /\ judge(sets[id], ops) = "blocked"
    BY <1>2, Zenon
  <2>3. SleepersBlocked'
    <3> SUFFICES ASSUME NEW u \in asleep'
                 PROVE  /\ from_id(waits[u].id)'
                        /\ (judge(sets[waits[u].id], waits[u].ops) = "blocked")'
      BY ZenonT(40) DEF SleepersBlocked
    <3>1. CASE u = t
      BY <1>2, <2>1, <2>2, <3>1, ZenonT(40) DEF from_id, judge
    <3>2. CASE u # t
      <4>1. u \in asleep /\ u \in Threads /\ waits'[u] = waits[u]
        BY <1>2, <2>1, <3>2, Zenon DEF ShimInv
      <4>2. /\ from_id(waits[u].id)
            /\ judge(sets[waits[u].id], waits[u].ops) = "blocked"
        BY <4>1, Zenon DEF ShimInv, SleepersBlocked
      <4> QED
        BY <1>2, <4>1, <4>2, Zenon DEF from_id, judge
    <3> QED
      BY <3>1, <3>2, Zenon
  <2>4. asleep' \subseteq Threads
    BY <1>2, Zenon DEF ShimInv
  <2>5. (\E V : sets' \in ShimTable(V)) /\ ShimKeysUnique'
    BY <1>2, Zenon DEF ShimInv, ShimKeysUnique
  <2> QED
    BY <2>1, <2>3, <2>4, <2>5, Zenon DEF ShimInv
<1>3. CASE /\ waits' = [waits EXCEPT ![t] = NoSemop]
           /\ asleep' = asleep \ {t}
           /\ UNCHANGED sets
  <2>1. /\ DOMAIN waits' = Threads
        /\ \A u \in Threads : u # t => waits'[u] = waits[u]
    BY <1>3, Zenon DEF ShimInv
  <2>2. SleepersBlocked'
    <3> SUFFICES ASSUME NEW u \in asleep'
                 PROVE  /\ from_id(waits[u].id)'
                        /\ (judge(sets[waits[u].id], waits[u].ops) = "blocked")'
      BY DEF SleepersBlocked
    <3>1. u \in asleep /\ u \in Threads /\ waits'[u] = waits[u]
      BY <1>3, <2>1, ZenonT(40) DEF ShimInv
    <3>2. /\ from_id(waits[u].id)
          /\ judge(sets[waits[u].id], waits[u].ops) = "blocked"
      BY <3>1, Zenon DEF ShimInv, SleepersBlocked
    <3> QED
      BY <1>3, <3>1, <3>2, ZenonT(40) DEF from_id, judge
  <2>3. asleep' \subseteq Threads
    BY <1>3, Zenon DEF ShimInv
  <2>4. (\E V : sets' \in ShimTable(V)) /\ ShimKeysUnique'
    BY <1>3, Zenon DEF ShimInv, ShimKeysUnique
  <2> QED
    BY <2>1, <2>2, <2>3, <2>4, Zenon DEF ShimInv
<1> HIDE DEF verdict
<1> QED
  BY <1>1, <1>2, <1>3, Zenon DEF attempt, verdict

\* One step per action of the threads of the process.
LEMMA ShimStep == ShimInv /\ [ShimNext]_shimvars => ShimInv'
<1> SUFFICES ASSUME ShimInv, [ShimNext]_shimvars PROVE ShimInv'
  OBVIOUS
<1>1. CASE semget
  BY <1>1, ShimGets, Zenon
<1>2. CASE semctl
  BY <1>2, ShimControls
<1>3. ASSUME NEW t \in Threads, semop(t) \/ wakes(t) PROVE ShimInv'
  BY <1>3, ShimAttempts, Zenon DEF semop, wakes
<1>4. CASE UNCHANGED shimvars
  <2>1. sets' = sets /\ waits' = waits /\ asleep' = asleep
    BY <1>4, ZenonT(40) DEF shimvars
  <2>2. SleepersBlocked'
    BY <2>1, Zenon DEF ShimInv, SleepersBlocked, from_id, judge
  <2> QED
    BY <2>1, <2>2, Zenon DEF ShimInv, ShimKeysUnique
<1> QED
  BY <1>1, <1>2, <1>3, <1>4, Zenon DEF ShimNext

\* Sleepers block on live sets, and keys are unique, in every state.
LEMMA ShimInvariant == ShimSpec => []ShimInv
BY ShimInitially, ShimStep, PTL DEF ShimSpec

\* A thread asleep in semop, whatever the others create, remove, set and take
\* meanwhile, has a set that lives and an operation that still blocks.
THEOREM SleepersStayBlocked == ShimSpec => []SleepersBlocked
<1>1. ShimInv => SleepersBlocked
  BY DEF ShimInv
<1> QED
  BY <1>1, ShimInvariant, PTL

\* No two sets of a process share a key.
THEOREM ShimKeysStayUnique == ShimSpec => []ShimKeysUnique
<1>1. ShimInv => ShimKeysUnique
  BY DEF ShimInv
<1> QED
  BY <1>1, ShimInvariant, PTL
=============================================================================
