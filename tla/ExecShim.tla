------------------------------ MODULE ExecShim ------------------------------
(***************************************************************************)
(* src/exec_shim.c: a process that runs under the shim replaces itself by  *)
(* (or spawns) one program after the other.  The shim launches guest       *)
(* programs, whose interpreter the host does not have, through a loader it *)
(* is told of, and rewrites the environment they get.  The model follows   *)
(* one line of descent: the process becomes what it launched.              *)
(*                                                                         *)
(* Paths and values are names; an environment is a sequence of             *)
(* assignments.  External: what the kernel and the loader make of an image *)
(* that they are given.                                                    *)
(***************************************************************************)
EXTENDS Integers, Sequences

CONSTANTS Files,         \* of a path: its [interp, runs], interp "none" or a path
          Real,          \* of a path that resolves: its real path
          Absolute,      \* values that begin with a slash and go on
          Under,         \* of a prefix that ends in a slash: the paths below it
          Candidates,    \* of a name without a slash: the paths PATH leads to
          Loaders,       \* host programs that load a guest program
          Missing,       \* the interpreters the host does not have
          Shims,         \* values of LD_PRELOAD that load the shim
          Requested,     \* what is launched: paths and names
          Arguments,     \* the argument vectors
          FirstEnvs,     \* environments the first process may have
          Edits,         \* how a caller makes an environment: [drop, add]
          MaxLaunches    \* bound: how often the process is replaced

VARIABLES proc,   \* the process: [program, env, exe, generation]
          last    \* the launch it just made: what was asked, what came of it

execvars == <<proc, last>>

Unset == "(unset)"
Var(name, value) == [name |-> name, value |-> value]
SELF == "TGCOMPAT_PROC_SELF_EXE"

\* The first assignment counts.
environment_value(env, name) ==
  LET s == SelectSeq(env, LAMBDA e : e.name = name)
  IN  IF s = <<>> THEN Unset ELSE Head(s).value

\* The child's value, or that of the calling process.
configured_environment_value(envp, own, name) ==
  LET v == environment_value(envp, name)
  IN  IF v # Unset THEN v ELSE environment_value(own, name)

Drops(env, names) == SelectSeq(env, LAMBDA e : e.name \notin names)

-----------------------------------------------------------------------------
(* Which file is launched, and whether through the loader.                 *)

disabled_by_environment(envp) ==
  environment_value(envp, "TGCOMPAT_EXEC_DISABLE") \notin {Unset, "", "0"}

NoPath == "(no path)"

\* A pair of paths redirects one exact name.  It may redirect it to itself.
Pair(file, from, to) ==
  IF {from, to} \subseteq Absolute /\ file = from THEN to ELSE NoPath

\* Both come from the child's environment, or both from the caller's.
redirect_configured_path(file, envp, own) ==
  LET Half(env, name) == environment_value(env, name)
      Has(env) == \/ Half(env, "TGCOMPAT_EXEC_PATH_FROM") # Unset
                  \/ Half(env, "TGCOMPAT_EXEC_PATH_TO") # Unset
      env == IF Has(envp) THEN envp ELSE own
  IN  Pair(file, Half(env, "TGCOMPAT_EXEC_PATH_FROM"),
                 Half(env, "TGCOMPAT_EXEC_PATH_TO"))

redirect_shell_path(file, envp, own) ==
  LET to == configured_environment_value(envp, own, "TGCOMPAT_EXEC_SHELL")
  IN  IF file \in {"/bin/sh", "/usr/bin/sh"} /\ to \in Absolute
      THEN to ELSE NoPath

interpreter_matches(interpreter, envp) ==
  LET only == environment_value(envp, "TGCOMPAT_EXEC_MATCH_INTERPRETER")
  IN  IF only \notin {Unset, ""} THEN interpreter = only
      ELSE interpreter \in {"/lib/ld-linux-aarch64.so.1",
                            "/lib64/ld-linux-aarch64.so.1"}

\* The guest's own loader, asked for by name, is the configured one.
redirect_exec_path(file, envp, own) ==
  LET configured == redirect_configured_path(file, envp, own)
      shell == redirect_shell_path(file, envp, own)
      loader == environment_value(envp, "TGCOMPAT_LD_SO")
  IN  CASE configured # NoPath -> configured
        [] configured = NoPath /\ shell # NoPath -> shell
        [] configured = NoPath /\ shell = NoPath ->
             IF /\ ~disabled_by_environment(envp)
                /\ interpreter_matches(file, envp)
                /\ loader \in Absolute
             THEN loader ELSE file

\* See ElfInterpreter for how the file is read.
read_elf_interpreter(file) ==
  IF file \in DOMAIN Files THEN Files[file].interp ELSE "none"

should_wrap(file, envp) ==
  /\ environment_value(envp, "TGCOMPAT_LD_SO") \in Absolute \cup {"/"}
  /\ ~disabled_by_environment(envp)
  /\ read_elf_interpreter(file) # "none"
  /\ interpreter_matches(read_elf_interpreter(file), envp)

-----------------------------------------------------------------------------
(* The image that is handed to the kernel.                                 *)

Image(path, argv, env) == [path |-> path, argv |-> argv, env |-> env]

\* Mutant of loader_environment: an assignment that is there already is kept.
loader_environment_kept(envp, preload, self) ==
  Drops(envp, IF preload # Unset THEN {"LD_PRELOAD"} ELSE {})
    \o (IF preload # Unset THEN <<Var("LD_PRELOAD", preload)>> ELSE <<>>)
    \o <<Var(SELF, self)>>

\* What the wrapped program gets: its own path, and the preload that was
\* configured in place of the caller's.
loader_environment(envp, preload, self) ==
  Drops(envp, IF preload # Unset THEN {SELF, "LD_PRELOAD"} ELSE {SELF})
    \o (IF preload # Unset THEN <<Var("LD_PRELOAD", preload)>> ELSE <<>>)
    \o <<Var(SELF, self)>>

loader_argv(loader, library, file, argv) ==
  <<loader, "--inhibit-cache", "--argv0",
    IF argv = <<>> THEN file ELSE argv[1]>>
    \o (IF library \in {Unset, ""} THEN <<>>
        ELSE <<"--library-path", library>>)
    \o <<file>> \o (IF argv = <<>> THEN <<>> ELSE Tail(argv))

\* Mutant of loader_preload: only the child's environment is asked.
child_preload(envp, own) == environment_value(envp, "TGCOMPAT_EXEC_LD_PRELOAD")

loader_preload(envp, own) ==
  configured_environment_value(envp, own, "TGCOMPAT_EXEC_LD_PRELOAD")

\* Mutant of loader_argv_capacity: room for the options, not for the end.
loader_argv_capacity_short(argv) == Len(argv) + 7

\* The vectors are allocated before they are filled.
loader_argv_capacity(argv) == Len(argv) + 8

loader_environment_capacity(envp, preload) ==
  IF preload # Unset THEN Len(Drops(envp, {SELF, "LD_PRELOAD"})) + 3
  ELSE Len(Drops(envp, {SELF})) + 2

build_loader_arguments(launch, argv, envp, own) ==
  LET loader == environment_value(envp, "TGCOMPAT_LD_SO")
      library == environment_value(envp, "TGCOMPAT_LIBRARY_PATH")
  IN  Image(loader, loader_argv(loader, library, launch, argv),
            loader_environment(envp, loader_preload(envp, own), Real[launch]))

final_path_matches(file, envp, own) ==
  LET prefix == configured_environment_value(envp, own,
                  "TGCOMPAT_EXEC_FINAL_PATH_PREFIX")
  IN  prefix \in DOMAIN Under /\ file \in Under[prefix]

\* A program that is not wrapped, below the configured directory, gets the
\* final preload and, if there is one, the final path of itself.
build_final_environment(envp, own) ==
  LET preload == configured_environment_value(envp, own,
                   "TGCOMPAT_EXEC_FINAL_LD_PRELOAD")
      self == configured_environment_value(envp, own,
                "TGCOMPAT_EXEC_FINAL_PROC_SELF_EXE")
  IN  Drops(envp, IF self # Unset THEN {SELF, "LD_PRELOAD"} ELSE {"LD_PRELOAD"})
        \o <<Var("LD_PRELOAD", preload)>>
        \o (IF self # Unset THEN <<Var(SELF, self)>> ELSE <<>>)

\* Nothing is launched: the preload of a final program is not configured.
final_preload_missing(file, envp, own) ==
  /\ ~should_wrap(redirect_exec_path(file, envp, own), envp)
  /\ final_path_matches(file, envp, own)
  /\ configured_environment_value(envp, own,
       "TGCOMPAT_EXEC_FINAL_LD_PRELOAD") = Unset

\* Mutant of exec_image: the file that was asked for decides.
exec_image_unredirected(file, argv, envp, own) ==
  LET launch == redirect_exec_path(file, envp, own)
  IN  IF should_wrap(file, envp)
      THEN build_loader_arguments(launch, argv, envp, own)
      ELSE Image(launch, argv, IF final_path_matches(file, envp, own)
                               THEN build_final_environment(envp, own)
                               ELSE envp)

\* execve and spawn_wrapped.
exec_image(file, argv, envp, own) ==
  LET launch == redirect_exec_path(file, envp, own)
  IN  IF should_wrap(launch, envp)
      THEN build_loader_arguments(launch, argv, envp, own)
      ELSE Image(launch, argv, IF final_path_matches(file, envp, own)
                               THEN build_final_environment(envp, own)
                               ELSE envp)

FirstOf(s) == IF s = <<>> THEN NoPath ELSE Head(s)
Runs(p) == p \in DOMAIN Files /\ Files[p].runs

\* The search is for what has to be wrapped, and for nothing else.
find_matching_path(name, envp) ==
  FirstOf(SelectSeq(Candidates[name],
                    LAMBDA p : Runs(p) /\ should_wrap(p, envp)))

-----------------------------------------------------------------------------
(* External: what becomes of an image.                                     *)

\* Where the loader finds the program among its arguments; 0 if nowhere.
program_at(argv) ==
  LET at[i \in 1..(Len(argv) + 2)] ==
        IF i > Len(argv) THEN 0
        ELSE IF argv[i] = "--inhibit-cache" THEN at[i + 1]
        ELSE IF argv[i] \in {"--argv0", "--library-path"} THEN at[i + 2]
        ELSE i
  IN  at[2]

\* A process: the file that runs, its environment, and the file that the
\* kernel knows it by.
Process(program, env, exe, generation) ==
  [program |-> program, env |-> env, exe |-> exe, generation |-> generation]

\* The loader replaces its own arguments by those of the program.
given(image) ==
  LET n == program_at(image.argv)
      zero == {i \in 1..(n - 1) : image.argv[i] = "--argv0"}
      name == IF zero = {} THEN n ELSE (CHOOSE i \in zero : TRUE) + 1
  IN  IF image.path \notin Loaders THEN image.argv
      ELSE <<image.argv[name]>> \o SubSeq(image.argv, n + 1, Len(image.argv))

Result(image) ==
  CASE ~Runs(image.path) -> "cannot run"
    [] Runs(image.path) /\ image.path \in Loaders ->
         IF program_at(image.argv) = 0 THEN "no program" ELSE "runs"
    [] Runs(image.path) /\ image.path \notin Loaders ->
         IF Files[image.path].interp \in Missing THEN "no interpreter"
         ELSE "runs"

started(image) ==
  Process(IF image.path \in Loaders THEN image.argv[program_at(image.argv)]
          ELSE image.path, image.env, image.path, proc.generation + 1)

\* The library's own search, which goes on after a file it cannot run.
searched(name, argv, envp) ==
  LET p == FirstOf(SelectSeq(Candidates[name], LAMBDA c :
                     Result(Image(c, argv, envp)) = "runs"))
  IN  Image(p, argv, envp)

-----------------------------------------------------------------------------
(* The entry points.                                                       *)

\* Whether PATH is searched, and whether the child gets the environment of
\* the caller.  The forms with a list of arguments make a vector of it.
Entry(search, own) == [search |-> search, own |-> own]
Entries == [execve |-> Entry(FALSE, FALSE), execv |-> Entry(FALSE, TRUE),
            execl |-> Entry(FALSE, TRUE), execle |-> Entry(FALSE, FALSE),
            execvp |-> Entry(TRUE, TRUE), execvpe |-> Entry(TRUE, FALSE),
            execlp |-> Entry(TRUE, TRUE), posix_spawn |-> Entry(FALSE, FALSE),
            posix_spawnp |-> Entry(TRUE, FALSE)]

Edited(env, edit) == Drops(env, edit.drop) \o edit.add

\* The file that execve is given: the name itself, or what the search found.
Resolved(entry, name, envp) ==
  IF entry.search /\ name \in DOMAIN Candidates
  THEN find_matching_path(name, envp) ELSE name

NoImage == Image(NoPath, <<>>, <<>>)

Asked(file, argv, envp, image, result) ==
  [asked |-> file, argv |-> argv, envp |-> envp, own |-> proc.env,
   image |-> image, result |-> result]

Nothing == [asked |-> NoPath, argv |-> <<>>, envp |-> <<>>, own |-> <<>>,
            image |-> NoImage, result |-> "none"]

\* The program becomes the image, or goes on when it cannot.
Turns(file, argv, envp, image) ==
  /\ last' = Asked(file, argv, envp, image, Result(image))
  /\ proc' = IF Result(image) = "runs" THEN started(image) ELSE proc

Shimmed == environment_value(proc.env, "LD_PRELOAD") \in Shims

Launch(entry, name, argv, edit) ==
  LET envp == IF entry.own THEN proc.env ELSE Edited(proc.env, edit)
      file == Resolved(entry, name, envp)
  IN  /\ last = Nothing /\ Shimmed /\ proc.generation < MaxLaunches
      /\ \/ /\ file = NoPath
            /\ Turns(file, argv, envp, searched(name, argv, envp))
         \/ /\ file # NoPath /\ ~final_preload_missing(file, envp, proc.env)
            /\ Turns(file, argv, envp, exec_image(file, argv, envp, proc.env))
         \/ /\ file # NoPath /\ final_preload_missing(file, envp, proc.env)
            /\ last' = Asked(file, argv, envp, NoImage, "EINVAL")
            /\ UNCHANGED proc

\* The program runs until it launches another.
RunsOn == last # Nothing /\ last' = Nothing /\ UNCHANGED proc

ExecInit ==
  /\ \E env \in FirstEnvs :
       proc = Process("launcher", env, "launcher", 0)
  /\ last = Nothing

ExecNext ==
  \/ \E entry \in {Entries[f] : f \in DOMAIN Entries}, name \in Requested,
        argv \in Arguments, edit \in Edits : Launch(entry, name, argv, edit)
  \/ RunsOn

-----------------------------------------------------------------------------
(* steam-proc-self-shim.c: what a program finds at /proc/self/exe.         *)

virtual_target(env) ==
  LET v == environment_value(env, SELF)
  IN  IF v \in Absolute \cup {"/"} THEN v ELSE NoPath

readlink_self(p) ==
  IF virtual_target(p.env) # NoPath THEN virtual_target(p.env) ELSE p.exe

-----------------------------------------------------------------------------
(* Properties.  A launch of the loader by name is a launch of the loader,  *)
(* not of the program among its arguments.                                 *)

ByName == last.asked \notin Loaders \cup Missing
Started == last.result = "runs" /\ ByName
AfterLoading == Started /\ proc.exe \in Loaders

\* However many programs were launched before it, and whatever they left in
\* the environment, a program that the shim had loaded is itself: it finds its
\* own file at /proc/self/exe, not the loader and not the program that launched
\* it, and gets the arguments of the call, argv[0] included, or its name if
\* there were none; the loader's own options are gone.
ProgramIsItself ==
  /\ AfterLoading => readlink_self(proc) = Real[proc.program]
  /\ Started => \/ given(last.image) = last.argv
                \/ last.argv = <<>> /\ given(last.image) = <<proc.program>>

\* The right file runs, by path or through PATH, by any entry point: a guest
\* program is never handed to a kernel that has no interpreter for it while a
\* loader is configured, redirected or not; and a file runs in place of another
\* only by a pair of paths that were set together, in the child's environment
\* or in the caller's.
RightFileRuns ==
  /\ last.result = "no interpreter" =>
       \/ environment_value(last.envp, "TGCOMPAT_LD_SO")
            \notin Absolute \cup {"/"}
       \/ disabled_by_environment(last.envp)
       \/ environment_value(last.envp, "TGCOMPAT_EXEC_MATCH_INTERPRETER")
            \notin {Unset, ""}
  /\ (/\ Started /\ last.asked # NoPath /\ proc.program # last.asked
      /\ last.asked \notin {"/bin/sh", "/usr/bin/sh"})
       => \E env \in {last.envp, last.own} :
            /\ environment_value(env, "TGCOMPAT_EXEC_PATH_FROM") = last.asked
            /\ environment_value(env, "TGCOMPAT_EXEC_PATH_TO") = proc.program

\* Every program gets the preload meant for it.  One that is loaded for a
\* process with a configured preload gets it, unless the child's environment
\* configures another: a caller that clears the environment of a child cannot
\* lose the shim.  One below the final directory that runs without the loader
\* has one LD_PRELOAD, the final one, whatever its callers preloaded, and what
\* else it was given arrives in order.
PreloadsArrive ==
  /\ (/\ AfterLoading
      /\ environment_value(last.own, "TGCOMPAT_EXEC_LD_PRELOAD") \in Shims
      /\ environment_value(last.envp, "TGCOMPAT_EXEC_LD_PRELOAD") = Unset)
       => environment_value(proc.env, "LD_PRELOAD") \in Shims
  /\ (/\ Started /\ proc.exe \notin Loaders /\ last.asked # NoPath
      /\ final_path_matches(last.asked, last.envp, last.own))
       => /\ SelectSeq(proc.env, LAMBDA e : e.name = "LD_PRELOAD") =
               <<Var("LD_PRELOAD", configured_environment_value(last.envp,
                       last.own, "TGCOMPAT_EXEC_FINAL_LD_PRELOAD"))>>
          /\ Drops(proc.env, {SELF, "LD_PRELOAD"}) =
               Drops(last.envp, {SELF, "LD_PRELOAD"})

\* The vectors that were counted and allocated hold what is written to them,
\* with the null pointer at the end, also for an empty argv.
VectorsFit ==
  AfterLoading =>
    /\ Len(last.image.argv) + 1 <= loader_argv_capacity(last.argv)
    /\ Len(last.image.env) + 1 <=
         loader_environment_capacity(last.envp,
                                     loader_preload(last.envp, last.own))
====
