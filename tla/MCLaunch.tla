------------------------------ MODULE MCLaunch ------------------------------
(***************************************************************************)
(* Small instances of what a game is launched with: the session script,    *)
(* the shims that are preloaded into it, and the reader of ELF files.  They *)
(* share no state, and a behaviour is one of one of them.                  *)
(***************************************************************************)
EXTENDS SessionScript, ExecShim, ElfInterpreter, AndroidRoot, SysvShim,
        MprotectShim, TLC

VARIABLE which

MCGuest == "/lib/ld-linux-aarch64.so.1"
MCFile(interp) == [interp |-> interp, runs |-> TRUE]

\* A loader; guest programs, one of them a shell; programs of the host.
MCFiles ==
  [p \in {"/host/ld.so"} |-> MCFile("none")]
  @@ [p \in {"/app/game", "/opt/sh", "/opt/tool"} |-> MCFile(MCGuest)]
  @@ [p \in {"/bin/sh", "/bin/tool", "/final/wine"} |-> MCFile("/system/linker")]

\* /app is a link to /data/app.
MCReal == [p \in DOMAIN MCFiles |->
             IF p = "/app/game" THEN "/data/app/game" ELSE p]

MCAbsolute == DOMAIN MCFiles \cup {"/data/app/game", "/final/"}
MCUnder == [p \in {"/final/"} |-> {"/final/wine"}]
MCCandidates == [n \in {"tool"} |-> <<"/none/tool", "/bin/tool", "/opt/tool">>]
MCArguments == {<<>>, <<MCGuest, "/app/game", "--argv0">>}

MCPolicy == <<Var("TGCOMPAT_LD_SO", "/host/ld.so"), Var("LD_PRELOAD", "shim")>>
MCPair(from, to) == <<Var("TGCOMPAT_EXEC_PATH_FROM", from),
                      Var("TGCOMPAT_EXEC_PATH_TO", to)>>

\* With the preload to use, a library path and a shell; with a pair of paths
\* and the directory of final programs alone; with all the settings for them.
MCFirstEnvs ==
  {MCPolicy \o <<Var("TGCOMPAT_EXEC_LD_PRELOAD", "shim"),
                 Var("TGCOMPAT_LIBRARY_PATH", "libs"),
                 Var("TGCOMPAT_EXEC_SHELL", "/opt/sh")>>,
   MCPolicy \o MCPair("/bin/tool", "/opt/tool")
     \o <<Var("TGCOMPAT_EXEC_FINAL_PATH_PREFIX", "/final/")>>,
   MCPolicy \o <<Var("TGCOMPAT_EXEC_FINAL_PATH_PREFIX", "/final/"),
                 Var("TGCOMPAT_EXEC_FINAL_LD_PRELOAD", "final"),
                 Var("TGCOMPAT_EXEC_FINAL_PROC_SELF_EXE", "/final/wine")>>}

\* Names are assigned anew.
MCEdit(add) == [drop |-> {add[i].name : i \in DOMAIN add}, add |-> add]
MCDrop(names) == [drop |-> names, add |-> <<>>]

\* The environment as it is; without what is preloaded; without the loader,
\* with another; the shim off; half of another pair, and another pair.
MCEdits ==
  {MCDrop({}), MCDrop({"TGCOMPAT_LD_SO"}),
   [drop |-> {"TGCOMPAT_EXEC_PATH_FROM", "TGCOMPAT_EXEC_PATH_TO"},
    add |-> <<Var("TGCOMPAT_EXEC_PATH_TO", "/app/game")>>],
   MCDrop({"LD_PRELOAD", "TGCOMPAT_EXEC_LD_PRELOAD", "TGCOMPAT_LIBRARY_PATH"}),
   MCEdit(<<Var("TGCOMPAT_LD_SO", "/")>>),
   MCEdit(<<Var("TGCOMPAT_EXEC_DISABLE", "1")>>),
   MCEdit(<<Var("TGCOMPAT_EXEC_MATCH_INTERPRETER", "/other")>>),
   MCEdit(MCPair("/opt/tool", "/app/game"))}

MCRequested == (DOMAIN MCFiles \ {"/opt/sh"}) \cup {"tool", MCGuest}

-----------------------------------------------------------------------------
\* Words are 4 bits wide, an entry has two bytes, the buffer four.
MCHeaders == [ok : {TRUE}, phoff : {0, 1, 4, 6, 7, 8, 15}, phnum : {0, 1, 2, 3, 4}]
               \cup [ok : {FALSE}, phoff : {1}, phnum : {1}]
MCSegments == [interp : {TRUE}, offset : {0, 3, 6, 7, 8, 14}, filesz : {1, 2, 4, 5},
               nul : BOOLEAN]
               \cup [interp : {FALSE}, offset : {0}, filesz : {0}, nul : {FALSE}]

MCSetting(absolute, length, slash) ==
  [absolute |-> absolute, length |-> length, slash |-> slash]
MCSettings == {MCSetting(TRUE, 3, FALSE), MCSetting(TRUE, 6, FALSE),
               MCSetting(TRUE, 1, TRUE), MCSetting(FALSE, 3, FALSE)}
MCPaths == [place : {"net"}, rest : {0, 2, 6, 7}]
             \cup [place : {"stat", "root", "other"}, rest : {0}]
MCFlags == {{}, {"O_WRONLY"}, {"O_CREAT"}, {"O_TRUNC"}, {"O_DIRECTORY"},
            {"O_DIRECTORY", "O_CLOEXEC", "O_NOFOLLOW"},
            {"O_DIRECTORY", "O_PATH"}, {"O_DIRECTORY", "O_TMPFILE"}}

\* Values below 3.  A list takes from one semaphore, or from both or neither;
\* waits for zero; gives; does not wait; takes twice; has nothing to do.
MCStep(num, op) == [sem_num |-> num, sem_op |-> op, nowait |-> FALSE]
MCShimLists ==
  {<<MCStep(0, -1)>>, <<MCStep(0, -1), MCStep(1, -1)>>, <<MCStep(0, 0)>>,
   <<MCStep(1, 1)>>, <<[MCStep(0, -1) EXCEPT !.nowait = TRUE]>>,
   <<MCStep(0, -1), MCStep(0, -1)>>, <<>>}

-----------------------------------------------------------------------------
MCInit ==
  /\ which \in {"script", "exec", "elf", "root", "sysv", "mprotect"}
  /\ Init /\ ExecInit /\ ElfInit /\ RootInit /\ ShimInit /\ MpInit
  /\ which # "exec" => proc.env = CHOOSE e \in MCFirstEnvs : TRUE
  /\ which # "elf" => elf.size = 0
  /\ which # "root" => /\ root.net = root.stat /\ ~root.retries
                       /\ root.net = CHOOSE s \in MCSettings : TRUE
  /\ which # "mprotect" => latest = Zero /\ range.prot = {"R"}

MCNext ==
  \/ /\ which = "script" /\ Next
     /\ UNCHANGED <<which, execvars, elf, root, shimvars, mpvars>>
  \/ /\ which = "exec" /\ ExecNext
     /\ UNCHANGED <<which, vars, elf, root, shimvars, mpvars>>
  \/ /\ which = "elf" /\ ElfNext
     /\ UNCHANGED <<which, vars, execvars, root, shimvars, mpvars>>
  \/ /\ which = "root" /\ RootNext
     /\ UNCHANGED <<which, vars, execvars, elf, shimvars, mpvars>>
  \/ /\ which = "sysv" /\ ShimNext
     /\ UNCHANGED <<which, vars, execvars, elf, root, mpvars>>
  \/ /\ which = "mprotect" /\ MpNext
     /\ UNCHANGED <<which, vars, execvars, elf, root, shimvars>>

MCSpec == MCInit /\ [][MCNext]_<<which, vars, execvars, elf, root, shimvars, mpvars>>
=============================================================================
