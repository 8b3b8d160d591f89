----------------------------- MODULE AndroidRoot -----------------------------
(***************************************************************************)
(* src/android_root_shim.c: a process opens, lists and examines files; the *)
(* shim replaces what Android hides under /proc by other files, and tries  *)
(* again where Android only allows a path descriptor.  A path is its place *)
(* under /proc and the length of what follows; flags are a set of names.   *)
(* Lengths are counted in words of size_t.                                 *)
(***************************************************************************)
EXTENDS Integers

CONSTANTS PathMax,    \* size of the buffer a path is rewritten in
          SizeMax,    \* SIZE_MAX
          Settings,   \* values of TGCOMPAT_PROC_NET and TGCOMPAT_PROC_STAT
          Paths,      \* what is asked for: [place, rest]
          Flags       \* sets of flags of open and openat

ASSUME RootAssumptions ==
  /\ SizeMax \in Nat /\ PathMax \in 1 .. SizeMax
  /\ Settings \subseteq [absolute : BOOLEAN, length : Nat, slash : BOOLEAN]
  /\ Paths \subseteq [place : {"net", "stat", "root", "other"}, rest : Nat]

VARIABLE root   \* [net, stat, retries, at, call, mapped, flags, tries]

\* A setting counts if it is absolute, not "/" and does not end in a slash.
Unusable(s) == ~s.absolute \/ s.length < 2 \/ s.slash

Own(path) == [ok |-> TRUE, file |-> path.place, length |-> path.rest]
To(file, length) == [ok |-> TRUE, file |-> file, length |-> length]
TooLong == [ok |-> FALSE, file |-> "none", length |-> 0]

Minus(a, b) == IF a >= b THEN a - b ELSE a - b + SizeMax + 1

\* Mutant of rewrite_proc_net: only the difference is compared.
rewrite_proc_net_wrapping(path, s) ==
  IF path.place # "net" \/ Unusable(s) THEN Own(path)
  ELSE IF s.length > Minus(Minus(PathMax, path.rest), 1) THEN TooLong
  ELSE To("shadow net", s.length + path.rest)

rewrite_proc_net(path, s) ==
  IF path.place # "net" \/ Unusable(s) THEN Own(path)
  ELSE IF \/ path.rest >= PathMax
          \/ s.length > Minus(Minus(PathMax, path.rest), 1) THEN TooLong
  ELSE To("shadow net", s.length + path.rest)

rewrite_proc_stat(path, s) ==
  IF path.place # "stat" \/ Unusable(s) THEN Own(path)
  ELSE IF s.length >= PathMax THEN TooLong
  ELSE To("shadow stat", s.length)

rewrite_proc(path) ==
  IF path.place = "stat" THEN rewrite_proc_stat(path, root.stat)
  ELSE rewrite_proc_net(path, root.net)

-----------------------------------------------------------------------------
flags_have_mode(flags) ==
  "O_CREAT" \in flags \/ {"O_TMPFILE", "O_DIRECTORY"} \subseteq flags
ReadOnly(flags) == flags \cap {"O_WRONLY", "O_RDWR"} = {}
read_only_open(flags) == ReadOnly(flags) /\ ~flags_have_mode(flags)

\* Mutant of mapped: fopen goes to the file that was named.
mapped_open_only(call) ==
  CASE call.by \in {"open", "openat"} ->
         IF read_only_open(call.flags) THEN rewrite_proc(call.path)
         ELSE Own(call.path)
    [] call.by \in {"opendir", "stat"} -> rewrite_proc(call.path)
    [] OTHER -> Own(call.path)

\* mapped_open_path, and what fopen, opendir, access, stat and lstat do.
mapped(call) ==
  CASE call.by \in {"open", "openat"} ->
         IF read_only_open(call.flags) THEN rewrite_proc(call.path)
         ELSE Own(call.path)
    [] call.by = "fopen" ->
         IF call.mode = "r" THEN rewrite_proc(call.path) ELSE Own(call.path)
    [] call.by = "access" ->
         IF call.mode # "W_OK" THEN rewrite_proc(call.path) ELSE Own(call.path)
    [] call.by \in {"opendir", "stat"} -> rewrite_proc(call.path)

retry_flags(flags) ==
  {"O_PATH"} \cup (flags \cap {"O_CLOEXEC", "O_DIRECTORY", "O_NOFOLLOW"})

may_retry(file, flags, error) ==
  /\ root.retries /\ error \in {"EACCES", "EPERM"} /\ file = "root"
  /\ "O_DIRECTORY" \in flags /\ "O_PATH" \notin flags /\ ReadOnly(flags)

-----------------------------------------------------------------------------
NoCall == [by |-> "none", path |-> [place |-> "none", rest |-> 0],
           flags |-> {}, mode |-> "none"]

RootInit == \E n, s \in Settings, r \in BOOLEAN :
  root = [net |-> n, stat |-> s, retries |-> r, at |-> "idle", call |-> NoCall,
          mapped |-> TooLong, flags |-> {}, tries |-> 0]

\* A call is made of the function below, or fails with ENAMETOOLONG.
Call(call) ==
  /\ root.at = "idle"
  /\ root' = [root EXCEPT !.at = IF mapped(call).ok THEN "kernel" ELSE "failed",
                          !.call = call, !.mapped = mapped(call),
                          !.flags = call.flags, !.tries = 0]

Calls == [by : {"open", "openat"}, path : Paths, flags : Flags, mode : {"none"}]
  \cup [by : {"fopen"}, path : Paths, flags : {{}}, mode : {"r", "r+", "w"}]
  \cup [by : {"access"}, path : Paths, flags : {{}}, mode : {"R_OK", "W_OK"}]
  \cup [by : {"opendir", "stat"}, path : Paths, flags : {{}}, mode : {"none"}]

Succeeds == root.at = "kernel" /\ root' = [root EXCEPT !.at = "done"]

\* openat, __openat_2 and their 64-bit forms try again; the others do not.
Fails(error) ==
  /\ root.at = "kernel"
  /\ root' = IF /\ root.call.by = "openat" /\ root.tries = 0
                /\ may_retry(root.mapped.file, root.flags, error)
             THEN [root EXCEPT !.flags = retry_flags(@), !.tries = 1]
             ELSE [root EXCEPT !.at = "failed"]

\* The caller goes on to its next call.
Returns == /\ root.at \in {"done", "failed"}
           /\ root' = [root EXCEPT !.at = "idle"]

RootNext == \/ \E call \in Calls : Call(call)
            \/ Succeeds \/ Returns
            \/ \E error \in {"EACCES", "EPERM", "ENOENT"} : Fails(error)

RootSpec == RootInit /\ [][RootNext]_root

-----------------------------------------------------------------------------
\* A rewritten path and its end fit the buffer of PATH_MAX bytes on the stack,
\* also when the path alone is longer than the buffer.
RewrittenPathFits ==
  root.mapped.file \in {"shadow net", "shadow stat"} =>
    root.mapped.length + 1 <= PathMax

\* A call that changes what it names, creates it, or is about doing so.
Changes(call) ==
  \/ call.flags \cap {"O_WRONLY", "O_RDWR", "O_CREAT", "O_TRUNC"} # {}
  \/ {"O_TMPFILE", "O_DIRECTORY"} \subseteq call.flags
  \/ call.mode \in {"r+", "w", "W_OK"}

\* Two calls that only look at one path, one after the other, reach one file,
\* whichever functions they are and whatever came of the first: what stat and
\* access say of it is true of what open, fopen and opendir give.
OneViewOfProc ==
  [][LET a == root.call
         b == root'.call
     IN  a # b /\ a.path = b.path /\ ~Changes(a) /\ ~Changes(b) =>
           root'.mapped = root.mapped]_root

\* The second attempt never leaves the process with more than it asked for: a
\* path descriptor, of the same directory, closed on exec if the first would be.
RetryAsksForLess ==
  root.tries > 0 =>
    /\ "O_PATH" \in root.flags /\ "O_DIRECTORY" \in root.flags
    /\ root.flags \ {"O_PATH"} \subseteq root.call.flags
    /\ \A f \in {"O_CLOEXEC", "O_NOFOLLOW"} :
         f \in root.flags <=> f \in root.call.flags
=============================================================================
