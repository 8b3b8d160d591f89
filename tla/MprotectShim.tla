---------------------------- MODULE MprotectShim ----------------------------
(***************************************************************************)
(* mprotect_shim.c: when the kernel refuses to make a mapping executable,  *)
(* the range is replaced by an anonymous copy of itself.  One action is    *)
(* one system call or one loop over the bytes; each call may fail, and     *)
(* other threads of the process write to the range whenever it is writable.*)
(*                                                                         *)
(* The range is one value.  A range of length 0, which the copy refuses    *)
(* with EINVAL, behaves like one whose first system call fails.            *)
(***************************************************************************)
EXTENDS Integers

CONSTANTS Bytes,     \* what a range may hold
          Zero       \* what a new anonymous mapping holds

ASSUME BytesAssumption == Zero \in Bytes

VARIABLES call,      \* the call: [at, want], want the protection asked for
          range,     \* [byte, prot]
          scratch,   \* what the scratch mapping holds, or {} without one
          latest,    \* what the program wrote to the range last
          gone       \* why latest may be gone: "raced", "dropped", or "no"

mpvars == <<call, range, scratch, latest, gone>>

Protections == SUBSET {"R", "W", "X"}
Nowhere == [at |-> "idle", want |-> {}]

MpInit ==
  /\ call = Nowhere
  /\ latest \in Bytes
  /\ range \in [byte : {latest}, prot : {{"R"}, {"R", "W"}}]
  /\ scratch = {} /\ gone = "no"

Mp_goes(from, to) == call.at = from /\ call' = [call EXCEPT !.at = to]

Protected(prot) == range' = [range EXCEPT !.prot = prot]

\* Every way to fail from one step on.
Mp_gives_up(from) ==
  /\ Mp_goes(from, "returned")
  /\ scratch' = {}
  /\ UNCHANGED <<range, latest, gone>>

\* The kernel grants the request, or refuses it; a refusal with EACCES of
\* PROT_EXEC starts the copy, any other one ends the call.  Nothing is granted
\* for a range that is no longer mapped.
mprotect ==
  /\ call.at = "idle" /\ gone # "dropped"
  /\ UNCHANGED <<scratch, latest, gone>>
  /\ \E want \in Protections :
       \/ Protected(want) /\ call' = [at |-> "returned", want |-> want]
       \/ UNCHANGED range /\ call' = [at |-> "returned", want |-> want]
       \/ /\ "X" \in want
          /\ UNCHANGED range /\ call' = [at |-> "readable", want |-> want]

make_readable ==
  \/ /\ Mp_goes("readable", "scratch")
     /\ Protected({"R"} \cup (call.want \cap {"W"}))
     /\ UNCHANGED <<scratch, latest, gone>>
  \/ Mp_gives_up("readable")

map_scratch ==
  \/ /\ Mp_goes("scratch", "copy")
     /\ scratch' = {Zero}
     /\ UNCHANGED <<range, latest, gone>>
  \/ Mp_gives_up("scratch")

copy_out ==
  /\ Mp_goes("copy", "replace")
  /\ scratch' = {range.byte}
  /\ UNCHANGED <<range, latest, gone>>

\* Mutant of map_replacement: with the protection that is wanted.
map_replacement_wanted ==
  \/ /\ Mp_goes("replace", "back")
     /\ range' = [byte |-> Zero, prot |-> call.want \cup {"W"}]
     /\ UNCHANGED <<scratch, latest, gone>>
  \/ Mp_gives_up("replace")

\* A kernel that cannot map over the range may have unmapped it by then.
map_replacement ==
  \/ /\ Mp_goes("replace", "back")
     /\ range' = [byte |-> Zero, prot |-> {"R", "W"}]
     /\ UNCHANGED <<scratch, latest, gone>>
  \/ Mp_gives_up("replace")
  \/ /\ Mp_goes("replace", "returned")
     /\ range' = [byte |-> Zero, prot |-> {}]
     /\ scratch' = {} /\ gone' = "dropped"
     /\ UNCHANGED latest

copy_back ==
  /\ Mp_goes("back", "protect")
  /\ range' = [range EXCEPT !.byte = CHOOSE b \in Bytes : scratch = {b}]
  /\ UNCHANGED <<scratch, latest, gone>>

protect ==
  \/ /\ Mp_goes("protect", "returned")
     /\ Protected(call.want)
     /\ scratch' = {}
     /\ UNCHANGED <<latest, gone>>
  \/ Mp_gives_up("protect")

\* The caller goes on, and may call again.
Mp_returns ==
  /\ call.at = "returned" /\ call' = Nowhere
  /\ UNCHANGED <<range, scratch, latest, gone>>

\* Another thread stores to the range.  What it stores after the bytes were
\* copied out is overwritten when they are copied back.
Mp_store ==
  /\ "W" \in range.prot
  /\ latest' \in Bytes
  /\ range' = [range EXCEPT !.byte = latest']
  /\ gone' = IF call.at \in {"replace", "back"} THEN "raced" ELSE gone
  /\ UNCHANGED <<call, scratch>>

MpNext ==
  \/ mprotect \/ make_readable \/ map_scratch \/ copy_out
  \/ map_replacement \/ copy_back \/ protect
  \/ Mp_returns \/ Mp_store

MpSpec == MpInit /\ [][MpNext]_mpvars

-----------------------------------------------------------------------------
(* Properties.                                                             *)

\* The bytes are never lost and never run half copied.  While the range is
\* executable it holds what the program wrote last: the blank replacement
\* cannot be executed before the bytes are back, by any thread.  However
\* mprotect ends, at whichever step it fails, the range holds them too, and the
\* scratch mapping is released.  Except where a store of another thread fell
\* between the two copies or the kernel dropped the range.
MemoryStaysWhole ==
  /\ "X" \in range.prot => range.byte = latest \/ gone = "raced"
  /\ call.at \in {"idle", "returned"} =>
       scratch = {} /\ (range.byte = latest \/ gone # "no")
=============================================================================
