--------------------------- MODULE ElfInterpreter ---------------------------
(***************************************************************************)
(* src/exec_shim.c, read_elf_interpreter and read_exact_at: how the shim    *)
(* finds the interpreter of a file whose header may claim anything, and    *)
(* that another process may cut short while it is read.  Offsets and sizes *)
(* are unsigned words; IntMax is INT64_MAX.                                *)
(***************************************************************************)
EXTENDS Integers

CONSTANTS IntMax, Word,   \* the largest off_t, and one more than the largest word
          HeaderSize,     \* sizeof(Elf64_Ehdr)
          EntrySize,      \* sizeof(Elf64_Phdr)
          MaxEntries,     \* program headers that are accepted: 128
          Capacity,       \* of the buffer: PATH_MAX
          Headers,        \* what a header may claim: [ok, phoff, phnum]
          Segments,       \* what an entry may claim: [interp, offset, filesz, nul]
          Sizes           \* the sizes a file may have

Header == [ok : BOOLEAN, phoff : 0..(Word - 1), phnum : Nat]
Segment == [interp : BOOLEAN, offset : 0..(Word - 1), filesz : 0..(Word - 1),
            nul : BOOLEAN]

ASSUME ElfAssumptions ==
  /\ {IntMax, HeaderSize, MaxEntries, Capacity} \subseteq Nat
  /\ EntrySize \in Nat \ {0}
  /\ Word = 2 * IntMax + 2
  /\ HeaderSize <= IntMax /\ EntrySize <= IntMax /\ Capacity <= IntMax
  /\ Sizes \subseteq 0..IntMax
  /\ Headers \subseteq Header
  /\ Segments \subseteq Segment

Wrap(n) == IF n >= Word THEN n - Word ELSE n

\* May length bytes at an offset be asked of pread?
readable_at(length, offset) ==
  offset <= IntMax /\ length <= IntMax /\ offset <= IntMax - length

table_fits(phoff, phnum, size) ==
  /\ phnum # 0 /\ phnum <= MaxEntries /\ phoff <= IntMax
  /\ phnum <= (IntMax - phoff) \div EntrySize
  /\ Wrap(phoff + phnum * EntrySize) <= size

\* Mutant of interp_fits: the buffer is thought to hold one byte more.
interp_fits_one_more(offset, filesz, size) ==
  /\ filesz >= 2 /\ filesz <= Capacity + 1 /\ offset <= IntMax
  /\ Wrap(offset + filesz) <= size

interp_fits(offset, filesz, size) ==
  /\ filesz >= 2 /\ filesz <= Capacity /\ offset <= IntMax
  /\ Wrap(offset + filesz) <= size

-----------------------------------------------------------------------------
VARIABLES elf   \* [at, size, now, header, entry, index, start, length, got]

\* size: as fstat reported it; now: what is left of the file.
ElfInit == \E n \in Sizes :
  elf = [at |-> "open", size |-> n, now |-> n,
         header |-> [ok |-> FALSE, phoff |-> 0, phnum |-> 0],
         entry |-> [interp |-> FALSE, offset |-> 0, filesz |-> 0, nul |-> FALSE],
         index |-> 0, start |-> 0, length |-> 0, got |-> 0]

\* read_exact_at is called: it reads, or refuses.
Reads(e, at, length, offset) ==
  IF readable_at(length, offset)
  THEN [e EXCEPT !.at = at, !.start = offset, !.length = length, !.got = 0]
  ELSE [e EXCEPT !.at = "no"]

OpenElf == /\ elf.at = "open"
           /\ elf' = Reads(elf, "header", HeaderSize, 0)

OpenFails == elf.at = "open" /\ elf' = [elf EXCEPT !.at = "no"]

Reading == elf.at \in {"header", "entry", "interp"} /\ elf.got < elf.length
Left == elf.now - (elf.start + elf.got)

\* pread returns some of what is there.
PreadSome == /\ Reading /\ Left > 0
             /\ \E n \in 1..(elf.length - elf.got) :
                  n <= Left /\ elf' = [elf EXCEPT !.got = @ + n]

\* The file ends here, or pread fails.
PreadEnds == Reading /\ elf' = [elf EXCEPT !.at = "no"]

\* pread is interrupted and called again.
PreadAgain == Reading /\ UNCHANGED elf

Whole(at) == elf.at = at /\ elf.got = elf.length

\* The next entry of the table, or the end of the loop.
NextEntry(e) ==
  IF e.index < e.header.phnum
  THEN Reads(e, "entry", EntrySize, e.header.phoff + e.index * EntrySize)
  ELSE [e EXCEPT !.at = "no"]

ReadHeader ==
  /\ Whole("header")
  /\ \E h \in Headers :
       elf' = IF h.ok /\ table_fits(h.phoff, h.phnum, elf.size)
              THEN NextEntry([elf EXCEPT !.header = h])
              ELSE [elf EXCEPT !.at = "no"]

ReadEntry ==
  /\ Whole("entry")
  /\ \E p \in Segments :
       elf' = IF ~p.interp THEN NextEntry([elf EXCEPT !.index = @ + 1])
              ELSE IF interp_fits(p.offset, p.filesz, elf.size)
              THEN Reads([elf EXCEPT !.entry = p], "interp", p.filesz, p.offset)
              ELSE [elf EXCEPT !.at = "no"]

ReadInterpreter ==
  /\ Whole("interp")
  /\ elf' = [elf EXCEPT !.at = IF elf.entry.nul THEN "found" ELSE "no"]

\* Another process truncates the file.
Truncate == /\ elf.at \notin {"open", "found", "no"}
            /\ \E n \in Sizes : n < elf.now /\ elf' = [elf EXCEPT !.now = n]

ElfReader == \/ OpenElf \/ OpenFails \/ PreadSome \/ PreadEnds \/ PreadAgain
             \/ ReadHeader \/ ReadEntry \/ ReadInterpreter
ElfNext == ElfReader \/ Truncate
ElfSpec == ElfInit /\ [][ElfNext]_elf

-----------------------------------------------------------------------------
\* What is asked of pread lies inside the file that fstat saw and inside the
\* buffer it is read into, whatever the header and the entries claim.
ReadsInside ==
  elf.at \in {"entry", "interp"} =>
    /\ elf.start + elf.length <= elf.size
    /\ elf.at = "interp" => elf.length <= Capacity

=============================================================================
