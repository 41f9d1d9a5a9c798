------------------------------- MODULE RomImage -------------------------------
(***************************************************************************)
(* The ROM builder, utils/relocate.c with include/memory_layout.h: the     *)
(* operating system, the programs found in a directory and padding become  *)
(* one instruction memory.  The kernel starts program n at PROG_IM_BASE(n),  *)
(* so what the image has there decides which program runs.                 *)
(***************************************************************************)
EXTENDS Integers, Sequences, FiniteSets, Functions

CONSTANTS
  SO_INTERVAL, PROGRAM_INTERVAL, PROGRAM_INTERVAL_COMPLEX,   \* 2000, 300, 3192
  MAX_PROGS_SIMPLE,        \* 10
  Entries,                 \* directory entries: name, and order and tier by g_file_order
  Lengths,                 \* instructions a program may have
  SOLengths                \* instructions the operating system may have

MAX_PROGS_COMPLEX == 1
MAX_PROGS         == MAX_PROGS_SIMPLE + MAX_PROGS_COMPLEX
MAX_FILES         == MAX_PROGS
COMPLEX_PROG_ID   == MAX_PROGS_SIMPLE + 1
START_IM          == SO_INTERVAL   \* the header writes 2000 for both
START_IM_COMPLEX  == START_IM + PROGRAM_INTERVAL * MAX_PROGS_SIMPLE

PROG_IM_BASE(n) ==
  IF n <= MAX_PROGS_SIMPLE THEN START_IM + (n - 1) * PROGRAM_INTERVAL
  ELSE START_IM_COMPLEX + (n - COMPLEX_PROG_ID) * PROGRAM_INTERVAL_COMPLEX

TIER_SIMPLE  == 0
TIER_COMPLEX == 1
Unknown      == 2     \* no entry of g_file_order, or no regular file

ASSUME IntervalsAssumption ==
  /\ SO_INTERVAL \in Nat /\ PROGRAM_INTERVAL \in Nat /\ PROGRAM_INTERVAL_COMPLEX \in Nat
  /\ MAX_PROGS_SIMPLE \in Nat

ASSUME EntriesAssumption ==
  /\ Entries \subseteq
       [name : Nat \ {0}, order : Nat, tier : {TIER_SIMPLE, TIER_COMPLEX, Unknown}]
  /\ \A e, f \in Entries : e.name = f.name => e = f
  /\ Lengths \subseteq Nat /\ SOLengths \subseteq Nat

VARIABLES
  phase,                 \* scan, so, simple, complex; done or failed
  dir,                   \* entries readdir has still to return
  length, so_length,     \* instructions in each file
  files,                 \* the entries found
  idx, slots_filled,     \* progress in the loop over files
  rom                    \* the file written

Found == {e \in Entries : e.name \in DOMAIN length}

romvars == <<phase, dir, length, so_length, files, idx, slots_filled, rom>>
inputs  == <<length, so_length>>

\* An instruction: the file it comes from and its line there.  SO stands for
\* the binary of the operating system; files have names above it.
SO  == 0
NOP == [of |-> SO, line |-> 0]
Nops(n) == [k \in 1..n |-> NOP]
Text(owner, n) == [k \in 1..n |-> [of |-> owner, line |-> k]]

\* Variant: entries are ordered by name.
compare_entries_ByName(a, b) == a.name < b.name

compare_entries(a, b) ==
  \/ a.tier < b.tier
  \/ a.tier = b.tier /\ a.order < b.order
  \/ a.tier = b.tier /\ a.order = b.order /\ a.name < b.name

-----------------------------------------------------------------------------
InitRom ==
  /\ phase = "scan"
  /\ dir \in SUBSET Entries
  /\ length \in [{e.name : e \in {f \in dir : f.tier # Unknown}} -> Lengths]
  /\ so_length \in SOLengths
  /\ files = <<>> /\ idx = 1 /\ slots_filled = 0 /\ rom = <<>>

SkipEntry(e) ==
  /\ phase = "scan"
  /\ e.tier = Unknown
  /\ dir' = dir \ {e}
  /\ UNCHANGED <<phase, inputs, files, idx, slots_filled, rom>>

\* Variant: the size of the array is not tested.
AddEntry_Unlimited(e) ==
  /\ phase = "scan"
  /\ e.tier # Unknown
  /\ dir' = dir \ {e}
  /\ files' = Append(files, e)
  /\ UNCHANGED <<phase, inputs, idx, slots_filled, rom>>

AddEntry(e) ==
  /\ phase = "scan"
  /\ e.tier # Unknown
  /\ Len(files) < MAX_FILES
  /\ dir' = dir \ {e}
  /\ files' = Append(files, e)
  /\ UNCHANGED <<phase, inputs, idx, slots_filled, rom>>

TooManyEntries(e) ==
  /\ phase = "scan"
  /\ e.tier # Unknown
  /\ Len(files) >= MAX_FILES
  /\ phase' = "failed"
  /\ UNCHANGED <<dir, inputs, files, idx, slots_filled, rom>>

\* qsort: any order of the entries in which none comes before the one ahead of it.
SortEntries ==
  /\ phase = "scan"
  /\ dir = {}
  /\ \E place \in Bijection(DOMAIN files, DOMAIN files) :
       files' = [k \in 1..Len(files) |-> files[place[k]]]
  /\ \A j, k \in DOMAIN files : j < k => ~ compare_entries(files'[k], files'[j])
  /\ phase' = "so"
  /\ UNCHANGED <<dir, inputs, idx, slots_filled, rom>>

\* The operating system, padded with no-ops.
WriteSO ==
  /\ phase = "so"
  /\ rom' = Text(SO, so_length) \o Nops(SO_INTERVAL - so_length)
  /\ phase' = "simple"
  /\ UNCHANGED <<dir, inputs, files, idx, slots_filled>>

\* A file that cannot be opened ends the builder; what is written stays.
OpenFails ==
  /\ \/ phase = "so"
     \/ /\ phase \in {"simple", "complex"}
        /\ idx <= Len(files)
        /\ files[idx].tier = (IF phase = "simple" THEN TIER_SIMPLE ELSE TIER_COMPLEX)
        /\ phase = "complex" => slots_filled < MAX_PROGS_COMPLEX
  /\ phase' = "failed"
  /\ UNCHANGED <<dir, inputs, files, idx, slots_filled, rom>>

OtherTier ==
  /\ phase \in {"simple", "complex"}
  /\ idx <= Len(files)
  /\ files[idx].tier # (IF phase = "simple" THEN TIER_SIMPLE ELSE TIER_COMPLEX)
  /\ idx' = idx + 1
  /\ UNCHANGED <<phase, dir, inputs, files, slots_filled, rom>>

\* Variant: the length of the program is not compared.
WriteProgram_AnyLength(interval) ==
  LET written == length[files[idx].name]
  IN  /\ rom' = rom \o Text(files[idx].name, written) \o Nops(interval - written)
      /\ slots_filled' = slots_filled + 1
      /\ idx' = idx + 1
      /\ UNCHANGED <<phase, dir, inputs, files>>

\* One slot: the program, padded with no-ops.
WriteProgram(interval) ==
  LET written == length[files[idx].name]
  IN  /\ written <= interval
      /\ rom' = rom \o Text(files[idx].name, written) \o Nops(interval - written)
      /\ slots_filled' = slots_filled + 1
      /\ idx' = idx + 1
      /\ UNCHANGED <<phase, dir, inputs, files>>

\* The length is compared after the program is written.
ProgramTooLong(interval) ==
  /\ length[files[idx].name] > interval
  /\ rom' = rom \o Text(files[idx].name, length[files[idx].name])
  /\ phase' = "failed"
  /\ UNCHANGED <<dir, inputs, files, idx, slots_filled>>

WriteSimple ==
  /\ phase = "simple"
  /\ idx <= Len(files)
  /\ files[idx].tier = TIER_SIMPLE
  /\ WriteProgram(PROGRAM_INTERVAL) \/ ProgramTooLong(PROGRAM_INTERVAL)

\* Variant: empty slots are left out of the image.
FillSimple_None ==
  /\ phase = "simple"
  /\ idx > Len(files)
  /\ phase' = "complex"
  /\ idx' = 1 /\ slots_filled' = 0
  /\ UNCHANGED <<dir, inputs, files, rom>>

FillSimple ==
  /\ phase = "simple"
  /\ idx > Len(files)
  /\ rom' = rom \o Nops((MAX_PROGS_SIMPLE - slots_filled) * PROGRAM_INTERVAL)
  /\ phase' = "complex"
  /\ idx' = 1 /\ slots_filled' = 0
  /\ UNCHANGED <<dir, inputs, files>>

WriteComplex ==
  /\ phase = "complex"
  /\ idx <= Len(files)
  /\ files[idx].tier = TIER_COMPLEX
  /\ slots_filled < MAX_PROGS_COMPLEX
  /\ WriteProgram(PROGRAM_INTERVAL_COMPLEX) \/ ProgramTooLong(PROGRAM_INTERVAL_COMPLEX)

\* More complex programs than slots: the rest is dropped.
DropComplex ==
  /\ phase = "complex"
  /\ idx <= Len(files)
  /\ files[idx].tier = TIER_COMPLEX
  /\ slots_filled >= MAX_PROGS_COMPLEX
  /\ idx' = Len(files) + 1
  /\ UNCHANGED <<phase, dir, inputs, files, slots_filled, rom>>

FillComplex ==
  /\ phase = "complex"
  /\ idx > Len(files)
  /\ rom' = rom \o Nops((MAX_PROGS_COMPLEX - slots_filled) * PROGRAM_INTERVAL_COMPLEX)
  /\ phase' = "done"
  /\ UNCHANGED <<dir, inputs, files, idx, slots_filled>>

NextRom ==
  \/ \E e \in dir : SkipEntry(e)
  \/ \E e \in dir : AddEntry(e)
  \/ \E e \in dir : TooManyEntries(e)
  \/ SortEntries
  \/ WriteSO
  \/ OpenFails
  \/ OtherTier
  \/ WriteSimple
  \/ FillSimple
  \/ WriteComplex
  \/ DropComplex
  \/ FillComplex

RomSpec == InitRom /\ [][NextRom]_romvars

-----------------------------------------------------------------------------
(* Properties *)

\* Type correctness; in particular the array of found files never overflows
\* and the counters of the two loops stay within it (relocate.c:183-235).
RomTypeOK ==
  /\ phase \in {"scan", "so", "simple", "complex", "done", "failed"}
  /\ dir \subseteq Entries
  /\ length \in [{e.name : e \in Found} -> Lengths]
  /\ so_length \in SOLengths
  /\ files \in Seq(Entries) /\ Len(files) <= MAX_FILES
  /\ idx \in 1..Len(files) + 1
  /\ slots_filled \in 0..Len(files)
  /\ rom \in Seq([of : {SO} \cup {e.name : e \in Entries}, line : Nat])

ListedBefore(f, e) ==
  f.order < e.order \/ (f.order = e.order /\ f.name < e.name)

Simple == {e \in Found : e.tier = TIER_SIMPLE}
Fits   == so_length <= SO_INTERVAL /\ Cardinality(Simple) <= MAX_PROGS_SIMPLE

Interval(n) == IF n <= MAX_PROGS_SIMPLE THEN PROGRAM_INTERVAL ELSE PROGRAM_INTERVAL_COMPLEX

\* Words base+1 .. base+n hold one program from its first line, then no-ops.
Holds(e, base, n) ==
  \A k \in 1..n : rom[base + k] = IF k <= length[e.name]
                                  THEN [of |-> e.name, line |-> k] ELSE NOP

Empty(base, n) == \A k \in 1..n : rom[base + k] = NOP

\* The image of a builder that succeeds covers the whole instruction memory,
\* and whichever simple programs are missing the complex program starts at
\* the address the kernel jumps to (relocate.c:310-316, memory_layout.h:48-52).
FixedOffsets ==
  phase = "done" /\ Fits =>
    /\ Len(rom) = START_IM_COMPLEX + PROGRAM_INTERVAL_COMPLEX
    /\ LET complex == Found \ Simple
       IN  IF complex = {} THEN Empty(START_IM_COMPLEX, PROGRAM_INTERVAL_COMPLEX)
           ELSE \E e \in complex : Holds(e, START_IM_COMPLEX, PROGRAM_INTERVAL_COMPLEX)

\* Each slot starts with the first instruction of one program and holds nothing
\* of another one: a program never runs into its neighbour (relocate.c:298-308).
OneProgramPerSlot ==
  phase = "done" /\ Fits =>
    \A n \in 1..MAX_PROGS :
      \/ Empty(PROG_IM_BASE(n), Interval(n))
      \/ \E e \in Found : Holds(e, PROG_IM_BASE(n), Interval(n))

\* The slot of a simple program is its rank among the ones found, in the order
\* of g_file_order, whatever order readdir lists them in (relocate.c:92-102, 237).
SlotsInOrder ==
  phase = "done" /\ Fits =>
    \A e \in Simple :
      LET before == {f \in Simple : ListedBefore(f, e)}
      IN  Holds(e, PROG_IM_BASE(Cardinality(before) + 1), PROGRAM_INTERVAL)

=============================================================================
