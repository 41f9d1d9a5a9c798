------------------------------- MODULE RomProofs -------------------------------
(***************************************************************************)
(* Proofs about RomImage, for any files found in the directory, of any     *)
(* length, and for any size of the slots: no file overruns the array of    *)
(* entries, and an image that is completed has each program where the      *)
(* kernel starts it.                                                       *)
(***************************************************************************)
EXTENDS RomImage, FiniteSetTheorems, TLAPS

-----------------------------------------------------------------------------
(* Slots. *)

\* The start of the n-th slot for simple programs.
Base(n) == START_IM + (n - 1) * PROGRAM_INTERVAL

LEMMA Intervals ==
  /\ SO_INTERVAL \in Nat /\ PROGRAM_INTERVAL \in Nat /\ PROGRAM_INTERVAL_COMPLEX \in Nat
  /\ MAX_PROGS_SIMPLE \in Nat /\ START_IM_COMPLEX \in Nat /\ START_IM \in Nat
<1>1. PROGRAM_INTERVAL * MAX_PROGS_SIMPLE \in Nat
  BY IntervalsAssumption
<1> QED BY <1>1, IntervalsAssumption DEF START_IM, START_IM_COMPLEX

LEMMA NextBase ==
  ASSUME NEW n \in Nat
  PROVE  Base(n + 1) = Base(n) + PROGRAM_INTERVAL
<1>1. (n + 1) - 1 = (n - 1) + 1 /\ n - 1 \in Int
  OBVIOUS
<1> DEFINE k == n - 1  p == PROGRAM_INTERVAL
<1>2. (k + 1) * p = k * p + p /\ k * p \in Int
  <2>1. k \in Int /\ p \in Int
    BY Intervals
  <2> HIDE DEF k, p
  <2> QED BY <2>1
<1> QED BY <1>1, <1>2, Intervals DEF Base

LEMMA BaseType ==
  ASSUME NEW n \in Nat \ {0}
  PROVE  Base(n) \in Nat /\ SO_INTERVAL <= Base(n)
<1> DEFINE k == n - 1  p == PROGRAM_INTERVAL
<1>1. k * p \in Nat
  <2>1. k \in Nat /\ p \in Nat
    BY Intervals
  <2> HIDE DEF k, p
  <2> QED BY <2>1
<1> QED BY <1>1, Intervals DEF Base, START_IM

LEMMA BasesOrdered ==
  ASSUME NEW m \in Nat \ {0}, NEW n \in Nat, m <= n
  PROVE  Base(m) <= Base(n)
<1> DEFINE j == m - 1  k == n - 1  p == PROGRAM_INTERVAL
<1>1. j * p <= k * p /\ j * p \in Nat /\ k * p \in Nat
  <2>1. j \in Nat /\ k \in Nat /\ j <= k /\ p \in Nat
    BY Intervals
  <2> DEFINE d == k - j
  <2>2. d \in Nat /\ k = j + d
    BY <2>1
  <2> HIDE DEF j, k, p, d
  <2>3. k * p = j * p + d * p /\ j * p \in Nat /\ d * p \in Nat
    BY <2>1, <2>2
  <2> QED BY <2>3
<1> QED BY <1>1, Intervals DEF Base

\* The slots of simple programs end where the complex one starts.
LEMMA LastBase == Base(MAX_PROGS_SIMPLE + 1) = START_IM_COMPLEX
<1> DEFINE m == MAX_PROGS_SIMPLE  p == PROGRAM_INTERVAL
<1>1. (m + 1) - 1 = m /\ m * p = p * m
  BY Intervals
<1> QED BY <1>1 DEF Base, START_IM_COMPLEX

LEMMA FillsTo ==
  ASSUME NEW m \in 0..MAX_PROGS_SIMPLE
  PROVE  /\ (MAX_PROGS_SIMPLE - m) * PROGRAM_INTERVAL \in Nat
         /\ Base(m + 1) + (MAX_PROGS_SIMPLE - m) * PROGRAM_INTERVAL = START_IM_COMPLEX
<1> DEFINE d == MAX_PROGS_SIMPLE - m  p == PROGRAM_INTERVAL
<1>1. d \in Nat /\ m \in Nat /\ p \in Nat /\ MAX_PROGS_SIMPLE = d + m
  BY Intervals
<1>2. /\ d * p \in Nat /\ m * p \in Nat /\ p * (d + m) = d * p + m * p
  <2> HIDE DEF d, p
  <2> QED BY <1>1
<1>3. (m + 1) - 1 = m
  BY <1>1
<1>4. p * MAX_PROGS_SIMPLE = p * (d + m)
  BY <1>1
<1>5. Base(m + 1) = START_IM + m * p
  BY <1>3 DEF Base
<1>6. START_IM_COMPLEX = START_IM + p * MAX_PROGS_SIMPLE
  BY DEF START_IM_COMPLEX
<1> DEFINE dp == d * p  mp == m * p
<1>7. START_IM_COMPLEX = START_IM + (dp + mp) /\ dp \in Nat /\ mp \in Nat /\ Base(m + 1) = START_IM + mp
  BY <1>2, <1>4, <1>5, <1>6
<1>8. Base(m + 1) + dp = START_IM_COMPLEX
  <2> HIDE DEF dp, mp
  <2> QED BY <1>7, Intervals
<1> QED BY <1>2, <1>8

LEMMA SlotsBehindSO ==
  ASSUME NEW n \in 1..MAX_PROGS
  PROVE  /\ n <= MAX_PROGS_SIMPLE => PROG_IM_BASE(n) = Base(n) /\ Interval(n) = PROGRAM_INTERVAL
         /\ n > MAX_PROGS_SIMPLE => /\ PROG_IM_BASE(n) = START_IM_COMPLEX
                                    /\ Interval(n) = PROGRAM_INTERVAL_COMPLEX
<1>1. CASE n <= MAX_PROGS_SIMPLE
  BY <1>1, Intervals DEF PROG_IM_BASE, Base, Interval
<1>2. CASE n > MAX_PROGS_SIMPLE
  <2>1. n = MAX_PROGS_SIMPLE + 1 /\ n - COMPLEX_PROG_ID = 0
    BY <1>2, Intervals DEF MAX_PROGS, MAX_PROGS_COMPLEX, COMPLEX_PROG_ID
  <2>2. 0 * PROGRAM_INTERVAL_COMPLEX = 0
    BY Intervals
  <2> QED BY <1>2, <2>1, <2>2, Intervals DEF PROG_IM_BASE, Interval
<1> QED BY <1>1, <1>2, Intervals

-----------------------------------------------------------------------------
(* What is written to the image. *)

Word == [of : {SO} \cup {e.name : e \in Entries}, line : Nat]

LEMMA NopsWords ==
  ASSUME NEW n \in Nat
  PROVE  Nops(n) \in Seq(Word) /\ Len(Nops(n)) = n /\ \A k \in 1..n : Nops(n)[k] = NOP
<1>1. NOP \in Word
  BY DEF NOP, Word
<1> HIDE DEF NOP, Word
<1> QED BY <1>1 DEF Nops

LEMMA TextWords ==
  ASSUME NEW owner \in {SO} \cup {e.name : e \in Entries}, NEW n \in Nat
  PROVE  /\ Text(owner, n) \in Seq(Word) /\ Len(Text(owner, n)) = n
         /\ \A k \in 1..n : Text(owner, n)[k] = [of |-> owner, line |-> k]
<1>1. \A k \in 1..n : [of |-> owner, line |-> k] \in Word
  BY DEF Word
<1> HIDE DEF Word
<1> QED BY <1>1 DEF Text

LEMMA Concatenated ==
  ASSUME NEW S, NEW s \in Seq(S), NEW t \in Seq(S)
  PROVE  /\ s \o t \in Seq(S) /\ Len(s \o t) = Len(s) + Len(t)
         /\ \A k \in 1..Len(s) : (s \o t)[k] = s[k]
         /\ \A k \in 1..Len(t) : (s \o t)[Len(s) + k] = t[k]
OBVIOUS

\* What is written stays.
LEMMA SlotKept ==
  ASSUME NEW t \in Seq(Word), rom \in Seq(Word), rom' = rom \o t, length' = length,
         NEW e, NEW base \in Nat, NEW n \in Nat, base + n <= Len(rom), Holds(e, base, n)
  PROVE  Holds(e, base, n)'
<1>1. ASSUME NEW k \in 1..n PROVE rom'[base + k] = rom[base + k]
  <2>1. base + k \in 1..Len(rom)
    OBVIOUS
  <2> QED BY <2>1, Concatenated
<1> QED BY <1>1 DEF Holds

LEMMA EmptyKept ==
  ASSUME NEW t \in Seq(Word), rom \in Seq(Word), rom' = rom \o t,
         NEW base \in Nat, NEW n \in Nat, base + n <= Len(rom), Empty(base, n)
  PROVE  Empty(base, n)'
<1>1. ASSUME NEW k \in 1..n PROVE rom'[base + k] = rom[base + k]
  <2>1. base + k \in 1..Len(rom)
    OBVIOUS
  <2> QED BY <2>1, Concatenated
<1> QED BY <1>1 DEF Empty

LEMMA BothConcatenated ==
  ASSUME NEW S, NEW r \in Seq(S), NEW s \in Seq(S), NEW t \in Seq(S)
  PROVE  /\ r \o s \o t = r \o (s \o t) /\ s \o t \in Seq(S)
         /\ r \o s \o t \in Seq(S) /\ Len(r \o s \o t) = Len(r) + Len(s) + Len(t)
         /\ \A k \in 1..Len(s) : (r \o s \o t)[Len(r) + k] = s[k]
         /\ \A k \in 1..Len(t) : (r \o s \o t)[Len(r) + Len(s) + k] = t[k]
<1>1. r \o s \o t = r \o (s \o t) /\ s \o t \in Seq(S)
  OBVIOUS
<1> DEFINE rs == r \o s
<1>2. /\ rs \in Seq(S) /\ Len(rs) = Len(r) + Len(s)
      /\ \A k \in 1..Len(s) : rs[Len(r) + k] = s[k] /\ Len(r) + k \in 1..Len(rs)
  BY Concatenated
<1>4. rs \in Seq(S)
  BY <1>2
<1> HIDE DEF rs
<1>3. /\ rs \o t \in Seq(S) /\ Len(rs \o t) = Len(rs) + Len(t)
      /\ \A k \in 1..Len(rs) : (rs \o t)[k] = rs[k]
      /\ \A k \in 1..Len(t) : (rs \o t)[Len(rs) + k] = t[k]
  BY <1>4, Concatenated
<1> QED BY <1>1, <1>2, <1>3 DEF rs

LEMMA SlotWritten ==
  ASSUME rom \in Seq(Word), length' = length, NEW e \in Entries, NEW n \in Nat,
         length[e.name] \in 0..n,
         rom' = rom \o Text(e.name, length[e.name]) \o Nops(n - length[e.name])
  PROVE  /\ \E t \in Seq(Word) : rom' = rom \o t
         /\ rom' \in Seq(Word) /\ Len(rom') = Len(rom) + n
         /\ \A base : base = Len(rom) => Holds(e, base, n)'
<1> DEFINE w == length[e.name]  text == Text(e.name, w)  pad == Nops(n - w)
<1>0. PICK base \in Nat : base = Len(rom)
  OBVIOUS
<1>1. w \in Nat /\ n - w \in Nat /\ w <= n /\ base \in Nat
  BY <1>0
<1>2. /\ text \in Seq(Word) /\ Len(text) = w
      /\ \A k \in 1..w : text[k] = [of |-> e.name, line |-> k]
  BY <1>1, TextWords
<1>3. pad \in Seq(Word) /\ Len(pad) = n - w /\ \A k \in 1..(n - w) : pad[k] = NOP
  BY <1>1, NopsWords
<1>4. rom' = rom \o text \o pad
  OBVIOUS
<1> HIDE DEF text, pad
<1>15. /\ rom \in Seq(Word) /\ text \in Seq(Word) /\ pad \in Seq(Word)
  BY <1>2, <1>3
<1>5. /\ rom' = rom \o (text \o pad) /\ text \o pad \in Seq(Word)
      /\ rom' \in Seq(Word) /\ Len(rom') = base + Len(text) + Len(pad)
      /\ \A k \in 1..Len(text) : rom'[base + k] = text[k]
      /\ \A k \in 1..Len(pad) : rom'[base + Len(text) + k] = pad[k]
  <2> DEFINE all == rom \o text \o pad
  <2>1. /\ all = rom \o (text \o pad) /\ text \o pad \in Seq(Word)
        /\ all \in Seq(Word) /\ Len(all) = Len(rom) + Len(text) + Len(pad)
        /\ \A k \in 1..Len(text) : all[Len(rom) + k] = text[k]
        /\ \A k \in 1..Len(pad) : all[Len(rom) + Len(text) + k] = pad[k]
    BY <1>15, BothConcatenated, SMTT(30)
  <2>2. rom' = all
    BY <1>4
  <2> HIDE DEF all
  <2> QED BY <1>0, <2>1, <2>2
<1>6. /\ Len(rom') = base + w + (n - w)
      /\ \A k \in 1..w : rom'[base + k] = text[k]
      /\ \A k \in 1..(n - w) : rom'[base + w + k] = pad[k]
  BY <1>2, <1>3, <1>5
<1> HIDE DEF w
<1>7. ASSUME NEW k \in 1..n
      PROVE  rom'[base + k] = IF k <= w THEN [of |-> e.name, line |-> k] ELSE NOP
  <2>1. CASE k <= w
    <3>1. k \in 1..w
      BY <1>1, <2>1
    <3> QED BY <1>2, <1>6, <2>1, <3>1
  <2>2. CASE ~ (k <= w)
    <3>1. k - w \in 1..(n - w) /\ base + w + (k - w) = base + k
      BY <1>1, <2>2
    <3>2. rom'[base + w + (k - w)] = pad[k - w]
      BY <1>6, <3>1
    <3> QED BY <1>3, <2>2, <3>1, <3>2
  <2> QED BY <2>1, <2>2
<1>8. Len(rom') = base + n
  BY <1>1, <1>6
<1>9. Holds(e, base, n)'
  BY <1>7 DEF Holds, w
<1> QED BY <1>0, <1>5, <1>8, <1>9

LEMMA Filled ==
  ASSUME rom \in Seq(Word), NEW m \in Nat, rom' = rom \o Nops(m)
  PROVE  /\ Nops(m) \in Seq(Word)
         /\ rom' \in Seq(Word) /\ Len(rom') = Len(rom) + m
         /\ \A base, n \in Nat : Len(rom) <= base /\ base + n <= Len(rom) + m => Empty(base, n)'
<1> DEFINE pad == Nops(m)  old == Len(rom)
<1>1. pad \in Seq(Word) /\ Len(pad) = m /\ \A k \in 1..m : pad[k] = NOP
  BY NopsWords
<1>2. rom' = rom \o pad /\ old \in Nat
  OBVIOUS
<1> HIDE DEF pad
<1>3. /\ rom' \in Seq(Word) /\ Len(rom') = old + m
      /\ \A k \in 1..m : rom'[old + k] = pad[k]
  BY <1>1, <1>2, Concatenated
<1> HIDE DEF old
<1>4. ASSUME NEW base \in Nat, NEW n \in Nat, old <= base, base + n <= old + m
      PROVE  \A k \in 1..n : rom'[base + k] = NOP
  <2> SUFFICES ASSUME NEW k \in 1..n PROVE rom'[base + k] = NOP
    OBVIOUS
  <2> DEFINE i == base + k - old
  <2>1. i \in 1..m /\ old + i = base + k
    BY <1>2, <1>4
  <2> QED BY <1>1, <1>3, <2>1
<1>5. \A base, n \in Nat : old <= base /\ base + n <= old + m => Empty(base, n)'
  BY <1>4 DEF Empty
<1> QED BY <1>1, <1>3, <1>5 DEF pad, old

-----------------------------------------------------------------------------
(* The invariant: until the image is complete it has the program of every  *)
(* file written so far in its slot, and the files are arranged by tier, so *)
(* that their positions are the slots.                                     *)

Listing == {files[k] : k \in 1..Len(files)}

TierAt(k) == files[k].tier

Typed ==
  /\ RomTypeOK /\ slots_filled < idx
  /\ \A k \in 1..Len(files) : files[k] \in Entries /\ TierAt(k) \in {TIER_SIMPLE, TIER_COMPLEX}
  /\ \A j, k \in 1..Len(files) : files[j] = files[k] => j = k

Scanning ==
  /\ idx = 1 /\ slots_filled = 0 /\ rom = <<>>
  /\ Found = Listing \cup {e \in dir : e.tier # Unknown}
  /\ Listing \cap dir = {}

Arranged ==
  /\ Found = Listing
  /\ \A j, k \in 1..Len(files) : j < k => compare_entries(files[j], files[k])

\* The first m files are the simple programs.
Split(m) ==
  m \in 0..Len(files) /\ \A k \in 1..Len(files) : TierAt(k) = TIER_SIMPLE <=> k <= m

InSlots(m) == \A k \in 1..m : Holds(files[k], Base(k), PROGRAM_INTERVAL)

WritingSimple ==
  /\ \A k \in 1..(idx - 1) : TierAt(k) = TIER_SIMPLE <=> k <= slots_filled
  /\ so_length <= SO_INTERVAL =>
       /\ Len(rom) = Base(slots_filled + 1)
       /\ InSlots(slots_filled)

Built(m) ==
  /\ InSlots(m)
  /\ \A n \in (m + 1)..MAX_PROGS_SIMPLE : Empty(Base(n), PROGRAM_INTERVAL)

Fitting(m) == so_length <= SO_INTERVAL /\ m <= MAX_PROGS_SIMPLE

WritingComplex ==
  \E m \in 0..Len(files) :
    /\ Split(m)
    /\ slots_filled = IF idx <= m + 1 THEN 0 ELSE 1
    /\ Fitting(m) =>
         /\ Built(m)
         /\ slots_filled = 0 => Len(rom) = START_IM_COMPLEX
         /\ slots_filled = 1 => /\ Len(rom) = START_IM_COMPLEX + PROGRAM_INTERVAL_COMPLEX
                                /\ Holds(files[m + 1], START_IM_COMPLEX, PROGRAM_INTERVAL_COMPLEX)

Complete ==
  \E m \in 0..Len(files) :
    /\ Split(m)
    /\ Fitting(m) =>
         /\ Built(m)
         /\ Len(rom) = START_IM_COMPLEX + PROGRAM_INTERVAL_COMPLEX
         /\ \/ m = Len(files) /\ Empty(START_IM_COMPLEX, PROGRAM_INTERVAL_COMPLEX)
            \/ /\ m < Len(files)
               /\ Holds(files[m + 1], START_IM_COMPLEX, PROGRAM_INTERVAL_COMPLEX)

RomInv ==
  /\ Typed
  /\ phase = "scan" => Scanning
  /\ phase \in {"so", "simple", "complex", "done"} => Arranged
  /\ phase = "so" => idx = 1 /\ slots_filled = 0 /\ rom = <<>>
  /\ phase = "simple" => WritingSimple
  /\ phase = "complex" => WritingComplex
  /\ phase = "done" => Complete

Phases == {"scan", "so", "simple", "complex", "done", "failed"}

LEMMA TypedFacts ==
  ASSUME Typed
  PROVE  /\ Len(files) \in Nat /\ idx \in Nat \ {0} /\ idx <= Len(files) + 1
         /\ slots_filled \in Nat /\ slots_filled < idx
         /\ rom \in Seq(Word) /\ files \in Seq(Entries) /\ Len(files) <= MAX_FILES
         /\ phase \in Phases /\ so_length \in Nat
         /\ \A e \in Found : length[e.name] \in Nat
<1>1. /\ files \in Seq(Entries) /\ Len(files) <= MAX_FILES /\ idx \in 1..Len(files) + 1
      /\ slots_filled \in 0..Len(files) /\ slots_filled < idx
      /\ phase \in Phases /\ so_length \in SOLengths
      /\ length \in [{e.name : e \in Found} -> Lengths]
  BY DEF Typed, RomTypeOK, Phases
<1>2. rom \in Seq(Word)
  BY DEF Typed, RomTypeOK, Word
<1>3. Len(files) \in Nat
  BY <1>1
<1>4. so_length \in Nat /\ \A e \in Found : length[e.name] \in Nat
  BY <1>1, EntriesAssumption
<1> QED BY <1>1, <1>2, <1>3, <1>4

\* What the steps after the scan keep of the types.
LEMMA TypedKept ==
  ASSUME Typed, phase' \in Phases, dir' \subseteq dir, UNCHANGED <<inputs, files>>,
         idx' \in 1..Len(files) + 1, slots_filled' \in Nat, slots_filled' < idx',
         rom' \in Seq(Word)
  PROVE  Typed'
<1>1. Found' = Found
  BY DEF inputs, Found
<1>2. \A k : TierAt(k)' = TierAt(k)
  BY DEF TierAt
<1>3. slots_filled' \in 0..Len(files)
  <2>1. Len(files) \in Nat
    BY TypedFacts
  <2> QED BY <2>1
<1>4. RomTypeOK'
  BY <1>1, <1>3 DEF Typed, RomTypeOK, Word, Phases, inputs
<1> QED BY <1>2, <1>4 DEF Typed

LEMMA ArrangedKept ==
  ASSUME Arranged, UNCHANGED <<inputs, files>>
  PROVE  Arranged'
BY DEF Arranged, Found, Listing, inputs

\* Steps that only end the builder.
LEMMA FailStep ==
  ASSUME RomInv, phase' = "failed", dir' = dir, UNCHANGED <<inputs, files, idx, slots_filled>>,
         rom' \in Seq(Word)
  PROVE  RomInv'
<1>1. Typed /\ idx \in 1..Len(files) + 1 /\ slots_filled \in Nat /\ slots_filled < idx
  BY TypedFacts DEF RomInv
<1>2. Typed'
  BY <1>1, TypedKept DEF Phases
<1> QED BY <1>2 DEF RomInv

-----------------------------------------------------------------------------
(* The scan of the directory. *)

LEMMA RomInit == InitRom => RomInv
<1> SUFFICES ASSUME InitRom PROVE RomInv
  OBVIOUS
<1>1. Found = {e \in dir : e.tier # Unknown}
  <2>1. dir \subseteq Entries /\ DOMAIN length = {e.name : e \in {f \in dir : f.tier # Unknown}}
    BY DEF InitRom
  <2> QED BY <2>1, EntriesAssumption DEF Found
<1>2. files = <<>> /\ idx = 1 /\ slots_filled = 0 /\ rom = <<>> /\ phase = "scan"
  BY DEF InitRom
<1>3. Listing = {} /\ Len(files) = 0
  BY <1>2 DEF Listing
<1>4. Scanning
  BY <1>1, <1>2, <1>3 DEF Scanning
<1>5. RomTypeOK
  <2>1. length \in [{e.name : e \in Found} -> Lengths]
    BY <1>1 DEF InitRom
  <2>2. Len(files) <= MAX_FILES
    BY <1>3, Intervals DEF MAX_FILES, MAX_PROGS, MAX_PROGS_COMPLEX
  <2> QED BY <1>2, <1>3, <2>1, <2>2 DEF RomTypeOK, InitRom
<1>6. Typed
  BY <1>2, <1>3, <1>5 DEF Typed
<1> QED BY <1>2, <1>4, <1>6 DEF RomInv

LEMMA SkipStep ==
  ASSUME RomInv, NEW e \in dir, SkipEntry(e)
  PROVE  RomInv'
<1>1. /\ phase = "scan" /\ phase' = "scan" /\ e.tier = Unknown /\ dir' = dir \ {e}
      /\ UNCHANGED <<inputs, files, idx, slots_filled, rom>>
  BY DEF SkipEntry
<1>2. Typed /\ Scanning
  BY <1>1 DEF RomInv
<1>3. Typed'
  BY <1>1, <1>2, TypedFacts, TypedKept DEF Phases
<1>4. Scanning'
  BY <1>1, <1>2 DEF Scanning, Found, Listing, inputs
<1> QED BY <1>1, <1>3, <1>4 DEF RomInv

LEMMA AddStep ==
  ASSUME RomInv, NEW e \in dir, AddEntry(e)
  PROVE  RomInv'
<1>1. /\ phase = "scan" /\ phase' = "scan" /\ e.tier # Unknown /\ dir' = dir \ {e}
      /\ Len(files) < MAX_FILES /\ files' = Append(files, e)
      /\ UNCHANGED <<inputs, idx, slots_filled, rom>>
  BY DEF AddEntry
<1>2. Typed /\ Scanning
  BY <1>1 DEF RomInv
<1>3. e \in Entries /\ e \notin Listing /\ dir \subseteq Entries
  BY <1>2 DEF Typed, RomTypeOK, Scanning
<1> DEFINE n == Len(files)
<1>4. /\ files \in Seq(Entries) /\ n \in Nat
      /\ files' \in Seq(Entries) /\ Len(files') = n + 1 /\ files'[n + 1] = e
      /\ \A k \in 1..n : files'[k] = files[k]
  BY <1>1, <1>2, <1>3, TypedFacts
<1>5. \A k \in 1..n + 1 : k \in 1..n \/ k = n + 1
  BY <1>4
<1> HIDE DEF n
<1>6. Listing' = Listing \cup {e}
  <2>1. Listing' = {files'[k] : k \in 1..n + 1}
    BY <1>4 DEF Listing
  <2>2. Listing = {files[k] : k \in 1..n}
    BY DEF Listing, n
  <2>3. \A k \in 1..n : k \in 1..n + 1
    BY <1>4
  <2>4. n + 1 \in 1..n + 1
    BY <1>4
  <2> QED BY <1>4, <1>5, <2>1, <2>2, <2>3, <2>4
<1>7. Found' = Found
  BY <1>1 DEF Found, inputs
<1>8. Scanning'
  BY <1>1, <1>2, <1>3, <1>6, <1>7 DEF Scanning
<1>9. ASSUME NEW k \in 1..n + 1
      PROVE  files'[k] \in Entries /\ TierAt(k)' \in {TIER_SIMPLE, TIER_COMPLEX}
  <2>1. CASE k \in 1..n
    BY <1>2, <1>4, <2>1 DEF Typed, TierAt, n
  <2>2. CASE k = n + 1
    BY <1>1, <1>3, <1>4, <2>2, EntriesAssumption DEF TierAt
  <2> QED BY <1>5, <2>1, <2>2
<1>10. ASSUME NEW j \in 1..n + 1, NEW k \in 1..n + 1, files'[j] = files'[k]
       PROVE  j = k
  <2>1. \A i \in 1..n : files[i] \in Listing
    BY DEF Listing, n
  <2>2. CASE j \in 1..n /\ k \in 1..n
    BY <1>2, <1>4, <1>10, <2>2 DEF Typed, n
  <2> QED BY <1>3, <1>4, <1>5, <1>10, <2>1, <2>2
<1>11. RomTypeOK'
  <2>1. idx \in 1..n + 1 /\ slots_filled \in 0..n
    BY <1>2 DEF Typed, RomTypeOK, n
  <2>2. idx \in 1..(n + 1) + 1 /\ slots_filled \in 0..n + 1
    BY <1>4, <2>1
  <2>3. Len(files') <= MAX_FILES
    BY <1>1, <1>4, Intervals DEF n, MAX_FILES, MAX_PROGS, MAX_PROGS_COMPLEX
  <2>4. /\ length' = length /\ so_length' = so_length /\ idx' = idx /\ slots_filled' = slots_filled
        /\ rom' = rom /\ phase' = phase /\ dir' \subseteq Entries
    BY <1>1, <1>3 DEF inputs
  <2> QED BY <1>2, <1>4, <1>7, <2>2, <2>3, <2>4 DEF Typed, RomTypeOK
<1>12. Typed'
  BY <1>1, <1>2, <1>4, <1>9, <1>10, <1>11 DEF Typed
<1> QED BY <1>1, <1>8, <1>12 DEF RomInv

\* Two entries one of which is not to come after the other are in that order.
LEMMA Comparable ==
  ASSUME NEW d \in Entries, NEW e \in Entries, d # e, ~ compare_entries(e, d)
  PROVE  compare_entries(d, e)
<1>1. d.name # e.name /\ d.name \in Nat /\ e.name \in Nat /\ d.order \in Nat /\ e.order \in Nat
  BY EntriesAssumption
<1>2. d.tier \in Nat /\ e.tier \in Nat
  BY EntriesAssumption DEF TIER_SIMPLE, TIER_COMPLEX, Unknown
<1> QED BY <1>1, <1>2 DEF compare_entries

LEMMA SortStep ==
  ASSUME RomInv, SortEntries
  PROVE  RomInv'
<1>1. /\ phase = "scan" /\ phase' = "so" /\ dir = {} /\ dir' = dir
      /\ UNCHANGED <<inputs, idx, slots_filled, rom>>
  BY DEF SortEntries
<1>2. Typed /\ Scanning
  BY <1>1 DEF RomInv
<1> DEFINE n == Len(files)
<1>3. files \in Seq(Entries) /\ n \in Nat /\ DOMAIN files = 1..n
  BY <1>2, TypedFacts
<1> HIDE DEF n
<1>4. PICK place \in Bijection(1..n, 1..n) : files' = [k \in 1..n |-> files[place[k]]]
  BY <1>3 DEF SortEntries, n
<1>5. /\ \A k \in 1..n : place[k] \in 1..n
      /\ \A j, k \in 1..n : place[j] = place[k] => j = k
      /\ \A k \in 1..n : \E j \in 1..n : place[j] = k
  BY DEF Bijection, Injection, Surjection, IsInjective
<1>6. /\ \A k \in 1..n : files'[k] = files[place[k]]
      /\ DOMAIN files' = 1..n /\ Len(files') = n /\ files' \in Seq(Entries)
  <2>1. \A k \in 1..n : files[place[k]] \in Entries
    BY <1>3, <1>5 DEF n
  <2> QED BY <1>3, <1>4, <2>1
<1>7. Listing' = Listing
  <2>1. Listing' = {files'[k] : k \in 1..n} /\ Listing = {files[k] : k \in 1..n}
    BY <1>6 DEF Listing, n
  <2>2. \A k \in 1..n : files'[k] \in {files[j] : j \in 1..n}
    BY <1>5, <1>6
  <2>3. \A k \in 1..n : files[k] \in {files'[j] : j \in 1..n}
    <3> SUFFICES ASSUME NEW k \in 1..n PROVE \E j \in 1..n : files'[j] = files[k]
      OBVIOUS
    <3>1. PICK j \in 1..n : place[j] = k
      BY <1>5
    <3> QED BY <1>6, <3>1
  <2> QED BY <2>1, <2>2, <2>3
<1>8. /\ \A j, k \in 1..n : files'[j] = files'[k] => j = k
      /\ \A k \in 1..n : files'[k] \in Entries /\ TierAt(k)' \in {TIER_SIMPLE, TIER_COMPLEX}
  <2>1. /\ \A j, k \in 1..n : files[j] = files[k] => j = k
        /\ \A k \in 1..n : files[k] \in Entries /\ files[k].tier \in {TIER_SIMPLE, TIER_COMPLEX}
    BY <1>2 DEF Typed, TierAt, n
  <2>2. ASSUME NEW j \in 1..n, NEW k \in 1..n, files'[j] = files'[k] PROVE j = k
    <3>1. place[j] \in 1..n /\ place[k] \in 1..n /\ files[place[j]] = files[place[k]]
      BY <1>4, <1>5, <2>2
    <3>2. place[j] = place[k]
      BY <2>1, <3>1
    <3> QED BY <1>5, <3>2
  <2>3. ASSUME NEW k \in 1..n
        PROVE  files'[k] \in Entries /\ TierAt(k)' \in {TIER_SIMPLE, TIER_COMPLEX}
    <3>1. place[k] \in 1..n /\ files'[k] = files[place[k]]
      BY <1>4, <1>5
    <3> QED BY <2>1, <3>1 DEF TierAt
  <2> QED BY <2>2, <2>3
<1>9. \A j, k \in 1..n : j < k => compare_entries(files'[j], files'[k])
  <2> SUFFICES ASSUME NEW j \in 1..n, NEW k \in 1..n, j < k
               PROVE  compare_entries(files'[j], files'[k])
    OBVIOUS
  <2>1. ~ compare_entries(files'[k], files'[j])
    BY <1>3 DEF SortEntries
  <2>2. files'[j] # files'[k] /\ files'[j] \in Entries /\ files'[k] \in Entries
    BY <1>8
  <2> QED BY <2>1, <2>2, Comparable
<1>10. Found' = Found
  BY <1>1 DEF Found, inputs
<1>11. Arranged'
  BY <1>1, <1>2, <1>6, <1>7, <1>9, <1>10 DEF Arranged, Scanning
<1>12. Typed'
  <2>1. RomTypeOK'
    BY <1>1, <1>2, <1>6, <1>10 DEF Typed, RomTypeOK, inputs, n
  <2> QED BY <1>1, <1>2, <1>6, <1>8, <2>1 DEF Typed
<1> QED BY <1>1, <1>2, <1>11, <1>12 DEF RomInv, Scanning

-----------------------------------------------------------------------------
(* The operating system and the simple programs. *)

LEMMA SOStep ==
  ASSUME RomInv, WriteSO
  PROVE  RomInv'
<1>1. /\ phase = "so" /\ phase' = "simple" /\ idx = 1 /\ slots_filled = 0 /\ rom = <<>>
      /\ rom' = Text(SO, so_length) \o Nops(SO_INTERVAL - so_length)
      /\ UNCHANGED <<dir, inputs, files, idx, slots_filled>>
      /\ Typed /\ Arranged
  BY DEF WriteSO, RomInv
<1>2. Nops(SO_INTERVAL - so_length) \in Seq(Word)
      /\ (so_length <= SO_INTERVAL => Len(Nops(SO_INTERVAL - so_length)) = SO_INTERVAL - so_length)
  <2> DEFINE d == SO_INTERVAL - so_length
  <2>1. d \in Int /\ (so_length <= SO_INTERVAL => d \in Nat)
    BY <1>1, TypedFacts, Intervals
  <2>2. CASE d \in Nat
    BY <2>1, <2>2, NopsWords
  <2>3. CASE d \notin Nat
    <3>1. Nops(d) = <<>>
      <4> HIDE DEF d
      <4> QED BY <2>1, <2>3 DEF Nops
    <3>2. Nops(d) \in Seq(Word)
      <4> HIDE DEF d
      <4> QED BY <3>1
    <3> QED BY <2>1, <2>3, <3>2
  <2> QED BY <2>2, <2>3
<1>3. Text(SO, so_length) \in Seq(Word) /\ Len(Text(SO, so_length)) = so_length /\ so_length \in Nat
  BY <1>1, TypedFacts, TextWords
<1>4. rom' \in Seq(Word)
      /\ Len(rom') = Len(Text(SO, so_length)) + Len(Nops(SO_INTERVAL - so_length))
  BY <1>1, <1>2, <1>3, Concatenated
<1>5. Typed'
  BY <1>1, <1>4, TypedFacts, TypedKept DEF Phases
<1>6. Arranged'
  BY <1>1, ArrangedKept
<1>7. WritingSimple'
  <2>1. so_length <= SO_INTERVAL => Len(rom') = SO_INTERVAL
    BY <1>2, <1>3, <1>4, Intervals
  <2>2. Base(1) = SO_INTERVAL
    <3>1. 0 * PROGRAM_INTERVAL = 0
      BY Intervals
    <3> QED BY <3>1, Intervals DEF Base, START_IM
  <2>3. so_length' = so_length /\ idx' = 1 /\ slots_filled' = 0
    BY <1>1 DEF inputs
  <2> QED BY <2>1, <2>2, <2>3 DEF WritingSimple, InSlots
<1> QED BY <1>1, <1>5, <1>6, <1>7 DEF RomInv

\* An entry that is not of the tier being written is passed over.
LEMMA OtherStep ==
  ASSUME RomInv, OtherTier
  PROVE  RomInv'
<1>1. /\ phase \in {"simple", "complex"} /\ phase' = phase /\ idx <= Len(files) /\ idx' = idx + 1
      /\ TierAt(idx) # (IF phase = "simple" THEN TIER_SIMPLE ELSE TIER_COMPLEX)
      /\ UNCHANGED <<dir, inputs, files, slots_filled, rom>>
      /\ Typed /\ Arranged
  BY DEF OtherTier, RomInv, TierAt
<1>2. /\ idx \in 1..Len(files) /\ idx + 1 \in 1..Len(files) + 1 /\ idx \in Nat /\ Len(files) \in Nat
      /\ slots_filled \in Nat /\ slots_filled < idx /\ slots_filled < idx + 1 /\ rom \in Seq(Word)
      /\ phase \in Phases
  BY <1>1, TypedFacts
<1>3. Typed'
  BY <1>1, <1>2, TypedKept
<1>4. Arranged'
  BY <1>1, ArrangedKept
<1>5. /\ \A k : TierAt(k)' = TierAt(k)
      /\ \A e, base, n : Holds(e, base, n)' <=> Holds(e, base, n)
      /\ \A base, n : Empty(base, n)' <=> Empty(base, n)
      /\ \A m : InSlots(m)' <=> InSlots(m)
      /\ \A m : Fitting(m)' <=> Fitting(m)
      /\ so_length' = so_length
  BY <1>1 DEF TierAt, Holds, Empty, InSlots, Fitting, inputs
<1>6. CASE phase = "simple"
  <2>1. WritingSimple
    BY <1>6 DEF RomInv
  <2>2. \A k \in 1..idx : TierAt(k) = TIER_SIMPLE <=> k <= slots_filled
    BY <1>1, <1>2, <1>6, <2>1 DEF WritingSimple
  <2>3. (idx + 1) - 1 = idx
    BY <1>2
  <2>4. WritingSimple'
    BY <1>1, <1>5, <2>1, <2>2, <2>3 DEF WritingSimple
  <2> QED BY <1>1, <1>3, <1>4, <1>6, <2>4 DEF RomInv
<1>7. CASE phase = "complex"
  <2>1. WritingComplex
    BY <1>7 DEF RomInv
  <2>2. PICK m \in 0..Len(files) :
          /\ Split(m)
          /\ slots_filled = IF idx <= m + 1 THEN 0 ELSE 1
          /\ Fitting(m) =>
               /\ Built(m)
               /\ slots_filled = 0 => Len(rom) = START_IM_COMPLEX
               /\ slots_filled = 1 => /\ Len(rom) = START_IM_COMPLEX + PROGRAM_INTERVAL_COMPLEX
                                      /\ Holds(files[m + 1], START_IM_COMPLEX, PROGRAM_INTERVAL_COMPLEX)
    BY <2>1 DEF WritingComplex
  <2>3. TierAt(idx) = TIER_SIMPLE \/ idx # m + 1
    BY <1>1, <1>2, <1>7 DEF Typed
  <2>4. idx # m + 1
    BY <1>2, <2>2, <2>3 DEF Split
  <2>5. slots_filled = IF idx + 1 <= m + 1 THEN 0 ELSE 1
    BY <1>2, <2>2, <2>4
  <2>6. Split(m)' /\ (Built(m)' <=> Built(m))
    BY <1>1, <1>5, <2>2 DEF Split, Built
  <2>7. WritingComplex'
    BY <1>1, <1>5, <2>2, <2>5, <2>6 DEF WritingComplex
  <2> QED BY <1>1, <1>3, <1>4, <1>7, <2>7 DEF RomInv
<1> QED BY <1>1, <1>6, <1>7

LEMMA SimpleStep ==
  ASSUME RomInv, phase = "simple", idx <= Len(files), files[idx].tier = TIER_SIMPLE,
         WriteProgram(PROGRAM_INTERVAL), UNCHANGED phase
  PROVE  RomInv'
<1>0. PICK i \in Nat : i = idx
  BY TypedFacts DEF RomInv
<1> DEFINE e == files[i]  old == Len(rom)
<1>1. /\ phase = "simple" /\ phase' = "simple" /\ i <= Len(files) /\ TierAt(i) = TIER_SIMPLE
      /\ rom' = rom \o Text(e.name, length[e.name]) \o Nops(PROGRAM_INTERVAL - length[e.name])
      /\ length[e.name] <= PROGRAM_INTERVAL
      /\ slots_filled' = slots_filled + 1 /\ idx' = i + 1
      /\ UNCHANGED <<dir, inputs, files>> /\ length' = length /\ so_length' = so_length
      /\ Typed /\ Arranged /\ WritingSimple
  BY <1>0 DEF WriteProgram, RomInv, TierAt, inputs
<1>2. /\ i \in 1..Len(files) /\ i + 1 \in 1..Len(files) + 1 /\ Len(files) \in Nat
      /\ slots_filled \in Nat /\ slots_filled < i /\ rom \in Seq(Word) /\ old \in Nat
  BY <1>0, <1>1, TypedFacts
<1>3. e \in Entries /\ e \in Found
  BY <1>1, <1>2 DEF Typed, Arranged, Listing
<1>4. length[e.name] \in 0..PROGRAM_INTERVAL
  BY <1>1, <1>3, TypedFacts, Intervals
<1>5. PICK t \in Seq(Word) : rom' = rom \o t
  BY <1>1, <1>2, <1>3, <1>4, SlotWritten, Intervals
<1>6. /\ rom' \in Seq(Word) /\ Len(rom') = old + PROGRAM_INTERVAL
      /\ \A base : base = old => Holds(files[i], base, PROGRAM_INTERVAL)'
  <2>1. \A d : d = e => \A base : base = old => Holds(d, base, PROGRAM_INTERVAL)'
    BY <1>1, <1>2, <1>3, <1>4, SlotWritten, Intervals
  <2>2. files'[i] = e
    BY <1>1
  <2>3. rom' \in Seq(Word) /\ Len(rom') = old + PROGRAM_INTERVAL
    BY <1>1, <1>2, <1>3, <1>4, SlotWritten, Intervals
  <2> QED BY <2>1, <2>2, <2>3
<1> HIDE DEF e, old
<1>7. Typed'
  <2>1. slots_filled + 1 \in Nat /\ slots_filled + 1 < i + 1
    BY <1>2
  <2> QED BY <1>1, <1>2, <1>6, <2>1, TypedKept DEF Phases
<1>8. Arranged'
  BY <1>1, ArrangedKept
\* An entry before this one is of no later tier.
<1>9. slots_filled + 1 = i
  <2>1. ASSUME slots_filled + 1 < i PROVE FALSE
    <3> DEFINE k == slots_filled + 1
    <3>1. k \in 1..(i - 1) /\ k \in 1..Len(files) /\ k < i /\ k \in Nat /\ ~ (k <= slots_filled)
      BY <1>2, <2>1
    <3> HIDE DEF k
    <3>2. TierAt(k) # TIER_SIMPLE
      BY <1>0, <1>1, <3>1 DEF WritingSimple
    <3>3. TierAt(k) = TIER_COMPLEX
      BY <1>1, <3>1, <3>2 DEF Typed
    <3>4. compare_entries(files[k], files[i])
      BY <1>1, <1>2, <3>1 DEF Arranged
    <3> QED BY <1>1, <3>3, <3>4 DEF compare_entries, TierAt, TIER_SIMPLE, TIER_COMPLEX
  <2> QED BY <1>2, <2>1
<1>10. WritingSimple'
  <2>1. \A k : TierAt(k)' = TierAt(k)
    BY <1>1 DEF TierAt
  <2>2. ASSUME NEW k \in 1..i PROVE TierAt(k) = TIER_SIMPLE <=> k <= slots_filled + 1
    <3>1. CASE k = i
      BY <1>1, <1>9, <3>1
    <3>2. CASE k # i
      <4>1. k \in 1..(i - 1) /\ k <= slots_filled
        BY <1>2, <1>9, <3>2
      <4> QED BY <1>0, <1>1, <1>9, <3>2, <4>1 DEF WritingSimple
    <3> QED BY <3>1, <3>2
  <2>3. ASSUME so_length <= SO_INTERVAL
        PROVE  Len(rom') = Base(i + 1) /\ InSlots(i)'
    <3>1. old = Base(i) /\ InSlots(slots_filled)
      BY <1>1, <1>9, <2>3 DEF WritingSimple, old
    <3>2. Base(i + 1) = Base(i) + PROGRAM_INTERVAL
      BY NextBase
    <3>3. ASSUME NEW k \in 1..i PROVE Holds(files[k], Base(k), PROGRAM_INTERVAL)'
      <4>1. CASE k = i
        <5>1. \A base : base = old => Holds(files[k], base, PROGRAM_INTERVAL)'
          BY <1>6, <4>1
        <5>2. Base(k) = old
          BY <3>1, <4>1
        <5> QED BY <5>1, <5>2
      <4>2. CASE k # i
        <5>1. k \in 1..slots_filled /\ k \in Nat \ {0} /\ k + 1 \in Nat \ {0} /\ k + 1 <= i
          BY <1>2, <1>9, <4>2
        <5>2. Holds(files[k], Base(k), PROGRAM_INTERVAL)
          BY <3>1, <5>1 DEF InSlots
        <5>3. Base(k + 1) = Base(k) + PROGRAM_INTERVAL /\ Base(k + 1) <= Base(i) /\ Base(k) \in Nat
          BY <5>1, NextBase, BasesOrdered, BaseType
        <5>4. Base(k) + PROGRAM_INTERVAL <= Len(rom)
          BY <3>1, <5>3 DEF old
        <5>5. \A d : d = files[k] => Holds(d, Base(k), PROGRAM_INTERVAL)'
          BY <1>1, <1>2, <1>5, <5>2, <5>3, <5>4, SlotKept, Intervals
        <5>6. files'[k] = files[k]
          BY <1>1
        <5> QED BY <5>5, <5>6
      <4> QED BY <4>1, <4>2
    <3>4. InSlots(i)'
      BY <3>3 DEF InSlots
    <3> QED BY <1>6, <3>1, <3>2, <3>4
  <2>4. slots_filled' = i /\ idx' - 1 = i
    BY <1>1, <1>9
  <2>5. \A k \in 1..(idx' - 1) : TierAt(k)' = TIER_SIMPLE <=> k <= slots_filled'
    BY <1>9, <2>1, <2>2, <2>4
  <2>6. so_length' <= SO_INTERVAL => Len(rom') = Base(slots_filled' + 1) /\ InSlots(slots_filled)'
    BY <1>1, <2>3, <2>4 DEF InSlots
  <2> QED BY <2>5, <2>6 DEF WritingSimple
<1> QED BY <1>1, <1>7, <1>8, <1>10 DEF RomInv

-----------------------------------------------------------------------------
(* The no-ops of the empty slots, and the complex program. *)

LEMMA NopsAny ==
  ASSUME NEW n \in Int
  PROVE  Nops(n) \in Seq(Word)
<1>1. CASE n \in Nat
  BY <1>1, NopsWords
<1>2. CASE n \notin Nat
  <2>1. Nops(n) = <<>>
    BY <1>2 DEF Nops
  <2> QED BY <2>1
<1> QED BY <1>1, <1>2

\* A slot for simple programs ends where the next one starts, or before.
LEMMA SlotEnds ==
  ASSUME NEW n \in Nat \ {0}, NEW m \in Nat, n <= m
  PROVE  Base(n) \in Nat /\ Base(n) + PROGRAM_INTERVAL <= Base(m + 1)
<1>1. n + 1 \in Nat \ {0} /\ m + 1 \in Nat /\ n + 1 <= m + 1
  OBVIOUS
<1>2. Base(n + 1) = Base(n) + PROGRAM_INTERVAL /\ Base(n + 1) <= Base(m + 1)
  BY <1>1, NextBase, BasesOrdered
<1> QED BY <1>2, BaseType

LEMMA SlotsKept ==
  ASSUME NEW t \in Seq(Word), rom \in Seq(Word), rom' = rom \o t,
         UNCHANGED <<length, files>>,
         NEW m \in Nat, Base(m + 1) <= Len(rom), InSlots(m)
  PROVE  InSlots(m)'
<1>1. ASSUME NEW k \in 1..m PROVE Holds(files[k], Base(k), PROGRAM_INTERVAL)'
  <2>1. k \in Nat \ {0} /\ k <= m
    OBVIOUS
  <2>2. Base(k) \in Nat /\ Base(k) + PROGRAM_INTERVAL <= Base(m + 1) /\ Base(m + 1) \in Nat
    BY <2>1, SlotEnds, BaseType
  <2>3. Base(k) + PROGRAM_INTERVAL <= Len(rom)
    BY <2>2, Intervals
  <2>4. Holds(files[k], Base(k), PROGRAM_INTERVAL)
    BY DEF InSlots
  <2>5. \A d : d = files[k] => Holds(d, Base(k), PROGRAM_INTERVAL)'
    BY <2>2, <2>3, <2>4, SlotKept, Intervals
  <2> QED BY <2>5
<1> QED BY <1>1 DEF InSlots

LEMMA BuiltKept ==
  ASSUME NEW t \in Seq(Word), rom \in Seq(Word), rom' = rom \o t,
         UNCHANGED <<length, files>>,
         NEW m \in 0..MAX_PROGS_SIMPLE, START_IM_COMPLEX <= Len(rom), Built(m)
  PROVE  Built(m)'
<1>1. m \in Nat /\ MAX_PROGS_SIMPLE \in Nat /\ Len(rom) \in Nat
  BY Intervals
<1>2. InSlots(m)'
  <2>1. Base(m + 1) <= Base(MAX_PROGS_SIMPLE + 1) /\ Base(m + 1) \in Nat
    BY <1>1, BasesOrdered, BaseType
  <2>2. Base(m + 1) <= Len(rom)
    BY <1>1, <2>1, LastBase, Intervals
  <2> QED BY <1>1, <2>2, SlotsKept DEF Built
<1>3. ASSUME NEW n \in (m + 1)..MAX_PROGS_SIMPLE PROVE Empty(Base(n), PROGRAM_INTERVAL)'
  <2>1. n \in Nat \ {0} /\ n <= MAX_PROGS_SIMPLE
    BY <1>1
  <2>2. Base(n) \in Nat /\ Base(n) + PROGRAM_INTERVAL <= START_IM_COMPLEX
    BY <1>1, <2>1, SlotEnds, LastBase
  <2>3. Base(n) + PROGRAM_INTERVAL <= Len(rom)
    BY <1>1, <2>2, Intervals
  <2>4. Empty(Base(n), PROGRAM_INTERVAL)
    BY DEF Built
  <2> QED BY <2>2, <2>3, <2>4, EmptyKept, Intervals
<1> QED BY <1>2, <1>3 DEF Built

LEMMA FillSimpleStep ==
  ASSUME RomInv, FillSimple
  PROVE  RomInv'
<1>0. PICK m \in Nat : m = slots_filled
  BY TypedFacts DEF RomInv
<1> DEFINE count == (MAX_PROGS_SIMPLE - m) * PROGRAM_INTERVAL
<1>1. /\ phase = "simple" /\ phase' = "complex" /\ idx > Len(files) /\ idx' = 1 /\ slots_filled' = 0
      /\ rom' = rom \o Nops(count)
      /\ UNCHANGED <<dir, inputs, files>> /\ UNCHANGED <<length, so_length>>
      /\ Typed /\ Arranged /\ WritingSimple
  BY <1>0 DEF FillSimple, RomInv, inputs
<1>2. /\ idx = Len(files) + 1 /\ Len(files) \in Nat /\ m \in 0..Len(files) /\ rom \in Seq(Word)
      /\ 1 \in 1..Len(files) + 1
  BY <1>0, <1>1, TypedFacts
<1>3. count \in Int
  <2> DEFINE d == MAX_PROGS_SIMPLE - m  p == PROGRAM_INTERVAL
  <2>1. d \in Int /\ p \in Int
    BY Intervals
  <2>2. d * p \in Int
    <3> HIDE DEF d, p
    <3> QED BY <2>1
  <2> QED BY <2>2
<1> HIDE DEF count
<1>4. Nops(count) \in Seq(Word)
  BY <1>3, NopsAny
<1>5. rom' \in Seq(Word)
  BY <1>1, <1>2, <1>4, Concatenated
<1>6. Typed' /\ Arranged'
  BY <1>1, <1>2, <1>5, TypedKept, ArrangedKept DEF Phases
<1>7. Split(m)'
  <2>1. \A k \in 1..Len(files) : TierAt(k) = TIER_SIMPLE <=> k <= m
    <3>1. idx - 1 = Len(files)
      BY <1>2
    <3> QED BY <1>0, <1>1, <3>1 DEF WritingSimple
  <2> QED BY <1>1, <1>2, <2>1 DEF Split, TierAt
<1>8. ASSUME Fitting(m)' PROVE Built(m)' /\ Len(rom') = START_IM_COMPLEX
  <2>1. so_length <= SO_INTERVAL /\ m <= MAX_PROGS_SIMPLE /\ m \in 0..MAX_PROGS_SIMPLE
    BY <1>1, <1>8, Intervals DEF Fitting
  <2>2. Len(rom) = Base(m + 1) /\ InSlots(m)
    BY <1>0, <1>1, <2>1 DEF WritingSimple
  <2>3. count \in Nat /\ Len(rom) + count = START_IM_COMPLEX
    BY <2>1, <2>2, FillsTo DEF count
  <2>4. /\ Len(rom') = Len(rom) + count
        /\ \A base, n \in Nat : Len(rom) <= base /\ base + n <= Len(rom) + count => Empty(base, n)'
    BY <1>1, <1>2, <2>3, Filled
  <2>5. InSlots(m)'
    <3>1. Base(m + 1) \in Nat
      BY BaseType
    <3>2. Base(m + 1) <= Len(rom)
      BY <2>2, <3>1
    <3> QED BY <1>1, <1>2, <1>4, <2>2, <3>2, SlotsKept
  <2>6. ASSUME NEW n \in (m + 1)..MAX_PROGS_SIMPLE PROVE Empty(Base(n), PROGRAM_INTERVAL)'
    <3>1. n \in Nat \ {0} /\ n <= MAX_PROGS_SIMPLE /\ m + 1 \in Nat \ {0} /\ m + 1 <= n
          /\ MAX_PROGS_SIMPLE \in Nat
      BY <2>1, Intervals
    <3>2. Base(n) \in Nat /\ Base(n) + PROGRAM_INTERVAL <= START_IM_COMPLEX
      BY <3>1, SlotEnds, LastBase
    <3>3. Base(m + 1) <= Base(n)
      BY <3>1, BasesOrdered
    <3> QED BY <2>2, <2>3, <2>4, <3>2, <3>3, Intervals
  <2> QED BY <2>3, <2>4, <2>5, <2>6 DEF Built
<1>9. WritingComplex'
  <2>1. slots_filled' = IF idx' <= m + 1 THEN 0 ELSE 1
    BY <1>1, <1>0
  <2> QED BY <1>1, <1>2, <1>7, <1>8, <2>1 DEF WritingComplex
<1> QED BY <1>1, <1>6, <1>9 DEF RomInv

\* The first file behind the simple programs gets the complex slot.
LEMMA ComplexStep ==
  ASSUME RomInv, phase = "complex", idx <= Len(files), files[idx].tier = TIER_COMPLEX,
         slots_filled < MAX_PROGS_COMPLEX,
         WriteProgram(PROGRAM_INTERVAL_COMPLEX), UNCHANGED phase
  PROVE  RomInv'
<1>0. PICK i \in Nat : i = idx
  BY TypedFacts DEF RomInv
<1> DEFINE e == files[i]  old == Len(rom)
<1>1. /\ phase = "complex" /\ phase' = "complex" /\ i <= Len(files) /\ TierAt(i) = TIER_COMPLEX
      /\ rom' = rom \o Text(e.name, length[e.name])
                    \o Nops(PROGRAM_INTERVAL_COMPLEX - length[e.name])
      /\ length[e.name] <= PROGRAM_INTERVAL_COMPLEX
      /\ slots_filled' = slots_filled + 1 /\ idx' = i + 1
      /\ UNCHANGED <<dir, inputs, files>> /\ length' = length /\ so_length' = so_length
      /\ Typed /\ Arranged /\ WritingComplex
  BY <1>0 DEF WriteProgram, RomInv, TierAt, inputs
<1>2. /\ i \in 1..Len(files) /\ i + 1 \in 1..Len(files) + 1 /\ Len(files) \in Nat
      /\ slots_filled = 0 /\ slots_filled' = 1 /\ rom \in Seq(Word) /\ old \in Nat
  BY <1>0, <1>1, TypedFacts DEF MAX_PROGS_COMPLEX
<1>3. e \in Entries /\ e \in Found
  BY <1>1, <1>2 DEF Typed, Arranged, Listing
<1>4. length[e.name] \in 0..PROGRAM_INTERVAL_COMPLEX
  BY <1>1, <1>3, TypedFacts, Intervals
<1>5. PICK t \in Seq(Word) : rom' = rom \o t
  BY <1>1, <1>2, <1>3, <1>4, SlotWritten, Intervals
<1>6. /\ rom' \in Seq(Word) /\ Len(rom') = old + PROGRAM_INTERVAL_COMPLEX
      /\ \A base : base = old => Holds(files[i], base, PROGRAM_INTERVAL_COMPLEX)'
  <2>1. \A d : d = e => \A base : base = old => Holds(d, base, PROGRAM_INTERVAL_COMPLEX)'
    BY <1>1, <1>2, <1>3, <1>4, SlotWritten, Intervals
  <2>2. files'[i] = e
    BY <1>1
  <2>3. rom' \in Seq(Word) /\ Len(rom') = old + PROGRAM_INTERVAL_COMPLEX
    BY <1>1, <1>2, <1>3, <1>4, SlotWritten, Intervals
  <2> QED BY <2>1, <2>2, <2>3
<1> HIDE DEF e, old
<1>7. Typed' /\ Arranged'
  <2>1. 1 < i + 1 /\ 1 \in Nat
    BY <1>2
  <2> QED BY <1>1, <1>2, <1>6, <2>1, TypedKept, ArrangedKept DEF Phases
<1>8. PICK m \in 0..Len(files) :
        /\ Split(m)
        /\ slots_filled = IF idx <= m + 1 THEN 0 ELSE 1
        /\ Fitting(m) => Built(m) /\ (slots_filled = 0 => Len(rom) = START_IM_COMPLEX)
  BY <1>1 DEF WritingComplex
<1>9. i = m + 1 /\ m \in Nat
  <2>1. i <= m + 1
    BY <1>0, <1>2, <1>8
  <2>2. ~ (i <= m)
    BY <1>1, <1>2, <1>8 DEF Split, TIER_SIMPLE, TIER_COMPLEX
  <2> QED BY <1>2, <2>1, <2>2
<1>10. Split(m)'
  BY <1>1, <1>8 DEF Split, TierAt
<1>11. ASSUME Fitting(m)'
       PROVE  /\ Built(m)' /\ Len(rom') = START_IM_COMPLEX + PROGRAM_INTERVAL_COMPLEX
              /\ Holds(files[m + 1], START_IM_COMPLEX, PROGRAM_INTERVAL_COMPLEX)'
  <2>1. Fitting(m) /\ m \in 0..MAX_PROGS_SIMPLE
    BY <1>1, <1>9, <1>11, Intervals DEF Fitting
  <2>2. Built(m) /\ old = START_IM_COMPLEX
    BY <1>2, <1>8, <2>1 DEF old
  <2>3. START_IM_COMPLEX <= Len(rom)
    BY <1>2, <2>2 DEF old
  <2>4. Built(m)'
    BY <1>1, <1>2, <1>5, <2>1, <2>2, <2>3, BuiltKept
  <2> QED BY <1>6, <1>9, <2>2, <2>4
<1>12. WritingComplex'
  <2>1. slots_filled' = IF idx' <= m + 1 THEN 0 ELSE 1
    BY <1>1, <1>2, <1>9
  <2>2. m \in 0..Len(files')
    BY <1>1, <1>8
  <2> QED BY <1>2, <1>10, <1>11, <2>1, <2>2 DEF WritingComplex
<1> QED BY <1>1, <1>7, <1>12 DEF RomInv

LEMMA DropStep ==
  ASSUME RomInv, DropComplex
  PROVE  RomInv'
<1>1. /\ phase = "complex" /\ phase' = phase /\ idx <= Len(files) /\ idx' = Len(files) + 1
      /\ slots_filled >= 1
      /\ UNCHANGED <<dir, inputs, files, slots_filled, rom>>
      /\ Typed /\ Arranged /\ WritingComplex
  BY DEF DropComplex, RomInv, MAX_PROGS_COMPLEX
<1>2. /\ idx \in Nat \ {0} /\ Len(files) \in Nat /\ slots_filled \in Nat /\ slots_filled < idx
      /\ rom \in Seq(Word) /\ Len(files) + 1 \in 1..Len(files) + 1
      /\ slots_filled < Len(files) + 1 /\ phase \in Phases
  BY <1>1, TypedFacts
<1>3. Typed' /\ Arranged'
  BY <1>1, <1>2, TypedKept, ArrangedKept
<1>4. PICK m \in 0..Len(files) :
          /\ Split(m)
          /\ slots_filled = IF idx <= m + 1 THEN 0 ELSE 1
          /\ Fitting(m) =>
               /\ Built(m)
               /\ slots_filled = 0 => Len(rom) = START_IM_COMPLEX
               /\ slots_filled = 1 => /\ Len(rom) = START_IM_COMPLEX + PROGRAM_INTERVAL_COMPLEX
                                      /\ Holds(files[m + 1], START_IM_COMPLEX, PROGRAM_INTERVAL_COMPLEX)
  BY <1>1 DEF WritingComplex
<1>5. slots_filled = 1 /\ ~ (Len(files) + 1 <= m + 1)
  BY <1>1, <1>2, <1>4
<1>6. Split(m)' /\ (Built(m)' <=> Built(m)) /\ (Fitting(m)' <=> Fitting(m))
      /\ (Holds(files[m + 1], START_IM_COMPLEX, PROGRAM_INTERVAL_COMPLEX)'
            <=> Holds(files[m + 1], START_IM_COMPLEX, PROGRAM_INTERVAL_COMPLEX))
  BY <1>1, <1>4 DEF Split, TierAt, Built, Fitting, InSlots, Holds, Empty, inputs
<1>7. WritingComplex'
  <2>1. m \in 0..Len(files') /\ slots_filled' = IF idx' <= m + 1 THEN 0 ELSE 1
    BY <1>1, <1>4, <1>5
  <2> QED BY <1>1, <1>4, <1>6, <2>1 DEF WritingComplex
<1> QED BY <1>1, <1>3, <1>7 DEF RomInv

LEMMA FillComplexStep ==
  ASSUME RomInv, FillComplex
  PROVE  RomInv'
<1> DEFINE count == (MAX_PROGS_COMPLEX - slots_filled) * PROGRAM_INTERVAL_COMPLEX
<1>1. /\ phase = "complex" /\ phase' = "done" /\ idx > Len(files)
      /\ rom' = rom \o Nops(count)
      /\ UNCHANGED <<dir, inputs, files, idx, slots_filled>> /\ UNCHANGED <<length, so_length>>
      /\ Typed /\ Arranged /\ WritingComplex
  BY DEF FillComplex, RomInv, inputs
<1>2. /\ idx = Len(files) + 1 /\ Len(files) \in Nat /\ rom \in Seq(Word) /\ idx \in 1..Len(files) + 1
      /\ slots_filled \in Nat /\ slots_filled < idx
  BY <1>1, TypedFacts
<1>3. PICK m \in 0..Len(files) :
          /\ Split(m)
          /\ slots_filled = IF idx <= m + 1 THEN 0 ELSE 1
          /\ Fitting(m) =>
               /\ Built(m)
               /\ slots_filled = 0 => Len(rom) = START_IM_COMPLEX
               /\ slots_filled = 1 => /\ Len(rom) = START_IM_COMPLEX + PROGRAM_INTERVAL_COMPLEX
                                      /\ Holds(files[m + 1], START_IM_COMPLEX, PROGRAM_INTERVAL_COMPLEX)
  BY <1>1 DEF WritingComplex
<1>4. \/ slots_filled = 0 /\ m = Len(files) /\ count = PROGRAM_INTERVAL_COMPLEX
      \/ slots_filled = 1 /\ m < Len(files) /\ count = 0
  <2>1. \/ slots_filled = 0 /\ m = Len(files)
        \/ slots_filled = 1 /\ m < Len(files)
    BY <1>2, <1>3
  <2>2. 1 * PROGRAM_INTERVAL_COMPLEX = PROGRAM_INTERVAL_COMPLEX /\ 0 * PROGRAM_INTERVAL_COMPLEX = 0
    BY Intervals
  <2>3. 1 - 0 = 1 /\ 1 - 1 = 0
    OBVIOUS
  <2> QED BY <2>1, <2>2, <2>3 DEF MAX_PROGS_COMPLEX
<1> HIDE DEF count
<1>5. count \in Nat
  BY <1>4, Intervals
<1>6. /\ Nops(count) \in Seq(Word) /\ rom' \in Seq(Word) /\ Len(rom') = Len(rom) + count
      /\ \A base, n \in Nat : Len(rom) <= base /\ base + n <= Len(rom) + count => Empty(base, n)'
  BY <1>1, <1>2, <1>5, Filled
<1>7. Typed' /\ Arranged'
  BY <1>1, <1>2, <1>6, TypedKept, ArrangedKept DEF Phases
<1>8. Split(m)' /\ m \in Nat /\ m \in 0..Len(files')
  BY <1>1, <1>2, <1>3 DEF Split, TierAt
<1>9. ASSUME Fitting(m)'
      PROVE  /\ Built(m)'
             /\ Len(rom') = START_IM_COMPLEX + PROGRAM_INTERVAL_COMPLEX
             /\ \/ m = Len(files) /\ Empty(START_IM_COMPLEX, PROGRAM_INTERVAL_COMPLEX)'
                \/ /\ m < Len(files)
                   /\ Holds(files[m + 1], START_IM_COMPLEX, PROGRAM_INTERVAL_COMPLEX)'
  <2>1. Fitting(m) /\ m \in 0..MAX_PROGS_SIMPLE
    BY <1>1, <1>8, <1>9, Intervals DEF Fitting
  <2>2. START_IM_COMPLEX <= Len(rom) /\ Built(m) /\ Len(rom) \in Nat
    BY <1>2, <1>3, <1>4, <2>1, Intervals
  <2>3. Built(m)'
    BY <1>1, <1>2, <1>6, <2>1, <2>2, BuiltKept
  <2>4. CASE slots_filled = 0
    <3>1. Len(rom) = START_IM_COMPLEX /\ m = Len(files) /\ count = PROGRAM_INTERVAL_COMPLEX
      BY <1>3, <1>4, <2>1, <2>4
    <3>2. START_IM_COMPLEX + PROGRAM_INTERVAL_COMPLEX <= Len(rom) + count
      BY <3>1, Intervals
    <3>3. Empty(START_IM_COMPLEX, PROGRAM_INTERVAL_COMPLEX)'
      <4>1. START_IM_COMPLEX \in Nat /\ PROGRAM_INTERVAL_COMPLEX \in Nat
        BY Intervals
      <4>2. \A base, n : base = START_IM_COMPLEX /\ n = PROGRAM_INTERVAL_COMPLEX => Empty(base, n)'
        BY <1>6, <2>2, <3>1, <3>2, <4>1
      <4> QED BY <4>2
    <3> QED BY <1>6, <2>3, <3>1, <3>3
  <2>5. CASE slots_filled = 1
    <3>1. /\ Len(rom) = START_IM_COMPLEX + PROGRAM_INTERVAL_COMPLEX /\ m < Len(files) /\ count = 0
          /\ Holds(files[m + 1], START_IM_COMPLEX, PROGRAM_INTERVAL_COMPLEX)
      BY <1>3, <1>4, <2>1, <2>5
    <3>2. START_IM_COMPLEX + PROGRAM_INTERVAL_COMPLEX <= Len(rom)
      BY <3>1, Intervals
    <3>3. \A d : d = files[m + 1] => Holds(d, START_IM_COMPLEX, PROGRAM_INTERVAL_COMPLEX)'
      BY <1>1, <1>2, <1>6, <3>1, <3>2, SlotKept, Intervals
    <3>4. Len(rom') = START_IM_COMPLEX + PROGRAM_INTERVAL_COMPLEX
      BY <1>6, <3>1, Intervals
    <3> QED BY <1>1, <2>3, <3>1, <3>3, <3>4
  <2> QED BY <1>4, <2>4, <2>5
<1>10. Complete'
  BY <1>1, <1>8, <1>9 DEF Complete
<1> QED BY <1>1, <1>7, <1>10 DEF RomInv

-----------------------------------------------------------------------------
(* The theorems. *)

LEMMA RomNext ==
  ASSUME RomInv, [NextRom]_romvars
  PROVE  RomInv'
<1>0. rom \in Seq(Word) /\ files \in Seq(Entries) /\ Len(files) \in Nat /\ idx \in Nat \ {0} /\ Typed
  BY TypedFacts DEF RomInv
<1>1. CASE \E e \in dir : SkipEntry(e)
  BY <1>1, SkipStep
<1>2. CASE \E e \in dir : AddEntry(e)
  BY <1>2, AddStep
<1>3. CASE \E e \in dir : TooManyEntries(e)
  BY <1>0, <1>3, FailStep DEF TooManyEntries
<1>4. CASE SortEntries
  BY <1>4, SortStep
<1>5. CASE WriteSO
  BY <1>5, SOStep
<1>6. CASE OpenFails
  BY <1>0, <1>6, FailStep DEF OpenFails
<1>7. CASE OtherTier
  BY <1>7, OtherStep
<1>8. ASSUME NEW interval, ProgramTooLong(interval), phase \in {"simple", "complex"},
             idx <= Len(files)
      PROVE  RomInv'
  <2> DEFINE e == files[idx]
  <2>1. e \in Entries /\ e \in Found
    BY <1>0, <1>8 DEF RomInv, Typed, Arranged, Listing
  <2>2. Text(e.name, length[e.name]) \in Seq(Word)
    BY <1>0, <2>1, TypedFacts, TextWords
  <2>3. rom' = rom \o Text(e.name, length[e.name])
    BY <1>8 DEF ProgramTooLong
  <2>4. rom' \in Seq(Word)
    <3> HIDE DEF e
    <3> QED BY <1>0, <2>2, <2>3, Concatenated
  <2> QED BY <1>8, <2>4, FailStep DEF ProgramTooLong
<1>9. CASE WriteSimple
  <2>1. CASE WriteProgram(PROGRAM_INTERVAL)
    BY <1>9, <2>1, SimpleStep DEF WriteSimple, WriteProgram
  <2>2. CASE ProgramTooLong(PROGRAM_INTERVAL)
    BY <1>8, <1>9, <2>2 DEF WriteSimple
  <2> QED BY <1>9, <2>1, <2>2 DEF WriteSimple
<1>10. CASE FillSimple
  BY <1>10, FillSimpleStep
<1>11. CASE WriteComplex
  <2>1. CASE WriteProgram(PROGRAM_INTERVAL_COMPLEX)
    BY <1>11, <2>1, ComplexStep DEF WriteComplex, WriteProgram
  <2>2. CASE ProgramTooLong(PROGRAM_INTERVAL_COMPLEX)
    BY <1>8, <1>11, <2>2 DEF WriteComplex
  <2> QED BY <1>11, <2>1, <2>2 DEF WriteComplex
<1>12. CASE DropComplex
  BY <1>12, DropStep
<1>13. CASE FillComplex
  BY <1>13, FillComplexStep
<1>14. CASE UNCHANGED romvars
  <2>1. /\ phase' = phase /\ dir' = dir /\ length' = length /\ so_length' = so_length
        /\ files' = files /\ idx' = idx /\ slots_filled' = slots_filled /\ rom' = rom
    BY <1>14 DEF romvars
  <2>2. /\ Found' = Found /\ Listing' = Listing
        /\ \A k : TierAt(k)' = TierAt(k)
        /\ \A e, base, n : Holds(e, base, n)' <=> Holds(e, base, n)
        /\ \A base, n : Empty(base, n)' <=> Empty(base, n)
    BY <2>1 DEF Found, Listing, TierAt, Holds, Empty
  <2>3. /\ \A m : Split(m)' <=> Split(m)
        /\ \A m : InSlots(m)' <=> InSlots(m)
        /\ \A m : Fitting(m)' <=> Fitting(m)
        /\ \A m : \A base, n : Holds(files[m + 1], base, n)' <=> Holds(files[m + 1], base, n)
    BY <2>1, <2>2 DEF Split, InSlots, Fitting, Holds
  <2>4. \A m : Built(m)' <=> Built(m)
    BY <2>2, <2>3 DEF Built
  <2>5. Typed' <=> Typed
    <3>1. RomTypeOK' <=> RomTypeOK
      BY <2>1, <2>2 DEF RomTypeOK
    <3> QED BY <2>1, <2>2, <3>1 DEF Typed
  <2>6. (Scanning' <=> Scanning) /\ (Arranged' <=> Arranged)
    BY <2>1, <2>2 DEF Scanning, Arranged
  <2>7. WritingSimple' <=> WritingSimple
    BY <2>1, <2>2, <2>3 DEF WritingSimple, InSlots
  <2>8. WritingComplex' <=> WritingComplex
    BY <2>1, <2>3, <2>4 DEF WritingComplex
  <2>9. Complete' <=> Complete
    BY <2>1, <2>2, <2>3, <2>4 DEF Complete
  <2> QED BY <2>1, <2>5, <2>6, <2>7, <2>8, <2>9 DEF RomInv
<1> QED
  BY <1>1, <1>2, <1>3, <1>4, <1>5, <1>6, <1>7, <1>9, <1>10, <1>11, <1>12, <1>13, <1>14 DEF NextRom

THEOREM RomInvariant == RomSpec => []RomInv
<1>1. RomInv /\ [NextRom]_romvars => RomInv'
  BY RomNext
<1> QED BY <1>1, RomInit, PTL DEF RomSpec

\* The array of files found holds MAX_FILES entries at most, whatever the
\* directory has, and both loops stay within the files found.
THEOREM RomTyped == RomSpec => []RomTypeOK
<1>1. RomInv => RomTypeOK
  BY DEF RomInv, Typed
<1> QED BY <1>1, RomInvariant, PTL

\* The simple programs are the first files of the list, and as many.
LEMMA SimpleFirst ==
  ASSUME RomInv, phase = "done", NEW m \in 0..Len(files), Split(m)
  PROVE  /\ Simple = {files[k] : k \in 1..m} /\ Cardinality(Simple) = m
         /\ \A k \in 1..m : LET before == {f \in Simple : ListedBefore(f, files[k])}
                            IN  Cardinality(before) + 1 = k
<1>1. Typed /\ Arranged /\ Len(files) \in Nat /\ m \in Nat /\ m <= Len(files)
  BY TypedFacts DEF RomInv
<1>2. Simple = {files[k] : k \in 1..m}
  <2>1. Simple = {e \in Listing : e.tier = TIER_SIMPLE}
    BY <1>1 DEF Simple, Arranged
  <2>2. ASSUME NEW k \in 1..Len(files) PROVE files[k].tier = TIER_SIMPLE <=> k <= m
    BY DEF Split, TierAt
  <2>3. \A k \in 1..m : k \in 1..Len(files) /\ k <= m
    BY <1>1
  <2>4. \A k \in 1..Len(files) : k <= m => k \in 1..m
    BY <1>1
  <2> QED BY <2>1, <2>2, <2>3, <2>4 DEF Listing
\* Counting what the files before a position list.
<1>3. ASSUME NEW j \in 0..m PROVE Cardinality({files[k] : k \in 1..j}) = j
  <2> DEFINE S == {files[k] : k \in 1..j}  f == [k \in 1..j |-> files[k]]
  <2>1. \A i, k \in 1..j : files[i] = files[k] => i = k
    <3>1. \A k \in 1..j : k \in 1..Len(files)
      BY <1>1
    <3> QED BY <1>1, <3>1 DEF Typed
  <2>2. f \in Bijection(1..j, S)
    BY <2>1 DEF Bijection, Injection, Surjection, IsInjective
  <2>3. ExistsBijection(1..j, S) /\ j \in Nat
    <3> HIDE DEF S, f
    <3> QED BY <1>1, <2>2 DEF ExistsBijection
  <2> HIDE DEF S
  <2> QED BY <2>3, FS_CountingElements DEF S
<1>4. Cardinality(Simple) = m
  <2>1. m \in 0..m
    BY <1>1
  <2> QED BY <1>2, <1>3, <2>1
<1>5. ASSUME NEW k \in 1..m
      PROVE  {f \in Simple : ListedBefore(f, files[k])} = {files[j] : j \in 1..(k - 1)}
  <2>1. ASSUME NEW j \in 1..m PROVE ListedBefore(files[j], files[k]) <=> j < k
    <3>1. /\ j \in 1..Len(files) /\ k \in 1..Len(files) /\ j <= m /\ k <= m /\ j \in Nat /\ k \in Nat
      BY <1>1
    <3>2. files[j].tier = TIER_SIMPLE /\ files[k].tier = TIER_SIMPLE
      BY <3>1 DEF Split, TierAt
    <3>3. files[j] \in Entries /\ files[k] \in Entries
      BY <1>1, <3>1 DEF Typed
    <3>4. /\ files[j].order \in Nat /\ files[k].order \in Nat /\ files[j].name \in Nat
          /\ files[k].name \in Nat
      BY <3>3, EntriesAssumption
    <3>5. CASE j < k
      <4>1. compare_entries(files[j], files[k])
        BY <1>1, <3>1, <3>5 DEF Arranged
      <4> QED BY <3>2, <3>5, <4>1 DEF compare_entries, ListedBefore, TIER_SIMPLE
    <3>6. CASE k < j
      <4>1. compare_entries(files[k], files[j])
        BY <1>1, <3>1, <3>6 DEF Arranged
      <4>2. ListedBefore(files[k], files[j])
        BY <3>2, <4>1 DEF compare_entries, ListedBefore, TIER_SIMPLE
      <4> QED BY <3>1, <3>4, <3>6, <4>2 DEF ListedBefore
    <3>7. CASE j = k
      BY <3>1, <3>4, <3>7 DEF ListedBefore
    <3> QED BY <3>1, <3>5, <3>6, <3>7
  <2>2. \A j \in 1..m : j < k => j \in 1..(k - 1)
    BY <1>1
  <2>3. \A j \in 1..(k - 1) : j \in 1..m /\ j < k
    BY <1>1
  <2> QED BY <1>2, <2>1, <2>2, <2>3
<1>6. ASSUME NEW k \in 1..m
      PROVE  Cardinality({f \in Simple : ListedBefore(f, files[k])}) + 1 = k
  <2>1. k - 1 \in 0..m /\ k \in Nat
    BY <1>1
  <2>2. Cardinality({files[j] : j \in 1..(k - 1)}) = k - 1
    BY <1>3, <2>1
  <2> DEFINE before == {f \in Simple : ListedBefore(f, files[k])}
  <2>3. Cardinality(before) = k - 1
    <3>1. before = {files[j] : j \in 1..(k - 1)}
      BY <1>5
    <3> HIDE DEF before
    <3> QED BY <2>2, <3>1
  <2> HIDE DEF before
  <2>4. Cardinality(before) + 1 = k
    BY <2>1, <2>3
  <2> QED BY <2>4 DEF before
<1> QED BY <1>2, <1>4, <1>6

\* What a completed image has, if the system and the simple programs fit.
LEMMA Image ==
  ASSUME RomInv, phase = "done", Fits
  PROVE  \E m \in 0..Len(files) :
           /\ m \in 0..MAX_PROGS_SIMPLE /\ Split(m) /\ Built(m)
           /\ Len(rom) = START_IM_COMPLEX + PROGRAM_INTERVAL_COMPLEX
           /\ \/ m = Len(files) /\ Empty(START_IM_COMPLEX, PROGRAM_INTERVAL_COMPLEX)
              \/ /\ m < Len(files)
                 /\ Holds(files[m + 1], START_IM_COMPLEX, PROGRAM_INTERVAL_COMPLEX)
<1>1. PICK m \in 0..Len(files) :
        /\ Split(m)
        /\ Fitting(m) =>
             /\ Built(m)
             /\ Len(rom) = START_IM_COMPLEX + PROGRAM_INTERVAL_COMPLEX
             /\ \/ m = Len(files) /\ Empty(START_IM_COMPLEX, PROGRAM_INTERVAL_COMPLEX)
                \/ /\ m < Len(files)
                   /\ Holds(files[m + 1], START_IM_COMPLEX, PROGRAM_INTERVAL_COMPLEX)
  BY DEF RomInv, Complete
<1>2. Cardinality(Simple) = m
  BY <1>1, SimpleFirst
<1>3. Fitting(m) /\ m \in 0..MAX_PROGS_SIMPLE
  BY <1>2, Intervals DEF Fits, Fitting
<1> QED BY <1>1, <1>3

\* The slot of each simple program is its rank in g_file_order, however readdir
\* lists the directory and however many programs it has.
THEOREM SlotsCorrect == RomSpec => []SlotsInOrder
<1>1. ASSUME RomInv, phase = "done", Fits, NEW e \in Simple
      PROVE  LET before == {f \in Simple : ListedBefore(f, e)}
             IN  Holds(e, PROG_IM_BASE(Cardinality(before) + 1), PROGRAM_INTERVAL)
  <2>1. PICK m \in 0..Len(files) : m \in 0..MAX_PROGS_SIMPLE /\ Split(m) /\ Built(m)
    BY <1>1, Image
  <2>2. PICK k \in 1..m : e = files[k]
    BY <1>1, <2>1, SimpleFirst
  <2>3. Cardinality({f \in Simple : ListedBefore(f, e)}) + 1 = k
    BY <1>1, <2>1, <2>2, SimpleFirst
  <2>4. k \in 1..MAX_PROGS /\ k <= MAX_PROGS_SIMPLE
    BY <2>1, Intervals DEF MAX_PROGS, MAX_PROGS_COMPLEX
  <2>5. Holds(e, Base(k), PROGRAM_INTERVAL)
    BY <2>1, <2>2 DEF Built, InSlots
  <2> QED BY <2>3, <2>4, <2>5, SlotsBehindSO
<1>2. RomInv => SlotsInOrder
  BY <1>1 DEF SlotsInOrder
<1> QED BY <1>2, RomInvariant, PTL

\* A slot has one program from its first instruction, or none; a program that is
\* longer than its slot never gets into a completed image.
THEOREM ProgramsApart == RomSpec => []OneProgramPerSlot
<1>1. ASSUME RomInv, phase = "done", Fits, NEW n \in 1..MAX_PROGS
      PROVE  \/ Empty(PROG_IM_BASE(n), Interval(n))
             \/ \E e \in Found : Holds(e, PROG_IM_BASE(n), Interval(n))
  <2>1. PICK m \in 0..Len(files) :
           /\ m \in 0..MAX_PROGS_SIMPLE /\ Split(m) /\ Built(m)
           /\ \/ m = Len(files) /\ Empty(START_IM_COMPLEX, PROGRAM_INTERVAL_COMPLEX)
              \/ /\ m < Len(files)
                 /\ Holds(files[m + 1], START_IM_COMPLEX, PROGRAM_INTERVAL_COMPLEX)
    BY <1>1, Image
  <2>2. /\ \A k \in 1..Len(files) : files[k] \in Found
        /\ Len(files) \in Nat /\ m \in Nat /\ n \in Nat
    BY <1>1, TypedFacts DEF RomInv, Arranged, Listing
  <2>3. CASE n <= MAX_PROGS_SIMPLE
    <3>1. PROG_IM_BASE(n) = Base(n) /\ Interval(n) = PROGRAM_INTERVAL
      BY <2>3, SlotsBehindSO
    <3>2. CASE n <= m
      <4>1. n \in 1..m /\ n \in 1..Len(files)
        BY <2>1, <2>2, <3>2
      <4> QED BY <2>1, <2>2, <3>1, <4>1 DEF Built, InSlots
    <3>3. CASE ~ (n <= m)
      <4>1. n \in (m + 1)..MAX_PROGS_SIMPLE
        BY <2>2, <2>3, <3>3, Intervals
      <4> QED BY <2>1, <3>1, <4>1 DEF Built
    <3> QED BY <3>2, <3>3
  <2>4. CASE ~ (n <= MAX_PROGS_SIMPLE)
    <3>1. PROG_IM_BASE(n) = START_IM_COMPLEX /\ Interval(n) = PROGRAM_INTERVAL_COMPLEX
      BY <2>2, <2>4, SlotsBehindSO, Intervals
    <3>2. m < Len(files) => m + 1 \in 1..Len(files)
      BY <2>2
    <3> QED BY <2>1, <2>2, <3>1, <3>2
  <2> QED BY <2>3, <2>4
<1>2. RomInv => OneProgramPerSlot
  BY <1>1 DEF OneProgramPerSlot
<1> QED BY <1>2, RomInvariant, PTL

\* Whichever of the simple programs are missing, the complex program starts where
\* the kernel jumps to, and the image covers the instruction memory.
THEOREM OffsetsCorrect == RomSpec => []FixedOffsets
<1>1. ASSUME RomInv, phase = "done", Fits
      PROVE  /\ Len(rom) = START_IM_COMPLEX + PROGRAM_INTERVAL_COMPLEX
             /\ LET complex == Found \ Simple
                IN  IF complex = {} THEN Empty(START_IM_COMPLEX, PROGRAM_INTERVAL_COMPLEX)
                    ELSE \E e \in complex : Holds(e, START_IM_COMPLEX, PROGRAM_INTERVAL_COMPLEX)
  <2>1. PICK m \in 0..Len(files) :
           /\ Split(m)
           /\ Len(rom) = START_IM_COMPLEX + PROGRAM_INTERVAL_COMPLEX
           /\ \/ m = Len(files) /\ Empty(START_IM_COMPLEX, PROGRAM_INTERVAL_COMPLEX)
              \/ /\ m < Len(files)
                 /\ Holds(files[m + 1], START_IM_COMPLEX, PROGRAM_INTERVAL_COMPLEX)
    BY <1>1, Image
  <2>2. Found = Listing /\ Len(files) \in Nat /\ m \in Nat
    BY <1>1, TypedFacts DEF RomInv, Arranged
  <2>3. \A k \in 1..Len(files) : files[k].tier = TIER_SIMPLE <=> k <= m
    BY <2>1 DEF Split, TierAt
  <2>4. CASE m = Len(files)
    <3>1. Found \ Simple = {}
      BY <2>2, <2>3, <2>4 DEF Simple, Listing
    <3> QED BY <2>1, <2>2, <2>4, <3>1
  <2>5. CASE m < Len(files)
    <3>1. m + 1 \in 1..Len(files) /\ ~ (m + 1 <= m)
      BY <2>2, <2>5
    <3>2. files[m + 1] \in Found \ Simple
      BY <2>2, <2>3, <3>1 DEF Simple, Listing
    <3> QED BY <2>1, <2>2, <2>5, <3>2
  <2> QED BY <2>2, <2>4, <2>5
<1>2. RomInv => FixedOffsets
  BY <1>1 DEF FixedOffsets
<1> QED BY <1>2, RomInvariant, PTL

================================================================================
