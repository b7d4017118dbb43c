------------------------------ MODULE HandOff ------------------------------
(***************************************************************************)
(* The point of no return, do_mmu_mapping_and_jump of jump_p4.c and        *)
(* jump_s3.c, over the plan of ImagePlan: copies into on-chip memory, the  *)
(* MMU, the caches, and the jump into the payload.                         *)
(*                                                                         *)
(* The external RAM is seen in pages.  An entry of the MMU shows either    *)
(* the loader's own page or a page of the staging buffer; the cache may    *)
(* hold lines of a page, fetched through the entry of that time, that      *)
(* differ from the memory behind it ("dirty") or not.  The two levels of   *)
(* cache of the P4 are one here.  On-chip memory is seen in cells; a value *)
(* is an offset in the image, as in ImagePlan, or Lost.                    *)
(***************************************************************************)
EXTENDS ImagePlan, FiniteSets

CONSTANTS
  BufferPages,  \* pages of the window through which the bundle is read
  Memory,       \* cells of on-chip memory, of each chip
  IWindow,      \* the bus addresses that are the cell that many below
  Alias,
  WordWindows,  \* windows that take whole words only
  Word,
  Scratch,      \* cells of evict_buf
  Resident,     \* those of the hand-off's code, stack and safe_ variables
  Own,          \* not a page of fake_flash
  Lost          \* neither zero nor a byte of the image

\* No address is in a mapped window and in one of on-chip memory; what
\* follows a cell on the data bus is not the instruction bus.
ASSUME HandOffAssumption ==
  /\ BufferPages \subseteq 0..(Span \div Page - 1)
  /\ Word \in Nat \ {0} /\ Alias \in Nat
  /\ Own \notin Nat
  /\ \A c \in Chips :
       /\ Scratch[c] \cup Resident[c] \subseteq Memory[c]
       /\ IWindow[c] \in Nat \X Nat
       /\ IWindow[c][1] - 1 \notin Memory[c]
       /\ \A w \in MappedWindows[c], v \in DirectWindows[c] : w[2] <= v[1] \/ v[2] <= w[1]

VARIABLES
  stage,   \* the step that comes next; "plan" before, "payload" and "wild" after
  mmu,     \* of a page of the window, what it shows: Own or a page of fake_flash
  cached,  \* pages of which the cache holds lines fetched through an older entry
  dirty,   \* those with lines that memory has not got
  flushed, \* fake_flash is in memory, not in the cache alone
  spoilt,  \* pages of fake_flash that a line of another page was written to
  sram,    \* what was copied to on-chip memory, by cell
  pending  \* cells whose copy is still in the cache

Pages == 0..(Span \div Page - 1)

hvars == <<stage, mmu, cached, dirty, flushed, spoilt, sram, pending>>
vars  == <<ivars, hvars>>

Cell(a)    == IF In(a, IWindow[chip]) THEN a - Alias ELSE a
InWords(a) == \E w \in WordWindows[chip] : In(a, w)
Padded(n)  == n + ((Word - (n % Word)) % Word)

HandOffInit ==
  /\ stage = "plan"
  /\ mmu = [p \in Pages |-> Own]
  /\ cached = Pages /\ dirty = Pages
  /\ flushed = FALSE /\ spoilt = {}
  /\ sram = <<>> /\ pending = {}

\* esp_image_plan ends with a write-back of the staging buffer, and app_main
\* passes the plan on.
Commit ==
  /\ stage = "plan"
  /\ Finish
  /\ flushed' = (maxOff > 0)
  /\ stage' = IF chip = "P4" THEN "evict" ELSE "writeback"
  /\ UNCHANGED <<mmu, cached, dirty, spoilt, sram, pending>>
---------------------------------------------------------------------------
\* Every store to evict_buf takes the place of some line; after as many as
\* the cache has, no line of another address is left.
EvictBuf ==
  /\ sram' = [c \in DOMAIN sram |-> IF c \in Scratch[chip] THEN Lost ELSE sram[c]]
  /\ pending' = {}

\* JMP[4] of the P4.
Evict ==
  /\ chip = "P4" /\ stage = "evict"
  /\ EvictBuf
  /\ dirty' = {} /\ cached' = {} /\ flushed' = TRUE
  /\ stage' = "copy"
  /\ UNCHANGED <<mmu, spoilt>>

\* Step 6 of the S3.
WriteBack ==
  /\ chip = "S3" /\ stage = "writeback"
  /\ flushed' = (flushed \/ maps # <<>>)
  /\ stage' = "copy"
  /\ UNCHANGED <<mmu, cached, dirty, spoilt, sram, pending>>

\* Bytes that a copy stores, the last word filled up with zeros where only
\* words can be stored.
Stored(c) == IF InWords(c.dest) THEN Padded(c.len) ELSE c.len
CellsOf(c) == {Cell(c.dest + b) : b \in 0..(Stored(c) - 1)}

ReadBuffer(o) == IF \A p \in BufferPages : mmu[p] = Own THEN o ELSE Lost

Copied(mem, c) ==
  [x \in DOMAIN mem \cup CellsOf(c) |->
     IF x \notin CellsOf(c) THEN mem[x]
     ELSE LET b == CHOOSE b \in 0..(Stored(c) - 1) : Cell(c.dest + b) = x
          IN IF b < c.len THEN ReadBuffer(c.src + b) ELSE Zero]

\* The memory after the first n copies.
AfterCopies[n \in 0..MaxCopies] ==
  IF n = 0 THEN sram ELSE Copied(AfterCopies[n - 1], copies[n])

Touched == UNION {CellsOf(copies[k]) : k \in DOMAIN copies}

\* A store where there is no memory, or a word store off its place, is an
\* exception.
Storable ==
  /\ Touched \subseteq Memory[chip]
  /\ \A k \in DOMAIN copies :
       InWords(copies[k].dest) /\ copies[k].len > 0 => copies[k].dest % Word = 0

\* The copies read the bundle through the cache, which brings lines of the
\* loader's pages into it and may put others out.  Once the hand-off's own
\* memory is written over, nothing more can be said.
CopySegments ==
  /\ stage = "copy"
  /\ sram' = AfterCopies[Len(copies)]
  /\ pending' = IF chip = "P4" THEN Touched ELSE {}
  /\ cached' = Pages
  /\ dirty' \in {dirty, {}}
  /\ stage' = IF Storable /\ Touched \cap Resident[chip] = {} THEN "map" ELSE "wild"
  /\ UNCHANGED <<mmu, flushed, spoilt>>

PagesIn(m)  == (m.len + Page - 1) \div Page
\* The entry of page e of a mapping.  The P4 cuts the number to the size of
\* its table; the S3's table ends where its window does.
Entry(m, e) == LET n == (Linear(m.vaddr) \div Page) + e IN
  IF chip = "P4" THEN n % (Span \div Page) ELSE n
Covering(p) == {k \in DOMAIN maps : \E e \in 0..(PagesIn(maps[k]) - 1) : Entry(maps[k], e) = p}
Remapped    == {p \in Pages : Covering(p) # {}}

\* Of two mappings of a page the later stays.
Mapped == [p \in Pages |->
  IF p \notin Remapped THEN mmu[p]
  ELSE LET k == CHOOSE k \in Covering(p) : \A j \in Covering(p) : j <= k
           e == CHOOSE e \in 0..(PagesIn(maps[k]) - 1) : Entry(maps[k], e) = p
       IN (maps[k].paddr \div Page) + e]

\* On the P4 every print and every entry is a store that may put a dirty line
\* out, now into the page the new entry shows.  The S3 stores to registers
\* only.
ProgramMmu ==
  /\ stage = "map"
  /\ mmu' = Mapped
  /\ spoilt' \in {spoilt} \cup
       (IF chip = "P4" THEN {spoilt \cup {Mapped[p] : p \in Remapped \cap dirty}} ELSE {})
  /\ stage' = "invalidate"
  /\ UNCHANGED <<cached, dirty, flushed, sram, pending>>

\* Mutant: the caches are invalidated for an empty range.
InvalidateNothing ==
  /\ stage = "invalidate"
  /\ stage' = IF chip = "P4" THEN "drain" ELSE "jump"
  /\ UNCHANGED <<mmu, cached, dirty, flushed, spoilt, sram, pending>>

\* The P4 invalidates what it has mapped, the S3 everything.
Invalidate ==
  /\ stage = "invalidate"
  /\ cached' = IF chip = "P4" THEN cached \ Remapped ELSE {}
  /\ dirty' = dirty \cap cached'
  /\ stage' = IF chip = "P4" THEN "drain" ELSE "jump"
  /\ UNCHANGED <<mmu, flushed, spoilt, sram, pending>>

\* Mutant: the second write to evict_buf is left out.
DrainNothing ==
  /\ stage = "drain"
  /\ stage' = "jump"
  /\ UNCHANGED <<mmu, cached, dirty, flushed, spoilt, sram, pending>>

\* The second write to evict_buf, on the P4.
Drain ==
  /\ stage = "drain"
  /\ EvictBuf
  /\ stage' = "jump"
  /\ UNCHANGED <<mmu, cached, dirty, flushed, spoilt>>

Jump ==
  /\ stage = "jump"
  /\ stage' = "payload"
  /\ UNCHANGED <<mmu, cached, dirty, flushed, spoilt, sram, pending>>

HandOffStep == Evict \/ WriteBack \/ CopySegments \/ ProgramMmu \/ Invalidate \/ Drain \/ Jump

PlanStep == CheckHeader \/ Measure \/ Allocate \/ PlaceMapped \/ PlaceDirect \/ PlaceNowhere

Init == PlanInit /\ HandOffInit
Next == (PlanStep /\ UNCHANGED hvars) \/ Commit \/ (HandOffStep /\ UNCHANGED ivars)
Spec == Init /\ [][Next]_vars
---------------------------------------------------------------------------
(* Properties *)

HandOffTypeOK ==
  /\ PlanTypeOK
  /\ stage \in {"plan", "evict", "writeback", "copy", "map", "invalidate", "drain", "jump",
                "payload", "wild"}
  /\ stage = "plan" \/ pass = "done"
  /\ mmu \in [Pages -> {Own} \cup 0..(maxOff \div Page)]
  /\ dirty \subseteq Pages /\ cached \subseteq Pages
  /\ flushed \in BOOLEAN
  /\ spoilt \subseteq 0..(maxOff \div Page)
  /\ DOMAIN sram \subseteq Touched
  /\ pending \subseteq DOMAIN sram

DirectSegs == {k \in 1..Len(image.segs) : IsDirect(image.segs[k].addr) /\ image.segs[k].len > 0}

\* The copies miss what the hand-off itself stands on.
ClearOfLoader == Touched \cap (Scratch[chip] \cup Resident[chip]) = {}

\* No two segments share a cell.
WellPlaced ==
  \A k, m \in DOMAIN copies : k # m => CellsOf(copies[k]) \cap CellsOf(copies[m]) = {}

\* What a load from external memory gives.
Load(a) ==
  LET p == Linear(a) \div Page IN
  IF mmu[p] = Own \/ p \in cached \/ mmu[p] \in spoilt \/ ~flushed THEN Lost
  ELSE fake[mmu[p] * Page + (a % Page)]

\* A segment that ends one byte into a page has that byte in a page that is
\* not mapped: LastPageIsMapped's.
IsLastByte(s, b) == b = s.len - 1 /\ (s.addr + s.len) % Page = 1

\* What the payload reads through the MMU is its own image: every byte of a
\* mapped segment, neither shifted nor under another segment or the prefix,
\* nor a line the cache had from before, nor one written back too late.
MappedReadsItsImage ==
  stage = "payload" /\ WellLaidOut =>
    \A k \in MappedSegs : LET s == image.segs[k] IN
      \A b \in 0..(s.len - 1) :
        IsLastByte(s, b) \/ Load(s.addr + b) = DataAt(image.segs)[k] + b

\* What it finds in on-chip memory is its image too, in the memory itself:
\* an instruction fetch does not see what the data cache still holds.
DirectReadsItsImage ==
  stage = "payload" /\ WellPlaced /\ ClearOfLoader =>
    \A k \in DirectSegs : LET s == image.segs[k] IN
      \A b \in 0..(s.len - 1) :
        /\ Cell(s.addr + b) \notin pending
        /\ sram[Cell(s.addr + b)] = DataAt(image.segs)[k] + b

\* esp_image.h: "MMU-mapped segments" are backed by the staging buffer, and
\* bootloader_explanation.md has an mmu_mapping_t cover each of them.
LastPageIsMapped ==
  stage = "payload" /\ WellLaidOut =>
    \A k \in MappedSegs : \A b \in 0..(image.segs[k].len - 1) :
      mmu[Linear(image.segs[k].addr + b) \div Page] # Own

\* jump_s3.c has its variables "clear of payload copy targets", and
\* bootloader_explanation.md evict_buf "clear of the payload region": what the
\* plan copies is kept off both.
HandOffKeepsItsMemory == stage # "plan" => ClearOfLoader
===========================================================================
