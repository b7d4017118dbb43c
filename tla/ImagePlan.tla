----------------------------- MODULE ImagePlan -----------------------------
(***************************************************************************)
(* esp_image_plan of main/esp_image.c: two walks over the segment table of *)
(* an ESP32 image.  The first measures the staging buffer (fake_flash) and *)
(* the second puts the flash-mapped segments into it, records the MMU      *)
(* mappings that will show them, and the copies into on-chip memory.       *)
(*                                                                         *)
(* A byte of the image is named by its offset in the image.  Addresses and *)
(* sizes are scaled down: Page stands for 64 KB.  The ESP32-S3 has two     *)
(* mapped windows over the same memory and a jump zone that the planner    *)
(* keeps copies off; the ESP32-P4 has one window and checks no zone, which *)
(* an empty one stands for.                                                *)
(***************************************************************************)
EXTENDS Naturals, Sequences

Chips == {"P4", "S3"}

CONSTANTS
  Page,           \* MMU page
  Span,           \* size of a mapped window, SOC_MMU_LINEAR_ADDR_MASK + 1
  MappedWindows,  \* of each chip, the <<from, to>>; a from is a multiple of Span
  DirectWindows,  \* those of on-chip memory
  JmpZone,        \* <<JMP_ZONE_BASE, JMP_ZONE_END>>
  HdrLen,         \* sizeof(esp_image_header_t)
  SegHdrLen,      \* sizeof(esp_image_segment_header_t)
  MaxSegments,    \* MAX_SEGMENT_COUNT
  MaxMappings,    \* MAX_MMU_MAPPINGS
  MaxCopies,      \* MAX_DIRECT_COPIES
  MaxData,        \* MAX_FIRMWARE_SIZE
  Addrs, Lens,    \* load addresses, of each chip, and lengths of the segments tried
  Zero            \* a byte of the staging buffer that no segment has written

ASSUME PlanAssumption ==
  /\ Page \in Nat \ {0, 1} /\ Span \in Nat \ {0}
  /\ {HdrLen, SegHdrLen, MaxSegments, MaxMappings, MaxCopies, MaxData} \subseteq Nat
  /\ HdrLen > 0
  /\ HdrLen + SegHdrLen <= Page      \* the prefix fits a page
  /\ Span % Page = 0
  /\ Lens \subseteq Nat /\ Zero \notin Nat
  /\ \A c \in Chips :
       /\ Addrs[c] \subseteq Nat
       /\ JmpZone[c] \in Nat \X Nat
       /\ \A w \in MappedWindows[c] \cup DirectWindows[c] : w \in Nat \X Nat
       /\ \A w \in MappedWindows[c] : w[1] % Span = 0 /\ w[2] = w[1] + Span

VARIABLES
  chip,     \* CONFIG_IDF_TARGET_...
  image,    \* its segment count, segment headers and size in bytes
  pass,     \* "header", "measure", "place", "done" or "halt"
  i,        \* segment of the walk
  offset,   \* read cursor, from the start of the image
  maxOff,   \* max_offset
  fake,     \* fake_flash, from 0 to max_offset - 1
  maps,     \* mmu_mappings; paddr counts from flash_paddr
  copies,   \* direct_copies
  lastPage  \* last_page_start

ivars == <<chip, image, pass, i, offset, maxOff, fake, maps, copies, lastPage>>

In(a, w)     == w[1] <= a /\ a < w[2]
IsMapped(a)  == \E w \in MappedWindows[chip] : In(a, w)
IsDirect(a)  == \E w \in DirectWindows[chip] : In(a, w)
Linear(a)    == a % Span
PageOf(a)    == a - (a % Page)
RoundUp(n)   == PageOf(n + Page - 1)
Larger(m, n) == IF m > n THEN m ELSE n

TablesOver(addrs) == UNION {[1..n -> [addr : addrs, len : Lens]] : n \in 0..MaxSegments}
Tables == TablesOver(UNION {Addrs[c] : c \in Chips})

\* Offset at which the data of segment k begins, and the end of the image.
DataAt(segs) ==
  LET at[k \in 1..(Len(segs) + 1)] ==
        IF k = 1 THEN HdrLen + SegHdrLen ELSE at[k - 1] + segs[k - 1].len + SegHdrLen
  IN at
EndOf(segs) == DataAt(segs)[Len(segs) + 1] - SegHdrLen

Images == [count : Nat, segs : Tables, size : Nat]

\* A whole image, one that lacks its last byte, or a header that is refused
\* (a wrong magic number counts as a wrong number of segments).
PlanInit ==
  /\ chip \in Chips
  /\ \/ \E segs \in TablesOver(Addrs[chip]), cut \in {0, 1} :
          image = [count |-> Len(segs), segs |-> segs, size |-> EndOf(segs) - cut]
     \/ image = [count |-> MaxSegments + 1, segs |-> <<>>, size |-> HdrLen]
  /\ pass = "header"
  /\ i = 1 /\ offset = HdrLen
  /\ maxOff = 0
  /\ fake = <<>> /\ maps = <<>> /\ copies = <<>>
  /\ lastPage = Zero

Seg    == image.segs[i]
Cursor == offset + SegHdrLen      \* where the segment's data begins

\* Both walks check a segment before they use it.
SegmentReadable ==
  /\ offset + SegHdrLen <= image.size
  /\ Seg.len <= MaxData
  /\ Seg.len <= image.size - Cursor

Halt == pass' = "halt"
---------------------------------------------------------------------------
CheckHeader ==
  /\ pass = "header"
  /\ IF image.size < HdrLen \/ image.count \notin 1..MaxSegments
     THEN Halt
     ELSE pass' = "measure"
  /\ UNCHANGED <<chip, image, i, offset, maxOff, fake, maps, copies, lastPage>>

Measure ==
  /\ pass = "measure"
  /\ i <= image.count
  /\ IF ~SegmentReadable
     THEN Halt /\ UNCHANGED <<i, offset, maxOff>>
     ELSE /\ maxOff' = IF IsMapped(Seg.addr)
                       THEN Larger(maxOff, Linear(Seg.addr) + Seg.len)
                       ELSE maxOff
          /\ offset' = Cursor + Seg.len
          /\ i' = i + 1
          /\ UNCHANGED pass
  /\ UNCHANGED <<chip, image, fake, maps, copies, lastPage>>

\* Mutant: the footprint is not rounded up to whole pages.
AllocateBytes ==
  /\ pass = "measure"
  /\ i > image.count
  /\ fake' = [o \in 0..(maxOff - 1) |-> Zero]
  /\ pass' = "place"
  /\ i' = 1 /\ offset' = HdrLen
  /\ UNCHANGED <<chip, image, maxOff, maps, copies, lastPage>>

\* The staging buffer, zeroed; there may be no memory for it.
Allocate ==
  /\ pass = "measure"
  /\ i > image.count
  /\ maxOff' = RoundUp(maxOff)
  /\ \/ /\ pass' = "place"
        /\ fake' = [o \in 0..(maxOff' - 1) |-> Zero]
        /\ i' = 1 /\ offset' = HdrLen
     \/ /\ maxOff > 0
        /\ Halt
        /\ UNCHANGED <<fake, i, offset>>
  /\ UNCHANGED <<chip, image, maps, copies, lastPage>>

NextSegment ==
  /\ i' = i + 1
  /\ offset' = Cursor + Seg.len
  /\ UNCHANGED pass

HaltHere == Halt /\ UNCHANGED <<i, offset>>

\* The segment's data in the staging buffer.
Staged ==
  LET at == Linear(Seg.addr) IN
  [o \in DOMAIN fake |-> IF at <= o /\ o < at + Seg.len
                         THEN Cursor + (o - at) ELSE fake[o]]

\* Only the page that shows the image's first page gets the image's prefix.
BacksFirstPage ==
  LET at == Linear(Seg.addr) IN
  Cursor = at % Page /\ PageOf(at) # lastPage

\* Mutant: no page gets the prefix.
StampedNever == Staged

Stamped ==
  LET from == PageOf(Linear(Seg.addr)) IN
  [o \in DOMAIN fake |-> IF BacksFirstPage /\ from <= o /\ o < from + HdrLen + SegHdrLen
                         THEN o - from ELSE Staged[o]]

\* va_start, va_end and paddr of a segment's mapping.  The code rounds up by
\* one byte less than a page less one.
Mapping ==
  LET from == PageOf(Seg.addr)
      to   == IF Seg.len = 0 THEN from ELSE PageOf(Seg.addr + Seg.len + Page - 2)
  IN [vaddr |-> from, len |-> to - from, paddr |-> Linear(from)]

\* Mutant: the mapping that fills the array is not the last.
MappingsOverFull == Len(maps) > MaxMappings

MappingsFull == Len(maps) >= MaxMappings

PlaceMapped ==
  /\ pass = "place" /\ i <= image.count
  /\ SegmentReadable
  /\ IsMapped(Seg.addr)
  /\ IF MappingsFull \/ Linear(Seg.addr) + Seg.len > maxOff
     THEN HaltHere /\ UNCHANGED <<fake, maps, lastPage>>
     ELSE /\ maps' = Append(maps, Mapping)
          /\ fake' = Stamped
          /\ lastPage' = IF BacksFirstPage THEN PageOf(Linear(Seg.addr)) ELSE lastPage
          /\ NextSegment
  /\ UNCHANGED <<chip, image, maxOff, copies>>

\* Mutant: only a segment that starts in the jump zone collides with it.
StartsInJmpZone == In(Seg.addr, JmpZone[chip])

MeetsJmpZone ==
  \/ Seg.addr < JmpZone[chip][1] /\ Seg.addr + Seg.len > JmpZone[chip][1]
  \/ In(Seg.addr, JmpZone[chip])

PlaceDirect ==
  /\ pass = "place" /\ i <= image.count
  /\ SegmentReadable
  /\ ~IsMapped(Seg.addr) /\ IsDirect(Seg.addr)
  /\ IF Len(copies) >= MaxCopies \/ MeetsJmpZone
     THEN HaltHere /\ UNCHANGED copies
     ELSE /\ copies' = Append(copies, [dest |-> Seg.addr, src |-> Cursor, len |-> Seg.len])
          /\ NextSegment
  /\ UNCHANGED <<chip, image, maxOff, fake, maps, lastPage>>

\* An address that no window holds; the bounds of the second walk cannot
\* fail where those of the first did not.
PlaceNowhere ==
  /\ pass = "place" /\ i <= image.count
  /\ ~SegmentReadable \/ ~(IsMapped(Seg.addr) \/ IsDirect(Seg.addr))
  /\ HaltHere
  /\ UNCHANGED <<chip, image, maxOff, fake, maps, copies, lastPage>>

Finish ==
  /\ pass = "place"
  /\ i > image.count
  /\ pass' = "done"
  /\ UNCHANGED <<chip, image, i, offset, maxOff, fake, maps, copies, lastPage>>

PlanNext == CheckHeader \/ Measure \/ Allocate \/ PlaceMapped \/ PlaceDirect
              \/ PlaceNowhere \/ Finish

PlanSpec == PlanInit /\ [][PlanNext]_ivars
---------------------------------------------------------------------------
(* Properties *)

PlanTypeOK ==
  /\ chip \in Chips
  /\ image \in Images
  /\ pass \in {"header", "measure", "place", "done", "halt"}
  /\ i \in 1..(MaxSegments + 1)
  /\ offset \in Nat /\ maxOff \in 0..(Span + MaxData + Page)
  /\ fake \in [0..(maxOff - 1) -> 0..image.size \cup {Zero}] \/ pass # "place"
  /\ maps \in Seq([vaddr : Nat, len : Nat, paddr : Nat])
  /\ Len(maps) <= MaxMappings
  /\ copies \in Seq([dest : Nat, src : Nat, len : Nat])
  /\ Len(copies) <= MaxCopies

MappedSegs == {k \in 1..Len(image.segs) : IsMapped(image.segs[k].addr) /\ image.segs[k].len > 0}

\* Where a segment is in the flash; an empty one is on a page too, which the
\* prefix may be stamped into.
PagesOf(s) ==
  {PageOf(Linear(s.addr))} \cup {PageOf(Linear(s.addr) + b) : b \in 0..(s.len - 1)}

\* An image as the linker and esptool lay it out: the mapped segments end in
\* their window, and share no page of the flash with another.
WellLaidOut ==
  /\ \A k \in MappedSegs : Linear(image.segs[k].addr) + image.segs[k].len <= Span
  /\ \A k \in MappedSegs, m \in 1..Len(image.segs) :
       k # m /\ IsMapped(image.segs[m].addr) =>
         PagesOf(image.segs[k]) \cap PagesOf(image.segs[m]) = {}

\* system_early_init() of the payload finds the image header on the page that
\* backs image offset 0.
PrefixIsShown ==
  pass = "done" /\ WellLaidOut =>
    \A k \in MappedSegs : LET at == Linear(image.segs[k].addr) IN
      at % Page = DataAt(image.segs)[k] =>
        \A b \in 0..(HdrLen + SegHdrLen - 1) : fake[PageOf(at) + b] = b

\* No mapping shows memory beyond the staging buffer, and no copy reads
\* beyond the image.
PlanStaysInBounds ==
  /\ \A k \in DOMAIN maps : maps[k].paddr + maps[k].len <= maxOff
  /\ \A k \in DOMAIN copies : copies[k].src + copies[k].len <= image.size

\* The loader copies from the jump zone while it runs there: no copy may
\* touch it.
CopiesMissJmpZone ==
  \A k \in DOMAIN copies : \A b \in 0..(copies[k].len - 1) :
    ~In(copies[k].dest + b, JmpZone[chip])
===========================================================================
