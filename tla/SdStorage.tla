----------------------------- MODULE SdStorage -----------------------------
(***************************************************************************)
(* load_firmware_from_sd and mount_storage_sdcard of storage_p4.c and      *)
(* storage_s3.c: power and mount the SD card, read the firmware file into  *)
(* memory, and let go of everything again.  The P4 powers the card through *)
(* a regulator of its own; the S3 tries three ways to talk to the card.    *)
(*                                                                         *)
(* A bundle is the set of things that are wrong with it, named for the     *)
(* check of main.c that finds them; a sound bundle is {}.  The card may be *)
(* pulled or changed at any time.                                          *)
(***************************************************************************)
EXTENDS Naturals, Sequences

CONSTANTS
  NoCard,      \* no card in the slot, or no firmware file on it
  Cards,       \* bundles that a card may hold
  NoBuffer,    \* psram_buf: NULL
  Wiped        \* the buffer after memzero

\* The checks of the buffer, in order.
Checks == <<"magic", "header", "platform", "version", "mainSize", "hash",
            "sigBounds", "sigSection", "message", "multisig">>
CheckNames == {Checks[i] : i \in DOMAIN Checks}
Defects    == CheckNames \cup {"size", "image"}
Bundles    == SUBSET Defects

ASSUME StorageAssumption ==
  /\ Cards \subseteq Bundles
  /\ \A b \in Bundles : b \notin {NoCard, NoBuffer, Wiped}
  /\ NoBuffer # Wiped

VARIABLES
  chip,  \* CONFIG_IDF_TARGET_...
  slot,  \* the bundle on the card in the slot, or NoCard
  load,  \* the step of load_firmware_from_sd that comes next
  held,  \* what it has acquired and not released
  buf    \* psram_buf: NoBuffer, a copy of a bundle, or Wiped

svars == <<chip, slot, load, held, buf>>

Chips    == {"P4", "S3"}
Drivers  == <<"spi4MHz", "spi400kHz", "sdmmc">>   \* of the S3, as they are tried
Loading  == {"power", "mount", "stat", "alloc", "open", "read", "unmount"}
              \cup {Drivers[i] : i \in DOMAIN Drivers}
LoadStages == Loading \cup {"idle", "loaded", "failed"}
Resources  == {"regulator", "bus", "card", "buffer", "file"}

StorageInit ==
  /\ chip \in Chips
  /\ slot \in Cards \cup {NoCard}
  /\ load = "idle"
  /\ held = {}
  /\ buf = NoBuffer

Succeed(next, acquired) ==
  /\ load' = next
  /\ held' = held \cup acquired

Fail(released) ==
  /\ load' = "failed"
  /\ held' = held \ released
  /\ UNCHANGED buf

\* unmount_and_power_off; the S3 only unmounts.
Unmounted == {"card"} \cup (IF chip = "P4" THEN {"regulator"} ELSE {})
---------------------------------------------------------------------------
\* The regulator on the P4, the SPI bus on the S3; without the bus the S3
\* goes straight for SDMMC.
Power ==
  /\ load = "power"
  /\ \/ chip = "P4" /\ Succeed("mount", {"regulator"}) /\ UNCHANGED buf
     \/ chip = "P4" /\ Fail({"regulator"})
     \/ chip = "S3" /\ Succeed("spi4MHz", {"bus"}) /\ UNCHANGED buf
     \/ chip = "S3" /\ Succeed("sdmmc", {}) /\ UNCHANGED buf
  /\ UNCHANGED <<chip, slot>>

\* Mutant: a mount that fails leaves the regulator on.
MountKeepsPower ==
  /\ load = "mount"
  /\ \/ slot # NoCard /\ Succeed("stat", {"card"}) /\ UNCHANGED buf
     \/ Fail({})
  /\ UNCHANGED <<chip, slot>>

Mount ==
  /\ load = "mount"
  /\ \/ slot # NoCard /\ Succeed("stat", {"card"}) /\ UNCHANGED buf
     \/ Fail({"regulator"})
  /\ UNCHANGED <<chip, slot>>

TryDriver ==
  /\ \E i \in DOMAIN Drivers :
       /\ load = Drivers[i]
       /\ \/ slot # NoCard /\ Succeed("stat", {"card"}) /\ UNCHANGED buf
          \/ i < Len(Drivers) /\ Succeed(Drivers[i + 1], {}) /\ UNCHANGED buf
          \/ i = Len(Drivers) /\ Fail({})
  /\ UNCHANGED <<chip, slot>>

\* The file's size: neither nothing nor more than MAX_FIRMWARE_SIZE.
StatFile ==
  /\ load = "stat"
  /\ \/ slot # NoCard /\ "size" \notin slot /\ Succeed("alloc", {}) /\ UNCHANGED buf
     \/ Fail(Unmounted)
  /\ UNCHANGED <<chip, slot>>

Allocate ==
  /\ load = "alloc"
  /\ \/ Succeed("open", {"buffer"}) /\ UNCHANGED buf
     \/ Fail(Unmounted)
  /\ UNCHANGED <<chip, slot>>

Open ==
  /\ load = "open"
  /\ \/ slot # NoCard /\ Succeed("read", {"file"}) /\ UNCHANGED buf
     \/ Fail(Unmounted \cup {"buffer"})
  /\ UNCHANGED <<chip, slot>>

\* Of a file that is exchanged between its size and its last byte, a mixture
\* may come, the hash of which is wrong.
ReadFile ==
  /\ load = "read"
  /\ \/ /\ slot # NoCard
        /\ buf' \in {b \in {slot, {"hash"}} : "size" \notin b}
        /\ load' = "unmount"
        /\ held' = held \ {"file"}
     \/ Fail(Unmounted \cup {"buffer", "file"})
  /\ UNCHANGED <<chip, slot>>

Unmount ==
  /\ load = "unmount"
  /\ load' = "loaded"
  /\ held' = held \ Unmounted
  /\ UNCHANGED <<chip, slot, buf>>

LoadStep == Power \/ Mount \/ TryDriver \/ StatFile \/ Allocate \/ Open \/ ReadFile \/ Unmount

SwapCard ==
  /\ slot' \in (Cards \cup {NoCard}) \ {slot}
  /\ UNCHANGED <<chip, load, held, buf>>
---------------------------------------------------------------------------
(* Properties *)

StorageTypeOK ==
  /\ chip \in Chips
  /\ slot \in Cards \cup {NoCard}
  /\ load \in LoadStages
  /\ held \subseteq Resources
  /\ buf \in {NoBuffer, Wiped} \/ buf \in Bundles

\* storage_p4.c: "Every exit from load_firmware_from_sd() must go through here
\* so the SD card is electrically dead before verification/JMP"; the S3 has
\* no power to cut, but must have unmounted the card.  A failed load has also
\* given back its buffer; the SPI bus of the S3 stays.
CardIsDeadAfterLoad ==
  /\ load \notin Loading => held \subseteq {"buffer", "bus"}
  /\ load = "failed" => "buffer" \notin held
===========================================================================
