----------------------------- MODULE AntiPhish -----------------------------
(***************************************************************************)
(* The anti-phishing proof of main/anti_phish.c over the two flash         *)
(* partitions it owns: random_fill, filled once with random data, and nvs, *)
(* which records that data's SHA-256 behind a magic number.                *)
(*                                                                         *)
(* A partition is a function from sectors to sector contents.  SHA-256 is  *)
(* injective here, so a digest IS the partition it was computed from, and  *)
(* the four words shown to the user are identified with the digest (they   *)
(* are its first 44 bits).  Flash outlives a reset, the rest does not.     *)
(*                                                                         *)
(* FlashFaults names what may go wrong:                                    *)
(*   "io"     an erase or a write of flash fails                           *)
(*   "power"  the board is reset in the middle of an operation             *)
(*   "partition"  a partition is not found                                 *)
(*   "modify" someone changes random_fill or nvs while the board is off    *)
(*   "readVerify", "readProvision": a read by one of the two functions      *)
(*            fails; nothing looks at the result                           *)
(***************************************************************************)
EXTENDS Naturals

CONSTANTS
  Sectors,     \* sectors of random_fill: they are written from 1 up
  Randoms,     \* what esp_fill_random may put into a sector
  FlashFaults,
  Erased,      \* a sector of erased flash
  Torn,        \* a sector whose erase or write was cut short
  Blank,       \* nvs: erased
  Scrap,       \* nvs: not erased, and no AP_MAGIC
  TornRecord,  \* nvs: AP_MAGIC with bytes that are the hash of nothing, as
               \* when its write was cut short or a bit of it was changed
  Nothing      \* no digest computed, no words shown

ASSUME FlashAssumption ==
  /\ Sectors \in Nat \ {0, 1}
  /\ {Erased, Torn} \cap Randoms = {}
  /\ Erased # Torn

Contents == Randoms \cup {Erased, Torn}
Fills    == [1..Sectors -> Contents]
NoMagic  == {Blank, Scrap}
Records  == Fills \cup NoMagic \cup {TornRecord}

ASSUME RecordAssumption ==
  /\ NoMagic \cap (Fills \cup {TornRecord}) = {}
  /\ TornRecord \notin Fills
  /\ Nothing \notin Records

VARIABLES
  fill,    \* the random_fill partition
  nvs,     \* the nvs partition
  at,      \* where app_main is
  pos,     \* the sector that provisioning writes next
  digest,  \* state.hash while provisioning
  words,   \* the words this boot has shown
  noted,   \* the words of the first boot that showed any, as the user wrote
           \* them down
  rewritten  \* history: somebody has changed nvs since then

flash == <<fill, nvs>>
fvars == <<fill, nvs, at, pos, digest, words, noted, rewritten>>

\* A device from the factory, whatever its flash holds but the magic.
FlashInit ==
  /\ fill \in [1..Sectors -> {Erased}] \cup [1..Sectors -> {Torn}]
  /\ nvs \in NoMagic
  /\ pos = 1
  /\ digest = Nothing
  /\ words = Nothing
  /\ noted = Nothing
  /\ rewritten = FALSE

\* What a pass over random_fill reads.  Where a read fails the buffer keeps
\* the chunk read before, at first that of an earlier pass or none.
ReadBy(reader) ==
  {c \in Fills :
     \E failed \in IF reader \in FlashFaults THEN SUBSET (1..Sectors) ELSE {{}},
        stale \in {Torn, fill[Sectors]} :
       \A i \in 1..Sectors :
         c[i] = IF i \notin failed THEN fill[i] ELSE IF i = 1 THEN stale ELSE c[i - 1]}

FlashStages == {"provision", "fill", "hashFill", "nvsErase", "nvsWrite", "verify"}

\* What the sectors in s may hold when an operation on them is cut short.
Spoilt(s, done) ==
  {[i \in 1..Sectors |-> IF i \in s THEN c[i] ELSE fill[i]] :
     c \in [1..Sectors -> {done, Torn}]} \cup {fill}
---------------------------------------------------------------------------
(* provision_flash_fill *)

\* Mutant: the magic number is not looked at.
ProvisionAlways ==
  /\ at = "provision"
  /\ at' = "fill"
  /\ pos' = 1
  /\ fill' = [i \in 1..Sectors |-> Erased]
  /\ UNCHANGED <<nvs, digest, words, noted, rewritten>>

\* Whether the record is seen to have the magic number; a failed read leaves
\* what the stack held.
MagicSeen ==
  {nvs \notin NoMagic} \cup (IF "readProvision" \in FlashFaults THEN BOOLEAN ELSE {})

Provision ==
  /\ at = "provision"
  /\ \/ /\ TRUE \in MagicSeen
        /\ at' = "verify"
        /\ UNCHANGED <<fill, pos>>
     \/ /\ FALSE \in MagicSeen
        /\ at' = "fill"
        /\ pos' = 1
        /\ fill' = [i \in 1..Sectors |-> Erased]
     \/ /\ FALSE \in MagicSeen
        /\ "io" \in FlashFaults
        /\ at' = "halt"
        /\ fill' \in Spoilt(1..Sectors, Erased)
        /\ UNCHANGED pos
     \/ /\ "partition" \in FlashFaults
        /\ at' = "halt"
        /\ UNCHANGED <<fill, pos>>
  /\ UNCHANGED <<nvs, digest, words, noted, rewritten>>

\* Mutant: one chunk too many.
FillSectorPast ==
  /\ at = "fill"
  /\ \E r \in Randoms : fill' = [i \in 1..Sectors |-> IF i = pos THEN r ELSE fill[i]]
  /\ pos' = pos + 1
  /\ at' = IF pos > Sectors THEN "hashFill" ELSE "fill"
  /\ UNCHANGED <<nvs, digest, words, noted, rewritten>>

\* One chunk of random data; no two of them are alike.
FillSector ==
  /\ at = "fill"
  /\ \/ /\ \E r \in Randoms \ {fill[j] : j \in 1..(pos - 1)} : fill' = [fill EXCEPT ![pos] = r]
        /\ pos' = pos + 1
        /\ at' = IF pos = Sectors THEN "hashFill" ELSE "fill"
     \/ /\ "io" \in FlashFaults
        /\ at' = "halt"
        /\ fill' \in {fill, [fill EXCEPT ![pos] = Torn]}
        /\ UNCHANGED pos
  /\ UNCHANGED <<nvs, digest, words, noted, rewritten>>

\* Mutant: the last chunk is not read back.
HashFillShort ==
  /\ at = "hashFill"
  /\ digest' = [fill EXCEPT ![Sectors] = Erased]
  /\ at' = "nvsErase"
  /\ UNCHANGED <<fill, nvs, pos, words, noted, rewritten>>

\* Read back what the flash really holds.
HashFill ==
  /\ at = "hashFill"
  /\ digest' \in ReadBy("readProvision")
  /\ at' = "nvsErase"
  /\ UNCHANGED <<fill, nvs, pos, words, noted, rewritten>>

\* Neither the erase of nvs nor the write is checked.
EraseNvs ==
  /\ at = "nvsErase"
  /\ nvs' \in {Blank} \cup (IF "io" \in FlashFaults THEN {nvs, Scrap} ELSE {})
  /\ at' = "nvsWrite"
  /\ UNCHANGED <<fill, pos, digest, words, noted, rewritten>>

\* What a write of the record may leave behind.  Over flash that is not
\* erased it can only clear bits.
Written   == IF nvs = Blank THEN {digest} ELSE {Scrap, TornRecord}
CutShort  == {nvs, Scrap, TornRecord}

WriteRecord ==
  /\ at = "nvsWrite"
  /\ nvs' \in Written \cup (IF "io" \in FlashFaults THEN CutShort ELSE {})
  /\ at' = "verify"
  /\ UNCHANGED <<fill, pos, digest, words, noted, rewritten>>
---------------------------------------------------------------------------
(* verify_anti_phishing_proof *)

\* Mutant: the words come from the record, the partition is not hashed.
VerifyRecordOnly ==
  /\ at = "verify"
  /\ IF nvs \in NoMagic
     THEN at' = "halt" /\ UNCHANGED <<words, noted>>
     ELSE /\ at' = "plan"
          /\ words' = nvs
          /\ noted' = IF noted = Nothing THEN words' ELSE noted
  /\ UNCHANGED <<fill, nvs, pos, digest, rewritten>>

Mismatch == nvs \notin NoMagic /\ nvs # fill

\* A record that cannot be read has no magic number.
RecordsRead == {nvs} \cup (IF "readVerify" \in FlashFaults THEN {Scrap} ELSE {})

VerifyProof ==
  /\ at = "verify"
  /\ \/ \E record \in RecordsRead, current \in ReadBy("readVerify") :
          IF record \in NoMagic \/ record # current
          THEN at' = "halt" /\ UNCHANGED <<words, noted>>
          ELSE /\ at' = "plan"
               /\ words' = current
               /\ noted' = IF noted = Nothing THEN words' ELSE noted
     \/ /\ "partition" \in FlashFaults
        /\ at' = "halt"
        /\ UNCHANGED <<words, noted>>
  /\ UNCHANGED <<fill, nvs, pos, digest, rewritten>>
---------------------------------------------------------------------------
(* The environment *)

\* Random data as provisioning makes it.
Provisioned ==
  {f \in [1..Sectors -> Randoms] : \A i, j \in 1..Sectors : f[i] = f[j] => i = j}

\* Someone with access to the flash changes a sector of random_fill, or has
\* nvs erased, damaged, or hold the hash of other random data: of an earlier
\* time, of another device, or of what that person then writes to random_fill.
Modify ==
  /\ "modify" \in FlashFaults
  /\ at = "off"
  /\ \/ /\ \E i \in 1..Sectors, c \in Contents : fill' = [fill EXCEPT ![i] = c]
        /\ UNCHANGED <<nvs, rewritten>>
     \/ /\ nvs' \in NoMagic \cup {TornRecord} \cup Provisioned
        /\ rewritten' = (rewritten \/ (noted # Nothing /\ nvs' # nvs))
        /\ UNCHANGED fill
  /\ UNCHANGED <<at, pos, digest, words, noted>>

\* The flash after a reset in the middle of the operation at hand.
FlashAfterReset ==
  \/ UNCHANGED flash
  \/ /\ "power" \in FlashFaults
     /\ \/ /\ at = "provision" /\ nvs \in NoMagic
           /\ fill' \in Spoilt(1..Sectors, Erased)
           /\ UNCHANGED nvs
        \/ /\ at = "fill"
           /\ fill' = [fill EXCEPT ![pos] = Torn]
           /\ UNCHANGED nvs
        \/ /\ at = "nvsErase"
           /\ nvs' = Scrap
           /\ UNCHANGED fill
        \/ /\ at = "nvsWrite"
           /\ nvs' \in CutShort
           /\ UNCHANGED fill

FlashStep ==
  Provision \/ FillSector \/ HashFill \/ EraseNvs \/ WriteRecord \/ VerifyProof
===========================================================================
