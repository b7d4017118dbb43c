---------------------------- MODULE LoaderProofs ----------------------------
(***************************************************************************)
(* Theorems about Loader, with its storage and its flash: for every number *)
(* of sectors, every random content, every set of cards and every fault    *)
(* except, where it is said, a failing read while provisioning.            *)
(***************************************************************************)
EXTENDS Loader, TLAPS

LEMMA TheChecks ==
  /\ DOMAIN Checks = 1..10 /\ Len(Checks) = 10
  /\ Checks[1] = "magic" /\ Checks[2] = "header" /\ Checks[3] = "platform"
  /\ Checks[4] = "version" /\ Checks[5] = "mainSize" /\ Checks[6] = "hash"
  /\ Checks[7] = "sigBounds" /\ Checks[8] = "sigSection" /\ Checks[9] = "message"
  /\ Checks[10] = "multisig"
  BY DEF Checks

LEMMA TheDrivers ==
  /\ DOMAIN Drivers = 1..3 /\ Len(Drivers) = 3
  /\ Drivers[1] = "spi4MHz" /\ Drivers[2] = "spi400kHz" /\ Drivers[3] = "sdmmc"
  BY DEF Drivers

LEMMA TheCheckNames ==
  CheckNames = {"magic", "header", "platform", "version", "mainSize", "hash",
                "sigBounds", "sigSection", "message", "multisig"}
<1>1. \A n : n \in CheckNames <=> \E i \in 1..10 : n = Checks[i]
  BY TheChecks, Zenon DEF CheckNames
<1>2. \A i \in 1..10 : i = 1 \/ i = 2 \/ i = 3 \/ i = 4 \/ i = 5 \/ i = 6 \/ i = 7 \/ i = 8
                         \/ i = 9 \/ i = 10
  OBVIOUS
<1> QED BY <1>1, <1>2, TheChecks

LEMMA TheLoading ==
  Loading = {"power", "mount", "spi4MHz", "spi400kHz", "sdmmc", "stat", "alloc", "open",
             "read", "unmount"}
<1>1. \A n : n \in {Drivers[i] : i \in DOMAIN Drivers} <=> \E i \in 1..3 : n = Drivers[i]
  BY TheDrivers, Zenon
<1>2. \A i \in 1..3 : i = 1 \/ i = 2 \/ i = 3
  OBVIOUS
<1>3. {Drivers[i] : i \in DOMAIN Drivers} = {"spi4MHz", "spi400kHz", "sdmmc"}
  BY <1>1, <1>2, TheDrivers
<1> QED BY <1>3 DEF Loading
---------------------------------------------------------------------------
(* The storage *)

\* What each step of loading holds.
HeldInv ==
  /\ chip = "S3" => "regulator" \notin held
  /\ load \in {"idle", "power"} => held = {}
  /\ load = "mount" => chip = "P4" /\ held \subseteq {"regulator"}
  /\ load \in {"spi4MHz", "spi400kHz", "sdmmc"} => chip = "S3" /\ held \subseteq {"bus"}
  /\ load \in {"stat", "alloc"} => held \subseteq {"bus", "regulator", "card"}
  /\ load \in {"open", "unmount"} => held \subseteq {"bus", "regulator", "card", "buffer"}
  /\ load = "loaded" => held \subseteq {"bus", "buffer"}
  /\ load = "failed" => held \subseteq {"bus"}

\* What the buffer holds meanwhile.
LoadBuf ==
  IF load = "unmount" THEN buf \in Bundles /\ "size" \notin buf ELSE buf = NoBuffer

LEMMA LoadStepKeeps ==
  ASSUME StorageTypeOK, HeldInv, LoadBuf, LoadStep
  PROVE  /\ StorageTypeOK' /\ HeldInv'
         /\ load \in Loading
         /\ load' \in Loading \cup {"loaded", "failed"}
         /\ load' = "loaded" => buf' \in Bundles /\ "size" \notin buf'
         /\ load' = "failed" => buf' = NoBuffer
         /\ load' \in Loading => LoadBuf'
<1> USE TheLoading, StorageAssumption DEF StorageTypeOK, HeldInv, LoadBuf, Succeed, Fail, Unmounted,
        Resources, LoadStages, Chips
<1>1. CASE Power
  BY <1>1 DEF Power
<1>2. CASE Mount
  BY <1>2 DEF Mount
<1>3. CASE TryDriver
  <2>1. PICK k \in 1..3 :
          /\ load = Drivers[k]
          /\ \/ slot # NoCard /\ Succeed("stat", {"card"}) /\ UNCHANGED buf
             \/ k < 3 /\ Succeed(Drivers[k + 1], {}) /\ UNCHANGED buf
             \/ k = 3 /\ Fail({})
    BY <1>3, TheDrivers, Zenon DEF TryDriver
  <2>2. chip' = chip /\ slot' = slot
    BY <1>3 DEF TryDriver
  <2>3. k = 1 \/ k = 2 \/ k = 3
    OBVIOUS
  <2>4. load \in {"spi4MHz", "spi400kHz", "sdmmc"}
    BY <2>1, <2>3, TheDrivers
  <2>5. chip = "S3" /\ held \subseteq {"bus"} /\ buf = NoBuffer
    BY <2>4
  <2>6. CASE slot # NoCard /\ Succeed("stat", {"card"}) /\ UNCHANGED buf
    BY <2>2, <2>4, <2>5, <2>6
  <2>7. CASE k = 3 /\ Fail({})
    BY <2>2, <2>4, <2>5, <2>7
  <2>8. CASE k < 3 /\ Succeed(Drivers[k + 1], {}) /\ UNCHANGED buf
    <3>1. load' \in {"spi400kHz", "sdmmc"}
      <4>1. k = 1 \/ k = 2
        BY <2>3, <2>8
      <4> QED BY <4>1, <2>8, TheDrivers
    <3>2. held' = held /\ buf' = buf
      BY <2>8
    <3> QED BY <2>2, <2>4, <2>5, <3>1, <3>2
  <2> QED BY <2>1, <2>6, <2>7, <2>8
<1>4. CASE StatFile
  BY <1>4 DEF StatFile
<1>5. CASE Allocate
  BY <1>5 DEF Allocate
<1>6. CASE Open
  BY <1>6 DEF Open
<1>7. CASE ReadFile
  <2>1. \A b \in {slot, {"hash"}} : slot # NoCard => b \in Bundles
    BY TheCheckNames DEF Bundles, Defects
  <2> QED BY <1>7, <2>1 DEF ReadFile
<1>8. CASE Unmount
  BY <1>8 DEF Unmount
<1> QED BY <1>1, <1>2, <1>3, <1>4, <1>5, <1>6, <1>7, <1>8 DEF LoadStep
---------------------------------------------------------------------------
(* The flash *)

FlashTypeInv ==
  /\ fill \in Fills /\ nvs \in Records
  /\ pos \in 1..(Sectors + 1)
  /\ {digest, words, noted} \subseteq Fills \cup {Nothing}
  /\ rewritten \in BOOLEAN
  /\ at = "fill" => pos <= Sectors
  /\ at \in {"nvsErase", "nvsWrite"} => digest \in Fills

LEMMA SpoiltIsFill ==
  ASSUME FlashTypeInv, NEW s, NEW done \in Contents
  PROVE  Spoilt(s, done) \subseteq Fills
  BY DEF FlashTypeInv, Spoilt, Fills, Contents

LEMMA ReadIsFill ==
  ASSUME NEW reader PROVE ReadBy(reader) \subseteq Fills
  BY DEF ReadBy

LEMMA FlashStepTypes ==
  ASSUME FlashTypeInv, FlashStep
  PROVE  /\ FlashTypeInv'
         /\ at \in FlashStages
         /\ at' \in FlashStages \cup {"halt", "plan"}
         /\ at' = "plan" => words' # Nothing
<1> USE FlashAssumption, RecordAssumption DEF FlashTypeInv
<1>0. Nothing \notin Fills
  BY DEF Records
<1>1. CASE Provision
  <2>1. fill' \in Fills
    <3>1. Spoilt(1..Sectors, Erased) \subseteq Fills
      BY SpoiltIsFill DEF Contents
    <3>2. [i \in 1..Sectors |-> Erased] \in Fills
      BY DEF Fills, Contents
    <3> QED BY <1>1, <3>1, <3>2 DEF Provision
  <2>2. at = "provision" /\ UNCHANGED <<nvs, digest, words, noted, rewritten>>
    BY <1>1, Zenon DEF Provision
  <2>3. \/ at' \in {"verify", "halt"} /\ pos' = pos
        \/ at' = "fill" /\ pos' = 1
    BY <1>1, Zenon DEF Provision
  <2> QED BY <2>1, <2>2, <2>3 DEF FlashStages
<1>2. CASE FillSector
  <2>1. at = "fill" /\ UNCHANGED <<nvs, digest, words, noted, rewritten>>
    BY <1>2 DEF FillSector
  <2>2. CASE /\ \E r \in Randoms : fill' = [fill EXCEPT ![pos] = r]
             /\ pos' = pos + 1
             /\ at' = IF pos = Sectors THEN "hashFill" ELSE "fill"
    <3>1. fill' \in Fills
      BY <2>2 DEF Fills, Contents
    <3> QED BY <2>1, <2>2, <3>1 DEF FlashStages
  <2>3. CASE /\ at' = "halt"
             /\ fill' \in {fill, [fill EXCEPT ![pos] = Torn]}
             /\ UNCHANGED pos
    <3>1. fill' \in Fills
      BY <2>3 DEF Fills, Contents
    <3> QED BY <2>1, <2>3, <3>1 DEF FlashStages
  <2> QED BY <1>2, <2>2, <2>3 DEF FillSector
<1>3. CASE HashFill
  BY <1>3, ReadIsFill DEF HashFill, FlashStages
<1>4. CASE EraseNvs
  BY <1>4 DEF EraseNvs, FlashStages, Records, NoMagic
<1>5. CASE WriteRecord
  <2>1. nvs' \in Records
    BY <1>5 DEF WriteRecord, Written, CutShort, Records, NoMagic
  <2> QED BY <1>5, <2>1 DEF WriteRecord, FlashStages
<1>6. CASE VerifyProof
  <2>1. PICK current \in Fills :
          \/ at' = "halt" /\ UNCHANGED <<words, noted>>
          \/ /\ at' = "plan"
             /\ words' = current
             /\ noted' = IF noted = Nothing THEN words' ELSE noted
    BY <1>6, ReadIsFill DEF VerifyProof
  <2>2. at = "verify" /\ UNCHANGED <<fill, nvs, pos, digest, rewritten>>
    BY <1>6 DEF VerifyProof
  <2> QED BY <1>0, <2>1, <2>2 DEF FlashStages
<1> QED BY <1>1, <1>2, <1>3, <1>4, <1>5, <1>6 DEF FlashStep

\* A reset keeps what is stored, whole or cut short.
LEMMA ResetTypes ==
  ASSUME FlashTypeInv, FlashAfterReset
  PROVE  fill' \in Fills /\ nvs' \in Records
<1> USE FlashAssumption DEF FlashTypeInv
<1>1. CASE UNCHANGED flash
  BY <1>1 DEF flash
<1>2. CASE fill' \in Spoilt(1..Sectors, Erased) /\ UNCHANGED nvs
  BY <1>2, SpoiltIsFill DEF Contents
<1>3. CASE fill' = [fill EXCEPT ![pos] = Torn] /\ UNCHANGED nvs
  BY <1>3 DEF Fills, Contents
<1>4. CASE nvs' \in {nvs, Scrap, TornRecord} /\ UNCHANGED fill
  BY <1>4 DEF Records, NoMagic
<1> QED BY <1>1, <1>2, <1>3, <1>4 DEF FlashAfterReset, CutShort
LEMMA ModifyTypes ==
  ASSUME FlashTypeInv, Modify
  PROVE  fill' \in Fills /\ nvs' \in Records /\ rewritten' \in BOOLEAN
<1>1. CASE /\ \E i \in 1..Sectors, c \in Contents : fill' = [fill EXCEPT ![i] = c]
           /\ UNCHANGED <<nvs, rewritten>>
  BY <1>1 DEF FlashTypeInv, Fills
<1>2. CASE /\ nvs' \in NoMagic \cup {TornRecord} \cup Provisioned
           /\ rewritten' = (rewritten \/ (noted # Nothing /\ nvs' # nvs))
           /\ UNCHANGED fill
  <2>1. Provisioned \subseteq Fills
    BY DEF Provisioned, Fills, Contents
  <2> QED BY <1>2, <2>1 DEF FlashTypeInv, Records
<1> QED BY <1>1, <1>2 DEF Modify
---------------------------------------------------------------------------
(* The buffer *)

\* The buffer is a bundle that has passed the checks before i.
PassedTo(i) ==
  /\ load = "loaded"
  /\ buf \in Bundles
  /\ "size" \notin buf
  /\ \A k \in 1..(i - 1) : Checks[k] \notin buf

BufInv ==
  /\ at = "off" => load = "idle" /\ buf = NoBuffer
  /\ at = "load" => load \in Loading /\ LoadBuf
  /\ at \notin {"off", "load"} => load \in {"loaded", "failed"}
  /\ \A i \in 1..10 : at = Checks[i] => PassedTo(i)
  /\ at \in FlashStages \cup {"plan", "jump"} => PassedTo(11)
  /\ at = "jump" => "image" \notin buf
  /\ at \in {"plan", "jump"} => words # Nothing
  /\ at = "halt" => buf \in {NoBuffer, Wiped} \/ "image" \in buf

LoaderInv == FlashTypeInv /\ at \in Stages /\ StorageTypeOK /\ HeldInv /\ BufInv

\* The stages of app_main outside the checks are none of the checks.
LEMMA StagesApart ==
  /\ \A i \in 1..10 : Checks[i] \notin FlashStages \cup {"off", "load", "plan", "jump", "halt"}
  /\ \A i, k \in 1..10 : Checks[i] = Checks[k] => i = k
  /\ \A i \in 1..10 : Checks[i] \in Stages
<1>1. \A i \in 1..10 : i = 1 \/ i = 2 \/ i = 3 \/ i = 4 \/ i = 5 \/ i = 6 \/ i = 7 \/ i = 8
                         \/ i = 9 \/ i = 10
  OBVIOUS
<1>2. \A i \in 1..10 : Checks[i] \notin FlashStages \cup {"off", "load", "plan", "jump", "halt"}
  BY <1>1, TheChecks DEF FlashStages
<1>3. \A i, k \in 1..10 : Checks[i] = Checks[k] => i = k
  <2>1. TAKE i, k \in 1..10
  <2>2. CASE i \in {1, 2, 3, 4, 5}
    BY <1>1, <2>2, TheChecks
  <2>3. CASE i \in {6, 7, 8, 9, 10}
    BY <1>1, <2>3, TheChecks
  <2> QED BY <1>1, <2>2, <2>3
<1>4. \A i \in 1..10 : Checks[i] \in Stages
  BY TheChecks DEF Stages, CheckNames
<1> QED BY <1>2, <1>3, <1>4

LEMMA InitInv == LoaderInit => LoaderInv
<1> SUFFICES ASSUME LoaderInit PROVE LoaderInv
  OBVIOUS
<1> USE FlashAssumption, RecordAssumption DEF LoaderInit
<1>1. FlashTypeInv
  <2>1. [1..Sectors -> {Erased}] \cup [1..Sectors -> {Torn}] \subseteq Fills
    BY DEF Fills, Contents
  <2>2. rewritten \in BOOLEAN
    BY Zenon DEF FlashInit
  <2> QED BY <2>1, <2>2 DEF FlashTypeInv, FlashInit, Records, NoMagic
<1>2. StorageTypeOK /\ HeldInv
  BY DEF StorageInit, StorageTypeOK, HeldInv, LoadStages
<1>3. BufInv
  BY StagesApart DEF BufInv, StorageInit, FlashStages
<1> QED BY <1>1, <1>2, <1>3 DEF LoaderInv, Stages

LEMMA LoadKeeps == LoaderInv /\ Load => LoaderInv'
<1> SUFFICES ASSUME LoaderInv, Load PROVE LoaderInv'
  OBVIOUS
<1> USE DEF LoaderInv
<1>1. at = "load" /\ UNCHANGED <<flash, pos, digest, words, noted, rewritten>>
  BY DEF Load
<1>2. LoadBuf /\ LoadStep
  BY <1>1 DEF BufInv, Load
<1>3. /\ StorageTypeOK' /\ HeldInv'
      /\ load' \in Loading \cup {"loaded", "failed"}
      /\ load' = "loaded" => buf' \in Bundles /\ "size" \notin buf'
      /\ load' = "failed" => buf' = NoBuffer
      /\ load' \in Loading => LoadBuf'
  BY <1>2, LoadStepKeeps
<1>4. /\ load' = "loaded" => at' = Checks[1]
      /\ load' = "failed" => at' = "halt"
      /\ load' \in Loading => at' = "load"
  BY TheLoading DEF Load
<1>5. at' \in Stages /\ FlashTypeInv'
  BY <1>1, <1>3, <1>4, StagesApart DEF FlashTypeInv, flash, Stages, FlashStages
<1>6. BufInv'
  <2>1. CASE load' = "loaded"
    <3>1. PassedTo(1)'
      BY <1>3, <2>1 DEF PassedTo
    <3>2. at' = Checks[1]
      BY <1>4, <2>1
    <3> QED BY <2>1, <3>1, <3>2, StagesApart DEF BufInv
  <2>2. CASE load' = "failed"
    <3>1. at' = "halt" /\ buf' = NoBuffer
      BY <1>3, <1>4, <2>2
    <3> QED BY <2>2, <3>1, StagesApart DEF BufInv, FlashStages
  <2>3. CASE load' \in Loading
    <3>1. at' = "load" /\ LoadBuf'
      BY <1>3, <1>4, <2>3
    <3> QED BY <2>3, <3>1, StagesApart DEF BufInv, FlashStages
  <2> QED BY <1>3, <2>1, <2>2, <2>3
<1> QED BY <1>3, <1>5, <1>6

LEMMA CheckKeeps == LoaderInv /\ Check => LoaderInv'
<1> SUFFICES ASSUME LoaderInv, Check PROVE LoaderInv'
  OBVIOUS
<1> USE DEF LoaderInv
<1>1. PICK i \in 1..10 :
        /\ at = Checks[i]
        /\ IF at \in buf THEN HaltAnd(TRUE)
           ELSE /\ at' = IF i = 10 THEN "provision" ELSE Checks[i + 1]
                /\ UNCHANGED buf
  BY TheChecks, Zenon DEF Check
<1>2. UNCHANGED <<flash, pos, digest, words, noted, rewritten, chip, slot, load, held>>
  BY DEF Check
<1>3. PassedTo(i)
  BY <1>1 DEF BufInv
<1>4. CASE at \in buf
  <2>1. at' = "halt" /\ buf' = Wiped
    BY <1>1, <1>4 DEF HaltAnd
  <2>2. FlashTypeInv' /\ StorageTypeOK' /\ HeldInv'
    BY <1>2, <2>1 DEF FlashTypeInv, StorageTypeOK, HeldInv, flash
  <2>3. BufInv'
    BY <1>2, <1>3, <2>1, StagesApart DEF BufInv, FlashStages, PassedTo
  <2> QED BY <2>1, <2>2, <2>3 DEF Stages
<1>5. CASE at \notin buf
  <2>1. at' = (IF i = 10 THEN "provision" ELSE Checks[i + 1]) /\ buf' = buf
    BY <1>1, <1>5
  <2>2. at' \in Stages /\ at' \notin {"fill", "nvsErase", "nvsWrite"}
    <3>1. CASE i = 10
      BY <2>1, <3>1 DEF Stages, FlashStages
    <3>2. CASE i # 10
      BY <2>1, <3>2, StagesApart DEF FlashStages
    <3> QED BY <3>1, <3>2
  <2>3. FlashTypeInv' /\ StorageTypeOK' /\ HeldInv'
    BY <1>2, <2>1, <2>2 DEF FlashTypeInv, StorageTypeOK, HeldInv, flash
  <2>4. PassedTo(i + 1)'
    BY <1>1, <1>2, <1>3, <1>5, <2>1 DEF PassedTo
  <2>5. BufInv'
    <3>1. CASE i = 10
      <4>1. at' = "provision" /\ PassedTo(11)'
        BY <2>1, <2>4, <3>1
      <4> QED BY <4>1, StagesApart DEF BufInv, FlashStages, PassedTo
    <3>2. CASE i # 10
      <4>1. i + 1 \in 1..10 /\ at' = Checks[i + 1]
        BY <2>1, <3>2
      <4>2. \A k \in 1..10 : at' = Checks[k] => k = i + 1
        BY <4>1, StagesApart
      <4> QED BY <4>1, <4>2, <2>4, StagesApart DEF BufInv, PassedTo
    <3> QED BY <3>1, <3>2
  <2> QED BY <2>2, <2>3, <2>5
<1> QED BY <1>4, <1>5

LEMMA ProveKeeps == LoaderInv /\ Prove => LoaderInv'
<1> SUFFICES ASSUME LoaderInv, Prove PROVE LoaderInv'
  OBVIOUS
<1> USE DEF LoaderInv
<1>1. /\ FlashTypeInv'
      /\ at \in FlashStages
      /\ at' \in FlashStages \cup {"halt", "plan"}
      /\ at' = "plan" => words' # Nothing
  BY FlashStepTypes DEF Prove
<1>2. UNCHANGED <<chip, slot, load, held>>
  BY DEF Prove
<1>3. PassedTo(11)
  BY <1>1 DEF BufInv
<1>4. CASE at' = "halt"
  <2>1. buf' = Wiped
    BY <1>4 DEF Prove
  <2>2. StorageTypeOK' /\ HeldInv'
    BY <1>2, <2>1 DEF StorageTypeOK, HeldInv
  <2>3. BufInv'
    BY <1>2, <1>3, <1>4, <2>1, StagesApart DEF BufInv, FlashStages, PassedTo
  <2> QED BY <1>1, <1>4, <2>2, <2>3 DEF Stages
<1>5. CASE at' \in FlashStages \cup {"plan"}
  <2>0. at' # "halt"
    BY <1>5 DEF FlashStages
  <2>1. buf' = buf
    BY <2>0 DEF Prove
  <2>2. StorageTypeOK' /\ HeldInv'
    BY <1>2, <2>1 DEF StorageTypeOK, HeldInv
  <2>3. PassedTo(11)'
    BY <1>2, <1>3, <2>1 DEF PassedTo
  <2>4. BufInv'
    BY <1>1, <1>5, <2>3, StagesApart DEF BufInv, FlashStages, PassedTo
  <2> QED BY <1>1, <1>5, <2>2, <2>4 DEF Stages
<1> QED BY <1>1, <1>4, <1>5

LEMMA LoaderStepKeeps == LoaderInv /\ [LoaderNext]_lvars => LoaderInv'
<1> SUFFICES ASSUME LoaderInv, [LoaderNext]_lvars PROVE LoaderInv'
  OBVIOUS
<1>1. CASE UNCHANGED lvars
  BY <1>1 DEF lvars, fvars, svars, LoaderInv, FlashTypeInv, StorageTypeOK, HeldInv, BufInv,
              LoadBuf, PassedTo
<1>2. CASE PowerOn
  <2>1. at' = "load" /\ load' = "power" /\ load = "idle" /\ buf = NoBuffer
    BY <1>2 DEF PowerOn, LoaderInv, BufInv
  <2>2. UNCHANGED <<flash, pos, digest, words, noted, rewritten, chip, slot, held, buf>>
    BY <1>2 DEF PowerOn
  <2>3. FlashTypeInv' /\ StorageTypeOK' /\ HeldInv'
    BY <2>1, <2>2 DEF LoaderInv, FlashTypeInv, StorageTypeOK, HeldInv, flash, LoadStages, Loading
  <2>4. BufInv'
    BY <2>1, <2>2, StagesApart, TheLoading DEF BufInv, LoadBuf, FlashStages
  <2> QED BY <2>1, <2>3, <2>4 DEF LoaderInv, Stages
<1>3. CASE Plan
  <2>1. at = "plan" /\ PassedTo(11) /\ words # Nothing
    BY <1>3 DEF Plan, LoaderInv, BufInv
  <2>2. UNCHANGED <<flash, pos, digest, words, noted, rewritten, chip, slot, load, held>> /\ buf' = buf
    BY <1>3 DEF Plan, HaltAnd
  <2>3. IF "image" \in buf THEN at' = "halt" ELSE at' = "jump"
    BY <1>3 DEF Plan, HaltAnd
  <2>4. FlashTypeInv' /\ StorageTypeOK' /\ HeldInv'
    BY <2>2, <2>3 DEF LoaderInv, FlashTypeInv, StorageTypeOK, HeldInv, flash
  <2>5. BufInv'
    BY <2>1, <2>2, <2>3, StagesApart DEF BufInv, PassedTo, FlashStages
  <2> QED BY <2>3, <2>4, <2>5 DEF LoaderInv, Stages
<1>4. CASE PowerOff
  <2>1. FlashAfterReset /\ UNCHANGED <<noted, rewritten, chip, slot>>
    BY <1>4 DEF PowerOff
  <2>2. /\ at' = "off" /\ pos' = 1 /\ digest' = Nothing /\ words' = Nothing
        /\ load' = "idle" /\ held' = {} /\ buf' = NoBuffer
    BY <1>4 DEF PowerOff
  <2>3. fill' \in Fills /\ nvs' \in Records
    BY <2>1, ResetTypes DEF LoaderInv
  <2>4. FlashTypeInv' /\ StorageTypeOK' /\ HeldInv'
    BY <2>1, <2>2, <2>3, FlashAssumption
       DEF LoaderInv, FlashTypeInv, StorageTypeOK, HeldInv, LoadStages
  <2>5. BufInv'
    BY <2>2, StagesApart DEF BufInv, FlashStages
  <2> QED BY <2>2, <2>4, <2>5 DEF LoaderInv, Stages
<1>5. CASE SwapCard /\ UNCHANGED fvars
  <2>1. slot' \in Cards \cup {NoCard} /\ UNCHANGED <<chip, load, held, buf>> /\ UNCHANGED fvars
    BY <1>5 DEF SwapCard
  <2> QED BY <2>1 DEF fvars, LoaderInv, FlashTypeInv, StorageTypeOK, HeldInv, BufInv, LoadBuf,
                      PassedTo
<1>6. CASE Modify /\ UNCHANGED svars
  <2>1. fill' \in Fills /\ nvs' \in Records /\ rewritten' \in BOOLEAN
    BY <1>6, ModifyTypes DEF LoaderInv
  <2>2. UNCHANGED <<at, pos, digest, words, noted>>
    BY <1>6 DEF Modify
  <2> QED BY <1>6, <2>1, <2>2 DEF svars, LoaderInv, FlashTypeInv, StorageTypeOK, HeldInv, BufInv, LoadBuf,
                      PassedTo
<1> QED BY <1>1, <1>2, <1>3, <1>4, <1>5, <1>6, LoadKeeps, CheckKeeps, ProveKeeps
        DEF LoaderNext, Boot, Environment
---------------------------------------------------------------------------
(* What holds whatever fails *)

\* Type correctness of the loader.
THEOREM LoaderTypesHold == LoaderSpec => []LoaderTypeOK
<1>1. LoaderInv => LoaderTypeOK
  BY DEF LoaderInv, FlashTypeInv, LoaderTypeOK
<1> QED BY <1>1, InitInv, LoaderStepKeeps, PTL DEF LoaderSpec

\* Only a bundle that passed every check runs, behind the words of this boot.
THEOREM OnlySoundRun == LoaderSpec => []OnlySoundBundlesRun
<1>1. LoaderInv => OnlySoundBundlesRun
  <2> SUFFICES ASSUME LoaderInv, at = "jump" PROVE buf = {} /\ words # Nothing
    BY DEF OnlySoundBundlesRun
  <2>1. PassedTo(11) /\ "image" \notin buf /\ words # Nothing
    BY DEF LoaderInv, BufInv
  <2>2. \A n \in CheckNames : n \notin buf
    BY <2>1, TheChecks DEF PassedTo, CheckNames
  <2>3. buf \subseteq CheckNames \cup {"size", "image"}
    BY <2>1 DEF PassedTo, Bundles, Defects
  <2> QED BY <2>1, <2>2, <2>3 DEF PassedTo
<1> QED BY <1>1, InitInv, LoaderStepKeeps, PTL DEF LoaderSpec

\* Every exit from loading has let go of the card and of its power.
THEOREM CardIsDead == LoaderSpec => []CardIsDeadAfterLoad
<1>1. LoaderInv => CardIsDeadAfterLoad
  BY TheLoading DEF LoaderInv, HeldInv, StorageTypeOK, LoadStages, CardIsDeadAfterLoad
<1> QED BY <1>1, InitInv, LoaderStepKeeps, PTL DEF LoaderSpec

\* A halt leaves no firmware behind, but for an image that cannot be planned.
THEOREM HaltWipes == LoaderSpec => []HaltLeavesNoFirmware
<1>1. LoaderInv => HaltLeavesNoFirmware
  BY DEF LoaderInv, BufInv, HaltLeavesNoFirmware
<1> QED BY <1>1, InitInv, LoaderStepKeeps, PTL DEF LoaderSpec
---------------------------------------------------------------------------
(* What holds as long as no read fails while provisioning *)

ProvisioningReads == "readProvision" \notin FlashFaults

\* Sectors 1 to n of f are random, no two of them alike.
DistinctTo(f, n) ==
  \A i \in 1..n : f[i] \in Randoms /\ \A j \in 1..n : f[i] = f[j] => i = j

FlashInv ==
  /\ at = "fill" => DistinctTo(fill, pos - 1)
  /\ at \in {"hashFill", "nvsErase", "nvsWrite"} => DistinctTo(fill, Sectors)
  /\ at \in {"nvsErase", "nvsWrite"} => digest = fill
  /\ at \in {"fill", "hashFill", "nvsErase", "nvsWrite"} => nvs \in NoMagic
  /\ nvs \in Fills => DistinctTo(nvs, Sectors)
  /\ noted # Nothing => noted = nvs \/ rewritten
  /\ words # Nothing =>
       /\ words = fill /\ words = nvs
       /\ words = noted \/ rewritten
       /\ at \in {"plan", "jump", "halt"}

LEMMA SameFill ==
  ASSUME NEW f \in Fills, NEW g \in Fills, \A i \in 1..Sectors : f[i] = g[i]
  PROVE  f = g
<1>1. f \in [1..Sectors -> Contents] /\ g \in [1..Sectors -> Contents]
  BY DEF Fills
<1>2. f = [i \in 1..Sectors |-> f[i]] /\ g = [i \in 1..Sectors |-> g[i]]
  BY <1>1, Zenon
<1>3. [i \in 1..Sectors |-> f[i]] = [i \in 1..Sectors |-> g[i]]
  BY Zenon
<1> QED BY <1>2, <1>3, Zenon

\* Where no read fails the partition itself is read.
LEMMA SureRead ==
  ASSUME FlashTypeInv, NEW reader, reader \notin FlashFaults
  PROVE  \A c \in ReadBy(reader) : c = fill
<1> TAKE c \in ReadBy(reader)
<1>1. c \in Fills /\ \A i \in 1..Sectors : c[i] = fill[i]
  BY DEF ReadBy
<1>2. fill \in Fills
  BY DEF FlashTypeInv
<1> QED BY <1>1, <1>2, SameFill

\* A failed read repeats a chunk, and in random data none repeats: if what
\* was read is random data, it is the partition.
LEMMA HonestRead ==
  ASSUME FlashTypeInv, NEW reader, NEW c \in ReadBy(reader), DistinctTo(c, Sectors)
  PROVE  c = fill
<1>1. PICK failed \in SUBSET (1..Sectors), stale \in {Torn, fill[Sectors]} :
        \A i \in 1..Sectors :
          c[i] = IF i \notin failed THEN fill[i] ELSE IF i = 1 THEN stale ELSE c[i - 1]
  BY DEF ReadBy
<1>2. \A i \in 2..Sectors : i \notin failed
  <2> SUFFICES ASSUME NEW i \in 2..Sectors, i \in failed PROVE FALSE
    OBVIOUS
  <2>1. i \in 1..Sectors /\ i - 1 \in 1..Sectors /\ i # i - 1 /\ i # 1
    BY FlashAssumption
  <2>2. c[i] = c[i - 1]
    BY <1>1, <2>1
  <2> QED BY <2>1, <2>2 DEF DistinctTo
<1>3. 1 \in 1..Sectors /\ Sectors \in 2..Sectors /\ Sectors \in 1..Sectors /\ Sectors # 1
  BY FlashAssumption
<1>4. c[Sectors] = fill[Sectors]
  BY <1>1, <1>2, <1>3
<1>5. 1 \notin failed
  <2> SUFFICES ASSUME 1 \in failed PROVE FALSE
    OBVIOUS
  <2>1. c[1] = Torn \/ c[1] = c[Sectors]
    BY <1>1, <1>3, <1>4
  <2>2. c[1] # Torn
    BY <1>3, FlashAssumption DEF DistinctTo
  <2> QED BY <1>3, <2>1, <2>2 DEF DistinctTo
<1>6. \A i \in 1..Sectors : c[i] = fill[i]
  BY <1>1, <1>2, <1>5
<1>7. c \in Fills
  BY DEF ReadBy
<1>8. fill \in Fills
  BY DEF FlashTypeInv
<1> QED BY <1>6, <1>7, <1>8, SameFill

\* While nvs has no magic number the words noted are another record's.
LEMMA NotedWasThere ==
  ASSUME FlashTypeInv, FlashInv, nvs \in NoMagic, noted # Nothing
  PROVE  rewritten = TRUE
<1>1. noted \in Fills
  BY DEF FlashTypeInv
<1> QED BY <1>1, RecordAssumption DEF FlashInv, FlashTypeInv

LEMMA FlashStepKeeps ==
  ASSUME ProvisioningReads, FlashTypeInv, FlashInv, FlashStep
  PROVE  FlashInv'
<1> USE FlashAssumption, RecordAssumption DEF FlashTypeInv, FlashInv
<1>0. Nothing \notin Fills
  BY DEF Records
<1>1. CASE Provision
  <2>1. at = "provision" /\ UNCHANGED <<nvs, digest, words, noted, rewritten>>
    BY <1>1, Zenon DEF Provision
  <2>2. \/ at' \in {"verify", "halt"}
        \/ at' = "fill" /\ pos' = 1 /\ nvs \in NoMagic
    BY <1>1, Zenon DEF Provision, MagicSeen, ProvisioningReads
  <2>3. words = Nothing
    BY <2>1
  <2>4. DistinctTo(fill', 0)
    BY DEF DistinctTo
  <2> QED BY <2>1, <2>2, <2>3, <2>4
<1>2. CASE FillSector
  <2>1. at = "fill" /\ UNCHANGED <<nvs, digest, words, noted, rewritten>> /\ words = Nothing
    BY <1>2 DEF FillSector
  <2>2. CASE at' = "halt"
    BY <2>1, <2>2
  <2>3. CASE /\ \E r \in Randoms \ {fill[j] : j \in 1..(pos - 1)} : fill' = [fill EXCEPT ![pos] = r]
             /\ pos' = pos + 1
             /\ at' = IF pos = Sectors THEN "hashFill" ELSE "fill"
    <3>1. PICK r \in Randoms \ {fill[j] : j \in 1..(pos - 1)} : fill' = [fill EXCEPT ![pos] = r]
      BY <2>3
    <3>2. pos \in 1..Sectors /\ DistinctTo(fill, pos - 1)
      BY <2>1
    <3>3. fill'[pos] = r /\ \A i \in 1..(pos - 1) : fill'[i] = fill[i] /\ fill[i] # r
      BY <3>1, <3>2 DEF Fills
    <3>4. DistinctTo(fill', pos)
      <4>1. \A i \in 1..pos : i = pos \/ i \in 1..(pos - 1)
        BY <3>2
      <4> QED BY <3>1, <3>2, <3>3, <4>1 DEF DistinctTo
    <3>5. pos' - 1 = pos
      BY <2>3
    <3> QED BY <2>1, <2>3, <3>4, <3>5
  <2> QED BY <1>2, <2>2, <2>3 DEF FillSector
<1>3. CASE HashFill
  <2>1. digest' = fill
    BY <1>3, SureRead DEF HashFill, ProvisioningReads
  <2> QED BY <1>3, <2>1 DEF HashFill
<1>4. CASE EraseNvs
  <2>1. nvs \in NoMagic /\ nvs' \in NoMagic /\ nvs' \notin Fills
    BY <1>4 DEF EraseNvs, NoMagic
  <2>2. words = Nothing /\ (noted # Nothing => rewritten)
    BY <1>4, <2>1, NotedWasThere DEF EraseNvs
  <2> QED BY <1>4, <2>1, <2>2 DEF EraseNvs
<1>5. CASE WriteRecord
  <2>1. at = "nvsWrite" /\ at' = "verify" /\ UNCHANGED <<fill, pos, digest, words, noted, rewritten>>
    BY <1>5 DEF WriteRecord
  <2>2. words = Nothing /\ (noted # Nothing => rewritten)
    BY <2>1, NotedWasThere
  <2>3. nvs' \in Fills => nvs' = fill
    BY <1>5, <2>1 DEF WriteRecord, Written, CutShort, NoMagic
  <2> QED BY <2>1, <2>2, <2>3
<1>6. CASE VerifyProof
  <2>1. at = "verify" /\ UNCHANGED <<fill, nvs, pos, digest, rewritten>> /\ words = Nothing
    BY <1>6 DEF VerifyProof
  <2>2. CASE at' = "halt" /\ UNCHANGED <<words, noted>>
    BY <2>1, <2>2
  <2>3. CASE ~(at' = "halt" /\ UNCHANGED <<words, noted>>)
    <3>1. PICK current \in ReadBy("readVerify"), record \in RecordsRead :
            /\ record \notin NoMagic /\ record = current
            /\ at' = "plan"
            /\ words' = current
            /\ noted' = IF noted = Nothing THEN words' ELSE noted
      BY <1>6, <2>3, Zenon DEF VerifyProof
    <3>2. current = nvs
      BY <3>1 DEF RecordsRead, NoMagic
    <3>3. current \in Fills
      BY ReadIsFill
    <3>4. current = fill
      BY <3>2, <3>3, HonestRead
    <3> QED BY <1>0, <2>1, <3>1, <3>2, <3>3, <3>4
  <2> QED BY <2>2, <2>3
<1> QED BY <1>1, <1>2, <1>3, <1>4, <1>5, <1>6 DEF FlashStep

LEMMA ResetKeeps ==
  ASSUME FlashTypeInv, FlashInv, FlashAfterReset
  PROVE  /\ nvs' \in Fills => nvs' = nvs
         /\ noted # Nothing => nvs' = nvs \/ rewritten
<1> USE FlashAssumption, RecordAssumption DEF FlashTypeInv, FlashInv
<1>1. CASE nvs' = nvs
  BY <1>1
<1>2. CASE at \in {"nvsErase", "nvsWrite"} /\ nvs' \in {nvs, Scrap, TornRecord}
  BY <1>2, NotedWasThere DEF NoMagic
<1> QED BY <1>1, <1>2 DEF FlashAfterReset, CutShort, flash

LEMMA FlashKeeps ==
  ASSUME ProvisioningReads
  PROVE  LoaderInv /\ FlashInv /\ [LoaderNext]_lvars => FlashInv'
<1> SUFFICES ASSUME LoaderInv, FlashInv, [LoaderNext]_lvars PROVE FlashInv'
  OBVIOUS
<1>0. FlashTypeInv /\ HeldInv /\ BufInv
  BY DEF LoaderInv
<1>1. CASE UNCHANGED fvars
  BY <1>1 DEF fvars, FlashInv, DistinctTo
<1>2. CASE PowerOn
  BY <1>2 DEF PowerOn, flash, FlashInv
<1>3. CASE Load
  <2>1. at = "load" /\ UNCHANGED <<flash, pos, digest, words, noted, rewritten>>
    BY <1>3 DEF Load
  <2>2. at' \in {"load", "halt", "magic"}
    BY <1>3, TheChecks, Zenon DEF Load
  <2> QED BY <2>1, <2>2 DEF FlashInv, flash
<1>4. CASE Check
  <2>1. UNCHANGED <<flash, pos, digest, words, noted, rewritten>>
    BY <1>4 DEF Check
  <2>2. PICK i \in 1..10 :
          /\ at = Checks[i]
          /\ at' = "halt" \/ at' = IF i = 10 THEN "provision" ELSE Checks[i + 1]
    BY <1>4, TheChecks, Zenon DEF Check, HaltAnd
  <2>3. words = Nothing
    BY <2>2, StagesApart DEF FlashInv
  <2>4. at' \notin {"fill", "hashFill", "nvsErase", "nvsWrite"}
    <3>1. CASE i = 10
      BY <2>2, <3>1
    <3>2. CASE i < 10
      BY <2>2, <3>2, StagesApart DEF FlashStages
    <3> QED BY <3>1, <3>2
  <2> QED BY <2>1, <2>3, <2>4 DEF FlashInv, flash
<1>5. CASE Prove
  BY <1>0, <1>5, FlashStepKeeps DEF Prove
<1>6. CASE Plan
  <2>1. at = "plan" /\ at' \in {"halt", "jump"} /\ UNCHANGED <<flash, pos, digest, words, noted, rewritten>>
    BY <1>6 DEF Plan, HaltAnd
  <2> QED BY <2>1 DEF FlashInv, flash
<1>7. CASE PowerOff
  <2>1. at' = "off" /\ words' = Nothing /\ UNCHANGED <<noted, rewritten>> /\ FlashAfterReset
    BY <1>7 DEF PowerOff
  <2>2. nvs' \in Fills => DistinctTo(nvs', Sectors)
    BY <1>0, <2>1, ResetKeeps DEF FlashInv
  <2>3. noted' # Nothing => noted' = nvs' \/ rewritten'
    BY <1>0, <2>1, ResetKeeps DEF FlashInv
  <2> QED BY <2>1, <2>2, <2>3 DEF FlashInv
<1>8. CASE Modify
  <2>1. at = "off" /\ UNCHANGED <<at, pos, digest, words, noted>> /\ words = Nothing
    BY <1>8 DEF Modify, FlashInv
  <2>2. nvs' \in Fills => DistinctTo(nvs', Sectors)
    <3>1. \A f \in Provisioned : DistinctTo(f, Sectors)
      BY DEF Provisioned, DistinctTo
    <3> QED BY <1>8, <3>1, RecordAssumption DEF Modify, FlashInv
  <2>3. noted' # Nothing => noted' = nvs' \/ rewritten'
    BY <1>8, <2>1, <1>0 DEF Modify, FlashInv, FlashTypeInv
  <2> QED BY <2>1, <2>2, <2>3 DEF FlashInv
<1> QED BY <1>1, <1>2, <1>3, <1>4, <1>5, <1>6, <1>7, <1>8 DEF LoaderNext, Boot, Environment, lvars

LEMMA FlashInitInv == LoaderInit => FlashInv
<1> SUFFICES ASSUME LoaderInit PROVE FlashInv
  OBVIOUS
<1>1. at = "off" /\ nvs \in NoMagic /\ words = Nothing /\ noted = Nothing
  BY DEF LoaderInit, FlashInit
<1> QED BY <1>1, RecordAssumption DEF FlashInv

\* Words that a boot shows are the hash of random_fill as it is and the record
\* in nvs as it is, and they are those the user wrote down unless somebody has
\* changed nvs since: for every number of sectors and every mix of torn erases
\* and writes, resets, failed reads, and changes of either partition.
THEOREM WordsHold ==
  ASSUME ProvisioningReads
  PROVE  LoaderSpec => []WordsAreTrue
<1>1. FlashInv => WordsAreTrue
  BY DEF FlashInv, WordsAreTrue
<1>2. LoaderInv /\ FlashInv /\ [LoaderNext]_lvars => FlashInv'
  BY FlashKeeps
<1> QED BY <1>1, <1>2, InitInv, LoaderStepKeeps, FlashInitInv, PTL DEF LoaderSpec

\* Only an authenticated bundle has the loader write flash, and only as long
\* as nvs has no magic number.
THEOREM ProvisionedOnce ==
  ASSUME ProvisioningReads
  PROVE  LoaderSpec => FlashIsProvisionedOnce
<1> DEFINE Step == at # "off" /\ flash' # flash =>
                     /\ nvs \in NoMagic
                     /\ buf \in Bundles /\ buf \cap CheckNames = {}
<1>1. LoaderInv /\ FlashInv /\ [LoaderNext]_lvars => [Step]_lvars
  <2> SUFFICES ASSUME LoaderInv, FlashInv, LoaderNext, at # "off", flash' # flash
               PROVE  nvs \in NoMagic /\ buf \in Bundles /\ buf \cap CheckNames = {}
    OBVIOUS
  <2>1. at \in {"provision", "fill", "nvsErase", "nvsWrite"} /\ (at = "provision" => nvs \in NoMagic)
    <3>1. CASE Prove
      <4>1. CASE Provision
        BY <4>1, Zenon DEF Provision, MagicSeen, ProvisioningReads, flash
      <4>2. CASE FillSector \/ HashFill \/ EraseNvs \/ WriteRecord \/ VerifyProof
        BY <4>2 DEF FillSector, HashFill, EraseNvs, WriteRecord, VerifyProof, flash
      <4> QED BY <3>1, <4>1, <4>2 DEF Prove, FlashStep
    <3>2. CASE PowerOff
      BY <3>2 DEF PowerOff, FlashAfterReset, flash
    <3>3. CASE PowerOn \/ Load \/ Check \/ Plan
      BY <3>3 DEF PowerOn, Load, Check, Plan
    <3>4. CASE (SwapCard /\ UNCHANGED fvars) \/ Modify
      BY <3>4 DEF Modify, fvars, flash
    <3> QED BY <3>1, <3>2, <3>3, <3>4 DEF LoaderNext, Boot, Environment
  <2>2. nvs \in NoMagic
    BY <2>1 DEF FlashInv
  <2>3. PassedTo(11)
    BY <2>1 DEF LoaderInv, BufInv, FlashStages
  <2>4. \A n \in CheckNames : n \notin buf
    BY <2>3, TheChecks DEF PassedTo, CheckNames
  <2> QED BY <2>2, <2>3, <2>4 DEF PassedTo
<1>2. LoaderInv /\ FlashInv /\ [LoaderNext]_lvars => FlashInv'
  BY FlashKeeps
<1>3. LoaderSpec => [][Step]_lvars
  <2> HIDE DEF Step
  <2> QED BY <1>1, <1>2, InitInv, LoaderStepKeeps, FlashInitInv, PTL DEF LoaderSpec
<1> QED BY <1>3 DEF FlashIsProvisionedOnce

\* A whole hash is recorded only of the random data as it then is.
THEOREM RecordHolds ==
  ASSUME ProvisioningReads
  PROVE  LoaderSpec => RecordIsHonest
<1> DEFINE Step == at # "off" /\ nvs' # nvs => nvs' \in NoMagic \cup {TornRecord, fill'}
<1>1. LoaderInv /\ FlashInv /\ [LoaderNext]_lvars => [Step]_lvars
  <2> SUFFICES ASSUME LoaderInv, FlashInv, LoaderNext, at # "off", nvs' # nvs
               PROVE  nvs' \in NoMagic \cup {TornRecord, fill'}
    OBVIOUS
  <2>1. CASE Prove
    <3>1. CASE EraseNvs
      BY <2>1, <3>1 DEF EraseNvs, NoMagic
    <3>2. CASE WriteRecord
      BY <3>2 DEF WriteRecord, Written, CutShort, NoMagic, FlashInv
    <3>3. CASE Provision \/ FillSector \/ HashFill \/ VerifyProof
      BY <3>3 DEF Provision, FillSector, HashFill, VerifyProof
    <3> QED BY <2>1, <3>1, <3>2, <3>3 DEF Prove, FlashStep
  <2>2. CASE PowerOff
    BY <2>2 DEF PowerOff, FlashAfterReset, flash, CutShort, NoMagic
  <2>3. CASE PowerOn \/ Load \/ Check \/ Plan
    BY <2>3 DEF PowerOn, Load, Check, Plan, flash
  <2>4. CASE (SwapCard /\ UNCHANGED fvars) \/ Modify
    BY <2>4 DEF Modify, fvars
  <2> QED BY <2>1, <2>2, <2>3, <2>4 DEF LoaderNext, Boot, Environment
<1>2. LoaderInv /\ FlashInv /\ [LoaderNext]_lvars => FlashInv'
  BY FlashKeeps
<1>3. LoaderSpec => [][Step]_lvars
  <2> HIDE DEF Step
  <2> QED BY <1>1, <1>2, InitInv, LoaderStepKeeps, FlashInitInv, PTL DEF LoaderSpec
<1> QED BY <1>3 DEF RecordIsHonest
===========================================================================
