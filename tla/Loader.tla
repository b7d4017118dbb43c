------------------------------- MODULE Loader -------------------------------
(***************************************************************************)
(* The stateless loader: app_main of main/main.c, which has SdStorage load *)
(* a bundle from the SD card, checks it, has AntiPhish do its part, and    *)
(* jumps into the payload.  Resets and changes of the card come at any     *)
(* time.                                                                   *)
(***************************************************************************)
EXTENDS AntiPhish, SdStorage

lvars == <<fvars, svars>>

Stages == {"off", "load", "jump", "halt", "plan"} \cup CheckNames \cup FlashStages

LoaderInit == FlashInit /\ StorageInit /\ at = "off"

HaltAnd(wipe) ==
  /\ at' = "halt"
  /\ buf' = IF wipe THEN Wiped ELSE buf
---------------------------------------------------------------------------
PowerOn ==
  /\ at = "off"
  /\ at' = "load"
  /\ load' = "power"
  /\ UNCHANGED <<flash, pos, digest, words, noted, rewritten, chip, slot, held, buf>>

\* Step 1: without firmware it halts.
Load ==
  /\ at = "load"
  /\ LoadStep
  /\ at' = CASE load' = "loaded" -> Checks[1]
             [] load' = "failed" -> "halt"
             [] OTHER -> "load"
  /\ UNCHANGED <<flash, pos, digest, words, noted, rewritten>>

\* Mutant: what is checked is the card, not the copy that will run.
CheckCard ==
  /\ \E i \in DOMAIN Checks :
       /\ at = Checks[i]
       /\ IF slot = NoCard \/ at \in slot THEN HaltAnd(TRUE)
          ELSE /\ at' = IF i = Len(Checks) THEN "provision" ELSE Checks[i + 1]
               /\ UNCHANGED buf
  /\ UNCHANGED <<flash, pos, digest, words, noted, rewritten, chip, slot, load, held>>

\* The buffer passes the check it is at, or is wiped.
Check ==
  /\ \E i \in DOMAIN Checks :
       /\ at = Checks[i]
       /\ IF at \in buf THEN HaltAnd(TRUE)
          ELSE /\ at' = IF i = Len(Checks) THEN "provision" ELSE Checks[i + 1]
               /\ UNCHANGED buf
  /\ UNCHANGED <<flash, pos, digest, words, noted, rewritten, chip, slot, load, held>>

\* Mutant: a failed proof halts with the firmware in memory.
ProveWithoutWipe == FlashStep /\ UNCHANGED svars

\* provision_flash_fill and verify_anti_phishing_proof; a failure wipes.
Prove ==
  /\ FlashStep
  /\ buf' = IF at' = "halt" THEN Wiped ELSE buf
  /\ UNCHANGED <<chip, slot, load, held>>

\* esp_image_plan halts by itself, without wiping.
Plan ==
  /\ at = "plan"
  /\ IF "image" \in buf THEN HaltAnd(FALSE) ELSE at' = "jump" /\ UNCHANGED buf
  /\ UNCHANGED <<flash, pos, digest, words, noted, rewritten, chip, slot, load, held>>

\* A reset: after the jump or a halt, or for a loss of power at any stage.
PowerOff ==
  /\ at \in {"jump", "halt"} \/ ("power" \in FlashFaults /\ at # "off")
  /\ FlashAfterReset
  /\ at' = "off" /\ pos' = 1 /\ digest' = Nothing /\ words' = Nothing
  /\ load' = "idle" /\ held' = {} /\ buf' = NoBuffer
  /\ UNCHANGED <<noted, rewritten, chip, slot>>

Environment == (SwapCard /\ UNCHANGED fvars) \/ (Modify /\ UNCHANGED svars) \/ PowerOff

Boot == PowerOn \/ Load \/ Check \/ Prove \/ Plan

LoaderNext == Boot \/ Environment

LoaderSpec == LoaderInit /\ [][LoaderNext]_lvars
---------------------------------------------------------------------------
(* Properties *)

LoaderTypeOK ==
  /\ fill \in Fills /\ nvs \in Records
  /\ at \in Stages
  /\ pos \in 1..(Sectors + 1)
  /\ {digest, words, noted} \subseteq Fills \cup {Nothing}
  /\ rewritten \in BOOLEAN
  /\ StorageTypeOK

\* Steps 2.5 to 8 of app_main: what runs passed every check, whatever card is
\* in the slot by then, and it runs behind words that this boot has shown.
OnlySoundBundlesRun == at = "jump" => buf = {} /\ words # Nothing

\* The loader writes flash for an authenticated bundle only, and never as long
\* as nvs has the magic number, through every reset.
FlashIsProvisionedOnce ==
  [][at # "off" /\ flash' # flash =>
       /\ nvs \in NoMagic
       /\ buf \in Bundles /\ buf \cap CheckNames = {}]_lvars

\* Whatever fails or is cut short, the loader never records a whole hash that
\* is not the hash of the random data.
RecordIsHonest ==
  [][at # "off" /\ nvs' # nvs => nvs' \in NoMagic \cup {TornRecord, fill'}]_lvars

\* Words that a boot shows vouch for both partitions as they are, whatever was
\* done to either before.  They are the words the user wrote down unless
\* somebody has changed nvs since: when nvs has been erased, the loader
\* provisions again and goes on to show other words.
WordsAreTrue ==
  words # Nothing =>
    /\ words = fill /\ words = nvs
    /\ words = noted \/ rewritten

\* No firmware stays in memory after a check or the proof failed.
HaltLeavesNoFirmware == at = "halt" => buf \in {NoBuffer, Wiped} \/ "image" \in buf

\* bootloader_explanation.md, 4.3, of a mismatch: "Someone modified the
\* flash".  For an instance in which nobody does.
MismatchMeansModified == ~(at = "verify" /\ Mismatch)
===========================================================================
