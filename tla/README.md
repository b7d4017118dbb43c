# Verification of the SeedSigner ESP32 bootloader

TLA+ modules, TLC configurations and TLAPS proofs for this repository: the
stateless loader that authenticates a firmware bundle from an SD card and jumps
into it, and the RAM-resident uploader that puts such bundles on the card over
the serial line.

`PROJECT.json` is the index: it maps each definition to the lines it stands
for, lists the runs with their properties, a mutant for every property, the
hazards of the code, the findings and the theorems.

- `tlc -config X.cfg M` checks a run, `tlapm M.tla` the proofs of a module.

## 1. The system

| Part | Code | State | Operations |
|---|---|---|---|
| Uploader storage | `uploader/main/uploader_storage.c` | `ssdu_state`, `s_card`, `s_active`, `s_temp`, `s_dest`, `ssdu_final`, `ssdu_length`, `ssdu_digest`, `ssdu_offset`; the card | mount, begin, write, commit, abort, verify, remove, release, list |
| Uploader dispatcher | `uploader/main/uploader_main.c` | `s_activity_us` | one handler per request, the receive loop, the stall guard |
| SSDU framing | `uploader/main/ssdu_proto.c` | parser state, a timer | feed a byte, emit a frame |
| Host client | `tools/sd_upload.py` | input buffer, retry counter, bytes acknowledged | upload, verify, list, remove, release, abort, status |
| Loader | `main/main.c` | the bundle in PSRAM | the boot sequence, steps 0 to 8 |
| Loader storage | `main/targets/*/storage_*.c` | card power, mount | mount, load, unmount |
| Anti-phishing proof | `main/anti_phish.c` | flash partitions `random_fill` and `nvs` | provision, verify |
| Image planner | `main/esp_image.c` | `esp_image_plan_t`, the staging buffer | measure, stage, map, copy |
| Hand-off | `main/targets/*/jump_*.c` | caches, MMU, on-chip memory | drain, copy, map, invalidate, jump |
| Bundle bounds | `main/bundle_validate.c` | none | overflow-safe size checks |
| Specter sections and signatures | `components/specter_crypto` | none | header validation, attributes, multisig counting |

How they interact:

- The client talks to the dispatcher by frames over the serial line. A request
  is answered by one response with no sequence number. A damaged frame is
  dropped by either side. The client sends a request again when no response
  arrives in time.
- The dispatcher is one task: it calls the storage functions synchronously.
  While COMMIT runs nothing else is served, but the board can lose power.
- A frame is bytes on a UART that the board's log uses too. Each side has a
  parser of its own that finds the frames again after damage.
- The planner hands the hand-off a list of copies and a list of mappings; what
  the payload then sees depends on the order of copies, cache operations and MMU
  entries, in memory that the hand-off itself runs from.
- The loader is one task too. It shares the card with nobody, but the user may
  change the card at any time, and flash outlives a reset.
- The uploader's image is loaded to RAM for each client command, so that every
  command begins with a reset of the board.

What is hard: the card operations of a COMMIT fail or are cut off one by one;
requests are repeated and responses come late, so both sides may disagree on
what has been done; a reset of the loader in the middle of flash provisioning;
a byte of a length lost on the line; the arithmetic of the image planner at page
and window boundaries; cache lines that are written back or fetched between two
steps of the hand-off.

What makes each part correct:

- *Storage*: an upload is an atomic publish. Under a final name there is
  nothing or the whole file BEGIN announced, whatever fails. A receipt is true.
  A card in an unknown state is left alone.
- *Dispatcher*: an upload cannot be open for ever.
- *Framing*: whatever happens to bytes, frames are only lost; a sound frame on a
  quiet line arrives.
- *Client*: it prints nothing that is not so, never takes a right copy off the
  card, and it ends.
- *Bundle checks*: they read inside the bundle whatever sizes it announces, and
  accept exactly what enough vendor keys have signed for this platform.
- *Loader*: only what was checked is run, the card is off by then, nothing of a
  refused bundle stays in memory.
- *Anti-phishing*: flash is provisioned once, as long as `nvs` has the magic
  number. Words are shown only when both partitions agree, and other words than
  the user noted only after somebody has changed `nvs`.
- *Planner*: nothing is mapped or copied from outside the image, and nothing is
  copied over the code that does the copying.
- *Hand-off*: the payload sees its own image, through the MMU and in on-chip
  memory.

## 2. The modules

| Module | Models |
|---|---|
| `AtomicPublish` | What the uploader promises of the card: Announce, Withdraw, Publish, Delete. |
| `SsduStorage` | The uploader's storage and dispatcher. |
| `SsduSession` | The client and the serial line around `SsduStorage`. |
| `LossyLine` | What framing promises of the line: frames are only lost. |
| `SsduFraming`, `MCSsduFraming` | Both parsers of the frame format, byte by byte. |
| `AntiPhish` | The two flash partitions and what provisioning and verification do to them. |
| `SdStorage` | `load_firmware_from_sd` of both chips. |
| `Loader` | `app_main` around `AntiPhish` and `SdStorage`. |
| `SpecterBundle`, `MCSpecterBundle` | The checks of a bundle: its sections, bounds and signatures. |
| `ImagePlan` | Both walks of the image planner, for the memory maps of both chips. |
| `HandOff`, `MCHandOff` | What the hand-off of each chip does with the plan, up to the jump. |
| `SsduStorageProofs`, `SsduPublishProofs`, `SsduSessionProofs`, `SsduClientProofs`, `SsduFramingProofs`, `LoaderProofs`, `SpecterBundleProofs`, `HandOffProofs` | The theorems. |

Which composes which: `SsduSession` extends `SsduStorage`; `Loader` extends
`AntiPhish` and `SdStorage`; `HandOff` extends `ImagePlan`. `SsduStorage` is
shown to implement `AtomicPublish`, `SsduFraming` to implement `LossyLine`. The
line of `SsduSession` is the one `LossyLine` describes, less the losses that the
client cannot tell from a loss in sending. `SpecterBundle` says what it takes to
fail the checks that `Loader` knows by name only.

### SsduStorage

Each static of `uploader_storage.c` is a variable of its name without the
prefix. `disk` maps every name to its data, `Dir` or `Absent`. Data are
sequences of blocks. SHA-256 is injective, so a digest is the data it was
computed from.

Each request is one action, since the dispatcher serves one at a time, and each
handler has the status it answers as its last parameter. COMMIT is cut at its
card operations: CommitStart, Flush, ReadTemp, StatDest, Rename, ReadFinal.
`phase` is where it is. Between two of them the only other steps are those of
the environment.

`Silence` stands for a minute without a request; it happens only while an
upload is open, since nothing else looks at the time. `StallAbort` is the guard
of `app_main`.

`Faults` says what goes wrong: an operation reports an error (`io`), data are
stored wrong (`write`), data are read wrong (`misread`), a file appears on its
own (`appear`), the power goes (`power`). After a reset an open temp file may
be gone or shorter, and an unfinished rename may have left both names, which is
what FatFs does to a directory entry that has not been written back.

`Admission` has the refusals that BEGIN, VERIFY and REMOVE share, in the code's
order. The card's capacity, and the observed digest a refusal carries, are left
out: nothing depends on them but text (a full card is one of the `io` errors).

### SsduSession

Adds the client's current request (`step`), its attempt (`tries`), the bytes
acknowledged, what was printed, and two queues. `Receive` takes the first
response there is, whatever request it answers, and drops those read with it,
as `Client.request` does with the rest of the frames of one read. `Timeout`
sends again or gives up. In a behaviour whose `pace` is "prompt" a request times
out only when its answer is lost; in one whose pace is "late" a request in
`Late` may also time out while its answer is on its way.

`StartCommand` resets the board and empties both buffers, as `open_session` and
`load_ram` do. `Calls` are the command lines: only upload and verify come with a
local file, the others carry the empty one. `Stalled` is the board's stall guard:
it may end an upload when the client is gone, and also under a client whose
requests are lost, since six attempts of ten seconds and more can outlast the
guard's minute.

### SsduFraming

One direction of the line, with either parser at its end (`side`): `ssdu_feed`
of `ssdu_proto.c`, which returns at each frame, or `Frames.feed` of
`sd_upload.py`, which goes on behind it. Both search for the magic from the next
byte whenever what they hold can no longer become a frame (`Resync`).

- A token is a byte of the magic, the type with the version, the length, a byte
  of payload, or the CRC. The code's four-byte length and CRC are one token
  each: half of one is neither a header nor a frame to either parser.
- A CRC is the body it was computed over, so damage never yields the CRC of
  another body.
- `Fault` loses, alters or inserts a byte at any place in any frame; text of the
  log is inserted bytes. `Wait` is the two seconds after which a half-received
  frame is dropped; nothing in the code bounds when they pass, so it is a free
  step. The host's clock starts when the magic is complete.
- `due` records what must have been passed on when the last frame was sent into
  a silent line. It has no counterpart in the code.

Payloads that contain a whole frame are left out: a body is delivered as such,
but a parser that loses the frame around it would find the frame inside it, and
`LossyLine` would not hold. No payload of the protocol has one by design, though
file data may.

### AntiPhish, SdStorage and Loader

A partition is a function from sectors to contents. An operation of flash fails
(`io`) or is cut short by a reset (`power`); in both cases what it wrote to may
be as before, done, or torn. A partition may not be found (`partition`). The
record is the hash, blank flash, torn with the magic number, or without it. A
read that fails leaves the buffer as it was, so that what is hashed is the chunk
before once more (`ReadBy`). The first chunk of a pass then repeats what an
earlier pass left on the stack, or is something else.

`SdStorage` has one action per step of `load_firmware_from_sd`, each with the
releases of its own error exit; `held` is what has been acquired and not
released. The P4 has the regulator, the S3 the bus and three drivers tried in
turn. A card that is exchanged while it is read gives a mixture, of which the
hash is wrong.

`at` is the program counter of `app_main`; `PowerOff` is the only way back. A
bundle is the set of the checks it fails, so that the loader's checks are one
action over the list of them.

While the board is off, `Modify` changes a sector of `random_fill` to anything,
or `nvs`: it is erased (a provisioned device is then provisioned again), scrapped,
damaged behind the magic number, or holds the hash of other random data, such as
an older one or that of another device, of which the fill may follow sector by
sector. `noted` is what the user wrote down at the first boot and `rewritten`
says that somebody has changed `nvs` since; neither has a counterpart in the code.
`WordsAreTrue` says what the words are worth: whoever leaves `nvs` alone cannot
have other words shown. After an erase of both partitions other words are shown,
which is how `docs/security_analysis.md` (A6, T13) means this to be noticed.

### SpecterBundle

Step 2.5 of `app_main` check by check, each with the functions of
`bundle_validate.c`, `bl_section.c` and `bl_signature.c` it calls. Additions
wrap around at `W`. `read` is the range of addresses the last step looked at, so
that reading outside of the bundle is a matter of states. Attribute lists are
bytes, walked as the code does, and compared with a declarative reading of the
format (`ParsesAs`). A signature is its key and the content it was made for.

### ImagePlan and HandOff

A byte of the image is its offset, so that what the payload sees can be
compared with what it should see. `DataAt` is the reference: where a segment's
data is, computed without the cursor. 64 KB pages become four bytes, the
32-byte prefix three, the mapped windows four pages each. `chip` chooses the
memory map: the S3 has two windows over the same flash, two buses to its on-chip
memory and a jump zone; the P4 has one window and no zone, which an empty one
stands for.

`HandOff` has one action per step of `do_mmu_mapping_and_jump`. External memory
is seen in pages: what the MMU shows of each (`mmu`), whether the cache holds
lines of it from before (`cached`), whether memory lacks some of them (`dirty`).
On-chip memory is seen in cells (`sram`), with those whose copy is still in the
cache (`pending`).

- The worst case is assumed at the start: lines of every page are cached and
  dirty, and a line may be put out at any store to cached memory.
- `evict_buf` is taken to be large enough to put out everything, as its 64 KB
  are of the cache sizes its comment names. The two cache levels of the P4 are
  one: after the first drain nothing in either is dirty, and between MMU entries
  and invalidation nothing is read from external memory.
- The plan's own `esp_cache_msync` is `flushed` in `Commit`. It is redundant with
  the first drain of the P4 and with the S3's write-back.
- When a copy leaves the memory of the chip, is not aligned where only words can
  be stored, or meets the hand-off's own cells, `stage` is "wild" and nothing more
  is said.
- The index of an MMU entry wraps in the P4's table and does not in the S3's, as
  in the code.

## 3. The runs

| Run | Checks | States |
|---|---|---|
| `ssdu_storage` | `TypeOK`, `SessionInv`, `OffsetIsTempLength`, `RenamesOnlyVerified`, refinement `PublishesAtomically`, liveness `SettlesWhenHostStops` | 8,067 |
| `ssdu_names` | `ReceiptStaysTrue`, `UncertainFreezesCard`, `OnlyFailuresLeaveTemp`, `LeftoversAreNotUsed` | 60,042 |
| `session` | `SessionTypeOK`, `CommittedIsTrue`, `PrintedIsTrue`, `UploadRemovesOnlyOther`, liveness `CommandEnds` | 292,124 |
| `session_stale` | `VerifiedMatches`: violated, finding 1 | |
| `session_clobber` | `NeverClobbers`: violated, finding 2 | |
| `framing` | `FramingTypeOK`, `BufferBounded`, `QuietFrameArrives`, refinement `IsLossyLine` | 380,594 |
| `loader` | `LoaderTypeOK`, `OnlySoundBundlesRun`, `WordsAreTrue`, `CardIsDeadAfterLoad`, `HaltLeavesNoFirmware`, `FlashIsProvisionedOnce`, `RecordIsHonest` | 321,132 |
| `loader_mismatch` | `MismatchMeansModified`: violated, finding 3 | |
| `specter` | `BundleTypeOK`, `ReadsStayInBundle`, `AcceptedIsWellFormed`, `AcceptedIsAuthorized`, `RejectedIsFaulty` | 91,600 |
| `handoff` | `HandOffTypeOK`, `MappedReadsItsImage`, `DirectReadsItsImage`, `PrefixIsShown`, `PlanStaysInBounds`, `CopiesMissJmpZone` | 1,125,148 |
| `handoff_memory` | `HandOffKeepsItsMemory`: violated, finding 4 | |
| `image_last_page` | `LastPageIsMapped`: violated, finding 5 | |

### Bounds, and why they are enough

- *Storage*: files of up to two blocks of two kinds, chunks of up to two. That
  has files of one and several chunks, short writes, a chunk that is too long, a
  size beyond the limit (`MaxFile + 1`) and wrong data of the right size.
  `ssdu_names` has two names and two temp names with files of one block: one
  name carries the receipt while the other is asked for, one temp name is taken
  by a former session's file. Nothing in the code relates three names. The
  theorems need none of these bounds.
- *Session*: two attempts and two files per command, so that the limit is
  reached in every request. More attempts make a difference: with three,
  `session_clobber` finds what goes wrong behind the first file. What the passing
  run checks is proved for any numbers. `Late` holds every request of an upload.
  It leaves out ABORT and RELEASE: they are last in a command, and what is left in
  the buffer then is dropped by the next command's reset.
- *Framing*: a magic of three bytes, the first two alike as in "SSDU", so that it
  may begin inside of itself; bytes that are those of the magic, of the type, the
  largest length and one beyond it; empty payloads and payloads of one byte that
  is a byte of the magic; room for a whole frame in a payload whose length is
  damaged. Three frames: one that is damaged, one that it swallows, one that
  must arrive. Two faults.
- *Loader*: two sectors (so that the fill can be cut between them), two random
  values (two fills that differ), one defect per bundle (checks are in a
  sequence: a second defect is found only when the first one is not there), or
  two that the loader and the signatures find.
- *Bundle*: addresses of five bits, with every size of the bundle and every pair
  of announced sizes, so that each sum wraps around for some of them; all
  attribute lists of five bytes, which hold two attributes or one with a value
  that looks like another; up to three records, enough for two equal ones with
  another between them. The threshold is 2 and there are three keys in two
  lists, two of one fingerprint; the build has 1 and one key, with which
  counting twice could not be told from counting once.
- *Planner and hand-off*: all tables of up to three segments over seven
  addresses per chip and five lengths that put a segment on, across, before and
  just after a page border, at the end of a window, across and in the jump zone,
  on the hand-off's own memory and in no window; two mappings and two copies, so
  that three segments exceed either array.

`CHECK_DEADLOCK FALSE` stands where the system really stops: the checks of a
bundle end, frames and faults of the line are finite in number, and the hand-off
ends in the payload.

### What the runs leave out

- `loader` has failing reads in verification (`readVerify`) and not in
  provisioning (`readProvision`). With the latter `WordsAreTrue`,
  `FlashIsProvisionedOnce` and `RecordIsHonest` do not hold: a failed read of the
  record makes a provisioned device provision again (see the end
  of section 5), and a failed read of the fill records the hash of something
  else, which is what the unchecked `esp_partition_read` of line 88 of
  `anti_phish.c` amounts to. The three theorems have the assumption in their
  statement.
- `Modify` records in `nvs` only hashes of data without a chunk twice, as random
  data are. A record of other data could match a pass over `random_fill` in which
  reads fail, and words be shown of a fill that is not there.
- Somebody who copies both partitions of a device to another has the other show
  the same words (`docs/security_analysis.md`, A5): `WordsAreTrue` says nothing of
  whose flash it is. That words change after an erase rests on the generator not
  repeating itself, which is not modelled.
- `session` has no power loss: each command begins with a reset, and a reset
  within one is a client that meets a device in NO_MEDIA.
- `CommittedIsTrue` and `UploadRemovesOnlyOther` are about commands that go in
  order (`Orderly`): no answer is late, or it is the first file of its command.
  Behind the first file an answer to a request about another file may come in
  (finding 2).
- `UploadRemovesOnlyOther` is about a card that is read right: a VERIFY whose
  reading went wrong answers that the digests differ, and the client removes the
  file.
- `MappedReadsItsImage` and `PrefixIsShown` are about images as the linker lays
  them out (`WellLaidOut`), and leave out the byte of finding 5. To be well laid
  out no segment, an empty one included, may be on a page of another: the planner
  stamps the prefix into the page of an empty segment too. The proof needs this;
  pages of four bytes, of which the prefix takes three, are too small for TLC to
  show it.
  `DirectReadsItsImage` is about copies that meet neither each other nor the
  hand-off's memory (finding 4).
- The magic of a frame does not end with what it begins with, as "SSDU" does not
  (`FramingAssumption`). `QuietFrameArrives` needs it: junk that ends with the
  beginning of such a magic would hide the frame behind it.

### Fairness

`FairSpec` of `SsduStorage` assumes weak fairness of `CommitStep` (a card
operation returns: the driver's calls have time-outs), of `Silence` (time
passes) and of `StallAbort` (`app_main`'s loop polls it at least every time the
serial read times out). Requests are not fair: `SettlesWhenHostStops` is about
the behaviours in which they end. `FairSession` assumes that both programs keep
running (`Client`, `Board`) and nothing of the line, which may lose every frame.

## 4. The proofs

### The uploader

`SsduStorageProofs` proves that `IInv` holds in every reachable state, for any
sets of names, temp names and blocks, any sizes and any subset of the faults.
The only assumption is `StorageAssumption` of `SsduStorage`: sizes are natural
numbers, the markers are not data, and final names and temp names are disjoint
(`ssdu_valid_name` refuses the prefix of a temp name).

    IInv == TypeOK /\ SessionInv /\ OffsetIsTempLength /\ RenamesOnlyVerified

- `OffsetIsTempLength` and `RenamesOnlyVerified` are what one wants, but neither
  is inductive: a WRITE appends to `temp` and not to `active`, a COMMIT renames
  to `final` what was read from `temp`.
- `SessionInv` says which statics mean something in which state: the open file
  is `temp` and exists, an idle device has a card and no open file, a COMMIT is
  in VERIFYING with all bytes received. This is what the guards, each of which
  looks at one or two statics, rely on.

There is one lemma per handler, one step per way the handler may end, and below
it one step per conjunct that the way can disturb. The two steps that carry the
argument are `WriteIInv` (lengths of the sequences) and `RenameIInv` (the final
name gets what the temp name had, and the two differ).

From it: `TypeCorrect`, `SessionIsCoherent`, `OffsetAgreement`,
`OnlyVerifiedIsRenamed`. `ReceiptIsTrue` and `UncertainIsFrozen` are action
properties, each by a lemma over one step. `ReceiptIsTrue` needs `IInv` where a
COMMIT ends (what was read is what was announced) and the fact that no request
but a REMOVE of that name touches a final name in COMMITTED. `TempIsCleaned` goes
through every way out of an upload: the temp file is renamed, removed, or a card
operation has failed. `LeftoversAreSpared` is about temp files of earlier uploads.
It needs `TempInv` beside `IInv`: where `s_temp` may name a file that is not the
session's own and there is a card to unlink it from, the device is idle.

`SsduPublishProofs` proves that the uploader implements `AtomicPublish`. The
mapping shows the final names only (`Files`) and takes the announced file as the
offer from BEGIN to the rename (`Offer`). BEGIN maps to Announce, the rename (or
the power loss that leaves both names) to Publish, every other end of an upload
to Withdraw, REMOVE to Delete. The rest stutters, and so the lemmas are about
which actions leave `Files` and `Offer` alone.

`SsduSessionProofs` carries both over to the composition: with the client around
the board, frames lost, repeated or late, and a reset by every command, `IInv`
holds (`BoardStaysSound`) and uploads publish atomically
(`CommandsPublishAtomically`), for any numbers of attempts and files. Each
handler lemma is used again for the request at the head of the queue; what is
new is that those requests are well formed, by `ClientInv`: the queues have their
types, and `acked <= Len(job.data)`, without which a WRITE might ask for bytes
behind the file. `SessionTypesHold` follows.

### The client

`SsduClientProofs` is about what is on its way: answers that the client may still
read, and a REMOVE that the board may still serve. It has one invariant for each
alternative of `Orderly`, of which both hold in every session.

- `SInv` is about the first file of a command, whatever is late (`FirstInv`,
  `FirstClob`). A request of this file answers about this file, however often it
  was sent. A receipt names what was committed, and stays true until the client
  reads it because no REMOVE waits behind a COMMIT: the client sends none after
  BEGIN, so that those still on the line are served before.
- `PInv` is about prompt answers (`PromptInv`, `PromptClob`). At most one request or
  answer is on the line, and it is that of the step the client is at.

From both: `ReceiptsAreTrue`, `ReportsAreTrue`, `GoodFilesStay`. The last assumes
`NoMisread`, and says so: only then does the answer that two digests differ mean
that the files do. A file is taken off the card only where the board serves a
REMOVE (`LosesByRemove`), and a REMOVE in an upload follows such an answer.

### Framing

`SsduFramingProofs` is about both parsers and any bytes, magic, payloads, and
numbers of frames and faults that `FramingAssumption` allows.

    TypeInv == FramingTypeOK /\ BufferBounded

`BufferHasRoom` says that `s_buf` is never full when a byte comes: what is left
after `Resync` is not rejected, so its header, if it is complete, has a length
within the limit, and the buffer is shorter than that frame unless the frame is
whole.

`FramesOnlyGetLost` is the refinement of `LossyLine`. The queue of that line is
the CRCs of the frame being received and of those on the wire, and since the CRC
of a body is the body, what is passed on is in that queue and leaves it in order.
Two recursive functions have to be understood for it. `CrcsOf`, which picks the
CRCs from a sequence, is shown to respect concatenation (`CrcsOfConcat`). The loop
of `Frames.feed` is described by an invariant over what it has passed on and what
is left (`Passed`, `FoundIs`). Both go by induction on a length, which
`SetInduction` takes from the fact that a set of numbers has a least element: the
induction theorems of the library are out of reach, a set to reason about is not.
`Parsed` then says the same of either parser, and the rest of the proof no longer
knows which it is about.

`QuietFramesArrive` says that a frame sent on a silent line and left alone is
passed on, whatever the buffer held before. `QuietInv` follows the frame token by
token: as long as it is not complete, the buffer ends with what has come of it
(`Arriving`). `JunkSlides` is the step that needs the magic not to end with what it
begins with: when the search for the magic gives something up, it never goes past
the place where the frame begins.

### The loader

`LoaderProofs` rests on two inductive invariants.

    LoaderInv == FlashTypeInv /\ at \in Stages /\ StorageTypeOK /\ HeldInv /\ BufInv

`HeldInv` says what is held at which step of loading, which makes
`CardIsDeadAfterLoad` a matter of the last step. `BufInv` says what the buffer
has passed at which check (`PassedTo`): from it `OnlySoundBundlesRun` and
`HaltLeavesNoFirmware`. These need no assumption but that the markers differ.

`FlashInv` is about provisioning: sectors written so far are all different, the
record is not there before the hash of the whole fill is (`digest = fill` up to the
write), and the user's words are those of the record unless somebody has changed
it. While `nvs` has no magic number the latter is the case (`NotedWasThere`): the
loader itself never erases a record. The lemma that carries it is
`HonestRead`: a read that fails repeats a chunk, and a fill of different chunks has
no repetition, so that a hash that matches the record was read without failure.
That needs two sectors at least (`FlashAssumption`). `WordsHold`,
`ProvisionedOnce` and `RecordHolds` assume `ProvisioningReads`, that the reads of
provisioning itself succeed (see above).

### The bundle

`SpecterBundleProofs` assumes of the constants (`BundleAssumption`) that the
buffer is not at the end of the address space and that a header and the largest
payload do not wrap around. `BoundInv` says what each check has established for
those behind it. `MainFits` is compared first; from then on no sum wraps around
(`PlusSmall`), and `SigFits` compares the announced size of the records with the
bundle's before it adds it: `ReadsHold`. `AuthInv` says that `valid` is the number
of keys whose valid signature is among the records looked at, which are distinct
(`valid = Cardinality(Counted(n))`): `AuthorizedHolds`.

What the checks accept and refuse is proved too, for any length of the attribute
list, so that the checks decide neither more nor less than they should.

- `WellInv` says what the checks that have passed say of the bundle, and with
  `BoundInv` gives `WellFormedHolds`: the code's two walks over the attributes
  agree with the declarative reading of the format. The walks are recursive
  functions, unfolded by an induction that starts at the end of the list
  (`Downwards`): what a walk finds from an entry on depends on the entries behind
  it only. `FitsAreParsed` and `PlatformIsNamed` lead from the code's reading to
  the declarative one, `ParsedFit`, `ParsedFound` and `NamedIsFound` back.
- `ReleaseInv` says that of a `Release`, no check has failed and every record looked
  at has counted: `ReleasesHold`. A release has the layout and the header that
  `AcceptedIsWellFormed` asks for, and only right signatures, one of each key, as
  many as the threshold asks for.

For these `BundleAssumption` also has the length of the list, the limits of a
string and of a version as positive numbers, and the platform's name as a
sequence of bytes.

### Planner and hand-off

`HandOffProofs` shows first that the hand-off implements the planner
(`HandOffPlans`: it changes nothing of the plan), and then, of the planner, that
arrays keep their limits (`PlanTypesHold`), that mappings and copies stay in
bounds (`BoundsHold`) and clear of the jump zone (`ZoneHolds`), for any page size
of at least the prefix, any windows and images. `PlanInv` adds to these that the
measured footprint is a whole number of pages when the second walk begins: a
mapping is rounded up to pages, and stays inside only because the footprint is.
The lemmas are on rounding to pages. `DataAt` is recursive; `DataAtStep` unfolds it
by the induction over sets of numbers used for framing, and `EndIsSize` shows that
it ends where the image does.

What the payload sees takes two more invariants.

    PlacedInv == WalkInv /\ ListedInv /\ StagedInv
    HandInv   == StageInv /\ CacheInv /\ MmuInv /\ MemoryInv

- `WalkInv`: the cursor is where `DataAt` says. `ListedInv`: each segment behind the
  walk has its mapping or its copy, and no mapping is of anything else.
  `StagedInv`: its data is in the staging buffer, also when others have been put
  there since. The last is the hard one: `PlaceMapped` writes the prefix and a
  whole segment into a buffer that holds others, and only `WellLaidOut` keeps these
  apart (`Untouched`). `PrefixHolds` follows.
- `StageInv` has the order of the steps of each chip. `CacheInv`: after the first
  drain, or the write-back of the S3, the staging buffer is in memory and no line
  of the loader's can be put out over it; after the invalidation no line is left
  of a page that was mapped. `MmuInv`: an entry shows a page of the staging buffer
  that some mapping gave it, or the loader's own. `MemoryInv`: a copied byte is in
  its cell unless the second drain has written there since (`CopiesStand`), and
  after that drain behind the cache as well.

`MappedHolds` puts these together: an address of a mapped segment is in a page
that some mapping covers (`ByteIsMapped`), the entry of that page shows the page of
the same number of the staging buffer (`ShowsItself`), the cache holds nothing old
of it, and what is staged there is the image's byte. `DirectHolds` needs that
later copies leave the cells of earlier ones alone (`AfterAllCopies`), and
`HandOffTypesHold` that a mapping stays inside the buffer's pages.

Of the constants the proofs use `PlanAssumption` (a page is larger than one byte
and holds the prefix; a window begins at a multiple of its span) and
`HandOffAssumption`: the buffer's pages are pages of the window, the hand-off's own
cells are memory of the chip, the cell before the instruction bus's window is not,
and no mapped window meets a direct one. They hold of the memory maps of both chips.

### Model-checked only

Every invariant, action property and refinement that a passing run checks is also
a theorem. What TLC alone shows:

- Liveness (`SettlesWhenHostStops`, `CommandEnds`): fairness is a matter of ENABLED,
  which the prover does not reach.
- The properties that do not hold: a violation is a behaviour, which TLC exhibits.

## 5. Findings

1. `Client.request` gives the first HELLO 0.3 s though the mount behind it may
   take longer. The second HELLO is then answered as well, all later answers are
   off by one, and `verify` prints VERIFIED on the answer to HELLO
   (run `session_stale`). The upload of one file is safe: the receipt carries name
   and digest (`CommittedIsTrue` in `session`).
2. `sd_upload.py:256-258`: "never clobber blindly". Of an upload of several files
   this is not so when answers are late: a LIST that is sent three times leaves
   two answers behind, which are taken for those of the requests that follow. In
   the second file of the command the DIGEST_MISMATCH of the first one's VERIFY is
   taken for its own, and a file that is identical is removed (run
   `session_clobber`).
3. The magic number is written in front of the hash by one write and counts as
   the sign of complete provisioning. A reset in that write leaves a device
   which reports at each boot that somebody has modified its flash
   (run `loader_mismatch`).
4. The planner's windows test where a segment starts, not where it ends, and the
   P4 has no jump zone: an image may be accepted that is copied over the
   hand-off's variables or over what its second drain writes
   (run `handoff_memory`). The payload the loader is built for is not such an
   image.
5. `va_end` is rounded up with `0xFFFF - 1`: a mapped segment that ends one byte
   into a page loses this page (run `image_last_page`).

Smaller disagreements that no run is about:

- `uploader/README.md:31-32`: I/O failures "park the device in `UNCERTAIN` until
  `ABORT`". `ssdu_abort` refuses in UNCERTAIN; only a reset helps. It errs on the
  safe side: `UncertainFreezesCard`, proved as `UncertainIsFrozen`, says that no
  request changes the card or the state any more.
- `ssdu_proto.h:116-118` has the payload valid until the next frame is accepted;
  the next byte that is fed may overwrite it. No caller keeps it that long.
- `docs/bootloader_explanation.md` 5.7 has the second drain write all 262144
  bytes; the code writes 65536. Section 5.8 has the PMP registers cleared; the
  code clears `mtvec` only.
- The comment of `loader_high.ld` that keeps copies off the S3's high memory
  holds for the data bus addresses of the present payload.
- Below about 65 kbaud a WRITE of the largest size takes longer than the parser's
  two seconds and can never be accepted. The default is 921600.
- The client looks for "directory" in a listing where the board sends "dir".
- `docs/security_analysis.md:205` and `:336-340` (T10) report that a `pl_size` past
  the end of the bundle causes a silent read out of bounds, that the loader halts
  only at the signature section, and that this "confirms the `pl_size`
  bounds-check gap (A8)". The code has no such gap: `app_main` compares that size
  before it hashes (`bundle_validate_main_size`, `main.c:115`) and halts there.
  `ReadsStayInBundle`, proved as `ReadsHold`, contradicts the document, which
  describes a loader without this check.
- `anti_phish.h:10`: "If already provisioned, does nothing." The result of reading
  the record is not looked at; after a failed read a provisioned device is
  provisioned again and shows other words. With the fault `readProvision` added to
  `Loader.cfg`, TLC shows it as a violation of `FlashIsProvisionedOnce`.

## 6. Not modelled

- SHA-256, secp256k1, Bech32, the CRC tables and the BIP-39 word list: vendored
  arithmetic and data, out of TLC's reach, injective functions or identities in
  the models. With the unit-test framework under `host_test/catch2` they are the
  greater part of the implementation's lines, which is why the share of all
  lines that the map covers stays small. The loader's and the uploader's own
  code is covered but for what is named here.
- Functions of the Specter library that the loader never calls: payload checks
  from files and flash, integer attributes, the integrity check records, the
  text of the signed message.
- The signing and packaging tools, `run.sh`, the emulator patches: sequential
  conversions and glue with no state of their own.
- `list` and `status` of the client, its arguments and its progress output, which
  only print; the text of the listing.
- Registers that nothing in the models reads: watchdogs, timers, interrupts,
  pins, the S3's pin diagnosis.
- Reads before the size of a file is known to hold a header (`main.c:83`):
  `ReadsStayInBundle` is about files of at least a header, since what stands
  behind a shorter one is the buffer's own allocation.
