---------------------------- MODULE SsduStorage ----------------------------
(***************************************************************************)
(* The RAM-resident SD uploader of the board: the upload transaction of    *)
(* uploader/main/uploader_storage.c, driven by the request dispatcher and  *)
(* the stall guard of uploader/main/uploader_main.c.                       *)
(*                                                                         *)
(* The dispatcher is single-threaded, so every request but COMMIT is one   *)
(* step.  COMMIT is cut at its five card operations ("phase"), because the *)
(* board may lose power between any two of them; no other request can be   *)
(* served in between.  Every handler takes the status rc it returns as its *)
(* last parameter.                                                         *)
(*                                                                         *)
(* A file's data is a sequence of Blocks; SHA-256 is modelled as           *)
(* injective, so that a digest IS the data it was computed from.  Faults   *)
(* names what the environment may do wrong:                                *)
(*   "io"       any card operation may report an error                     *)
(*   "write"    a write may report success and store other data            *)
(*   "misread"  a readback may return other data than is stored            *)
(*   "appear"   a file may appear on the card on its own                   *)
(*   "power"    the board may be reset at any moment                       *)
(***************************************************************************)
EXTENDS Naturals, Sequences

CONSTANTS
  Names,      \* final names that ssdu_valid_name accepts
  ReqNames,   \* names a request may carry
  Temps,      \* names of the form _ssdu_%08lx.part
  Blocks,     \* units of file data
  MaxFile,    \* SSDU_MAX_FILE, in blocks
  ChunkMax,   \* SSDU_CHUNK_MAX, in blocks
  Faults,     \* the faults the environment may produce
  Absent,     \* directory entry: no such file
  Dir,        \* directory entry: a subdirectory
  None        \* no temp name (s_temp[0] = 0), no final name, no digest

SeqsUpTo(S, n) == UNION {[1..k -> S] : k \in 0..n}

Contents == SeqsUpTo(Blocks, MaxFile)
Chunks   == SeqsUpTo(Blocks, ChunkMax) \ {<<>>}
Entries  == Contents \cup {Absent, Dir}

ASSUME StorageAssumption ==
  /\ MaxFile \in Nat
  /\ ChunkMax \in Nat
  /\ Names \subseteq ReqNames
  /\ Names \cap Temps = {}       \* ssdu_valid_name refuses the prefix _ssdu_
  /\ None \notin ReqNames \cup Temps \cup Contents
  /\ None \notin [name : Names, data : Contents]
  /\ Absent \notin Contents
  /\ Dir \notin Contents
  /\ Absent # Dir

VARIABLES
  state,    \* ssdu_state
  card,     \* s_card: "NULL" or "mounted"
  active,   \* s_active: the temp file that is open, or None
  temp,     \* s_temp
  final,    \* ssdu_final; s_dest is its path
  length,   \* ssdu_length
  digest,   \* ssdu_digest
  offset,   \* ssdu_offset
  phase,    \* where COMMIT is: its next card operation, or "ready"
  line,     \* "quiet": more than 60 s since the last request (s_activity_us)
  disk      \* the card's root directory

session == <<card, active, temp, final, length, digest, offset>>
vars    == <<state, session, phase, line, disk>>

States == {"NO_MEDIA", "IDLE", "RECEIVING", "VERIFYING", "COMMITTED",
           "RELEASED", "UNCERTAIN"}
Phases == {"ready", "flush", "readTemp", "statDest", "rename", "readFinal"}
IoStatus == {"IO", "SPACE"}     \* io_fail: by errno
Status == IoStatus \cup {"OK", "BAD", "PATH", "RANGE", "OFFSET", "NO_MEDIA",
           "MOUNT", "DIGEST", "EXISTS", "BUSY", "UNCERTAIN"}

Sizes   == 0..(MaxFile + 1)
Offsets == 0..MaxFile

TypeOK ==
  /\ state \in States
  /\ card \in {"NULL", "mounted"}
  /\ active \in Temps \cup {None}
  /\ temp \in Temps \cup {None}
  /\ final \in Names \cup {None}
  /\ length \in 0..MaxFile
  /\ digest \in Contents \cup {None}
  /\ offset \in 0..MaxFile
  /\ phase \in Phases
  /\ line \in {"busy", "quiet"}
  /\ disk \in [Names \cup Temps -> Entries]

\* The statics of uploader_storage.c as the image is loaded.
BootValues(st, cd, ac, tm, fn, ln, dg, of) ==
  /\ st = "NO_MEDIA"
  /\ cd = "NULL"
  /\ ac = None
  /\ tm = None
  /\ fn = None
  /\ ln = 0
  /\ dg = None
  /\ of = 0

\* A card that no earlier run has left temp files on.
Init ==
  /\ BootValues(state, card, active, temp, final, length, digest, offset)
  /\ phase = "ready"
  /\ line = "busy"
  /\ disk \in [Names \cup Temps -> Entries]
  /\ \A t \in Temps : disk[t] = Absent

Present(f) == disk[f] # Absent

\* Mutant: an open upload counts as idle.
IsNotFailed == state \in {"IDLE", "COMMITTED", "RECEIVING"}

IsIdle == state \in {"IDLE", "COMMITTED"}

\* io_fail: the card's state is no longer known.
IoFail(rc) ==
  /\ rc \in IoStatus
  /\ state' = "UNCERTAIN"

\* verify_path: an independent readback of data d, which is Absent when the
\* file cannot be opened.  Longer data than announced counts as an I/O error.
Readback(d, len, dig, rc) ==
  \/ /\ rc \in IoStatus
     /\ "io" \in Faults \/ d \notin Contents \/ Len(d) > len
  \/ /\ rc = "DIGEST"
     /\ d \in Contents
     /\ Len(d) <= len
     /\ "misread" \in Faults \/ Len(d) # len \/ d # dig
  \/ /\ rc = "OK"
     /\ d \in Contents
     /\ Len(d) = len
     /\ d = dig

\* Mutant: the announced size is not looked at.
AdmissionAnySize(busy, name, size) ==
  IF ~IsIdle THEN busy
  ELSE IF card = "NULL" THEN "NO_MEDIA"
  ELSE IF name \notin Names THEN "PATH"
  ELSE "OK"

\* The refusals that BEGIN, VERIFY and REMOVE share, in the code's order;
\* "OK" lets the request through.
Admission(busy, name, size) ==
  IF ~IsIdle THEN busy
  ELSE IF card = "NULL" THEN "NO_MEDIA"
  ELSE IF name \notin Names THEN "PATH"
  ELSE IF size > MaxFile THEN "RANGE"
  ELSE "OK"

\* A request that only reports: the answer carries rc, nothing changes.
Refuse(status, rc) ==
  /\ rc = status
  /\ UNCHANGED <<state, session, phase, disk>>

\* The common part of every request: dispatch() is not inside COMMIT, and
\* stamps s_activity_us.
Dispatch ==
  /\ phase = "ready"
  /\ line' = "busy"
---------------------------------------------------------------------------
(* Requests *)

\* HELLO mounts; a failed mount is reported in-band with status OK.
Hello(rc) ==
  /\ Dispatch
  /\ rc = "OK"
  /\ \/ /\ card = "NULL"
        /\ state = "NO_MEDIA"
        /\ card' = "mounted"
        /\ state' = "IDLE"
        /\ UNCHANGED <<active, temp, final, length, digest, offset>>
     \/ UNCHANGED <<state, session>>
  /\ UNCHANGED <<phase, disk>>

BeginBusy == CASE state = "UNCERTAIN" -> "UNCERTAIN"
               [] state = "NO_MEDIA"  -> "NO_MEDIA"
               [] OTHER               -> "BUSY"

\* Mutant: BEGIN keeps the offset of the upload before.
OpenTransactionAtOldOffset(t, name, size, dig, rc) ==
  /\ ~Present(name) /\ ~Present(t)
  /\ rc = "OK"
  /\ temp' = t /\ active' = t
  /\ disk' = [disk EXCEPT ![t] = <<>>]
  /\ final' = name /\ digest' = dig /\ length' = size
  /\ state' = "RECEIVING"
  /\ UNCHANGED <<card, offset>>

\* Mutant: "wb" for "wbx", which takes over a file that is there.
OpenTransactionClobbers(t, name, size, dig, rc) ==
  /\ ~Present(name)
  /\ rc = "OK"
  /\ temp' = t /\ active' = t
  /\ disk' = [disk EXCEPT ![t] = <<>>]
  /\ final' = name /\ digest' = dig /\ length' = size
  /\ offset' = 0
  /\ state' = "RECEIVING"
  /\ UNCHANGED card

\* fopen(s_temp, "wbx") made the temp file: the transaction is open.
OpenTransaction(t, name, size, dig, rc) ==
  /\ ~Present(name)
  /\ ~Present(t)
  /\ rc = "OK"
  /\ temp' = t
  /\ disk' = [disk EXCEPT ![t] = <<>>]
  /\ active' = t
  /\ final' = name
  /\ digest' = dig
  /\ length' = size
  /\ offset' = 0
  /\ state' = "RECEIVING"
  /\ UNCHANGED card

\* A temp name that is taken leaves s_temp naming the other file.
TempTaken(t, name, rc) ==
  /\ ~Present(name)
  /\ Present(t)
  /\ rc = "EXISTS"
  /\ temp' = t
  /\ UNCHANGED <<state, card, active, final, length, digest, offset, disk>>

Begin(name, size, dig, rc) ==
  LET admitted == Admission(BeginBusy, name, size) IN
  /\ Dispatch
  /\ UNCHANGED phase
  /\ \/ admitted # "OK" /\ Refuse(admitted, rc)
     \/ /\ admitted = "OK"
        /\ \/ Present(name) /\ Refuse("EXISTS", rc)
           \/ \E t \in Temps : \/ OpenTransaction(t, name, size, dig, rc)
                               \/ TempTaken(t, name, rc)
           \/ /\ "io" \in Faults      \* stat, or fopen with s_temp already set
              /\ IoFail(rc)
              /\ temp' \in {temp} \cup Temps
              /\ UNCHANGED <<card, active, final, length, digest, offset, disk>>

\* A chunk whose CRC is right; the others are Malformed.
Write(off, chunk, rc) ==
  /\ Dispatch
  /\ UNCHANGED phase
  /\ \/ (state # "RECEIVING" \/ active = None) /\ Refuse("BUSY", rc)
     \/ /\ state = "RECEIVING" /\ active # None
        /\ \/ off # offset /\ Refuse("OFFSET", rc)
           \/ /\ off = offset
              /\ Len(chunk) > length - offset
              /\ Refuse("RANGE", rc)
           \/ /\ off = offset
              /\ Len(chunk) <= length - offset
              /\ rc = "OK"
              /\ disk' = [disk EXCEPT ![temp] = @ \o chunk]
              /\ offset' = offset + Len(chunk)
              /\ UNCHANGED <<state, card, active, temp, final, length, digest>>
           \/ /\ off = offset         \* short fwrite
              /\ Len(chunk) <= length - offset
              /\ "io" \in Faults
              /\ IoFail(rc)
              /\ \E k \in 0..(Len(chunk) - 1) :
                   disk' = [disk EXCEPT ![temp] = @ \o SubSeq(chunk, 1, k)]
              /\ UNCHANGED session

\* The directory after unlink(f); a path under no mount point is ENOENT.
Unlinked(f) ==
  [g \in DOMAIN disk |-> IF g = f /\ card = "mounted" THEN Absent ELSE disk[g]]

\* Mutant: an ABORT that also serves a failed transaction.
DropTransactionAlways(rc) ==
  /\ rc = "OK"
  /\ active' = None
  /\ temp' = None
  /\ disk' = Unlinked(temp)
  /\ state' = IF card = "mounted" THEN "IDLE" ELSE state
  /\ UNCHANGED <<card, final, length, digest, offset, phase>>

\* Mutant: an ABORT that does not ask whether there is a card.
DropTransactionCardless(rc) ==
  IF state = "UNCERTAIN"
  THEN Refuse("UNCERTAIN", rc)
  ELSE /\ rc = "OK"
       /\ active' = None
       /\ temp' = None
       /\ disk' = Unlinked(temp)
       /\ state' = "IDLE"
       /\ UNCHANGED <<card, final, length, digest, offset, phase>>

\* Mutant: the name of the temp file is forgotten, the file is not unlinked.
DropTransactionForgets(rc) ==
  IF state = "UNCERTAIN"
  THEN Refuse("UNCERTAIN", rc)
  ELSE /\ rc = "OK"
       /\ active' = None
       /\ temp' = None
       /\ state' = IF card = "mounted" THEN "IDLE" ELSE state
       /\ UNCHANGED <<card, final, length, digest, offset, phase, disk>>

\* ssdu_abort; a transaction that failed cannot be aborted.
DropTransaction(rc) ==
  IF state = "UNCERTAIN"
  THEN Refuse("UNCERTAIN", rc)
  ELSE /\ active' = None
       /\ \/ /\ rc = "OK"
             /\ temp' = None
             /\ disk' = Unlinked(temp)
             /\ state' = IF card = "mounted" THEN "IDLE" ELSE state
          \/ /\ temp # None /\ card = "mounted"
             /\ "io" \in Faults
             /\ IoFail(rc)
             /\ UNCHANGED <<temp, disk>>
       /\ UNCHANGED <<card, final, length, digest, offset, phase>>

Abort(rc) == Dispatch /\ DropTransaction(rc)

\* Mutant: VERIFY leaves its size and digest in ssdu_length and ssdu_digest.
VerifyKeepsRequest(name, size, dig, rc) ==
  /\ Dispatch
  /\ Admission("BUSY", name, size) = "OK"
  /\ disk[name] \in Contents
  /\ Len(disk[name]) = size
  /\ Readback(disk[name], size, dig, rc)
  /\ length' = size
  /\ digest' = dig
  /\ UNCHANGED <<state, card, active, temp, final, offset, phase, disk>>

\* Announced size differs from the entry's: mismatch without reading.
Verify(name, size, dig, rc) ==
  LET admitted == Admission("BUSY", name, size) IN
  /\ Dispatch
  /\ UNCHANGED phase
  /\ \/ admitted # "OK" /\ Refuse(admitted, rc)
     \/ /\ admitted = "OK"
        /\ \/ /\ ~Present(name) \/ "io" \in Faults    \* stat, or the readback
              /\ IoFail(rc)
              /\ UNCHANGED <<session, disk>>
           \/ disk[name] = Dir /\ Refuse("PATH", rc)
           \/ /\ disk[name] \in Contents
              /\ Len(disk[name]) # size
              /\ Refuse("DIGEST", rc)
           \/ /\ disk[name] \in Contents
              /\ Len(disk[name]) = size
              /\ rc \notin IoStatus
              /\ Readback(disk[name], size, dig, rc)
              /\ UNCHANGED <<state, session, disk>>

\* ssdu_remove on a regular file that is there.
Unlink(name, rc) ==
  /\ disk[name] \in Contents
  /\ rc = "OK"
  /\ disk' = [disk EXCEPT ![name] = Absent]
  /\ UNCHANGED <<state, session>>

Remove(name, rc) ==
  LET admitted == Admission("BUSY", name, 0) IN
  /\ Dispatch
  /\ UNCHANGED phase
  /\ \/ admitted # "OK" /\ Refuse(admitted, rc)
     \/ /\ admitted = "OK"
        /\ \/ ~Present(name) /\ Refuse("OK", rc)
           \/ disk[name] = Dir /\ Refuse("PATH", rc)
           \/ Unlink(name, rc)
           \/ /\ "io" \in Faults      \* stat or unlink
              /\ IoFail(rc)
              /\ UNCHANGED <<session, disk>>

Release(rc) ==
  /\ Dispatch
  /\ UNCHANGED phase
  /\ \/ state = "RELEASED" /\ Refuse("OK", rc)
     \/ /\ state # "RELEASED"
        /\ ~(IsIdle /\ card = "mounted")
        /\ Refuse(IF IsIdle THEN "NO_MEDIA" ELSE "BUSY", rc)
     \/ /\ IsIdle /\ card = "mounted"
        /\ rc = "OK"
        /\ card' = "NULL"
        /\ state' = "RELEASED"
        /\ UNCHANGED <<active, temp, final, length, digest, offset, disk>>
     \/ /\ IsIdle /\ card = "mounted"
        /\ "io" \in Faults            \* unmount
        /\ IoFail(rc)
        /\ UNCHANGED <<session, disk>>

\* LIST reads the directory in every state but two.
List(rc) ==
  /\ Dispatch
  /\ Refuse(IF state \in {"NO_MEDIA", "UNCERTAIN"} THEN state ELSE "OK", rc)

\* A payload of the wrong shape, or a chunk whose CRC is wrong.
Malformed(rc) == Dispatch /\ Refuse("BAD", rc)
---------------------------------------------------------------------------
(* COMMIT, one card operation at a time *)

CommitRefusal ==
  IF state = "COMMITTED" THEN "OK"
  ELSE IF state # "RECEIVING" \/ active = None THEN "BUSY"
  ELSE IF offset # length THEN "OFFSET"
  ELSE "none"

\* Refused, or answered again from the receipt of the last commit.
CommitAnswer(rc) ==
  /\ Dispatch
  /\ CommitRefusal # "none"
  /\ Refuse(CommitRefusal, rc)

CommitStart ==
  /\ Dispatch
  /\ CommitRefusal = "none"
  /\ state' = "VERIFYING"
  /\ phase' = "flush"
  /\ UNCHANGED <<session, disk>>

\* COMMIT returns rc.
Return == phase' = "ready"

Flush(rc) ==
  /\ phase = "flush"
  /\ active' = None
  /\ \/ /\ rc = "OK"
        /\ phase' = "readTemp"
        /\ \/ UNCHANGED disk
           \/ /\ "write" \in Faults
              /\ \E d \in Contents :
                   /\ Len(d) = Len(disk[temp])
                   /\ disk' = [disk EXCEPT ![temp] = d]
        /\ UNCHANGED state
     \/ /\ "io" \in Faults
        /\ IoFail(rc)
        /\ Return
        /\ \E k \in 0..Len(disk[temp]) :
             disk' = [disk EXCEPT ![temp] = SubSeq(@, 1, k)]
  /\ UNCHANGED <<card, temp, final, length, digest, offset, line>>

\* Mutant: any file that could be read goes on to the rename.
ReadTempAnyDigest(rc) ==
  /\ phase = "readTemp"
  /\ Readback(disk[temp], length, digest, rc)
  /\ \/ rc \in {"OK", "DIGEST"} /\ phase' = "statDest" /\ UNCHANGED state
     \/ IoFail(rc) /\ Return
  /\ UNCHANGED <<card, active, temp, final, length, digest, offset, line, disk>>

\* First readback; on a mismatch the temp file goes and the device is idle
\* again.  The result of that unlink is not looked at.
ReadTemp(rc) ==
  /\ phase = "readTemp"
  /\ Readback(disk[temp], length, digest, rc)
  /\ \/ /\ rc = "OK"
        /\ phase' = "statDest"
        /\ UNCHANGED <<state, temp, disk>>
     \/ /\ rc = "DIGEST"
        /\ Return
        /\ state' = "IDLE"
        /\ temp' = None
        /\ \/ disk' = [disk EXCEPT ![temp] = Absent]
           \/ "io" \in Faults /\ UNCHANGED disk
     \/ /\ IoFail(rc)
        /\ Return
        /\ UNCHANGED <<temp, disk>>
  /\ UNCHANGED <<card, active, final, length, digest, offset, line>>

\* stat fails when nothing has the name; any other error counts as that too.
StatDest(rc) ==
  /\ phase = "statDest"
  /\ \/ /\ Present(final)
        /\ rc = "EXISTS"
        /\ state' = "UNCERTAIN"
        /\ Return
     \/ /\ ~Present(final) \/ "io" \in Faults
        /\ rc = "OK"
        /\ phase' = "rename"
        /\ UNCHANGED state
  /\ UNCHANGED <<session, line, disk>>

\* The renamed file under both names: how far a rename may have got.
LinkedTwice == [disk EXCEPT ![final] = disk[temp]]

\* FatFs refuses to rename onto an existing entry.
Rename(rc) ==
  /\ phase = "rename"
  /\ \/ /\ ~Present(final)
        /\ rc = "OK"
        /\ disk' = [disk EXCEPT ![final] = disk[temp], ![temp] = Absent]
        /\ temp' = None
        /\ phase' = "readFinal"
        /\ UNCHANGED state
     \/ /\ \/ Present(final) /\ UNCHANGED disk
           \/ /\ ~Present(final)
              /\ "io" \in Faults
              /\ disk' \in {disk, LinkedTwice}
        /\ IoFail(rc)
        /\ Return
        /\ UNCHANGED temp
  /\ UNCHANGED <<card, active, final, length, digest, offset, line>>

\* Second readback; a mismatch here leaves the state VERIFYING.
ReadFinal(rc) ==
  /\ phase = "readFinal"
  /\ Readback(disk[final], length, digest, rc)
  /\ \/ rc = "OK" /\ state' = "COMMITTED"
     \/ rc = "DIGEST" /\ UNCHANGED state
     \/ IoFail(rc)
  /\ Return
  /\ UNCHANGED <<session, line, disk>>
---------------------------------------------------------------------------
(* The main loop's stall guard, and the environment *)

\* A minute passes without a request while an upload is open.
Silence ==
  /\ phase = "ready"
  /\ state = "RECEIVING"
  /\ line = "busy"
  /\ line' = "quiet"
  /\ UNCHANGED <<state, session, phase, disk>>

\* Mutant: the guard is armed by the first chunk only.
StallAbortAfterChunk ==
  /\ phase = "ready"
  /\ state = "RECEIVING"
  /\ line = "quiet"
  /\ offset > 0
  /\ \E rc \in Status : DropTransaction(rc)
  /\ UNCHANGED line

StallAbort ==
  /\ phase = "ready"
  /\ state = "RECEIVING"
  /\ line = "quiet"
  /\ \E rc \in Status : DropTransaction(rc)
  /\ UNCHANGED line

Appear(name, d) ==
  /\ "appear" \in Faults
  /\ ~Present(name)
  /\ disk' = [disk EXCEPT ![name] = d]
  /\ UNCHANGED <<state, session, phase, line>>

\* What a reset can leave of the card's directory: an open temp file may be
\* cut short or not be there at all, and an unfinished rename may leave the
\* file under both names.
AfterPowerLoss ==
  {disk}
  \cup (IF active # None
        THEN {[disk EXCEPT ![temp] = Absent]}
             \cup {[disk EXCEPT ![temp] = SubSeq(@, 1, k)] :
                     k \in 0..Len(disk[temp])}
        ELSE {})
  \cup (IF phase = "rename" /\ ~Present(final)
        THEN {LinkedTwice}
        ELSE {})

\* The image is loaded again: every static starts over.
Reset ==
  /\ BootValues(state', card', active', temp', final', length', digest', offset')
  /\ phase' = "ready"
  /\ line' = "busy"
  /\ disk' \in AfterPowerLoss

PowerLoss == "power" \in Faults /\ Reset
---------------------------------------------------------------------------
Request ==
  \E rc \in Status :
    \/ Hello(rc) \/ Abort(rc) \/ Release(rc) \/ List(rc) \/ Malformed(rc)
    \/ CommitAnswer(rc)
    \/ \E name \in ReqNames :
         \/ Remove(name, rc)
         \/ \E size \in Sizes, dig \in Contents :
              Begin(name, size, dig, rc) \/ Verify(name, size, dig, rc)
    \/ \E off \in Offsets, chunk \in Chunks : Write(off, chunk, rc)

CommitStep ==
  \E rc \in Status :
    \/ Flush(rc) \/ ReadTemp(rc) \/ StatDest(rc) \/ Rename(rc) \/ ReadFinal(rc)

Next ==
  \/ Request
  \/ CommitStart
  \/ CommitStep
  \/ Silence
  \/ StallAbort
  \/ \E name \in Names, d \in Contents : Appear(name, d)
  \/ PowerLoss

Spec == Init /\ [][Next]_vars

\* The main loop keeps running: a COMMIT goes on, time passes, and the stall
\* guard is looked at.  Nothing is assumed of the host.
FairSpec ==
  Spec /\ WF_vars(CommitStep) /\ WF_vars(Silence) /\ WF_vars(StallAbort)
---------------------------------------------------------------------------
(* Properties *)

\* The upload that COMMIT has not yet put under its final name.
Unpublished == state = "RECEIVING" \/ phase \in {"flush", "readTemp", "statDest", "rename"}

\* ssdu_write / ssdu_commit: while an upload is open its temp file exists,
\* is the session's own, and holds exactly the bytes up to the offset the
\* device reports; a chunk that is sent twice is not stored twice.
OffsetIsTempLength ==
  Unpublished =>
    /\ card = "mounted"
    /\ temp \in Temps
    /\ disk[temp] \in Contents
    /\ Len(disk[temp]) = offset
    /\ offset <= length
    /\ active = IF phase \in {"ready", "flush"} THEN temp ELSE None

\* ssdu_commit: only verified data reaches the rename, and what carries the
\* final name afterwards is that data, before the second readback is done.
RenamesOnlyVerified ==
  /\ phase \in {"statDest", "rename"} => disk[temp] = digest
  /\ phase = "readFinal" => disk[final] = digest /\ Len(digest) = length

\* What the two invariants above rest on, in every state of every handler:
\* which statics are meaningful when.  Inductive together with them.
SessionInv ==
  /\ phase # "ready" => state = "VERIFYING" /\ offset = length
  /\ state = "NO_MEDIA" => active = None
  /\ IsIdle => card = "mounted" /\ active = None
  /\ active # None => active = temp /\ disk[temp] \in Contents
  /\ phase = "readFinal" => active = None
  /\ Unpublished \/ phase = "readFinal" =>
       card = "mounted" /\ final \in Names /\ digest \in Contents

IInv == TypeOK /\ SessionInv /\ OffsetIsTempLength /\ RenamesOnlyVerified

ReceiptTrue ==
  /\ final \in Names
  /\ digest \in Contents
  /\ disk[final] = digest
  /\ Len(digest) = length

\* The receipt of ssdu_commit (state COMMITTED with name, length, digest) is
\* true of the card when it is first given, and stays true as long as the
\* state does, whatever else is requested, until that very file is removed.
ReceiptStaysTrue ==
  [][state' = "COMMITTED" =>
       \/ ReceiptTrue'
       \/ state = "COMMITTED" /\ ~ReceiptTrue
       \/ \E rc \in Status : Remove(final, rc)]_vars

\* After an I/O failure no request may touch the card or leave UNCERTAIN:
\* only a reset of the board does.
UncertainFreezesCard ==
  [][state = "UNCERTAIN" =>
       \/ UNCHANGED <<state, temp, disk>>
       \/ PowerLoss
       \/ \E name \in Names, d \in Contents : Appear(name, d)]_vars

\* An upload that ends without being published takes its temp file with it.
\* It stays behind only when the card failed in that step, which parks the
\* device in UNCERTAIN or is the unlink after a failed readback, of which
\* ssdu_commit does not look at the result; or when the board is reset.
OnlyFailuresLeaveTemp ==
  [][Unpublished /\ ~Unpublished' =>
       \/ disk'[temp] = Absent
       \/ state' = "UNCERTAIN"
       \/ phase = "readTemp" /\ "io" \in Faults
       \/ PowerLoss]_vars

\* The temp file of the upload that is open, or that failed before its file
\* was closed.
Owns(t) == t = temp /\ (Unpublished \/ active # None)

\* A temp file that an earlier upload left on the card is never taken over:
\* nothing writes to it, cuts it short or publishes it.  It can only go as a
\* whole: to an ABORT while no upload is open, which unlinks the name that a
\* BEGIN found taken.
LeftoversAreNotUsed ==
  [][\A t \in Temps :
       Present(t) /\ ~Owns(t) /\ disk'[t] # disk[t] =>
         /\ disk'[t] = Absent
         /\ IsIdle /\ t = temp
         /\ \E rc \in Status : Abort(rc)]_vars

\* A request was served, or the board was reset.
HostStep == (phase = "ready" /\ line' = "busy") \/ Reset

\* app_main's stall guard: once the host is silent for good, no upload stays
\* open and no COMMIT stays unfinished, whatever the host did before.
SettlesWhenHostStops ==
  []<><<HostStep>>_vars \/ <>[](~Unpublished /\ phase = "ready")

\* The refinement mapping: the names a user sees, and what the open
\* transaction announced for one of them.
Files == [n \in Names |-> disk[n]]
Offer == IF Unpublished THEN [name |-> final, data |-> digest] ELSE None

Published == INSTANCE AtomicPublish WITH files <- Files, offer <- Offer

\* ssdu_begin .. ssdu_commit are an atomic publish, through power loss too.
PublishesAtomically == Published!Spec
===========================================================================
