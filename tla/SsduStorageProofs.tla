------------------------- MODULE SsduStorageProofs -------------------------
(***************************************************************************)
(* Theorems about SsduStorage, for every set of names, temp names and      *)
(* blocks, every file and chunk limit and every set of faults.             *)
(***************************************************************************)
EXTENDS SsduStorage, SequenceTheorems, TLAPS

LEMMA MaxFileNat == MaxFile \in Nat
  BY StorageAssumption

\* File data are the sequences of blocks no longer than SSDU_MAX_FILE.
LEMMA ContentsAreShortSeqs ==
  \A d : d \in Contents <=> d \in Seq(Blocks) /\ Len(d) <= MaxFile
<1> SUFFICES ASSUME NEW d
             PROVE  d \in Contents <=> d \in Seq(Blocks) /\ Len(d) <= MaxFile
  OBVIOUS
<1>1. ASSUME d \in Contents PROVE d \in Seq(Blocks) /\ Len(d) <= MaxFile
  <2>1. PICK k \in 0..MaxFile : d \in [1..k -> Blocks]
    BY <1>1 DEF Contents, SeqsUpTo
  <2>2. d \in Seq(Blocks)
    BY <2>1, SeqDef, StorageAssumption
  <2>3. Len(d) = k
    BY <2>1, <2>2, LenProperties, StorageAssumption
  <2> QED BY <2>1, <2>2, <2>3, StorageAssumption
<1>2. ASSUME d \in Seq(Blocks), Len(d) <= MaxFile PROVE d \in Contents
  <2>1. Len(d) \in 0..MaxFile /\ d \in [1..Len(d) -> Blocks]
    BY <1>2, LenProperties, StorageAssumption
  <2> QED BY <2>1 DEF Contents, SeqsUpTo
<1> QED BY <1>1, <1>2

LEMMA EmptyIsContents == <<>> \in Contents /\ Len(<<>>) = 0
<1>1. <<>> \in Seq(Blocks) /\ Len(<<>>) = 0
  BY EmptySeq
<1>2. 0 <= MaxFile
  BY MaxFileNat
<1> QED BY <1>1, <1>2, ContentsAreShortSeqs

LEMMA ChunksAreSeqs ==
  \A c \in Chunks : c \in Seq(Blocks)
  BY SeqDef, StorageAssumption DEF Chunks, SeqsUpTo

\* Data cut short is data.
LEMMA PrefixIsContents ==
  ASSUME NEW d \in Contents, NEW k \in 0..Len(d)
  PROVE  SubSeq(d, 1, k) \in Contents /\ Len(SubSeq(d, 1, k)) = k
<1>1. d \in Seq(Blocks) /\ Len(d) <= MaxFile /\ Len(d) \in Nat
  BY ContentsAreShortSeqs, LenProperties
<1>2. \A i \in 1..k : d[i] \in Blocks
  BY <1>1, ElementOfSeq
<1>3. /\ SubSeq(d, 1, k) \in Seq(Blocks)
      /\ Len(SubSeq(d, 1, k)) = k
  BY <1>1, <1>2, SubSeqProperties
<1>4. k \in Nat /\ k <= MaxFile
  BY <1>1, StorageAssumption
<1> QED BY <1>3, <1>4, ContentsAreShortSeqs, Zenon

\* Appending all or part of a chunk that fits gives data.
LEMMA AppendIsContents ==
  ASSUME NEW d \in Contents, NEW c \in Seq(Blocks), Len(d) + Len(c) <= MaxFile
  PROVE  d \o c \in Contents /\ Len(d \o c) = Len(d) + Len(c)
  BY ContentsAreShortSeqs, ConcatProperties

LEMMA AppendPartIsContents ==
  ASSUME NEW d \in Contents, NEW c \in Seq(Blocks), Len(d) + Len(c) <= MaxFile,
         NEW k \in 0..(Len(c) - 1)
  PROVE  d \o SubSeq(c, 1, k) \in Contents
<1>1. Len(c) \in Nat /\ Len(d) \in Nat
  BY ContentsAreShortSeqs, LenProperties
<1>2. \A i \in 1..k : c[i] \in Blocks
  BY <1>1, ElementOfSeq
<1>3. SubSeq(c, 1, k) \in Seq(Blocks) /\ Len(SubSeq(c, 1, k)) = k
  BY <1>1, <1>2, SubSeqProperties
<1>4. Len(d) + Len(SubSeq(c, 1, k)) <= MaxFile
  BY <1>1, <1>3, StorageAssumption
<1> QED BY <1>3, <1>4, AppendIsContents, Zenon
---------------------------------------------------------------------------
\* Boot values with nothing open satisfy the invariant, whatever is on the card.
LEMMA InitIInv == Init => IInv
  BY MaxFileNat
  DEF Init, BootValues, IInv, TypeOK, SessionInv, OffsetIsTempLength,
      RenamesOnlyVerified, Unpublished, IsIdle, States, Phases

\* Requests that only report.
LEMMA RefuseIInv ==
  ASSUME IInv, NEW status, NEW rc, Dispatch, Refuse(status, rc)
  PROVE  IInv'
  BY DEF Dispatch, Refuse, session, IInv, TypeOK, SessionInv,
         OffsetIsTempLength, RenamesOnlyVerified, Unpublished, IsIdle

LEMMA HelloIInv ==
  ASSUME IInv, NEW rc, Hello(rc)
  PROVE  IInv'
  BY DEF Hello, Dispatch, session, IInv, TypeOK, SessionInv, States,
         OffsetIsTempLength, RenamesOnlyVerified, Unpublished, IsIdle

LEMMA BeginIInv ==
  ASSUME IInv, NEW name, NEW size \in Sizes, NEW dig \in Contents, NEW rc,
         Begin(name, size, dig, rc)
  PROVE  IInv'
<1> DEFINE admitted == Admission(BeginBusy, name, size)
<1>1. CASE admitted # "OK" /\ Refuse(admitted, rc)
  BY <1>1, RefuseIInv DEF Begin
<1>2. CASE admitted = "OK" /\ Refuse("EXISTS", rc)
  BY <1>2, RefuseIInv DEF Begin
<1>3. ASSUME admitted = "OK"
      PROVE  /\ IsIdle /\ card = "mounted" /\ active = None
             /\ name \in Names
             /\ size \in 0..MaxFile
             /\ phase = "ready" /\ ~Unpublished
  BY <1>3, MaxFileNat
  DEF Admission, BeginBusy, IInv, SessionInv, IsIdle, Unpublished, Begin, Dispatch, Sizes
<1>4. CASE admitted = "OK" /\ \E t \in Temps : OpenTransaction(t, name, size, dig, rc)
  <2>1. PICK t \in Temps : OpenTransaction(t, name, size, dig, rc)
    BY <1>4
  <2>2. <<>> \in Contents /\ Len(<<>>) = 0
    BY EmptyIsContents
  <2>3. disk' \in [Names \cup Temps -> Entries] /\ disk'[t] = <<>>
    BY <2>1, <2>2 DEF OpenTransaction, IInv, TypeOK, Entries
  <2>4. /\ disk'[temp'] \in Contents /\ Len(disk'[temp']) = offset'
        /\ offset' = 0 /\ 0 \in 0..MaxFile /\ 0 <= length'
    BY <1>3, <1>4, <2>1, <2>2, <2>3, MaxFileNat DEF OpenTransaction
  <2>5. /\ state' = "RECEIVING" /\ phase' = "ready" /\ line' = "busy"
        /\ card' = "mounted" /\ active' = t /\ temp' = t /\ t \in Temps
        /\ final' \in Names /\ digest' \in Contents /\ length' \in 0..MaxFile
    BY <1>3, <1>4, <2>1 DEF OpenTransaction, Begin, Dispatch
  <2> QED
    BY <2>3, <2>4, <2>5
    DEF IInv, TypeOK, SessionInv, States, Phases,
        OffsetIsTempLength, RenamesOnlyVerified, Unpublished, IsIdle
<1>5. CASE admitted = "OK" /\ \E t \in Temps : TempTaken(t, name, rc)
  BY <1>3, <1>5
  DEF TempTaken, Begin, Dispatch, IInv, TypeOK, SessionInv,
      OffsetIsTempLength, RenamesOnlyVerified, Unpublished, IsIdle
<1>6. CASE /\ admitted = "OK"
           /\ IoFail(rc)
           /\ temp' \in {temp} \cup Temps
           /\ UNCHANGED <<card, active, final, length, digest, offset, disk>>
  BY <1>3, <1>6
  DEF IoFail, Begin, Dispatch, IInv, TypeOK, SessionInv, States,
      OffsetIsTempLength, RenamesOnlyVerified, Unpublished, IsIdle
<1> QED BY <1>1, <1>2, <1>4, <1>5, <1>6 DEF Begin

LEMMA WriteIInv ==
  ASSUME IInv, NEW off, NEW chunk \in Seq(Blocks), NEW rc,
         Write(off, chunk, rc)
  PROVE  IInv'
<1> DEFINE open == state = "RECEIVING" /\ active # None
           fits == Len(chunk) <= length - offset
<1>1. CASE Refuse("BUSY", rc) \/ Refuse("OFFSET", rc) \/ Refuse("RANGE", rc)
  BY <1>1, RefuseIInv DEF Write
<1>2. chunk \in Seq(Blocks) /\ Len(chunk) \in Nat
  BY LenProperties
<1>3. ASSUME open, fits
      PROVE  /\ phase = "ready" /\ Unpublished /\ temp \in Temps
             /\ disk[temp] \in Contents
             /\ Len(disk[temp]) = offset
             /\ offset + Len(chunk) \in 0..MaxFile
             /\ offset + Len(chunk) <= length
             /\ Len(disk[temp]) + Len(chunk) <= MaxFile
  BY <1>2, <1>3, MaxFileNat
  DEF IInv, TypeOK, OffsetIsTempLength, Unpublished, Write, Dispatch
<1>4. CASE /\ open /\ fits
           /\ disk' = [disk EXCEPT ![temp] = @ \o chunk]
           /\ offset' = offset + Len(chunk)
           /\ UNCHANGED <<state, card, active, temp, final, length, digest>>
  <2>1. /\ disk[temp] \o chunk \in Contents
        /\ Len(disk[temp] \o chunk) = offset + Len(chunk)
    BY <1>2, <1>3, <1>4, AppendIsContents
  <2>2. /\ disk' \in [Names \cup Temps -> Entries]
        /\ disk'[temp] = disk[temp] \o chunk
    BY <1>3, <1>4, <2>1 DEF IInv, TypeOK, Entries
  <2> QED
    BY <1>3, <1>4, <2>1, <2>2
    DEF Write, Dispatch, IInv, TypeOK, SessionInv, OffsetIsTempLength,
        RenamesOnlyVerified, Unpublished, IsIdle
<1>5. CASE /\ open /\ fits
           /\ IoFail(rc)
           /\ \E k \in 0..(Len(chunk) - 1) :
                disk' = [disk EXCEPT ![temp] = @ \o SubSeq(chunk, 1, k)]
           /\ UNCHANGED session
  <2>1. PICK k \in 0..(Len(chunk) - 1) :
          disk' = [disk EXCEPT ![temp] = @ \o SubSeq(chunk, 1, k)]
    BY <1>5
  <2>2. disk[temp] \o SubSeq(chunk, 1, k) \in Contents
    BY <1>2, <1>3, <1>5, AppendPartIsContents
  <2>3. /\ disk' \in [Names \cup Temps -> Entries]
        /\ disk'[temp] \in Contents
    BY <1>3, <1>5, <2>1, <2>2 DEF IInv, TypeOK, Entries
  <2> QED
    BY <1>3, <1>5, <2>3
    DEF Write, Dispatch, IoFail, session, IInv, TypeOK, SessionInv, States,
        OffsetIsTempLength, RenamesOnlyVerified, Unpublished, IsIdle
<1> QED BY <1>1, <1>4, <1>5 DEF Write

\* ssdu_abort, for a request and for the stall guard.
LEMMA DropIInv ==
  ASSUME IInv, NEW rc, phase = "ready", line' \in {"busy", "quiet"},
         DropTransaction(rc)
  PROVE  IInv'
<1>1. CASE state = "UNCERTAIN"
  BY <1>1
  DEF DropTransaction, Refuse, session, IInv, TypeOK, SessionInv,
      OffsetIsTempLength, RenamesOnlyVerified, Unpublished, IsIdle
<1>2. CASE /\ state # "UNCERTAIN"
           /\ temp' = None
           /\ disk' = Unlinked(temp)
           /\ state' = IF card = "mounted" THEN "IDLE" ELSE state
  <2>1. disk' \in [Names \cup Temps -> Entries]
    BY <1>2 DEF Unlinked, IInv, TypeOK, Entries
  <2> QED
    BY <1>2, <2>1
    DEF DropTransaction, IInv, TypeOK, SessionInv, States,
        OffsetIsTempLength, RenamesOnlyVerified, Unpublished, IsIdle
<1>3. CASE state # "UNCERTAIN" /\ IoFail(rc) /\ UNCHANGED <<temp, disk>>
  BY <1>3
  DEF DropTransaction, IoFail, IInv, TypeOK, SessionInv, States,
      OffsetIsTempLength, RenamesOnlyVerified, Unpublished, IsIdle
<1> QED BY <1>1, <1>2, <1>3 DEF DropTransaction

\* Nothing but an idle device lets VERIFY, REMOVE and RELEASE through.
LEMMA IdleFailIInv ==
  ASSUME IInv, NEW rc, Dispatch, IsIdle, IoFail(rc), UNCHANGED <<session, phase, disk>>
  PROVE  IInv'
  BY DEF IoFail, Dispatch, session, IInv, TypeOK, SessionInv, States,
         OffsetIsTempLength, RenamesOnlyVerified, Unpublished, IsIdle

LEMMA VerifyIInv ==
  ASSUME IInv, NEW name, NEW size, NEW dig, NEW rc, Verify(name, size, dig, rc)
  PROVE  IInv'
<1> DEFINE admitted == Admission("BUSY", name, size)
<1>1. ASSUME NEW status, Refuse(status, rc) PROVE IInv'
  BY <1>1, RefuseIInv DEF Verify
<1>2. ASSUME admitted = "OK" PROVE IsIdle
  BY <1>2 DEF Admission
<1>3. CASE admitted = "OK" /\ IoFail(rc) /\ UNCHANGED <<session, disk>>
  BY <1>2, <1>3, IdleFailIInv DEF Verify
<1>4. CASE UNCHANGED <<state, session, disk>>
  BY <1>4
  DEF Verify, Dispatch, session, IInv, TypeOK, SessionInv,
      OffsetIsTempLength, RenamesOnlyVerified, Unpublished, IsIdle
<1> QED BY <1>1, <1>3, <1>4 DEF Verify

LEMMA RemoveIInv ==
  ASSUME IInv, NEW name, NEW rc, Remove(name, rc)
  PROVE  IInv'
<1> DEFINE admitted == Admission("BUSY", name, 0)
<1>1. ASSUME NEW status, Refuse(status, rc) PROVE IInv'
  BY <1>1, RefuseIInv DEF Remove
<1>2. ASSUME admitted = "OK" PROVE IsIdle /\ name \in Names
  BY <1>2 DEF Admission
<1>3. CASE admitted = "OK" /\ IoFail(rc) /\ UNCHANGED <<session, disk>>
  BY <1>2, <1>3, IdleFailIInv DEF Remove
<1>4. CASE admitted = "OK" /\ Unlink(name, rc)
  <2>1. disk' \in [Names \cup Temps -> Entries]
    BY <1>4 DEF Unlink, IInv, TypeOK, Entries
  <2>2. active = None /\ card = "mounted" /\ phase = "ready"
    BY <1>2, <1>4 DEF Remove, Dispatch, IInv, SessionInv
  <2> QED
    BY <1>2, <1>4, <2>1, <2>2
    DEF Unlink, Remove, Dispatch, session, IInv, TypeOK, SessionInv,
        OffsetIsTempLength, RenamesOnlyVerified, Unpublished, IsIdle
<1> QED BY <1>1, <1>3, <1>4 DEF Remove

LEMMA ReleaseIInv ==
  ASSUME IInv, NEW rc, Release(rc)
  PROVE  IInv'
<1>1. ASSUME NEW status, Refuse(status, rc) PROVE IInv'
  BY <1>1, RefuseIInv DEF Release
<1>2. CASE IsIdle /\ IoFail(rc) /\ UNCHANGED <<session, disk>>
  BY <1>2, IdleFailIInv DEF Release
<1>3. CASE /\ IsIdle
           /\ card' = "NULL"
           /\ state' = "RELEASED"
           /\ UNCHANGED <<active, temp, final, length, digest, offset, disk>>
  BY <1>3
  DEF Release, Dispatch, IInv, TypeOK, SessionInv, States,
      OffsetIsTempLength, RenamesOnlyVerified, Unpublished, IsIdle
<1> QED BY <1>1, <1>2, <1>3 DEF Release

LEMMA RequestIInv == IInv /\ Request => IInv'
<1> SUFFICES ASSUME IInv, NEW rc \in Status,
               \/ Hello(rc) \/ Abort(rc) \/ Release(rc) \/ List(rc) \/ Malformed(rc)
               \/ CommitAnswer(rc)
               \/ \E name \in ReqNames :
                    \/ Remove(name, rc)
                    \/ \E size \in Sizes, dig \in Contents :
                         Begin(name, size, dig, rc) \/ Verify(name, size, dig, rc)
               \/ \E off \in Offsets, chunk \in Chunks : Write(off, chunk, rc)
             PROVE  IInv'
  BY DEF Request
<1>1. CASE Hello(rc)
  BY <1>1, HelloIInv
<1>2. CASE Abort(rc)
  BY <1>2, DropIInv DEF Abort, Dispatch
<1>3. CASE Release(rc)
  BY <1>3, ReleaseIInv
<1>4. CASE List(rc) \/ Malformed(rc) \/ CommitAnswer(rc)
  BY <1>4, RefuseIInv DEF List, Malformed, CommitAnswer
<1>5. CASE \E name \in ReqNames : Remove(name, rc)
  BY <1>5, RemoveIInv
<1>6. CASE \E name \in ReqNames, size \in Sizes, dig \in Contents :
             Begin(name, size, dig, rc)
  BY <1>6, BeginIInv
<1>7. CASE \E name \in ReqNames, size \in Sizes, dig \in Contents :
             Verify(name, size, dig, rc)
  BY <1>7, VerifyIInv
<1>8. CASE \E off \in Offsets, chunk \in Chunks : Write(off, chunk, rc)
  BY <1>8, WriteIInv, ChunksAreSeqs
<1> QED BY <1>1, <1>2, <1>3, <1>4, <1>5, <1>6, <1>7, <1>8
---------------------------------------------------------------------------
(* COMMIT *)

LEMMA CommitStartIInv == IInv /\ CommitStart => IInv'
  BY DEF CommitStart, Dispatch, CommitRefusal, session, IInv, TypeOK, SessionInv,
         States, Phases, OffsetIsTempLength, RenamesOnlyVerified, Unpublished, IsIdle

LEMMA FlushIInv ==
  ASSUME IInv, NEW rc, Flush(rc)
  PROVE  IInv'
<1>1. /\ state = "VERIFYING" /\ offset = length
      /\ temp \in Temps /\ disk[temp] \in Contents
      /\ final \in Names /\ digest \in Contents /\ card = "mounted"
      /\ Len(disk[temp]) = offset
  BY DEF Flush, IInv, SessionInv, OffsetIsTempLength, Unpublished
<1>2. CASE /\ phase' = "readTemp"
           /\ UNCHANGED <<state, disk>>
  BY <1>1, <1>2
  DEF Flush, IInv, TypeOK, SessionInv, Phases,
      OffsetIsTempLength, RenamesOnlyVerified, Unpublished, IsIdle
<1>3. CASE /\ phase' = "readTemp"
           /\ \E d \in Contents :
                /\ Len(d) = Len(disk[temp])
                /\ disk' = [disk EXCEPT ![temp] = d]
           /\ UNCHANGED state
  <2>1. /\ disk' \in [Names \cup Temps -> Entries]
        /\ disk'[temp] \in Contents
        /\ Len(disk'[temp]) = Len(disk[temp])
    BY <1>1, <1>3 DEF IInv, TypeOK, Entries
  <2> QED
    BY <1>1, <1>3, <2>1
    DEF Flush, IInv, TypeOK, SessionInv, Phases,
        OffsetIsTempLength, RenamesOnlyVerified, Unpublished, IsIdle
<1>4. CASE /\ IoFail(rc) /\ Return
           /\ \E k \in 0..Len(disk[temp]) :
                disk' = [disk EXCEPT ![temp] = SubSeq(@, 1, k)]
  <2>1. PICK k \in 0..Len(disk[temp]) :
          disk' = [disk EXCEPT ![temp] = SubSeq(@, 1, k)]
    BY <1>4
  <2>2. SubSeq(disk[temp], 1, k) \in Contents
    BY <1>1, PrefixIsContents
  <2>3. disk' \in [Names \cup Temps -> Entries]
    BY <1>1, <2>1, <2>2 DEF IInv, TypeOK, Entries
  <2> QED
    BY <1>1, <1>4, <2>3
    DEF Flush, IoFail, Return, IInv, TypeOK, SessionInv, States, Phases,
        OffsetIsTempLength, RenamesOnlyVerified, Unpublished, IsIdle
<1> QED BY <1>2, <1>3, <1>4 DEF Flush

LEMMA ReadTempIInv ==
  ASSUME IInv, NEW rc, ReadTemp(rc)
  PROVE  IInv'
<1>1. CASE rc = "OK" /\ phase' = "statDest" /\ UNCHANGED <<state, temp, disk>>
  BY <1>1
  DEF ReadTemp, Readback, IInv, TypeOK, SessionInv, Phases, IoStatus,
      OffsetIsTempLength, RenamesOnlyVerified, Unpublished, IsIdle
<1>2. CASE /\ Return
           /\ state' = "IDLE"
           /\ temp' = None
           /\ disk' = [disk EXCEPT ![temp] = Absent] \/ UNCHANGED disk
  <2>1. disk' \in [Names \cup Temps -> Entries]
    BY <1>2 DEF IInv, TypeOK, Entries
  <2> QED
    BY <1>2, <2>1
    DEF ReadTemp, Return, IInv, TypeOK, SessionInv, States, Phases,
        OffsetIsTempLength, RenamesOnlyVerified, Unpublished, IsIdle
<1>3. CASE IoFail(rc) /\ Return /\ UNCHANGED <<temp, disk>>
  BY <1>3
  DEF ReadTemp, IoFail, Return, IInv, TypeOK, SessionInv, States, Phases,
      OffsetIsTempLength, RenamesOnlyVerified, Unpublished, IsIdle
<1> QED BY <1>1, <1>2, <1>3 DEF ReadTemp

LEMMA StatDestIInv ==
  ASSUME IInv, NEW rc, StatDest(rc)
  PROVE  IInv'
  BY DEF StatDest, Return, session, IInv, TypeOK, SessionInv, States, Phases,
         OffsetIsTempLength, RenamesOnlyVerified, Unpublished, IsIdle

\* The rename gives the final name the data of the temp file.
LEMMA RenameIInv ==
  ASSUME IInv, NEW rc, Rename(rc)
  PROVE  IInv'
<1>1. /\ state = "VERIFYING" /\ offset = length /\ active = None
      /\ temp \in Temps /\ disk[temp] = digest /\ Len(digest) = length
      /\ final \in Names /\ digest \in Contents /\ card = "mounted"
      /\ final # temp
  BY StorageAssumption
  DEF Rename, IInv, SessionInv, OffsetIsTempLength, RenamesOnlyVerified, Unpublished
<1>2. CASE /\ disk' = [disk EXCEPT ![final] = disk[temp], ![temp] = Absent]
           /\ temp' = None
           /\ phase' = "readFinal"
           /\ UNCHANGED state
  <2>1. disk' \in [Names \cup Temps -> Entries] /\ disk'[final] = digest
    BY <1>1, <1>2 DEF IInv, TypeOK, Entries
  <2> QED
    BY <1>1, <1>2, <2>1
    DEF Rename, IInv, TypeOK, SessionInv, Phases,
        OffsetIsTempLength, RenamesOnlyVerified, Unpublished, IsIdle
<1>3. CASE disk' \in {disk, LinkedTwice} /\ IoFail(rc) /\ Return /\ UNCHANGED temp
  <2>1. disk' \in [Names \cup Temps -> Entries]
    BY <1>1, <1>3 DEF LinkedTwice, IInv, TypeOK, Entries
  <2> QED
    BY <1>1, <1>3, <2>1
    DEF Rename, IoFail, Return, IInv, TypeOK, SessionInv, States, Phases,
        OffsetIsTempLength, RenamesOnlyVerified, Unpublished, IsIdle
<1> QED BY <1>2, <1>3 DEF Rename

LEMMA ReadFinalIInv ==
  ASSUME IInv, NEW rc, ReadFinal(rc)
  PROVE  IInv'
  BY DEF ReadFinal, IoFail, Return, session, IInv, TypeOK, SessionInv, States, Phases,
         OffsetIsTempLength, RenamesOnlyVerified, Unpublished, IsIdle

LEMMA CommitStepIInv == IInv /\ CommitStep => IInv'
  BY FlushIInv, ReadTempIInv, StatDestIInv, RenameIInv, ReadFinalIInv DEF CommitStep
---------------------------------------------------------------------------
(* The main loop and the environment *)

LEMMA SilenceIInv == IInv /\ Silence => IInv'
  BY DEF Silence, session, IInv, TypeOK, SessionInv,
         OffsetIsTempLength, RenamesOnlyVerified, Unpublished, IsIdle

LEMMA StallAbortIInv == IInv /\ StallAbort => IInv'
  BY DropIInv DEF StallAbort, IInv, TypeOK

\* What appears has a final name nothing had: no open transaction's file.
LEMMA AppearIInv ==
  ASSUME IInv, NEW name \in Names, NEW d \in Contents, Appear(name, d)
  PROVE  IInv'
<1>1. /\ disk' \in [Names \cup Temps -> Entries]
      /\ \A f \in Names \cup Temps : f # name => disk'[f] = disk[f]
      /\ disk'[name] = d
  BY DEF Appear, IInv, TypeOK, Entries
<1>2. \A t \in Temps : t # name
  BY StorageAssumption
<1>3. disk[name] = Absent /\ Absent \notin Contents
  BY StorageAssumption DEF Appear, Present
<1> QED
  BY <1>1, <1>2, <1>3
  DEF Appear, session, IInv, TypeOK, SessionInv,
      OffsetIsTempLength, RenamesOnlyVerified, Unpublished, IsIdle

LEMMA ResetIInv == IInv /\ Reset => IInv'
<1> SUFFICES ASSUME IInv, Reset PROVE IInv'
  OBVIOUS
<1>1. disk' \in [Names \cup Temps -> Entries]
  <2>1. CASE disk' = disk
    BY <2>1 DEF IInv, TypeOK
  <2>2. CASE active # None /\ disk' = [disk EXCEPT ![temp] = Absent]
    BY <2>2 DEF IInv, TypeOK, Entries
  <2>3. CASE active # None /\ \E k \in 0..Len(disk[temp]) :
                                disk' = [disk EXCEPT ![temp] = SubSeq(@, 1, k)]
    <3>1. PICK k \in 0..Len(disk[temp]) : disk' = [disk EXCEPT ![temp] = SubSeq(@, 1, k)]
      BY <2>3
    <3>2. SubSeq(disk[temp], 1, k) \in Contents
      BY <2>3, PrefixIsContents DEF IInv, SessionInv
    <3> QED BY <3>1, <3>2 DEF IInv, TypeOK, Entries
  <2>4. CASE phase = "rename" /\ disk' = LinkedTwice
    <3>1. disk[temp] \in Contents
      BY <2>4 DEF IInv, OffsetIsTempLength, Unpublished
    <3> QED BY <2>4, <3>1 DEF LinkedTwice, IInv, TypeOK, Entries
  <2> QED BY <2>1, <2>2, <2>3, <2>4 DEF Reset, AfterPowerLoss
<1> QED
  BY <1>1, MaxFileNat
  DEF Reset, BootValues, IInv, TypeOK, SessionInv, States, Phases,
      OffsetIsTempLength, RenamesOnlyVerified, Unpublished, IsIdle
---------------------------------------------------------------------------
LEMMA NextIInv == IInv /\ [Next]_vars => IInv'
<1> SUFFICES ASSUME IInv, [Next]_vars PROVE IInv'
  OBVIOUS
<1>1. CASE Request
  BY <1>1, RequestIInv
<1>2. CASE CommitStart \/ CommitStep
  BY <1>2, CommitStartIInv, CommitStepIInv
<1>3. CASE Silence \/ StallAbort
  BY <1>3, SilenceIInv, StallAbortIInv
<1>4. CASE \E name \in Names, d \in Contents : Appear(name, d)
  BY <1>4, AppearIInv
<1>5. CASE PowerLoss
  BY <1>5, ResetIInv DEF PowerLoss
<1>6. CASE UNCHANGED vars
  BY <1>6
  DEF vars, session, IInv, TypeOK, SessionInv,
      OffsetIsTempLength, RenamesOnlyVerified, Unpublished, IsIdle
<1> QED BY <1>1, <1>2, <1>3, <1>4, <1>5, <1>6 DEF Next

\* The inductive invariant holds of every behaviour.
THEOREM InvariantHolds == Spec => []IInv
<1>1. Init => IInv
  BY InitIInv
<1>2. IInv /\ [Next]_vars => IInv'
  BY NextIInv
<1> QED BY <1>1, <1>2, PTL DEF Spec

\* Every static and the card's directory keep their type.
THEOREM TypeCorrect == Spec => []TypeOK
<1>1. IInv => TypeOK
  BY DEF IInv
<1> QED BY <1>1, InvariantHolds, PTL

\* The statics that a state gives meaning to are set in that state.
THEOREM SessionIsCoherent == Spec => []SessionInv
<1>1. IInv => SessionInv
  BY DEF IInv
<1> QED BY <1>1, InvariantHolds, PTL

\* While an upload is open its temp file is exactly the bytes up to the offset.
THEOREM OffsetAgreement == Spec => []OffsetIsTempLength
<1>1. IInv => OffsetIsTempLength
  BY DEF IInv
<1> QED BY <1>1, InvariantHolds, PTL

\* Only data that matched the announced digest is renamed to a final name.
THEOREM OnlyVerifiedIsRenamed == Spec => []RenamesOnlyVerified
<1>1. IInv => RenamesOnlyVerified
  BY DEF IInv
<1> QED BY <1>1, InvariantHolds, PTL
---------------------------------------------------------------------------
(* What a step may do to the receipt of the last commit, and to a card after *)
(* a failure.                                                               *)

ReceiptStep ==
  state' = "COMMITTED" =>
    \/ ReceiptTrue'
    \/ state = "COMMITTED" /\ ~ReceiptTrue
    \/ \E rc \in Status : Remove(final, rc)

LEMMA ReceiptKept ==
  ASSUME UNCHANGED <<final, length, digest>>,
         final \in Names => disk'[final] = disk[final],
         state' = state
  PROVE  ReceiptStep
  BY DEF ReceiptStep, ReceiptTrue

LEMMA CommittedIsQuiet ==
  ASSUME IInv, state = "COMMITTED"
  PROVE  /\ IsIdle /\ card = "mounted" /\ active = None
         /\ phase = "ready"
  BY DEF IInv, SessionInv, IsIdle

LEMMA NextReceipt == IInv /\ [Next]_vars => ReceiptStep
<1> SUFFICES ASSUME IInv, [Next]_vars, state' = "COMMITTED" PROVE ReceiptStep
  BY DEF ReceiptStep
<1>1. CASE state # "COMMITTED"
  <2>1. PICK rc \in Status : ReadFinal(rc) /\ state' = "COMMITTED"
    BY <1>1
    DEF Next, Request, CommitStep, Hello, Abort, Release, List, Malformed, CommitAnswer,
        Remove, Begin, Verify, Write, Refuse, Unlink, OpenTransaction, TempTaken,
        DropTransaction, CommitStart, Flush, ReadTemp, StatDest, Rename, Silence,
        StallAbort, Appear, PowerLoss, Reset, BootValues, IoFail, vars
  <2>2. Readback(disk[final], length, digest, "OK") /\ UNCHANGED <<session, disk>>
    BY <2>1, <1>1 DEF ReadFinal, IoFail, Readback, IoStatus, IInv, SessionInv
  <2>3. final \in Names /\ digest \in Contents
    BY <2>1 DEF ReadFinal, IInv, SessionInv
  <2>4. /\ disk[final] = digest /\ Len(digest) = length
        /\ final' = final /\ digest' = digest /\ length' = length /\ disk' = disk
    BY <2>2 DEF Readback, IoStatus, session
  <2> QED BY <2>3, <2>4 DEF ReceiptStep, ReceiptTrue
<1>2. CASE state = "COMMITTED"
  <2> USE CommittedIsQuiet
  <2>1. CASE UNCHANGED <<state, final, length, digest, disk>>
    BY <2>1, ReceiptKept
  <2>2. ASSUME NEW rc \in Status, NEW name \in ReqNames, Remove(name, rc)
        PROVE  ReceiptStep
    <3>1. CASE name = final
      BY <2>2, <3>1 DEF ReceiptStep
    <3>2. CASE name # final
      <4>1. /\ UNCHANGED <<final, length, digest>>
            /\ final \in Names => disk'[final] = disk[final]
        BY <2>2, <3>2 DEF Remove, Refuse, Unlink, session, IInv, TypeOK
      <4> QED BY <4>1, <1>2, ReceiptKept
    <3> QED BY <3>1, <3>2
  <2>3. ASSUME NEW name \in Names, NEW d \in Contents, Appear(name, d)
        PROVE  ReceiptStep
    <3>1. UNCHANGED <<state, final, length, digest>>
      BY <2>3 DEF Appear, session
    <3>2. CASE name = final
      <4>1. ~ReceiptTrue
        BY <2>3, <3>2, StorageAssumption DEF Appear, Present, ReceiptTrue
      <4> QED BY <1>2, <4>1 DEF ReceiptStep
    <3>3. CASE name # final
      <4>1. final \in Names => disk'[final] = disk[final]
        BY <2>3, <3>3 DEF Appear, IInv, TypeOK
      <4> QED BY <3>1, <4>1, ReceiptKept
    <3> QED BY <3>2, <3>3
  <2>4. \/ UNCHANGED <<state, final, length, digest, disk>>
        \/ \E rc \in Status, name \in ReqNames : Remove(name, rc)
        \/ \E name \in Names, d \in Contents : Appear(name, d)
    BY <1>2
    DEF Next, Request, CommitStep, Hello, Abort, Release, List, Malformed, CommitAnswer,
        Begin, Verify, Write, Refuse, OpenTransaction, TempTaken, CommitRefusal,
        DropTransaction, CommitStart, Flush, ReadTemp, StatDest, Rename, ReadFinal,
        Silence, StallAbort, PowerLoss, Reset, BootValues, IoFail, vars, session
  <2> QED BY <2>1, <2>2, <2>3, <2>4
<1> QED BY <1>1, <1>2

\* A COMMITTED receipt is true when given, and until its file is removed.
THEOREM ReceiptIsTrue == Spec => ReceiptStaysTrue
<1>1. IInv /\ [Next]_vars => [ReceiptStep]_vars
  BY NextReceipt
<1> QED BY <1>1, InvariantHolds, PTL DEF Spec, ReceiptStaysTrue, ReceiptStep

FrozenStep ==
  state = "UNCERTAIN" =>
    \/ UNCHANGED <<state, temp, disk>>
    \/ PowerLoss
    \/ \E name \in Names, d \in Contents : Appear(name, d)

LEMMA NextFrozen == IInv /\ [Next]_vars => FrozenStep
<1> SUFFICES ASSUME IInv, [Next]_vars, state = "UNCERTAIN" PROVE FrozenStep
  BY DEF FrozenStep
<1>1. phase = "ready"
  BY DEF IInv, SessionInv
<1>2. CASE Request
  <2>1. UNCHANGED <<state, temp, disk>>
    BY <1>2
    DEF Request, Hello, Abort, Release, List, Malformed, CommitAnswer, Remove, Begin,
        Verify, Write, Refuse, DropTransaction, Admission, BeginBusy, IsIdle, session
  <2> QED BY <2>1 DEF FrozenStep
<1>3. CASE CommitStart \/ CommitStep \/ Silence \/ StallAbort
  BY <1>1, <1>3
  DEF CommitStart, CommitRefusal, CommitStep, Flush, ReadTemp, StatDest, Rename,
      ReadFinal, Silence, StallAbort
<1>4. CASE (\E name \in Names, d \in Contents : Appear(name, d)) \/ PowerLoss
  BY <1>4 DEF FrozenStep
<1>5. CASE UNCHANGED vars
  BY <1>5 DEF FrozenStep, vars, session
<1> QED BY <1>2, <1>3, <1>4, <1>5 DEF Next

\* After an I/O failure nothing but a reset touches the card.
THEOREM UncertainIsFrozen == Spec => UncertainFreezesCard
<1>1. IInv /\ [Next]_vars => [FrozenStep]_vars
  BY NextFrozen
<1> QED BY <1>1, InvariantHolds, PTL DEF Spec, UncertainFreezesCard, FrozenStep
---------------------------------------------------------------------------
(* What an upload that ends leaves on the card. *)

CleanStep ==
  Unpublished /\ ~Unpublished' =>
    \/ disk'[temp] = Absent
    \/ state' = "UNCERTAIN"
    \/ phase = "readTemp" /\ "io" \in Faults
    \/ PowerLoss

\* The transaction of ssdu_abort is over only with its temp file unlinked.
LEMMA DropCleans ==
  ASSUME IInv, Unpublished, NEW rc, DropTransaction(rc)
  PROVE  disk'[temp] = Absent \/ state' = "UNCERTAIN"
<1>1. card = "mounted" /\ temp \in DOMAIN disk
  BY DEF IInv, OffsetIsTempLength, TypeOK
<1> QED BY <1>1 DEF DropTransaction, Unlinked, IoFail, Refuse

LEMMA NextCleans == IInv /\ [Next]_vars => CleanStep
<1> SUFFICES ASSUME IInv, [Next]_vars, Unpublished, ~Unpublished' PROVE CleanStep
  BY DEF CleanStep
<1>1. temp \in DOMAIN disk /\ temp \in Temps
  BY DEF IInv, OffsetIsTempLength, TypeOK
<1>2. CASE \E rc \in Status : Abort(rc)
  BY <1>2, DropCleans DEF Abort, CleanStep
<1>3. CASE StallAbort
  BY <1>3, DropCleans DEF StallAbort, CleanStep
<1>4. CASE CommitStep
  <2>1. PICK rc \in Status :
          \/ Flush(rc) \/ StatDest(rc) \/ ReadFinal(rc) \/ ReadTemp(rc) \/ Rename(rc)
    BY <1>4 DEF CommitStep
  <2>2. CASE Flush(rc) \/ StatDest(rc) \/ ReadFinal(rc)
    BY <2>2 DEF Flush, StatDest, ReadFinal, IoFail, Unpublished, CleanStep, IInv, SessionInv
  <2>3. CASE ReadTemp(rc)
    BY <1>1, <2>3 DEF ReadTemp, IoFail, Unpublished, CleanStep
  <2>4. CASE Rename(rc)
    <3>1. CASE disk' = [disk EXCEPT ![final] = disk[temp], ![temp] = Absent]
      BY <1>1, <3>1 DEF CleanStep
    <3>2. CASE IoFail(rc)
      BY <3>2 DEF IoFail, CleanStep
    <3> QED BY <2>4, <3>1, <3>2 DEF Rename
  <2> QED BY <2>1, <2>2, <2>3, <2>4
<1>5. CASE PowerLoss
  BY <1>5 DEF CleanStep
<1>6. CASE Request
  <2>1. PICK rc \in Status :
          \/ Hello(rc) \/ Abort(rc) \/ Release(rc) \/ List(rc) \/ Malformed(rc)
          \/ CommitAnswer(rc)
          \/ \E name \in ReqNames :
               \/ Remove(name, rc)
               \/ \E size \in Sizes, dig \in Contents :
                    Begin(name, size, dig, rc) \/ Verify(name, size, dig, rc)
          \/ \E off \in Offsets, chunk \in Chunks : Write(off, chunk, rc)
    BY <1>6 DEF Request
  <2>2. state = "RECEIVING" /\ phase = "ready"
    <3>1. Dispatch
      BY <2>1
      DEF Hello, Abort, Release, List, Malformed, CommitAnswer, Remove, Begin, Verify, Write
    <3> QED BY <3>1 DEF Dispatch, Unpublished
  <2>3. CASE Abort(rc)
    BY <1>2, <2>3
  <2>4. CASE \E off \in Offsets, chunk \in Chunks : Write(off, chunk, rc)
    BY <2>2, <2>4 DEF Write, Refuse, IoFail, Unpublished, CleanStep
  <2>5. CASE \/ Hello(rc) \/ Release(rc) \/ List(rc) \/ Malformed(rc) \/ CommitAnswer(rc)
             \/ \E name \in ReqNames :
                  \/ Remove(name, rc)
                  \/ \E size \in Sizes, dig \in Contents :
                       Begin(name, size, dig, rc) \/ Verify(name, size, dig, rc)
    <3>1. state' = state
      BY <2>2, <2>5
      DEF Hello, Release, List, Malformed, CommitAnswer, Remove, Begin, Verify, Refuse,
          Admission, BeginBusy, IsIdle
    <3> QED BY <2>2, <3>1 DEF Unpublished
  <2> QED BY <2>1, <2>3, <2>4, <2>5
<1>7. CASE \/ CommitStart \/ Silence
           \/ \E name \in Names, d \in Contents : Appear(name, d)
           \/ UNCHANGED vars
  BY <1>7 DEF CommitStart, Silence, Appear, vars, Unpublished
<1> QED BY <1>3, <1>4, <1>5, <1>6, <1>7 DEF Next

\* No upload ends with its temp file left on the card, unless the card failed
\* in that step or the board was reset.
THEOREM TempIsCleaned == Spec => OnlyFailuresLeaveTemp
<1>1. IInv /\ [Next]_vars => [CleanStep]_vars
  BY NextCleans
<1> QED BY <1>1, InvariantHolds, PTL DEF Spec, OnlyFailuresLeaveTemp, CleanStep
---------------------------------------------------------------------------
(* What an earlier upload left on the card. *)

\* In which states ABORT finds no card, or no temp name.
TempInv ==
  /\ state \in {"NO_MEDIA", "RELEASED"} => card = "NULL"
  /\ phase = "readFinal" => temp = None
  /\ state = "VERIFYING" /\ phase = "ready" => temp = None

LEMMA TempInvInit == Init => TempInv
  BY DEF Init, BootValues, TempInv

LEMMA TempInvKept == IInv /\ TempInv /\ [Next]_vars => TempInv'
<1> SUFFICES ASSUME IInv, TempInv, [Next]_vars PROVE TempInv'
  OBVIOUS
<1>1. CASE Request
  BY <1>1
  DEF Request, Hello, Abort, Release, List, Malformed, CommitAnswer, Remove, Unlink, Begin,
      OpenTransaction, TempTaken, Verify, Write, Refuse, DropTransaction, Admission,
      BeginBusy, IsIdle, IoFail, Dispatch, session, TempInv, IInv, SessionInv
<1>2. CASE CommitStart \/ Silence \/ StallAbort
  BY <1>2
  DEF CommitStart, CommitRefusal, Silence, StallAbort, DropTransaction, Refuse, IoFail,
      session, TempInv, IInv, SessionInv
<1>3. CASE CommitStep
  BY <1>3
  DEF CommitStep, Flush, ReadTemp, StatDest, Rename, ReadFinal, IoFail, Return, session,
      TempInv, IInv, SessionInv
<1>4. CASE (\E name \in Names, d \in Contents : Appear(name, d)) \/ PowerLoss
  BY <1>4 DEF Appear, PowerLoss, Reset, BootValues, session, TempInv
<1>5. CASE UNCHANGED vars
  BY <1>5 DEF vars, session, TempInv
<1> QED BY <1>1, <1>2, <1>3, <1>4, <1>5 DEF Next

LeftoverStep ==
  \A t \in Temps :
    Present(t) /\ ~Owns(t) /\ disk'[t] # disk[t] =>
      /\ disk'[t] = Absent
      /\ IsIdle /\ t = temp
      /\ \E rc \in Status : Abort(rc)

\* ssdu_abort unlinks only the file that s_temp names.
LEMMA DropUnlinks ==
  ASSUME IInv, NEW rc, DropTransaction(rc), NEW t \in Temps, disk'[t] # disk[t]
  PROVE  t = temp /\ disk'[t] = Absent
<1>1. t \in DOMAIN disk
  BY DEF IInv, TypeOK
<1>2. disk' = Unlinked(temp)
  BY DEF DropTransaction, Refuse
<1> QED BY <1>1, <1>2 DEF Unlinked

LEMMA NextSpares == IInv /\ TempInv /\ [Next]_vars => LeftoverStep
<1> SUFFICES ASSUME IInv, TempInv, [Next]_vars, NEW t \in Temps,
                    Present(t), ~Owns(t), disk'[t] # disk[t]
             PROVE  disk'[t] = Absent /\ IsIdle /\ t = temp /\ \E rc \in Status : Abort(rc)
  BY DEF LeftoverStep
<1>1. t \in DOMAIN disk /\ t \notin Names /\ (state = "RECEIVING" => t # temp)
  BY StorageAssumption DEF IInv, TypeOK, Owns, Unpublished
<1>2. CASE \E rc \in Status : Abort(rc)
  <2>1. PICK rc \in Status : Abort(rc)
    BY <1>2
  <2>2. t = temp /\ disk'[t] = Absent
    BY <2>1, DropUnlinks DEF Abort
  <2>3. phase = "ready" /\ card = "mounted" /\ state # "UNCERTAIN"
    BY <2>1, <2>2, <1>1 DEF Abort, Dispatch, DropTransaction, Refuse, Unlinked
  <2>4. IsIdle
    BY <1>1, <2>2, <2>3, StorageAssumption DEF IInv, TypeOK, States, IsIdle, TempInv
  <2> QED BY <1>2, <2>2, <2>4
<1>3. CASE StallAbort
  <2>1. state = "RECEIVING" /\ t = temp
    BY <1>3, DropUnlinks DEF StallAbort
  <2> QED BY <1>1, <2>1
<1>4. CASE CommitStep
  <2>1. PICK rc \in Status :
          \/ Flush(rc) \/ StatDest(rc) \/ ReadFinal(rc) \/ ReadTemp(rc) \/ Rename(rc)
    BY <1>4 DEF CommitStep
  <2> QED
    BY <1>1, <2>1
    DEF Flush, StatDest, ReadFinal, ReadTemp, Rename, LinkedTwice, Owns, Unpublished,
        IInv, SessionInv
<1>5. CASE PowerLoss
  BY <1>1, <1>5
  DEF PowerLoss, Reset, AfterPowerLoss, LinkedTwice, Owns, IInv, SessionInv, Unpublished
<1>6. CASE Request
  <2>1. PICK rc \in Status :
          \/ Hello(rc) \/ Abort(rc) \/ Release(rc) \/ List(rc) \/ Malformed(rc)
          \/ CommitAnswer(rc)
          \/ \E name \in ReqNames :
               \/ Remove(name, rc)
               \/ \E size \in Sizes, dig \in Contents :
                    Begin(name, size, dig, rc) \/ Verify(name, size, dig, rc)
          \/ \E off \in Offsets, chunk \in Chunks : Write(off, chunk, rc)
    BY <1>6 DEF Request
  <2>2. CASE Abort(rc)
    BY <1>2, <2>2
  <2>3. CASE \E off \in Offsets, chunk \in Chunks : Write(off, chunk, rc)
    BY <1>1, <2>3 DEF Write, Refuse
  <2>4. CASE \E name \in ReqNames : Remove(name, rc)
    <3>1. PICK name \in ReqNames : Remove(name, rc)
      BY <2>4
    <3>2. CASE disk' = [disk EXCEPT ![name] = Absent] /\ name \in Names
      BY <1>1, <3>2
    <3> QED BY <3>1, <3>2 DEF Remove, Unlink, Refuse, Admission
  <2>5. CASE \E name \in ReqNames, size \in Sizes, dig \in Contents : Begin(name, size, dig, rc)
    <3>1. PICK name \in ReqNames, size \in Sizes, dig \in Contents : Begin(name, size, dig, rc)
      BY <2>5
    <3>2. CASE \E u \in Temps : OpenTransaction(u, name, size, dig, rc)
      BY <1>1, <3>2 DEF OpenTransaction, Present
    <3> QED BY <3>1, <3>2 DEF Begin, TempTaken, Refuse
  <2>6. CASE \/ Hello(rc) \/ Release(rc) \/ List(rc) \/ Malformed(rc) \/ CommitAnswer(rc)
             \/ \E name \in ReqNames, size \in Sizes, dig \in Contents :
                  Verify(name, size, dig, rc)
    BY <2>6 DEF Hello, Release, List, Malformed, CommitAnswer, Verify, Refuse
  <2> QED BY <2>1, <2>2, <2>3, <2>4, <2>5, <2>6
<1>7. CASE \/ CommitStart \/ Silence
           \/ \E name \in Names, d \in Contents : Appear(name, d)
           \/ UNCHANGED vars
  BY <1>1, <1>7 DEF CommitStart, Silence, Appear, vars
<1> QED BY <1>2, <1>3, <1>4, <1>5, <1>6, <1>7 DEF Next

\* A temp file that an earlier upload left is not used by a later one, and
\* only an ABORT after a BEGIN that met its name takes it off the card.
THEOREM LeftoversAreSpared == Spec => LeftoversAreNotUsed
<1>1. IInv /\ TempInv /\ [Next]_vars => [LeftoverStep]_vars
  BY NextSpares
<1>2. Spec => []TempInv
  BY InvariantHolds, TempInvInit, TempInvKept, PTL DEF Spec
<1> QED BY <1>1, <1>2, InvariantHolds, PTL DEF Spec, LeftoversAreNotUsed, LeftoverStep
===========================================================================
