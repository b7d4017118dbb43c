------------------------- MODULE SsduPublishProofs -------------------------
(***************************************************************************)
(* The upload transaction of the uploader implements AtomicPublish: every  *)
(* step of SsduStorage, faults and power loss included, is a step of the   *)
(* abstract specification or leaves the mapped variables alone.            *)
(***************************************************************************)
EXTENDS SsduStorageProofs

LEMMA OfferIsOffer ==
  ASSUME IInv, Unpublished
  PROVE  /\ Offer \in Published!Offers
         /\ Offer.name = final /\ Offer.data = digest
         /\ Offer # None
<1>1. final \in Names /\ digest \in Contents
  BY DEF IInv, SessionInv
<1>2. Offer = [name |-> final, data |-> digest]
  BY DEF Offer
<1> QED BY <1>1, <1>2, StorageAssumption DEF Published!Offers

\* A step that changes no file the user sees, and does not open a transaction.
LEMMA QuietStep ==
  ASSUME IInv,
         \A n \in Names : disk'[n] = disk[n],
         Unpublished' => Unpublished /\ final' = final /\ digest' = digest
  PROVE  [Published!Next]_(Published!pvars)
<1>1. Files' = Files
  BY DEF Files
<1>2. CASE Unpublished' \/ ~Unpublished
  <2>1. Offer' = Offer
    BY <1>2 DEF Offer
  <2> QED BY <1>1, <2>1 DEF Published!pvars
<1>3. CASE Unpublished /\ ~Unpublished'
  <2>1. Offer # None /\ Offer' = None
    BY <1>3, OfferIsOffer DEF Offer
  <2> QED BY <1>1, <2>1 DEF Published!Next, Published!Withdraw
<1> QED BY <1>2, <1>3

\* A step that puts the announced data under the announced name.
LEMMA PublishStep ==
  ASSUME IInv, Unpublished, ~Unpublished',
         ~Present(final),
         \A n \in Names : disk'[n] = IF n = final THEN digest ELSE disk[n]
  PROVE  Published!Next
<1>1. /\ Offer # None /\ Offer.name = final /\ Offer.data = digest
      /\ final \in Names
  BY OfferIsOffer DEF IInv, SessionInv
<1>2. Offer' = None
  BY DEF Offer
<1>3. Files[final] = Absent
  BY <1>1 DEF Files, Present
<1>4. Files' = [Files EXCEPT ![final] = digest]
  BY <1>1 DEF Files
<1> QED BY <1>1, <1>2, <1>3, <1>4 DEF Published!Next, Published!Publish

LEMMA AnnounceStep ==
  ASSUME IInv, NEW name \in Names, NEW size, NEW dig \in Contents, NEW rc,
         NEW t \in Temps, IsIdle, phase = "ready", phase' = phase,
         OpenTransaction(t, name, size, dig, rc)
  PROVE  Published!Next
<1>1. ~Unpublished /\ Unpublished' /\ final' = name /\ digest' = dig
  BY DEF Unpublished, IsIdle, OpenTransaction
<1>2. Offer = None /\ Offer' = [name |-> name, data |-> dig]
  BY <1>1 DEF Offer
<1>3. t \notin Names
  BY StorageAssumption
<1>4. Files' = Files
  BY <1>3 DEF Files, OpenTransaction, IInv, TypeOK
<1>5. Files[name] = Absent
  BY DEF Files, OpenTransaction, Present
<1>6. Offer' \in Published!Offers /\ Offer'.name = name
  BY <1>2 DEF Published!Offers
<1>7. Published!Announce(Offer')
  BY <1>2, <1>4, <1>5, <1>6 DEF Published!Announce
<1> QED BY <1>6, <1>7 DEF Published!Next

LEMMA DeleteStep ==
  ASSUME IInv, NEW name \in Names, NEW rc, IsIdle, phase = "ready", phase' = phase,
         Unlink(name, rc)
  PROVE  Published!Next
<1>1. ~Unpublished /\ ~Unpublished'
  BY DEF Unpublished, IsIdle, Unlink
<1>2. Offer = None /\ Offer' = None
  BY <1>1 DEF Offer
<1>3. Files' = [Files EXCEPT ![name] = Absent] /\ Files[name] \in Contents
  BY DEF Files, Unlink, IInv, TypeOK
<1> QED BY <1>2, <1>3 DEF Published!Next, Published!Delete

LEMMA AppearStep ==
  ASSUME IInv, NEW name \in Names, NEW d \in Contents, Appear(name, d)
  PROVE  Published!Next
<1>1. Offer' = Offer
  BY DEF Appear, session, Offer, Unpublished
<1>2. Files' = [Files EXCEPT ![name] = d] /\ Files[name] = Absent
  BY DEF Files, Appear, Present, IInv, TypeOK
<1> QED BY <1>1, <1>2 DEF Published!Next, Published!Appear
---------------------------------------------------------------------------
\* A handler that leaves the final names, the state and the announcement.
LEMMA RefuseMaps ==
  ASSUME IInv, NEW status, NEW rc, Refuse(status, rc)
  PROVE  [Published!Next]_(Published!pvars)
  BY QuietStep DEF Refuse, session, Unpublished

LEMMA DropMaps ==
  ASSUME IInv, NEW rc, phase = "ready", DropTransaction(rc)
  PROVE  [Published!Next]_(Published!pvars)
<1>1. \A n \in Names : disk'[n] = disk[n]
  <2>1. temp \in Temps \cup {None} /\ DOMAIN disk = Names \cup Temps
    BY DEF IInv, TypeOK
  <2>2. temp \notin Names
    BY <2>1, StorageAssumption
  <2> QED BY <2>1, <2>2 DEF DropTransaction, Unlinked, Refuse
<1>2. Unpublished' => Unpublished /\ final' = final /\ digest' = digest
  BY DEF DropTransaction, Refuse, session, IoFail, IoStatus, Unpublished
<1> QED BY <1>1, <1>2, QuietStep

LEMMA WriteMaps ==
  ASSUME IInv, NEW off, NEW chunk, NEW rc, Write(off, chunk, rc)
  PROVE  [Published!Next]_(Published!pvars)
<1>1. phase = "ready" /\ phase' = phase
  BY DEF Write, Dispatch
<1>2. CASE Refuse("BUSY", rc) \/ Refuse("OFFSET", rc) \/ Refuse("RANGE", rc)
  BY <1>2, RefuseMaps
<1>3. CASE /\ state = "RECEIVING"
           /\ \E x : disk' = [disk EXCEPT ![temp] = x]
           /\ state' \in {state, "UNCERTAIN"}
           /\ UNCHANGED <<final, digest>>
  <2>1. temp \in Temps /\ DOMAIN disk = Names \cup Temps /\ temp \notin Names
    BY <1>3, StorageAssumption
    DEF IInv, TypeOK, OffsetIsTempLength, Unpublished
  <2>2. \A n \in Names : disk'[n] = disk[n]
    BY <1>3, <2>1
  <2> QED BY <1>1, <1>3, <2>2, QuietStep DEF Unpublished
<1> QED BY <1>2, <1>3 DEF Write, IoFail, session

LEMMA RequestMaps ==
  IInv /\ (Request \/ CommitStart) => [Published!Next]_(Published!pvars)
<1> SUFFICES ASSUME IInv, Request \/ CommitStart
             PROVE  [Published!Next]_(Published!pvars)
  OBVIOUS
<1>1. ASSUME NEW status, NEW rc, Refuse(status, rc)
      PROVE  [Published!Next]_(Published!pvars)
  BY <1>1, RefuseMaps
<1>2. ASSUME NEW rc, Hello(rc)
      PROVE  [Published!Next]_(Published!pvars)
  BY <1>2, QuietStep DEF Hello, Dispatch, session, Unpublished
<1>3. ASSUME NEW name, NEW size \in Sizes, NEW dig \in Contents, NEW rc,
             Begin(name, size, dig, rc)
      PROVE  [Published!Next]_(Published!pvars)
  <2>1. CASE Refuse("EXISTS", rc) \/ Refuse(Admission(BeginBusy, name, size), rc)
    BY <2>1, <1>1
  <2>2. ASSUME Admission(BeginBusy, name, size) = "OK"
        PROVE  IsIdle /\ name \in Names
    BY <2>2 DEF Admission, BeginBusy
  <2>3. phase = "ready" /\ phase' = phase
    BY <1>3 DEF Begin, Dispatch
  <2>4. CASE /\ Admission(BeginBusy, name, size) = "OK"
             /\ \E t \in Temps : OpenTransaction(t, name, size, dig, rc)
    BY <2>2, <2>3, <2>4, AnnounceStep
  <2>5. CASE \E t \in Temps : TempTaken(t, name, rc)
    BY <2>3, <2>5, QuietStep DEF TempTaken, Unpublished
  <2>6. CASE IoFail(rc) /\ UNCHANGED <<card, active, final, length, digest, offset, disk>>
    BY <2>3, <2>6, QuietStep DEF IoFail, Unpublished
  <2> QED BY <1>3, <2>1, <2>4, <2>5, <2>6 DEF Begin
<1>4. ASSUME NEW off, NEW chunk, NEW rc, Write(off, chunk, rc)
      PROVE  [Published!Next]_(Published!pvars)
  BY <1>4, WriteMaps
<1>5. ASSUME NEW name, NEW size, NEW dig, NEW rc, Verify(name, size, dig, rc)
      PROVE  [Published!Next]_(Published!pvars)
  <2>1. CASE \E status : Refuse(status, rc)
    BY <2>1, <1>1
  <2>2. CASE UNCHANGED <<session, disk>> /\ (IoFail(rc) \/ UNCHANGED state)
    BY <1>5, <2>2, QuietStep DEF Verify, Dispatch, IoFail, session, Unpublished
  <2> QED BY <1>5, <2>1, <2>2 DEF Verify
<1>6. ASSUME NEW name, NEW rc, Remove(name, rc)
      PROVE  [Published!Next]_(Published!pvars)
  <2>1. CASE \E status : Refuse(status, rc)
    BY <2>1, <1>1
  <2>2. CASE UNCHANGED <<session, disk>> /\ IoFail(rc)
    BY <1>6, <2>2, QuietStep DEF Remove, Dispatch, IoFail, session, Unpublished
  <2>3. CASE Admission("BUSY", name, 0) = "OK" /\ Unlink(name, rc)
    <3>1. IsIdle /\ name \in Names
      BY <2>3 DEF Admission
    <3> QED BY <1>6, <2>3, <3>1, DeleteStep DEF Remove, Dispatch
  <2> QED BY <1>6, <2>1, <2>2, <2>3 DEF Remove
<1>7. ASSUME NEW rc, Release(rc)
      PROVE  [Published!Next]_(Published!pvars)
  <2>1. CASE \E status : Refuse(status, rc)
    BY <2>1, <1>1
  <2>2. CASE /\ state' \in {"RELEASED", "UNCERTAIN"}
             /\ UNCHANGED <<final, digest, disk>>
    BY <1>7, <2>2, QuietStep DEF Release, Dispatch, Unpublished
  <2> QED BY <1>7, <2>1, <2>2 DEF Release, IoFail, session
<1>8. CASE CommitStart
  BY <1>8, QuietStep
  DEF CommitStart, CommitRefusal, Dispatch, session, Unpublished
<1>9. ASSUME NEW rc, Abort(rc) \/ List(rc) \/ Malformed(rc) \/ CommitAnswer(rc)
      PROVE  [Published!Next]_(Published!pvars)
  BY <1>1, <1>9, DropMaps DEF Abort, List, Malformed, CommitAnswer, Dispatch
<1> QED
  BY <1>2, <1>3, <1>4, <1>5, <1>6, <1>7, <1>8, <1>9 DEF Request

\* Only the rename, or half of it, changes a final name.
LEMMA CommitStepMaps == IInv /\ CommitStep => [Published!Next]_(Published!pvars)
<1> SUFFICES ASSUME IInv, NEW rc \in Status,
               \/ Flush(rc) \/ ReadTemp(rc) \/ StatDest(rc) \/ Rename(rc) \/ ReadFinal(rc)
             PROVE  [Published!Next]_(Published!pvars)
  BY DEF CommitStep
<1>1. phase # "ready" /\ state = "VERIFYING" /\ temp \notin Names
      /\ DOMAIN disk = Names \cup Temps
  BY StorageAssumption
  DEF Flush, ReadTemp, StatDest, Rename, ReadFinal, IInv, SessionInv, TypeOK
<1>2. CASE Flush(rc)
  <2>1. \A n \in Names : disk'[n] = disk[n]
    BY <1>1, <1>2 DEF Flush
  <2> QED BY <1>1, <1>2, <2>1, QuietStep DEF Flush, IoFail, Return, Unpublished
<1>3. CASE ReadTemp(rc)
  <2>1. \A n \in Names : disk'[n] = disk[n]
    BY <1>1, <1>3 DEF ReadTemp
  <2> QED BY <1>1, <1>3, <2>1, QuietStep DEF ReadTemp, IoFail, Return, Unpublished
<1>4. CASE StatDest(rc)
  BY <1>1, <1>4, QuietStep DEF StatDest, Return, session, Unpublished
<1>5. CASE Rename(rc)
  <2>1. /\ Unpublished /\ ~Unpublished'
        /\ disk[temp] = digest /\ final \in Names /\ temp # final
    BY <1>1, <1>5
    DEF Rename, IoFail, Return, IInv, SessionInv, RenamesOnlyVerified, Unpublished
  <2>2. CASE ~Present(final) /\ disk' = [disk EXCEPT ![final] = disk[temp], ![temp] = Absent]
    <3>1. \A n \in Names : disk'[n] = IF n = final THEN digest ELSE disk[n]
      BY <1>1, <2>1, <2>2
    <3> QED BY <2>1, <2>2, <3>1, PublishStep
  <2>3. CASE ~Present(final) /\ disk' = LinkedTwice
    <3>1. \A n \in Names : disk'[n] = IF n = final THEN digest ELSE disk[n]
      BY <1>1, <2>1, <2>3 DEF LinkedTwice
    <3> QED BY <2>1, <2>3, <3>1, PublishStep
  <2>4. CASE disk' = disk
    BY <2>1, <2>4, QuietStep
  <2> QED BY <1>5, <2>2, <2>3, <2>4 DEF Rename
<1>6. CASE ReadFinal(rc)
  BY <1>1, <1>6, QuietStep DEF ReadFinal, Return, IoFail, session, Unpublished
<1> QED BY <1>2, <1>3, <1>4, <1>5, <1>6

\* A reset withdraws the open transaction, or finds it just published.
LEMMA ResetMaps == IInv /\ Reset => [Published!Next]_(Published!pvars)
<1> SUFFICES ASSUME IInv, Reset PROVE [Published!Next]_(Published!pvars)
  OBVIOUS
<1>1. ~Unpublished'
  BY DEF Reset, BootValues, Unpublished
<1>2. CASE disk' = disk
  BY <1>1, <1>2, QuietStep
<1>3. CASE active # None /\ \E x : disk' = [disk EXCEPT ![temp] = x]
  <2>1. temp \notin Names /\ DOMAIN disk = Names \cup Temps
    BY <1>3, StorageAssumption DEF IInv, TypeOK, SessionInv
  <2> QED BY <1>1, <1>3, <2>1, QuietStep
<1>4. CASE phase = "rename" /\ ~Present(final) /\ disk' = LinkedTwice
  <2>1. Unpublished /\ disk[temp] = digest /\ final \in Names
    BY <1>4 DEF IInv, SessionInv, RenamesOnlyVerified, Unpublished
  <2>2. \A n \in Names : disk'[n] = IF n = final THEN digest ELSE disk[n]
    BY <1>4, <2>1 DEF LinkedTwice, IInv, TypeOK
  <2> QED BY <1>1, <1>4, <2>1, <2>2, PublishStep
<1> QED BY <1>2, <1>3, <1>4 DEF Reset, AfterPowerLoss

LEMMA NextMaps == IInv /\ [Next]_vars => [Published!Next]_(Published!pvars)
<1> SUFFICES ASSUME IInv, [Next]_vars PROVE [Published!Next]_(Published!pvars)
  OBVIOUS
<1>1. CASE Request \/ CommitStart
  BY <1>1, RequestMaps
<1>2. CASE CommitStep
  BY <1>2, CommitStepMaps
<1>3. CASE Silence
  BY <1>3, QuietStep DEF Silence, session, Unpublished
<1>4. CASE StallAbort
  BY <1>4, DropMaps DEF StallAbort
<1>5. CASE \E name \in Names, d \in Contents : Appear(name, d)
  BY <1>5, AppearStep
<1>6. CASE PowerLoss
  BY <1>6, ResetMaps DEF PowerLoss
<1>7. CASE UNCHANGED vars
  BY <1>7, QuietStep DEF vars, session, Unpublished
<1> QED BY <1>1, <1>2, <1>3, <1>4, <1>5, <1>6, <1>7 DEF Next

LEMMA InitMaps == Init => Published!Init
<1> SUFFICES ASSUME Init PROVE Published!Init
  OBVIOUS
<1>1. Files \in [Names -> Contents \cup {Absent, Dir}]
  BY DEF Init, Files, Entries
<1>2. Offer = None
  BY DEF Init, BootValues, Offer, Unpublished
<1> QED BY <1>1, <1>2 DEF Published!Init

\* BEGIN .. COMMIT are an atomic publish: whatever fails and whenever the board
\* is reset, a final name only ever gets the whole announced file, is never
\* overwritten, and loses its file only to a REMOVE between transactions.
THEOREM UploadsPublishAtomically == Spec => PublishesAtomically
<1>1. Init => Published!Init
  BY InitMaps
<1>2. IInv /\ [Next]_vars => [Published!Next]_(Published!pvars)
  BY NextMaps
<1> QED
  BY <1>1, <1>2, InvariantHolds, PTL DEF Spec, PublishesAtomically, Published!Spec
===========================================================================
