-------------------------- MODULE SsduClientProofs --------------------------
(***************************************************************************)
(* What sd_upload.py says and does of the files on the card, for every     *)
(* number of attempts and files and every way the line loses or delays     *)
(* frames: COMMITTED, SKIPPED, VERIFIED and REMOVED are true when printed, *)
(* and an upload never takes a good file off the card.                     *)
(*                                                                         *)
(* The invariants speak of what is in flight: an answer that the client    *)
(* may still read, and a REMOVE that the board may still serve.            *)
(***************************************************************************)
EXTENDS SsduSessionProofs

Items(q) == {q[i] : i \in 1..Len(q)}

LEMMA NothingIn == Items(<<>>) = {}
  BY EmptySeq DEF Items

LEMMA OneIn ==
  ASSUME NEW m, NEW q \in {<<m>>, <<>>}
  PROVE  Items(q) \subseteq {m} /\ Len(q) <= 1
<1>1. CASE q = <<>>
  BY <1>1, NothingIn, EmptySeq
<1>2. CASE q = <<m>>
  <2>1. Len(q) = 1 /\ q[1] = m
    BY <1>2
  <2>2. 1..1 = {1}
    OBVIOUS
  <2> QED BY <2>1, <2>2 DEF Items
<1> QED BY <1>1, <1>2

LEMMA SomethingIn ==
  ASSUME NEW S, NEW q \in Seq(S), q # <<>>
  PROVE  Head(q) \in Items(q) /\ Len(q) \in Nat \ {0}
<1>1. Len(q) \in Nat \ {0} /\ Head(q) = q[1]
  BY EmptySeq
<1> QED BY <1>1 DEF Items

LEMMA TailKeeps ==
  ASSUME NEW S, NEW q \in Seq(S), q # <<>>
  PROVE  Items(Tail(q)) \subseteq Items(q) /\ (Len(q) <= 1 => Tail(q) = <<>>)
<1>1. /\ Len(q) \in Nat \ {0} /\ Tail(q) \in Seq(S) /\ Len(Tail(q)) = Len(q) - 1
      /\ \A i \in 1..Len(Tail(q)) : Tail(q)[i] = q[i + 1]
  BY EmptySeq, HeadTailProperties
<1>2. Len(q) <= 1 => Tail(q) = <<>>
  BY <1>1, EmptySeq
<1> QED BY <1>1, <1>2 DEF Items

LEMMA RestKeeps ==
  ASSUME NEW S, NEW q \in Seq(S), NEW k \in 1..Len(q)
  PROVE  LET rest == SubSeq(q, k + 1, Len(q)) IN
         Items(rest) \subseteq Items(q) /\ (Len(q) <= 1 => rest = <<>>)
<1> DEFINE rest == SubSeq(q, k + 1, Len(q))
<1>1. Len(q) \in Nat /\ \A i \in (k + 1)..Len(q) : q[i] \in S
  BY LenProperties, ElementOfSeq
<1>2. /\ rest \in Seq(S)
      /\ Len(rest) = IF k + 1 <= Len(q) THEN Len(q) - (k + 1) + 1 ELSE 0
      /\ \A i \in 1..(Len(q) - (k + 1) + 1) : rest[i] = q[(k + 1) + i - 1]
  BY <1>1, SubSeqProperties
<1>3. Len(q) <= 1 => rest = <<>>
  BY <1>1, <1>2, EmptySeq
<1> HIDE DEF rest
<1>4. ASSUME NEW i \in 1..Len(rest)
      PROVE  k + i \in 1..Len(q) /\ rest[i] = q[k + i]
  <2>1. i \in 1..(Len(q) - (k + 1) + 1) /\ (k + 1) + i - 1 = k + i
    BY <1>1, <1>2
  <2> QED BY <1>1, <1>2, <2>1
<1>5. Items(rest) \subseteq Items(q)
  BY <1>4 DEF Items
<1> QED BY <1>3, <1>5 DEF rest

LEMMA SentAdds ==
  ASSUME NEW S, NEW q \in Seq(S), NEW m \in S, NEW q2 \in Sent(q, m)
  PROVE  /\ Items(q2) \subseteq Items(q) \cup {m}
         /\ q = <<>> => Len(q2) <= 1
<1>1. CASE q2 = q
  BY <1>1, EmptySeq
<1>2. CASE q2 = Append(q, m)
  <2>1. /\ Len(q2) = Len(q) + 1 /\ Len(q) \in Nat
        /\ \A i \in 1..Len(q) : q2[i] = q[i]
        /\ q2[Len(q) + 1] = m
    BY <1>2, AppendProperties, LenProperties
  <2>2. q = <<>> => Len(q2) <= 1
    BY <2>1, EmptySeq
  <2> QED BY <2>1, <2>2 DEF Items
<1> QED BY <1>1, <1>2 DEF Sent

\* No REMOVE waits behind a COMMIT: it would be served after the receipt.
RemovesFirst(q) ==
  \A i, j \in 1..Len(q) : i < j /\ q[i].op = "commit" => q[j].op # "remove"

LEMMA TailInOrder ==
  ASSUME NEW q \in Seq(Frames), q # <<>>, RemovesFirst(q)
  PROVE  /\ RemovesFirst(Tail(q))
         /\ Head(q).op = "commit" => \A m \in Items(Tail(q)) : m.op # "remove"
<1>1. /\ Len(q) \in Nat \ {0} /\ Len(Tail(q)) = Len(q) - 1 /\ Head(q) = q[1]
      /\ \A i \in 1..Len(Tail(q)) : Tail(q)[i] = q[i + 1]
  BY EmptySeq, HeadTailProperties
<1>2. \A i \in 1..Len(Tail(q)) : i + 1 \in 1..Len(q) /\ 1 < i + 1
  BY <1>1
<1>3. RemovesFirst(Tail(q))
  BY <1>1, <1>2 DEF RemovesFirst
<1>4. ASSUME Head(q).op = "commit", NEW m \in Items(Tail(q))
      PROVE  m.op # "remove"
  <2>1. PICK i \in 1..Len(Tail(q)) : m = Tail(q)[i]
    BY DEF Items
  <2> QED BY <1>1, <1>2, <1>4, <2>1 DEF RemovesFirst
<1> QED BY <1>3, <1>4

LEMMA SentInOrder ==
  ASSUME NEW q \in Seq(Frames), NEW m \in Frames, NEW q2 \in Sent(q, m),
         RemovesFirst(q),
         m.op = "remove" => \A x \in Items(q) : x.op # "commit"
  PROVE  RemovesFirst(q2)
<1>1. CASE q2 = q
  BY <1>1
<1>2. CASE q2 = Append(q, m)
  <2>1. /\ Len(q2) = Len(q) + 1 /\ Len(q) \in Nat
        /\ \A i \in 1..Len(q) : q2[i] = q[i]
        /\ q2[Len(q) + 1] = m
    BY <1>2, AppendProperties, LenProperties
  <2> SUFFICES ASSUME NEW i \in 1..Len(q2), NEW j \in 1..Len(q2), i < j,
                      q2[i].op = "commit"
               PROVE  q2[j].op # "remove"
    BY DEF RemovesFirst
  <2>2. i \in 1..Len(q) /\ q[i].op = "commit" /\ q[i] \in Items(q)
    BY <2>1 DEF Items
  <2>3. CASE j \in 1..Len(q)
    BY <2>1, <2>2, <2>3 DEF RemovesFirst
  <2>4. CASE j = Len(q) + 1
    BY <2>1, <2>2, <2>4
  <2> QED BY <2>1, <2>3, <2>4
<1> QED BY <1>1, <1>2 DEF Sent
---------------------------------------------------------------------------
(* The board *)

NoMisread == "misread" \notin Faults

\* A served request changes no file but the one a REMOVE names, and makes no
\* transaction COMMITTED that was not.
HandlerFacts(r, rc) ==
  /\ phase = "ready" /\ phase' = "ready"
  /\ \A n \in Names : \/ disk'[n] = disk[n]
                      \/ r.op = "remove" /\ n = r.name /\ disk'[n] = Absent
  /\ state' = "COMMITTED" =>
       state = "COMMITTED" /\ UNCHANGED <<final, length, digest>>

\* What the answers that the client goes by say.
AnswerFacts(r, rc) ==
  /\ rc = "OK" =>
       /\ r.op = "verify" => disk[r.name] = r.data
       /\ r.op = "remove" => disk'[r.name] = Absent
       /\ r.op = "begin"  => state' # "COMMITTED"
       /\ r.op = "commit" => state = "COMMITTED"
  /\ rc = "DIGEST" => /\ r.op = "verify"
                      /\ NoMisread => disk[r.name] # r.data

LEMMA TempIsNoName ==
  ASSUME TypeOK
  PROVE  temp \notin Names /\ DOMAIN disk = Names \cup Temps
  BY StorageAssumption DEF TypeOK

LEMMA HandlerChanges ==
  ASSUME IInv, NEW r \in Frames, NEW rc \in Status, Handle(r, rc)
  PROVE  HandlerFacts(r, rc)
<1>1. temp \notin Names /\ DOMAIN disk = Names \cup Temps
  BY TempIsNoName DEF IInv
<1>2. CASE r.op = "hello"
  BY <1>2 DEF Handle, Hello, Dispatch, HandlerFacts, session
<1>3. CASE r.op = "list"
  BY <1>3 DEF Handle, List, Dispatch, Refuse, HandlerFacts, session
<1>4. CASE r.op = "verify"
  BY <1>4 DEF Handle, Verify, Dispatch, Refuse, IoFail, HandlerFacts, session
<1>5. CASE r.op = "remove"
  BY <1>1, <1>5 DEF Handle, Remove, Unlink, Dispatch, Refuse, IoFail, HandlerFacts, session
<1>6. CASE r.op = "begin"
  <2>1. Begin(r.name, Len(r.data), r.data, rc)
    BY <1>6 DEF Handle
  <2>2. Temps \cap Names = {}
    BY StorageAssumption
  <2> QED
    BY <1>1, <1>6, <2>1, <2>2
    DEF Begin, OpenTransaction, TempTaken, Dispatch, Refuse, IoFail, HandlerFacts, session
<1>7. CASE r.op = "write"
  <2>1. Write(r.off, Chunk(r.data, r.off), rc)
    BY <1>7 DEF Handle
  <2> QED
    BY <1>1, <1>7, <2>1 DEF Write, Dispatch, Refuse, IoFail, HandlerFacts, session
<1>8. CASE r.op = "commit"
  BY <1>8 DEF Handle, CommitAnswer, Dispatch, Refuse, HandlerFacts, session
<1>9. CASE r.op = "abort"
  BY <1>1, <1>9
  DEF Handle, Abort, DropTransaction, Unlinked, Dispatch, Refuse, IoFail, HandlerFacts, session
<1>10. CASE r.op = "release"
  BY <1>10 DEF Handle, Release, Dispatch, Refuse, IoFail, HandlerFacts, session
<1> QED
  BY <1>2, <1>3, <1>4, <1>5, <1>6, <1>7, <1>8, <1>9, <1>10 DEF Handle
LEMMA HandlerAnswers ==
  ASSUME IInv, NEW r \in Frames, NEW rc \in Status, Handle(r, rc)
  PROVE  AnswerFacts(r, rc)
<1>1. \A name, size : /\ Admission(BeginBusy, name, size) # "DIGEST"
                      /\ Admission("BUSY", name, size) # "DIGEST"
  BY DEF Admission, BeginBusy
<1>2. CASE r.op = "verify"
  <2>1. Verify(r.name, Len(r.data), r.data, rc)
    BY <1>2 DEF Handle
  <2>2. CASE rc = "OK"
    BY <1>2, <2>1, <2>2 DEF Verify, IoFail, IoStatus, Refuse, Readback, AnswerFacts
  <2>3. CASE rc = "DIGEST"
    BY <1>1, <1>2, <2>1, <2>3
    DEF Verify, IoFail, IoStatus, Refuse, Readback, NoMisread, AnswerFacts
  <2> QED BY <2>2, <2>3 DEF AnswerFacts
<1>3. CASE r.op = "remove"
  <2>1. Remove(r.name, rc)
    BY <1>3 DEF Handle
  <2>2. rc # "DIGEST"
    BY <1>1, <2>1 DEF Remove, Refuse, Unlink, IoFail, IoStatus
  <2>3. r.name \in DOMAIN disk
    BY DEF Frames, IInv, TypeOK
  <2>4. rc = "OK" => disk'[r.name] = Absent
    BY <2>1, <2>3 DEF Remove, Refuse, Unlink, IoFail, IoStatus, Present
  <2> QED BY <1>3, <2>2, <2>4 DEF AnswerFacts
<1>4. CASE r.op = "begin"
  <2>1. Begin(r.name, Len(r.data), r.data, rc)
    BY <1>4 DEF Handle
  <2>2. rc # "DIGEST"
    BY <1>1, <2>1 DEF Begin, Refuse, OpenTransaction, TempTaken, IoFail, IoStatus
  <2>3. rc = "OK" => state' = "RECEIVING"
    BY <2>1 DEF Begin, Refuse, OpenTransaction, TempTaken, IoFail, IoStatus
  <2> QED BY <1>4, <2>2, <2>3 DEF AnswerFacts
<1>5. CASE r.op \in {"hello", "list", "write", "abort", "release"}
  BY <1>5
  DEF Handle, Hello, List, Write, Abort, DropTransaction, Release, Refuse, IoFail,
      IoStatus, AnswerFacts
<1>6. CASE r.op = "commit"
  BY <1>6 DEF Handle, CommitAnswer, CommitRefusal, Refuse, AnswerFacts
<1> QED BY <1>2, <1>3, <1>4, <1>5, <1>6 DEF Handle

\* COMMIT fills a name that was free, and says so when it has read it back.
LEMMA CommitChanges ==
  ASSUME IInv, NEW rc \in Status,
         \/ Flush(rc) \/ ReadTemp(rc) \/ StatDest(rc) \/ Rename(rc) \/ ReadFinal(rc)
  PROVE  /\ phase # "ready"
         /\ \A n \in Names : disk'[n] = disk[n] \/ ~Present(n)
         /\ state' = "COMMITTED" => ReceiptTrue'
         /\ UNCHANGED <<final, digest>>
<1>1. /\ temp \notin Names /\ DOMAIN disk = Names \cup Temps
      /\ phase # "ready" => state = "VERIFYING"
  BY TempIsNoName DEF IInv, SessionInv
<1>2. CASE Flush(rc)
  BY <1>1, <1>2 DEF Flush, IoFail
<1>3. CASE ReadTemp(rc)
  BY <1>1, <1>3 DEF ReadTemp, IoFail
<1>4. CASE StatDest(rc)
  BY <1>1, <1>4 DEF StatDest, session
<1>5. CASE Rename(rc)
  BY <1>1, <1>5 DEF Rename, LinkedTwice, Present, IoFail
<1>6. CASE ReadFinal(rc)
  <2>1. UNCHANGED <<final, digest, length, disk>> /\ phase # "ready"
    BY <1>6 DEF ReadFinal, session
  <2>2. ASSUME state' = "COMMITTED" PROVE ReceiptTrue
    <3>1. Readback(disk[final], length, digest, "OK")
      BY <1>1, <1>6, <2>2 DEF ReadFinal, IoFail
    <3>2. final \in Names /\ digest \in Contents
      BY <1>6 DEF ReadFinal, IInv, SessionInv
    <3> QED BY <3>1, <3>2 DEF Readback, IoStatus, ReceiptTrue
  <2> QED BY <2>1, <2>2 DEF ReceiptTrue
<1> QED BY <1>2, <1>3, <1>4, <1>5, <1>6

LEMMA ResetChanges ==
  ASSUME IInv, Reset
  PROVE  /\ \A n \in Names : disk'[n] = disk[n] \/ ~Present(n)
         /\ state' = "NO_MEDIA" /\ phase' = "ready"
<1>1. temp \notin Names /\ DOMAIN disk = Names \cup Temps
  BY TempIsNoName DEF IInv
<1>2. CASE disk' = disk \/ \E x : disk' = [disk EXCEPT ![temp] = x]
  BY <1>1, <1>2 DEF Reset, BootValues
<1>3. CASE ~Present(final) /\ disk' = LinkedTwice
  BY <1>1, <1>3 DEF Reset, BootValues, LinkedTwice, Present
<1> QED BY <1>2, <1>3 DEF Reset, AfterPowerLoss

LEMMA StallChanges ==
  ASSUME IInv, Stalled
  PROVE  /\ \A n \in Names : disk'[n] = disk[n]
         /\ phase = "ready" /\ phase' = "ready" /\ state' # "COMMITTED"
<1>1. temp \notin Names /\ DOMAIN disk = Names \cup Temps
  BY TempIsNoName DEF IInv
<1>2. CASE Silence
  BY <1>2 DEF Silence, session
<1>3. CASE StallAbort
  BY <1>1, <1>3 DEF StallAbort, DropTransaction, Unlinked, Refuse, IoFail, IoStatus
<1> QED BY <1>2, <1>3 DEF Stalled
---------------------------------------------------------------------------
(* The client's script *)

\* Which requests a command makes, and what it may have printed meanwhile.
Scripted ==
  /\ step # "off" => files # 0 /\ report \notin {"VERIFIED", "REMOVED"}
  /\ Waiting /\ job.cmd # "upload" => step \in {"hello", job.cmd}
  /\ step = "done" => job.cmd = "upload" /\ report \in {"SKIPPED", "COMMITTED"}

\* The requests before BEGIN.
Early == {"hello", "list", "verify", "remove"}

\* The next request, after the answer a.
Follows(a) ==
  /\ \E off \in Nat : off <= Len(job.data) /\ Then(step', off)
  /\ step' \in Steps \ {"off", "done"}
  /\ step' \in Early => step \in Early
  /\ job.cmd # "upload" => step' = job.cmd
  /\ step' = "remove" /\ job.cmd = "upload" => step = "verify" /\ a.status = "DIGEST"
  /\ step' \in {"write", "commit"} =>
       step \in {"begin", "write"} /\ (step = "begin" => a.status = "OK")

\* The end of a file or of the command, and what is printed for the answer a.
Ends(a) ==
  /\ toDevice' = toDevice
  /\ \/ step' = "off" /\ report' \in {"error", "RELEASED", "ABORTED"}
     \/ /\ step' = "off" /\ job.cmd = step /\ a.status = "OK"
        /\ \/ step = "verify" /\ report' = "VERIFIED"
           \/ step = "remove" /\ report' = "REMOVED"
     \/ /\ step' = "done" /\ job.cmd = "upload" /\ a.status = "OK"
        /\ \/ step = "verify" /\ report' = "SKIPPED"
           \/ step = "commit" /\ report' = "COMMITTED" /\ ReceiptMatches(a)

LEMMA UploadAnswers ==
  ASSUME ClientInv, Waiting, job.cmd = "upload", NEW a, a.status = "OK", OnUploadAnswer(a)
  PROVE  Follows(a) \/ Ends(a)
<1> DEFINE next == acked + Len(Chunk(job.data, acked))
           after == IF next = Len(job.data) THEN "commit" ELSE "write"
<1>1. /\ job.data \in Contents /\ Len(job.data) \in Nat
      /\ acked \in Nat /\ acked <= Len(job.data)
  BY JobData DEF ClientInv, ClientTypes, Jobs
<1>2. next \in Nat /\ next <= Len(job.data)
  BY <1>1, ChunkFits
<1> HIDE DEF next
<1>3. ASSUME NEW s \in Steps \ {"off", "done"}, NEW off \in {0, acked, next}, Then(s, off),
             s \in Early => step \in Early,
             s # "remove",
             s \in {"write", "commit"} => step \in {"begin", "write"}
      PROVE  Follows(a)
  <2>1. step' = s /\ off \in Nat /\ off <= Len(job.data)
    BY <1>1, <1>2, <1>3 DEF Then, Ask
  <2> QED BY <1>3, <2>1 DEF Follows
<1>4. CASE step = "hello" /\ Then("list", 0)
  BY <1>3, <1>4 DEF Steps, Early
<1>5. CASE step = "list" /\ Then(FirstFor(job.name \in a.entries), 0)
  BY <1>3, <1>5 DEF FirstFor, Steps, Commands, Early
<1>6. CASE step = "verify" /\ Say("done", "SKIPPED")
  BY <1>6 DEF Say, Ends
<1>7. CASE step = "remove" /\ Then("begin", 0)
  BY <1>3, <1>7 DEF Steps, Early
<1>8. CASE step = "begin" /\ Then(IF job.data = <<>> THEN "commit" ELSE "write", 0)
  BY <1>3, <1>8 DEF Steps, Early
<1>9. CASE /\ step = "write"
           /\ IF a.offset # next THEN Then("abort", acked) ELSE Then(after, next)
  BY <1>3, <1>9 DEF Steps, Commands, Early
<1>10. CASE /\ step = "commit"
            /\ IF ReceiptMatches(a) THEN Say("done", "COMMITTED") ELSE Fail
  BY <1>10 DEF Fail, Say, Ends
<1>11. CASE (step = "abort" /\ Fail) \/ (step = "release" /\ Say("off", "RELEASED"))
  BY <1>11 DEF Fail, Say, Ends
<1> QED
  BY <1>4, <1>5, <1>6, <1>7, <1>8, <1>9, <1>10, <1>11 DEF OnUploadAnswer, next

LEMMA Receives ==
  ASSUME ClientInv, Scripted, Receive
  PROVE  /\ Head(toHost) \in Items(toHost)
         /\ Items(toHost') \subseteq Items(toHost)
         /\ Len(toHost) <= 1 => toHost' = <<>>
         /\ Follows(Head(toHost)) \/ Ends(Head(toHost))
<1> DEFINE a == Head(toHost)
<1>1. a \in Items(toHost)
  BY SomethingIn DEF Receive, ClientInv, LineTypes
<1>2. Items(toHost') \subseteq Items(toHost) /\ (Len(toHost) <= 1 => toHost' = <<>>)
  BY RestKeeps DEF Receive, ClientInv, LineTypes
<1>3. 0 \in Nat /\ 0 <= Len(job.data)
  BY JobData DEF ClientInv, ClientTypes, Jobs
<1>4. CASE a.status # "OK"
  <2>1. OnError(a)
    BY <1>4 DEF Receive
  <2>2. CASE step = "verify" /\ job.cmd = "upload" /\ a.status = "DIGEST"
    <3>1. Then("remove", 0) /\ step' = "remove"
      BY <2>1, <2>2 DEF OnError, Then, Ask
    <3> QED BY <1>1, <1>2, <1>3, <2>2, <3>1 DEF Follows, Steps, Commands, Early
  <2>3. CASE Fail
    <3>1. toDevice' = toDevice /\ step' = "off" /\ report' = "error"
      BY <2>3 DEF Fail, Say
    <3> QED BY <1>1, <1>2, <3>1 DEF Ends
  <2> QED BY <2>1, <2>2, <2>3 DEF OnError
<1>5. CASE a.status = "OK" /\ job.cmd = "upload"
  BY <1>1, <1>2, <1>5, UploadAnswers DEF Receive
<1>6. CASE a.status = "OK" /\ job.cmd # "upload"
  <2>1. OnCommandAnswer /\ step \in {"hello", job.cmd} /\ job.cmd \in Commands
    BY <1>6 DEF Receive, Scripted, ClientInv, ClientTypes, Jobs
  <2>2. CASE step = "hello"
    <3>1. Then(job.cmd, 0) /\ step' = job.cmd
      BY <2>1, <2>2 DEF OnCommandAnswer, Then, Ask
    <3> QED BY <1>1, <1>2, <1>3, <1>6, <2>1, <2>2, <3>1 DEF Follows, Steps, Commands, Early
  <2>3. CASE step # "hello"
    <3>1. step = job.cmd /\ step \in {"verify", "remove", "release", "abort"}
      BY <1>6, <2>1, <2>3 DEF Commands
    <3>2. toDevice' = toDevice /\ step' = "off"
          /\ report' = CASE step = "verify"  -> "VERIFIED"
                         [] step = "remove"  -> "REMOVED"
                         [] step = "release" -> "RELEASED"
                         [] step = "abort"   -> "ABORTED"
      BY <2>1, <2>3 DEF OnCommandAnswer, Say
    <3> QED BY <1>1, <1>2, <1>6, <3>1, <3>2 DEF Ends
  <2> QED BY <2>2, <2>3
<1> QED BY <1>4, <1>5, <1>6

LEMMA ScriptedStep ==
  ASSUME ClientInv, Scripted, [SessionNext]_svars
  PROVE  Scripted'
<1>1. CASE \E jb \in Calls : StartCommand(jb)
  BY <1>1 DEF StartCommand, Scripted, Waiting
<1>2. CASE Timeout
  BY <1>2 DEF Timeout, Ask, Scripted, Waiting
<1>3. CASE Receive
  <2>1. job' = job /\ files' = files /\ Waiting
    BY <1>3 DEF Receive
  <2>2. CASE Follows(Head(toHost))
    BY <2>1, <2>2 DEF Follows, Then, Ask, Scripted, Waiting
  <2>3. CASE Ends(Head(toHost))
    BY <2>1, <2>3 DEF Ends, Scripted, Waiting
  <2> QED BY <1>3, <2>2, <2>3, Receives
<1>4. CASE NextFile
  <2>1. step = "done" /\ job.cmd = "upload" /\ job \in Jobs
    BY <1>4 DEF NextFile, Scripted, ClientInv, ClientTypes
  <2>2. job'.cmd = "upload"
    BY <1>4, <2>1 DEF NextFile, Jobs
  <2>3. files \in Nat
    BY SessionAssumption DEF ClientInv, ClientTypes
  <2>4. CASE files' = files + 1 /\ Ask("list", job', 0) /\ report' = "none"
    BY <2>2, <2>3, <2>4 DEF Ask, Scripted, Waiting
  <2>5. CASE (Then("release", acked) \/ Say("off", report)) /\ UNCHANGED files
    BY <1>4, <2>1, <2>2, <2>5 DEF Then, Say, Ask, Scripted, Waiting
  <2> QED BY <1>4, <2>4, <2>5 DEF NextFile
<1>5. CASE Quit
  BY <1>5 DEF Quit, Scripted, Waiting
<1>6. CASE Board \/ Stalled \/ UNCHANGED svars
  BY <1>6 DEF Board, Serve, Committing, Stalled, host, svars, Scripted, Waiting
<1> QED BY <1>1, <1>2, <1>3, <1>4, <1>5, <1>6 DEF SessionNext, Client
---------------------------------------------------------------------------
(* The first file of a command, however late or doubled its answers *)

AboutFile == \A m \in Items(toDevice) : m.name = job.name /\ m.data = job.data
NoRemoves == \A m \in Items(toDevice) : m.op # "remove"
NoCommits == \A m \in Items(toDevice) : m.op # "commit"

\* A transaction is being committed, is committed, or was when it answered.
PastBegin ==
  phase # "ready" \/ state = "COMMITTED" \/ \E a \in Items(toHost) : a.state = "COMMITTED"

\* The answers that Client.upload can take for its receipt.
Receipt(a) == a.status = "OK" /\ a.state = "COMMITTED" /\ a.name # None
Holds(a)   == a.name \in Names /\ a.data \in Contents /\ disk[a.name] = a.data

\* What makes a receipt true when it is read: it was when it was given, and
\* every REMOVE was served before the COMMIT.
FirstInv ==
  files = 1 =>
    /\ AboutFile
    /\ RemovesFirst(toDevice)
    /\ step \in Early => ~PastBegin /\ NoCommits
    /\ PastBegin => NoRemoves
    /\ state = "COMMITTED" => ReceiptTrue
    /\ \A a \in Items(toHost) : Receipt(a) => Holds(a)
    /\ step = "done" /\ report = "COMMITTED" => OnCard /\ NoRemoves

\* What makes a REMOVE right when it is served: an upload sends it only when
\* the file on the card was another one, and it stays another one until a
\* COMMIT is served.
FirstClob ==
  files = 1 /\ job.cmd = "upload" /\ NoMisread =>
    /\ step = "remove" \/ ~NoRemoves => ~OnCard
    /\ step \in Early => \A a \in Items(toHost) : a.status = "DIGEST" => ~OnCard

SInv == IInv /\ ClientInv /\ Scripted /\ FirstInv /\ FirstClob

LEMMA JobTyped ==
  ASSUME ClientInv
  PROVE  job.name \in Names /\ job.data \in Contents /\ job.name # None
         /\ job.data # Absent
  BY StorageAssumption DEF ClientInv, ClientTypes, Jobs

LEMMA HoldsKept ==
  ASSUME NEW a, Holds(a),
         \A n \in Names : disk'[n] = disk[n] \/ ~Present(n)
  PROVE  a.name \in Names /\ a.data \in Contents /\ disk'[a.name] = a.data
  BY StorageAssumption DEF Holds, Present

LEMMA OnCardKept ==
  ASSUME ClientInv, OnCard, job' = job,
         \A n \in Names : disk'[n] = disk[n] \/ ~Present(n)
  PROVE  OnCard'
  BY JobTyped, StorageAssumption DEF OnCard, Present

LEMMA StartFirst ==
  ASSUME SInv, NEW jb \in Calls, StartCommand(jb)
  PROVE  FirstInv' /\ FirstClob'
<1> DEFINE m == [op |-> "hello", name |-> jb.name, data |-> jb.data, off |-> 0]
<1>1. jb \in Jobs /\ 0 \in Nat /\ 0 <= Len(jb.data)
  BY JobData DEF Calls, Jobs
<1>2. m \in Frames
  BY <1>1, FrameTyped DEF Steps
<1>3. <<>> \in Seq(Frames) /\ RemovesFirst(<<>>)
  BY EmptySeq DEF RemovesFirst
<1>4. Items(toDevice') \subseteq {m} /\ RemovesFirst(toDevice') /\ Items(toHost') = {}
  <2>1. toDevice' \in Sent(<<>>, m) /\ toHost' = <<>> /\ m.op # "remove"
    BY DEF StartCommand
  <2> HIDE DEF m
  <2>2. Items(toDevice') \subseteq {m}
    BY <1>2, <1>3, <2>1, SentAdds, NothingIn
  <2>3. RemovesFirst(toDevice')
    BY <1>2, <1>3, <2>1, SentInOrder
  <2> QED BY <2>1, <2>2, <2>3, NothingIn
<1>5. state' = "NO_MEDIA" /\ phase' = "ready" /\ step' = "hello" /\ job' = jb
  BY ResetChanges DEF StartCommand, SInv
<1> QED
  BY <1>4, <1>5
  DEF FirstInv, FirstClob, AboutFile, NoRemoves, NoCommits, PastBegin

\* The board's side: requests about one file, none of them a late REMOVE.
LEMMA HandleFirst ==
  ASSUME SInv, Serve, NEW rc \in Status, NEW shown \in SUBSET Names,
         Handle(Head(toDevice), rc),
         toHost' \in Sent(toHost, Answer(Head(toDevice), rc, shown))
  PROVE  FirstInv' /\ FirstClob'
<1> DEFINE r   == Head(toDevice)
           ans == Answer(r, rc, shown)
<1>1. /\ toDevice \in Seq(Frames) /\ toHost \in Seq(Answers) /\ toDevice # <<>>
      /\ toDevice' = Tail(toDevice) /\ UNCHANGED host
  BY DEF Serve, SInv, ClientInv, LineTypes
<1>2. r \in Items(toDevice) /\ r \in Frames
  BY <1>1, SomethingIn, HeadTailProperties
<1>3. Items(toDevice') \subseteq Items(toDevice)
  BY <1>1, TailKeeps
<1>4. HandlerFacts(r, rc) /\ AnswerFacts(r, rc)
  BY <1>2, HandlerChanges, HandlerAnswers DEF SInv
<1>5. ans \in Answers
  <2>1. IInv'
    BY ServeInv DEF SInv
  <2> QED BY <1>2, <2>1, AnswerTyped DEF SInv, IInv
<1>6. Items(toHost') \subseteq Items(toHost) \cup {ans}
  BY <1>1, <1>5, SentAdds
<1>7. /\ ans.status = rc /\ ans.state = state'
      /\ rc = "OK" /\ r.op \in {"begin", "verify"} => ans.name = r.name /\ ans.data = r.data
      /\ rc = "OK" /\ r.op = "commit" => ans.name = final /\ ans.data = digest
      /\ ~(rc = "OK" /\ r.op \in {"begin", "verify", "commit"}) => ans.name = None
  BY DEF Answer
<1> HIDE DEF ans, r
<1>8. ASSUME files = 1 PROVE FirstInv'
  <2> USE <1>8
  <2>1. AboutFile' /\ RemovesFirst(toDevice')
    BY <1>1, <1>3, TailInOrder DEF host, SInv, FirstInv, AboutFile
  <2>2. step' \in Early => ~PastBegin' /\ NoCommits'
    BY <1>1, <1>3, <1>4, <1>6, <1>7
    DEF host, SInv, FirstInv, NoCommits, PastBegin, HandlerFacts
  <2>3. PastBegin' => PastBegin
    BY <1>4, <1>6, <1>7 DEF PastBegin, HandlerFacts
  <2>4. PastBegin' => NoRemoves'
    BY <1>3, <2>3 DEF SInv, FirstInv, NoRemoves
  <2>5. PastBegin' => \A n \in Names : disk'[n] = disk[n]
    BY <1>2, <1>4, <2>3 DEF SInv, FirstInv, NoRemoves, HandlerFacts
  <2>6. state' = "COMMITTED" => ReceiptTrue'
    BY <1>4, <2>5 DEF SInv, FirstInv, HandlerFacts, ReceiptTrue, PastBegin
  <2>7. ASSUME NEW a \in Items(toHost'), Receipt(a)
        PROVE  a.name \in Names /\ a.data \in Contents /\ disk'[a.name] = a.data
    <3>1. PastBegin' /\ \A n \in Names : disk'[n] = disk[n]
      BY <2>5, <2>7 DEF Receipt, PastBegin
    <3>2. CASE a \in Items(toHost)
      BY <2>7, <3>1, <3>2 DEF SInv, FirstInv, Holds
    <3>3. CASE a = ans
      <4>1. rc = "OK" /\ state' = "COMMITTED" /\ r.op \in {"verify", "commit"}
        BY <1>4, <1>7, <2>7, <3>3 DEF Receipt, AnswerFacts
      <4>2. CASE r.op = "verify"
        <5>1. disk[r.name] = r.data /\ r.name \in Names /\ r.data \in Contents
          BY <1>2, <1>4, <4>1, <4>2 DEF AnswerFacts, Frames
        <5> QED BY <1>7, <3>1, <3>3, <4>1, <4>2, <5>1
      <4>3. CASE r.op = "commit"
        <5>1. ReceiptTrue
          BY <1>4, <4>1, <1>8 DEF HandlerFacts, SInv, FirstInv
        <5> QED BY <1>7, <3>1, <3>3, <4>1, <4>3, <5>1 DEF ReceiptTrue
      <4> QED BY <4>1, <4>2, <4>3
    <3> QED BY <1>6, <3>2, <3>3
  <2>8. step' = "done" /\ report' = "COMMITTED" => OnCard' /\ NoRemoves'
    <3> SUFFICES ASSUME step = "done", report = "COMMITTED" PROVE OnCard' /\ NoRemoves'
      BY <1>1 DEF host
    <3>1. OnCard /\ NoRemoves
      BY DEF SInv, FirstInv
    <3>2. \A n \in Names : disk'[n] = disk[n]
      BY <1>2, <1>4, <3>1 DEF NoRemoves, HandlerFacts
    <3> QED BY <1>1, <1>3, <3>1, <3>2, JobTyped DEF host, OnCard, NoRemoves, SInv
  <2>9. \A a \in Items(toHost') : (Receipt(a) => Holds(a))'
    BY <2>7 DEF Receipt, Holds
  <2> QED BY <2>1, <2>2, <2>4, <2>6, <2>8, <2>9, Zenon DEF FirstInv
<1>9. ASSUME files = 1, job.cmd = "upload", NoMisread PROVE FirstClob'
  <2>1. ~OnCard => ~OnCard'
    BY <1>1, <1>4, JobTyped DEF host, HandlerFacts, OnCard, SInv
  <2>2. step' = "remove" \/ ~NoRemoves' => ~OnCard'
    BY <1>1, <1>3, <1>9, <2>1 DEF host, SInv, FirstClob, NoRemoves
  <2>3. ASSUME step \in Early, NEW a \in Items(toHost'), a.status = "DIGEST"
        PROVE  ~OnCard'
    <3>1. CASE a \in Items(toHost)
      BY <1>9, <2>1, <2>3, <3>1 DEF SInv, FirstClob
    <3>2. CASE a = ans
      <4>1. disk[r.name] # r.data
        BY <1>4, <1>7, <1>9, <2>3, <3>2 DEF AnswerFacts
      <4>2. r.name = job.name /\ r.data = job.data
        BY <1>2, <1>9 DEF SInv, FirstInv, AboutFile
      <4> QED BY <2>1, <4>1, <4>2 DEF OnCard
    <3> QED BY <1>6, <2>3, <3>1, <3>2
  <2> QED BY <1>1, <2>2, <2>3 DEF host, FirstClob
<1>10. files' = files /\ job' = job
  BY <1>1 DEF host
<1> QED BY <1>8, <1>9, <1>10 DEF FirstInv, FirstClob
LEMMA CommitStartFirst ==
  ASSUME SInv, Serve, Head(toDevice).op = "commit", CommitStart, UNCHANGED toHost
  PROVE  FirstInv' /\ FirstClob'
<1>1. /\ toDevice \in Seq(Frames) /\ toDevice # <<>> /\ toDevice' = Tail(toDevice)
      /\ UNCHANGED host
  BY DEF Serve, SInv, ClientInv, LineTypes
<1>2. Head(toDevice) \in Items(toDevice) /\ Items(toDevice') \subseteq Items(toDevice)
  BY <1>1, SomethingIn, TailKeeps
<1>3. disk' = disk /\ state' = "VERIFYING" /\ job' = job /\ files' = files /\ step' = step
      /\ report' = report
  BY <1>1 DEF CommitStart, host
<1> SUFFICES ASSUME files = 1 PROVE FirstInv' /\ FirstClob'
  BY <1>3 DEF FirstInv, FirstClob
<1>4. NoRemoves' /\ RemovesFirst(toDevice')
  BY <1>1, TailInOrder DEF SInv, FirstInv, NoRemoves
<1>5. step \notin Early
  BY <1>2 DEF SInv, FirstInv, NoCommits
<1>6. \A a \in Items(toHost') : (Receipt(a) => Holds(a))'
  BY <1>3 DEF SInv, FirstInv, Receipt, Holds
<1>7. FirstInv'
  BY <1>2, <1>3, <1>4, <1>5, <1>6 DEF SInv, FirstInv, AboutFile, OnCard
<1>8. FirstClob'
  BY <1>3, <1>4, <1>5 DEF FirstClob, Early
<1> QED BY <1>7, <1>8

LEMMA CommittingFirst ==
  ASSUME SInv, Committing
  PROVE  FirstInv' /\ FirstClob'
<1>1. PICK rc \in Status :
        /\ \/ Flush(rc) \/ ReadTemp(rc) \/ StatDest(rc) \/ Rename(rc) \/ ReadFinal(rc)
        /\ IF phase' = "ready"
           THEN toHost' \in Sent(toHost, Answer([op |-> "commit"], rc, {}))
           ELSE UNCHANGED toHost
  BY DEF Committing
<1> DEFINE ans == Answer([op |-> "commit"], rc, {})
<1>2. /\ phase # "ready"
      /\ \A n \in Names : disk'[n] = disk[n] \/ ~Present(n)
      /\ state' = "COMMITTED" => ReceiptTrue'
      /\ UNCHANGED <<final, digest>>
  BY <1>1, CommitChanges DEF SInv
<1>3. /\ toDevice' = toDevice /\ job' = job /\ files' = files /\ step' = step
      /\ report' = report
  BY DEF Committing, host
<1>4. ans \in Answers
  <2>1. IInv'
    BY CommittingInv DEF SInv
  <2> QED BY <2>1, AnswerTyped DEF SInv, IInv
<1>5. Items(toHost') \subseteq Items(toHost) \cup {ans}
  BY <1>1, <1>4, SentAdds DEF SInv, ClientInv, LineTypes
<1>6. /\ ans.status = rc /\ ans.state = state'
      /\ rc = "OK" => ans.name = final /\ ans.data = digest
      /\ rc # "OK" => ans.name = None
  BY DEF Answer
<1> HIDE DEF ans
<1> SUFFICES ASSUME files = 1 PROVE FirstInv' /\ FirstClob'
  BY <1>3 DEF FirstInv, FirstClob
<1>7. NoRemoves /\ NoRemoves' /\ step \notin Early
  BY <1>2, <1>3 DEF SInv, FirstInv, PastBegin, NoRemoves
<1>8. ASSUME NEW a \in Items(toHost'), Receipt(a)
      PROVE  a.name \in Names /\ a.data \in Contents /\ disk'[a.name] = a.data
  <2>1. CASE a \in Items(toHost)
    BY <1>2, <1>8, <2>1, HoldsKept DEF SInv, FirstInv
  <2>2. CASE a = ans
    BY <1>2, <1>6, <1>8, <2>2 DEF Receipt, ReceiptTrue
  <2> QED BY <1>5, <2>1, <2>2
<1>9. \A a \in Items(toHost') : (Receipt(a) => Holds(a))'
  BY <1>8 DEF Receipt, Holds
<1>10. OnCard => OnCard'
  BY <1>2, <1>3, OnCardKept DEF SInv
<1>11. FirstInv'
  BY <1>2, <1>3, <1>7, <1>9, <1>10 DEF SInv, FirstInv, AboutFile
<1>12. FirstClob'
  BY <1>3, <1>7 DEF FirstClob, Early
<1> QED BY <1>11, <1>12

LEMMA StalledFirst ==
  ASSUME SInv, Stalled
  PROVE  FirstInv' /\ FirstClob'
<1>1. /\ toDevice' = toDevice /\ toDevice = <<>> /\ toHost' = toHost /\ job' = job
      /\ UNCHANGED <<files, step, report>>
  BY DEF Stalled, host
<1>2. /\ \A n \in Names : disk'[n] = disk[n]
      /\ phase = "ready" /\ phase' = "ready" /\ state' # "COMMITTED"
  BY StallChanges DEF SInv
<1>3. NoRemoves' /\ AboutFile' /\ RemovesFirst(toDevice')
  BY <1>1, NothingIn, EmptySeq DEF NoRemoves, AboutFile, RemovesFirst
<1>4. files = 1 => \A a \in Items(toHost') : (Receipt(a) => Holds(a))'
  BY <1>1, <1>2 DEF SInv, FirstInv, Receipt, Holds
<1>5. disk'[job.name] = disk[job.name] /\ NoCommits'
  BY <1>1, <1>2, JobTyped, NothingIn DEF SInv, NoCommits
<1>6. FirstInv'
  <2>1. files = 1 /\ step \in Early => ~PastBegin'
    BY <1>1, <1>2 DEF SInv, FirstInv, PastBegin
  <2> QED BY <1>1, <1>2, <1>3, <1>4, <1>5, <2>1 DEF SInv, FirstInv, OnCard
<1>7. FirstClob'
  BY <1>1, <1>3, <1>5 DEF SInv, FirstClob, OnCard, NoMisread
<1> QED BY <1>6, <1>7
\* The client's requests are about its file, and it sends neither a REMOVE
\* after BEGIN nor a COMMIT before it.
LEMMA AskFirst ==
  ASSUME SInv, files = 1, NEW s \in Steps, NEW off \in Nat, off <= Len(job.data),
         Ask(s, job, off), job' = job,
         s = "remove" => step \in Early
  PROVE  /\ AboutFile' /\ RemovesFirst(toDevice')
         /\ s # "remove" /\ NoRemoves => NoRemoves'
         /\ s # "commit" /\ NoCommits => NoCommits'
<1> DEFINE m == [op |-> s, name |-> job.name, data |-> job.data, off |-> off]
<1>1. m \in Frames
  BY FrameTyped DEF SInv, ClientInv, ClientTypes
<1>2. toDevice' \in Sent(toDevice, m) /\ toDevice \in Seq(Frames)
  BY DEF Ask, SInv, ClientInv, LineTypes
<1>3. m.op = s /\ m.name = job.name /\ m.data = job.data
  OBVIOUS
<1> HIDE DEF m
<1>4. Items(toDevice') \subseteq Items(toDevice) \cup {m}
  BY <1>1, <1>2, SentAdds
<1>5. RemovesFirst(toDevice')
  BY <1>1, <1>2, <1>3, SentInOrder DEF SInv, FirstInv, NoCommits
<1> QED BY <1>3, <1>4, <1>5 DEF SInv, FirstInv, AboutFile, NoRemoves, NoCommits

LEMMA TimeoutFirst ==
  ASSUME SInv, Timeout
  PROVE  FirstInv' /\ FirstClob'
<1>1. /\ UNCHANGED vars /\ job' = job /\ files' = files /\ toHost' = toHost
      /\ Waiting
  BY DEF Timeout
<1>2. PastBegin' = PastBegin /\ ReceiptTrue' = ReceiptTrue /\ OnCard' = OnCard
      /\ state' = state /\ (\A a \in Items(toHost) : Holds(a)' = Holds(a))
  BY <1>1 DEF PastBegin, ReceiptTrue, OnCard, Holds, vars, session
<1> SUFFICES ASSUME files = 1 PROVE FirstInv' /\ FirstClob'
  BY <1>1 DEF FirstInv, FirstClob
<1>3. CASE step' = "off" /\ toDevice' = toDevice
  BY <1>1, <1>2, <1>3
  DEF SInv, FirstInv, FirstClob, AboutFile, NoRemoves, NoCommits, Early, Receipt
<1>4. CASE Ask(step, job, acked) /\ report' = report
  <2>1. step \in Steps /\ acked \in Nat /\ acked <= Len(job.data) /\ step' = step
    BY <1>4 DEF SInv, ClientInv, ClientTypes, Ask
  <2>2. /\ AboutFile' /\ RemovesFirst(toDevice')
        /\ step # "remove" /\ NoRemoves => NoRemoves'
        /\ step # "commit" /\ NoCommits => NoCommits'
    BY <1>1, <1>4, <2>1, AskFirst DEF Early
  <2>3. step # "done"
    BY <1>1 DEF Waiting
  <2> QED
    BY <1>1, <1>2, <2>1, <2>2, <2>3 DEF SInv, FirstInv, FirstClob, Early, Receipt
<1> QED BY <1>3, <1>4 DEF Timeout

LEMMA ReceiveFirst ==
  ASSUME SInv, Receive
  PROVE  FirstInv' /\ FirstClob'
<1> DEFINE a == Head(toHost)
<1>1. /\ UNCHANGED vars /\ job' = job /\ files' = files /\ Waiting
  BY DEF Receive
<1>2. /\ a \in Items(toHost) /\ Items(toHost') \subseteq Items(toHost)
      /\ Follows(a) \/ Ends(a)
  BY Receives DEF SInv
<1> HIDE DEF a
<1>3. /\ PastBegin' => PastBegin
      /\ ReceiptTrue' = ReceiptTrue /\ OnCard' = OnCard
      /\ \A x \in Items(toHost) : Holds(x)' = Holds(x)
  BY <1>1, <1>2 DEF PastBegin, ReceiptTrue, OnCard, Holds, vars, session
<1> SUFFICES ASSUME files = 1 PROVE FirstInv' /\ FirstClob'
  BY <1>1 DEF FirstInv, FirstClob
<1>4. CASE Ends(a)
  <2>1. toDevice' = toDevice /\ step' \in {"off", "done"}
    BY <1>4 DEF Ends
  <2>2. step' = "done" /\ report' = "COMMITTED" => Receipt(a) /\ ReceiptMatches(a)
    BY <1>4, JobTyped DEF Ends, Receipt, ReceiptMatches, SInv
  <2>3. step' = "done" /\ report' = "COMMITTED" => OnCard /\ NoRemoves
    BY <1>2, <2>2 DEF SInv, FirstInv, PastBegin, Receipt, Holds, ReceiptMatches, OnCard
  <2>4. state' = state
    BY <1>1 DEF vars
  <2> QED
    BY <1>1, <1>2, <1>3, <2>1, <2>3, <2>4
    DEF SInv, FirstInv, FirstClob, AboutFile, NoRemoves, Early, Receipt
<1>5. CASE Follows(a)
  <2>1. PICK off \in Nat : off <= Len(job.data) /\ Then(step', off)
    BY <1>5 DEF Follows
  <2>2. /\ step' \in Steps \ {"off", "done"}
        /\ step' \in Early => step \in Early
        /\ step' \in {"write", "commit"} => step \in {"begin", "write"}
    BY <1>5 DEF Follows
  <2>3. Ask(step', job, off)
    BY <2>1 DEF Then
  <2>4. /\ AboutFile' /\ RemovesFirst(toDevice')
        /\ step' # "remove" /\ NoRemoves => NoRemoves'
        /\ step' # "commit" /\ NoCommits => NoCommits'
    BY <1>1, <2>1, <2>2, <2>3, AskFirst DEF Early
  <2>5. step' = "remove" => ~PastBegin
    BY <2>2 DEF SInv, FirstInv, Early
  <2>6. FirstInv'
    BY <1>1, <1>2, <1>3, <2>2, <2>4, <2>5
    DEF SInv, FirstInv, Early, Receipt, vars
  <2>7. step' = "remove" /\ job.cmd = "upload" /\ NoMisread => ~OnCard
    BY <1>2, <1>5 DEF Follows, SInv, FirstClob, Early
  <2>8. FirstClob'
    BY <1>1, <1>2, <1>3, <2>2, <2>4, <2>7 DEF SInv, FirstClob
  <2> QED BY <2>6, <2>8
<1> QED BY <1>2, <1>4, <1>5

LEMMA NextFileFirst ==
  ASSUME SInv, NextFile
  PROVE  FirstInv' /\ FirstClob'
<1>1. UNCHANGED vars /\ toHost' = toHost /\ step = "done"
  BY DEF NextFile
<1>2. files \in Nat /\ files # 0
  BY <1>1, SessionAssumption DEF SInv, ClientInv, ClientTypes, Scripted
<1>3. PastBegin' = PastBegin /\ ReceiptTrue' = ReceiptTrue
      /\ (\A a \in Items(toHost) : Holds(a)' = Holds(a))
  BY <1>1 DEF PastBegin, ReceiptTrue, Holds, vars, session
<1>4. CASE files' = files + 1
  BY <1>2, <1>4 DEF FirstInv, FirstClob
<1>5. CASE Then("release", acked) /\ UNCHANGED <<job, files>>
  <2>1. /\ Ask("release", job, acked) /\ step' = "release"
        /\ "release" \in Steps /\ acked \in Nat /\ acked <= Len(job.data)
    BY <1>5 DEF Then, Ask, SInv, ClientInv, ClientTypes, Steps, Commands
  <2> SUFFICES ASSUME files = 1 PROVE FirstInv' /\ FirstClob'
    BY <1>5 DEF FirstInv, FirstClob
  <2>2. AboutFile' /\ RemovesFirst(toDevice') /\ (NoRemoves => NoRemoves')
    BY <1>5, <2>1, AskFirst
  <2> QED
    BY <1>1, <1>3, <1>5, <2>1, <2>2
    DEF SInv, FirstInv, FirstClob, Early, Receipt, OnCard, vars
<1>6. CASE Say("off", report) /\ UNCHANGED <<job, files>>
  BY <1>1, <1>3, <1>6
  DEF Say, SInv, FirstInv, FirstClob, AboutFile, NoRemoves, Early, Receipt, OnCard, vars
<1> QED BY <1>4, <1>5, <1>6 DEF NextFile
LEMMA QuitFirst == Quit => FirstInv' /\ FirstClob'
  BY DEF Quit, FirstInv, FirstClob

LEMMA StutterFirst ==
  ASSUME SInv, UNCHANGED svars
  PROVE  FirstInv' /\ FirstClob'
<1>1. UNCHANGED <<disk, state, phase, final, digest, length, step, job, files, report,
                  toDevice, toHost>>
  BY DEF svars, vars, session, host
<1>2. /\ PastBegin' = PastBegin /\ ReceiptTrue' = ReceiptTrue /\ OnCard' = OnCard
      /\ AboutFile' = AboutFile /\ NoRemoves' = NoRemoves /\ NoCommits' = NoCommits
      /\ \A a \in Items(toHost) : Holds(a)' = Holds(a)
  BY <1>1 DEF PastBegin, ReceiptTrue, OnCard, AboutFile, NoRemoves, NoCommits, Holds
<1> QED BY <1>1, <1>2 DEF SInv, FirstInv, FirstClob, Receipt

LEMMA FirstStep == SInv /\ [SessionNext]_svars => SInv'
<1> SUFFICES ASSUME SInv, [SessionNext]_svars PROVE SInv'
  OBVIOUS
<1>1. IInv' /\ ClientInv' /\ Scripted'
  BY SessionNextInv, ScriptedStep DEF SInv
<1> SUFFICES FirstInv' /\ FirstClob'
  BY <1>1 DEF SInv
<1>2. CASE \E jb \in Calls : StartCommand(jb)
  BY <1>2, StartFirst
<1>3. CASE Serve
  <2>1. ASSUME NEW rc \in Status, NEW shown \in SUBSET {n \in Names : Present(n)},
               Handle(Head(toDevice), rc),
               toHost' \in Sent(toHost, Answer(Head(toDevice), rc, shown))
        PROVE  FirstInv' /\ FirstClob'
    BY <1>3, <2>1, HandleFirst
  <2> QED BY <1>3, <2>1, CommitStartFirst DEF Serve
<1>4. CASE Committing \/ Stalled
  BY <1>4, CommittingFirst, StalledFirst
<1>5. CASE Client \/ Quit
  BY <1>5, TimeoutFirst, ReceiveFirst, NextFileFirst, QuitFirst DEF Client
<1>6. CASE UNCHANGED svars
  BY <1>6, StutterFirst
<1> QED
  BY <1>2, <1>3, <1>4, <1>5, <1>6 DEF SessionNext, Board

LEMMA FirstInit == SessionInit => SInv
<1> SUFFICES ASSUME SessionInit PROVE SInv
  OBVIOUS
<1>1. IInv /\ ClientInv
  BY SessionInitInv
<1> QED BY <1>1 DEF SessionInit, SInv, Scripted, Waiting, FirstInv, FirstClob
---------------------------------------------------------------------------
(* A behaviour without late answers: one thing in flight *)

Quiet == toDevice = <<>> /\ toHost = <<>> /\ phase = "ready"

\* The answer is to the request that the client waits on, and true.
Fits(a) ==
  /\ a.status = "OK" =>
       /\ step = "verify" => OnCard
       /\ step = "remove" => disk[job.name] = Absent
       /\ step = "begin"  => state # "COMMITTED"
       /\ step = "commit" /\ Receipt(a) => Holds(a)
  /\ a.status = "DIGEST" /\ step = "verify" /\ NoMisread => ~OnCard

InStep ==
  /\ AboutFile
  /\ toDevice # <<>> \/ toHost # <<>> => phase = "ready"
  /\ toDevice # <<>> => toHost = <<>>
  /\ Waiting => /\ \A m \in Items(toDevice) : m.op = step
                /\ \A a \in Items(toHost) : Fits(a)
                /\ phase # "ready" => step = "commit"
  /\ step \in {"write", "commit"} /\ state = "COMMITTED" => ReceiptTrue

Printed ==
  /\ step = "done" \/ report \in {"VERIFIED", "REMOVED"} => Quiet
  /\ step = "done" => OnCard
  /\ report = "VERIFIED" => OnCard
  /\ report = "REMOVED" => disk[job.name] = Absent

PromptInv ==
  pace = "prompt" =>
    /\ Len(toDevice) <= 1 /\ Len(toHost) <= 1
    /\ InStep
    /\ Printed

PromptClob ==
  pace = "prompt" /\ job.cmd = "upload" /\ NoMisread =>
    (step = "remove" \/ ~NoRemoves => ~OnCard)

PInv == IInv /\ ClientInv /\ Scripted /\ PromptInv /\ PromptClob

\* The line is empty, and may now hold one frame about the client's file.
LEMMA AskOne ==
  ASSUME ClientInv', toDevice = <<>>, NEW s \in Steps, NEW off, Ask(s, job', off)
  PROVE  /\ Len(toDevice') <= 1 /\ AboutFile' /\ step' = s
         /\ \A m \in Items(toDevice') : m.op = s
<1> DEFINE m == [op |-> s, name |-> job'.name, data |-> job'.data, off |-> off]
<1>1. toDevice' \in {<<m>>, <<>>}
  BY DEF Ask, Sent
<1>2. m.op = s /\ m.name = job'.name /\ m.data = job'.data
  OBVIOUS
<1> HIDE DEF m
<1>3. Len(toDevice') <= 1 /\ Items(toDevice') \subseteq {m}
  BY <1>1, OneIn
<1> QED BY <1>2, <1>3 DEF AboutFile, Ask

LEMMA StartPrompt ==
  ASSUME PInv, PInv => ClientInv', NEW jb \in Calls, StartCommand(jb)
  PROVE  PromptInv' /\ PromptClob'
<1> DEFINE m == [op |-> "hello", name |-> jb.name, data |-> jb.data, off |-> 0]
<1>1. toDevice' \in {<<m>>, <<>>} /\ toHost' = <<>> /\ job' = jb
  BY DEF StartCommand, Sent
<1>2. m.op = "hello" /\ m.name = jb.name /\ m.data = jb.data
  OBVIOUS
<1> HIDE DEF m
<1>3. Len(toDevice') <= 1 /\ Items(toDevice') \subseteq {m}
      /\ Len(toHost') <= 1 /\ Items(toHost') = {}
  <2>1. Len(toDevice') <= 1 /\ Items(toDevice') \subseteq {m}
    BY <1>1, OneIn
  <2> QED BY <1>1, <2>1, NothingIn, EmptySeq
<1>4. state' = "NO_MEDIA" /\ phase' = "ready" /\ step' = "hello" /\ report' = "none"
  BY ResetChanges DEF StartCommand, PInv
<1>5. AboutFile' /\ InStep' /\ Printed'
  BY <1>1, <1>2, <1>3, <1>4 DEF AboutFile, InStep, Printed
<1>6. NoRemoves'
  BY <1>2, <1>3 DEF NoRemoves
<1> QED BY <1>3, <1>4, <1>5, <1>6 DEF PromptInv, PromptClob
LEMMA OneServed ==
  ASSUME PInv, pace = "prompt", Serve
  PROVE  /\ Head(toDevice) \in Items(toDevice) /\ Head(toDevice) \in Frames
         /\ toDevice' = <<>> /\ toHost = <<>> /\ phase = "ready"
         /\ step # "done" /\ report \notin {"VERIFIED", "REMOVED"}
<1>1. toDevice \in Seq(Frames) /\ toDevice # <<>> /\ toDevice' = Tail(toDevice)
  BY DEF Serve, PInv, ClientInv, LineTypes
<1>2. Head(toDevice) \in Items(toDevice) /\ Head(toDevice) \in Frames
      /\ toDevice' = <<>>
  BY <1>1, SomethingIn, TailKeeps, HeadTailProperties DEF PInv, PromptInv
<1> QED BY <1>1, <1>2 DEF PInv, PromptInv, InStep, Printed, Quiet

LEMMA HandlePrompt ==
  ASSUME PInv, Serve, NEW rc \in Status, NEW shown,
         Handle(Head(toDevice), rc),
         toHost' \in Sent(toHost, Answer(Head(toDevice), rc, shown))
  PROVE  PromptInv' /\ PromptClob'
<1> DEFINE r   == Head(toDevice)
           ans == Answer(r, rc, shown)
<1>1. UNCHANGED <<step, job, report, pace>>
  BY DEF Serve, host
<1> SUFFICES ASSUME pace = "prompt" PROVE PromptInv' /\ PromptClob'
  BY <1>1 DEF PromptInv, PromptClob
<1>2. /\ r \in Items(toDevice) /\ r \in Frames
      /\ toDevice' = <<>> /\ toHost = <<>> /\ phase = "ready"
      /\ step # "done" /\ report \notin {"VERIFIED", "REMOVED"}
  BY OneServed
<1>3. HandlerFacts(r, rc) /\ AnswerFacts(r, rc)
  BY <1>2, HandlerChanges, HandlerAnswers DEF PInv
<1>4. toHost' \in {<<ans>>, <<>>}
  BY <1>2 DEF Sent
<1>5. /\ ans.status = rc /\ ans.state = state'
      /\ rc = "OK" /\ r.op = "commit" => ans.name = final /\ ans.data = digest
  BY DEF Answer
<1> HIDE DEF ans, r
<1>6. Len(toHost') <= 1 /\ Items(toHost') \subseteq {ans}
      /\ Len(toDevice') <= 1 /\ Items(toDevice') = {}
  <2>1. Len(toHost') <= 1 /\ Items(toHost') \subseteq {ans}
    BY <1>4, OneIn
  <2> QED BY <1>2, <2>1, NothingIn, EmptySeq
<1>7. r.name = job.name /\ r.data = job.data /\ (Waiting => r.op = step)
  BY <1>2 DEF PInv, PromptInv, InStep, AboutFile
<1>8. step \in {"write", "commit"} /\ state' = "COMMITTED" => ReceiptTrue'
  <2> SUFFICES ASSUME step \in {"write", "commit"}, state' = "COMMITTED"
               PROVE  ReceiptTrue'
    OBVIOUS
  <2>1. ReceiptTrue /\ r.op # "remove" /\ UNCHANGED <<final, length, digest>>
    BY <1>3, <1>7 DEF PInv, PromptInv, InStep, HandlerFacts, Waiting
  <2> QED BY <1>3, <2>1 DEF ReceiptTrue, HandlerFacts
<1>9. ASSUME Waiting, NEW a, a = ans PROVE Fits(a)'
  <2>1. rc = "OK" /\ step = "verify" => OnCard'
    BY <1>1, <1>3, <1>7, <1>9, JobTyped DEF AnswerFacts, HandlerFacts, OnCard, PInv
  <2>2. rc = "OK" /\ step = "remove" => disk'[job.name] = Absent
    BY <1>3, <1>7, <1>9 DEF AnswerFacts
  <2>3. rc = "OK" /\ step = "begin" => state' # "COMMITTED"
    BY <1>3, <1>7, <1>9 DEF AnswerFacts
  <2>4. ASSUME rc = "OK", step = "commit", state' = "COMMITTED"
        PROVE  a.name \in Names /\ a.data \in Contents /\ disk'[a.name] = a.data
    <3>1. r.op = "commit" /\ ReceiptTrue' /\ UNCHANGED <<final, digest>>
      BY <1>3, <1>7, <1>8, <1>9, <2>4 DEF HandlerFacts
    <3> QED BY <1>5, <1>9, <2>4, <3>1 DEF ReceiptTrue
  <2>5. rc = "DIGEST" /\ step = "verify" /\ NoMisread => ~OnCard'
    BY <1>1, <1>3, <1>7, <1>9, JobTyped DEF AnswerFacts, HandlerFacts, OnCard, PInv
  <2> QED BY <1>1, <1>5, <1>9, <2>1, <2>2, <2>3, <2>4, <2>5 DEF Fits, Receipt, Holds
<1>10. InStep'
  <2>1. Waiting' => Waiting /\ \A a \in Items(toHost') : Fits(a)'
    BY <1>1, <1>6, <1>9 DEF Waiting
  <2> QED
    BY <1>1, <1>2, <1>3, <1>6, <1>8, <2>1 DEF InStep, AboutFile, HandlerFacts
<1>11. Printed'
  BY <1>1, <1>2 DEF Printed
<1>12. PromptClob'
  <2>1. ~OnCard => ~OnCard'
    BY <1>1, <1>3, JobTyped DEF HandlerFacts, OnCard, PInv
  <2> QED BY <1>1, <1>6, <2>1 DEF PInv, PromptClob, NoRemoves
<1> QED BY <1>6, <1>10, <1>11, <1>12 DEF PromptInv

LEMMA CommitStartPrompt ==
  ASSUME PInv, Serve, Head(toDevice).op = "commit", CommitStart, UNCHANGED toHost
  PROVE  PromptInv' /\ PromptClob'
<1>1. UNCHANGED <<step, job, report, pace, disk>> /\ state' = "VERIFYING"
  BY DEF Serve, host, CommitStart
<1> SUFFICES ASSUME pace = "prompt" PROVE PromptInv' /\ PromptClob'
  BY <1>1 DEF PromptInv, PromptClob
<1>2. /\ Head(toDevice) \in Items(toDevice)
      /\ toDevice' = <<>> /\ toHost' = <<>>
      /\ step # "done" /\ report \notin {"VERIFIED", "REMOVED"}
  BY OneServed
<1>3. Len(toDevice') <= 1 /\ Len(toHost') <= 1
      /\ Items(toDevice') = {} /\ Items(toHost') = {}
  BY <1>2, NothingIn, EmptySeq
<1>4. Waiting => step = "commit"
  BY <1>2 DEF PInv, PromptInv, InStep
<1>5. InStep' /\ Printed'
  BY <1>1, <1>2, <1>3, <1>4 DEF InStep, AboutFile, Printed, Waiting
<1>6. PromptClob'
  BY <1>1, <1>3 DEF PInv, PromptClob, NoRemoves, OnCard
<1> QED BY <1>3, <1>5, <1>6 DEF PromptInv

LEMMA CommittingPrompt ==
  ASSUME PInv, Committing
  PROVE  PromptInv' /\ PromptClob'
<1>1. PICK rc \in Status :
        /\ \/ Flush(rc) \/ ReadTemp(rc) \/ StatDest(rc) \/ Rename(rc) \/ ReadFinal(rc)
        /\ IF phase' = "ready"
           THEN toHost' \in Sent(toHost, Answer([op |-> "commit"], rc, {}))
           ELSE UNCHANGED toHost
  BY DEF Committing
<1> DEFINE ans == Answer([op |-> "commit"], rc, {})
<1>2. /\ phase # "ready"
      /\ state' = "COMMITTED" => ReceiptTrue'
      /\ UNCHANGED <<final, digest>>
  BY <1>1, CommitChanges DEF PInv
<1>3. UNCHANGED <<toDevice, step, job, report, pace>>
  BY DEF Committing, host
<1> SUFFICES ASSUME pace = "prompt" PROVE PromptInv' /\ PromptClob'
  BY <1>3 DEF PromptInv, PromptClob
<1>4. /\ toDevice = <<>> /\ toHost = <<>>
      /\ step # "done" /\ report \notin {"VERIFIED", "REMOVED"}
      /\ Waiting => step = "commit"
  BY <1>2 DEF PInv, PromptInv, InStep, Printed, Quiet
<1>5. toHost' \in {<<ans>>, <<>>} /\ (toHost' # <<>> => phase' = "ready")
  BY <1>1, <1>4 DEF Sent
<1>6. /\ ans.status = rc /\ ans.state = state'
      /\ rc = "OK" => ans.name = final /\ ans.data = digest
  BY DEF Answer
<1> HIDE DEF ans
<1>7. Len(toHost') <= 1 /\ Items(toHost') \subseteq {ans}
      /\ Len(toDevice') <= 1 /\ Items(toDevice') = {}
  <2>1. Len(toHost') <= 1 /\ Items(toHost') \subseteq {ans}
    BY <1>5, OneIn
  <2> QED BY <1>3, <1>4, <2>1, NothingIn, EmptySeq
<1>8. ASSUME step = "commit", NEW a, a = ans PROVE Fits(a)'
  <2>1. a.status = "OK" /\ a.state = "COMMITTED" =>
          a.name \in Names /\ a.data \in Contents /\ disk'[a.name] = a.data
    BY <1>2, <1>6, <1>8 DEF ReceiptTrue
  <2> QED BY <1>3, <1>6, <1>8, <2>1 DEF Fits, Receipt, Holds
<1>9. InStep' /\ Printed'
  <2>1. Waiting' => step' = "commit" /\ \A a \in Items(toHost') : Fits(a)'
    BY <1>3, <1>4, <1>7, <1>8 DEF Waiting
  <2>2. toHost' # <<>> => phase' = "ready"
    BY <1>5
  <2> QED
    BY <1>2, <1>3, <1>4, <1>7, <2>1, <2>2 DEF InStep, AboutFile, Printed
<1>10. PromptClob'
  BY <1>3, <1>4, <1>7 DEF PromptClob, NoRemoves, Waiting
<1> QED BY <1>7, <1>9, <1>10 DEF PromptInv

LEMMA StalledPrompt ==
  ASSUME PInv, Stalled
  PROVE  PromptInv' /\ PromptClob'
<1>1. UNCHANGED <<toDevice, toHost, step, job, report, pace>> /\ toDevice = <<>>
  BY DEF Stalled, host
<1>2. /\ \A n \in Names : disk'[n] = disk[n]
      /\ phase = "ready" /\ phase' = "ready" /\ state' # "COMMITTED"
  BY StallChanges DEF PInv
<1>3. disk'[job.name] = disk[job.name] /\ NoRemoves'
  BY <1>1, <1>2, JobTyped, NothingIn DEF PInv, NoRemoves
<1> SUFFICES ASSUME pace = "prompt" PROVE PromptInv' /\ PromptClob'
  BY <1>1 DEF PromptInv, PromptClob
<1>4. InStep'
  <2>1. Waiting => \A a \in Items(toHost) : Fits(a)'
    <3> SUFFICES ASSUME Waiting, NEW a \in Items(toHost) PROVE Fits(a)'
      OBVIOUS
    <3>1. Fits(a)
      BY DEF PInv, PromptInv, InStep
    <3>2. Receipt(a) /\ Holds(a) => Holds(a)'
      BY <1>2 DEF Holds
    <3> QED BY <1>1, <1>2, <1>3, <3>1, <3>2 DEF Fits, OnCard, Receipt, NoMisread
  <2> QED BY <1>1, <1>2, <2>1, NothingIn DEF InStep, AboutFile, Waiting
<1>5. Printed'
  BY <1>1, <1>2, <1>3 DEF PInv, PromptInv, Printed, Quiet, OnCard
<1>6. PromptClob'
  BY <1>1, <1>3 DEF PInv, PromptClob, OnCard, NoMisread
<1> QED BY <1>1, <1>4, <1>5, <1>6 DEF PInv, PromptInv

LEMMA TimeoutPrompt ==
  ASSUME PInv, ClientInv', Timeout
  PROVE  PromptInv' /\ PromptClob'
<1>1. UNCHANGED vars /\ UNCHANGED <<job, pace, toHost>> /\ Waiting /\ Expired
  BY DEF Timeout
<1>2. /\ UNCHANGED <<disk, state, phase>> /\ ReceiptTrue' = ReceiptTrue
      /\ OnCard' = OnCard
  BY <1>1 DEF vars, session, ReceiptTrue, OnCard
<1> SUFFICES ASSUME pace = "prompt" PROVE PromptInv' /\ PromptClob'
  BY <1>1 DEF PromptInv, PromptClob
<1>3. toDevice = <<>> /\ toHost' = <<>> /\ phase' = "ready"
  BY <1>1, <1>2 DEF Expired
<1>4. Len(toHost') <= 1 /\ Items(toHost') = {}
  BY <1>3, NothingIn, EmptySeq
<1>5. CASE step' = "off" /\ report' = "error" /\ toDevice' = toDevice
  <2>1. Len(toDevice') <= 1 /\ Items(toDevice') = {}
    BY <1>3, <1>5, NothingIn, EmptySeq
  <2> QED
    BY <1>3, <1>4, <1>5, <2>1
    DEF PromptInv, PromptClob, InStep, Printed, AboutFile, NoRemoves, Waiting
<1>6. CASE Ask(step, job, acked) /\ report' = report
  <2>1. step \in Steps /\ Ask(step, job', acked)
    BY <1>1, <1>6 DEF PInv, ClientInv, ClientTypes
  <2>2. /\ Len(toDevice') <= 1 /\ AboutFile' /\ step' = step
        /\ \A m \in Items(toDevice') : m.op = step
    BY <1>3, <2>1, AskOne
  <2>3. step # "done" /\ report' \notin {"VERIFIED", "REMOVED"}
    BY <1>1, <1>6 DEF PInv, Scripted, Waiting
  <2>4. InStep' /\ Printed'
    BY <1>2, <1>3, <1>4, <2>2, <2>3 DEF PInv, PromptInv, InStep, Printed
  <2>5. PromptClob'
    BY <1>1, <1>2, <2>2 DEF PInv, PromptClob, NoRemoves
  <2> QED BY <1>4, <2>2, <2>4, <2>5 DEF PromptInv
<1> QED BY <1>5, <1>6 DEF Timeout

LEMMA ReceivePrompt ==
  ASSUME PInv, ClientInv', Receive
  PROVE  PromptInv' /\ PromptClob'
<1> DEFINE a == Head(toHost)
<1>1. UNCHANGED vars /\ UNCHANGED <<job, pace>> /\ Waiting /\ toHost # <<>>
  BY DEF Receive
<1>2. /\ UNCHANGED <<disk, state, phase>> /\ ReceiptTrue' = ReceiptTrue
      /\ OnCard' = OnCard
  BY <1>1 DEF vars, session, ReceiptTrue, OnCard
<1> SUFFICES ASSUME pace = "prompt" PROVE PromptInv' /\ PromptClob'
  BY <1>1 DEF PromptInv, PromptClob
<1>3. /\ a \in Items(toHost) /\ toHost' = <<>>
      /\ Follows(a) \/ Ends(a)
  BY Receives DEF PInv, PromptInv
<1> HIDE DEF a
<1>4. Fits(a) /\ phase' = "ready" /\ toDevice = <<>>
  BY <1>1, <1>2, <1>3 DEF PInv, PromptInv, InStep
<1>5. Len(toHost') <= 1 /\ Items(toHost') = {}
  BY <1>3, NothingIn, EmptySeq
<1>6. CASE Ends(a)
  <2>1. /\ toDevice' = <<>> /\ Len(toDevice') <= 1 /\ Items(toDevice') = {}
        /\ step' \in {"off", "done"}
    BY <1>4, <1>6, NothingIn, EmptySeq DEF Ends
  <2>2. ASSUME step' = "off" PROVE Printed'
    BY <1>1, <1>2, <1>3, <1>4, <1>6, <2>1, <2>2 DEF Ends, Fits, Printed, Quiet
  <2>3. ASSUME step' = "done" PROVE Printed'
    <3>1. report' \in {"SKIPPED", "COMMITTED"}
      BY <1>6, <2>3 DEF Ends
    <3>2. CASE step = "verify"
      BY <1>2, <1>3, <1>4, <1>6, <2>1, <2>3, <3>1, <3>2 DEF Ends, Fits, Printed, Quiet
    <3>3. CASE step = "commit" /\ ReceiptMatches(a) /\ a.status = "OK"
      <4>1. OnCard
        BY <1>4, <3>3, JobTyped
        DEF Fits, Receipt, Holds, ReceiptMatches, OnCard, PInv
      <4> QED BY <1>2, <1>3, <1>4, <2>1, <3>1, <4>1 DEF Printed, Quiet
    <3> QED BY <1>6, <2>3, <3>2, <3>3 DEF Ends
  <2>4. InStep' /\ PromptClob'
    BY <1>3, <2>1 DEF InStep, AboutFile, PromptClob, NoRemoves, Waiting
  <2> QED BY <1>5, <2>1, <2>2, <2>3, <2>4 DEF PromptInv
<1>7. CASE Follows(a)
  <2>1. PICK off \in Nat : off <= Len(job.data) /\ Then(step', off)
    BY <1>7 DEF Follows
  <2>2. /\ step' \in Steps \ {"off", "done"}
        /\ step' \in {"write", "commit"} =>
             step \in {"begin", "write"} /\ (step = "begin" => a.status = "OK")
        /\ step' = "remove" /\ job.cmd = "upload" => step = "verify" /\ a.status = "DIGEST"
    BY <1>7 DEF Follows
  <2>3. Ask(step', job', off) /\ report' = report
    BY <1>1, <2>1 DEF Then
  <2>4. /\ Len(toDevice') <= 1 /\ AboutFile'
        /\ \A m \in Items(toDevice') : m.op = step'
    BY <1>4, <2>2, <2>3, AskOne
  <2>5. report' \notin {"VERIFIED", "REMOVED"}
    BY <1>1, <2>3 DEF PInv, Scripted, Waiting
  <2>6. step' \in {"write", "commit"} /\ state' = "COMMITTED" => ReceiptTrue'
    BY <1>2, <1>4, <2>2 DEF Fits, PInv, PromptInv, InStep
  <2>7. InStep' /\ Printed'
    BY <1>3, <1>4, <1>5, <2>2, <2>4, <2>5, <2>6 DEF InStep, Printed
  <2>8. PromptClob'
    BY <1>1, <1>2, <1>4, <2>2, <2>4 DEF PromptClob, NoRemoves, Fits
  <2> QED BY <1>5, <2>4, <2>7, <2>8 DEF PromptInv
<1> QED BY <1>3, <1>6, <1>7

LEMMA NextFilePrompt ==
  ASSUME PInv, ClientInv', NextFile
  PROVE  PromptInv' /\ PromptClob'
<1>1. UNCHANGED <<disk, phase, pace, toHost>> /\ step = "done"
  BY DEF NextFile, vars
<1> SUFFICES ASSUME pace = "prompt" PROVE PromptInv' /\ PromptClob'
  BY <1>1 DEF PromptInv, PromptClob
<1>2. Quiet /\ report \in {"SKIPPED", "COMMITTED"}
  BY <1>1 DEF PInv, PromptInv, Printed, Scripted
<1>3. toDevice = <<>> /\ toHost' = <<>> /\ phase' = "ready"
      /\ Len(toHost') <= 1 /\ Items(toHost') = {}
  BY <1>1, <1>2, NothingIn, EmptySeq DEF Quiet
<1>4. ASSUME NEW s \in {"list", "release"}, NEW off, Ask(s, job', off),
             report' \in {"none", report}
      PROVE  PromptInv' /\ PromptClob'
  <2>1. s \in Steps
    BY DEF Steps, Commands
  <2>2. /\ Len(toDevice') <= 1 /\ AboutFile' /\ step' = s
        /\ \A m \in Items(toDevice') : m.op = s
    BY <1>3, <1>4, <2>1, AskOne
  <2> QED
    BY <1>2, <1>3, <1>4, <2>2
    DEF PromptInv, PromptClob, InStep, Printed, NoRemoves
<1>5. CASE Say("off", report)
  <2>1. step' = "off" /\ report' = report /\ toDevice' = <<>>
        /\ Len(toDevice') <= 1 /\ Items(toDevice') = {}
    BY <1>3, <1>5, NothingIn, EmptySeq DEF Say
  <2> QED
    BY <1>2, <1>3, <2>1
    DEF PromptInv, PromptClob, InStep, Printed, AboutFile, NoRemoves, Waiting
<1>6. CASE Then("release", acked) /\ UNCHANGED <<job, files>>
  BY <1>4, <1>6 DEF Then
<1>7. CASE Ask("list", job', 0) /\ report' = "none"
  BY <1>4, <1>7
<1> QED BY <1>5, <1>6, <1>7 DEF NextFile

LEMMA QuitPrompt ==
  ASSUME PInv, Quit
  PROVE  PromptInv' /\ PromptClob'
<1>1. /\ UNCHANGED <<disk, state, phase, toDevice, job, pace>>
      /\ step' = "off" /\ report' = "none" /\ toHost' = <<>>
  BY DEF Quit, vars
<1>2. Len(toHost') <= 1
  BY <1>1, EmptySeq
<1> QED
  BY <1>1, <1>2
  DEF PInv, PromptInv, PromptClob, InStep, Printed, AboutFile, NoRemoves, OnCard, Waiting

LEMMA StutterPrompt ==
  ASSUME PInv, UNCHANGED svars
  PROVE  PromptInv' /\ PromptClob'
<1>1. UNCHANGED <<disk, state, phase, final, digest, length, step, job, report, pace,
                  toDevice, toHost>>
  BY DEF svars, vars, session, host
<1>2. /\ ReceiptTrue' = ReceiptTrue /\ OnCard' = OnCard /\ Quiet' = Quiet
      /\ AboutFile' = AboutFile /\ NoRemoves' = NoRemoves /\ Waiting' = Waiting
  BY <1>1 DEF ReceiptTrue, OnCard, Quiet, AboutFile, NoRemoves, Waiting
<1>3. \A a : Fits(a)' = Fits(a)
  BY <1>1, <1>2 DEF Fits, Receipt, Holds
<1> QED BY <1>1, <1>2, <1>3 DEF PInv, PromptInv, PromptClob, InStep, Printed

LEMMA PromptStep == PInv /\ [SessionNext]_svars => PInv'
<1> SUFFICES ASSUME PInv, [SessionNext]_svars PROVE PInv'
  OBVIOUS
<1>1. IInv' /\ ClientInv' /\ Scripted'
  BY SessionNextInv, ScriptedStep DEF PInv
<1> SUFFICES PromptInv' /\ PromptClob'
  BY <1>1 DEF PInv
<1>2. CASE \E jb \in Calls : StartCommand(jb)
  BY <1>1, <1>2, StartPrompt
<1>3. CASE Board
  BY <1>3, HandlePrompt, CommitStartPrompt, CommittingPrompt DEF Board, Serve
<1>4. CASE Stalled
  BY <1>4, StalledPrompt
<1>5. CASE Client \/ Quit
  BY <1>1, <1>5, TimeoutPrompt, ReceivePrompt, NextFilePrompt, QuitPrompt DEF Client
<1>6. CASE UNCHANGED svars
  BY <1>6, StutterPrompt
<1> QED BY <1>2, <1>3, <1>4, <1>5, <1>6 DEF SessionNext

LEMMA PromptInit == SessionInit => PInv
<1> SUFFICES ASSUME SessionInit PROVE PInv
  OBVIOUS
<1>1. IInv /\ ClientInv
  BY SessionInitInv
<1>2. toDevice = <<>> /\ toHost = <<>> /\ step = "off" /\ report = "none"
  BY DEF SessionInit
<1>3. Len(toDevice) <= 1 /\ Items(toDevice) = {} /\ Len(toHost) <= 1
  BY <1>2, NothingIn, EmptySeq
<1> QED
  BY <1>1, <1>2, <1>3
  DEF PInv, Scripted, PromptInv, PromptClob, InStep, Printed, AboutFile, NoRemoves, Waiting
---------------------------------------------------------------------------
(* Theorems *)

LEMMA SessionInvariants == SessionSpec => [](SInv /\ PInv)
<1>1. SessionInit => SInv /\ PInv
  BY FirstInit, PromptInit
<1>2. SInv /\ PInv /\ [SessionNext]_svars => (SInv /\ PInv)'
  BY FirstStep, PromptStep
<1> QED BY <1>1, <1>2, PTL DEF SessionSpec

\* COMMITTED is printed only of a file that is on the card with the local
\* file's data: of the first file of a command whatever is late, lost or
\* asked again however often, and of every file while no answer is late.
THEOREM ReceiptsAreTrue == SessionSpec => []CommittedIsTrue
<1>1. SInv /\ PInv => CommittedIsTrue
  BY DEF SInv, FirstInv, PInv, PromptInv, Printed, CommittedIsTrue, Orderly
<1> QED BY <1>1, SessionInvariants, PTL

\* SKIPPED, VERIFIED and REMOVED are true when they are printed, however
\* often requests are lost and asked again, as long as no answer is late.
THEOREM ReportsAreTrue == SessionSpec => []PrintedIsTrue
<1>1. PInv => PrintedIsTrue
  BY DEF PInv, PromptInv, Printed, PrintedIsTrue
<1> QED BY <1>1, SessionInvariants, PTL

\* A step that takes the file off the card serves a REMOVE of that file.
LEMMA LosesByRemove ==
  ASSUME IInv, ClientInv, [SessionNext]_svars, OnCard, disk'[job.name] # job.data
  PROVE  /\ Serve /\ Head(toDevice) \in Items(toDevice)
         /\ Head(toDevice).op = "remove"
<1>1. job.name \in Names /\ job.data \in Contents /\ Present(job.name)
  BY JobTyped DEF OnCard, Present
<1>2. disk'[job.name] # disk[job.name]
  BY DEF OnCard
<1>3. ~Client /\ ~Quit /\ ~(UNCHANGED svars)
  BY <1>2 DEF Client, Timeout, Receive, NextFile, Quit, svars, vars
<1>4. ~Stalled /\ ~(\E jb \in Calls : StartCommand(jb)) /\ ~Committing
  BY <1>1, <1>2, StallChanges, ResetChanges, CommitChanges DEF StartCommand, Committing
<1>5. Serve
  BY <1>3, <1>4 DEF SessionNext, Board
<1>6. Head(toDevice) \in Items(toDevice) /\ Head(toDevice) \in Frames
  BY <1>5, SomethingIn, HeadTailProperties DEF Serve, ClientInv, LineTypes
<1>7. ~CommitStart
  BY <1>2 DEF CommitStart
<1>8. PICK rc \in Status : Handle(Head(toDevice), rc)
  BY <1>5, <1>7 DEF Serve
<1>9. HandlerFacts(Head(toDevice), rc)
  BY <1>6, <1>8, HandlerChanges
<1> QED BY <1>1, <1>2, <1>5, <1>6, <1>9 DEF HandlerFacts

\* An upload takes no file off the card that is already what it is to become,
\* where nothing is misread: for the first file whatever is late, and for
\* every file while no answer is.
THEOREM GoodFilesStay ==
  ASSUME NoMisread
  PROVE  SessionSpec => UploadRemovesOnlyOther
<1>1. SInv /\ PInv /\ [SessionNext]_svars => [Orderly => KeepsRightFile]_svars
  <2> SUFFICES ASSUME SInv, PInv, [SessionNext]_svars, Orderly, job.cmd = "upload", OnCard,
                      disk'[job.name] # job.data
               PROVE  FALSE
    BY DEF KeepsRightFile, OnCard
  <2>1. Head(toDevice) \in Items(toDevice) /\ Head(toDevice).op = "remove"
    BY LosesByRemove DEF SInv
  <2>2. ~NoRemoves
    BY <2>1 DEF NoRemoves
  <2> QED BY <2>2 DEF Orderly, SInv, FirstClob, PInv, PromptClob
<1> QED BY <1>1, SessionInvariants, PTL DEF SessionSpec, UploadRemovesOnlyOther
===========================================================================
