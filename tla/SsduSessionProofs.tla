------------------------- MODULE SsduSessionProofs -------------------------
(***************************************************************************)
(* The board inside a session: whatever the client sends, however its      *)
(* frames are lost, repeated or late and whenever it resets the board, the *)
(* invariants of SsduStorage hold and uploads publish atomically.          *)
(***************************************************************************)
EXTENDS SsduSession, SsduPublishProofs

ClientTypes ==
  /\ step \in Steps /\ job \in Jobs
  /\ pace \in {"prompt", "late"}
  /\ files \in 0..MaxFiles /\ tries \in 0..MaxTries
  /\ acked \in Nat /\ acked <= Len(job.data)

LineTypes == toDevice \in Seq(Frames) /\ toHost \in Seq(Answers)

\* What the client has counted as sent is never more than the file has, which
\* SessionTypeOK does not say and every WRITE rests on.
ClientInv == ClientTypes /\ LineTypes

LEMMA JobData ==
  \A d \in Contents : /\ d \in Seq(Blocks)
                      /\ Len(d) \in Nat
                      /\ Len(d) \in Sizes
                      /\ \A k \in Nat : k <= Len(d) => k \in Offsets
  BY ContentsAreShortSeqs, LenProperties, MaxFileNat DEF Sizes, Offsets

\* A chunk of a file is a sequence of its blocks, and ends within it.
LEMMA ChunkFits ==
  ASSUME NEW data \in Contents, NEW off \in Nat
  PROVE  /\ Chunk(data, off) \in Seq(Blocks)
         /\ off <= Len(data) => /\ off + Len(Chunk(data, off)) \in Nat
                                /\ off + Len(Chunk(data, off)) <= Len(data)
<1> DEFINE last == IF off + ChunkMax < Len(data) THEN off + ChunkMax ELSE Len(data)
<1>1. data \in Seq(Blocks) /\ Len(data) \in Nat
  BY JobData
<1>2. last \in Nat /\ last <= Len(data) /\ (off <= Len(data) => off <= last)
  BY <1>1, StorageAssumption
<1>3. \A i \in (off + 1)..last : data[i] \in Blocks
  BY <1>1, <1>2, ElementOfSeq
<1>4. SubSeq(data, off + 1, last) \in Seq(Blocks)
  BY <1>1, <1>2, <1>3, SubSeqProperties
<1>5. Len(SubSeq(data, off + 1, last)) =
        IF off + 1 <= last THEN last - (off + 1) + 1 ELSE 0
  BY <1>1, <1>2, <1>3, SubSeqProperties
<1>6. off <= Len(data) => off + Len(SubSeq(data, off + 1, last)) = last
  BY <1>2, <1>5
<1>7. Chunk(data, off) = SubSeq(data, off + 1, last)
  BY DEF Chunk
<1> HIDE DEF last
<1> QED BY <1>2, <1>4, <1>6, <1>7

\* What a loss or an arrival leaves in a queue.
LEMMA SentIsSeq ==
  ASSUME NEW S, NEW q \in Seq(S), NEW m \in S, NEW q2 \in Sent(q, m)
  PROVE  q2 \in Seq(S)
  BY AppendProperties DEF Sent

LEMMA FrameTyped ==
  ASSUME NEW s \in Steps, NEW jb \in Jobs, NEW off \in Nat, off <= Len(jb.data)
  PROVE  [op |-> s, name |-> jb.name, data |-> jb.data, off |-> off] \in Frames
<1>1. jb.name \in Names /\ jb.data \in Contents
  BY DEF Jobs
<1>2. off \in Offsets
  BY <1>1, JobData
<1> QED BY <1>1, <1>2 DEF Frames
---------------------------------------------------------------------------
(* The board's part *)

LEMMA AnswerTyped ==
  ASSUME TypeOK, TypeOK', NEW r \in Frames \cup {[op |-> "commit"]},
         NEW rc \in Status, NEW shown \in SUBSET Names
  PROVE  Answer(r, rc, shown) \in Answers
<1>1. state' \in States /\ offset' \in Offsets
  BY DEF TypeOK, Offsets
<1>2. CASE r = [op |-> "commit"]
  BY <1>1, <1>2 DEF Answer, Answers, TypeOK
<1>3. CASE r \in Frames
  <2>1. r.name \in Names /\ r.data \in Contents
    BY <1>3 DEF Frames
  <2> QED BY <1>1, <2>1 DEF Answer, Answers, TypeOK
<1> QED BY <1>2, <1>3

\* What the dispatcher gets from this client is a request of SsduStorage, but
\* for a chunk, which may be empty.
LEMMA HandleIsRequest ==
  ASSUME NEW r \in Frames, NEW rc \in Status, Handle(r, rc)
  PROVE  \/ Request
         \/ \E off \in Nat, chunk \in Seq(Blocks) : Write(off, chunk, rc)
<1>1. r.name \in ReqNames /\ r.data \in Contents /\ r.off \in Nat
  BY StorageAssumption DEF Frames, Offsets
<1>2. Len(r.data) \in Sizes
  BY <1>1, JobData
<1>3. CASE r.op # "write"
  BY <1>1, <1>2, <1>3 DEF Handle, Request
<1>4. CASE r.op = "write"
  BY <1>1, <1>4, ChunkFits DEF Handle
<1> QED BY <1>3, <1>4

LEMMA ServeInv ==
  ASSUME IInv, ClientInv, Serve
  PROVE  IInv' /\ ClientInv' /\ [Published!Next]_(Published!pvars)
<1> DEFINE r == Head(toDevice)
<1>1. r \in Frames /\ toDevice' \in Seq(Frames)
  BY HeadTailProperties DEF Serve, ClientInv, LineTypes
<1>2. CASE \E rc \in Status, shown \in SUBSET {n \in Names : Present(n)} :
             Handle(r, rc) /\ toHost' \in Sent(toHost, Answer(r, rc, shown))
  <2>1. PICK rc \in Status, shown \in SUBSET Names :
          Handle(r, rc) /\ toHost' \in Sent(toHost, Answer(r, rc, shown))
    BY <1>2
  <2>2. IInv' /\ [Published!Next]_(Published!pvars)
    BY <1>1, <2>1, HandleIsRequest, RequestIInv, WriteIInv, RequestMaps, WriteMaps
  <2>3. Answer(r, rc, shown) \in Answers
    BY <1>1, <2>2, AnswerTyped DEF IInv
  <2>4. toHost' \in Seq(Answers)
    BY <2>1, <2>3, SentIsSeq DEF ClientInv, LineTypes
  <2> QED
    BY <1>1, <2>2, <2>4 DEF Serve, host, ClientInv, ClientTypes, LineTypes
<1>3. CASE CommitStart /\ UNCHANGED toHost
  BY <1>1, <1>3, CommitStartIInv, RequestMaps
  DEF Serve, host, ClientInv, ClientTypes, LineTypes
<1> QED BY <1>2, <1>3 DEF Serve

LEMMA CommittingInv ==
  ASSUME IInv, ClientInv, Committing
  PROVE  IInv' /\ ClientInv' /\ [Published!Next]_(Published!pvars)
<1>1. PICK rc \in Status :
        /\ \/ Flush(rc) \/ ReadTemp(rc) \/ StatDest(rc) \/ Rename(rc) \/ ReadFinal(rc)
        /\ IF phase' = "ready"
           THEN toHost' \in Sent(toHost, Answer([op |-> "commit"], rc, {}))
           ELSE UNCHANGED toHost
  BY DEF Committing
<1>2. IInv' /\ [Published!Next]_(Published!pvars)
  BY <1>1, CommitStepIInv, CommitStepMaps DEF CommitStep
<1>3. Answer([op |-> "commit"], rc, {}) \in Answers
  BY <1>2, AnswerTyped DEF IInv
<1>4. toHost' \in Seq(Answers)
  BY <1>1, <1>3, SentIsSeq DEF ClientInv, LineTypes
<1> QED
  BY <1>2, <1>4 DEF Committing, host, ClientInv, ClientTypes, LineTypes

LEMMA StalledInv ==
  ASSUME IInv, ClientInv, Stalled
  PROVE  IInv' /\ ClientInv' /\ [Published!Next]_(Published!pvars)
<1>1. IInv'
  BY SilenceIInv, StallAbortIInv DEF Stalled
<1>2. [Published!Next]_(Published!pvars)
  <2>1. Next
    BY DEF Stalled, Next
  <2> QED BY <2>1, NextMaps
<1>3. ClientInv'
  BY DEF Stalled, host, ClientInv, ClientTypes, LineTypes
<1> QED BY <1>1, <1>2, <1>3
---------------------------------------------------------------------------
(* The client's part *)

LEMMA StartInv ==
  ASSUME IInv, ClientInv, NEW jb \in Jobs, StartCommand(jb)
  PROVE  IInv' /\ ClientInv' /\ [Published!Next]_(Published!pvars)
<1>1. IInv' /\ [Published!Next]_(Published!pvars)
  BY ResetIInv, ResetMaps DEF StartCommand
<1>2. jb.data \in Contents /\ Len(jb.data) \in Nat
  BY JobData DEF Jobs
<1>3. [op |-> "hello", name |-> jb.name, data |-> jb.data, off |-> 0] \in Frames
  BY <1>2, FrameTyped DEF Steps
<1>4. toDevice' \in Seq(Frames) /\ toHost' \in Seq(Answers)
  BY <1>3, SentIsSeq, EmptySeq DEF StartCommand
<1>5. 1 \in 0..MaxFiles /\ 1 \in 0..MaxTries
  BY SessionAssumption
<1> QED
  BY <1>1, <1>2, <1>4, <1>5
  DEF StartCommand, ClientInv, ClientTypes, LineTypes, Steps

\* A request about the command's file at a place the file has.
LEMMA AskTyped ==
  ASSUME ClientInv, NEW s \in Steps, NEW jb \in Jobs, NEW off \in Nat,
         off <= Len(jb.data), Ask(s, jb, off)
  PROVE  step' \in Steps /\ toDevice' \in Seq(Frames)
  BY FrameTyped, SentIsSeq DEF Ask, ClientInv, LineTypes

LEMMA ThenTyped ==
  ASSUME ClientInv, NEW s \in Steps, NEW off \in Nat, off <= Len(job.data),
         Then(s, off), UNCHANGED <<job, files, pace>>, toHost' \in Seq(Answers)
  PROVE  ClientInv'
<1>1. step' \in Steps /\ toDevice' \in Seq(Frames)
  BY AskTyped DEF Then, ClientInv, ClientTypes
<1> QED
  BY <1>1, SessionAssumption DEF Then, ClientInv, ClientTypes, LineTypes

LEMMA SayTyped ==
  ASSUME ClientInv, NEW s \in Steps, NEW what, Say(s, what),
         UNCHANGED <<job, files, pace>>, toHost' \in Seq(Answers)
  PROVE  ClientInv'
  BY DEF Say, ClientInv, ClientTypes, LineTypes

LEMMA TimeoutInv ==
  ASSUME ClientInv, Timeout
  PROVE  ClientInv'
<1>1. CASE tries < MaxTries /\ tries' = tries + 1 /\ Ask(step, job, acked)
  <2>1. step' \in Steps /\ toDevice' \in Seq(Frames)
    BY <1>1, AskTyped DEF ClientInv, ClientTypes
  <2>2. tries' \in 0..MaxTries
    BY <1>1, SessionAssumption DEF ClientInv, ClientTypes
  <2> QED BY <2>1, <2>2 DEF Timeout, ClientInv, ClientTypes, LineTypes
<1>2. CASE step' = "off" /\ UNCHANGED <<tries, toDevice>>
  BY <1>2 DEF Timeout, ClientInv, ClientTypes, LineTypes, Steps
<1> QED BY <1>1, <1>2 DEF Timeout

\* Client.upload never counts past the end of its file.
LEMMA UploadAnswerInv ==
  ASSUME ClientInv, NEW a, OnUploadAnswer(a),
         UNCHANGED <<job, files, pace>>, toHost' \in Seq(Answers)
  PROVE  ClientInv'
<1> DEFINE next == acked + Len(Chunk(job.data, acked))
<1>1. /\ job.data \in Contents /\ Len(job.data) \in Nat
      /\ acked \in Nat /\ acked <= Len(job.data)
  BY JobData DEF ClientInv, ClientTypes, Jobs
<1>2. next \in Nat /\ next <= Len(job.data)
  BY <1>1, ChunkFits
<1>3. ASSUME NEW s \in Steps, NEW off \in {0, acked, next}, Then(s, off)
      PROVE  ClientInv'
  BY <1>1, <1>2, <1>3, ThenTyped
<1>4. ASSUME NEW s \in Steps, NEW what, Say(s, what)
      PROVE  ClientInv'
  BY <1>4, SayTyped
<1> HIDE DEF next
<1>5. \/ \E s \in Steps, off \in {0, acked, next} : Then(s, off)
      \/ \E s \in Steps, what \in {"error", "SKIPPED", "COMMITTED", "RELEASED"} :
           Say(s, what)
  <2>1. CASE step = "hello" /\ Then("list", 0)
    BY <2>1 DEF Steps
  <2>2. CASE step = "list" /\ Then(FirstFor(job.name \in a.entries), 0)
    BY <2>2 DEF FirstFor, Steps, Commands
  <2>3. CASE step = "verify" /\ Say("done", "SKIPPED")
    BY <2>3 DEF Steps
  <2>4. CASE step = "remove" /\ Then("begin", 0)
    BY <2>4 DEF Steps
  <2>5. CASE step = "begin" /\ Then(IF job.data = <<>> THEN "commit" ELSE "write", 0)
    BY <2>5 DEF Steps
  <2>6. CASE /\ step = "write"
             /\ IF a.offset # next
                THEN Then("abort", acked)
                ELSE Then(IF next = Len(job.data) THEN "commit" ELSE "write", next)
    BY <2>6 DEF Steps, Commands
  <2>7. CASE /\ step = "commit"
             /\ IF ReceiptMatches(a) THEN Say("done", "COMMITTED") ELSE Fail
    BY <2>7 DEF Fail, Steps
  <2>8. CASE step = "abort" /\ Fail
    BY <2>8 DEF Fail, Steps
  <2>9. CASE step = "release" /\ Say("off", "RELEASED")
    BY <2>9 DEF Steps
  <2> QED
    BY <2>1, <2>2, <2>3, <2>4, <2>5, <2>6, <2>7, <2>8, <2>9 DEF OnUploadAnswer, next
<1> QED BY <1>3, <1>4, <1>5

LEMMA ReceiveInv ==
  ASSUME ClientInv, Receive
  PROVE  ClientInv'
<1> DEFINE a == Head(toHost)
<1>1. toHost' \in Seq(Answers)
  <2>1. PICK k \in 1..Len(toHost) : toHost' = SubSeq(toHost, k + 1, Len(toHost))
    BY DEF Receive
  <2>2. toHost \in Seq(Answers) /\ Len(toHost) \in Nat
    BY LenProperties DEF ClientInv, LineTypes
  <2>3. \A i \in (k + 1)..Len(toHost) : toHost[i] \in Answers
    BY <2>2, ElementOfSeq
  <2> QED BY <2>1, <2>2, <2>3, SubSeqProperties
<1>2. 0 \in Nat /\ 0 <= Len(job.data)
  BY JobData DEF ClientInv, ClientTypes, Jobs
<1>3. ASSUME NEW s \in Steps, Then(s, 0) PROVE ClientInv'
  BY <1>1, <1>2, <1>3, ThenTyped DEF Receive
<1>4. ASSUME NEW s \in Steps, NEW what, Say(s, what) PROVE ClientInv'
  BY <1>1, <1>4, SayTyped DEF Receive
<1>5. CASE a.status # "OK"
  <2>1. OnError(a)
    BY <1>5 DEF Receive
  <2> QED BY <2>1, <1>3, <1>4 DEF OnError, Fail, Steps, Commands
<1>6. CASE a.status = "OK" /\ job.cmd = "upload"
  BY <1>1, <1>6, UploadAnswerInv DEF Receive
<1>7. CASE a.status = "OK" /\ job.cmd # "upload"
  <2>1. OnCommandAnswer
    BY <1>7 DEF Receive
  <2>2. job.cmd \in Steps
    BY DEF ClientInv, ClientTypes, Jobs, Steps
  <2> QED BY <2>1, <2>2, <1>3, <1>4 DEF OnCommandAnswer, Steps
<1> QED BY <1>5, <1>6, <1>7

LEMMA NextFileInv ==
  ASSUME ClientInv, NextFile
  PROVE  ClientInv'
<1>1. CASE /\ files < MaxFiles
           /\ files' = files + 1
           /\ \E n \in Names, d \in Contents :
                /\ job' = [job EXCEPT !.name = n, !.data = d]
                /\ Ask("list", job', 0)
           /\ tries' = 1 /\ acked' = 0
           /\ report' = "none"
  <2>1. PICK n \in Names, d \in Contents :
          job' = [job EXCEPT !.name = n, !.data = d] /\ Ask("list", job', 0)
    BY <1>1
  <2>2. job' \in Jobs /\ Len(job'.data) \in Nat
    BY <2>1, JobData DEF ClientInv, ClientTypes, Jobs
  <2>3. step' \in Steps /\ toDevice' \in Seq(Frames)
    <3>1. "list" \in Steps
      BY DEF Steps
    <3>2. [op |-> "list", name |-> job'.name, data |-> job'.data, off |-> 0] \in Frames
      BY <2>2, <3>1, FrameTyped
    <3>3. /\ step' = "list"
          /\ toDevice' \in Sent(toDevice, [op |-> "list", name |-> job'.name,
                                          data |-> job'.data, off |-> 0])
      BY <2>1 DEF Ask
    <3>4. toDevice' \in Seq(Frames)
      BY <3>2, <3>3, SentIsSeq DEF ClientInv, LineTypes
    <3> QED BY <3>1, <3>3, <3>4
  <2>4. files' \in 0..MaxFiles /\ 1 \in 0..MaxTries
    BY <1>1, SessionAssumption DEF ClientInv, ClientTypes
  <2>5. pace' = pace /\ toHost' = toHost
    BY DEF NextFile
  <2> QED BY <1>1, <2>2, <2>3, <2>4, <2>5 DEF ClientInv, ClientTypes, LineTypes
<1>2. CASE Then("release", acked) /\ UNCHANGED <<job, files>>
  BY <1>2, ThenTyped DEF NextFile, ClientInv, ClientTypes, LineTypes, Steps, Commands
<1>3. CASE Say("off", report) /\ UNCHANGED <<job, files>>
  BY <1>3, SayTyped DEF NextFile, ClientInv, LineTypes, Steps
<1> QED BY <1>1, <1>2, <1>3 DEF NextFile

LEMMA QuitInv ==
  ASSUME ClientInv, Quit
  PROVE  ClientInv'
<1>1. Len(job.data) \in Nat
  BY JobData DEF ClientInv, ClientTypes, Jobs
<1> QED
  BY <1>1, EmptySeq, SessionAssumption
  DEF Quit, ClientInv, ClientTypes, LineTypes, Steps
---------------------------------------------------------------------------
LEMMA StorageStutters ==
  ASSUME IInv, UNCHANGED vars
  PROVE  IInv' /\ [Published!Next]_(Published!pvars)
  BY NextIInv, NextMaps

LEMMA SessionNextInv ==
  IInv /\ ClientInv /\ [SessionNext]_svars
    => IInv' /\ ClientInv' /\ [Published!Next]_(Published!pvars)
<1> SUFFICES ASSUME IInv, ClientInv, [SessionNext]_svars
             PROVE  IInv' /\ ClientInv' /\ [Published!Next]_(Published!pvars)
  OBVIOUS
<1>1. CASE \E jb \in Calls : StartCommand(jb)
  BY <1>1, StartInv DEF Calls
<1>2. CASE Board \/ Stalled
  BY <1>2, ServeInv, CommittingInv, StalledInv DEF Board
<1>3. CASE Client \/ Quit
  <2>1. UNCHANGED vars
    BY <1>3 DEF Client, Timeout, Receive, NextFile, Quit
  <2>2. ClientInv'
    BY <1>3, TimeoutInv, ReceiveInv, NextFileInv, QuitInv DEF Client
  <2> QED BY <2>1, <2>2, StorageStutters
<1>4. CASE UNCHANGED svars
  <2>1. UNCHANGED vars /\ ClientInv'
    BY <1>4 DEF svars, host, ClientInv, ClientTypes, LineTypes
  <2> QED BY <2>1, StorageStutters
<1> QED BY <1>1, <1>2, <1>3, <1>4 DEF SessionNext

LEMMA SessionInitInv == SessionInit => IInv /\ ClientInv
<1> SUFFICES ASSUME SessionInit PROVE IInv /\ ClientInv
  OBVIOUS
<1>1. IInv
  BY InitIInv DEF SessionInit
<1>2. <<>> \in Contents /\ Len(<<>>) = 0
  BY EmptyIsContents
<1>3. job \in Jobs /\ job.data = <<>>
  BY <1>2 DEF SessionInit, Jobs, Commands
<1>4. ClientTypes
  BY <1>2, <1>3, SessionAssumption DEF SessionInit, ClientTypes, Steps
<1>5. LineTypes
  BY EmptySeq DEF SessionInit, LineTypes
<1> QED BY <1>1, <1>4, <1>5 DEF ClientInv

LEMMA SessionInvHolds == SessionSpec => [](IInv /\ ClientInv)
<1>1. SessionInit => IInv /\ ClientInv
  BY SessionInitInv
<1>2. IInv /\ ClientInv /\ [SessionNext]_svars => (IInv /\ ClientInv)'
  BY SessionNextInv
<1> QED BY <1>1, <1>2, PTL DEF SessionSpec

\* Client, board and both queues keep their types; what WRITE answers are
\* counted to have covered stays inside the file.
THEOREM SessionTypesHold == SessionSpec => []SessionTypeOK
<1>1. IInv /\ ClientInv => SessionTypeOK
  <2> SUFFICES ASSUME IInv, ClientInv PROVE SessionTypeOK
    OBVIOUS
  <2>1. acked \in Offsets
    BY JobData DEF ClientInv, ClientTypes, Jobs
  <2> QED BY <2>1 DEF SessionTypeOK, IInv, ClientInv, ClientTypes, LineTypes
<1> QED BY <1>1, SessionInvHolds, PTL

\* The invariants proved of the board alone hold of the board in a session.
THEOREM BoardStaysSound == SessionSpec => []IInv
  BY SessionInvHolds, PTL

\* Uploads stay an atomic publish with the client around them: with requests
\* that are lost, repeated or late, and commands that reset the board midway.
THEOREM CommandsPublishAtomically == SessionSpec => PublishesAtomically
<1>1. SessionInit => Published!Init
  BY InitMaps DEF SessionInit
<1>2. IInv /\ ClientInv /\ [SessionNext]_svars => [Published!Next]_(Published!pvars)
  BY SessionNextInv
<1> QED
  BY <1>1, <1>2, SessionInvHolds, PTL
  DEF SessionSpec, PublishesAtomically, Published!Spec
===========================================================================
