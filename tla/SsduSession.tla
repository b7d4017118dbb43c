---------------------------- MODULE SsduSession ----------------------------
(***************************************************************************)
(* The command line client of tools/sd_upload.py against the uploader of   *)
(* SsduStorage, over the serial line.                                      *)
(*                                                                         *)
(* Requests and answers carry no sequence number: the client takes the     *)
(* next answer that arrives, whichever request it belongs to, and sends    *)
(* its request again when none arrives in time.  Every command resets the  *)
(* board and loads the uploader's image anew.                              *)
(*                                                                         *)
(* Wire = {"loss"} lets frames be damaged (both parsers drop them); Late   *)
(* holds the requests whose answer may take longer than an attempt waits,  *)
(* in the behaviours whose pace is "late".                                 *)
(***************************************************************************)
EXTENDS SsduStorage

CONSTANTS
  MaxTries,   \* attempts of one request (retries of Client.request)
  MaxFiles,   \* files that one upload command is given
  Wire,       \* what the serial line may do wrong
  Late        \* steps whose answer may come after the attempt's deadline

ASSUME SessionAssumption ==
  /\ MaxTries \in Nat \ {0}
  /\ MaxFiles \in Nat \ {0}

VARIABLES
  step,      \* the request the client waits on; "done": it has just reported
             \* on a file; "off": no command is running
  job,       \* the command, its file's name on the card and its local data
  files,     \* files of the command so far
  tries,     \* attempts of the request so far
  pace,      \* "prompt": no answer of this behaviour is late; or "late"
  acked,     \* bytes of the file that WRITE answers have covered
  report,    \* what the client has printed of the file, or "none"
  toDevice,  \* requests sent and not yet served
  toHost     \* answers sent and not yet read

host  == <<step, job, files, tries, acked, report, pace>>
svars == <<vars, host, toDevice, toHost>>

Commands == {"upload", "verify", "remove", "release", "abort"}
Steps    == {"off", "done", "hello", "list", "begin", "write", "commit"} \cup Commands
Jobs     == [cmd : Commands, name : Names, data : Contents]
\* The command lines: only upload and verify name a local file.
Calls    == {jb \in Jobs : jb.cmd \in {"upload", "verify"} \/ jb.data = <<>>}
Waiting  == step \notin {"off", "done"}

SessionInit ==
  /\ Init
  /\ step = "off"
  /\ job \in [cmd : {"abort"}, name : Names, data : {<<>>}]
  /\ files = 0 /\ tries = 0 /\ acked = 0
  /\ report = "none"
  /\ pace \in {"prompt", "late"}
  /\ toDevice = <<>> /\ toHost = <<>>
---------------------------------------------------------------------------
(* The serial line *)

Chunk(data, off) ==
  SubSeq(data, off + 1,
         IF off + ChunkMax < Len(data) THEN off + ChunkMax ELSE Len(data))

\* What a queue is after m was sent into it.
Sent(queue, m) ==
  {Append(queue, m)} \cup (IF "loss" \in Wire THEN {queue} ELSE {})

\* The client's request for a step, sent after dropping what it has read.
Ask(s, jb, off) ==
  /\ step' = s
  /\ toDevice' \in Sent(toDevice, [op |-> s, name |-> jb.name,
                                   data |-> jb.data, off |-> off])

\* The fields the client looks at in the answer to a request; None is a key
\* the body does not have.
Answer(r, rc, shown) ==
  LET ok     == rc = "OK"
      naming == ok /\ r.op \in {"begin", "verify"}
      sealed == ok /\ r.op = "commit"
  IN [status  |-> rc,
      state   |-> state',
      offset  |-> IF sealed \/ r.op = "list" THEN None ELSE offset',
      name    |-> IF naming THEN r.name ELSE IF sealed THEN final ELSE None,
      data    |-> IF naming THEN r.data ELSE IF sealed THEN digest ELSE None,
      entries |-> IF ok /\ r.op = "list" THEN shown ELSE {}]
---------------------------------------------------------------------------
(* The board *)

\* The handler of one request; COMMIT goes on in CommitStep.
Handle(r, rc) ==
  \/ r.op = "hello"   /\ Hello(rc)
  \/ r.op = "list"    /\ List(rc)
  \/ r.op = "verify"  /\ Verify(r.name, Len(r.data), r.data, rc)
  \/ r.op = "remove"  /\ Remove(r.name, rc)
  \/ r.op = "begin"   /\ Begin(r.name, Len(r.data), r.data, rc)
  \/ r.op = "write"   /\ Write(r.off, Chunk(r.data, r.off), rc)
  \/ r.op = "commit"  /\ CommitAnswer(rc)
  \/ r.op = "abort"   /\ Abort(rc)
  \/ r.op = "release" /\ Release(rc)

\* The root listing is cut off where its buffer ends.
Serve ==
  /\ toDevice # <<>>
  /\ toDevice' = Tail(toDevice)
  /\ UNCHANGED host
  /\ \/ \E rc \in Status, shown \in SUBSET {n \in Names : Present(n)} :
          /\ Handle(Head(toDevice), rc)
          /\ toHost' \in Sent(toHost, Answer(Head(toDevice), rc, shown))
     \/ /\ Head(toDevice).op = "commit"
        /\ CommitStart
        /\ UNCHANGED toHost

Committing ==
  /\ UNCHANGED <<host, toDevice>>
  /\ \E rc \in Status :
       /\ \/ Flush(rc) \/ ReadTemp(rc) \/ StatDest(rc) \/ Rename(rc) \/ ReadFinal(rc)
       /\ IF phase' = "ready"
          THEN toHost' \in Sent(toHost, Answer([op |-> "commit"], rc, {}))
          ELSE UNCHANGED toHost
---------------------------------------------------------------------------
(* The client *)

\* Mutant: answers of the command before are still in the input buffer.
StartCommandKeepsInput(jb) ==
  /\ step = "off"
  /\ Reset
  /\ job' = jb
  /\ files' = 1 /\ tries' = 1 /\ acked' = 0
  /\ report' = "none"
  /\ Ask("hello", jb, 0)
  /\ UNCHANGED <<toHost, pace>>

\* open_session and load_ram: the board starts over, both buffers are empty.
StartCommand(jb) ==
  /\ step = "off"
  /\ Reset
  /\ job' = jb
  /\ files' = 1 /\ tries' = 1 /\ acked' = 0
  /\ report' = "none"
  /\ step' = "hello"
  /\ toHost' = <<>>
  /\ toDevice' \in Sent(<<>>, [op |-> "hello", name |-> jb.name,
                               data |-> jb.data, off |-> 0])
  /\ UNCHANGED pace

\* The attempt has seen no answer: none is coming, or it will be late.
Expired ==
  /\ toHost = <<>>
  /\ \/ toDevice = <<>> /\ phase = "ready"
     \/ pace = "late" /\ step \in Late

\* Mutant: attempts are not counted.
TimeoutForEver ==
  /\ Waiting
  /\ Expired
  /\ Ask(step, job, acked)
  /\ UNCHANGED <<vars, job, files, tries, acked, report, pace, toHost>>

\* Mutant: one attempt too many.
TimeoutOnceMore ==
  /\ Waiting
  /\ Expired
  /\ tries <= MaxTries
  /\ tries' = tries + 1
  /\ Ask(step, job, acked)
  /\ UNCHANGED <<vars, job, files, acked, report, pace, toHost>>

\* No answer to this attempt: send again, or give the command up.
Timeout ==
  /\ Waiting
  /\ Expired
  /\ \/ /\ tries < MaxTries
        /\ tries' = tries + 1
        /\ Ask(step, job, acked)
        /\ UNCHANGED report
     \/ /\ tries = MaxTries
        /\ step' = "off"
        /\ report' = "error"
        /\ UNCHANGED <<tries, toDevice>>
  /\ UNCHANGED <<vars, job, files, acked, pace, toHost>>

\* Go on with the next request of the command.
Then(s, off) ==
  /\ Ask(s, job, off)
  /\ tries' = 1
  /\ acked' = off
  /\ UNCHANGED report

\* The command is over, or the file is.
Say(s, what) ==
  /\ step' = s
  /\ report' = what
  /\ UNCHANGED <<tries, acked, toDevice>>

Fail == Say("off", "error")

\* DeviceError: only the VERIFY inside an upload has a way on.
OnError(a) ==
  IF step = "verify" /\ job.cmd = "upload" /\ a.status = "DIGEST"
  THEN Then("remove", 0)
  ELSE Fail

\* Mutant: a file of that name is replaced without a look at it.
FirstForBlindly(listed) == IF listed THEN "remove" ELSE "begin"

\* A listed file is compared with the local one before anything else.
FirstFor(listed) == IF listed THEN "verify" ELSE "begin"

\* Mutant: any answer without an error is a receipt.
ReceiptUnread(a) == a.status = "OK"

ReceiptMatches(a) ==
  a.state = "COMMITTED" /\ a.name = job.name /\ a.data = job.data

\* Client.upload on an answer with status OK.
OnUploadAnswer(a) ==
  LET next == acked + Len(Chunk(job.data, acked)) IN
  \/ step = "hello"  /\ Then("list", 0)
  \/ step = "list"   /\ Then(FirstFor(job.name \in a.entries), 0)
  \/ step = "verify" /\ Say("done", "SKIPPED")
  \/ step = "remove" /\ Then("begin", 0)
  \/ step = "begin"  /\ Then(IF job.data = <<>> THEN "commit" ELSE "write", 0)
  \/ /\ step = "write"
     /\ IF a.offset # next
        THEN Then("abort", acked)
        ELSE Then(IF next = Len(job.data) THEN "commit" ELSE "write", next)
  \/ /\ step = "commit"
     /\ IF ReceiptMatches(a) THEN Say("done", "COMMITTED") ELSE Fail
  \/ step = "abort"   /\ Fail
  \/ step = "release" /\ Say("off", "RELEASED")

\* The other commands are one request after HELLO.
OnCommandAnswer ==
  IF step = "hello" THEN Then(job.cmd, 0)
  ELSE Say("off", CASE step = "verify"  -> "VERIFIED"
                      [] step = "remove"  -> "REMOVED"
                      [] step = "release" -> "RELEASED"
                      [] step = "abort"   -> "ABORTED")

\* Client.request returns on the first answer it reads; those that were read
\* together with it are dropped.
Receive ==
  /\ Waiting
  /\ toHost # <<>>
  /\ LET a == Head(toHost) IN
     IF a.status # "OK" THEN OnError(a)
     ELSE IF job.cmd = "upload" THEN OnUploadAnswer(a)
     ELSE OnCommandAnswer
  /\ \E k \in 1..Len(toHost) : toHost' = SubSeq(toHost, k + 1, Len(toHost))
  /\ UNCHANGED <<vars, job, files, pace>>

\* upload of several files, then RELEASE unless --no-release.
NextFile ==
  /\ step = "done"
  /\ \/ /\ files < MaxFiles
        /\ files' = files + 1
        /\ \E n \in Names, d \in Contents :
             /\ job' = [job EXCEPT !.name = n, !.data = d]
             /\ Ask("list", job', 0)
        /\ tries' = 1 /\ acked' = 0
        /\ report' = "none"
     \/ /\ Then("release", acked)
        /\ UNCHANGED <<job, files>>
     \/ /\ Say("off", report)
        /\ UNCHANGED <<job, files>>
  /\ UNCHANGED <<vars, pace, toHost>>

\* The client is killed: its process and what it had buffered are gone.
Quit ==
  /\ step # "off"
  /\ step' = "off"
  /\ files' = 0 /\ tries' = 0 /\ acked' = 0
  /\ report' = "none"
  /\ toHost' = <<>>
  /\ UNCHANGED <<vars, job, pace, toDevice>>

\* The board's stall guard: the client is gone, or what it sends does not
\* arrive for as long as its attempts last.
Stalled ==
  /\ step = "off" \/ "loss" \in Wire
  /\ toDevice = <<>>
  /\ Silence \/ StallAbort
  /\ UNCHANGED <<host, toDevice, toHost>>
---------------------------------------------------------------------------
Client == Timeout \/ Receive \/ NextFile
Board  == Serve \/ Committing

SessionNext ==
  \/ \E jb \in Calls : StartCommand(jb)
  \/ Client \/ Quit
  \/ Board \/ Stalled

SessionSpec == SessionInit /\ [][SessionNext]_svars

\* Both programs keep running; nothing is assumed of the line or the user.
FairSession == SessionSpec /\ WF_svars(Client) /\ WF_svars(Board)
---------------------------------------------------------------------------
(* Properties *)

Frames  == [op : Steps, name : Names, data : Contents, off : Offsets]
Answers == [status : Status, state : States, offset : Offsets \cup {None},
            name : Names \cup {None}, data : Contents \cup {None},
            entries : SUBSET Names]

SessionTypeOK ==
  /\ TypeOK
  /\ step \in Steps /\ job \in Jobs
  /\ pace \in {"prompt", "late"}
  /\ files \in 0..MaxFiles /\ tries \in 0..MaxTries /\ acked \in Offsets
  /\ toDevice \in Seq(Frames)
  /\ toHost \in Seq(Answers)

OnCard == disk[job.name] = job.data

\* No answer to a request about another file can still come: none is late, or
\* this is the first file of its command.
Orderly == pace = "prompt" \/ files = 1

\* Client.upload's receipt check: COMMITTED is printed only of a file that is
\* on the card with the local file's data.  Answers may be late, doubled or
\* lost, as long as they are about this file.
CommittedIsTrue == Orderly /\ step = "done" /\ report = "COMMITTED" => OnCard

\* The other things the client prints of a file are true when it does, as
\* long as no answer is later than its attempt: SKIPPED (identical file
\* already on card), VERIFIED, REMOVED.
PrintedIsTrue ==
  pace = "prompt" =>
    /\ step = "done" /\ report = "SKIPPED" => OnCard
    /\ report = "VERIFIED" => OnCard
    /\ report = "REMOVED" => disk[job.name] = Absent

KeepsRightFile ==
  job.cmd = "upload" /\ disk[job.name] = job.data => disk'[job.name] = job.data

\* Client.upload, "never clobber blindly": no step of an upload takes a file
\* off the card, or changes it, that is already what it is to become; also
\* when the answers to LIST, VERIFY and REMOVE are late or doubled.
UploadRemovesOnlyOther == [][Orderly => KeepsRightFile]_svars

\* The same of every file of a command, which is what the comment in
\* Client.upload says of LIST, VERIFY, REMOVE, BEGIN.
NeverClobbers == [][KeepsRightFile]_svars

\* uploader_storage.h of VERIFY: "OK only on exact match".
VerifiedMatches == report = "VERIFIED" => OnCard

\* Every command ends, though frames may be lost for ever.
CommandEnds == step # "off" ~> step = "off"
===========================================================================
