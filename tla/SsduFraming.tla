---------------------------- MODULE SsduFraming ----------------------------
(***************************************************************************)
(* One direction of the serial line: frames are sent as bytes, bytes may   *)
(* be lost, altered or mixed with others (the log of the board uses the    *)
(* same UART), and the parser at the other end finds the frames again.     *)
(* There are two parsers of the format: ssdu_feed of ssdu_proto.c on the   *)
(* board ("device") and Frames.feed of tools/sd_upload.py ("host").        *)
(*                                                                         *)
(* A token is a byte of the magic, the type with the version, the length,  *)
(* a byte of payload, or the CRC.  A CRC is modelled by the body it was    *)
(* computed over: damage never yields the CRC of another body.             *)
(***************************************************************************)
EXTENDS Naturals, Sequences

CONSTANTS
  Bytes,        \* values of a byte; the length of a payload is one of them
  Magic,        \* SSDU_MAGIC_0 ..
  Types,        \* the types the receiving parser accepts
  MaxPayload,   \* SSDU_MAX_PAYLOAD
  Payloads,     \* payloads that are sent
  MaxSends,     \* frames sent in a behaviour
  MaxFaults,    \* faults of the line in a behaviour
  None          \* no frame is due

Byte(n)   == <<n>>
Crc(body) == <<"crc", body>>
AsTokens(s) == [i \in 1..Len(s) |-> Byte(s[i])]

\* Type, length and payload: what the CRC covers.
Bodies == {AsTokens(<<t, Len(p)>> \o p) : t \in Types, p \in Payloads}

Tokens == {Byte(n) : n \in Bytes} \cup {Crc(body) : body \in Bodies}

ASSUME FramingAssumption ==
  /\ Bytes \subseteq Nat
  /\ Types \subseteq Bytes
  /\ MaxPayload \in Nat
  /\ Magic \in Seq(Bytes) /\ Magic # <<>>
  \* "SSDU" does not end with what it begins with.
  /\ \A k \in 1..(Len(Magic) - 1) :
       SubSeq(Magic, 1, k) # SubSeq(Magic, Len(Magic) - k + 1, Len(Magic))
  /\ Payloads \subseteq Seq(Bytes)
  /\ \A p \in Payloads : Len(p) \in Bytes /\ Len(p) <= MaxPayload
  /\ MaxSends \in Nat /\ MaxFaults \in Nat

VARIABLES
  side,       \* whose parser: "device" or "host"
  wire,       \* tokens sent and not yet received
  buf,        \* s_buf[0 .. s_used - 1]; self.buf
  late,       \* more than 2 s since s_since; since self.since
  delivered,  \* s_delivered: buf holds a frame that was passed on
  got,        \* bodies of the frames passed on
  sends, faults,
  due         \* what got must be when the wire is empty: the last frame met
              \* a silent line and nothing has befallen it since; or None

vars == <<side, wire, buf, late, delivered, got, sends, faults, due>>

Init ==
  /\ side \in {"device", "host"}
  /\ wire = <<>> /\ buf = <<>>
  /\ late = FALSE /\ delivered = FALSE
  /\ got = <<>>
  /\ sends = 0 /\ faults = 0
  /\ due = None
---------------------------------------------------------------------------
(* The format, as both parsers look at it *)

Envelope == Len(Magic) + 3
MaxFrame == Envelope + MaxPayload

Encode(body) == AsTokens(Magic) \o body \o <<Crc(body)>>

HasMagic(b)   == SubSeq(b, 1, Len(Magic)) = AsTokens(Magic)
HasHeader(b)  == Len(b) >= Len(Magic) + 2
GoodHeader(b) ==
  /\ b[Len(Magic) + 1] \in {Byte(t) : t \in Types}
  /\ b[Len(Magic) + 2] \in {Byte(n) : n \in 0..MaxPayload}

FrameLen(b)   == Envelope + b[Len(Magic) + 2][1]
Body(b)       == SubSeq(b, Len(Magic) + 1, FrameLen(b) - 1)
GoodCrc(b)    == b[FrameLen(b)] = Crc(Body(b))

\* Mutant: a frame is what its header says, whatever its CRC.
RejectedByHeader(b) ==
  /\ Len(b) >= Len(Magic)
  /\ HasMagic(b) => HasHeader(b) /\ ~GoodHeader(b)

\* Mutant: the largest length is not looked at.
RejectedAnyLength(b) ==
  /\ Len(b) >= Len(Magic)
  /\ HasMagic(b) =>
       /\ HasHeader(b)
       /\ /\ b[Len(Magic) + 1] \in {Byte(t) : t \in Types}
          /\ b[Len(Magic) + 2] \in {Byte(n) : n \in Bytes}
          => Len(b) >= FrameLen(b) /\ ~GoodCrc(b)

\* b neither is nor can become a frame with something behind it.
Rejected(b) ==
  /\ Len(b) >= Len(Magic)
  /\ HasMagic(b) =>
       /\ HasHeader(b)
       /\ GoodHeader(b) => Len(b) >= FrameLen(b) /\ ~GoodCrc(b)

IsWhole(b) ==
  /\ HasHeader(b)
  /\ ~Rejected(b)
  /\ Len(b) >= FrameLen(b)

After(b, k) == SubSeq(b, k + 1, Len(b))

\* The first byte goes until what is left is not rejected.
Resync(b) ==
  After(b, CHOOSE k \in 0..Len(b) :
             /\ ~Rejected(After(b, k))
             /\ \A j \in 0..(k - 1) : Rejected(After(b, j)))
---------------------------------------------------------------------------
(* The two parsers *)

\* Mutant: no time-out.
KeptWithoutTimer == IF delivered THEN <<>> ELSE buf

\* Mutant: a frame that was passed on stays in the buffer.
KeptAfterDelivery == IF late THEN <<>> ELSE buf

\* What is left of the bytes before when the next one comes.
Kept == IF delivered \/ late THEN <<>> ELSE buf

\* ssdu_feed returns at the first frame; what stands behind it is dropped
\* with it when the next byte comes.
DeviceFeed(b) ==
  /\ buf' = Resync(b)
  /\ delivered' = IsWhole(buf')
  /\ got' = IF IsWhole(buf') THEN Append(got, Body(buf')) ELSE got

\* Frames.feed goes on behind a frame: Rests(b)[n] is what the loop looks
\* at when it has passed on n of them.
Rests(b) ==
  LET rest[n \in 0..Len(b)] ==
        IF n = 0 THEN Resync(b)
        ELSE Resync(After(rest[n - 1], FrameLen(rest[n - 1])))
  IN rest

Found(b) ==
  CHOOSE n \in 0..Len(b) :
    ~IsWhole(Rests(b)[n]) /\ \A i \in 0..(n - 1) : IsWhole(Rests(b)[i])

HostFeed(b) ==
  /\ buf' = Rests(b)[Found(b)]
  /\ got' = got \o [i \in 1..Found(b) |-> Body(Rests(b)[i - 1])]
  /\ UNCHANGED delivered

Receive ==
  /\ wire # <<>>
  /\ wire' = Tail(wire)
  /\ late' = FALSE
  /\ LET b == Append(Kept, Head(wire)) IN
       IF side = "device" THEN DeviceFeed(b) ELSE HostFeed(b)
  /\ UNCHANGED <<side, sends, faults, due>>
---------------------------------------------------------------------------
(* The sender, the line and the clock *)

\* Nothing received so far can become part of a frame that hides the next.
Silent == wire = <<>> /\ (late \/ delivered \/ Len(buf) < Len(Magic))

Send(body) ==
  /\ sends < MaxSends
  /\ sends' = sends + 1
  /\ wire' = wire \o Encode(body)
  /\ due' = IF Silent THEN Append(got, body) ELSE None
  /\ UNCHANGED <<side, buf, late, delivered, got, faults>>

\* The next byte is lost, altered to n, or comes behind a byte n.
Fault(n) ==
  /\ faults < MaxFaults
  /\ faults' = faults + 1
  /\ due' = None
  /\ \/ wire' = <<Byte(n)>> \o wire
     \/ wire # <<>> /\ wire' \in {Tail(wire), <<Byte(n)>> \o Tail(wire)}
  /\ UNCHANGED <<side, buf, late, delivered, got, sends>>

\* Two seconds pass; the host's clock runs from a complete magic on.
Wait ==
  /\ ~late
  /\ IF side = "device" THEN buf # <<>> /\ ~delivered ELSE Len(buf) >= Len(Magic)
  /\ late' = TRUE
  /\ due' = IF wire = <<>> THEN due ELSE None
  /\ UNCHANGED <<side, wire, buf, delivered, got, sends, faults>>

Next ==
  \/ \E body \in Bodies : Send(body)
  \/ \E n \in Bytes : Fault(n)
  \/ Receive
  \/ Wait

Spec == Init /\ [][Next]_vars
---------------------------------------------------------------------------
(* Properties *)

\* The types of the parsers' state; only what was sent is passed on.
FramingTypeOK ==
  /\ side \in {"device", "host"}
  /\ wire \in Seq(Tokens)
  /\ buf \in Seq(Tokens)
  /\ late \in BOOLEAN /\ delivered \in BOOLEAN
  /\ got \in Seq(Bodies)
  /\ sends \in 0..MaxSends /\ faults \in 0..MaxFaults
  /\ due \in Seq(Bodies) \cup {None}

\* s_buf[SSDU_MAX_FRAME] takes each byte before any check: whatever lengths
\* damaged headers announce, the next byte has room.
BufferBounded ==
  side = "device" =>
    /\ Len(buf) <= MaxFrame
    /\ ~delivered => Len(buf) < MaxFrame

\* Design notes of ssdu_proto.h, "2 s reassembly timeout, resync on bad
\* magic/version/length/CRC": whatever came before, a frame that is sent
\* when the line has been silent and is not damaged itself is passed on.
QuietFrameArrives == due # None /\ wire = <<>> => got = due

\* The bodies whose CRCs stand in s (SelectSeq, which no prover unfolds).
CrcsOf(s) ==
  LET upTo[i \in 0..Len(s)] ==
        IF i = 0 THEN <<>>
        ELSE IF Len(s[i]) = 2 THEN Append(upTo[i - 1], s[i][2])
        ELSE upTo[i - 1]
  IN upTo[Len(s)]

\* What is left to the parser if the next byte comes in time.
Open == IF delivered THEN <<>> ELSE buf

\* The frames whose CRC is still on its way.
Pending == CrcsOf(Open \o wire)

Line == INSTANCE LossyLine WITH
          Frames <- Bodies,
          queue  <- Pending,
          out    <- got

\* Whatever happens to bytes, all that happens to frames is that some are
\* lost: none is made up, altered, doubled or overtaken.
IsLossyLine == Line!Spec
===========================================================================
