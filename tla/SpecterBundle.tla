--------------------------- MODULE SpecterBundle ---------------------------
(***************************************************************************)
(* Step 2.5 of app_main in main/main.c: the checks that decide whether the *)
(* bundle in memory may be run, with what they call of bundle_validate.c   *)
(* and of the Specter library (bl_section.c, bl_signature.c).  Loader has  *)
(* them as one action over the checks a bundle fails; here they are the    *)
(* code's own, over the fields and the addresses the code computes with.   *)
(*                                                                         *)
(* A bundle is a section header, the payload it announces, a second header *)
(* and the signature records that one announces.  Neither announced size   *)
(* need be true: what stands where the second header is looked for, and    *)
(* what stands where the records are, is any data.  Addresses are 32 bits  *)
(* wide, W stands for 2^32.                                                *)
(*                                                                         *)
(* A signature is its key and the content it was made for, so that the     *)
(* check of a signature is a comparison; the message that is signed is     *)
(* identified with the content hashed into it.  read is the range of       *)
(* addresses the last step has read.                                       *)
(***************************************************************************)
EXTENDS Integers, Sequences, FiniteSets

CONSTANTS
  W,            \* 2^32
  Base,         \* where the bundle is in memory
  MaxFw,        \* MAX_FIRMWARE_SIZE
  HdrLen,       \* sizeof(bl_section_t)
  RecLen,       \* sizeof(signature_rec_t)
  PayloadMax,   \* BL_PAYLOAD_SIZE_MAX
  VersionMax,   \* BL_VERSION_MAX
  AttrLen,      \* size of attr_list
  StrMax,       \* BL_ATTR_STR_MAX
  PlatformKey,  \* bl_attr_platform
  Platform,     \* EXPECTED_PLATFORM, in bytes
  KeyLists,     \* pubkeys_boot: a sequence of sequences of keys
  Fingerprint,  \* of each key; two keys may have the same
  Threshold,    \* SIG_THRESHOLD
  Nobody,       \* no key
  Bundles       \* the bundles tried

Keys == UNION {{KeyLists[i][j] : j \in DOMAIN KeyLists[i]} : i \in DOMAIN KeyLists}

\* The loader puts the bundle where twice its size does not wrap around.
ASSUME BundleAssumption ==
  /\ {W, Base, MaxFw, HdrLen, RecLen, PayloadMax, VersionMax, AttrLen, StrMax, Threshold}
       \subseteq Nat \ {0}
  /\ Base + 2 * MaxFw < W
  /\ HdrLen + PayloadMax < W
  /\ KeyLists \in Seq(Seq(Keys))
  /\ Platform \in Seq(Nat)
  /\ Nobody \notin Keys
  /\ \A b \in Bundles :
       /\ b.size \in 1..MaxFw
       /\ b.plSize \in 0..(W - 1) /\ b.sigSize \in 0..(W - 1)
       /\ b.version \in Nat
       /\ b.attrs \in [1..AttrLen -> Nat]
       /\ Len(b.records) \in Nat /\ DOMAIN b.records = 1..Len(b.records)
       /\ b.sigSize <= b.size => Len(b.records) = b.sigSize \div RecLen

VARIABLES
  bundle,  \* the bundle, as psram_buf holds it
  check,   \* the check that is next, or the verdict
  sigHdr,  \* sig_hdr
  n,       \* idx in blsig_verify_multisig_internal, from 1
  valid,   \* n_valid
  read     \* the range <<from, to>> of addresses just read

bvars == <<bundle, check, sigHdr, n, valid, read>>

Verdicts == {"accepted", "rejected"}
Checks   == {"magic", "header", "platform", "version", "mainSize", "hash",
             "sigBounds", "sigSection", "message", "duplicates", "record"}

Nothing == <<Base, Base>>

BundleInit ==
  /\ bundle \in Bundles
  /\ check = "magic"
  /\ sigHdr = 0
  /\ n = 1
  /\ valid = 0
  /\ read = Nothing

\* 32-bit addition.
a (+) b == (a + b) % W

BundleEnd == Base (+) bundle.size

\* A check that passes leads to the next one, one that fails wipes and halts.
Decide(ok, next) == check' = IF ok THEN next ELSE "rejected"

Reads(from, to) == read' = <<from, to>>
---------------------------------------------------------------------------
(* The attribute list *)

\* validate_attributes, from position p on: the entries fit the list, and
\* what follows the last one is zero.
AttributesFit(list) ==
  LET fit[p \in 1..(AttrLen + 1)] ==
        IF p > AttrLen THEN TRUE
        ELSE IF list[p] = 0 THEN \A q \in p..AttrLen : list[q] = 0
        ELSE /\ p + 1 <= AttrLen
             /\ p + 1 + list[p + 1] <= AttrLen
             /\ fit[p + 2 + list[p + 1]]
  IN fit[1]

\* Mutant: the value of an attribute is not skipped.
FindAttributeInValues(list, key) ==
  LET find[p \in 1..(AttrLen + 1)] ==
        IF p >= AttrLen \/ list[p] = 0 \/ p + 1 + list[p + 1] > AttrLen THEN 0
        ELSE IF list[p] = key THEN p + 1
        ELSE find[p + 2]
  IN find[1]

\* find_attribute: the position of the size byte, or 0.
FindAttribute(list, key) ==
  LET find[p \in 1..(AttrLen + 1)] ==
        IF p >= AttrLen \/ list[p] = 0 \/ p + 1 + list[p + 1] > AttrLen THEN 0
        ELSE IF list[p] = key THEN p + 1
        ELSE find[p + 2 + list[p + 1]]
  IN find[1]

\* blsect_get_attr_str and the comparison with EXPECTED_PLATFORM.
ForThisPlatform(list) ==
  LET at == FindAttribute(list, PlatformKey) IN
  /\ at > 0
  /\ list[at] + 1 <= StrMax
  /\ SubSeq(list, at + 1, at + list[at]) = Platform
---------------------------------------------------------------------------
(* The checks of app_main, in its order *)

CheckMagic ==
  /\ check = "magic"
  /\ Decide(bundle.magic, "header")
  /\ Reads(Base, Base (+) HdrLen)
  /\ UNCHANGED <<bundle, sigHdr, n, valid>>

\* blsect_validate_header; sound: revision, CRC and name of the section.
CheckHeader ==
  /\ check = "header"
  /\ Decide(/\ bundle.sound
            /\ bundle.version <= VersionMax
            /\ bundle.plSize \in 1..PayloadMax
            /\ AttributesFit(bundle.attrs), "platform")
  /\ Reads(Base, Base (+) HdrLen)
  /\ UNCHANGED <<bundle, sigHdr, n, valid>>

CheckPlatform ==
  /\ check = "platform"
  /\ Decide(ForThisPlatform(bundle.attrs), "version")
  /\ Reads(Base, Base (+) HdrLen)
  /\ UNCHANGED <<bundle, sigHdr, n, valid>>

CheckVersion ==
  /\ check = "version"
  /\ Decide(bundle.version >= 1, "mainSize")
  /\ Reads(Base, Base (+) HdrLen)
  /\ UNCHANGED <<bundle, sigHdr, n, valid>>

\* bundle_validate_main_size
MainFits == HdrLen (+) bundle.plSize <= bundle.size

CheckMainSize ==
  /\ check = "mainSize"
  /\ Decide(MainFits, "hash")
  /\ UNCHANGED <<bundle, sigHdr, n, valid, read>>

\* blsect_hash_over_flash refuses a signature section.
HashMain ==
  /\ check = "hash"
  /\ Decide(bundle.name # "sign", "sigBounds")
  /\ Reads(Base, Base (+) HdrLen (+) bundle.plSize)
  /\ UNCHANGED <<bundle, sigHdr, n, valid>>

\* Mutant: the size of the records is not compared with the bundle's first.
SigFitsByAddress(hdr) ==
  /\ MainFits
  /\ hdr (+) HdrLen <= BundleEnd
  /\ hdr (+) HdrLen (+) bundle.sigSize <= BundleEnd

\* Mutant: a bundle that ends with the last record is refused.
SigFitsStrictly(hdr) ==
  /\ MainFits
  /\ hdr (+) HdrLen <= BundleEnd
  /\ bundle.sigSize <= bundle.size
  /\ hdr (+) HdrLen (+) bundle.sigSize < BundleEnd

\* bundle_validate_sig_section; the announced size of the records is read
\* once it is known that their header is in the bundle.
SigFits(hdr) ==
  /\ MainFits
  /\ hdr (+) HdrLen <= BundleEnd
  /\ bundle.sigSize <= bundle.size
  /\ hdr (+) HdrLen (+) bundle.sigSize <= BundleEnd

CheckSigBounds ==
  LET hdr == Base (+) HdrLen (+) bundle.plSize IN
  /\ check = "sigBounds"
  /\ Decide(SigFits(hdr), "sigSection")
  /\ sigHdr' = hdr
  /\ IF hdr (+) HdrLen <= BundleEnd
     THEN Reads(hdr, hdr (+) HdrLen)
     ELSE UNCHANGED read
  /\ UNCHANGED <<bundle, n, valid>>

CheckSigSection ==
  /\ check = "sigSection"
  /\ Decide(bundle.sigMagic /\ bundle.sigName = "sign", "message")
  /\ Reads(sigHdr, sigHdr (+) HdrLen)
  /\ UNCHANGED <<bundle, sigHdr, n, valid>>

\* blsect_make_signature_message knows two section names.
MakeMessage ==
  /\ check = "message"
  /\ Decide(bundle.name \in {"boot", "main"}, "duplicates")
  /\ UNCHANGED <<bundle, sigHdr, n, valid, read>>
---------------------------------------------------------------------------
(* blsig_verify_multisig *)

Records    == bundle.records
RecordAt(k) == sigHdr (+) HdrLen (+) (k - 1) * RecLen

\* Mutant: a record is compared with the one after it only.
NeighboursDistinct ==
  \A k \in 1..(Len(Records) - 1) : Records[k].fp # Records[k + 1].fp

\* check_duplicating_signatures
AllDistinct ==
  \A k, m \in DOMAIN Records : k # m => Records[k].fp # Records[m].fp

CheckDuplicates ==
  /\ check = "duplicates"
  /\ Decide(/\ bundle.sigSize >= RecLen
            /\ bundle.sigSize % RecLen = 0
            /\ AllDistinct, "record")
  /\ IF bundle.sigSize >= RecLen /\ bundle.sigSize % RecLen = 0
     THEN Reads(RecordAt(1), RecordAt(1) (+) bundle.sigSize)
     ELSE UNCHANGED read
  /\ UNCHANGED <<bundle, sigHdr, n, valid>>

\* find_pubkey: the first key of the first list that has the fingerprint.
Places == UNION {{<<i, j>> : j \in DOMAIN KeyLists[i]} : i \in DOMAIN KeyLists}
Matches(fp) == {p \in Places : Fingerprint[KeyLists[p[1]][p[2]]] = fp}
Before(p, q) == p[1] < q[1] \/ (p[1] = q[1] /\ p[2] <= q[2])
FindPubkey(fp) ==
  IF Matches(fp) = {} THEN Nobody
  ELSE LET p == CHOOSE p \in Matches(fp) : \A q \in Matches(fp) : Before(p, q)
       IN KeyLists[p[1]][p[2]]

\* verify_signature
Verifies(rec, key) == rec.signer = key /\ rec.content = bundle.content

\* Mutant: a signature is counted before it is verified.
CheckRecordCountsFirst ==
  /\ check = "record"
  /\ n <= Len(Records)
  /\ LET key == FindPubkey(Records[n].fp) IN
     /\ valid' = IF key = Nobody THEN valid ELSE valid + 1
     /\ IF key # Nobody /\ ~Verifies(Records[n], key)
        THEN check' = "rejected" /\ UNCHANGED n
        ELSE n' = n + 1 /\ UNCHANGED check
  /\ Reads(RecordAt(n), RecordAt(n) (+) RecLen)
  /\ UNCHANGED <<bundle, sigHdr>>

\* A record of no known key is passed over; a wrong signature of a known key
\* ends it all.
CheckRecord ==
  /\ check = "record"
  /\ n <= Len(Records)
  /\ LET key == FindPubkey(Records[n].fp) IN
     IF key # Nobody /\ ~Verifies(Records[n], key)
     THEN check' = "rejected" /\ UNCHANGED <<n, valid>>
     ELSE /\ n' = n + 1
          /\ valid' = IF key = Nobody THEN valid ELSE valid + 1
          /\ UNCHANGED check
  /\ Reads(RecordAt(n), RecordAt(n) (+) RecLen)
  /\ UNCHANGED <<bundle, sigHdr>>

CheckThreshold ==
  /\ check = "record"
  /\ n > Len(Records)
  /\ Decide(valid >= Threshold, "accepted")
  /\ UNCHANGED <<bundle, sigHdr, n, valid, read>>

BundleNext ==
  \/ CheckMagic \/ CheckHeader \/ CheckPlatform \/ CheckVersion \/ CheckMainSize
  \/ HashMain \/ CheckSigBounds \/ CheckSigSection \/ MakeMessage
  \/ CheckDuplicates \/ CheckRecord \/ CheckThreshold

BundleSpec == BundleInit /\ [][BundleNext]_bvars
---------------------------------------------------------------------------
(* Properties *)

BundleTypeOK ==
  /\ check \in Checks \cup Verdicts
  /\ sigHdr \in 0..(W - 1)
  /\ n \in 1..(Len(Records) + 1)
  /\ valid \in 0..(n - 1)
  /\ read \in (0..(W - 1)) \X (0..(W - 1))

\* What bundle_validate.h is for: no check reads beyond the bundle, whatever
\* sizes the bundle announces.  (A file shorter than a header is read as if
\* it had one: app_main looks at the header before it looks at the size.)
\* security_analysis.md (A8, T10) reports such a read for a forged pl_size; with
\* bundle_validate_main_size in front of the hash there is none.
ReadsStayInBundle ==
  bundle.size >= HdrLen =>
    Base <= read[1] /\ read[1] <= read[2] /\ read[2] <= Base + bundle.size

\* The attribute list as bl_section.h has it: entries of a key, a size and a
\* value that begin at the positions in starts, then zeros from end on.
ParsesAs(list, starts, end) ==
  LET next(p) == p + 2 + list[p + 1] IN
  /\ \A q \in end..AttrLen : list[q] = 0
  /\ 1 \in starts \cup {end}
  /\ \A p \in starts : p < end /\ p < AttrLen /\ list[p] # 0 /\ next(p) \in starts \cup {end}
  /\ \A p \in starts : p = 1 \/ \E q \in starts : q < AttrLen /\ next(q) = p

NamesPlatform(list) ==
  \E starts \in SUBSET (1..AttrLen), end \in 1..(AttrLen + 1) :
    /\ ParsesAs(list, starts, end)
    /\ \E p \in starts :
         /\ list[p] = PlatformKey
         /\ \A q \in starts : q < p => list[q] # PlatformKey
         /\ SubSeq(list, p + 2, p + 1 + list[p + 1]) = Platform

HeaderIsRight ==
  /\ bundle.magic /\ bundle.sound
  /\ bundle.version \in 1..VersionMax
  /\ bundle.name \in {"boot", "main"}
  /\ NamesPlatform(bundle.attrs)
  /\ bundle.plSize \in 1..PayloadMax
LayoutIsRight ==
  /\ bundle.sigMagic /\ bundle.sigName = "sign"
  /\ HdrLen + bundle.plSize + HdrLen + bundle.sigSize <= bundle.size

\* What is run names this board's platform in its attribute list, and its
\* payload, its second header and its records lie in the bundle one after the
\* other, in arithmetic that does not wrap around.
AcceptedIsWellFormed == check = "accepted" => HeaderIsRight /\ LayoutIsRight

\* The authorised keys that have signed this very content.
Signers == {k \in Keys : \E i \in DOMAIN Records :
              Records[i].signer = k /\ Records[i].content = bundle.content}

\* keys/vendor_keys.h: what is run was signed by at least SIG_THRESHOLD
\* different vendor keys; the same signature twice, a stranger's, or one of
\* other content never counts.
AcceptedIsAuthorized == check = "accepted" => Cardinality(Signers) >= Threshold

\* A release made by the packaging tools is never refused: right header,
\* right layout, one signature of each signer, whose key is the first of its
\* fingerprint.
RejectedIsFaulty ==
  check = "rejected" =>
    ~(/\ HeaderIsRight /\ LayoutIsRight
      /\ Len(Platform) < StrMax
      /\ bundle.sigSize = RecLen * Len(Records)
      /\ \A k, m \in DOMAIN Records : k # m => Records[k].signer # Records[m].signer
      /\ \A k \in DOMAIN Records :
           /\ Records[k].signer \in Keys
           /\ Records[k].fp = Fingerprint[Records[k].signer]
           /\ FindPubkey(Records[k].fp) = Records[k].signer
           /\ Records[k].content = bundle.content
      /\ Len(Records) >= Threshold)
===========================================================================
