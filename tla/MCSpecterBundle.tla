-------------------------- MODULE MCSpecterBundle --------------------------
(***************************************************************************)
(* Bundles for TLC: one that is sound, and the families around it that     *)
(* vary its flags, its sizes, its attribute list and its signatures.  Two  *)
(* lists of keys; k3 has the fingerprint of k1.                            *)
(***************************************************************************)
EXTENDS SpecterBundle, TLC

CONSTANTS k1, k2, k3, stranger

MCKeyLists    == <<<<k1>>, <<k2, k3>>>>
MCFingerprint == k1 :> "f1" @@ k2 :> "f2" @@ k3 :> "f1"
MCPlatform    == <<2>>

Rec(fp, signer, content) == [fp |-> fp, signer |-> signer, content |-> content]

Sound == [size |-> 9, magic |-> TRUE, sound |-> TRUE, name |-> "main", version |-> 1,
          plSize |-> 1, attrs |-> <<4, 1, 2, 0, 0>>, content |-> "c1",
          sigMagic |-> TRUE, sigName |-> "sign", sigSize |-> 4,
          records |-> <<Rec("f1", k1, "c1"), Rec("f2", k2, "c1")>>]

Flagged ==
  {[Sound EXCEPT !.magic = m, !.sound = s, !.version = v, !.name = nm,
                 !.sigMagic = sm, !.sigName = sn] :
     m \in BOOLEAN, s \in BOOLEAN, v \in {0, 1, 5, 6}, nm \in {"boot", "main", "sign", "data"},
     sm \in BOOLEAN, sn \in {"main", "sign"}}

\* Whatever the sizes say, memory holds records: two good ones, then others.
Held(len) == [i \in 1..len |-> CASE i = 1 -> Rec("f1", k1, "c1") [] i = 2 -> Rec("f2", k2, "c1")
                                 [] i = 3 -> Rec("f3", stranger, "c2")
                                 [] OTHER -> Rec("f4", stranger, "c2")]
Sized ==
  {[Sound EXCEPT !.size = z, !.plSize = p, !.sigSize = s,
                 !.records = Held(IF s <= z THEN s \div RecLen ELSE 0)] :
     z \in 1..MaxFw, p \in 0..(W - 1), s \in 0..(W - 1)}

Attributed == {[Sound EXCEPT !.attrs = a] : a \in [1..AttrLen -> 0..4]}

\* Records of a known key's fingerprint, by each of the keys, and a stranger's.
SomeRecords == {Rec(fp, s, c) : fp \in {"f1", "f2"}, s \in {k1, k2, k3}, c \in {"c1", "c2"}}
                 \cup {Rec("f3", stranger, "c1")}
Signed == {[Sound EXCEPT !.size = 11, !.sigSize = 2 * Len(r), !.records = r] :
             r \in UNION {[1..k -> SomeRecords] : k \in 0..3}}

MCBundles == Flagged \cup Sized \cup Attributed \cup Signed
===========================================================================
