--------------------------- MODULE AtomicPublish ---------------------------
(***************************************************************************)
(* What the uploader promises about the names a user sees on the card:     *)
(* a file comes into being whole, with exactly the data its transaction    *)
(* announced, under a name nothing had; it is never changed afterwards;    *)
(* and nothing is removed while a transaction is open.                     *)
(***************************************************************************)
CONSTANTS Names, Contents, Absent, Dir, None

VARIABLES
  files,   \* what each name stands for: data, Dir or Absent
  offer    \* the open transaction: None or what it announced

pvars == <<files, offer>>

Offers == [name : Names, data : Contents]

Init ==
  /\ files \in [Names -> Contents \cup {Absent, Dir}]
  /\ offer = None

Announce(o) ==
  /\ offer = None
  /\ files[o.name] = Absent
  /\ offer' = o
  /\ UNCHANGED files

Withdraw ==
  /\ offer # None
  /\ offer' = None
  /\ UNCHANGED files

Publish ==
  /\ offer # None
  /\ files[offer.name] = Absent
  /\ files' = [files EXCEPT ![offer.name] = offer.data]
  /\ offer' = None

Delete(n) ==
  /\ offer = None
  /\ files[n] \in Contents
  /\ files' = [files EXCEPT ![n] = Absent]
  /\ UNCHANGED offer

\* Not the uploader's doing: a file shows up on the card.
Appear(n, d) ==
  /\ files[n] = Absent
  /\ files' = [files EXCEPT ![n] = d]
  /\ UNCHANGED offer

Next ==
  \/ \E o \in Offers : Announce(o)
  \/ Withdraw
  \/ Publish
  \/ \E n \in Names : Delete(n)
  \/ \E n \in Names, d \in Contents : Appear(n, d)

Spec == Init /\ [][Next]_pvars
===========================================================================
