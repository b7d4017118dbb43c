----------------------------- MODULE LossyLine -----------------------------
(***************************************************************************)
(* What framing promises of the serial line: frames arrive whole, as they  *)
(* were sent, in the order they were sent in and each at most once; any of *)
(* them may be lost.  SsduSession builds on this line.                     *)
(***************************************************************************)
EXTENDS Naturals, Sequences

CONSTANT Frames

VARIABLES
  queue,   \* frames on their way
  out      \* frames that have arrived

lvars == <<queue, out>>

Increasing(k, n) ==
  {f \in [1..k -> 1..n] : \A i, j \in 1..k : i < j => f[i] < f[j]}

\* What may be left of a sequence when some of its elements are lost.
Remnants(s) ==
  UNION {{[i \in 1..k |-> s[f[i]]] : f \in Increasing(k, Len(s))} :
           k \in 0..Len(s)}

Init == queue = <<>> /\ out = <<>>

Send(f) ==
  /\ queue' = Append(queue, f)
  /\ UNCHANGED out

\* Of the first k frames some arrive, of the others some stay on their way;
\* the rest is lost.
Move(k) ==
  /\ \E s \in Remnants(SubSeq(queue, 1, k)) : out' = out \o s
  /\ queue' \in Remnants(SubSeq(queue, k + 1, Len(queue)))

Next ==
  \/ \E f \in Frames : Send(f)
  \/ \E k \in 0..Len(queue) : Move(k)

Spec == Init /\ [][Next]_lvars
===========================================================================
