---------------------------- MODULE OrderQueues ----------------------------
(***************************************************************************)
(* Queues of orders [id, volume], oldest first, and what draining volume   *)
(* from the front leaves of them.                                          *)
(***************************************************************************)
EXTENDS Integers, Sequences, SequencesExt, FiniteSets

(* The sums of the first k members of s.                                    *)
PartialSums(s) ==
  LET sum[k \in 0 .. Len(s)] == IF k = 0 THEN 0 ELSE sum[k - 1] + s[k]
  IN  sum

(* The volume of the first k orders of q, and that of all of them.          *)
Upto(q) == PartialSums([k \in DOMAIN q |-> q[k].volume])
Volume(q) == Upto(q)[Len(q)]

(* q without its first v units: whole orders go first, the order that is    *)
(* only partly taken keeps its place and the rest of its volume.            *)
Drained(q, v) ==
  LET upto == Upto(q)
      gone == Cardinality({k \in DOMAIN q : upto[k] <= v})
  IN  [k \in 1 .. Len(q) - gone |->
         [q[gone + k] EXCEPT !.volume = IF k = 1 /\ v > 0
                                          THEN upto[gone + 1] - v ELSE @]]
=============================================================================
