------------------------------ MODULE Sublists ------------------------------
(***************************************************************************)
(* Loops that go through a slice and append what they keep of it to        *)
(* another one (Ready of the scheduler, the commit of the tenant manager). *)
(***************************************************************************)
EXTENDS Naturals, Sequences

\* A slice.
IsList(s) == Len(s) \in Nat /\ s = [i \in 1 .. Len(s) |-> s[i]]

\* What such a loop makes of s: the members that lie in S, in their order.
Kept(s, S) ==
    LET kept[i \in 0 .. Len(s)] ==
            IF i = 0 THEN <<>>
            ELSE IF s[i] \in S THEN Append(kept[i - 1], s[i]) ELSE kept[i - 1]
    IN  kept[Len(s)]
=============================================================================
