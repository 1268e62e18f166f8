---------------------------- MODULE MCOVHMachine ----------------------------
(* Small instances of OVHMachine for TLC.                                   *)
EXTENDS OVHMachine, TLC

CONSTANTS m1, m2, i1, i2, i3, n1, n2

\* One name per machine; one name for all, which names longer than 63 characters
\* may be cut down to; the function Machines -> Instances that adopts none.
OwnNames  == [m \in Machines |-> IF m = m1 THEN n1 ELSE n2]
SameName  == [m \in Machines |-> n1]
AdoptNone == [m \in Machines |-> None]
AdoptI1   == [m \in Machines |-> IF m = m1 THEN i1 ELSE None]

\* Instances that do not exist yet are interchangeable.
FreshSymmetry == Permutations(Instances \ Existing)
=============================================================================
