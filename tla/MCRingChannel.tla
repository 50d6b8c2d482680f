--------------------------- MODULE MCRingChannel ---------------------------
(* Small instances of RingChannel: who calls which operation. *)
EXTENDS RingChannel, TLC

CONSTANTS p1, p2, c1

\* Every way to write, every way to read, and a thread that competes for both
\* directions, as a producer and as a consumer.
WideOps == (p1 :> WriteOps) @@ (p2 :> {"overwrite", "next"}) @@ (c1 :> ReadOps)

\* The smallest mix in which both directions are contended.
NarrowOps == [t \in Threads |->
    IF t \in {p1, p2} THEN {"overwrite"} ELSE {"next"}]

\* Payloads are only copied and compared: behaviours that differ by a
\* permutation of them satisfy the same safety properties.
PayloadSymmetry == Permutations(Msgs)
=============================================================================
