------------------------------ MODULE MC_PbAdv ------------------------------
(***************************************************************************)
(* Values of the constants of PbAdv that a .cfg cannot write, and the      *)
(* instances the runs check.                                               *)
(***************************************************************************)
EXTENDS PbAdv, TLC

\* What a node next to another provisioning link hears.
OthersPackets == {TransAckPkt(0, 0), LinkClosePkt(0, FAIL)}

\* A device of another link answers its own provisioner.
OthersSegment == {SegPkt(0, 128, CAPABILITES, 0)}

\* An address tells an object from another one and nothing else.
AddrSymmetry == Permutations(Addrs)
=============================================================================
