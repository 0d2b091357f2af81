-------------------------- MODULE MCBondPorts --------------------------
(* A bond of three ports, then one with a single port, so that a status read *)
(* for the wrong bond and a bond without redundancy both occur; and a bond   *)
(* of two.                                                                   *)
EXTENDS BondPorts, TLC

CONSTANTS eth0, eth1, eth2, eth3

TwoBonds == << <<eth0, eth1, eth2>>, <<eth3>> >>
OneBond  == << <<eth0, eth1>> >>

Symmetry == Permutations(Commands)
==========================================================================
