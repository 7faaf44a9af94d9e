---------------------------- MODULE MCUdpSockets ----------------------------
(***************************************************************************)
(* The networks UdpSockets is checked in.                                  *)
(***************************************************************************)
EXTENDS UdpSockets

\* Every agent type in a clean network.
CleanSettings ==
  {[mode |-> m, late |-> FALSE, requests |-> 3, duplicates |-> 0] :
     m \in {"nic", "sym", "lat", "thr"}}

\* NIC timestamps at any time, a reply twice.
RoughSetting == [mode |-> "nic", late |-> TRUE, requests |-> 2, duplicates |-> 1]

AllSettings == CleanSettings \cup {RoughSetting}

\* Nothing is wrong but the time at which timestamps come.
LateSettings == {[RoughSetting EXCEPT !.duplicates = 0]}
=============================================================================
