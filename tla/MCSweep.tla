------------------------------- MODULE MCSweep -------------------------------
(***************************************************************************)
(* The sweep for TLC, a part at a time:                                    *)
(*   terms     one device, two changes by admins and by time               *)
(*   devices   two devices that take the key one after the other, one      *)
(*             change                                                      *)
(***************************************************************************)
EXTENDS MCLicensing

CONSTANT d1

VARIABLE part

OneDevice ==
  \A c \in Clients : client'[c].phase # "idle" => client'[c].device \in {d1, NoDevice}

SweepInit == Init /\ part \in {"terms", "devices"}

SweepNext ==
  /\ Next /\ UNCHANGED part
  /\ IF part = "terms" THEN OneDevice ELSE changes' <= 1

\* Neither part holds back the sweep, which changes no count and no call
SweepSpec == SweepInit /\ [][SweepNext]_<<vars, part>> /\ Fairness
=============================================================================
