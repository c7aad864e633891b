----------------------------- MODULE KeyCustody ------------------------------
(***************************************************************************)
(* What the hardware keys promise the devices, whatever the calls, resets, *)
(* renewals and sweeps they are used through: a key is held by one device  *)
(* at a time; another comes to hold it only after it was let go; a revoked *)
(* key is held by nobody, is given to nobody, and stays revoked until the  *)
(* organization is closed.  Nothing is promised of a key that calls have   *)
(* got in each other's way on.                                             *)
(***************************************************************************)
CONSTANTS Keys, Devices

VARIABLES
  holders,   \* the devices that hold each key
  revoked,   \* the keys that were taken out of use by hand
  disputed,  \* the keys nothing is promised of any longer
  closed     \* the organization is over, and its keys with it

custodyVars == <<holders, revoked, disputed, closed>>

CustodyInit ==
  /\ holders = [k \in Keys |-> {}]
  /\ revoked = {}

\* A device comes to hold a key that nobody else holds, or holds it on
Taken(k) ==
  /\ \E d \in Devices : holders[k] \subseteq {d} /\ holders'[k] = {d}
  /\ k \notin revoked \cup revoked'

\* A key is let go, or nothing happens to it
LetGo(k) ==
  /\ holders'[k] \subseteq holders[k]
  /\ k \in revoked' => holders'[k] = {}
  /\ k \in revoked => k \in revoked' \/ closed

\* Any number of keys are let go of at once, one at a time is taken
CustodyStep ==
  /\ disputed \subseteq disputed'
  /\ closed => closed'
  /\ \A k \in Keys \ disputed' : Taken(k) \/ LetGo(k)
  /\ \A k, l \in Keys \ disputed' : ~LetGo(k) /\ ~LetGo(l) => k = l

CustodySpec == CustodyInit /\ [][CustodyStep]_custodyVars
=============================================================================
