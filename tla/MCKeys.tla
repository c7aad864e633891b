------------------------------- MODULE MCKeys --------------------------------
(***************************************************************************)
(* The safety of keys, devices and seats for TLC, a part at a time:        *)
(*   devices   one key, one call at a time of a device and of a super      *)
(*             admin, two changes by admins and by time                    *)
(*   races     one key, two devices that call at once                      *)
(*   seats     two keys and two super admins, no device, one change        *)
(*   terms     two keys and one super admin, no device, three changes: the *)
(*             keys of a term that is over come back with its renewal      *)
(***************************************************************************)
EXTENDS MCLicensing

CONSTANTS k1, x1

VARIABLE part

OneOperator == \A x \in Operators \ {x1} : task'[x] = task[x]

\* One key; once overtaken, it is out of what the properties speak of
OneKey ==
  /\ overtaken' = {}
  /\ \A k \in Keys \ {k1} : key'[k] = key[k]
  /\ OneOperator
  /\ \A s \in Subscriptions : /\ subscription'[s].seatLimit = 1
                             /\ subscription'[s].status # "PENDING_APPROVAL"

OneClient == Cardinality({c \in Clients : client'[c].phase # "idle"}) <= 1

\* The second change comes while the super admin is at rest
TwoChanges ==
  /\ changes' <= 2
  /\ changes' > changes /\ changes' = 2 => task[x1] = IdleTask

\* Reviews come before the change; a crowded subscription is out likewise
NoClient ==
  /\ crowded' = {}
  /\ client' = client
  /\ changes' = 0 \/ \A x \in Reviewers : review'[x].phase = "idle"

MCInit == Init /\ part \in {"devices", "races", "seats", "terms"}

MCNext ==
  /\ Next /\ UNCHANGED part
  /\ CASE part = "devices" -> OneKey /\ OneClient /\ TwoChanges
       [] part = "races" -> OneKey /\ changes' = 0
       [] part = "seats" -> NoClient /\ changes' <= 1
       [] part = "terms" -> NoClient /\ OneOperator

MCSpec == MCInit /\ [][MCNext]_<<vars, part>>

\* Each part leaves out the histories of the others' properties
ForPart == <<IF part \in {"seats", "terms"} THEN ForSeats ELSE ForDevices, part>>

LikeDevices == Permutations(Devices) \cup Permutations(Clients)
=============================================================================
