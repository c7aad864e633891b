----------------------------- MODULE MCLicensing -----------------------------
(***************************************************************************)
(* Licensing for TLC.                                                      *)
(***************************************************************************)
EXTENDS Licensing, TLC

\* The statuses super admins write in a run: the paying one; those of a
\* request and its approval.
OnlyActive == {"ACTIVE"}

Requests == {"ACTIVE", "PENDING_APPROVAL"}

\* What a run that checks devices, or one that checks seats, tells states
\* apart by: the histories of the other properties are left out.
ForDevices == <<subscription, organization, review, changes, key, activation,
                client,
                [x \in Operators |-> [f \in DOMAIN task[x] \
                   {"seenUsable", "seenLimit"} |-> task[x][f]]],
                overtaken, returned, revived, torn, sweep>>

ForSeats == <<subscription, organization, review, changes, key, activation,
              client, task, revived, crowded, sweep>>

Interchangeable == Permutations(Keys) \cup Permutations(Devices) \cup
                   Permutations(Clients) \cup Permutations(Operators)
=============================================================================
