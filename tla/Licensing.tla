------------------------------ MODULE Licensing ------------------------------
(***************************************************************************)
(* Subscriptions and hardware keys together, with what touches both: the   *)
(* seat limit of a subscription, its renewal, the archiving of the         *)
(* organization, and the daily sweep that takes the keys of an             *)
(* organization whose term is over (licensing.service.ts, admin.service.ts *)
(* and the cron entry of vercel.json).                                     *)
(***************************************************************************)
EXTENDS HardwareKeys

VARIABLE sweep  \* how far the running sweep is

vars == <<subscriptionVars, keyVars, sweep>>

TypeOK ==
  /\ SubscriptionsTypeOK
  /\ KeysTypeOK
  /\ sweep \in {"idle", "expired", "listed"}

Init ==
  /\ SubscriptionsInit
  /\ KeysInit
  /\ sweep = "idle"

\* expiresAt of the key is over
KeyDateReached(k) ==
  /\ Counted
  /\ key[k].status # "none"
  /\ ~key[k].past
  /\ key' = [key EXCEPT ![k].past = TRUE]
  /\ UNCHANGED <<subscription, organization, review, activation, client, task,
                 overtaken, returned, revived, torn, crowded, sweep>>

(***************************************************************************)
(* updateSubscription with a seat limit: assertSubscriptionSeatCapacity    *)
(* counts the usable keys, then the row is updated.                        *)
(***************************************************************************)
ResizeRead(x, s, n) ==
  /\ task[x].phase = "idle"
  /\ Exists(s)
  /\ Managed
  /\ n >= Cardinality(UsableKeys(s))
  /\ task' = [task EXCEPT ![x] =
       [phase |-> "resizing", sub |-> s, seenUsable |-> UsableKeys(s),
        seenLimit |-> subscription[s].seatLimit, limit |-> n]]
  /\ UNCHANGED <<subscriptionVars, key, activation, client, overtaken,
                 returned, revived, torn, crowded, sweep>>

ResizeWrite(x) ==
  LET t == task[x] IN
  /\ t.phase = "resizing"
  /\ subscription' = [subscription EXCEPT ![t.sub].seatLimit = t.limit]
  /\ task' = [task EXCEPT ![x] = IdleTask]
  /\ crowded' = crowded \cup Crowds(t)
  /\ UNCHANGED <<organization, review, changes, key, activation, client,
                 overtaken, returned, revived, torn, sweep>>

(***************************************************************************)
(* renewSubscription, one transaction.  With extendKeys every key of the   *)
(* organization that is not disabled gets the new date, and the expired    *)
(* ones become available again.                                            *)
(***************************************************************************)
ExtendedReenablingRevoked(k) ==
  IF key[k].status = "none" THEN key[k]
  ELSE [key[k] EXCEPT !.past = FALSE,
                      !.status = IF @ # "BOUND" THEN "AVAILABLE" ELSE @]

Extended(k) ==
  IF key[k].status \in {"none", "DISABLED"} THEN key[k]
  ELSE [key[k] EXCEPT !.past = FALSE,
                      !.status = IF @ = "EXPIRED" THEN "AVAILABLE" ELSE @]

Renew(s, extendKeys) ==
  /\ Counted
  /\ Exists(s)
  /\ Managed
  /\ subscription' = [subscription EXCEPT ![s].status = "ACTIVE",
                                          ![s].ended = FALSE]
  /\ \/ ~extendKeys /\ UNCHANGED <<key, revived>>
     \/ /\ extendKeys
        /\ key' = [k \in Keys |-> Extended(k)]
        /\ revived' = revived \cup {k \in Keys : key[k].status = "EXPIRED"}
  /\ UNCHANGED <<organization, review, activation, client, task, overtaken,
                 returned, torn, crowded, sweep>>

(***************************************************************************)
(* deleteOrganization: what its one transaction does to the subscriptions, *)
(* the keys and the activations.                                           *)
(***************************************************************************)
ArchiveOrganization ==
  /\ Counted
  /\ Managed
  /\ organization' = "archived"
  /\ subscription' = [s \in Subscriptions |->
       IF subscription[s].status \in {"ACTIVE", "TRIAL"}
       THEN [subscription[s] EXCEPT !.status = "CANCELED", !.ended = TRUE]
       ELSE subscription[s]]
  /\ key' = [k \in Keys |->
       [key[k] EXCEPT !.status = IF @ = "none" THEN @ ELSE "DISABLED"]]
  /\ activation' = [k \in Keys |-> [d \in Devices |->
       IF activation[k][d] = "none" THEN "none" ELSE "DISABLED"]]
  /\ UNCHANGED <<review, client, task, overtaken, returned, revived, torn,
                 crowded, sweep>>

-----------------------------------------------------------------------------
(***************************************************************************)
(* sweepSubscriptions: expire the subscriptions whose end date is over,    *)
(* list the invalid ones, and take the keys and the activations of their   *)
(* organization.  The reminder mails between the first two statements      *)
(* change nothing here.                                                    *)
(***************************************************************************)
Lapsed(s) == subscription[s].status = "ACTIVE" /\ subscription[s].ended

Invalid(s) ==
  /\ Exists(s)
  /\ \/ subscription[s].status \in {"EXPIRED", "CANCELED"}
     \/ subscription[s].archived
     \/ organization # "ACTIVE"

SweepExpire ==
  /\ sweep = "idle"
  /\ subscription' = [s \in Subscriptions |->
       IF Lapsed(s) THEN [subscription[s] EXCEPT !.status = "EXPIRED"]
       ELSE subscription[s]]
  /\ sweep' = "expired"
  /\ UNCHANGED <<organization, review, changes, keyVars>>

SweepList ==
  /\ sweep = "expired"
  /\ sweep' = IF \E s \in Subscriptions : Invalid(s) THEN "listed" ELSE "idle"
  /\ UNCHANGED <<subscriptionVars, keyVars>>

SweptWhenBound(k) == key[k].status = "BOUND"

Swept(k) == Usable(k)

SweepDisable ==
  /\ sweep = "listed"
  /\ key' = [k \in Keys |->
       IF Swept(k) THEN [key[k] EXCEPT !.status = "EXPIRED", !.bound = NoDevice]
       ELSE key[k]]
  /\ activation' = [k \in Keys |-> [d \in Devices |->
       IF activation[k][d] = "ACTIVE" THEN "DISABLED" ELSE activation[k][d]]]
  /\ sweep' = "idle"
  /\ UNCHANGED <<subscriptionVars, client, task, overtaken, returned, revived,
                 torn, crowded>>

\* The function is killed, or a statement fails.
SweepAborts ==
  /\ sweep # "idle"
  /\ sweep' = "idle"
  /\ UNCHANGED <<subscriptionVars, keyVars>>

-----------------------------------------------------------------------------
LicensingNext ==
  \/ \E k \in Keys : KeyDateReached(k)
  \/ \E x \in Operators :
       \/ \E s \in Subscriptions, n \in SeatLimits : ResizeRead(x, s, n)
       \/ ResizeWrite(x)
  \/ \E s \in Subscriptions, extendKeys \in BOOLEAN : Renew(s, extendKeys)
  \/ ArchiveOrganization
  \/ SweepExpire
  \/ SweepList
  \/ SweepDisable
  \/ SweepAborts

Next ==
  \/ SubscriptionsNext /\ UNCHANGED <<keyVars, sweep>>
  \/ KeysNext /\ UNCHANGED <<subscriptionVars, sweep>>
  \/ LicensingNext

Spec == Init /\ [][Next]_vars

(***************************************************************************)
(* The cron job starts a sweep every day, and some of the sweeps go        *)
(* through; nobody else is obliged to do anything.                         *)
(***************************************************************************)
Fairness ==
  /\ WF_vars(SweepExpire)
  /\ SF_vars(SweepList)
  /\ SF_vars(SweepDisable)

FairSpec == Spec /\ Fairness

-----------------------------------------------------------------------------
(***************************************************************************)
(* A key serves one device at a time, as bindHardwareActivation's limit    *)
(* check wants it, except after one of two things: a call overtook it on   *)
(* this key, or a device came back to the key after losing it.  No other   *)
(* history of binds, resets, renewals, sweeps and replacements gives a key *)
(* a second active device.                                                 *)
(***************************************************************************)
OneDevicePerKey ==
  \A k \in Keys \ (overtaken \cup returned) : Cardinality(ActiveDevices(k)) <= 1

(***************************************************************************)
(* The pointer of a bound key is the device it serves, which is what       *)
(* resetHardwareActivation looks the key up by: except on a key that was   *)
(* overtaken or revived, or whose reset stopped or is half way.            *)
(***************************************************************************)
PointerIsActiveDevice ==
  \A k \in Keys \ (overtaken \cup revived \cup torn) :
    key[k].status = "BOUND" /\ (\A x \in Operators : ~HalfReset(x, k))
      => key[k].bound \in ActiveDevices(k)

(***************************************************************************)
(* A revoked key stays revoked, whatever is renewed, extended, replaced or *)
(* reset, but for a device call that had read it before the revocation;    *)
(* and until the organization is archived, which leaves pointers on the    *)
(* keys it disables for a later reset to find.                             *)
(***************************************************************************)
ReadBeforeRevocation(k) ==
  \E c \in Clients : /\ client[c].phase # "idle"
                     /\ client[c].key = k
                     /\ client[c].seenKey.status # "DISABLED"
                     /\ client'[c].phase = "idle"

RevokedStaysRevoked ==
  [][\A k \in Keys :
       /\ key[k].status = "DISABLED"
       /\ key'[k].status # "DISABLED"
       => ReadBeforeRevocation(k) \/ organization = "archived"]_vars

(***************************************************************************)
(* The usable keys of a subscription fit its seats, whatever order keys    *)
(* are created, replaced and revoked in and the limit changed, leaving out *)
(* the keys a renewal, a bind or a reset made usable again; except when    *)
(* two super admins gave out the subscription's seats at the same time.    *)
(***************************************************************************)
SeatsRespected ==
  \A s \in Subscriptions \ crowded :
    Cardinality(UsableKeys(s) \ revived) <= subscription[s].seatLimit

(***************************************************************************)
(* The keys as the devices see them: who has an active activation holds    *)
(* the key, a disabled key is revoked.  Every bind, reset, revocation,     *)
(* replacement, renewal and sweep is then a step of KeyCustody, or none: a *)
(* device takes a key over from another only after a reset, a revocation   *)
(* or a sweep took it away, and never after the key was revoked.  A key is *)
(* disputed once a call overtook another on it or a device came back to it *)
(* after it lost it.                                                       *)
(***************************************************************************)
Holders == [k \in Keys |-> ActiveDevices(k)]

RevokedKeys == {k \in Keys : key[k].status = "DISABLED"}

Disputed == overtaken \cup returned

Custody == INSTANCE KeyCustody
             WITH holders <- Holders, revoked <- RevokedKeys, disputed <- Disputed,
                  closed <- organization = "archived"

KeysAreInCustody == Custody!CustodySpec

(***************************************************************************)
(* Once the organization has subscriptions and from some time on each of   *)
(* them is over, the sweep takes every key and every activation for good,  *)
(* binds and creations that were under way included.                       *)
(***************************************************************************)
TermOver ==
  /\ \E s \in Subscriptions : Exists(s)
  /\ \A s \in Subscriptions : Exists(s) => Invalid(s) \/ Lapsed(s)

Dark == \A k \in Keys : ~Usable(k) /\ ActiveDevices(k) = {}

TermOverGoesDark == <>[]TermOver => <>[]Dark

-----------------------------------------------------------------------------
\* A key's device limit is enforced (comment in bindHardwareActivation): yet
\* a device that was reset comes back beside the one that took its place.
DeviceLimit ==
  \A k \in Keys \ overtaken : Cardinality(ActiveDevices(k)) <= MaxDevices
=============================================================================
