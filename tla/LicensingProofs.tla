--------------------------- MODULE LicensingProofs ---------------------------
(***************************************************************************)
(* Subscriptions, hardware keys and the sweep together: what a key, the    *)
(* device it serves and the seats of its subscription keep true whatever   *)
(* calls are between their reads and their writes, and the theorems that   *)
(* follow.                                                                 *)
(***************************************************************************)
EXTENDS Licensing, FiniteSetTheorems, TLAPS

USE SeatLimitsAssumption, SubscriptionsAssumption, EditsAssumption, MaxChangesAssumption,
    DevicesAssumption, KeysAssumption

\* A device call in flight had read a key that could be used, and a device it did
\* not know only a key that served none
CallAllowed(c) ==
  LET q == client[c] IN
  /\ q.phase # "idle" =>
       key[q.key].status # "none" /\ q.seenKey.status \notin {"none", "DISABLED"}
  /\ q.phase = "binding" =>
       /\ q.device \in Devices
       /\ q.seenDevices[q.device] = "none" => \A d \in Devices : q.seenDevices[d] # "ACTIVE"

CallsAllowed == \A c \in Clients : CallAllowed(c)

OneActive ==
  \A k \in Keys \ (overtaken \cup returned), d, e \in Devices :
    activation[k][d] = "ACTIVE" /\ activation[k][e] = "ACTIVE" => d = e

\* A reset of the device the key points to is half way
Unpointing(k) ==
  \E x \in Operators : HalfReset(x, k) /\ task[x].device = key[k].bound

PointerRight(k) ==
  /\ key[k].status = "BOUND" => key[k].bound \in ActiveDevices(k) \/ Unpointing(k)
  /\ key[k].status \in {"none", "AVAILABLE"} => key[k].bound = NoDevice

PointersRight == \A k \in Keys \ (overtaken \cup revived \cup torn) : PointerRight(k)

RevokedPointsNowhere ==
  organization # "archived" =>
    \A k \in Keys : key[k].status = "DISABLED" => key[k].bound = NoDevice

KeysOwned ==
  \A k \in Keys : IF key[k].status = "none" THEN key[k].bound = NoDevice
                  ELSE Exists(key[k].sub)

\* What a call has counted fits what it is about to write
CountFits(x) ==
  LET t == task[x] IN
  /\ t.phase \in {"creating", "resizing"} =>
       Exists(t.sub) /\ Cardinality(t.seenUsable) <= t.limit
  /\ t.phase = "creating" => t.seenLimit = t.limit /\ Cardinality(t.seenUsable) < t.limit
  /\ t.phase = "replacing" => key[t.key].status # "none"

CountsFit == \A x \in Operators : CountFits(x)

LicensingInv ==
  /\ TypeOK
  /\ CallsAllowed
  /\ OneActive
  /\ PointersRight
  /\ RevokedPointsNowhere
  /\ KeysOwned
  /\ CountsFit
  /\ SeatsRespected

-----------------------------------------------------------------------------
LEMMA NothingTyped ==
  /\ NoKey \in KeyRow /\ NoKey.status = "none" /\ NoKey.bound = NoDevice
  /\ IdleClient \in Client /\ IdleClient.phase = "idle"
  /\ IdleTask \in Task /\ IdleTask.phase = "idle"
  /\ IdleReview \in Review /\ IdleReview.phase = "idle"
<1> QED
  BY DEF NoKey, KeyRow, IdleClient, Client, IdleTask, Task, IdleReview, Review

LEMMA RowsTyped ==
  ASSUME TypeOK
  PROVE  /\ subscription \in [Subscriptions -> SubscriptionRow]
         /\ organization \in {"ACTIVE", "INACTIVE", "archived"}
         /\ review \in [Reviewers -> Review]
         /\ changes \in 0..MaxChanges
         /\ key \in [Keys -> KeyRow]
         /\ activation \in [Keys -> [Devices -> ActivationStatuses]]
         /\ client \in [Clients -> Client]
         /\ task \in [Operators -> Task]
         /\ overtaken \subseteq Keys /\ returned \subseteq Keys /\ revived \subseteq Keys
         /\ torn \subseteq Keys /\ crowded \subseteq Subscriptions
         /\ sweep \in {"idle", "expired", "listed"}
<1> QED
  BY DEF TypeOK, SubscriptionsTypeOK, KeysTypeOK

\* What a device call remembers
LEMMA CallTyped ==
  ASSUME TypeOK, NEW c \in Clients, client[c].phase # "idle"
  PROVE  /\ client[c].phase \in {"binding", "expiring"} /\ client[c].key \in Keys
         /\ client[c].device \in Devices \cup {NoDevice}
         /\ client[c].seenKey \in KeyRow
         /\ client[c].seenDevices \in [Devices -> ActivationStatuses]
<1>1. client[c] \in Client /\ client[c] # IdleClient
  BY NothingTyped, RowsTyped
<1> QED
  BY <1>1 DEF Client

\* What a super admin's call remembers
LEMMA TaskTyped ==
  ASSUME TypeOK, NEW x \in Operators
  PROVE  /\ task[x].phase \in {"creating", "resizing"} => task[x] \in SeatTask
         /\ task[x].phase = "resetting" => task[x].key \in Keys /\ task[x].device \in Devices
         /\ task[x].phase = "replacing" => task[x].key \in Keys
         /\ task[x].phase = "recreating" => task[x].sub \in Subscriptions
         /\ task[x].phase \in {"idle", "creating", "resizing", "resetting", "replacing", "recreating"}
<1>1. task[x] \in Task
  BY RowsTyped
<1> QED
  BY <1>1 DEF Task, SeatTask, IdleTask

LEMMA FewerUsable ==
  ASSUME NEW S \in SUBSET Keys, NEW T \in SUBSET S
  PROVE  /\ IsFiniteSet(S) /\ IsFiniteSet(T)
         /\ Cardinality(T) <= Cardinality(S)
         /\ Cardinality(S) \in Nat /\ Cardinality(T) \in Nat
<1>1. IsFiniteSet(S)
  BY FS_Subset
<1> QED
  BY <1>1, FS_Subset, FS_CardinalityType

LEMMA LicensingInitInv == Init => LicensingInv
<1> SUFFICES ASSUME Init PROVE LicensingInv
  OBVIOUS
<1> USE DEF Init, SubscriptionsInit, KeysInit
<1>1. SubscriptionsTypeOK
  BY NothingTyped DEF SubscriptionsTypeOK, SubscriptionRow
<1>2. KeysTypeOK
  BY NothingTyped DEF KeysTypeOK, NoDevices, ActivationStatuses
<1>3. \A k \in Keys : /\ key[k].status = "none" /\ key[k].bound = NoDevice
                      /\ \A d \in Devices : activation[k][d] = "none"
  BY NothingTyped DEF NoDevices
<1>4. CallsAllowed /\ CountsFit
  BY NothingTyped DEF CallsAllowed, CallAllowed, CountsFit, CountFits
<1>5. SeatsRespected
  <2> SUFFICES ASSUME NEW s \in Subscriptions
               PROVE  Cardinality(UsableKeys(s) \ revived) <= subscription[s].seatLimit
    BY DEF SeatsRespected
  <2>1. UsableKeys(s) \ revived = {}
    BY <1>3 DEF UsableKeys, Usable
  <2>2. subscription[s].seatLimit \in Nat
    BY <1>1 DEF SubscriptionsTypeOK, SubscriptionRow
  <2>3. Cardinality(UsableKeys(s) \ revived) = 0
    BY <2>1, FS_EmptySet, Zenon
  <2> QED
    BY <2>2, <2>3
<1> QED
  BY <1>1, <1>2, <1>3, <1>4, <1>5
     DEF LicensingInv, TypeOK, OneActive, PointersRight, PointerRight, RevokedPointsNowhere,
         KeysOwned

-----------------------------------------------------------------------------
\* No step makes a key usable out of the history's sight
LEMMA SeatsKept ==
  ASSUME LicensingInv, TypeOK', crowded \subseteq crowded',
         \A s \in Subscriptions :
           Exists(s) => Exists(s)' /\ subscription'[s].seatLimit = subscription[s].seatLimit,
         \A k \in Keys :
           /\ key'[k].sub = key[k].sub /\ (key'[k].status = "none" <=> key[k].status = "none")
           /\ key[k].status = "none" => key'[k].bound = key[k].bound
           /\ Usable(k)' /\ k \notin revived' => Usable(k) /\ k \notin revived
  PROVE  KeysOwned' /\ SeatsRespected'
<1>1. TypeOK /\ KeysOwned /\ SeatsRespected
  BY DEF LicensingInv
<1>2. KeysOwned'
  BY <1>1, RowsTyped DEF KeysOwned, KeyRow
<1>3. ASSUME NEW s \in Subscriptions, s \notin crowded'
      PROVE  Cardinality(UsableKeys(s)' \ revived') <= subscription'[s].seatLimit
  <2>1. UsableKeys(s)' \ revived' \subseteq UsableKeys(s) \ revived
    BY DEF UsableKeys, Usable
  <2>2. UsableKeys(s) \ revived \in SUBSET Keys
    BY DEF UsableKeys
  <2>3. Cardinality(UsableKeys(s) \ revived) <= subscription[s].seatLimit
    BY <1>1, <1>3 DEF SeatsRespected
  <2>4. subscription[s].seatLimit \in Nat /\ subscription'[s].seatLimit \in Nat
    BY <1>1, RowsTyped DEF TypeOK, SubscriptionsTypeOK, SubscriptionRow
  <2>5. CASE Exists(s)
    BY <2>1, <2>2, <2>3, <2>4, <2>5, FewerUsable
  <2>6. CASE ~Exists(s)
    <3>1. UsableKeys(s) = {}
      BY <1>1, <2>6 DEF KeysOwned, UsableKeys, Usable
    <3>2. UsableKeys(s)' \ revived' = {}
      BY <2>1, <3>1
    <3>3. Cardinality(UsableKeys(s)' \ revived') = 0
      BY <3>2, FS_EmptySet, Zenon
    <3> QED
      BY <2>4, <3>3
  <2> QED
    BY <2>5, <2>6
<1> QED
  BY <1>2, <1>3 DEF SeatsRespected

LEMMA CallKept ==
  ASSUME LicensingInv, NEW c \in Clients, client'[c] = client[c],
         \A k \in Keys : key[k].status # "none" => key'[k].status # "none"
  PROVE  CallAllowed(c)'
<1>1. /\ TypeOK /\ CallAllowed(c)
  BY DEF LicensingInv, CallsAllowed
<1>2. client[c].phase # "idle" => client[c].key \in Keys
  BY <1>1, CallTyped
<1> QED
  BY <1>1, <1>2 DEF CallAllowed

LEMMA CountsKept ==
  ASSUME LicensingInv, NEW x \in Operators, task'[x] = task[x],
         \A s \in Subscriptions : Exists(s) => Exists(s)',
         \A k \in Keys : key[k].status # "none" => key'[k].status # "none"
  PROVE  CountFits(x)'
<1>1. /\ TypeOK /\ CountFits(x)
  BY DEF LicensingInv, CountsFit
<1>2. /\ task[x].phase \in {"creating", "resizing"} => task[x].sub \in Subscriptions
      /\ task[x].phase = "replacing" => task[x].key \in Keys
  BY <1>1, TaskTyped DEF SeatTask
<1> QED
  BY <1>1, <1>2 DEF CountFits, Exists

\* What happens to subscriptions leaves the keys' part of the invariant alone
LEMMA SubscriptionMoves ==
  ASSUME LicensingInv, SubscriptionsTypeOK', UNCHANGED keyVars,
         sweep' \in {"idle", "expired", "listed"},
         organization = "archived" => organization' = "archived",
         \A s \in Subscriptions :
           Exists(s) => Exists(s)' /\ subscription'[s].seatLimit = subscription[s].seatLimit
  PROVE  LicensingInv'
<1>1. /\ key' = key /\ activation' = activation /\ client' = client /\ task' = task
      /\ overtaken' = overtaken /\ returned' = returned /\ revived' = revived /\ torn' = torn
      /\ crowded' = crowded
  BY DEF keyVars
<1>2. TypeOK'
  BY <1>1 DEF LicensingInv, TypeOK, KeysTypeOK
<1>3. KeysOwned' /\ SeatsRespected'
  BY <1>1, <1>2, SeatsKept DEF Usable
<1>4. CountsFit'
  BY <1>1, CountsKept DEF CountsFit
<1>5. CallsAllowed' /\ OneActive' /\ RevokedPointsNowhere'
  BY <1>1, CallKept DEF LicensingInv, CallsAllowed, OneActive, RevokedPointsNowhere
<1>6. PointersRight'
  BY <1>1 DEF LicensingInv, PointersRight, PointerRight, Unpointing, HalfReset, ActiveDevices
<1> QED
  BY <1>2, <1>3, <1>4, <1>5, <1>6 DEF LicensingInv

LEMMA ReviewTyped ==
  ASSUME TypeOK, NEW x \in Reviewers, review[x].phase \in {"approving", "rejecting"}
  PROVE  review[x].sub \in Subscriptions
<1>1. review[x] \in Review
  BY RowsTyped
<1> QED
  BY <1>1 DEF Review, IdleReview

\* The rows of the subscriptions after a change of one of them
LEMMA RowChanges ==
  ASSUME TypeOK, NEW s \in Subscriptions, NEW row \in SubscriptionRow,
         subscription' = [subscription EXCEPT ![s] = row],
         Exists(s) => row.status # "none" /\ row.seatLimit = subscription[s].seatLimit
  PROVE  /\ subscription' \in [Subscriptions -> SubscriptionRow]
         /\ \A r \in Subscriptions :
              Exists(r) => Exists(r)' /\ subscription'[r].seatLimit = subscription[r].seatLimit
<1> QED
  BY RowsTyped DEF Exists

LEMMA SubscriptionsStep ==
  ASSUME LicensingInv, SubscriptionsNext, UNCHANGED <<keyVars, sweep>>
  PROVE  LicensingInv'
<1>1. TypeOK
  BY DEF LicensingInv
<1>2. Counted => changes' \in 0..MaxChanges
  BY <1>1, RowsTyped DEF Counted
<1>3. sweep' \in {"idle", "expired", "listed"} /\ UNCHANGED keyVars
  BY <1>1, RowsTyped
<1>4. \A s \in Subscriptions : subscription[s] \in SubscriptionRow
  BY <1>1, RowsTyped
<1>5. ASSUME NEW s \in Subscriptions, NEW status \in Edits, NEW n \in SeatLimits,
             CreateSubscription(s, status, n)
      PROVE  LicensingInv'
  <2> DEFINE row == [subscription[s] EXCEPT !.status = status, !.seatLimit = n]
  <2>1. row \in SubscriptionRow
    BY <1>4 DEF SubscriptionRow
  <2>2. subscription' = [subscription EXCEPT ![s] = row] /\ ~Exists(s)
        /\ UNCHANGED <<organization, review, changes>>
    BY <1>1, <1>5, RowsTyped DEF CreateSubscription
  <2> HIDE DEF row
  <2> QED
    BY <1>1, <1>3, <2>1, <2>2, RowChanges, RowsTyped, SubscriptionMoves DEF SubscriptionsTypeOK
<1>6. ASSUME NEW s \in Subscriptions, NEW status \in Edits, NEW ended \in BOOLEAN,
             UpdateSubscription(s, status, ended)
      PROVE  LicensingInv'
  <2> DEFINE row == [subscription[s] EXCEPT !.status = status, !.ended = ended]
  <2>1. row \in SubscriptionRow /\ row.status # "none" /\ row.seatLimit = subscription[s].seatLimit
    BY <1>4 DEF SubscriptionRow, Statuses
  <2>2. subscription' = [subscription EXCEPT ![s] = row]
        /\ UNCHANGED <<organization, review>> /\ Counted
    BY <1>1, <1>6, RowsTyped DEF UpdateSubscription
  <2> HIDE DEF row
  <2> QED
    BY <1>1, <1>2, <1>3, <2>1, <2>2, RowChanges, RowsTyped, SubscriptionMoves
       DEF SubscriptionsTypeOK
<1>7. ASSUME NEW s \in Subscriptions, NEW archived \in BOOLEAN, SetArchived(s, archived)
      PROVE  LicensingInv'
  <2> DEFINE row == [subscription[s] EXCEPT !.archived = archived]
  <2>1. row \in SubscriptionRow /\ row.status = subscription[s].status
        /\ row.seatLimit = subscription[s].seatLimit
    BY <1>4 DEF SubscriptionRow
  <2>2. subscription' = [subscription EXCEPT ![s] = row] /\ Exists(s)
        /\ UNCHANGED <<organization, review>> /\ Counted
    BY <1>1, <1>7, RowsTyped DEF SetArchived
  <2> HIDE DEF row
  <2>3. row.status # "none"
    BY <2>1, <2>2 DEF Exists
  <2> QED
    BY <1>1, <1>2, <1>3, <2>1, <2>2, <2>3, RowChanges, RowsTyped, SubscriptionMoves
       DEF SubscriptionsTypeOK
<1>8. ASSUME NEW s \in Subscriptions, TermEnds(s)
      PROVE  LicensingInv'
  <2> DEFINE row == [subscription[s] EXCEPT !.ended = TRUE]
  <2>1. row \in SubscriptionRow /\ row.status = subscription[s].status
        /\ row.seatLimit = subscription[s].seatLimit
    BY <1>4 DEF SubscriptionRow
  <2>2. subscription' = [subscription EXCEPT ![s] = row] /\ Exists(s)
        /\ UNCHANGED <<organization, review>> /\ Counted
    BY <1>1, <1>8, RowsTyped DEF TermEnds
  <2> HIDE DEF row
  <2>3. row.status # "none"
    BY <2>1, <2>2 DEF Exists
  <2> QED
    BY <1>1, <1>2, <1>3, <2>1, <2>2, <2>3, RowChanges, RowsTyped, SubscriptionMoves
       DEF SubscriptionsTypeOK
<1>9. ASSUME NEW status \in {"ACTIVE", "INACTIVE"}, SetOrganizationStatus(status)
      PROVE  LicensingInv'
  <2>1. /\ UNCHANGED <<subscription, review>> /\ organization' = status /\ Counted
        /\ organization # "archived"
    BY <1>9 DEF SetOrganizationStatus, Managed
  <2>2. SubscriptionsTypeOK'
    BY <1>1, <1>2, <2>1, RowsTyped DEF SubscriptionsTypeOK
  <2> QED
    BY <1>3, <2>1, <2>2, SubscriptionMoves DEF Exists
<1>10. ASSUME NEW x \in Reviewers, NEW s \in Subscriptions,
              NEW phase \in {"approving", "rejecting"}, StartReview(x, s, phase)
       PROVE  LicensingInv'
  <2>1. [phase |-> phase, sub |-> s] \in Review
    BY DEF Review
  <2>2. UNCHANGED <<subscription, organization, changes>>
        /\ review' = [review EXCEPT ![x] = [phase |-> phase, sub |-> s]]
    BY <1>10 DEF StartReview
  <2>3. SubscriptionsTypeOK'
    BY <1>1, <2>1, <2>2, RowsTyped DEF SubscriptionsTypeOK
  <2> QED
    BY <1>3, <2>2, <2>3, SubscriptionMoves DEF Exists
<1>11. ASSUME NEW x \in Reviewers, AbandonReview(x)
       PROVE  LicensingInv'
  <2>1. UNCHANGED <<subscription, organization, changes>>
        /\ review' = [review EXCEPT ![x] = IdleReview]
    BY <1>11 DEF AbandonReview
  <2>2. SubscriptionsTypeOK'
    BY <1>1, <2>1, RowsTyped, NothingTyped DEF SubscriptionsTypeOK
  <2> QED
    BY <1>3, <2>1, <2>2, SubscriptionMoves DEF Exists
<1>12. ASSUME NEW x \in Reviewers, NEW phase \in {"approving", "rejecting"},
              NEW status \in {"ACTIVE", "CANCELED"}, FinishReview(x, phase, status)
       PROVE  LicensingInv'
  <2> DEFINE s == review[x].sub
             row == [subscription[s] EXCEPT !.status = status]
  <2>1. s \in Subscriptions
    BY <1>1, <1>12, ReviewTyped DEF FinishReview
  <2>2. row \in SubscriptionRow /\ row.status = status
        /\ row.seatLimit = subscription[s].seatLimit
    BY <1>4, <2>1 DEF SubscriptionRow, Statuses
  <2>3. subscription' = [subscription EXCEPT ![s] = row]
        /\ UNCHANGED <<organization, changes>>
        /\ review' = [review EXCEPT ![x] = IdleReview]
    BY <1>1, <1>12, <2>1, RowsTyped DEF FinishReview
  <2>4. review' \in [Reviewers -> Review]
    BY <1>1, <2>3, RowsTyped, NothingTyped
  <2> HIDE DEF row, s
  <2> QED
    BY <1>1, <1>3, <2>1, <2>2, <2>3, <2>4, RowChanges, RowsTyped, SubscriptionMoves
       DEF SubscriptionsTypeOK
<1> QED
  BY <1>5, <1>6, <1>7, <1>8, <1>9, <1>10, <1>11, <1>12 DEF SubscriptionsNext, Approve, Reject

LEMMA SweepSteps ==
  ASSUME LicensingInv, SweepExpire \/ SweepList \/ SweepAborts
  PROVE  LicensingInv'
<1>1. TypeOK
  BY DEF LicensingInv
<1>2. CASE SweepExpire
  <2> DEFINE after(s) == IF Lapsed(s) THEN [subscription[s] EXCEPT !.status = "EXPIRED"]
                         ELSE subscription[s]
  <2>1. \A s \in Subscriptions : /\ after(s) \in SubscriptionRow
                                 /\ Exists(s) => after(s).status # "none"
                                 /\ after(s).seatLimit = subscription[s].seatLimit
    BY <1>1, RowsTyped DEF SubscriptionRow, Statuses, Exists
  <2>2. /\ subscription' = [s \in Subscriptions |-> after(s)]
        /\ sweep' = "expired" /\ UNCHANGED <<organization, review, changes, keyVars>>
    BY <1>2 DEF SweepExpire
  <2> HIDE DEF after
  <2>3. SubscriptionsTypeOK'
    BY <1>1, <2>1, <2>2, RowsTyped DEF SubscriptionsTypeOK
  <2> QED
    BY <2>1, <2>2, <2>3, SubscriptionMoves DEF Exists
<1>3. CASE SweepList \/ SweepAborts
  <2>1. /\ UNCHANGED <<subscription, organization, review, changes, keyVars>>
        /\ sweep' \in {"idle", "listed"}
    BY <1>3 DEF SweepList, SweepAborts, subscriptionVars
  <2>2. SubscriptionsTypeOK'
    BY <1>1, <2>1 DEF TypeOK, SubscriptionsTypeOK
  <2> QED
    BY <2>1, <2>2, SubscriptionMoves DEF Exists
<1> QED
  BY <1>2, <1>3

-----------------------------------------------------------------------------
\* The calls of devices
\* A device call that ends, or only reads, changes nothing else
LEMMA ClientMoves ==
  ASSUME LicensingInv, NEW c \in Clients, NEW q \in Client,
         client' = [client EXCEPT ![c] = q],
         UNCHANGED <<subscriptionVars, key, activation, task, overtaken, returned, revived, torn,
                     crowded, sweep>>,
         q.phase # "idle" =>
           key[q.key].status # "none" /\ q.seenKey.status \notin {"none", "DISABLED"},
         q.phase = "binding" =>
           /\ q.device \in Devices
           /\ q.seenDevices[q.device] = "none" => \A d \in Devices : q.seenDevices[d] # "ACTIVE"
  PROVE  LicensingInv'
<1>1. TypeOK
  BY DEF LicensingInv
<1>2. client' \in [Clients -> Client] /\ client'[c] = q
      /\ \A d \in Clients \ {c} : client'[d] = client[d]
  BY <1>1, RowsTyped
<1>3. /\ key' = key /\ activation' = activation /\ task' = task /\ subscription' = subscription
      /\ organization' = organization /\ overtaken' = overtaken /\ returned' = returned
      /\ revived' = revived /\ torn' = torn /\ crowded' = crowded
  BY DEF subscriptionVars
<1>4. TypeOK'
  BY <1>1, <1>2, <1>3 DEF TypeOK, SubscriptionsTypeOK, KeysTypeOK, subscriptionVars
<1>5. ASSUME NEW d \in Clients PROVE CallAllowed(d)'
  <2>1. CASE d = c
    BY <1>2, <1>3, <2>1 DEF CallAllowed
  <2>2. CASE d # c
    BY <1>2, <1>3, <2>2, CallKept
  <2> QED
    BY <2>1, <2>2
<1>6. KeysOwned' /\ SeatsRespected'
  BY <1>3, <1>4, SeatsKept DEF Usable, Exists
<1>7. CountsFit'
  BY <1>3, CountsKept DEF CountsFit, Exists
<1>8. OneActive' /\ RevokedPointsNowhere'
  BY <1>3 DEF LicensingInv, OneActive, RevokedPointsNowhere
<1>9. PointersRight'
  BY <1>3 DEF LicensingInv, PointersRight, PointerRight, Unpointing, HalfReset, ActiveDevices
<1> QED
  BY <1>4, <1>5, <1>6, <1>7, <1>8, <1>9 DEF LicensingInv, CallsAllowed

LEMMA ReadSteps ==
  ASSUME LicensingInv, NEW c \in Clients, UNCHANGED <<subscriptionVars, sweep>>,
         \/ \E k \in Keys, d \in Devices : BindRead(c, k, d)
         \/ \E k \in Keys : VerifyRead(c, k)
         \/ ClientAborts(c)
  PROVE  LicensingInv'
<1>1. /\ key \in [Keys -> KeyRow] /\ activation \in [Keys -> [Devices -> ActivationStatuses]]
  BY RowsTyped DEF LicensingInv
<1>2. ASSUME NEW k \in Keys, NEW d \in Devices, BindRead(c, k, d)
      PROVE  LicensingInv'
  <2> DEFINE q == [phase |-> "binding", key |-> k, device |-> d, seenKey |-> key[k],
                   seenDevices |-> activation[k]]
  <2>1. q \in Client /\ q.phase = "binding" /\ q.device = d /\ q.seenKey = key[k]
        /\ q.seenDevices = activation[k] /\ q.key = k
    BY <1>1 DEF Client
  <2>2. activation[k][d] = "none" => \A e \in Devices : activation[k][e] # "ACTIVE"
    <3> SUFFICES ASSUME activation[k][d] = "none"
                 PROVE  \A e \in Devices : activation[k][e] # "ACTIVE"
      OBVIOUS
    <3>1. Cardinality(ActiveDevices(k)) < 1
      BY <1>2 DEF BindRead, LimitAllows, MaxDevices
    <3>2. IsFiniteSet(ActiveDevices(k))
      BY FS_Subset DEF ActiveDevices
    <3>3. Cardinality(ActiveDevices(k)) = 0
      BY <3>1, <3>2, FS_CardinalityType
    <3>4. ActiveDevices(k) = {}
      BY <3>2, <3>3, FS_EmptySet
    <3> QED
      BY <3>4 DEF ActiveDevices
  <2>3. /\ client' = [client EXCEPT ![c] = q] /\ key[k].status \notin {"none", "DISABLED"}
        /\ UNCHANGED <<key, activation, task, overtaken, returned, revived, torn, crowded>>
    BY <1>2 DEF BindRead
  <2> HIDE DEF q
  <2> QED
    BY <2>1, <2>2, <2>3, ClientMoves
<1>3. ASSUME NEW k \in Keys, VerifyRead(c, k)
      PROVE  LicensingInv'
  <2> DEFINE q == [phase |-> "expiring", key |-> k, device |-> NoDevice, seenKey |-> key[k],
                   seenDevices |-> activation[k]]
  <2>1. q \in Client /\ q.phase = "expiring" /\ q.seenKey = key[k] /\ q.key = k
    BY <1>1 DEF Client
  <2>2. /\ client' = [client EXCEPT ![c] = q] /\ key[k].status \notin {"none", "DISABLED"}
        /\ UNCHANGED <<key, activation, task, overtaken, returned, revived, torn, crowded>>
    BY <1>3 DEF VerifyRead
  <2> HIDE DEF q
  <2> QED
    BY <2>1, <2>2, ClientMoves
<1>4. CASE ClientAborts(c)
  BY <1>4, NothingTyped, ClientMoves DEF ClientAborts
<1> QED
  BY <1>2, <1>3, <1>4

\* A call that writes a key it did not overtake finds it as it was read
LEMMA NotOvertaken ==
  ASSUME NEW q, q.key \in Keys, q.key \notin Overtakes(q)
  PROVE  key[q.key] = q.seenKey /\ activation[q.key] = q.seenDevices
<1> QED
  BY DEF Overtakes

LEMMA BindWriteStep ==
  ASSUME LicensingInv, NEW c \in Clients, BindWrite(c), UNCHANGED <<subscriptionVars, sweep>>
  PROVE  LicensingInv'
<1> DEFINE q == client[c]
           k == q.key
           d == q.device
           before == q.seenDevices[d]
           row == [key[k] EXCEPT !.status = "BOUND", !.bound = BoundAfter(q)]
           devices == [activation[k] EXCEPT ![d] = "ACTIVE"]
<1>1. TypeOK /\ q.phase = "binding"
  BY DEF LicensingInv, BindWrite
<1>2. /\ k \in Keys /\ d \in Devices /\ q.seenKey \in KeyRow
      /\ q.seenDevices \in [Devices -> ActivationStatuses]
      /\ q.seenKey.status \notin {"none", "DISABLED"}
      /\ before = "none" => \A e \in Devices : q.seenDevices[e] # "ACTIVE"
      /\ key[k].status # "none"
  <2>1. CallAllowed(c)
    BY DEF LicensingInv, CallsAllowed
  <2> QED
    BY <1>1, <2>1, CallTyped DEF CallAllowed
<1>3. key[k] \in KeyRow /\ activation[k] \in [Devices -> ActivationStatuses]
      /\ BoundAfter(q) \in Devices
  BY <1>1, <1>2, RowsTyped DEF BoundAfter, KeyRow
<1>4. /\ key' = [key EXCEPT ![k] = row] /\ activation' = [activation EXCEPT ![k] = devices]
      /\ client' = [client EXCEPT ![c] = IdleClient]
      /\ overtaken' = overtaken \cup Overtakes(q)
      /\ returned' = returned \cup {j \in {k} : before \in {"RESET", "DISABLED"}}
      /\ revived' = revived \cup {j \in {k} : ~Usable(j)}
      /\ UNCHANGED <<task, torn, crowded>>
  BY <1>1, <1>2, <1>3, RowsTyped DEF BindWrite
<1>5. row \in KeyRow /\ row.status = "BOUND" /\ row.bound = BoundAfter(q) /\ row.sub = key[k].sub
  BY <1>3 DEF KeyRow
<1>6. devices \in [Devices -> ActivationStatuses] /\ devices[d] = "ACTIVE"
      /\ \A e \in Devices \ {d} : devices[e] = activation[k][e]
  BY <1>2, <1>3 DEF ActivationStatuses
<1>7. /\ UNCHANGED <<subscription, organization>>
  BY DEF subscriptionVars
<1> HIDE DEF row, devices
<1>8. /\ key' \in [Keys -> KeyRow] /\ key'[k] = row /\ \A j \in Keys \ {k} : key'[j] = key[j]
  BY <1>1, <1>2, <1>4, <1>5, RowsTyped
<1>9. /\ activation' \in [Keys -> [Devices -> ActivationStatuses]] /\ activation'[k] = devices
      /\ \A j \in Keys \ {k} : activation'[j] = activation[j]
  BY <1>1, <1>2, <1>4, <1>6, RowsTyped
<1>10. /\ client' \in [Clients -> Client] /\ client'[c].phase = "idle"
       /\ \A b \in Clients \ {c} : client'[b] = client[b]
  BY <1>1, <1>4, RowsTyped, NothingTyped
<1>11. TypeOK'
  <2>1. Overtakes(q) \subseteq Keys
    BY <1>2 DEF Overtakes
  <2>2. KeysTypeOK'
    BY <1>1, <1>2, <1>4, <1>8, <1>9, <1>10, <2>1, RowsTyped DEF KeysTypeOK
  <2> QED
    BY <1>1, <2>2 DEF TypeOK, SubscriptionsTypeOK, subscriptionVars
<1>12. CallsAllowed' /\ CountsFit'
  <2>1. \A j \in Keys : key[j].status # "none" => key'[j].status # "none"
    BY <1>5, <1>8
  <2>2. CountsFit'
    BY <1>4, <1>7, <2>1, CountsKept DEF CountsFit, Exists
  <2>3. ASSUME NEW b \in Clients PROVE CallAllowed(b)'
    <3>1. CASE b = c
      BY <1>10, <3>1 DEF CallAllowed
    <3>2. CASE b # c
      BY <1>10, <2>1, <3>2, CallKept
    <3> QED
      BY <3>1, <3>2
  <2> QED
    BY <2>2, <2>3 DEF CallsAllowed
<1>13. KeysOwned' /\ SeatsRespected'
  <2>1. \A j \in Keys : Usable(j)' /\ j \notin revived' => Usable(j) /\ j \notin revived
    BY <1>2, <1>4, <1>8 DEF Usable
  <2>2. \A j \in Keys : /\ key'[j].sub = key[j].sub
                        /\ key'[j].status = "none" <=> key[j].status = "none"
                        /\ key[j].status = "none" => key'[j].bound = key[j].bound
    BY <1>2, <1>5, <1>8
  <2> QED
    BY <1>4, <1>7, <1>11, <2>1, <2>2, SeatsKept DEF Exists
<1>14. OneActive'
  <2> SUFFICES ASSUME NEW j \in Keys, j \notin overtaken', j \notin returned',
                      NEW e \in Devices, NEW f \in Devices,
                      activation'[j][e] = "ACTIVE", activation'[j][f] = "ACTIVE"
               PROVE  e = f
    BY DEF OneActive
  <2>1. j \notin overtaken /\ j \notin returned
    BY <1>4
  <2>2. CASE j # k
    BY <1>9, <2>1, <2>2 DEF LicensingInv, OneActive
  <2>3. CASE j = k
    <3>1. activation[k] = q.seenDevices /\ before \notin {"RESET", "DISABLED"}
      BY <1>2, <1>4, <2>3, NotOvertaken
    <3>2. CASE before = "none"
      BY <1>2, <1>6, <1>9, <2>3, <3>1, <3>2
    <3>3. CASE before = "ACTIVE"
      <4>1. \A g \in Devices : devices[g] = activation[k][g]
        BY <1>6, <3>1, <3>3
      <4> QED
        BY <1>9, <2>1, <2>3, <4>1 DEF LicensingInv, OneActive
    <3>4. before \in ActivationStatuses
      BY <1>2
    <3> QED
      BY <3>1, <3>2, <3>3, <3>4 DEF ActivationStatuses
  <2> QED
    BY <2>2, <2>3
<1>15. ASSUME NEW j \in Keys, j \notin overtaken', j \notin revived', j \notin torn'
       PROVE  PointerRight(j)'
  <2>1. PointerRight(j)
    BY <1>4, <1>15 DEF LicensingInv, PointersRight
  <2>2. CASE j # k
    BY <1>4, <1>8, <1>9, <2>1, <2>2 DEF PointerRight, Unpointing, HalfReset, ActiveDevices
  <2>3. CASE j = k
    <3>1. key[k] = q.seenKey /\ Usable(k)
      BY <1>2, <1>4, <1>15, <2>3, NotOvertaken
    <3>2. key'[j].status = "BOUND" /\ key'[j].bound = BoundAfter(q)
      BY <1>5, <1>8, <2>3
    <3>3. CASE key[k].bound = NoDevice
      <4>1. key'[j].bound = d
        BY <3>1, <3>2, <3>3 DEF BoundAfter
      <4> QED
        BY <1>2, <1>6, <1>9, <2>3, <3>2, <4>1 DEF PointerRight, ActiveDevices
    <3>4. CASE key[k].bound # NoDevice
      <4>1. key'[j].bound = key[k].bound
        BY <3>1, <3>2, <3>4 DEF BoundAfter
      <4>2. key[k].bound \in ActiveDevices(k) \/ Unpointing(k)
        BY <2>1, <2>3, <3>1, <3>4 DEF PointerRight, Usable
      <4>3. key[k].bound \in ActiveDevices(k) => key[k].bound \in ActiveDevices(j)'
        BY <1>6, <1>9, <2>3 DEF ActiveDevices
      <4>4. Unpointing(k) => Unpointing(j)'
        BY <1>4, <2>3, <4>1 DEF Unpointing, HalfReset
      <4> QED
        BY <3>2, <4>1, <4>2, <4>3, <4>4 DEF PointerRight
    <3> QED
      BY <3>3, <3>4
  <2> QED
    BY <2>2, <2>3
<1>16. RevokedPointsNowhere'
  BY <1>5, <1>7, <1>8 DEF LicensingInv, RevokedPointsNowhere
<1> QED
  BY <1>11, <1>12, <1>13, <1>14, <1>15, <1>16 DEF LicensingInv, PointersRight

LEMMA VerifyWriteStep ==
  ASSUME LicensingInv, NEW c \in Clients, VerifyWrite(c), UNCHANGED <<subscriptionVars, sweep>>
  PROVE  LicensingInv'
<1> DEFINE q == client[c]
           k == q.key
           row == [key[k] EXCEPT !.status = "EXPIRED"]
<1>1. TypeOK /\ q.phase = "expiring" /\ CallAllowed(c)
  BY DEF LicensingInv, CallsAllowed, VerifyWrite
<1>2. k \in Keys /\ key[k] \in KeyRow /\ key[k].status # "none"
  BY <1>1, CallTyped, RowsTyped DEF CallAllowed
<1>3. /\ key' = [key EXCEPT ![k] = row] /\ client' = [client EXCEPT ![c] = IdleClient]
      /\ overtaken' = overtaken \cup Overtakes(q)
      /\ UNCHANGED <<activation, task, returned, revived, torn, crowded>>
  BY <1>1, <1>2, RowsTyped DEF VerifyWrite
<1>4. row \in KeyRow /\ row.status = "EXPIRED" /\ row.sub = key[k].sub
  BY <1>2 DEF KeyRow
<1>5. UNCHANGED <<subscription, organization>>
  BY DEF subscriptionVars
<1> HIDE DEF row
<1>6. /\ key' \in [Keys -> KeyRow] /\ key'[k] = row /\ \A j \in Keys \ {k} : key'[j] = key[j]
  BY <1>1, <1>2, <1>3, <1>4, RowsTyped
<1>7. /\ client' \in [Clients -> Client] /\ client'[c].phase = "idle"
      /\ \A b \in Clients \ {c} : client'[b] = client[b]
  BY <1>1, <1>3, RowsTyped, NothingTyped
<1>8. TypeOK'
  <2>1. Overtakes(q) \subseteq Keys
    BY <1>2 DEF Overtakes
  <2>2. KeysTypeOK'
    BY <1>1, <1>3, <1>6, <1>7, <2>1, RowsTyped DEF KeysTypeOK
  <2> QED
    BY <1>1, <2>2 DEF TypeOK, SubscriptionsTypeOK, subscriptionVars
<1>9. CallsAllowed' /\ CountsFit'
  <2>1. \A j \in Keys : key[j].status # "none" => key'[j].status # "none"
    BY <1>4, <1>6
  <2>2. CountsFit'
    BY <1>3, <1>5, <2>1, CountsKept DEF CountsFit, Exists
  <2>3. ASSUME NEW b \in Clients PROVE CallAllowed(b)'
    <3>1. CASE b = c
      BY <1>7, <3>1 DEF CallAllowed
    <3>2. CASE b # c
      BY <1>7, <2>1, <3>2, CallKept
    <3> QED
      BY <3>1, <3>2
  <2> QED
    BY <2>2, <2>3 DEF CallsAllowed
<1>10. KeysOwned' /\ SeatsRespected'
  <2>1. \A j \in Keys : Usable(j)' /\ j \notin revived' => Usable(j) /\ j \notin revived
    BY <1>3, <1>4, <1>6 DEF Usable
  <2>2. \A j \in Keys : /\ key'[j].sub = key[j].sub
                        /\ key'[j].status = "none" <=> key[j].status = "none"
                        /\ key[j].status = "none" => key'[j].bound = key[j].bound
    BY <1>2, <1>4, <1>6
  <2> QED
    BY <1>3, <1>5, <1>8, <2>1, <2>2, SeatsKept DEF Exists
<1>11. OneActive'
  BY <1>3 DEF LicensingInv, OneActive
<1>12. ASSUME NEW j \in Keys, j \notin overtaken', j \notin revived', j \notin torn'
       PROVE  PointerRight(j)'
  <2>1. PointerRight(j)
    BY <1>3, <1>12 DEF LicensingInv, PointersRight
  <2>2. CASE j # k
    BY <1>3, <1>6, <2>1, <2>2 DEF PointerRight, Unpointing, HalfReset, ActiveDevices
  <2>3. CASE j = k
    BY <1>4, <1>6, <2>3 DEF PointerRight
  <2> QED
    BY <2>2, <2>3
<1>13. RevokedPointsNowhere'
  BY <1>4, <1>5, <1>6 DEF LicensingInv, RevokedPointsNowhere
<1> QED
  BY <1>8, <1>9, <1>10, <1>11, <1>12, <1>13 DEF LicensingInv, PointersRight

-----------------------------------------------------------------------------
\* The calls of super admins.  One that only reads, or stops, changes its own
\* state.
LEMMA TaskMoves ==
  ASSUME LicensingInv, NEW x \in Operators, NEW t \in Task,
         task' = [task EXCEPT ![x] = t],
         UNCHANGED <<subscriptionVars, key, activation, client, overtaken, returned, revived,
                     crowded, sweep>>,
         torn' = torn \cup {k \in Keys : HalfReset(x, k)},
         t.phase # "resetting",
         t.phase \in {"creating", "resizing"} =>
           Exists(t.sub) /\ Cardinality(t.seenUsable) <= t.limit,
         t.phase = "creating" => t.seenLimit = t.limit /\ Cardinality(t.seenUsable) < t.limit,
         t.phase = "replacing" => key[t.key].status # "none"
  PROVE  LicensingInv'
<1>1. TypeOK
  BY DEF LicensingInv
<1>2. task' \in [Operators -> Task] /\ task'[x] = t
      /\ \A y \in Operators \ {x} : task'[y] = task[y]
  BY <1>1, RowsTyped
<1>3. /\ key' = key /\ activation' = activation /\ client' = client
      /\ subscription' = subscription /\ organization' = organization /\ crowded' = crowded
      /\ overtaken' = overtaken /\ returned' = returned /\ revived' = revived
  BY DEF subscriptionVars
<1>4. TypeOK'
  BY <1>1, <1>2, <1>3 DEF TypeOK, SubscriptionsTypeOK, KeysTypeOK, subscriptionVars
<1>5. CallsAllowed' /\ OneActive' /\ RevokedPointsNowhere'
  BY <1>3, CallKept DEF LicensingInv, CallsAllowed, OneActive, RevokedPointsNowhere
<1>6. ASSUME NEW y \in Operators PROVE CountFits(y)'
  <2>1. CASE y = x
    BY <1>2, <1>3, <2>1 DEF CountFits, Exists
  <2>2. CASE y # x
    BY <1>2, <1>3, <2>2, CountsKept DEF Exists
  <2> QED
    BY <2>1, <2>2
<1>7. KeysOwned' /\ SeatsRespected'
  BY <1>3, <1>4, SeatsKept DEF Usable, Exists
<1>8. ASSUME NEW k \in Keys, k \notin overtaken', k \notin revived', k \notin torn'
      PROVE  PointerRight(k)'
  <2>1. PointerRight(k) /\ ~HalfReset(x, k)
    BY <1>3, <1>8 DEF LicensingInv, PointersRight
  <2>2. Unpointing(k) => Unpointing(k)'
    BY <1>2, <1>3, <2>1 DEF Unpointing, HalfReset
  <2> QED
    BY <1>3, <2>1, <2>2 DEF PointerRight, ActiveDevices
<1> QED
  BY <1>4, <1>5, <1>6, <1>7, <1>8 DEF LicensingInv, PointersRight, CountsFit

\* A subscription with a seat left, the keys of W left out
LEMMA UsableCounted ==
  ASSUME NEW s \in Subscriptions
  PROVE  UsableKeys(s) \in SUBSET Keys /\ UsableKeys(s) \ {} = UsableKeys(s)
<1> QED
  BY DEF UsableKeys

LEMMA CheckSteps ==
  ASSUME LicensingInv, NEW x \in Operators, UNCHANGED <<subscriptionVars, sweep>>,
         \/ \E s \in Subscriptions : CreateCheck(x, s)
         \/ \E k \in Keys : ReplaceCheck(x, k)
         \/ \E s \in Subscriptions, n \in SeatLimits : ResizeRead(x, s, n)
         \/ TaskAborts(x)
  PROVE  LicensingInv'
<1>1. TypeOK
  BY DEF LicensingInv
<1>2. task[x].phase # "resetting" => {k \in Keys : HalfReset(x, k)} = {}
  BY DEF HalfReset
<1>3. \A s \in Subscriptions : subscription[s].seatLimit \in SeatLimits
                               /\ subscription[s].seatLimit \in Nat
  BY <1>1, RowsTyped DEF SubscriptionRow
<1>4. ASSUME NEW s \in Subscriptions, CreateCheck(x, s)
      PROVE  LicensingInv'
  <2> DEFINE t == [phase |-> "creating", sub |-> s, seenUsable |-> UsableKeys(s),
                   seenLimit |-> subscription[s].seatLimit, limit |-> subscription[s].seatLimit]
  <2>1. t \in SeatTask
    BY <1>3, UsableCounted DEF SeatTask
  <2>2. t \in Task
    BY <2>1 DEF Task
  <2>3. Exists(s) /\ Cardinality(UsableKeys(s)) < subscription[s].seatLimit
    BY <1>4, UsableCounted DEF CreateCheck, Current, Exists, SeatLeft
  <2>4. Cardinality(UsableKeys(s)) \in Nat
    BY UsableCounted, FewerUsable
  <2>5. /\ task' = [task EXCEPT ![x] = t] /\ task[x].phase # "resetting"
        /\ UNCHANGED <<key, activation, client, overtaken, returned, revived, torn, crowded>>
    BY <1>4 DEF CreateCheck
  <2>6. /\ t.phase = "creating" /\ t.sub = s /\ t.seenUsable = UsableKeys(s)
        /\ t.limit = subscription[s].seatLimit /\ t.seenLimit = t.limit
    OBVIOUS
  <2> HIDE DEF t
  <2>7. /\ Exists(t.sub) /\ Cardinality(t.seenUsable) <= t.limit
        /\ Cardinality(t.seenUsable) < t.limit
    BY <1>3, <2>3, <2>4, <2>6
  <2>8. torn' = torn \cup {k \in Keys : HalfReset(x, k)}
    BY <1>2, <2>5
  <2> QED
    BY <2>2, <2>5, <2>6, <2>7, <2>8, TaskMoves
<1>5. ASSUME NEW s \in Subscriptions, NEW n \in SeatLimits, ResizeRead(x, s, n)
      PROVE  LicensingInv'
  <2> DEFINE t == [phase |-> "resizing", sub |-> s, seenUsable |-> UsableKeys(s),
                   seenLimit |-> subscription[s].seatLimit, limit |-> n]
  <2>1. t \in SeatTask
    BY <1>3, UsableCounted DEF SeatTask
  <2>2. t \in Task
    BY <2>1 DEF Task
  <2>3. Exists(s) /\ n >= Cardinality(UsableKeys(s))
    BY <1>5 DEF ResizeRead
  <2>4. Cardinality(UsableKeys(s)) \in Nat /\ n \in Nat
    BY UsableCounted, FewerUsable
  <2>5. /\ task' = [task EXCEPT ![x] = t] /\ task[x].phase # "resetting"
        /\ UNCHANGED <<key, activation, client, overtaken, returned, revived, torn, crowded>>
    BY <1>5 DEF ResizeRead
  <2>6. /\ t.phase = "resizing" /\ t.sub = s /\ t.seenUsable = UsableKeys(s) /\ t.limit = n
    OBVIOUS
  <2> HIDE DEF t
  <2>7. Exists(t.sub) /\ Cardinality(t.seenUsable) <= t.limit
    BY <2>3, <2>4, <2>6
  <2>8. torn' = torn \cup {k \in Keys : HalfReset(x, k)}
    BY <1>2, <2>5
  <2> QED
    BY <2>2, <2>5, <2>6, <2>7, <2>8, TaskMoves
<1>6. ASSUME NEW k \in Keys, ReplaceCheck(x, k)
      PROVE  LicensingInv'
  <2> DEFINE t == [phase |-> "replacing", key |-> k]
  <2>1. t \in Task /\ t.phase = "replacing" /\ t.key = k
    BY DEF Task
  <2>2. /\ task' = [task EXCEPT ![x] = t] /\ task[x].phase # "resetting"
        /\ key[k].status # "none"
        /\ UNCHANGED <<key, activation, client, overtaken, returned, revived, torn, crowded>>
    BY <1>6 DEF ReplaceCheck
  <2> HIDE DEF t
  <2> QED
    BY <1>2, <2>1, <2>2, TaskMoves
<1>7. CASE TaskAborts(x)
  BY <1>7, NothingTyped, TaskMoves DEF TaskAborts
<1> QED
  BY <1>4, <1>5, <1>6, <1>7

LEMMA ResizeWriteStep ==
  ASSUME LicensingInv, NEW x \in Operators, ResizeWrite(x)
  PROVE  LicensingInv'
<1> DEFINE t == task[x]
           s == t.sub
           row == [subscription[s] EXCEPT !.seatLimit = t.limit]
<1>1. TypeOK /\ CountFits(x) /\ t.phase = "resizing"
  BY DEF LicensingInv, CountsFit, ResizeWrite
<1>2. /\ t \in SeatTask /\ s \in Subscriptions /\ t.limit \in SeatLimits /\ t.seenUsable \in SUBSET Keys
      /\ Exists(s) /\ Cardinality(t.seenUsable) <= t.limit
  BY <1>1, TaskTyped DEF CountFits, SeatTask
<1>3. row \in SubscriptionRow /\ row.status = subscription[s].status /\ row.seatLimit = t.limit
  <2>1. subscription[s] \in SubscriptionRow
    BY <1>1, <1>2, RowsTyped
  <2> QED
    BY <1>2, <2>1 DEF SubscriptionRow
<1>4. /\ subscription' = [subscription EXCEPT ![s] = row]
      /\ task' = [task EXCEPT ![x] = IdleTask] /\ crowded' = crowded \cup Crowds(t)
      /\ UNCHANGED <<organization, review, changes, key, activation, client,
                     overtaken, returned, revived, torn, sweep>>
  BY <1>1, <1>2, RowsTyped DEF ResizeWrite
<1> HIDE DEF row
<1>5. /\ subscription' \in [Subscriptions -> SubscriptionRow] /\ subscription'[s] = row
      /\ \A r \in Subscriptions \ {s} : subscription'[r] = subscription[r]
  BY <1>1, <1>2, <1>3, <1>4, RowsTyped
<1>6. /\ task' \in [Operators -> Task] /\ task'[x].phase = "idle"
      /\ \A y \in Operators \ {x} : task'[y] = task[y]
  BY <1>1, <1>4, RowsTyped, NothingTyped
<1>7. TypeOK'
  <2>1. Crowds(t) \subseteq Subscriptions
    BY <1>2 DEF Crowds
  <2>2. KeysTypeOK'
    BY <1>1, <1>4, <1>6, <2>1, RowsTyped DEF KeysTypeOK
  <2> QED
    BY <1>1, <1>4, <1>5, <2>2, RowsTyped DEF TypeOK, SubscriptionsTypeOK
<1>8. \A r \in Subscriptions : Exists(r) => Exists(r)'
  BY <1>3, <1>5 DEF Exists
<1>9. CallsAllowed' /\ OneActive' /\ RevokedPointsNowhere'
  BY <1>4, CallKept DEF LicensingInv, CallsAllowed, OneActive, RevokedPointsNowhere
<1>10. ASSUME NEW y \in Operators PROVE CountFits(y)'
  BY <1>4, <1>6, <1>8, CountsKept DEF CountFits
<1>11. KeysOwned'
  BY <1>1, <1>4, <1>8, RowsTyped DEF LicensingInv, KeysOwned, KeyRow
<1>12. ASSUME NEW r \in Subscriptions, r \notin crowded'
       PROVE  Cardinality(UsableKeys(r)' \ revived') <= subscription'[r].seatLimit
  <2>1. UsableKeys(r)' = UsableKeys(r) /\ revived' = revived /\ r \notin crowded
    BY <1>4, <1>12 DEF UsableKeys, Usable
  <2>2. CASE r # s
    BY <1>5, <2>1, <2>2 DEF LicensingInv, SeatsRespected
  <2>3. CASE r = s
    <3>1. UsableKeys(s) \subseteq t.seenUsable
      BY <1>4, <1>12, <2>3 DEF Crowds
    <3>2. UsableKeys(s) \ revived \in SUBSET t.seenUsable
      BY <3>1
    <3>3. t.limit \in Nat
      BY <1>2
    <3> QED
      BY <1>2, <1>3, <1>5, <2>1, <2>3, <3>2, <3>3, FewerUsable
  <2> QED
    BY <2>2, <2>3
<1>13. ASSUME NEW k \in Keys, k \notin overtaken', k \notin revived', k \notin torn'
       PROVE  PointerRight(k)'
  <2>1. PointerRight(k)
    BY <1>4, <1>13 DEF LicensingInv, PointersRight
  <2>2. Unpointing(k) => Unpointing(k)'
    BY <1>1, <1>4, <1>6 DEF Unpointing, HalfReset
  <2> QED
    BY <1>4, <2>1, <2>2 DEF PointerRight, ActiveDevices
<1> QED
  BY <1>7, <1>9, <1>10, <1>11, <1>12, <1>13
     DEF LicensingInv, PointersRight, CountsFit, SeatsRespected

LEMMA CreateKeyStep ==
  ASSUME LicensingInv, NEW x \in Operators, NEW k \in Keys, NEW past \in BOOLEAN,
         CreateKey(x, k, past), UNCHANGED <<subscriptionVars, sweep>>
  PROVE  LicensingInv'
<1> DEFINE t == task[x]
           s == t.sub
           row == [NoKey EXCEPT !.status = "AVAILABLE", !.sub = s, !.past = past]
<1>1. TypeOK /\ CountFits(x) /\ t.phase = "creating" /\ key[k].status = "none"
  BY DEF LicensingInv, CountsFit, CreateKey
<1>2. /\ t \in SeatTask /\ s \in Subscriptions /\ t.limit \in SeatLimits /\ t.seenUsable \in SUBSET Keys
      /\ Exists(s) /\ Cardinality(t.seenUsable) < t.limit /\ t.seenLimit = t.limit
  BY <1>1, TaskTyped DEF CountFits, SeatTask
<1>3. row \in KeyRow /\ row.status = "AVAILABLE" /\ row.bound = NoDevice /\ row.sub = s
  BY <1>2, NothingTyped DEF KeyRow
<1>4. /\ key' = [key EXCEPT ![k] = row]
      /\ task' = [task EXCEPT ![x] = IdleTask] /\ crowded' = crowded \cup Crowds(t)
      /\ UNCHANGED <<activation, client, overtaken, returned, revived, torn>>
  BY DEF CreateKey
<1>5. UNCHANGED <<subscription, organization>>
  BY DEF subscriptionVars
<1> HIDE DEF row
<1>6. /\ key' \in [Keys -> KeyRow] /\ key'[k] = row
      /\ \A j \in Keys \ {k} : key'[j] = key[j]
  BY <1>1, <1>3, <1>4, RowsTyped
<1>7. /\ task' \in [Operators -> Task] /\ task'[x].phase = "idle"
      /\ \A y \in Operators \ {x} : task'[y] = task[y]
  BY <1>1, <1>4, RowsTyped, NothingTyped
<1>8. TypeOK'
  <2>1. Crowds(t) \subseteq Subscriptions
    BY <1>2 DEF Crowds
  <2>2. KeysTypeOK'
    BY <1>1, <1>4, <1>6, <1>7, <2>1, RowsTyped DEF KeysTypeOK
  <2> QED
    BY <1>1, <2>2 DEF TypeOK, SubscriptionsTypeOK, subscriptionVars
<1>9. \A j \in Keys : key[j].status # "none" => key'[j].status # "none"
  BY <1>1, <1>6
<1>10. CallsAllowed' /\ OneActive'
  BY <1>4, <1>9, CallKept DEF LicensingInv, CallsAllowed, OneActive
<1>11. ASSUME NEW y \in Operators PROVE CountFits(y)'
  BY <1>5, <1>7, <1>9, CountsKept DEF CountFits, Exists
<1>12. KeysOwned' /\ RevokedPointsNowhere'
  BY <1>1, <1>2, <1>3, <1>5, <1>6 DEF LicensingInv, KeysOwned, RevokedPointsNowhere, Exists
<1>13. ASSUME NEW r \in Subscriptions, r \notin crowded'
       PROVE  Cardinality(UsableKeys(r)' \ revived') <= subscription'[r].seatLimit
  <2>1. r \notin crowded /\ revived' = revived
    BY <1>4, <1>13
  <2>2. CASE r # s
    <3>1. UsableKeys(r)' = UsableKeys(r)
      BY <1>1, <1>3, <1>6, <2>2 DEF UsableKeys, Usable
    <3> QED
      BY <1>5, <2>1, <3>1 DEF LicensingInv, SeatsRespected
  <2>3. CASE r = s
    <3>1. UsableKeys(s) \subseteq t.seenUsable /\ ~(subscription[s].seatLimit < t.seenLimit)
      BY <1>4, <1>13, <2>3 DEF Crowds
    <3>2. UsableKeys(r)' \ revived' \subseteq UsableKeys(s) \cup {k}
      BY <1>6, <2>3 DEF UsableKeys, Usable
    <3>3. k \notin UsableKeys(s) /\ UsableKeys(s) \in SUBSET t.seenUsable
      BY <1>1, <3>1 DEF UsableKeys, Usable
    <3>4. /\ Cardinality(UsableKeys(s)) <= Cardinality(t.seenUsable)
          /\ Cardinality(UsableKeys(s)) \in Nat /\ Cardinality(t.seenUsable) \in Nat
          /\ IsFiniteSet(UsableKeys(s))
      BY <1>2, <3>3, FewerUsable
    <3>5. Cardinality(UsableKeys(s) \cup {k}) = Cardinality(UsableKeys(s)) + 1
      BY <3>3, <3>4, FS_AddElement
    <3>6. UsableKeys(s) \cup {k} \in SUBSET Keys
      BY <1>2, <3>3
    <3>7. Cardinality(UsableKeys(r)' \ revived') <= Cardinality(UsableKeys(s) \cup {k})
          /\ Cardinality(UsableKeys(r)' \ revived') \in Nat
      BY <3>2, <3>6, FewerUsable
    <3>8. t.limit \in Nat /\ subscription[s].seatLimit \in Nat
      BY <1>1, <1>2, RowsTyped DEF SubscriptionRow
    <3> HIDE DEF s, t
    <3> QED
      BY <1>2, <1>5, <2>3, <3>1, <3>4, <3>5, <3>7, <3>8
  <2> QED
    BY <2>2, <2>3
<1>14. ASSUME NEW j \in Keys, j \notin overtaken', j \notin revived', j \notin torn'
       PROVE  PointerRight(j)'
  <2>1. PointerRight(j)
    BY <1>4, <1>14 DEF LicensingInv, PointersRight
  <2>2. CASE j = k
    BY <1>3, <1>6, <2>2 DEF PointerRight
  <2>3. CASE j # k
    <3>1. key'[j] = key[j]
      BY <1>6, <2>3
    <3>2. Unpointing(j) => Unpointing(j)'
      BY <1>1, <1>7, <3>1 DEF Unpointing, HalfReset
    <3> QED
      BY <1>4, <2>1, <3>1, <3>2 DEF PointerRight, ActiveDevices
  <2> QED
    BY <2>2, <2>3
<1> QED
  BY <1>8, <1>10, <1>11, <1>12, <1>13, <1>14
     DEF LicensingInv, PointersRight, CountsFit, SeatsRespected

\* Steps that take keys and activations away, or give back what the history shows
LEMMA KeysMove ==
  ASSUME LicensingInv, SubscriptionsTypeOK',
         key' \in [Keys -> KeyRow],
         activation' \in [Keys -> [Devices -> ActivationStatuses]],
         task' \in [Operators -> Task], sweep' \in {"idle", "expired", "listed"},
         revived' \subseteq Keys, UNCHANGED <<client, overtaken, returned, torn, crowded>>,
         \A s \in Subscriptions :
           Exists(s) => Exists(s)' /\ subscription'[s].seatLimit = subscription[s].seatLimit,
         \A k \in Keys :
           /\ key'[k].sub = key[k].sub /\ (key'[k].status = "none" <=> key[k].status = "none")
           /\ key[k].status = "none" => key'[k].bound = key[k].bound
           /\ Usable(k)' /\ k \notin revived' => Usable(k) /\ k \notin revived,
         \A k \in Keys, d \in Devices : activation'[k][d] = "ACTIVE" => activation[k][d] = "ACTIVE",
         \A k \in Keys \ (overtaken \cup revived' \cup torn) : PointerRight(k)',
         RevokedPointsNowhere',
         \A x \in Operators : task'[x] = task[x] \/ CountFits(x)'
  PROVE  LicensingInv'
<1>1. TypeOK
  BY DEF LicensingInv
<1>2. TypeOK'
  BY <1>1, RowsTyped DEF TypeOK, KeysTypeOK
<1>3. CallsAllowed' /\ CountsFit'
  BY CallKept, CountsKept DEF CallsAllowed, CountsFit
<1>4. OneActive'
  BY DEF LicensingInv, OneActive
<1>5. KeysOwned' /\ SeatsRespected'
  BY <1>2, SeatsKept
<1> QED
  BY <1>2, <1>3, <1>4, <1>5 DEF LicensingInv, PointersRight

\* The pointer of a key whose devices and resets are as they were
LEMMA PointerKept ==
  ASSUME NEW k \in Keys, PointerRight(k), UNCHANGED <<activation, task>>,
         key'[k].bound = key[k].bound,
         key'[k].status = key[k].status \/ key'[k].status \in {"EXPIRED", "DISABLED"}
  PROVE  PointerRight(k)'
<1> QED
  BY DEF PointerRight, Unpointing, HalfReset, ActiveDevices

LEMMA ResetActivationStep ==
  ASSUME LicensingInv, NEW x \in Operators, NEW k \in Keys, NEW d \in Devices,
         ResetActivation(x, k, d), UNCHANGED <<subscriptionVars, sweep>>
  PROVE  LicensingInv'
<1> DEFINE t == [phase |-> "resetting", key |-> k, device |-> d]
           devices == [activation[k] EXCEPT ![d] = "RESET"]
<1>1. TypeOK
  BY DEF LicensingInv
<1>2. activation[k] \in [Devices -> ActivationStatuses]
  BY <1>1, RowsTyped
<1>3. devices \in [Devices -> ActivationStatuses] /\ devices[d] = "RESET"
      /\ \A e \in Devices \ {d} : devices[e] = activation[k][e]
  BY <1>2 DEF ActivationStatuses
<1>4. t \in Task /\ t.phase = "resetting" /\ t.key = k /\ t.device = d
  BY DEF Task
<1>5. /\ activation' = [activation EXCEPT ![k] = devices]
      /\ task' = [task EXCEPT ![x] = t] /\ task[x].phase = "idle"
      /\ UNCHANGED <<key, client, overtaken, returned, revived, torn, crowded>>
  BY <1>1, RowsTyped DEF ResetActivation
<1> HIDE DEF t, devices
<1>6. /\ activation' \in [Keys -> [Devices -> ActivationStatuses]] /\ activation'[k] = devices
      /\ \A j \in Keys \ {k} : activation'[j] = activation[j]
  BY <1>1, <1>3, <1>5, RowsTyped
<1>7. /\ task' \in [Operators -> Task] /\ task'[x] = t
      /\ \A y \in Operators \ {x} : task'[y] = task[y]
  BY <1>1, <1>4, <1>5, RowsTyped
<1>8. UNCHANGED <<subscription, organization>> /\ SubscriptionsTypeOK'
  BY <1>1 DEF subscriptionVars, TypeOK, SubscriptionsTypeOK
<1>9. ASSUME NEW j \in Keys, j \notin overtaken, j \notin revived', j \notin torn
      PROVE  PointerRight(j)'
  <2>1. PointerRight(j)
    BY <1>5, <1>9 DEF LicensingInv, PointersRight
  <2>2. Unpointing(j) => Unpointing(j)'
    BY <1>5, <1>7 DEF Unpointing, HalfReset
  <2>3. key[j].bound \in ActiveDevices(j) =>
          key[j].bound \in ActiveDevices(j)' \/ (j = k /\ key[j].bound = d)
    BY <1>3, <1>6 DEF ActiveDevices
  <2>4. j = k /\ key[j].bound = d => Unpointing(j)'
    BY <1>4, <1>5, <1>7 DEF Unpointing, HalfReset
  <2> QED
    BY <1>5, <2>1, <2>2, <2>3, <2>4 DEF PointerRight
<1>10. CountFits(x)'
  BY <1>4, <1>7 DEF CountFits
<1>11. RevokedPointsNowhere'
  BY <1>5, <1>8 DEF LicensingInv, RevokedPointsNowhere
<1>12. \A j \in Keys, e \in Devices :
         activation'[j][e] = "ACTIVE" => activation[j][e] = "ACTIVE"
  BY <1>3, <1>6
<1> QED
  BY <1>1, <1>5, <1>6, <1>7, <1>8, <1>9, <1>10, <1>11, <1>12, KeysMove, RowsTyped DEF Usable, Exists

LEMMA ResetKeyStep ==
  ASSUME LicensingInv, NEW x \in Operators, ResetKey(x), UNCHANGED <<subscriptionVars, sweep>>
  PROVE  LicensingInv'
<1> DEFINE k == task[x].key
           points == key[k].bound = task[x].device
           row == [key[k] EXCEPT !.status = "AVAILABLE", !.bound = NoDevice]
<1>1. TypeOK /\ task[x].phase = "resetting" /\ KeysOwned
  BY DEF LicensingInv, ResetKey
<1>2. k \in Keys /\ task[x].device \in Devices
  BY <1>1, TaskTyped
<1>3. /\ key' = [j \in Keys |-> IF j = k /\ points THEN row ELSE key[j]]
      /\ revived' = revived \cup {j \in {k} : points /\ ~Usable(j)}
      /\ task' = [task EXCEPT ![x] = IdleTask]
      /\ UNCHANGED <<activation, client, overtaken, returned, torn, crowded>>
  BY DEF ResetKey
<1>4. key[k] \in KeyRow /\ row \in KeyRow /\ row.status = "AVAILABLE" /\ row.bound = NoDevice
      /\ row.sub = key[k].sub
  <2>1. key[k] \in KeyRow
    BY <1>1, <1>2, RowsTyped
  <2> QED
    BY <2>1 DEF KeyRow
<1>5. points => key[k].status # "none"
  BY <1>1, <1>2 DEF KeysOwned
<1> HIDE DEF row, points
<1>6. /\ key' \in [Keys -> KeyRow] /\ \A j \in Keys \ {k} : key'[j] = key[j]
      /\ key'[k] = IF points THEN row ELSE key[k]
  BY <1>1, <1>2, <1>3, <1>4, RowsTyped
<1>7. /\ task' \in [Operators -> Task] /\ task'[x].phase = "idle"
      /\ \A y \in Operators \ {x} : task'[y] = task[y]
  BY <1>1, <1>3, RowsTyped, NothingTyped
<1>8. UNCHANGED <<subscription, organization>> /\ SubscriptionsTypeOK'
  BY <1>1 DEF subscriptionVars, TypeOK, SubscriptionsTypeOK
<1>9. ASSUME NEW j \in Keys, j \notin overtaken, j \notin revived', j \notin torn
      PROVE  PointerRight(j)'
  <2>1. PointerRight(j)
    BY <1>3, <1>9 DEF LicensingInv, PointersRight
  <2>2. CASE j = k /\ points
    BY <1>4, <1>6, <2>2 DEF PointerRight
  <2>3. CASE ~(j = k /\ points)
    <3>1. key'[j] = key[j]
      BY <1>6, <2>3
    <3>2. Unpointing(j) => Unpointing(j)'
      BY <1>7, <2>3, <3>1 DEF Unpointing, HalfReset, points
    <3> QED
      BY <1>3, <2>1, <3>1, <3>2 DEF PointerRight, ActiveDevices
  <2> QED
    BY <2>2, <2>3
<1>10. CountFits(x)'
  BY <1>7 DEF CountFits
<1>11. RevokedPointsNowhere'
  BY <1>4, <1>6, <1>8 DEF LicensingInv, RevokedPointsNowhere
<1>12. \A j \in Keys :
         /\ key'[j].sub = key[j].sub /\ (key'[j].status = "none" <=> key[j].status = "none")
         /\ key[j].status = "none" => key'[j].bound = key[j].bound
         /\ Usable(j)' /\ j \notin revived' => Usable(j) /\ j \notin revived
  BY <1>3, <1>4, <1>5, <1>6 DEF Usable
<1>13. revived' \subseteq Keys
  BY <1>1, <1>2, <1>3, RowsTyped
<1> QED
  BY <1>1, <1>3, <1>6, <1>7, <1>8, <1>9, <1>10, <1>11, <1>12, <1>13, KeysMove, RowsTyped DEF Exists

\* revokeHardwareActivationKey, by itself or as part of a replacement
LEMMA RevokedStep ==
  ASSUME LicensingInv, NEW k \in Keys, key[k].status # "none", Revoked(k),
         UNCHANGED <<subscriptionVars, sweep, client, overtaken, returned, revived, torn, crowded>>,
         task' \in [Operators -> Task],
         \A y \in Operators : task'[y] = task[y] \/ CountFits(y)',
         \A y \in Operators : task[y].phase = "resetting" => task'[y] = task[y]
  PROVE  LicensingInv'
<1> DEFINE row == [key[k] EXCEPT !.status = "DISABLED", !.bound = NoDevice]
           devices == [d \in Devices |-> IF activation[k][d] = "ACTIVE" THEN "DISABLED"
                                         ELSE activation[k][d]]
<1>1. TypeOK
  BY DEF LicensingInv
<1>2. key[k] \in KeyRow /\ activation[k] \in [Devices -> ActivationStatuses]
  BY <1>1, RowsTyped
<1>3. row \in KeyRow /\ row.status = "DISABLED" /\ row.bound = NoDevice /\ row.sub = key[k].sub
  BY <1>2 DEF KeyRow
<1>4. devices \in [Devices -> ActivationStatuses] /\ \A d \in Devices : devices[d] # "ACTIVE"
  BY <1>2 DEF ActivationStatuses
<1>5. key' = [key EXCEPT ![k] = row] /\ activation' = [activation EXCEPT ![k] = devices]
  BY <1>1, RowsTyped DEF Revoked
<1> HIDE DEF row, devices
<1>6. /\ key' \in [Keys -> KeyRow] /\ key'[k] = row /\ \A j \in Keys \ {k} : key'[j] = key[j]
  BY <1>1, <1>3, <1>5, RowsTyped
<1>7. /\ activation' \in [Keys -> [Devices -> ActivationStatuses]] /\ activation'[k] = devices
      /\ \A j \in Keys \ {k} : activation'[j] = activation[j]
  BY <1>1, <1>4, <1>5, RowsTyped
<1>8. UNCHANGED <<subscription, organization>> /\ SubscriptionsTypeOK'
  BY <1>1 DEF subscriptionVars, TypeOK, SubscriptionsTypeOK
<1>9. ASSUME NEW j \in Keys, j \notin overtaken, j \notin revived', j \notin torn
      PROVE  PointerRight(j)'
  <2>1. PointerRight(j)
    BY <1>9 DEF LicensingInv, PointersRight
  <2>2. CASE j = k
    BY <1>3, <1>6, <2>2 DEF PointerRight
  <2>3. CASE j # k
    BY <1>6, <1>7, <2>1, <2>3 DEF PointerRight, ActiveDevices, Unpointing, HalfReset
  <2> QED
    BY <2>2, <2>3
<1>10. RevokedPointsNowhere'
  BY <1>3, <1>6, <1>8 DEF LicensingInv, RevokedPointsNowhere
<1>11. \A j \in Keys :
         /\ key'[j].sub = key[j].sub /\ (key'[j].status = "none" <=> key[j].status = "none")
         /\ key[j].status = "none" => key'[j].bound = key[j].bound
         /\ Usable(j)' /\ j \notin revived' => Usable(j) /\ j \notin revived
  BY <1>3, <1>6 DEF Usable
<1>12. \A j \in Keys, e \in Devices :
         activation'[j][e] = "ACTIVE" => activation[j][e] = "ACTIVE"
  BY <1>4, <1>7
<1> QED
  BY <1>1, <1>6, <1>7, <1>8, <1>9, <1>10, <1>11, <1>12, KeysMove, RowsTyped DEF Exists

LEMMA RevokeSteps ==
  ASSUME LicensingInv, NEW x \in Operators, UNCHANGED <<subscriptionVars, sweep>>,
         (\E k \in Keys : Revoke(x, k)) \/ ReplaceRevoke(x)
  PROVE  LicensingInv'
<1>1. TypeOK /\ CountFits(x)
  BY DEF LicensingInv, CountsFit
<1>2. ASSUME NEW k \in Keys, Revoke(x, k) PROVE LicensingInv'
  <2>1. /\ key[k].status # "none" /\ Revoked(k)
        /\ UNCHANGED <<client, task, overtaken, returned, revived, torn, crowded>>
    BY <1>2 DEF Revoke
  <2> QED
    BY <1>1, <2>1, RevokedStep, RowsTyped
<1>3. CASE ReplaceRevoke(x)
  <2> DEFINE k == task[x].key
             t == [phase |-> "recreating", sub |-> key[k].sub]
  <2>1. /\ task[x].phase = "replacing" /\ Revoked(k) /\ task' = [task EXCEPT ![x] = t]
        /\ UNCHANGED <<client, overtaken, returned, revived, torn, crowded>>
    BY <1>3 DEF ReplaceRevoke
  <2>2. k \in Keys /\ key[k].status # "none"
    BY <1>1, <2>1, TaskTyped DEF CountFits
  <2>3. key[k].sub \in Subscriptions
    BY <1>1, <2>2, RowsTyped DEF KeyRow
  <2>4. t \in Task /\ t.phase = "recreating"
    BY <2>3 DEF Task
  <2> HIDE DEF t, k
  <2>5. /\ task' \in [Operators -> Task] /\ task'[x] = t
        /\ \A y \in Operators \ {x} : task'[y] = task[y]
    BY <1>1, <2>1, <2>4, RowsTyped
  <2>6. CountFits(x)'
    BY <2>4, <2>5 DEF CountFits
  <2> QED
    BY <2>1, <2>2, <2>5, <2>6, RevokedStep
<1> QED
  BY <1>2, <1>3

-----------------------------------------------------------------------------
\* What time, renewals, the archiving of the organization and the sweep do
LEMMA KeyDateStep ==
  ASSUME LicensingInv, NEW k \in Keys, KeyDateReached(k)
  PROVE  LicensingInv'
<1> DEFINE row == [key[k] EXCEPT !.past = TRUE]
<1>1. TypeOK
  BY DEF LicensingInv
<1>2. key[k] \in KeyRow
  BY <1>1, RowsTyped
<1>3. row \in KeyRow /\ row.status = key[k].status /\ row.bound = key[k].bound /\ row.sub = key[k].sub
  BY <1>2 DEF KeyRow
<1>4. /\ key' = [key EXCEPT ![k] = row] /\ changes' \in 0..MaxChanges
      /\ UNCHANGED <<subscription, organization, review, activation, client, task,
                     overtaken, returned, revived, torn, crowded, sweep>>
  BY <1>1, RowsTyped DEF KeyDateReached, Counted
<1> HIDE DEF row
<1>5. /\ key' \in [Keys -> KeyRow] /\ key'[k] = row /\ \A j \in Keys \ {k} : key'[j] = key[j]
  BY <1>1, <1>3, <1>4, RowsTyped
<1>6. SubscriptionsTypeOK'
  BY <1>1, <1>4, RowsTyped DEF SubscriptionsTypeOK
<1>7. \A j \in Keys : /\ key'[j].status = key[j].status /\ key'[j].bound = key[j].bound
                      /\ key'[j].sub = key[j].sub
  BY <1>3, <1>5
<1>8. RevokedPointsNowhere'
  BY <1>4, <1>7 DEF LicensingInv, RevokedPointsNowhere
<1>9. ASSUME NEW j \in Keys, j \notin overtaken, j \notin revived', j \notin torn
      PROVE  PointerRight(j)'
  BY <1>4, <1>7, <1>9, PointerKept DEF LicensingInv, PointersRight
<1> QED
  BY <1>1, <1>4, <1>5, <1>6, <1>7, <1>8, <1>9, KeysMove, RowsTyped DEF Exists, Usable

LEMMA RenewStep ==
  ASSUME LicensingInv, NEW s \in Subscriptions, NEW extendKeys \in BOOLEAN, Renew(s, extendKeys)
  PROVE  LicensingInv'
<1> DEFINE row == [subscription[s] EXCEPT !.status = "ACTIVE", !.ended = FALSE]
<1>1. TypeOK
  BY DEF LicensingInv
<1>2. subscription[s] \in SubscriptionRow /\ \A k \in Keys : key[k] \in KeyRow
  BY <1>1, RowsTyped
<1>3. row \in SubscriptionRow /\ row.status = "ACTIVE" /\ row.seatLimit = subscription[s].seatLimit
  BY <1>2 DEF SubscriptionRow, Statuses
<1>4. /\ subscription' = [subscription EXCEPT ![s] = row] /\ changes' \in 0..MaxChanges
      /\ UNCHANGED <<organization, review, activation, client, task, overtaken,
                     returned, torn, crowded, sweep>>
  <2>1. subscription' = [subscription EXCEPT ![s] = row]
    BY <1>1, RowsTyped DEF Renew
  <2>2. changes' \in 0..MaxChanges
    BY <1>1, RowsTyped DEF Renew, Counted
  <2> QED
    BY <2>1, <2>2 DEF Renew
<1> HIDE DEF row
<1>5. /\ subscription' \in [Subscriptions -> SubscriptionRow]
      /\ \A r \in Subscriptions :
           Exists(r) => Exists(r)' /\ subscription'[r].seatLimit = subscription[r].seatLimit
  BY <1>1, <1>3, <1>4, RowChanges
<1>6. SubscriptionsTypeOK'
  BY <1>1, <1>4, <1>5, RowsTyped DEF SubscriptionsTypeOK
<1>7. /\ key' \in [Keys -> KeyRow] /\ revived' \subseteq Keys /\ revived \subseteq revived'
      /\ \A k \in Keys :
           /\ key'[k].sub = key[k].sub /\ key'[k].bound = key[k].bound
           /\ \/ key'[k].status = key[k].status
              \/ key[k].status = "EXPIRED" /\ key'[k].status = "AVAILABLE" /\ k \in revived'
  <2>1. CASE UNCHANGED <<key, revived>>
    BY <1>1, <2>1, RowsTyped
  <2>2. CASE /\ key' = [k \in Keys |-> Extended(k)]
             /\ revived' = revived \cup {k \in Keys : key[k].status = "EXPIRED"}
    <3>1. ASSUME NEW k \in Keys
          PROVE  /\ Extended(k) \in KeyRow /\ Extended(k).sub = key[k].sub
                 /\ Extended(k).bound = key[k].bound
                 /\ \/ Extended(k).status = key[k].status
                    \/ key[k].status = "EXPIRED" /\ Extended(k).status = "AVAILABLE"
      BY <1>2 DEF Extended, KeyRow
    <3> QED
      BY <1>1, <2>2, <3>1, RowsTyped
  <2> QED
    BY <2>1, <2>2 DEF Renew
<1>8. RevokedPointsNowhere'
  BY <1>4, <1>7 DEF LicensingInv, RevokedPointsNowhere
<1>9. ASSUME NEW k \in Keys, k \notin overtaken, k \notin revived', k \notin torn
      PROVE  PointerRight(k)'
  <2>1. PointerRight(k) /\ key'[k].status = key[k].status
    BY <1>7, <1>9 DEF LicensingInv, PointersRight
  <2> QED
    BY <1>4, <1>7, <2>1, PointerKept
<1>10. \A k \in Keys :
         /\ key'[k].sub = key[k].sub /\ (key'[k].status = "none" <=> key[k].status = "none")
         /\ key[k].status = "none" => key'[k].bound = key[k].bound
         /\ Usable(k)' /\ k \notin revived' => Usable(k) /\ k \notin revived
  BY <1>7 DEF Usable
<1> QED
  BY <1>1, <1>4, <1>5, <1>6, <1>7, <1>8, <1>9, <1>10, KeysMove, RowsTyped

\* A key and its activations, taken away
LEMMA TakenRow ==
  ASSUME NEW row \in KeyRow, NEW status \in {"EXPIRED", "DISABLED"}
  PROVE  LET after == [row EXCEPT !.status = status, !.bound = NoDevice]
             kept == [row EXCEPT !.status = status]
         IN /\ after \in KeyRow /\ after.status = status /\ after.sub = row.sub
            /\ kept \in KeyRow /\ kept.status = status /\ kept.sub = row.sub
            /\ kept.bound = row.bound
<1> QED
  BY DEF KeyRow

LEMMA ArchiveStep ==
  ASSUME LicensingInv, ArchiveOrganization
  PROVE  LicensingInv'
<1> DEFINE sub(s) == IF subscription[s].status \in {"ACTIVE", "TRIAL"}
                     THEN [subscription[s] EXCEPT !.status = "CANCELED", !.ended = TRUE]
                     ELSE subscription[s]
           row(k) == [key[k] EXCEPT !.status = IF @ = "none" THEN @ ELSE "DISABLED"]
           devices(k) == [d \in Devices |-> IF activation[k][d] = "none" THEN "none" ELSE "DISABLED"]
<1>1. TypeOK /\ \A k \in Keys : key[k] \in KeyRow
  BY RowsTyped DEF LicensingInv
<1>2. ASSUME NEW s \in Subscriptions
      PROVE  /\ sub(s) \in SubscriptionRow /\ sub(s).seatLimit = subscription[s].seatLimit
             /\ Exists(s) => sub(s).status # "none"
  <2>1. subscription[s] \in SubscriptionRow
    BY <1>1, RowsTyped
  <2> QED
    BY <2>1 DEF SubscriptionRow, Statuses, Exists
<1>3. ASSUME NEW k \in Keys
      PROVE  /\ row(k) \in KeyRow /\ row(k).sub = key[k].sub /\ row(k).bound = key[k].bound
             /\ row(k).status = IF key[k].status = "none" THEN "none" ELSE "DISABLED"
  BY <1>1 DEF KeyRow
<1>4. \A k \in Keys : devices(k) \in [Devices -> ActivationStatuses]
                      /\ \A d \in Devices : devices(k)[d] # "ACTIVE"
  BY DEF ActivationStatuses
<1>5. /\ organization' = "archived" /\ changes' \in 0..MaxChanges
      /\ subscription' = [s \in Subscriptions |-> sub(s)]
      /\ key' = [k \in Keys |-> row(k)] /\ activation' = [k \in Keys |-> devices(k)]
      /\ UNCHANGED <<review, client, task, overtaken, returned, revived, torn, crowded, sweep>>
  <2>1. changes' \in 0..MaxChanges
    <3>1. Counted
      BY DEF ArchiveOrganization
    <3>2. changes \in 0..MaxChanges
      BY <1>1, RowsTyped
    <3> QED
      BY <3>1, <3>2, MaxChangesAssumption DEF Counted
  <2> QED
    BY <2>1 DEF ArchiveOrganization
<1> HIDE DEF sub, row, devices
<1>6. SubscriptionsTypeOK'
  BY <1>1, <1>2, <1>5, RowsTyped DEF SubscriptionsTypeOK
<1>7. \A s \in Subscriptions :
        Exists(s) => Exists(s)' /\ subscription'[s].seatLimit = subscription[s].seatLimit
  BY <1>2, <1>5 DEF Exists
<1>8. /\ key' \in [Keys -> KeyRow]
      /\ activation' \in [Keys -> [Devices -> ActivationStatuses]]
      /\ \A k \in Keys, d \in Devices : activation'[k][d] # "ACTIVE"
  BY <1>3, <1>4, <1>5
<1>9. \A k \in Keys :
        /\ key'[k].sub = key[k].sub /\ (key'[k].status = "none" <=> key[k].status = "none")
        /\ key'[k].bound = key[k].bound
        /\ key'[k].status \in {"none", "DISABLED"}
  BY <1>3, <1>5
<1>10. ASSUME NEW k \in Keys, k \notin overtaken, k \notin revived', k \notin torn
       PROVE  PointerRight(k)'
  <2>1. PointerRight(k)
    BY <1>5, <1>10 DEF LicensingInv, PointersRight
  <2> QED
    BY <1>9, <2>1 DEF PointerRight
<1>11. RevokedPointsNowhere'
  BY <1>5 DEF RevokedPointsNowhere
<1> QED
  BY <1>1, <1>5, <1>6, <1>7, <1>8, <1>9, <1>10, <1>11, KeysMove, RowsTyped DEF Usable

LEMMA SweepDisableStep ==
  ASSUME LicensingInv, SweepDisable
  PROVE  LicensingInv'
<1> DEFINE row(k) == IF Swept(k) THEN [key[k] EXCEPT !.status = "EXPIRED", !.bound = NoDevice]
                     ELSE key[k]
           devices(k) == [d \in Devices |->
             IF activation[k][d] = "ACTIVE" THEN "DISABLED" ELSE activation[k][d]]
<1>1. TypeOK /\ \A k \in Keys : key[k] \in KeyRow
  BY RowsTyped DEF LicensingInv
<1>2. ASSUME NEW k \in Keys
      PROVE  /\ row(k) \in KeyRow /\ row(k).sub = key[k].sub
             /\ Usable(k) => row(k).status = "EXPIRED"
             /\ ~Usable(k) => row(k) = key[k]
  BY <1>1, TakenRow DEF Swept
<1>3. \A k \in Keys : devices(k) \in [Devices -> ActivationStatuses]
                      /\ \A d \in Devices : devices(k)[d] # "ACTIVE"
  BY <1>1, RowsTyped DEF ActivationStatuses
<1>4. /\ key' = [k \in Keys |-> row(k)] /\ activation' = [k \in Keys |-> devices(k)]
      /\ sweep' = "idle"
      /\ UNCHANGED <<subscriptionVars, client, task, overtaken, returned, revived, torn, crowded>>
  BY DEF SweepDisable
<1> HIDE DEF row, devices
<1>5. UNCHANGED <<subscription, organization>> /\ SubscriptionsTypeOK'
  BY <1>1, <1>4 DEF subscriptionVars, TypeOK, SubscriptionsTypeOK
<1>6. /\ key' \in [Keys -> KeyRow]
      /\ activation' \in [Keys -> [Devices -> ActivationStatuses]]
      /\ \A k \in Keys, d \in Devices : activation'[k][d] # "ACTIVE"
  BY <1>2, <1>3, <1>4
<1>7. \A k \in Keys :
        /\ key'[k].sub = key[k].sub /\ (key'[k].status = "none" <=> key[k].status = "none")
        /\ ~Usable(k) => key'[k] = key[k]
        /\ Usable(k) => key'[k].status = "EXPIRED"
  BY <1>2, <1>4 DEF Usable
<1>8. ASSUME NEW k \in Keys, k \notin overtaken, k \notin revived', k \notin torn
      PROVE  PointerRight(k)'
  <2>1. PointerRight(k)
    BY <1>4, <1>8 DEF LicensingInv, PointersRight
  <2> QED
    BY <1>7, <2>1 DEF PointerRight, Usable
<1>9. RevokedPointsNowhere'
  BY <1>5, <1>7 DEF LicensingInv, RevokedPointsNowhere, Usable
<1> QED
  BY <1>1, <1>4, <1>5, <1>6, <1>7, <1>8, <1>9, KeysMove, RowsTyped DEF Usable, Exists

-----------------------------------------------------------------------------
LEMMA LicensingStep ==
  ASSUME LicensingInv, [Next]_vars
  PROVE  LicensingInv'
<1>1. CASE SubscriptionsNext /\ UNCHANGED <<keyVars, sweep>>
  BY <1>1, SubscriptionsStep
<1>2. CASE KeysNext /\ UNCHANGED <<subscriptionVars, sweep>>
  BY <1>2, ReadSteps, BindWriteStep, VerifyWriteStep, ResetActivationStep, ResetKeyStep,
     RevokeSteps, CheckSteps, CreateKeyStep DEF KeysNext
<1>3. CASE LicensingNext
  <2>1. ASSUME NEW x \in Operators, NEW s \in Subscriptions, NEW n \in SeatLimits,
               ResizeRead(x, s, n)
        PROVE  LicensingInv'
    <3>1. UNCHANGED <<subscriptionVars, sweep>>
      BY <2>1 DEF ResizeRead
    <3> QED
      BY <2>1, <3>1, CheckSteps
  <2> QED
    BY <1>3, <2>1, KeyDateStep, ResizeWriteStep, RenewStep, ArchiveStep, SweepSteps,
       SweepDisableStep DEF LicensingNext
<1>4. CASE UNCHANGED vars
  <2>1. /\ UNCHANGED keyVars /\ sweep' = sweep /\ organization' = organization
        /\ subscription' = subscription /\ review' = review /\ changes' = changes
    BY <1>4 DEF vars, subscriptionVars
  <2>2. SubscriptionsTypeOK' /\ sweep' \in {"idle", "expired", "listed"}
    BY <2>1 DEF LicensingInv, TypeOK, SubscriptionsTypeOK
  <2> QED
    BY <2>1, <2>2, SubscriptionMoves DEF Exists
<1> QED
  BY <1>1, <1>2, <1>3, <1>4 DEF Next

LEMMA LicensingInvariant == Spec => []LicensingInv
  BY LicensingInitInv, LicensingStep, PTL DEF Spec

\* Rows, calls and histories keep their types through every interleaving of
\* device calls, super admins, reviews and the sweep (licensing.service.ts).
THEOREM LicensingTypes == Spec => []TypeOK
<1>1. LicensingInv => TypeOK
  BY DEF LicensingInv
<1> QED
  BY <1>1, LicensingInvariant, PTL

\* A key that no call overtook and no device came back to serves one device
\* (bindHardwareActivation), however many devices and super admins act on it.
THEOREM KeyServesOneDevice == Spec => []OneDevicePerKey
<1>1. LicensingInv => OneDevicePerKey
  <2> SUFFICES ASSUME LicensingInv, NEW k \in Keys \ (overtaken \cup returned)
               PROVE  Cardinality(ActiveDevices(k)) <= 1
    BY DEF OneDevicePerKey
  <2>1. \A d, e \in ActiveDevices(k) : d = e
    BY DEF LicensingInv, OneActive, ActiveDevices
  <2>2. CASE ActiveDevices(k) = {}
    <3>1. Cardinality(ActiveDevices(k)) = 0
      BY <2>2, FS_EmptySet, Zenon
    <3> QED
      BY <3>1
  <2>3. CASE ActiveDevices(k) # {}
    <3>1. PICK d : ActiveDevices(k) = {d}
      BY <2>1, <2>3
    <3>2. Cardinality(ActiveDevices(k)) = 1
      BY <3>1, FS_Singleton
    <3> QED
      BY <3>2
  <2> QED
    BY <2>2, <2>3
<1> QED
  BY <1>1, LicensingInvariant, PTL

\* The pointer of a bound key is a device it serves (bindHardwareActivation,
\* resetHardwareActivation), between the two statements of a reset apart.
THEOREM PointerServed == Spec => []PointerIsActiveDevice
<1>1. LicensingInv => PointerIsActiveDevice
  BY DEF LicensingInv, PointersRight, PointerRight, Unpointing, PointerIsActiveDevice
<1> QED
  BY <1>1, LicensingInvariant, PTL

\* The usable keys of a subscription fit its seats (createHardwareActivationKey,
\* replaceHardwareActivationKey, updateSubscription), unless two super admins
\* gave them out at the same time.
THEOREM SeatsFit == Spec => []SeatsRespected
<1>1. LicensingInv => SeatsRespected
  BY DEF LicensingInv
<1> QED
  BY <1>1, LicensingInvariant, PTL

\* What may happen to a revoked key in one step
RevokedStays ==
  \A k \in Keys :
    /\ key[k].status = "DISABLED"
    /\ key'[k].status # "DISABLED"
    => ReadBeforeRevocation(k) \/ organization = "archived"

RevokedStayOn ==
  \A k \in Keys :
    /\ key[k].status = "DISABLED"
    /\ key'[k].status # "DISABLED"
    => organization = "archived"

LEMMA CallOvertaken ==
  ASSUME LicensingInv, NEW c \in Clients, BindWrite(c) \/ VerifyWrite(c)
  PROVE  RevokedStays
<1> DEFINE j == client[c].key
<1>1. TypeOK /\ CallAllowed(c) /\ client[c].phase # "idle"
  BY DEF LicensingInv, CallsAllowed, BindWrite, VerifyWrite
<1>2. j \in Keys /\ client[c].seenKey.status # "DISABLED"
  BY <1>1, CallTyped DEF CallAllowed
<1>3. client'[c].phase = "idle"
  BY <1>1, RowsTyped, NothingTyped DEF BindWrite, VerifyWrite
<1>4. \A k \in Keys \ {j} : key'[k] = key[k]
  <2>1. key \in [Keys -> KeyRow] /\ key[j] \in KeyRow
    BY <1>1, <1>2, RowsTyped
  <2> QED
    BY <2>1 DEF BindWrite, VerifyWrite
<1> QED
  BY <1>1, <1>2, <1>3, <1>4 DEF RevokedStays, ReadBeforeRevocation

LEMMA ResetFindsNoRevoked ==
  ASSUME LicensingInv, NEW x \in Operators, ResetKey(x)
  PROVE  RevokedStayOn
<1>1. TypeOK /\ task[x].phase = "resetting"
  BY DEF LicensingInv, ResetKey
<1>2. task[x].device # NoDevice
  BY <1>1, TaskTyped
<1>3. \A k \in Keys : key[k].bound = NoDevice => key'[k] = key[k]
  BY <1>1, <1>2, RowsTyped DEF ResetKey
<1> QED
  BY <1>3 DEF LicensingInv, RevokedPointsNowhere, RevokedStayOn

LEMMA OthersKeepRevoked ==
  ASSUME LicensingInv, [Next]_vars,
         ~ \E c \in Clients : BindWrite(c) \/ VerifyWrite(c),
         ~ \E x \in Operators : ResetKey(x)
  PROVE  RevokedStayOn
<1>1. TypeOK /\ \A k \in Keys : key[k] \in KeyRow
  BY RowsTyped DEF LicensingInv
<1> SUFFICES ASSUME NEW k \in Keys, key[k].status = "DISABLED"
             PROVE  key'[k].status = "DISABLED"
  BY DEF RevokedStayOn
<1>2. CASE key' = key
  BY <1>2
<1>3. ASSUME NEW j \in Keys, Revoked(j) PROVE key'[k].status = "DISABLED"
  BY <1>1, <1>3, RowsTyped DEF Revoked
<1>4. ASSUME NEW x \in Operators, NEW j \in Keys, NEW past \in BOOLEAN, CreateKey(x, j, past)
      PROVE  key'[k].status = "DISABLED"
  BY <1>1, <1>4, RowsTyped DEF CreateKey
<1>5. ASSUME NEW j \in Keys, KeyDateReached(j) PROVE key'[k].status = "DISABLED"
  BY <1>1, <1>5, RowsTyped DEF KeyDateReached, KeyRow
<1>6. ASSUME NEW s \in Subscriptions, NEW b \in BOOLEAN, Renew(s, b)
      PROVE  key'[k].status = "DISABLED"
  BY <1>6 DEF Renew, Extended
<1>7. CASE ArchiveOrganization
  BY <1>1, <1>7 DEF ArchiveOrganization, KeyRow
<1>8. CASE SweepDisable
  BY <1>1, <1>8 DEF SweepDisable, Swept, Usable
<1>9. ASSUME NEW x \in Operators, ReplaceRevoke(x) PROVE key'[k].status = "DISABLED"
  <2>1. task[x].key \in Keys
    BY <1>1, <1>9, TaskTyped DEF ReplaceRevoke
  <2> QED
    BY <1>3, <1>9, <2>1 DEF ReplaceRevoke
<1>10. CASE SubscriptionsNext /\ UNCHANGED <<keyVars, sweep>>
  BY <1>2, <1>10 DEF keyVars
<1>11. CASE KeysNext
  <2>1. ASSUME NEW c \in Clients,
               \/ \E j \in Keys, d \in Devices : BindRead(c, j, d)
               \/ \E j \in Keys : VerifyRead(c, j)
               \/ ClientAborts(c)
        PROVE  key' = key
    BY <2>1 DEF BindRead, VerifyRead, ClientAborts
  <2>2. ASSUME NEW x \in Operators,
               \/ \E j \in Keys, d \in Devices : ResetActivation(x, j, d)
               \/ \E s \in Subscriptions : CreateCheck(x, s)
               \/ \E j \in Keys : ReplaceCheck(x, j)
               \/ TaskAborts(x)
        PROVE  key' = key
    BY <2>2 DEF ResetActivation, CreateCheck, ReplaceCheck, TaskAborts
  <2>3. ASSUME NEW x \in Operators, NEW j \in Keys, Revoke(x, j) PROVE Revoked(j)
    BY <2>3 DEF Revoke
  <2> QED
    BY <1>2, <1>3, <1>4, <1>9, <1>11, <2>1, <2>2, <2>3 DEF KeysNext
<1>12. CASE LicensingNext
  <2>1. ASSUME NEW x \in Operators,
               ResizeWrite(x) \/ \E s \in Subscriptions, n \in SeatLimits : ResizeRead(x, s, n)
        PROVE  key' = key
    BY <2>1 DEF ResizeRead, ResizeWrite
  <2>2. SweepExpire \/ SweepList \/ SweepAborts => key' = key
    BY DEF SweepExpire, SweepList, SweepAborts, keyVars
  <2> QED
    BY <1>2, <1>5, <1>6, <1>7, <1>8, <1>12, <2>1, <2>2 DEF LicensingNext
<1>13. CASE UNCHANGED vars
  BY <1>2, <1>13 DEF vars, keyVars
<1> QED
  BY <1>10, <1>11, <1>12, <1>13 DEF Next

\* A revoked key stays revoked whatever is renewed, extended, replaced, reset or
\* swept, but for a device call that had read it before
\* (revokeHardwareActivationKey, bindHardwareActivation), until the organization
\* is archived.
THEOREM RevokedIsFinal == Spec => RevokedStaysRevoked
<1>1. LicensingInv /\ [Next]_vars => RevokedStays
  BY CallOvertaken, ResetFindsNoRevoked, OthersKeepRevoked DEF RevokedStays, RevokedStayOn
<1>2. RevokedStays => [RevokedStays]_vars
  OBVIOUS
<1> QED
  BY <1>1, <1>2, LicensingInvariant, PTL DEF Spec, RevokedStaysRevoked, RevokedStays

-----------------------------------------------------------------------------
(***************************************************************************)
(* The keys are in custody (KeyCustody): only a bind that goes through     *)
(* gives a key to a device, and what it has read says that nobody holds    *)
(* it, unless the key is disputed from then on.                            *)
(***************************************************************************)
Serves(k, d) == activation[k][d] = "ACTIVE"

\* A revoked key that is not disputed is held by nobody
RevokedServesNobody ==
  \A k \in Keys \ (overtaken \cup returned) :
    key[k].status = "DISABLED" => \A d \in Devices : ~Serves(k, d)

\* What a step that is no bind does to a key
Loosened(k) ==
  /\ \A d \in Devices : Serves(k, d)' => Serves(k, d)
  /\ key'[k].status = "DISABLED" =>
       key[k].status = "DISABLED" \/ \A d \in Devices : ~Serves(k, d)'

AllLoosened == \A k \in Keys : Loosened(k)

LEMMA LessServed ==
  ASSUME \A k \in Keys : key'[k].status = "DISABLED" => key[k].status = "DISABLED",
         \A k \in Keys, d \in Devices :
           activation'[k][d] = "ACTIVE" => activation[k][d] = "ACTIVE"
  PROVE  AllLoosened
  BY DEF AllLoosened, Loosened, Serves

LEMMA NoneServed ==
  ASSUME \A k \in Keys, d \in Devices : activation'[k][d] # "ACTIVE"
  PROVE  AllLoosened
<1>1. \A k \in Keys, d \in Devices : Serves(k, d)' = FALSE
  BY DEF Serves
<1> QED
  BY <1>1 DEF AllLoosened, Loosened

LEMMA UntouchedLoosened ==
  ASSUME UNCHANGED <<key, activation>>
  PROVE  AllLoosened
  BY DEF AllLoosened, Loosened, Serves

LEMMA RevokedLoosened ==
  ASSUME LicensingInv, NEW j \in Keys, Revoked(j)
  PROVE  AllLoosened
<1>1. /\ key \in [Keys -> KeyRow]
      /\ activation \in [Keys -> [Devices -> ActivationStatuses]]
  BY RowsTyped DEF LicensingInv
<1>2. /\ \A k \in Keys \ {j} : key'[k] = key[k] /\ activation'[k] = activation[k]
      /\ \A d \in Devices : activation'[j][d] # "ACTIVE"
  BY <1>1 DEF Revoked
<1> QED
  BY <1>2 DEF AllLoosened, Loosened, Serves

LEMMA ClientsLoosen ==
  ASSUME LicensingInv, NEW c \in Clients,
         \/ \E k \in Keys, d \in Devices : BindRead(c, k, d)
         \/ \E k \in Keys : VerifyRead(c, k)
         \/ VerifyWrite(c)
         \/ ClientAborts(c)
  PROVE  AllLoosened /\ overtaken \subseteq overtaken' /\ returned \subseteq returned'
<1>1. CASE VerifyWrite(c)
  <2>1. key \in [Keys -> KeyRow]
    BY RowsTyped DEF LicensingInv
  <2>2. \A k \in Keys : key'[k].status = "DISABLED" => key[k].status = "DISABLED"
    BY <1>1, <2>1 DEF VerifyWrite
  <2> QED
    BY <1>1, <2>2, LessServed DEF VerifyWrite
<1>2. CASE ~VerifyWrite(c)
  <2>1. UNCHANGED <<key, activation, overtaken, returned>>
    BY <1>2 DEF BindRead, VerifyRead, ClientAborts
  <2> QED
    BY <2>1, UntouchedLoosened
<1> QED
  BY <1>1, <1>2

LEMMA TasksLoosen ==
  ASSUME LicensingInv, NEW x \in Operators,
         \/ \E k \in Keys, d \in Devices : ResetActivation(x, k, d)
         \/ ResetKey(x)
         \/ \E k \in Keys : Revoke(x, k)
         \/ \E s \in Subscriptions : CreateCheck(x, s)
         \/ \E k \in Keys, past \in BOOLEAN : CreateKey(x, k, past)
         \/ \E k \in Keys : ReplaceCheck(x, k)
         \/ ReplaceRevoke(x)
         \/ TaskAborts(x)
  PROVE  AllLoosened /\ overtaken' = overtaken /\ returned' = returned
<1>1. TypeOK /\ key \in [Keys -> KeyRow]
      /\ activation \in [Keys -> [Devices -> ActivationStatuses]]
  BY RowsTyped DEF LicensingInv
<1>2. ASSUME NEW k \in Keys, NEW d \in Devices, ResetActivation(x, k, d)
      PROVE  AllLoosened
  <2>1. \A j \in Keys, e \in Devices :
          activation'[j][e] = "ACTIVE" => activation[j][e] = "ACTIVE"
    <3>1. activation' = [activation EXCEPT ![k][d] = "RESET"]
      BY <1>2 DEF ResetActivation
    <3> QED
      BY <1>1, <3>1 DEF ActivationStatuses
  <2> QED
    BY <1>2, <2>1, LessServed DEF ResetActivation
<1>3. CASE ResetKey(x)
  <2>1. ASSUME NEW k \in Keys
        PROVE  key'[k] = key[k] \/ key'[k] = [key[k] EXCEPT !.status = "AVAILABLE",
                                                           !.bound = NoDevice]
    BY <1>3 DEF ResetKey
  <2>2. \A k \in Keys : key'[k].status = "DISABLED" => key[k].status = "DISABLED"
    BY <1>1, <2>1 DEF KeyRow
  <2> QED
    BY <1>3, <2>2, LessServed DEF ResetKey
<1>4. ASSUME NEW k \in Keys, NEW past \in BOOLEAN, CreateKey(x, k, past)
      PROVE  AllLoosened
  <2>1. \A j \in Keys : key'[j].status = "DISABLED" => key[j].status = "DISABLED"
    BY <1>1, <1>4 DEF CreateKey, NoKey
  <2> QED
    BY <1>4, <2>1, LessServed DEF CreateKey
<1>5. ASSUME NEW k \in Keys, Revoke(x, k) PROVE AllLoosened
  BY <1>5, RevokedLoosened DEF Revoke
<1>6. CASE ReplaceRevoke(x)
  <2>1. task[x].key \in Keys
    BY <1>1, <1>6, TaskTyped DEF ReplaceRevoke
  <2> QED
    BY <1>6, <2>1, RevokedLoosened DEF ReplaceRevoke
<1>7. ASSUME \/ \E s \in Subscriptions : CreateCheck(x, s)
             \/ \E k \in Keys : ReplaceCheck(x, k)
             \/ TaskAborts(x)
      PROVE  AllLoosened
  BY <1>7, UntouchedLoosened DEF CreateCheck, ReplaceCheck, TaskAborts
<1>8. overtaken' = overtaken /\ returned' = returned
  BY DEF ResetActivation, ResetKey, Revoke, CreateCheck, CreateKey, ReplaceCheck, ReplaceRevoke,
         TaskAborts
<1> QED
  BY <1>2, <1>3, <1>4, <1>5, <1>6, <1>7, <1>8

LEMMA OrganizationLoosens ==
  ASSUME LicensingInv, LicensingNext
  PROVE  AllLoosened /\ overtaken' = overtaken /\ returned' = returned
<1>1. key \in [Keys -> KeyRow]
  BY RowsTyped DEF LicensingInv
<1>2. ASSUME NEW k \in Keys, KeyDateReached(k) PROVE AllLoosened
  <2>1. \A j \in Keys : key'[j].status = "DISABLED" => key[j].status = "DISABLED"
    BY <1>1, <1>2 DEF KeyDateReached
  <2> QED
    BY <1>2, <2>1, LessServed DEF KeyDateReached
<1>3. ASSUME NEW s \in Subscriptions, NEW b \in BOOLEAN, Renew(s, b) PROVE AllLoosened
  <2>1. ASSUME NEW k \in Keys PROVE key'[k] = key[k] \/ key'[k] = Extended(k)
    BY <1>3 DEF Renew
  <2>2. ASSUME NEW k \in Keys, Extended(k).status = "DISABLED" PROVE key[k].status = "DISABLED"
    <3>1. key[k] \in KeyRow
      BY <1>1
    <3> QED
      BY <2>2, <3>1 DEF Extended, KeyRow
  <2> QED
    BY <1>3, <2>1, <2>2, LessServed DEF Renew
<1>4. ASSUME ArchiveOrganization \/ SweepDisable PROVE AllLoosened
  <2>1. \A k \in Keys, d \in Devices : activation'[k][d] # "ACTIVE"
    <3> SUFFICES ASSUME NEW k \in Keys, NEW d \in Devices PROVE activation'[k][d] # "ACTIVE"
      OBVIOUS
    <3>1. CASE ArchiveOrganization
      BY <3>1 DEF ArchiveOrganization
    <3>2. CASE SweepDisable
      BY <3>2 DEF SweepDisable
    <3> QED
      BY <1>4, <3>1, <3>2
  <2> QED
    BY <2>1, NoneServed
<1>5. ASSUME \/ \E x \in Operators :
                  ResizeWrite(x) \/ \E s \in Subscriptions, n \in SeatLimits : ResizeRead(x, s, n)
             \/ SweepExpire \/ SweepList \/ SweepAborts
      PROVE  AllLoosened
  BY <1>5, UntouchedLoosened
     DEF ResizeRead, ResizeWrite, SweepExpire, SweepList, SweepAborts, keyVars
<1>6. overtaken' = overtaken /\ returned' = returned
  BY DEF LicensingNext, KeyDateReached, Renew, ArchiveOrganization, SweepDisable, ResizeRead,
         ResizeWrite, SweepExpire, SweepList, SweepAborts, keyVars
<1> QED
  BY <1>2, <1>3, <1>4, <1>5, <1>6 DEF LicensingNext

LEMMA OthersLoosen ==
  ASSUME LicensingInv, [Next]_vars, ~ \E c \in Clients : BindWrite(c)
  PROVE  AllLoosened /\ overtaken \subseteq overtaken' /\ returned \subseteq returned'
<1>1. CASE SubscriptionsNext /\ UNCHANGED <<keyVars, sweep>>
  BY <1>1, UntouchedLoosened DEF keyVars
<1>2. CASE KeysNext
  BY <1>2, ClientsLoosen, TasksLoosen DEF KeysNext
<1>3. CASE LicensingNext
  BY <1>3, OrganizationLoosens
<1>4. CASE UNCHANGED vars
  BY <1>4, UntouchedLoosened DEF vars, keyVars
<1> QED
  BY <1>1, <1>2, <1>3, <1>4 DEF Next

\* An archived organization stays so
LEMMA ArchivedForGood ==
  ASSUME [Next]_vars, organization = "archived"
  PROVE  organization' = "archived"
<1>1. CASE SubscriptionsNext
  BY <1>1 DEF SubscriptionsNext, SetOrganizationStatus, Managed, CreateSubscription,
              UpdateSubscription, SetArchived, TermEnds, StartReview, Approve, Reject,
              FinishReview, AbandonReview
<1>2. CASE LicensingNext
  BY <1>2 DEF LicensingNext, KeyDateReached, ResizeRead, ResizeWrite, Renew, ArchiveOrganization,
              SweepExpire, SweepList, SweepDisable, SweepAborts, subscriptionVars
<1> QED
  BY <1>1, <1>2 DEF Next, vars, subscriptionVars

\* A bind gives its key to its device, which nobody else holds, unless the key
\* is disputed from then on
LEMMA BindTakes ==
  ASSUME LicensingInv, NEW c \in Clients, BindWrite(c),
         NEW j, NEW d, j = client[c].key, d = client[c].device
  PROVE  /\ j \in Keys /\ d \in Devices
         /\ overtaken \subseteq overtaken' /\ returned \subseteq returned'
         /\ \A k \in Keys \ {j} : key'[k] = key[k] /\ activation'[k] = activation[k]
         /\ key'[j].status # "DISABLED" /\ Serves(j, d)'
         /\ j \notin overtaken' \cup returned' =>
              /\ key[j].status # "DISABLED"
              /\ \A e \in Devices \ {d} : Serves(j, e)' <=> Serves(j, e)
              /\ Serves(j, d) \/ \A e \in Devices : ~Serves(j, e)
<1> DEFINE q == client[c]
           before == q.seenDevices[d]
<1>1. TypeOK /\ q.phase = "binding" /\ CallAllowed(c)
  BY DEF LicensingInv, CallsAllowed, BindWrite
<1>2. /\ j \in Keys /\ d \in Devices /\ q.seenDevices \in [Devices -> ActivationStatuses]
      /\ q.seenKey.status # "DISABLED"
      /\ before = "none" => \A e \in Devices : q.seenDevices[e] # "ACTIVE"
  BY <1>1, CallTyped DEF CallAllowed
<1>3. /\ key \in [Keys -> KeyRow] /\ key[j] \in KeyRow
      /\ activation \in [Keys -> [Devices -> ActivationStatuses]]
  BY <1>1, <1>2, RowsTyped
<1>4. /\ activation' = [activation EXCEPT ![j][d] = "ACTIVE"]
      /\ key' = [key EXCEPT ![j].status = "BOUND", ![j].bound = BoundAfter(q)]
      /\ overtaken' = overtaken \cup Overtakes(q)
      /\ returned' = returned \cup {k \in {j} : before \in {"RESET", "DISABLED"}}
  BY DEF BindWrite
<1>5. /\ \A k \in Keys \ {j} : key'[k] = key[k] /\ activation'[k] = activation[k]
      /\ activation'[j][d] = "ACTIVE"
      /\ \A e \in Devices \ {d} : activation'[j][e] = activation[j][e]
  BY <1>2, <1>3, <1>4
<1>6. key'[j].status = "BOUND"
  BY <1>2, <1>3, <1>4 DEF KeyRow
<1>7. ASSUME j \notin overtaken', j \notin returned'
      PROVE  /\ key[j].status # "DISABLED"
             /\ activation[j][d] = "ACTIVE" \/ \A e \in Devices : activation[j][e] # "ACTIVE"
  <2>1. key[j] = q.seenKey /\ activation[j] = q.seenDevices
    BY <1>2, <1>4, <1>7, NotOvertaken
  <2>2. before \in {"none", "ACTIVE"}
    BY <1>2, <1>4, <1>7 DEF ActivationStatuses
  <2> QED
    BY <1>2, <2>1, <2>2
<1>8. j \notin overtaken' \cup returned' =>
        /\ key[j].status # "DISABLED"
        /\ \A e \in Devices \ {d} : Serves(j, e)' <=> Serves(j, e)
        /\ Serves(j, d) \/ \A e \in Devices : ~Serves(j, e)
  BY <1>5, <1>7 DEF Serves
<1>9. Serves(j, d)' /\ key'[j].status # "DISABLED"
  BY <1>5, <1>6 DEF Serves
<1>10. overtaken \subseteq overtaken' /\ returned \subseteq returned'
  BY <1>4
<1> QED
  BY <1>2, <1>5, <1>8, <1>9, <1>10

\* A revoked key that is not disputed stays revoked
LEMMA UndisputedStayRevoked ==
  ASSUME LicensingInv, [Next]_vars, NEW k \in Keys, k \notin overtaken',
         key[k].status = "DISABLED", key'[k].status # "DISABLED"
  PROVE  organization = "archived"
<1>1. ASSUME NEW c \in Clients, BindWrite(c) \/ VerifyWrite(c) PROVE FALSE
  <2> DEFINE q == client[c]
  <2>1. TypeOK /\ CallAllowed(c) /\ q.phase # "idle"
    BY <1>1 DEF LicensingInv, CallsAllowed, BindWrite, VerifyWrite
  <2>2. q.key \in Keys /\ q.seenKey.status # "DISABLED"
    BY <2>1, CallTyped DEF CallAllowed
  <2>3. k = q.key
    <3>1. key \in [Keys -> KeyRow] /\ key[q.key] \in KeyRow
      BY <2>1, <2>2, RowsTyped
    <3>2. \A l \in Keys \ {q.key} : key'[l] = key[l]
      BY <1>1, <3>1 DEF BindWrite, VerifyWrite
    <3> QED
      BY <3>2
  <2>4. q.key \notin Overtakes(q)
    BY <1>1, <2>3 DEF BindWrite, VerifyWrite
  <2> QED
    BY <2>2, <2>3, <2>4, NotOvertaken
<1>2. RevokedStayOn
  BY <1>1, ResetFindsNoRevoked, OthersKeepRevoked
<1> QED
  BY <1>2 DEF RevokedStayOn

\* A key that is let go, in terms of its row and its activations
LEMMA IsLetGo ==
  ASSUME NEW k \in Keys, Loosened(k), RevokedServesNobody,
         k \notin overtaken \cup returned,
         key[k].status = "DISABLED" /\ key'[k].status # "DISABLED" => organization = "archived"
  PROVE  Custody!LetGo(k)
<1>1. Holders[k] = ActiveDevices(k) /\ Holders'[k] = ActiveDevices(k)'
  BY DEF Holders
<1>2. \A d \in Devices : Serves(k, d)' => Serves(k, d)
  BY DEF Loosened
<1>3. Holders'[k] \subseteq Holders[k]
  BY <1>1, <1>2 DEF ActiveDevices, Serves
<1>4. key'[k].status = "DISABLED" => \A d \in Devices : ~Serves(k, d)'
  BY DEF Loosened, RevokedServesNobody
<1>5. key'[k].status = "DISABLED" => Holders'[k] = {}
  BY <1>1, <1>4 DEF ActiveDevices, Serves
<1>6. /\ k \in RevokedKeys <=> key[k].status = "DISABLED"
      /\ k \in RevokedKeys' <=> key'[k].status = "DISABLED"
  BY DEF RevokedKeys
<1> QED
  BY <1>3, <1>5, <1>6 DEF Custody!LetGo

\* A key that a device takes, or takes again
LEMMA IsTaken ==
  ASSUME NEW k \in Keys, NEW d \in Devices, Serves(k, d)',
         key[k].status # "DISABLED", key'[k].status # "DISABLED",
         \A e \in Devices \ {d} : Serves(k, e)' <=> Serves(k, e),
         \A e \in Devices \ {d} : ~Serves(k, e)
  PROVE  Custody!Taken(k)
<1>1. Holders[k] \subseteq {d} /\ Holders'[k] = {d}
  BY DEF Holders, ActiveDevices, Serves
<1>2. k \notin RevokedKeys \cup RevokedKeys'
  BY DEF RevokedKeys
<1> QED
  BY <1>1, <1>2 DEF Custody!Taken

LEMMA BindInCustody ==
  ASSUME LicensingInv, [Next]_vars, RevokedServesNobody, NEW c \in Clients, BindWrite(c)
  PROVE  Custody!CustodyStep /\ RevokedServesNobody'
<1> PICK j, d : j = client[c].key /\ d = client[c].device
  OBVIOUS
<1>1. /\ j \in Keys /\ d \in Devices
      /\ overtaken \subseteq overtaken' /\ returned \subseteq returned'
      /\ \A k \in Keys \ {j} : key'[k] = key[k] /\ activation'[k] = activation[k]
      /\ key'[j].status # "DISABLED" /\ Serves(j, d)'
      /\ j \notin overtaken' \cup returned' =>
           /\ key[j].status # "DISABLED"
           /\ \A e \in Devices \ {d} : Serves(j, e)' <=> Serves(j, e)
           /\ Serves(j, d) \/ \A e \in Devices : ~Serves(j, e)
  BY BindTakes
<1>2. ASSUME NEW k \in Keys \ {j}, k \notin overtaken', k \notin returned'
      PROVE  Custody!LetGo(k)
  <2>1. Loosened(k)
    BY <1>1 DEF Loosened, Serves
  <2> QED
    BY <1>1, <1>2, <2>1, IsLetGo
<1>3. ASSUME j \notin overtaken', j \notin returned'
      PROVE  Custody!Taken(j)
  <2>1. \A e \in Devices \ {d} : ~Serves(j, e)
    <3>1. \A e, f \in Devices : Serves(j, e) /\ Serves(j, f) => e = f
      BY <1>1, <1>3 DEF LicensingInv, OneActive, Serves
    <3> QED
      BY <1>1, <1>3, <3>1
  <2> QED
    BY <1>1, <1>3, <2>1, IsTaken
<1>4. Disputed \subseteq Disputed' /\ \A k \in Keys \ Disputed' : k \notin overtaken' /\ k \notin returned'
  BY <1>1 DEF Disputed
<1>5. \A k \in Keys \ Disputed' : k # j => Custody!LetGo(k)
  BY <1>2, <1>4
<1>6. \A k \in Keys \ Disputed' : k = j => Custody!Taken(k)
  BY <1>3, <1>4
<1>7. Custody!CustodyStep
  BY <1>4, <1>5, <1>6, ArchivedForGood DEF Custody!CustodyStep
<1>8. RevokedServesNobody'
  <2>1. \A k \in Keys \ {j}, e \in Devices : Serves(k, e)' <=> Serves(k, e)
    BY <1>1 DEF Serves
  <2> QED
    BY <1>1, <2>1 DEF RevokedServesNobody
<1> QED
  BY <1>7, <1>8

LEMMA OthersInCustody ==
  ASSUME LicensingInv, [Next]_vars, RevokedServesNobody, ~ \E c \in Clients : BindWrite(c)
  PROVE  Custody!CustodyStep /\ RevokedServesNobody'
<1>1. AllLoosened /\ overtaken \subseteq overtaken' /\ returned \subseteq returned'
  BY OthersLoosen
<1>2. Disputed \subseteq Disputed'
      /\ \A k \in Keys \ Disputed' : k \notin overtaken' /\ k \notin overtaken \cup returned
  BY <1>1 DEF Disputed
<1>3. \A k \in Keys \ Disputed' : Custody!LetGo(k)
  BY <1>1, <1>2, IsLetGo, UndisputedStayRevoked DEF AllLoosened
<1>4. Custody!CustodyStep
  BY <1>2, <1>3, ArchivedForGood DEF Custody!CustodyStep
<1>5. RevokedServesNobody'
  BY <1>1 DEF AllLoosened, Loosened, RevokedServesNobody
<1> QED
  BY <1>4, <1>5

\* Every step of licensing is a step of the custody of keys, or none: one device
\* holds a key, another comes to hold it only after a reset, a revocation or a
\* sweep let it go, and a revoked key is held by nobody (bindHardwareActivation,
\* resetHardwareActivation, revokeHardwareActivationKey, sweepSubscriptions).
THEOREM ImplementsCustody == Spec => KeysAreInCustody
<1>1. Init => Custody!CustodyInit /\ RevokedServesNobody
  BY DEF Init, KeysInit, NoKey, NoDevices, Custody!CustodyInit, Holders, RevokedKeys,
         ActiveDevices, RevokedServesNobody, Serves
<1>2. LicensingInv /\ RevokedServesNobody /\ [Next]_vars =>
        Custody!CustodyStep /\ RevokedServesNobody'
  BY BindInCustody, OthersInCustody
<1>3. Custody!CustodyStep => [Custody!CustodyStep]_(Custody!custodyVars)
  OBVIOUS
<1> QED
  BY <1>1, <1>2, <1>3, LicensingInvariant, PTL
     DEF Spec, KeysAreInCustody, Custody!CustodySpec
=============================================================================
