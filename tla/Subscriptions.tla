---------------------------- MODULE Subscriptions ----------------------------
(***************************************************************************)
(* The subscriptions of one organization: how a request becomes a paying   *)
(* subscription or is rejected, and what a super admin does to it, after   *)
(* the subscription operations of src/src/modules/admin/admin.service.ts.  *)
(* Approving and rejecting read the row, check that it is pending, and     *)
(* update it in a second statement, with no transaction around the two.    *)
(***************************************************************************)
EXTENDS Integers, FiniteSets

CONSTANTS
  Subscriptions,  \* subscription ids
  SeatLimits,     \* bound: the seat limits admins ask for
  Edits,          \* bound: the statuses super admins write
  MaxChanges,     \* bound: changes of the rows by admins and by time
  Reviewers       \* concurrent approve and reject calls

ASSUME SeatLimitsAssumption == SeatLimits # {} /\ SeatLimits \subseteq Nat \ {0}

ASSUME SubscriptionsAssumption == Subscriptions # {}

Statuses == {"ACTIVE", "EXPIRED", "CANCELED", "TRIAL", "PENDING_APPROVAL"}

ASSUME EditsAssumption == Edits \subseteq Statuses

ASSUME MaxChangesAssumption == MaxChanges \in Nat

VARIABLES
  subscription,  \* the rows, by subscription id
  organization,  \* its status; "archived" when deletedAt is set
  review,        \* the local state of each approve or reject call
  changes        \* how many changes there were, for the bound

subscriptionVars == <<subscription, organization, review, changes>>

SubscriptionRow == [status : Statuses \cup {"none"},
                    seatLimit : SeatLimits,
                    ended : BOOLEAN,      \* endDate is in the past
                    archived : BOOLEAN]   \* deletedAt is set

IdleReview == [phase |-> "idle"]

Review == {IdleReview} \cup
          [phase : {"approving", "rejecting"}, sub : Subscriptions]

SubscriptionsTypeOK ==
  /\ subscription \in [Subscriptions -> SubscriptionRow]
  /\ organization \in {"ACTIVE", "INACTIVE", "archived"}
  /\ review \in [Reviewers -> Review]
  /\ changes \in 0..MaxChanges

SubscriptionsInit ==
  /\ subscription =
       [s \in Subscriptions |->
          [status |-> "none", seatLimit |-> CHOOSE n \in SeatLimits : TRUE,
           ended |-> FALSE, archived |-> FALSE]]
  /\ organization = "ACTIVE"
  /\ review = [x \in Reviewers |-> IdleReview]
  /\ changes = 0

\* ensureOrganizationManaged, for a super admin
Managed == organization # "archived"

Exists(s) == subscription[s].status # "none"

Current(s) ==
  /\ subscription[s].status \in {"ACTIVE", "TRIAL"}
  /\ ~subscription[s].archived

\* one change more, of the bounded number
Counted == changes < MaxChanges /\ changes' = changes + 1

(***************************************************************************)
(* createSubscription: pending if an admin asks for it, with the status of *)
(* her choice if a super admin does.                                       *)
(***************************************************************************)
CreateSubscription(s, status, n) ==
  /\ ~Exists(s)
  /\ Managed
  /\ subscription' = [subscription EXCEPT ![s].status = status,
                                          ![s].seatLimit = n]
  /\ UNCHANGED <<organization, review, changes>>

StartReview(x, s, phase) ==
  /\ review[x].phase = "idle"
  /\ subscription[s].status = "PENDING_APPROVAL"
  /\ review' = [review EXCEPT ![x] = [phase |-> phase, sub |-> s]]
  /\ UNCHANGED <<subscription, organization, changes>>

FinishReview(x, phase, status) ==
  /\ review[x].phase = phase
  /\ subscription' = [subscription EXCEPT ![review[x].sub].status = status]
  /\ review' = [review EXCEPT ![x] = IdleReview]
  /\ UNCHANGED <<organization, changes>>

Approve(x) == FinishReview(x, "approving", "ACTIVE")

Reject(x) == FinishReview(x, "rejecting", "CANCELED")

AbandonReview(x) ==
  /\ review[x].phase # "idle"
  /\ review' = [review EXCEPT ![x] = IdleReview]
  /\ UNCHANGED <<subscription, organization, changes>>

(***************************************************************************)
(* updateSubscription writes the status and the end date it is given.      *)
(***************************************************************************)
UpdateSubscription(s, status, ended) ==
  /\ Counted
  /\ Exists(s)
  /\ Managed
  /\ subscription' = [subscription EXCEPT ![s].status = status,
                                          ![s].ended = ended]
  /\ UNCHANGED <<organization, review>>

(***************************************************************************)
(* deleteSubscription and restoreSubscription.                             *)
(***************************************************************************)
SetArchived(s, archived) ==
  /\ Counted
  /\ Exists(s)
  /\ Managed
  /\ subscription' = [subscription EXCEPT ![s].archived = archived]
  /\ UNCHANGED <<organization, review>>

TermEnds(s) ==
  /\ Counted
  /\ Exists(s)
  /\ ~subscription[s].ended
  /\ subscription' = [subscription EXCEPT ![s].ended = TRUE]
  /\ UNCHANGED <<organization, review>>

(***************************************************************************)
(* updateOrganization suspends the organization or takes it back.          *)
(***************************************************************************)
SetOrganizationStatus(status) ==
  /\ Counted
  /\ Managed
  /\ organization' = status
  /\ UNCHANGED <<subscription, review>>

SubscriptionsNext ==
  \/ \E status \in {"ACTIVE", "INACTIVE"} : SetOrganizationStatus(status)
  \/ \E s \in Subscriptions :
       \/ \E status \in Edits, n \in SeatLimits :
            CreateSubscription(s, status, n)
       \/ \E status \in Edits, ended \in BOOLEAN :
            UpdateSubscription(s, status, ended)
       \/ \E archived \in BOOLEAN : SetArchived(s, archived)
       \/ TermEnds(s)
  \/ \E x \in Reviewers :
       \/ \E s \in Subscriptions, phase \in {"approving", "rejecting"} :
            StartReview(x, s, phase)
       \/ Approve(x)
       \/ Reject(x)
       \/ AbandonReview(x)
=============================================================================
