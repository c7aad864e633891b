------------------------------ MODULE AiUsage -------------------------------
(***************************************************************************)
(* One call of proxyGeminiGenerate per element of Requests: resolve the    *)
(* paying account, estimate, reserve, call Gemini, then commit the usage   *)
(* or refund the reservation.  The serverless host may kill a request at   *)
(* any point (crash), and the reply of a commit the database did perform   *)
(* may be lost, which the catch block answers with a refund.               *)
(***************************************************************************)
EXTENDS AiAccounts

CONSTANTS
  Requests,       \* the calls in flight
  UserAccountOf,  \* the caller's own account, NoAccount if it has none
  OrgAccountOf,   \* the account of the caller's organization; Master for a
                  \* super admin without one
  MaxCredits      \* bound: the largest estimate and the largest usage

ASSUME RequestsAssumption ==
  /\ IsFiniteSet(Requests)
  /\ UserAccountOf \in [Requests -> UserAccounts \cup {NoAccount}]
  /\ OrgAccountOf \in [Requests -> {Master} \cup OrgAccounts]
  /\ MaxCredits \in Nat

VARIABLE request  \* the local state of each call

Credits == 1..MaxCredits

CreditsOrNone == 0..MaxCredits

Phases == {"new", "estimated", "reserving", "reserved", "answered",
           "committing", "charged", "failing", "refunded", "rejected",
           "leaked"}

Call == [phase : Phases,
         account : Accounts,
         reservation : CreditsOrNone,
         actual : CreditsOrNone,
         seen : Row,            \* the row the open transaction has read
         committed : BOOLEAN]   \* history: commitUsage took effect

UsageTypeOK == request \in [Requests -> Call]

UsageInit ==
  request = [r \in Requests |->
               [phase |-> "new", account |-> Master, reservation |-> 0,
                actual |-> 0, seen |-> EmptyRow, committed |-> FALSE]]

(***************************************************************************)
(* resolveUsageAccount: the caller's own account while it is enabled and   *)
(* holds an allocation, otherwise the organization's.                      *)
(***************************************************************************)
UsageAccount(r) ==
  LET own == UserAccountOf[r] IN
  IF /\ own # NoAccount
     /\ ~account[own].disabled
     /\ account[own].allocated > 0
  THEN own
  ELSE OrgAccountOf[r]

Moves(r, from, to) ==
  /\ request[r].phase = from
  /\ request' = [request EXCEPT ![r].phase = to]

Estimate(r, n) ==
  /\ request[r].phase = "new"
  /\ request' = [request EXCEPT ![r].phase = "estimated",
                                ![r].account = UsageAccount(r),
                                ![r].reservation = n]
  /\ UNCHANGED accountVars

(***************************************************************************)
(* reserveTokens reads the row and refuses (402) a disabled account, and   *)
(* one that is limited and holds less than the estimate.                   *)
(***************************************************************************)
CanReserve(row, a, n) ==
  /\ ~row.disabled
  /\ a \in Unlimited \/ Available(row) >= n

ReserveRead(r) ==
  LET q == request[r]
      row == account[q.account]
  IN /\ q.phase = "estimated"
     /\ request' =
          IF CanReserve(row, q.account, q.reservation)
          THEN [request EXCEPT ![r].phase = "reserving", ![r].seen = row]
          ELSE [request EXCEPT ![r].phase = "rejected"]
     /\ UNCHANGED accountVars

ReserveWrite(r) ==
  LET q == request[r] IN
  /\ q.phase = "reserving"
  /\ account' = [account EXCEPT ![q.account].reserved = @ + q.reservation]
  /\ overtaken' = overtaken \cup Stale([a \in {q.account} |-> q.seen])
  /\ request' = [request EXCEPT ![r].phase = "reserved", ![r].seen = EmptyRow]
  /\ UNCHANGED <<homeOrg, unchecked, minted, clipped>>

(***************************************************************************)
(* Gemini answers, with usage n or without usage metadata (the reservation *)
(* is then billed), or it fails.  Usage that would cost nothing is billed  *)
(* as the reservation too.                                                 *)
(***************************************************************************)
GeminiAnswer(r, n) ==
  /\ request[r].phase = "reserved"
  /\ n > 0 \/ n = request[r].reservation
  /\ request' = [request EXCEPT ![r].phase = "answered", ![r].actual = n]
  /\ UNCHANGED accountVars

GeminiFailure(r) ==
  /\ Moves(r, "reserved", "failing")
  /\ UNCHANGED accountVars

(***************************************************************************)
(* commitUsage releases the reservation and charges the usage, capped for  *)
(* a limited account at what the row it read can cover.                    *)
(***************************************************************************)
ChargeableUncapped(q) == q.actual

Chargeable(q) ==
  LET releasable == Available(q.seen) + q.reservation IN
  IF q.account \in Unlimited \/ q.actual <= releasable THEN q.actual
  ELSE IF releasable > 0 THEN releasable ELSE 0

CommitReadWithinReservation(r) ==
  /\ request[r].phase = "answered"
  /\ request[r].actual <= request[r].reservation
  /\ request' = [request EXCEPT ![r].phase = "committing",
                                ![r].seen = account[request[r].account]]
  /\ UNCHANGED accountVars

CommitRead(r) ==
  /\ request[r].phase = "answered"
  /\ request' = [request EXCEPT ![r].phase = "committing",
                                ![r].seen = account[request[r].account]]
  /\ UNCHANGED accountVars

CommitEffectKeepingReservation(r) ==
  LET q == request[r] IN
  /\ account' = [account EXCEPT ![q.account].used = @ + Chargeable(q)]
  /\ overtaken' = overtaken \cup Stale([a \in {q.account} |-> q.seen])
  /\ UNCHANGED <<homeOrg, unchecked, minted, clipped>>

CommitEffect(r) ==
  LET q == request[r] IN
  /\ account' = [account EXCEPT
                   ![q.account].reserved = @ - q.reservation,
                   ![q.account].used = @ + Chargeable(q)]
  /\ overtaken' = overtaken \cup Stale([a \in {q.account} |-> q.seen])
  /\ UNCHANGED <<homeOrg, unchecked, minted, clipped>>

CommitWrite(r) ==
  /\ request[r].phase = "committing"
  /\ CommitEffect(r)
  /\ request' = [request EXCEPT ![r].phase = "charged",
                                ![r].seen = EmptyRow,
                                ![r].committed = TRUE]

(***************************************************************************)
(* The commit is performed, its reply is lost, the call throws.            *)
(***************************************************************************)
CommitReplyLost(r) ==
  /\ request[r].phase = "committing"
  /\ CommitEffect(r)
  /\ request' = [request EXCEPT ![r].phase = "failing",
                                ![r].seen = EmptyRow,
                                ![r].committed = TRUE]

CommitFails(r) ==
  /\ request[r].phase = "committing"
  /\ request' = [request EXCEPT ![r].phase = "failing", ![r].seen = EmptyRow]
  /\ UNCHANGED accountVars

(***************************************************************************)
(* refundReservation, called by the catch block whatever went wrong.       *)
(***************************************************************************)
Refund(r) ==
  LET q == request[r] IN
  /\ Moves(r, "failing", "refunded")
  /\ account' = [account EXCEPT ![q.account].reserved = @ - q.reservation]
  /\ UNCHANGED <<homeOrg, overtaken, unchecked, minted, clipped>>

(***************************************************************************)
(* The host kills the call, or the refund itself fails: a transaction that *)
(* is still open rolls back, and nobody releases a reservation it made.    *)
(***************************************************************************)
Crash(r) ==
  LET q == request[r] IN
  /\ q.phase \in {"estimated", "reserving", "reserved", "answered",
                  "committing", "failing"}
  /\ request' = [request EXCEPT
                   ![r].phase = IF q.phase \in {"estimated", "reserving"}
                                THEN "rejected" ELSE "leaked",
                   ![r].seen = EmptyRow]
  /\ UNCHANGED accountVars

UsageNext ==
  \E r \in Requests :
    \/ \E n \in CreditsOrNone : Estimate(r, n)
    \/ ReserveRead(r)
    \/ ReserveWrite(r)
    \/ \E n \in CreditsOrNone : GeminiAnswer(r, n)
    \/ GeminiFailure(r)
    \/ CommitRead(r)
    \/ CommitWrite(r)
    \/ CommitReplyLost(r)
    \/ CommitFails(r)
    \/ Refund(r)
    \/ Crash(r)

(***************************************************************************)
(* The steps a live call always takes: the handler awaits each of them in  *)
(* turn, and the HTTP client gives up on Gemini after its own timeout.     *)
(***************************************************************************)
HandlerStep(r) ==
  \/ ReserveRead(r)
  \/ ReserveWrite(r)
  \/ \E n \in CreditsOrNone : GeminiAnswer(r, n)
  \/ GeminiFailure(r)
  \/ CommitRead(r)
  \/ CommitWrite(r)
  \/ CommitFails(r)
  \/ Refund(r)

(***************************************************************************)
(* The reservations a call holds on its account, and those released both   *)
(* by a commit whose reply was lost and by the refund that followed.       *)
(***************************************************************************)
Holds(q) ==
  \/ q.phase \in {"reserved", "answered", "committing"}
  \/ q.phase \in {"failing", "leaked"} /\ ~q.committed

ReleasedTwice(q) == q.phase = "refunded" /\ q.committed
=============================================================================
