----------------------------- MODULE AiCredits ------------------------------
(***************************************************************************)
(* The AI credit system: calls that spend credits, administrators who      *)
(* allocate them and overview pages that repair the accounts, interleaved  *)
(* on the same rows.                                                       *)
(***************************************************************************)
EXTENDS AiUsage, AiAllocation, AiReconciliation, Functions

vars == <<accountVars, request, allocationVars, dashboard>>

TypeOK ==
  /\ AccountsTypeOK
  /\ UsageTypeOK
  /\ AllocationTypeOK
  /\ ReconciliationTypeOK

Init ==
  /\ AccountsInit
  /\ UsageInit
  /\ AllocationInit
  /\ ReconciliationInit

Next ==
  \/ UsageNext /\ UNCHANGED <<allocationVars, dashboard>>
  \/ AllocationNext /\ UNCHANGED <<request, dashboard>>
  \/ ReconciliationNext /\ UNCHANGED <<request, allocationVars>>

Spec == Init /\ [][Next]_vars

(***************************************************************************)
(* A call that is not killed keeps going.  Nothing makes a user start a    *)
(* call, an administrator act or a page open, and nothing has to fail.     *)
(***************************************************************************)
Fairness == \A r \in Requests :
              WF_vars(HandlerStep(r) /\ UNCHANGED <<allocationVars, dashboard>>)

FairSpec == Spec /\ Fairness

-----------------------------------------------------------------------------
(***************************************************************************)
(* The credits, one by one, that calls hold on account a, and those of     *)
(* account a that were released twice.                                     *)
(***************************************************************************)
HeldUnits(a) ==
  {u \in Requests \X Credits :
     /\ request[u[1]].account = a
     /\ Holds(request[u[1]])
     /\ u[2] <= request[u[1]].reservation}

TwiceReleasedUnits(a) ==
  {u \in Requests \X Credits :
     /\ request[u[1]].account = a
     /\ ReleasedTwice(request[u[1]])
     /\ u[2] <= request[u[1]].reservation}

(***************************************************************************)
(* What an account has reserved is exactly what live and killed calls hold *)
(* on it, less what a commit with a lost reply and the refund after it     *)
(* have both released: reserveTokens, commitUsage, refundReservation and   *)
(* the catch block of proxyGeminiGenerate, whatever administrators and     *)
(* overview pages do to the same row meanwhile.                            *)
(***************************************************************************)
ReservationsAccounted ==
  \A a \in Accounts :
    account[a].reserved + Cardinality(TwiceReleasedUnits(a))
      = Cardinality(HeldUnits(a))

(***************************************************************************)
(* An account is overdrawn only through a race or an unchecked takeover: a *)
(* limited account none of whose writers acted on a row that had changed   *)
(* since it was read, and which took over no user's allocation in a        *)
(* reconciliation, never has less than zero available.  The checks in      *)
(* reserveTokens, commitUsage's cap, allocate and setAllocation are enough *)
(* for every sequential history, reconciliation and disabling included.    *)
(***************************************************************************)
NoOverdraft ==
  \A a \in Accounts \ (overtaken \cup unchecked \cup Unlimited) :
    Available(account[a]) >= 0

(***************************************************************************)
(* Credits are neither created nor lost: as long as no writer was          *)
(* overtaken, what the accounts hold beyond what they have delegated is    *)
(* what was there at the start, plus the top-ups, less what subtractions   *)
(* that stopped at zero dropped.  It is about topUp, allocate,             *)
(* setAllocation and reconcileUserAccountParents moving allocations        *)
(* through two or three rows.                                              *)
(***************************************************************************)
Total(f) == FoldFunction(LAMBDA x, y : x + y, 0, f)

OwnCredits(rows) ==
  Total([a \in Accounts |-> rows[a].allocated - rows[a].childAllocated])

CreditsConserved ==
  overtaken = {} =>
    OwnCredits(account)
      = Total([a \in Accounts |-> Granted[a] - Delegated[a]])
          + minted - clipped

(***************************************************************************)
(* reconcileOverdrawnUsageAccounts forgives a debt, never usage the        *)
(* account can pay for: a step that lowers an account's used credits       *)
(* leaves nothing available on it, unless the row had changed under it.    *)
(***************************************************************************)
ForgivesOnlyDebt ==
  [][\A a \in Accounts :
       account'[a].used < account[a].used =>
         \/ Available(account'[a]) <= 0
         \/ a \in overtaken']_vars

(***************************************************************************)
(* The rows and the calls as the ledger of CreditLedger.                   *)
(***************************************************************************)
LedgerState(q) ==
  CASE Holds(q) -> "held"
    [] q.phase = "charged" -> "billed"
    [] q.phase \in {"failing", "leaked"} /\ q.committed -> "unheard"
    [] ReleasedTwice(q) -> "lifted twice"
    [] OTHER -> "released"

LedgerEntry(q) ==
  IF q.phase \in {"new", "estimated", "reserving", "rejected"}
  THEN [state |-> "none"]
  ELSE [state |-> LedgerState(q), account |-> q.account,
        amount |-> q.reservation, usage |-> q.actual]

LedgerEntries == [r \in Requests |-> LedgerEntry(request[r])]

HeldCredits == [a \in Accounts |-> account[a].reserved]

UsedCredits == [a \in Accounts |-> account[a].used]

Ledger == INSTANCE CreditLedger WITH
  Calls <- Requests,
  Holders <- Accounts,
  Limited <- Accounts \ Unlimited,
  Amounts <- CreditsOrNone,
  entry <- LedgerEntries,
  held <- HeldCredits,
  used <- UsedCredits

(***************************************************************************)
(* The credit system implements the ledger: a call is billed at most once, *)
(* to the account it reserved on and within its usage, reservations come   *)
(* and go with their calls, and no administrator, move or archiving, and   *)
(* no call of anyone else, touches what an account has used or reserved    *)
(* (reserveTokens, commitUsage, refundReservation and the catch block of   *)
(* proxyGeminiGenerate beside ai.service.ts's other writers of the rows).  *)
(***************************************************************************)
KeepsLedger == Ledger!LedgerSpec

(***************************************************************************)
(* A call that has estimated its cost settles: it is refused before it     *)
(* reserves, its usage is charged, its reservation is refunded, or the     *)
(* host kills it and the reservation stays (proxyGeminiGenerate).          *)
(***************************************************************************)
CallsSettle ==
  \A r \in Requests :
    request[r].phase = "estimated" ~>
      request[r].phase \in {"charged", "refunded", "rejected", "leaked"}

-----------------------------------------------------------------------------
(***************************************************************************)
(* "Source and target AI account must be different": no account is funded  *)
(* by itself.  The check comes after resolveTargetAccount has stored the   *)
(* source as the parent.                                                   *)
(***************************************************************************)
NoAccountIsItsOwnParent == \A a \in Accounts : account[a].parent # a
=============================================================================
