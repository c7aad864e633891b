---------------------------- MODULE CreditLedger ----------------------------
(***************************************************************************)
(* What the AI credit system promises those who pay for calls, whatever    *)
(* else happens to the same accounts: a call puts a hold on one account,   *)
(* once; it is billed at most once, to the account with the hold and for   *)
(* no more than the usage reported for it, and that lifts the hold; and    *)
(* what an account has used and what is held on it changes in no other     *)
(* way, but for debts that are forgiven.  There is one flaw in the         *)
(* promise: a hold lifted by a bill its call never heard of is lifted a    *)
(* second time.                                                            *)
(***************************************************************************)
EXTENDS Integers

CONSTANTS
  Calls,    \* the calls
  Holders,  \* the accounts
  Limited,  \* those that can owe something
  Amounts   \* the amounts held, reported and billed

VARIABLES
  entry,  \* what the ledger says of each call
  held,   \* the credits held on each account
  used    \* the credits each account was billed, less what was forgiven

ledgerVars == <<entry, held, used>>

NoEntry == [state |-> "none"]

LedgerInit ==
  /\ entry = [c \in Calls |-> NoEntry]
  /\ held = [a \in Holders |-> 0]
  /\ used = [a \in Holders |-> 0]

Hold(c, a, n) ==
  /\ entry[c] = NoEntry
  /\ entry' = [entry EXCEPT ![c] = [state |-> "held", account |-> a,
                                    amount |-> n, usage |-> 0]]
  /\ held' = [held EXCEPT ![a] = @ + n]
  /\ UNCHANGED used

Report(c, n) ==
  /\ entry[c].state = "held"
  /\ entry[c].usage = 0
  /\ entry' = [entry EXCEPT ![c].usage = n]
  /\ UNCHANGED <<held, used>>

Lifts(c, from, to) ==
  /\ entry[c].state = from
  /\ entry' = [entry EXCEPT ![c].state = to]
  /\ held' = [held EXCEPT ![entry[c].account] = @ - entry[c].amount]

\* outcome: the call hears of its bill, or does not
Bill(c, n, outcome) ==
  /\ Lifts(c, "held", outcome)
  /\ n <= entry[c].usage
  /\ used' = [used EXCEPT ![entry[c].account] = @ + n]

Release(c) ==
  /\ \/ Lifts(c, "held", "released")
     \/ Lifts(c, "unheard", "lifted twice")
  /\ UNCHANGED used

Forgive(a) ==
  /\ used'[a] < used[a]
  /\ used' = [used EXCEPT ![a] = used'[a]]
  /\ UNCHANGED <<entry, held>>

LedgerNext ==
  \/ \E c \in Calls :
       /\ entry'[c] # entry[c]
       /\ \/ \E a \in Holders, n \in Amounts : Hold(c, a, n)
          \/ \E n \in Amounts : Report(c, n)
          \/ \E n \in Amounts, outcome \in {"billed", "unheard"} :
               Bill(c, n, outcome)
          \/ Release(c)
  \/ \E a \in Limited : Forgive(a)

LedgerSpec == LedgerInit /\ [][LedgerNext]_ledgerVars
=============================================================================
