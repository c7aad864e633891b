----------------------------- MODULE AiAccounts -----------------------------
(***************************************************************************)
(* The AI credit accounts: the rows of ai_credit_accounts and the balance  *)
(* arithmetic of src/src/modules/ai/ai.service.ts.  The account tree is    *)
(* MASTER -> ORGANIZATION -> USER; an organization is identified with its  *)
(* account.  The request lifecycle (AiUsage), the administrators'          *)
(* operations (AiAllocation) and the overview page's repairs               *)
(* (AiReconciliation) all write these rows.                                *)
(*                                                                         *)
(* Every write happens in a Prisma interactive transaction at the          *)
(* database's default READ COMMITTED isolation.  A transaction that reads  *)
(* a row, decides, and then writes is two steps of the model: one that     *)
(* takes a snapshot of the rows it reads, and one that applies the writes  *)
(* and commits.  An increment is applied to the current row; a value       *)
(* computed from the snapshot overwrites it.                               *)
(***************************************************************************)
EXTENDS Integers, FiniteSets

CONSTANTS
  Master,        \* the master account
  OrgAccounts,   \* the organizations' accounts
  UserAccounts,  \* the users' accounts
  Unlimited,     \* accounts whose "unlimited" column is set
  NoAccount,     \* a null account id
  InitialHome,   \* primaryOrganizationId of each account's user at the start
  Granted,       \* allocatedTokens at the start
  Delegated      \* childAllocatedTokens at the start

Accounts == {Master} \cup OrgAccounts \cup UserAccounts

(***************************************************************************)
(* The start is a tree as topUp and allocate build it: no account has      *)
(* delegated more than it was granted.                                     *)
(***************************************************************************)
ASSUME AccountsAssumption ==
  /\ Master \notin OrgAccounts \cup UserAccounts
  /\ OrgAccounts \cap UserAccounts = {}
  /\ NoAccount \notin Accounts
  /\ IsFiniteSet(Accounts)
  /\ Unlimited \subseteq Accounts
  /\ InitialHome \in [UserAccounts -> OrgAccounts]
  /\ Granted \in [Accounts -> Nat]
  /\ Delegated \in [Accounts -> Nat]
  /\ \A a \in Accounts : Delegated[a] <= Granted[a]

VARIABLES
  account,    \* the rows, by account id
  homeOrg,    \* primaryOrganizationId of each account's user
  overtaken,  \* history: accounts written by a transaction whose snapshot
              \* of them another transaction had already overtaken
  unchecked,  \* history: accounts whose delegation grew without an
              \* availability check
  minted,     \* history: credits created by top-ups
  clipped     \* history: credits lost where a subtraction stopped at zero

accountVars == <<account, homeOrg, overtaken, unchecked, minted, clipped>>

Row == [allocated : Nat, used : Int, reserved : Int, childAllocated : Int,
        disabled : BOOLEAN,
        parent : Accounts \cup {NoAccount},
        organization : OrgAccounts \cup {NoAccount}]

Rows == [Accounts -> Row]

EmptyRow == [allocated |-> 0, used |-> 0, reserved |-> 0, childAllocated |-> 0,
             disabled |-> FALSE, parent |-> NoAccount,
             organization |-> NoAccount]

Available(row) ==
  row.allocated - row.used - row.reserved - row.childAllocated

Spent(row) == row.used + row.reserved + row.childAllocated

Deficit(row) == IF Available(row) < 0 THEN -Available(row) ELSE 0

SubtractChildAllocation(row, amount) ==
  IF row.childAllocated > amount THEN row.childAllocated - amount ELSE 0

(***************************************************************************)
(* What stopping at zero loses, compared with the plain subtraction.       *)
(***************************************************************************)
ClippedBy(row, amount) ==
  SubtractChildAllocation(row, amount) - (row.childAllocated - amount)

(***************************************************************************)
(* The parent p if the row read for it had a negative delegation, which    *)
(* the subtraction raises to zero.                                         *)
(***************************************************************************)
RaisedBySubtraction(p, row) ==
  {a \in {p} \ {NoAccount} : row.childAllocated < 0}

(***************************************************************************)
(* The accounts of snapshot function f whose row has changed since.        *)
(***************************************************************************)
Stale(f) == {a \in DOMAIN f : account[a] # f[a]}

AccountsInit ==
  /\ account =
       [a \in Accounts |->
          [allocated |-> Granted[a], used |-> 0, reserved |-> 0,
           childAllocated |-> Delegated[a], disabled |-> FALSE,
           parent |-> IF a \in OrgAccounts THEN Master
                      ELSE IF a \in UserAccounts THEN InitialHome[a]
                      ELSE NoAccount,
           organization |-> IF a \in OrgAccounts THEN a
                            ELSE IF a \in UserAccounts THEN InitialHome[a]
                            ELSE NoAccount]]
  /\ homeOrg = InitialHome
  /\ overtaken = {}
  /\ unchecked = {}
  /\ minted = 0
  /\ clipped = 0

AccountsTypeOK ==
  /\ account \in Rows
  /\ homeOrg \in [UserAccounts -> OrgAccounts]
  /\ overtaken \subseteq Accounts
  /\ unchecked \subseteq Accounts
  /\ minted \in Int
  /\ clipped \in Int
=============================================================================
