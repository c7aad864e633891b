---------------------------- MODULE MCAiCredits -----------------------------
(***************************************************************************)
(* Small instances of the AI credit system for TLC: a master account, one  *)
(* or two organizations and one user account.                              *)
(***************************************************************************)
EXTENDS AiCredits, TLC

CONSTANTS m, o1, o2, u1, r1, r2

(***************************************************************************)
(* The user belongs to organization o1, which delegated one credit to it   *)
(* out of the three the master account gave; o2, where it may move, holds  *)
(* one credit of its own.                                                  *)
(***************************************************************************)
MCInitialHome == [u \in UserAccounts |-> o1]

MCGranted == [a \in Accounts |->
                CASE a = m -> 5 [] a = o1 -> 3 [] OTHER -> 1]

MCDelegated == [a \in Accounts |->
                  CASE a = m -> IF o2 \in OrgAccounts THEN 4 ELSE 3
                    [] a = o1 -> 1 [] OTHER -> 0]

(***************************************************************************)
(* Either all calls are made by the user with the account u1, who spends   *)
(* from o1 once u1 is disabled, or r1 is and r2 by a colleague of o1 who   *)
(* has no account and spends from o1.                                      *)
(***************************************************************************)
SharedAccount == [r \in Requests |-> u1]

OwnAccount == [r \in Requests |-> IF r = r1 THEN u1 ELSE NoAccount]

MembersOfO1 == [r \in Requests |-> o1]

\* Overview pages are interchangeable
LikePages == Permutations(Dashboards)

(***************************************************************************)
(* Calls run beside one top-up or the disabling of their organization, and *)
(* administrators beside each other: where both are many, either calls     *)
(* start or administrators do.  AiCombined has one of each.                *)
(***************************************************************************)
NoAdminActs == admin = [x \in Admins |-> Idle]

NoCallStarts == \A r \in Requests : request[r].phase = "new"

CallsNext ==
  /\ operations <= 1 /\ NoAdminActs
  /\ Next
  /\ operations' <= 1 /\ NoAdminActs'
  /\ archived' \subseteq {o1} /\ UNCHANGED homeOrg

\* Whoever starts while no administrator acts is the first: they are alike
First == CHOOSE x \in Admins : TRUE

AdminsNext ==
  /\ NoCallStarts
  /\ AllocationNext /\ UNCHANGED <<request, dashboard>>
  /\ NoAdminActs => \A x \in Admins \ {First} : admin'[x] = Idle

CallsOrAdminsSpec == Init /\ [][CallsNext \/ AdminsNext]_vars /\ Fairness

=============================================================================
