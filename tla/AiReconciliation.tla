-------------------------- MODULE AiReconciliation --------------------------
(***************************************************************************)
(* The repairs getOverview of ai.service.ts makes each time an AI page is  *)
(* opened: reconcileUserAccountParents moves user accounts below the       *)
(* organization their user belongs to now, and                             *)
(* reconcileOverdrawnUsageAccounts forgives usage an account cannot cover. *)
(* Both list the accounts first and then treat them one at a time, each in *)
(* a transaction of its own.                                               *)
(***************************************************************************)
EXTENDS AiAccounts

CONSTANT Dashboards  \* concurrent overview calls

VARIABLE dashboard   \* the local state of each overview call

Overview == [phase : {"idle", "parents", "moving", "overdrawn", "forgiving"},
             todo : SUBSET Accounts,           \* accounts still to treat
             current : Accounts,               \* the one being treated
             listed : [UserAccounts -> Row],   \* the rows the list returned
             homes : [UserAccounts -> OrgAccounts],
             seen : Row]                       \* read by the transaction

NoOverview == [phase |-> "idle", todo |-> {}, current |-> Master,
               listed |-> [u \in UserAccounts |-> EmptyRow],
               homes |-> InitialHome, seen |-> EmptyRow]

ReconciliationTypeOK ==
  /\ dashboard \in [Dashboards -> Overview]
  /\ \A d \in Dashboards :
       dashboard[d].phase = "moving" => dashboard[d].current \in UserAccounts

ReconciliationInit == dashboard = [d \in Dashboards |-> NoOverview]

ListUserAccounts(d) ==
  /\ dashboard[d].phase = "idle"
  /\ dashboard' = [dashboard EXCEPT ![d] =
       [NoOverview EXCEPT
          !.phase = "parents",
          !.todo = {u \in UserAccounts :
                      \/ account[u].parent # homeOrg[u]
                      \/ account[u].organization # homeOrg[u]},
          !.listed = [u \in UserAccounts |-> account[u]],
          !.homes = homeOrg]]
  /\ UNCHANGED accountVars

ReadOldParent(d, u) ==
  /\ dashboard[d].phase = "parents"
  /\ u \in dashboard[d].todo
  /\ dashboard' = [dashboard EXCEPT
       ![d].phase = "moving",
       ![d].todo = @ \ {u},
       ![d].current = u,
       ![d].seen = LET old == dashboard[d].listed[u].parent IN
                   IF old = NoAccount THEN EmptyRow ELSE account[old]]
  /\ UNCHANGED accountVars

GiveBack(old, seen, moved) ==
  IF old = NoAccount THEN account
  ELSE [account EXCEPT ![old].childAllocated =
          SubtractChildAllocation(seen, moved)]

TakeOver(rows, u, home, moved) ==
  [rows EXCEPT ![home].childAllocated = @ + moved,
               ![u].parent = home,
               ![u].organization = home]

MoveUserAccountForgettingOldParent(d) ==
  LET v == dashboard[d]
      u == v.current
      home == v.homes[u]
      moved == v.listed[u].allocated
  IN /\ v.phase = "moving"
     /\ account' = TakeOver(account, u, home, moved)
     /\ unchecked' = unchecked \cup {home}
     /\ dashboard' = [dashboard EXCEPT ![d].phase = "parents",
                                       ![d].current = Master,
                                       ![d].seen = EmptyRow]
     /\ UNCHANGED <<homeOrg, minted, clipped, overtaken>>

(***************************************************************************)
(* The old parent gives back what the list said the user held, the         *)
(* organization takes it over whether or not it has that much.             *)
(***************************************************************************)
MoveUserAccount(d) ==
  LET v == dashboard[d]
      u == v.current
      old == v.listed[u].parent
      home == v.homes[u]
      moved == v.listed[u].allocated
  IN /\ v.phase = "moving"
     /\ account' = TakeOver(GiveBack(old, v.seen, moved), u, home, moved)
     /\ overtaken' = overtaken
                       \cup Stale([a \in {old} \ {NoAccount} |-> v.seen])
     /\ unchecked' = unchecked \cup {home} \cup RaisedBySubtraction(old, v.seen)
     /\ clipped' = clipped + ClippedBy(v.seen, moved)
     /\ dashboard' = [dashboard EXCEPT ![d].phase = "parents",
                                       ![d].current = Master,
                                       ![d].seen = EmptyRow]
     /\ UNCHANGED <<homeOrg, minted>>

Forgivable(a, row) ==
  /\ a \notin Unlimited
  /\ ~row.disabled
  /\ row.used > 0
  /\ Deficit(row) > 0

ListOverdrawn(d) ==
  /\ dashboard[d].phase = "parents"
  /\ dashboard[d].todo = {}
  /\ dashboard' = [dashboard EXCEPT ![d] =
       [NoOverview EXCEPT
          !.phase = "overdrawn",
          !.todo = {a \in Accounts : Forgivable(a, account[a])}]]
  /\ UNCHANGED accountVars

(***************************************************************************)
(* The transaction reads the row again and stops if nothing is owed any    *)
(* more; whether the account is disabled is not looked at again.           *)
(***************************************************************************)
ReadOverdrawn(d, a) ==
  LET v == [dashboard[d] EXCEPT !.todo = @ \ {a}] IN
  /\ dashboard[d].phase = "overdrawn"
  /\ a \in dashboard[d].todo
  /\ dashboard' = [dashboard EXCEPT ![d] =
       IF Deficit(account[a]) > 0 /\ account[a].used > 0
       THEN [v EXCEPT !.phase = "forgiving", !.current = a,
                      !.seen = account[a]]
       ELSE v]
  /\ UNCHANGED accountVars

AdjustmentOfEverything(row) == row.used

Adjustment(row) == IF Deficit(row) > row.used THEN row.used ELSE Deficit(row)

ForgiveOverdraft(d) ==
  LET v == dashboard[d] IN
  /\ v.phase = "forgiving"
  /\ account' = [account EXCEPT ![v.current].used = @ - Adjustment(v.seen)]
  /\ overtaken' = overtaken \cup Stale([a \in {v.current} |-> v.seen])
  /\ dashboard' = [dashboard EXCEPT ![d].phase = "overdrawn",
                                    ![d].current = Master,
                                    ![d].seen = EmptyRow]
  /\ UNCHANGED <<homeOrg, unchecked, minted, clipped>>

(***************************************************************************)
(* The page is answered, or the call fails on the way: an open transaction *)
(* is rolled back, the accounts already treated stay as they are.          *)
(***************************************************************************)
FinishOverview(d) ==
  /\ dashboard[d].phase # "idle"
  /\ dashboard' = [dashboard EXCEPT ![d] = NoOverview]
  /\ UNCHANGED accountVars

ReconciliationNext ==
  \E d \in Dashboards :
    \/ ListUserAccounts(d)
    \/ \E u \in UserAccounts : ReadOldParent(d, u)
    \/ MoveUserAccount(d)
    \/ ListOverdrawn(d)
    \/ \E a \in Accounts : ReadOverdrawn(d, a)
    \/ ForgiveOverdraft(d)
    \/ FinishOverview(d)
=============================================================================
