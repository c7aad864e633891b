---------------------------- MODULE AiAllocation ----------------------------
(***************************************************************************)
(* The administrators' operations on AI credit accounts: topUp, allocate   *)
(* and setAllocation of ai.service.ts, and the two operations of           *)
(* admin.service.ts that move what they depend on: updateUser (the user's  *)
(* organization) and deleteOrganization (disables its accounts).           *)
(*                                                                         *)
(* allocate and setAllocation first resolve the two accounts outside any   *)
(* transaction, which re-parents a user's account, then run one            *)
(* transaction that reads, checks and writes.  Each element of Admins has  *)
(* at most one of them in progress.  The source may be any account: a      *)
(* super admin names it with sourceAccountId.  An archived organization    *)
(* and its users, archived with it, are not found any more (404).          *)
(***************************************************************************)
EXTENDS AiAccounts

CONSTANTS
  Admins,        \* concurrent administrator calls
  Amounts,       \* bound: the amounts they ask for
  MaxOperations  \* bound: the number of operations they start

ASSUME AdminsAssumption ==
  /\ Amounts \subseteq Nat
  /\ MaxOperations \in Nat

VARIABLES
  admin,      \* the local state of each allocate or setAllocation
  archived,   \* the organizations deleteOrganization has archived
  operations  \* the number of operations started

allocationVars == <<admin, archived, operations>>

Operation == [phase : {"idle", "resolved", "checked"},
              mode : {"allocate", "set"},
              source : Accounts,
              target : Accounts,
              amount : Nat,
              seenSource : Row,
              seenTarget : Row,
              seenOldParent : Row]

Idle == [phase |-> "idle", mode |-> "set", source |-> Master,
         target |-> Master, amount |-> 0, seenSource |-> EmptyRow,
         seenTarget |-> EmptyRow, seenOldParent |-> EmptyRow]

AllocationTypeOK ==
  /\ admin \in [Admins -> Operation]
  /\ archived \subseteq OrgAccounts
  /\ operations \in 0..MaxOperations

AllocationInit ==
  /\ admin = [x \in Admins |-> Idle]
  /\ archived = {}
  /\ operations = 0

StartsOperation ==
  /\ operations < MaxOperations
  /\ operations' = operations + 1

Finishes(x) == admin' = [admin EXCEPT ![x] = Idle]

TopUp(a, n) ==
  /\ StartsOperation
  /\ n > 0
  /\ account' = [account EXCEPT ![a].allocated = @ + n,
                                ![a].disabled = FALSE]
  /\ minted' = minted + n
  /\ UNCHANGED <<admin, archived, homeOrg, overtaken, unchecked, clipped>>

AssignHome(u, o) ==
  /\ StartsOperation
  /\ homeOrg[u] # o
  /\ homeOrg[u] \notin archived
  /\ o \notin archived
  /\ homeOrg' = [homeOrg EXCEPT ![u] = o]
  /\ UNCHANGED <<admin, archived, account, overtaken, unchecked, minted,
                 clipped>>

DisableOrganization(o) ==
  /\ StartsOperation
  /\ o \notin archived
  /\ archived' = archived \cup {o}
  /\ account' = [a \in Accounts |->
                   [account[a] EXCEPT
                      !.disabled = @ \/ account[a].organization = o]]
  /\ UNCHANGED <<admin, homeOrg, overtaken, unchecked, minted, clipped>>

(***************************************************************************)
(* Resolving a user's account writes its parent and its organization,      *)
(* before source and target are compared (400) and outside the             *)
(* transaction; an organization's account is returned as it is.            *)
(***************************************************************************)
Resolve(x, mode, s, t, n) ==
  /\ admin[x].phase = "idle"
  /\ StartsOperation
  /\ (IF t \in UserAccounts THEN homeOrg[t] ELSE t) \notin archived
  /\ mode = "allocate" => n > 0
  /\ account' = IF t \in UserAccounts
                THEN [account EXCEPT ![t].parent = s,
                                     ![t].organization = homeOrg[t]]
                ELSE account
  /\ admin' = IF s = t THEN admin
              ELSE [admin EXCEPT ![x] =
                      [Idle EXCEPT !.phase = "resolved", !.mode = mode,
                                   !.source = s, !.target = t,
                                   !.amount = n]]
  /\ UNCHANGED <<archived, homeOrg, overtaken, unchecked, minted, clipped>>

(***************************************************************************)
(* The transaction's reads.  A user account re-parented a moment ago, or   *)
(* an account that stays with its parent, costs the source the difference  *)
(* only; one that changes parent costs it the whole allocation.            *)
(***************************************************************************)
ParentChanged(op) == op.seenTarget.parent # op.source

Delta(op) == op.amount - op.seenTarget.allocated

SourceRequiredIgnoringMove(op) ==
  IF op.mode = "allocate" THEN op.amount ELSE Delta(op)

SourceRequired(op) ==
  IF op.mode = "allocate" \/ ParentChanged(op) THEN op.amount ELSE Delta(op)

Acceptable(op) ==
  /\ op.mode = "set" =>
       /\ op.amount >= Spent(op.seenTarget)
       /\ Delta(op) # 0 \/ ParentChanged(op)
  /\ SourceRequired(op) > 0 =>
       Available(op.seenSource) >= SourceRequired(op)

LeavesOldParent(op) ==
  /\ op.mode = "set"
  /\ ParentChanged(op)
  /\ op.seenTarget.parent # NoAccount

Check(x) ==
  LET read == [admin[x] EXCEPT !.phase = "checked",
                               !.seenSource = account[admin[x].source],
                               !.seenTarget = account[admin[x].target]]
      op == IF LeavesOldParent(read)
            THEN [read EXCEPT !.seenOldParent =
                                account[read.seenTarget.parent]]
            ELSE read
  IN /\ admin[x].phase = "resolved"
     /\ IF Acceptable(op) THEN admin' = [admin EXCEPT ![x] = op]
                          ELSE Finishes(x)
     /\ UNCHANGED <<archived, operations, accountVars>>

(***************************************************************************)
(* The transaction's writes: allocate increments both rows, setAllocation  *)
(* overwrites the target's allocation and the old parent's delegation with *)
(* values computed from what it read.                                      *)
(***************************************************************************)
AddToTarget(rows, op) ==
  [rows EXCEPT
     ![op.source].childAllocated = @ + op.amount,
     ![op.target].allocated = @ + op.amount,
     ![op.target].parent = op.source,
     ![op.target].disabled = FALSE]

WriteAllocate(x) ==
  LET op == admin[x] IN
  /\ op.phase = "checked"
  /\ op.mode = "allocate"
  /\ account' = AddToTarget(account, op)
  /\ overtaken' = overtaken \cup Stale([a \in {op.source} |-> op.seenSource])
  /\ Finishes(x)
  /\ UNCHANGED <<archived, operations, homeOrg, unchecked, minted, clipped>>

SeenBySet(op) ==
  [a \in {op.source, op.target} |->
     IF a = op.source THEN op.seenSource ELSE op.seenTarget]

SetTargetToDelta(rows, op) ==
  [rows EXCEPT
     ![op.source].childAllocated = @ + SourceRequired(op),
     ![op.target].allocated = Delta(op),
     ![op.target].parent = op.source,
     ![op.target].disabled = IF op.amount > 0 THEN FALSE
                             ELSE op.seenTarget.disabled]

SetTarget(rows, op) ==
  [rows EXCEPT
     ![op.source].childAllocated = @ + SourceRequired(op),
     ![op.target].allocated = op.amount,
     ![op.target].parent = op.source,
     ![op.target].disabled = IF op.amount > 0 THEN FALSE
                             ELSE op.seenTarget.disabled]

WriteSet(x) ==
  LET op == admin[x] IN
  /\ op.phase = "checked"
  /\ op.mode = "set"
  /\ ~LeavesOldParent(op)
  /\ account' = SetTarget(account, op)
  /\ overtaken' = overtaken \cup Stale(SeenBySet(op))
  /\ Finishes(x)
  /\ UNCHANGED <<archived, operations, homeOrg, unchecked, minted, clipped>>

WriteSetMovingParent(x) ==
  LET op == admin[x]
      old == op.seenTarget.parent
      moved == op.seenTarget.allocated
      left == [account EXCEPT ![old].childAllocated =
                 SubtractChildAllocation(op.seenOldParent, moved)]
  IN /\ op.phase = "checked"
     /\ LeavesOldParent(op)
     /\ account' = SetTarget(left, op)
     /\ overtaken' = overtaken \cup Stale(SeenBySet(op))
                               \cup Stale([a \in {old} |-> op.seenOldParent])
     /\ unchecked' = unchecked \cup RaisedBySubtraction(old, op.seenOldParent)
     /\ clipped' = clipped + ClippedBy(op.seenOldParent, moved)
     /\ Finishes(x)
     /\ UNCHANGED <<archived, operations, homeOrg, minted>>

(***************************************************************************)
(* The host kills the call or the database aborts its transaction: nothing *)
(* of it is written, but what resolving wrote stays.                       *)
(***************************************************************************)
Abort(x) ==
  /\ admin[x].phase # "idle"
  /\ Finishes(x)
  /\ UNCHANGED <<archived, operations, accountVars>>

AllocationNext ==
  \/ \E a \in Accounts, n \in Amounts : TopUp(a, n)
  \/ \E u \in UserAccounts, o \in OrgAccounts : AssignHome(u, o)
  \/ \E o \in OrgAccounts : DisableOrganization(o)
  \/ \E x \in Admins :
       \/ \E mode \in {"allocate", "set"}, s \in Accounts,
             t \in OrgAccounts \cup UserAccounts, n \in Amounts :
            Resolve(x, mode, s, t, n)
       \/ Check(x)
       \/ WriteAllocate(x)
       \/ WriteSet(x)
       \/ WriteSetMovingParent(x)
       \/ Abort(x)
=============================================================================
