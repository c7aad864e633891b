---------------------------- MODULE HardwareKeys -----------------------------
(***************************************************************************)
(* The hardware activation keys of an organization and the devices bound   *)
(* to them (src/src/modules/licensing/licensing.service.ts).  Devices bind *)
(* and verify a key; super admins create, replace, revoke and reset.  A    *)
(* bind is one transaction at READ COMMITTED, hence a step that reads and  *)
(* a step that writes; a reset, a creation and a replacement are several   *)
(* statements with nothing around them.                                    *)
(***************************************************************************)
EXTENDS Subscriptions

CONSTANTS
  Keys,       \* activation keys, those not created yet included
  Devices,    \* device fingerprints
  NoDevice,   \* a null boundActivationId
  Clients,    \* concurrent calls of devices
  Operators   \* concurrent calls of super admins

ASSUME DevicesAssumption == NoDevice \notin Devices /\ IsFiniteSet(Devices)

ASSUME KeysAssumption == IsFiniteSet(Keys)

VARIABLES
  key,         \* the rows of hardware_activation_keys
  activation,  \* the status of each device's activation of each key
  client,      \* the local state of each device call
  task,        \* the local state of each super admin call
  overtaken,   \* history: keys written by a call that had read them before
               \* another call changed them
  returned,    \* history: keys a device came back to after it lost them
  revived,     \* history: keys that were unusable and became usable again
  torn,        \* history: keys left by a reset that stopped half way
  crowded      \* history: subscriptions whose seats were given out on a
               \* count that had changed

keyVars == <<key, activation, client, task, overtaken, returned, revived,
             torn, crowded>>

MaxDevices == 1

KeyRow == [status : {"none", "AVAILABLE", "BOUND", "DISABLED", "EXPIRED"},
           sub : Subscriptions,
           bound : Devices \cup {NoDevice},  \* boundActivationId
           past : BOOLEAN]                   \* expiresAt is in the past

ActivationStatuses == {"none", "ACTIVE", "RESET", "DISABLED"}

IdleClient == [phase |-> "idle"]

Client == {IdleClient} \cup
          [phase : {"binding", "expiring"}, key : Keys,
           device : Devices \cup {NoDevice},
           seenKey : KeyRow, seenDevices : [Devices -> ActivationStatuses]]

IdleTask == [phase |-> "idle"]

SeatTask == [phase : {"creating", "resizing"}, sub : Subscriptions,
             seenUsable : SUBSET Keys, seenLimit : SeatLimits,
             limit : SeatLimits]

Task == {IdleTask} \cup SeatTask \cup
        [phase : {"resetting"}, key : Keys, device : Devices] \cup
        [phase : {"replacing"}, key : Keys] \cup
        [phase : {"recreating"}, sub : Subscriptions]

KeysTypeOK ==
  /\ key \in [Keys -> KeyRow]
  /\ activation \in [Keys -> [Devices -> ActivationStatuses]]
  /\ client \in [Clients -> Client]
  /\ task \in [Operators -> Task]
  /\ overtaken \subseteq Keys
  /\ returned \subseteq Keys
  /\ revived \subseteq Keys
  /\ torn \subseteq Keys
  /\ crowded \subseteq Subscriptions

NoKey == [status |-> "none", sub |-> CHOOSE s \in Subscriptions : TRUE,
          bound |-> NoDevice, past |-> FALSE]

NoDevices == [d \in Devices |-> "none"]

KeysInit ==
  /\ key = [k \in Keys |-> NoKey]
  /\ activation = [k \in Keys |-> NoDevices]
  /\ client = [c \in Clients |-> IdleClient]
  /\ task = [x \in Operators |-> IdleTask]
  /\ overtaken = {}
  /\ returned = {}
  /\ revived = {}
  /\ torn = {}
  /\ crowded = {}

HalfReset(x, k) == task[x].phase = "resetting" /\ task[x].key = k

Usable(k) == key[k].status \in {"AVAILABLE", "BOUND"}

UsableKeys(s) == {k \in Keys : Usable(k) /\ key[k].sub = s}

ActiveDevices(k) == {d \in Devices : activation[k][d] = "ACTIVE"}

-----------------------------------------------------------------------------
(***************************************************************************)
(* bindHardwareActivation.  A device already known to the key is let in    *)
(* whatever its activation's status; another one while the key has fewer   *)
(* active devices than it may.  (An expired key is refused by an exception *)
(* that rolls the EXPIRED status back: nothing changes.)                   *)
(***************************************************************************)
LimitAllowsAnyDevice(k, d) == TRUE

LimitAllows(k, d) ==
  \/ activation[k][d] # "none"
  \/ Cardinality(ActiveDevices(k)) < MaxDevices

BindRead(c, k, d) ==
  /\ client[c].phase = "idle"
  /\ key[k].status \notin {"none", "DISABLED"}
  /\ organization = "ACTIVE"
  /\ Current(key[k].sub)
  /\ ~key[k].past
  /\ LimitAllows(k, d)
  /\ client' = [client EXCEPT ![c] =
       [phase |-> "binding", key |-> k, device |-> d, seenKey |-> key[k],
        seenDevices |-> activation[k]]]
  /\ UNCHANGED <<key, activation, task, overtaken, returned, revived, torn,
                 crowded>>

Overtakes(q) == {k \in {q.key} : \/ key[k] # q.seenKey
                                 \/ activation[k] # q.seenDevices}

BoundAfterKeepingPointer(q) == q.seenKey.bound

BoundAfter(q) == IF q.seenKey.bound = NoDevice THEN q.device
                 ELSE q.seenKey.bound

BindWrite(c) ==
  LET q == client[c]
      before == q.seenDevices[q.device]
  IN /\ q.phase = "binding"
     /\ before # "none" \/ activation[q.key][q.device] = "none"
     /\ activation' = [activation EXCEPT ![q.key][q.device] = "ACTIVE"]
     /\ key' = [key EXCEPT ![q.key].status = "BOUND",
                           ![q.key].bound = BoundAfter(q)]
     /\ client' = [client EXCEPT ![c] = IdleClient]
     /\ overtaken' = overtaken \cup Overtakes(q)
     /\ returned' = returned \cup
                      {k \in {q.key} : before \in {"RESET", "DISABLED"}}
     /\ revived' = revived \cup {k \in {q.key} : ~Usable(k)}
     /\ UNCHANGED <<task, torn, crowded>>

(***************************************************************************)
(* verifyHardwareActivation marks a key whose date has passed; it changes  *)
(* nothing else here.                                                      *)
(***************************************************************************)
VerifyRead(c, k) ==
  /\ client[c].phase = "idle"
  /\ key[k].status \notin {"none", "DISABLED"}
  /\ key[k].past
  /\ client' = [client EXCEPT ![c] =
       [phase |-> "expiring", key |-> k, device |-> NoDevice,
        seenKey |-> key[k], seenDevices |-> activation[k]]]
  /\ UNCHANGED <<key, activation, task, overtaken, returned, revived, torn,
                 crowded>>

VerifyWrite(c) ==
  LET q == client[c] IN
  /\ q.phase = "expiring"
  /\ key' = [key EXCEPT ![q.key].status = "EXPIRED"]
  /\ client' = [client EXCEPT ![c] = IdleClient]
  /\ overtaken' = overtaken \cup Overtakes(q)
  /\ UNCHANGED <<activation, task, returned, revived, torn, crowded>>

(***************************************************************************)
(* The call fails or is killed before it writes: also a bind that lost the *)
(* race to create the same device's activation (unique constraint).        *)
(***************************************************************************)
ClientAborts(c) ==
  /\ client[c].phase # "idle"
  /\ client' = [client EXCEPT ![c] = IdleClient]
  /\ UNCHANGED <<key, activation, task, overtaken, returned, revived, torn,
                 crowded>>

-----------------------------------------------------------------------------
(***************************************************************************)
(* resetHardwareActivation: the activation first, then the keys that point *)
(* to it, whatever their status.                                           *)
(***************************************************************************)
ResetActivation(x, k, d) ==
  /\ task[x].phase = "idle"
  /\ activation[k][d] # "none"
  /\ activation' = [activation EXCEPT ![k][d] = "RESET"]
  /\ task' = [task EXCEPT ![x] = [phase |-> "resetting", key |-> k,
                                   device |-> d]]
  /\ UNCHANGED <<key, client, overtaken, returned, revived, torn, crowded>>

ResetKey(x) ==
  /\ task[x].phase = "resetting"
  /\ LET pointing == {k \in {task[x].key} : key[k].bound = task[x].device}
     IN /\ key' = [k \in Keys |->
             IF k \in pointing
             THEN [key[k] EXCEPT !.status = "AVAILABLE", !.bound = NoDevice]
             ELSE key[k]]
        /\ revived' = revived \cup {k \in pointing : ~Usable(k)}
  /\ task' = [task EXCEPT ![x] = IdleTask]
  /\ UNCHANGED <<activation, client, overtaken, returned, torn, crowded>>

(***************************************************************************)
(* revokeHardwareActivationKey, one transaction.                           *)
(***************************************************************************)
RevokedLeavingDevices(k) ==
  /\ key' = [key EXCEPT ![k].status = "DISABLED", ![k].bound = NoDevice]
  /\ UNCHANGED activation

Revoked(k) ==
  /\ key' = [key EXCEPT ![k].status = "DISABLED", ![k].bound = NoDevice]
  /\ activation' = [activation EXCEPT ![k] =
       [d \in Devices |-> IF @[d] = "ACTIVE" THEN "DISABLED" ELSE @[d]]]

Revoke(x, k) ==
  /\ task[x].phase = "idle"
  /\ key[k].status # "none"
  /\ Managed
  /\ Revoked(k)
  /\ UNCHANGED <<client, task, overtaken, returned, revived, torn, crowded>>

(***************************************************************************)
(* createHardwareActivationKey: the subscription must be current and have  *)
(* a seat left, then the key is inserted.                                  *)
(***************************************************************************)
SeatLeftOneTooMany(s, without) ==
  Cardinality(UsableKeys(s) \ without) <= subscription[s].seatLimit

SeatLeft(s, without) ==
  Cardinality(UsableKeys(s) \ without) < subscription[s].seatLimit

CreateCheck(x, s) ==
  /\ \/ task[x].phase = "idle"
     \/ task[x].phase = "recreating" /\ task[x].sub = s
  /\ organization = "ACTIVE"
  /\ Current(s)
  /\ SeatLeft(s, {})
  /\ task' = [task EXCEPT ![x] =
       [phase |-> "creating", sub |-> s, seenUsable |-> UsableKeys(s),
        seenLimit |-> subscription[s].seatLimit,
        limit |-> subscription[s].seatLimit]]
  /\ UNCHANGED <<key, activation, client, overtaken, returned, revived, torn,
                 crowded>>

Crowds(t) ==
  {s \in {t.sub} : \/ ~(UsableKeys(s) \subseteq t.seenUsable)
                   \/ subscription[s].seatLimit < t.seenLimit}

\* past: the date asked for, or the subscription's, may be over already
CreateKey(x, k, past) ==
  /\ task[x].phase = "creating"
  /\ key[k].status = "none"
  /\ key' = [key EXCEPT ![k] =
       [NoKey EXCEPT !.status = "AVAILABLE", !.sub = task[x].sub,
                     !.past = past]]
  /\ task' = [task EXCEPT ![x] = IdleTask]
  /\ crowded' = crowded \cup Crowds(task[x])
  /\ UNCHANGED <<activation, client, overtaken, returned, revived, torn>>

(***************************************************************************)
(* replaceHardwareActivationKey: a capacity check that leaves the old key  *)
(* out, a revocation, a creation with its own checks.                      *)
(***************************************************************************)
ReplaceCheck(x, k) ==
  /\ task[x].phase = "idle"
  /\ key[k].status # "none"
  /\ Managed
  /\ SeatLeft(key[k].sub, {k})
  /\ task' = [task EXCEPT ![x] = [phase |-> "replacing", key |-> k]]
  /\ UNCHANGED <<key, activation, client, overtaken, returned, revived, torn,
                 crowded>>

ReplaceRevoke(x) ==
  /\ task[x].phase = "replacing"
  /\ Managed
  /\ Revoked(task[x].key)
  /\ task' = [task EXCEPT ![x] = [phase |-> "recreating",
                                  sub |-> key[task[x].key].sub]]
  /\ UNCHANGED <<client, overtaken, returned, revived, torn, crowded>>

(***************************************************************************)
(* The call is refused or killed between two of its statements.            *)
(***************************************************************************)
TaskAborts(x) ==
  /\ task[x].phase # "idle"
  /\ task' = [task EXCEPT ![x] = IdleTask]
  /\ torn' = torn \cup {k \in Keys : HalfReset(x, k)}
  /\ UNCHANGED <<key, activation, client, overtaken, returned, revived,
                 crowded>>

KeysNext ==
  \/ \E c \in Clients :
       \/ \E k \in Keys, d \in Devices : BindRead(c, k, d)
       \/ BindWrite(c)
       \/ \E k \in Keys : VerifyRead(c, k)
       \/ VerifyWrite(c)
       \/ ClientAborts(c)
  \/ \E x \in Operators :
       \/ \E k \in Keys, d \in Devices : ResetActivation(x, k, d)
       \/ ResetKey(x)
       \/ \E k \in Keys : Revoke(x, k)
       \/ \E s \in Subscriptions : CreateCheck(x, s)
       \/ \E k \in Keys, past \in BOOLEAN : CreateKey(x, k, past)
       \/ \E k \in Keys : ReplaceCheck(x, k)
       \/ ReplaceRevoke(x)
       \/ TaskAborts(x)
=============================================================================
