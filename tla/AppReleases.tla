----------------------------- MODULE AppReleases -----------------------------
(***************************************************************************)
(* The desktop and mobile releases of one channel, that is of one          *)
(* environment, brand and platform (app-update.service.ts).  Publishing    *)
(* clears the current release and writes the new one, by two statements of *)
(* one transaction: the first does not see what others are about to write. *)
(***************************************************************************)
EXTENDS Naturals, FiniteSets

CONSTANTS
  Rows,            \* rows of app_releases, those not created yet included
  Builds,          \* build numbers
  NoRow,
  ReleaseCalls     \* requests in flight

ASSUME ReleasesAssumption == Builds \subseteq Nat \ {0} /\ NoRow \notin Rows

VARIABLES
  release,         \* the rows of app_releases
  releaseCall,     \* the local state of each request
  doubled          \* history: a release became current unseen by another

releaseVars == <<release, releaseCall, doubled>>

Flags == {"yes", "no", "unsaid"}

ReleaseCall == [phase : {"idle", "editing", "clearing", "writing"},
                row : Rows \cup {NoRow},      \* the one to update, if any
                build : Builds \cup {0},
                current : Flags, active : Flags,
                cleared : SUBSET Rows,   \* the rows its first statement found
                stale : BOOLEAN]           \* history: others became current since

Finished == [phase |-> "idle", row |-> NoRow, build |-> 0, current |-> "unsaid", active |-> "unsaid",
             cleared |-> {}, stale |-> FALSE]

NoRelease == [build |-> 0, current |-> FALSE, active |-> FALSE]

ReleasesTypeOK ==
  /\ release \in [Rows -> [build : Builds \cup {0}, current : BOOLEAN, active : BOOLEAN]]
  /\ releaseCall \in [ReleaseCalls -> ReleaseCall]
  /\ doubled \in BOOLEAN

ReleasesInit ==
  /\ release = [r \in Rows |-> NoRelease]
  /\ releaseCall = [c \in ReleaseCalls |-> Finished]
  /\ doubled = FALSE

-----------------------------------------------------------------------------
Current == {r \in Rows : release[r].current}

Continues(c, from, record) ==
  /\ releaseCall[c].phase = from
  /\ releaseCall' = [releaseCall EXCEPT ![c] = record]
  /\ UNCHANGED <<release, doubled>>

AskPublish(c, b) ==
  Continues(c, "idle", [Finished EXCEPT
    !.phase = "writing", !.build = b, !.current = "yes", !.active = "yes",
    !.cleared = Current])

\* updateRelease: the row is read before the transaction
MayBe(r, current, active) ==
  ~(active = "no" /\ (current = "yes" \/ release[r].current))

AskRevise(c, r, b, current, active) ==
  /\ release[r].build # 0
  /\ MayBe(r, current, active)
  /\ Continues(c, "idle", [Finished EXCEPT
       !.phase = IF current = "yes" THEN "clearing" ELSE "writing",
       !.row = r, !.build = b, !.current = current, !.active = active])

OthersUncleared(r) == {}

Others(r) == Current \ {r}

ClearOthers(c) ==
  LET x == releaseCall[c] IN
  Continues(c, "clearing", [x EXCEPT !.phase = "writing", !.cleared = Others(x.row)])

Said(flag, otherwise) == IF flag = "unsaid" THEN otherwise ELSE flag = "yes"

With(b) == {r \in Rows : release[r].build = b}

\* The row to write: publishing finds it by its build number, or adds one; an
\* update gives no other row's number
Target(x) ==
  IF x.row = NoRow THEN IF With(x.build) # {} THEN With(x.build) ELSE With(0)
  ELSE IF x.build = 0 \/ With(x.build) \subseteq {x.row} THEN {x.row} ELSE {}

\* The second statement and the commit
WriteRelease(c) ==
  LET x == releaseCall[c]
      clears == x.current = "yes"
      written(r) == [build |-> IF x.build = 0 THEN release[r].build ELSE x.build,
                     current |-> Said(x.current, release[r].current),
                     active |-> Said(x.active, release[r].active)]
  IN /\ x.phase = "writing"
     /\ \E target \in Target(x) :
          release' = [r \in Rows |->
            IF r = target THEN written(r)
            ELSE [release[r] EXCEPT !.current = @ /\ r \notin x.cleared]]
     /\ releaseCall' = [d \in ReleaseCalls |->
          IF d = c THEN Finished
          ELSE [releaseCall[d] EXCEPT !.stale =
                  @ \/ (releaseCall[d].phase = "writing" /\ clears)]]
     /\ doubled' = IF clears THEN x.stale ELSE doubled

\* A statement fails and the transaction is rolled back
ReleaseCallFails(c) ==
  /\ releaseCall[c].phase # "idle"
  /\ Continues(c, releaseCall[c].phase, Finished)

ReleasesNext ==
  \E c \in ReleaseCalls :
    \/ \E b \in Builds : AskPublish(c, b)
    \/ \E r \in Rows, b \in Builds \cup {0}, current \in Flags, active \in Flags :
         AskRevise(c, r, b, current, active)
    \/ ClearOthers(c) \/ WriteRelease(c) \/ ReleaseCallFails(c)

ReleasesSpec == ReleasesInit /\ [][ReleasesNext]_releaseVars

-----------------------------------------------------------------------------
\* A channel has at most one current release, unless one was published while
\* another was (publishFullRelease, updateRelease).
OneCurrentRelease == doubled \/ Cardinality(Current) <= 1

=============================================================================
