----------------------------- MODULE AiFeatures -----------------------------
(***************************************************************************)
(* One user's attempts at the text-to-media feature (ai.service.ts): an    *)
(* attempt is reserved before the image is made, and committed or failed   *)
(* afterwards.  A day's attempts are counted before one is added, and its  *)
(* status is read before it is written.                                    *)
(***************************************************************************)
EXTENDS Naturals, FiniteSets

CONSTANTS
  Attempts,        \* rows of ai_feature_usage_attempts, those not made yet included
  NoAttempt,
  Limit,           \* TEXT_TO_MEDIA_LIMIT
  FeatureCalls     \* requests in flight

ASSUME FeaturesAssumption ==
  Limit \in Nat /\ IsFiniteSet(Attempts) /\ NoAttempt \notin Attempts

VARIABLES
  attempt,         \* the rows of ai_feature_usage_attempts
  featureCall,     \* the local state of each request
  exceeded         \* history: attempts added or settled after a stale read

featureVars == <<attempt, featureCall, exceeded>>

AttemptRow == [status : {"NONE", "RESERVED", "COMMITTED", "FAILED"},
               recent : BOOLEAN]     \* made in the last 24 hours

FeatureCall == [phase : {"idle", "adding", "settling"},
                of : Attempts \cup {NoAttempt},
                status : {"RESERVED", "COMMITTED", "FAILED"},
                stale : BOOLEAN]     \* history: a count or a status has changed

NoFeatureCall == [phase |-> "idle", of |-> NoAttempt, status |-> "RESERVED", stale |-> FALSE]

FeaturesTypeOK ==
  /\ attempt \in [Attempts -> AttemptRow]
  /\ featureCall \in [FeatureCalls -> FeatureCall]
  /\ exceeded \subseteq Attempts

FeaturesInit ==
  /\ attempt = [a \in Attempts |-> [status |-> "NONE", recent |-> FALSE]]
  /\ featureCall = [c \in FeatureCalls |-> NoFeatureCall]
  /\ exceeded = {}

-----------------------------------------------------------------------------
CountedCommitted == {a \in Attempts : attempt[a].recent /\ attempt[a].status = "COMMITTED"}

\* The attempts that count against the limit
CountedAttempts == {a \in Attempts : attempt[a].recent
                                     /\ attempt[a].status \in {"RESERVED", "COMMITTED"}}

Goes(c, from, record) ==
  /\ featureCall[c].phase = from
  /\ featureCall' = [featureCall EXCEPT ![c] = record]

\* reserveFeatureAttempt: the transaction does not lock what it counts
CountAttempts(c) ==
  /\ Cardinality(CountedAttempts) < Limit
  /\ Goes(c, "idle", [NoFeatureCall EXCEPT !.phase = "adding"])
  /\ UNCHANGED <<attempt, exceeded>>

\* Others that counted, or read that attempt, before
Precedes(c, others) ==
  featureCall' = [d \in FeatureCalls |->
    IF d = c THEN NoFeatureCall
    ELSE [featureCall[d] EXCEPT !.stale = @ \/ d \in others]]

Adding == {d \in FeatureCalls : featureCall[d].phase = "adding"}

Settling(a) == {d \in FeatureCalls : featureCall[d].phase = "settling" /\ featureCall[d].of = a}

AddAttempt(c) ==
  /\ c \in Adding
  /\ \E a \in Attempts :
       /\ attempt[a].status = "NONE"
       /\ attempt' = [attempt EXCEPT ![a] = [status |-> "RESERVED", recent |-> TRUE]]
       /\ exceeded' = IF featureCall[c].stale THEN exceeded \cup {a} ELSE exceeded
  /\ Precedes(c, Adding)

\* updateOwnFeatureAttempt: one that is settled is left as it is
MaySettle(a) == attempt[a].status = "RESERVED"

ReadAttempt(c, a, status) ==
  /\ MaySettle(a)
  /\ Goes(c, "idle", [phase |-> "settling", of |-> a, status |-> status, stale |-> FALSE])
  /\ UNCHANGED <<attempt, exceeded>>

SettleAttempt(c) ==
  LET x == featureCall[c]
      counts == x.status = "COMMITTED" /\ x.of \notin CountedAttempts
  IN /\ x.phase = "settling"
     /\ attempt' = [attempt EXCEPT ![x.of].status = x.status]
     /\ exceeded' = IF x.stale THEN exceeded \cup {x.of} ELSE exceeded
     /\ Precedes(c, Settling(x.of) \cup (IF counts THEN Adding ELSE {}))

FeatureCallFails(c) ==
  /\ featureCall[c].phase # "idle"
  /\ Goes(c, featureCall[c].phase, NoFeatureCall)
  /\ UNCHANGED <<attempt, exceeded>>

DayPasses(a) ==
  /\ attempt[a].recent
  /\ attempt' = [attempt EXCEPT ![a].recent = FALSE]
  /\ UNCHANGED <<featureCall, exceeded>>

FeaturesNext ==
  \/ \E a \in Attempts : DayPasses(a)
  \/ \E c \in FeatureCalls :
       \/ CountAttempts(c) \/ AddAttempt(c) \/ SettleAttempt(c) \/ FeatureCallFails(c)
       \/ \E a \in Attempts, s \in {"COMMITTED", "FAILED"} : ReadAttempt(c, a, s)

FeaturesSpec == FeaturesInit /\ [][FeaturesNext]_featureVars

-----------------------------------------------------------------------------
\* Of a day's attempts at most Limit are reserved or committed, but for those
\* reserved while another was, or settled twice at once (reserveFeatureAttempt,
\* updateOwnFeatureAttempt).
AttemptsBounded == Cardinality(CountedAttempts \ exceeded) <= Limit
=============================================================================
