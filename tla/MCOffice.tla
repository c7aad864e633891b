------------------------------ MODULE MCOffice ------------------------------
(***************************************************************************)
(* Users and seats, support, feedback, releases and AI features for TLC.   *)
(* They share nothing: part says which of them a behaviour moves (see      *)
(* MCAccess).  Members takes three parts:                                  *)
(*   seats     one organization whose users nobody moves, links or archives*)
(*   terms     one organization and one user, while subscriptions change   *)
(*   people    two organizations; a count, once begun, is not interrupted  *)
(***************************************************************************)
EXTENDS Members, SupportThreads, Feedback, AppReleases, AiFeatures, TLC

CONSTANTS Home, Main

VARIABLE part

vars == <<memberVars, supportVars, feedbackVars, releaseVars, featureVars, part>>

Init ==
  /\ MembersInit /\ SupportInit /\ FeedbackInit /\ ReleasesInit /\ FeaturesInit
  /\ part \in {"seats", "terms", "people", "support", "actions", "feedback", "releases", "features"}
  /\ Cardinality({u \in Users : user[u].role = "SUPER_ADMIN"}) = (IF part = "people" THEN 1 ELSE 0)
  /\ seats[Home].current = Main
  /\ part # "people" => \A o \in Orgs \ {Home} : seats[o].current = NoSub
  /\ part = "people" => \A o \in Orgs : seats[o].current # NoSub
  /\ \A s \in Subs : sub[s].limit \in {0, Regulars + 1}

-----------------------------------------------------------------------------
CountsOn(c) == Count(c) \/ Store(c) \/ Warn(c) \/ Passes(c) \/ Reset(c) \/ MarkTier(c)

\* Students of one organization, who are created, activated and disabled
SeatsNext ==
  \E c \in MemberCalls :
    \/ AskCount(c, Home)
    \/ CountsOn(c) \/ MemberCallFails(c)
    \/ WriteUser(c)
    \/ \E u \in Users :
         \/ AskCreate(c, u, "STUDENT", Home, "active")
         \/ \E state \in {"active", "disabled"} :
              AskUpdate(c, u, "unsaid", Home, state, FALSE, {})

Counts(c) == memberCall[c].phase \in {"counting", "storing", "judging", "marking"}

\* One user comes and goes, and subscriptions are asked for, decided, renewed,
\* ended and given other seats, by one request at a time; a count, once begun, may
\* be overtaken, but nothing is asked in the meantime
TermsNext ==
  LET u == CHOOSE v \in Users : TRUE IN
  \/ \E c \in MemberCalls : CountsOn(c) \/ WriteTerms(c) \/ WriteUser(c)
  \/ /\ \A c \in MemberCalls : ~Counts(c)
     /\ \/ DeleteMe(u)
        \/ \E s \in Subs, status \in {"active", "ended"} : SweepSubscription(s, status)
        \/ \E c \in MemberCalls :
          \/ AskCreate(c, u, "STUDENT", Home, "active")
          \/ /\ \A d \in MemberCalls : memberCall[d].phase # "deciding"
             /\ \E s \in Subs :
                  \/ \E limit \in Limits, terms \in {"pending", "active"} :
                       AskSubscribe(c, s, Home, limit, terms)
                  \/ \E terms \in {"active", "ended"} : AskDecide(c, s, terms)
                  \/ \E limit \in Limits : AskResize(c, s, limit, "unsaid")
                  \/ AskResize(c, s, 0, "ended")
                  \/ AskRenew(c, s)

Writes(kinds) == \E c \in MemberCalls : memberCall[c].phase = "writing" /\ memberCall[c].kind \in kinds

\* Users of both organizations who are moved, linked and deleted one after the
\* other, while one of them is archived.  A count, once begun, goes on alone.
PeopleNext ==
  \/ /\ \A c \in MemberCalls : ~Counts(c)
     /\ \/ \E u \in Users : InviteStudent(u, Home)
        \/ \E c \in MemberCalls :
          \/ WriteUser(c) \/ DeleteUser(c) \/ ArchiveOrganization(c)
          \/ AskArchive(c, Home) /\ ~Writes({"archive"})
          \/ /\ ~Writes({"create", "update", "delete"})
             /\ \E u \in Users :
                  \/ AskDelete(c, u)
                  \/ \E o \in Orgs :
                       \/ \E role \in Licensed : AskCreate(c, u, role, o, "active")
                       \/ AskUpdate(c, u, "unsaid", o, "unsaid", FALSE, {})
                       \/ \E v \in Users : AskUpdate(c, u, "PARENT", o, "active", TRUE, {v})
  \/ \E c \in MemberCalls :
       /\ Counts(c)
       /\ CountsOn(c)

\* One request disables the organization for a thread, while others reply
SupportOnly ==
  /\ \A h \in Threads : thread'[h].priority = "NORMAL"
  /\ \A h \in Threads : thread'[h].opener \notin SuperAdmins
  /\ active' => active
  /\ \A c \in SupportCalls : supportCall'[c].kind # "enable_org"
  /\ \A c, d \in SupportCalls :
       c # d => {supportCall'[c].phase, supportCall'[d].phase} \cap {"idle", "replying"} # {}

\* Two requests apply actions, and nobody replies or decides
ActionsOnly ==
  ActionStep \/ \E h \in Threads : \E a \in Staff, p \in {"NORMAL", "HIGH"} :
                  CreateThread(h, a, p) \/ SetPriority(h, p)

\* A request gives a release another number, makes it current or withdraws it
ReviseOnly ==
  \A c \in ReleaseCalls : LET x == releaseCall'[c] IN
    x.row # NoRow => \/ x.build # 0 /\ x.current = "unsaid" /\ x.active = "unsaid"
                     \/ x.build = 0 /\ x.current = "yes" /\ x.active # "no"
                     \/ x.build = 0 /\ x.current # "yes" /\ x.active = "no"

OfficeVars(name) ==
  /\ part = name /\ UNCHANGED part
  /\ name \in {"seats", "terms", "people"} \/ UNCHANGED memberVars
  /\ name \in {"support", "actions"} \/ UNCHANGED supportVars
  /\ name = "feedback" \/ UNCHANGED feedbackVars
  /\ name = "releases" \/ UNCHANGED releaseVars
  /\ name = "features" \/ UNCHANGED featureVars

Next ==
  \/ OfficeVars("seats") /\ SeatsNext
  \/ OfficeVars("terms") /\ TermsNext
  \/ OfficeVars("people") /\ PeopleNext
  \/ OfficeVars("support") /\ SupportNext /\ SupportOnly
  \/ OfficeVars("actions") /\ ActionsOnly
  \/ OfficeVars("feedback") /\ FeedbackNext
  \/ OfficeVars("releases") /\ ReleasesNext /\ ReviseOnly
  \/ OfficeVars("features") /\ FeaturesNext

Spec == Init /\ [][Next]_vars

\* Requests are model values, and so are rows and administrators; the sets have
\* the same elements in every module, and so one group of permutations does
Interchangeable ==
  Permutations(MemberCalls) \cup Permutations(Comments) \cup Permutations(OrgAdmins)
=============================================================================
