------------------------------ MODULE MCAccess ------------------------------
(***************************************************************************)
(* The three components of signing in, for TLC.  They share no variable,   *)
(* so each behaviour moves one of them and leaves the others at rest: part *)
(* says which, and the states are the sum of the components' and not their *)
(* product.  Sign-in codes and password resets are rows of different types *)
(* that no statement touches together, and take a part each; sessions take *)
(* two, requests of one user at once and one request at a time of several. *)
(***************************************************************************)
EXTENDS Sessions, SignInCodes, DesktopSignIn, TLC

VARIABLE part

accessVars == <<sessionVars, codeVars, desktopVars>>

Init ==
  /\ SessionsInit /\ CodesInit /\ DesktopInit
  /\ part \in {"requests", "users", "logins", "resets", "desktop"}

Started == {c \in Calls : call[c].phase # "idle"}

\* Sessions of one user only, who is suspended beside one request at most
OneUser ==
  LET others == {u \in Users : u # Idle.user} IN
  /\ \A c \in Calls : call[c].user \notin others
  /\ \A u \in others : account[u] = "ACTIVE"
  /\ account[Idle.user] = "DISABLED" => Cardinality(Started) <= 1

\* One request at a time, of users who stay
OneRequest == Cardinality(Started) <= 1 /\ \A u \in Users : account[u] = "ACTIVE"

\* At most one attempt runs out of time
OneOver == Cardinality({a \in Attempts : attempt[a].over}) <= 1

Next ==
  /\ UNCHANGED part
  /\ \/ /\ part = "requests" /\ SessionsNext /\ OneUser'
        /\ UNCHANGED <<codeVars, desktopVars>>
     \/ /\ part = "users" /\ SessionsNext /\ OneRequest'
        /\ UNCHANGED <<codeVars, desktopVars>>
     \/ /\ part = "logins" /\ CodesNextOf({"login"})
        /\ UNCHANGED <<sessionVars, desktopVars>>
     \/ /\ part = "resets" /\ CodesNextOf({"reset", "link"})
        /\ code'[LastCode].state = "free"   \* resets need one row less
        /\ UNCHANGED <<sessionVars, desktopVars>>
     \/ /\ part = "desktop" /\ DesktopNext /\ OneOver'
        /\ UNCHANGED <<sessionVars, codeVars>>

Spec == Init /\ [][Next]_<<accessVars, part>>

TypeOK == SessionsTypeOK /\ CodesTypeOK /\ DesktopTypeOK

\* The configuration uses the model values of Calls for the requests of every
\* component and those of Rows for the logins: each is permuted everywhere
Interchangeable ==
  Permutations(Calls) \cup Permutations(Tokens) \cup Permutations(Rows)
=============================================================================
