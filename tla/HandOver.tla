------------------------------ MODULE HandOver ------------------------------
(***************************************************************************)
(* What the desktop sign-in promises an application that waits for the     *)
(* browser: per attempt it is given at most one login session, once, and   *)
(* one that the browser made for this attempt.                             *)
(***************************************************************************)
CONSTANTS
  Attempts,   \* sign-in attempts
  Logins      \* login sessions Google sign-in can create

VARIABLES
  made,    \* the logins created for each attempt
  given    \* the logins the applications were given, with their attempts

handOverVars == <<made, given>>

HandOverInit ==
  /\ made = [a \in Attempts |-> {}]
  /\ given = {}

Make(a, s) ==
  /\ \A b \in Attempts : s \notin made[b]
  /\ made' = [made EXCEPT ![a] = @ \cup {s}]
  /\ UNCHANGED given

Give(a, s) ==
  /\ s \in made[a]
  /\ \A g \in given : g[1] # a
  /\ given' = given \cup {<<a, s>>}
  /\ UNCHANGED made

HandOverNext == \E a \in Attempts, s \in Logins : Make(a, s) \/ Give(a, s)

HandOverSpec == HandOverInit /\ [][HandOverNext]_handOverVars
=============================================================================
