---------------------------- MODULE SignInCodes ----------------------------
(***************************************************************************)
(* One account's one-time codes (src/src/modules/auth/auth.service.ts):    *)
(* sign-in codes, password-reset codes and password links.  A link and a   *)
(* reset code are rows of the same type, PASSWORD_RESET.  Counting recent  *)
(* codes, ending the older ones and creating the new one are separate      *)
(* statements; so are checking a code, using it and marking it used.       *)
(***************************************************************************)
EXTENDS Naturals, FiniteSets

CONSTANTS
  LastCode,     \* codes are numbered 1 .. LastCode in the order of creation
  CodeCalls,    \* requests in flight
  MaxAttempts,  \* MAX_OTP_ATTEMPTS
  MaxSends      \* MAX_OTP_SENDS_PER_HOUR

ASSUME SignInCodesAssumption ==
  /\ LastCode \in Nat
  /\ IsFiniteSet(CodeCalls)
  /\ MaxAttempts \in Nat \ {0}
  /\ MaxSends \in Nat \ {0}

VARIABLES
  code,      \* the rows of the otps table
  codeCall,  \* the local state of each request
  fate       \* history: how often each code has signed in or set a password,
             \* or that two requests were checking it at once, or that one was
             \* lost between using it and marking it

codeVars == <<code, codeCall, fate>>

Codes == 1 .. LastCode

NoCode == 0   \* no row found; as a guess, a code that is not ours

Kinds == {"login", "reset", "link"}

TypeOf(kind) == IF kind = "login" THEN "EMAIL_LOGIN" ELSE "PASSWORD_RESET"

CodeRow == [state : {"free", "open", "used"}, kind : Kinds, tries : Nat,
            over : BOOLEAN,     \* expiresAt is in the past
            recent : BOOLEAN]   \* created less than an hour ago

FreeCode == [state |-> "free", kind |-> "login", tries |-> 0,
             over |-> FALSE, recent |-> FALSE]

CodePhases == {"idle", "invalidating", "creating", "guessing", "counting",
               "using", "marking", "clearing"}

CodeRequest == [phase : CodePhases, kind : Kinds, on : Codes \cup {NoCode}]

NoRequest == [phase |-> "idle", kind |-> "login", on |-> NoCode]

CodesTypeOK ==
  /\ code \in [Codes -> CodeRow]
  /\ codeCall \in [CodeCalls -> CodeRequest]
  /\ fate \in [Codes -> {"unused", "used", "reused", "excused"}]

CodesInit ==
  /\ code = [k \in Codes |-> FreeCode]
  /\ codeCall = [c \in CodeCalls |-> NoRequest]
  /\ fate = [k \in Codes |-> "unused"]

-----------------------------------------------------------------------------
Open(kind) == {k \in Codes : code[k].state = "open"
                             /\ TypeOf(code[k].kind) = TypeOf(kind)}

\* findLatestOtp: one row, or none
Latest(kind) == {k \in Open(kind) : \A l \in Open(kind) : l <= k}

\* countRecentOtps counts links among the reset codes
Recent(kind) == {k \in Codes : code[k].recent
                               /\ TypeOf(code[k].kind) = TypeOf(kind)}

Moves(c, phase) == codeCall' = [codeCall EXCEPT ![c].phase = phase]

Ends(c) == codeCall' = [codeCall EXCEPT ![c] = NoRequest]

\* Requests that have passed the check of code k and may still use it
Using(k) == {c \in CodeCalls : codeCall[c].on = k
                               /\ codeCall[c].phase \in {"using", "marking"}}

Excused(k) == [fate EXCEPT ![k] = "excused"]

-----------------------------------------------------------------------------
(***************************************************************************)
(* Sending: sendOtp and requestPasswordResetOtp count first; a link        *)
(* (createPasswordResetToken) is not limited.                              *)
(***************************************************************************)
SendCount(c, kind) ==
  /\ codeCall[c].phase = "idle"
  /\ kind # "link" => Cardinality(Recent(kind)) < MaxSends
  /\ codeCall' = [codeCall EXCEPT ![c] =
       [phase |-> "invalidating", kind |-> kind, on |-> NoCode]]
  /\ UNCHANGED <<code, fate>>

Invalidate(c) ==
  /\ codeCall[c].phase = "invalidating"
  /\ code' = [k \in Codes |-> IF k \in Open(codeCall[c].kind)
                              THEN [code[k] EXCEPT !.state = "used"]
                              ELSE code[k]]
  /\ Moves(c, "creating")
  /\ UNCHANGED <<fate>>

CreateCode(c) ==
  \E k \in Codes :
    /\ codeCall[c].phase = "creating"
    /\ code[k].state = "free"
    /\ \A l \in Codes : code[l].state = "free" => k <= l
    /\ code' = [code EXCEPT ![k] = [FreeCode EXCEPT
                  !.state = "open", !.kind = codeCall[c].kind, !.recent = TRUE]]
    /\ Ends(c)
    /\ UNCHANGED <<fate>>

-----------------------------------------------------------------------------
(***************************************************************************)
(* Checking a typed code: verifyOtp and assertValidPasswordResetOtp look   *)
(* at the newest open row of the type, and compare hashes (a slow call)    *)
(* before they count a wrong guess or go on.  verifyPasswordResetOtp only  *)
(* checks: goesOn is false.                                                *)
(***************************************************************************)
GuessableOnceMore(k) == ~code[k].over /\ code[k].tries <= MaxAttempts

Guessable(k) == ~code[k].over /\ code[k].tries < MaxAttempts

Check(c, kind, guess, goesOn) ==
  \E k \in Latest(kind) :
    LET right == guess = k /\ code[k].kind = kind IN
    /\ codeCall[c].phase = "idle"
    /\ Guessable(k)
    /\ IF right /\ ~goesOn THEN UNCHANGED codeVars ELSE
         /\ codeCall' = [codeCall EXCEPT ![c] =
              [phase |-> IF right THEN "using" ELSE "counting",
               kind |-> kind, on |-> k]]
         /\ fate' = IF right /\ Using(k) # {} THEN Excused(k) ELSE fate
         /\ UNCHANGED code

CountGuess(c) ==
  /\ codeCall[c].phase = "counting"
  /\ code' = [code EXCEPT ![codeCall[c].on].tries = @ + 1]
  /\ Ends(c)
  /\ UNCHANGED <<fate>>

\* validatePasswordSetupToken, which looks at the row the link names and at
\* neither its age among the links nor its wrong guesses
CheckLink(c, k) ==
  /\ codeCall[c].phase = "idle"
  /\ code[k].kind = "link"
  /\ code[k].state = "open"
  /\ ~code[k].over
  /\ codeCall' = [codeCall EXCEPT ![c] =
       [phase |-> "using", kind |-> "link", on |-> k]]
  /\ fate' = IF Using(k) # {} THEN Excused(k) ELSE fate
  /\ UNCHANGED code

\* The session of a sign-in (touchOwnSession), or the new password
UseCode(c) ==
  LET k == codeCall[c].on IN
  /\ codeCall[c].phase = "using"
  /\ fate' = [fate EXCEPT ![k] = CASE @ = "unused" -> "used"
                                   [] @ = "used" -> "reused"
                                   [] OTHER -> @]
  /\ Moves(c, "marking")
  /\ UNCHANGED code

MarkUsedForReset(c) ==
  LET k == codeCall[c].on IN
  /\ codeCall[c].phase = "marking"
  /\ code' = IF codeCall[c].kind = "login" THEN code
             ELSE [code EXCEPT ![k].state = "used"]
  /\ IF codeCall[c].kind = "login" THEN Ends(c) ELSE Moves(c, "clearing")
  /\ UNCHANGED <<fate>>

\* markOtpUsed; a reset then ends the account's sessions (Sessions!RevokeAll)
MarkUsed(c) ==
  LET k == codeCall[c].on IN
  /\ codeCall[c].phase = "marking"
  /\ code' = [code EXCEPT ![k].state = "used"]
  /\ IF codeCall[c].kind = "login" THEN Ends(c) ELSE Moves(c, "clearing")
  /\ UNCHANGED <<fate>>

ClearSessions(c) ==
  /\ codeCall[c].phase = "clearing"
  /\ Ends(c)
  /\ UNCHANGED <<code, fate>>

\* A refusal (the account or its organization), a failed statement or a killed
\* handler
CodeCallFails(c) ==
  LET x == codeCall[c] IN
  /\ x.phase # "idle"
  /\ fate' = IF x.phase = "marking" THEN Excused(x.on) ELSE fate
  /\ Ends(c)
  /\ UNCHANGED code

-----------------------------------------------------------------------------
\* A code lasts ten minutes, a reset link a day, a setup link seven days (the
\* time of a used one is not asked for)
CodeExpires(k) ==
  /\ code[k].state = "open"
  /\ ~code[k].over
  /\ code[k].kind = "link" => ~code[k].recent
  /\ code' = [code EXCEPT ![k].over = TRUE]
  /\ UNCHANGED <<codeCall, fate>>

HourPasses(k) ==
  /\ code[k].recent
  /\ code[k].state = "open" /\ code[k].kind # "link" => code[k].over
  /\ \A l \in Codes : l < k => ~code[l].recent
  /\ code' = [code EXCEPT ![k].recent = FALSE]
  /\ UNCHANGED <<codeCall, fate>>

\* No statement touches rows of both types: kinds is those of the requests
CodesNextOf(kinds) ==
  \/ \E c \in CodeCalls :
       \/ \E kind \in kinds : SendCount(c, kind)
       \/ Invalidate(c) \/ CreateCode(c)
       \/ \E kind \in kinds \ {"link"}, g \in Codes \cup {NoCode}, on \in BOOLEAN :
            Check(c, kind, g, on \/ kind = "login")
       \/ \E k \in Codes : CheckLink(c, k)
       \/ CountGuess(c) \/ UseCode(c) \/ MarkUsed(c) \/ ClearSessions(c)
       \/ CodeCallFails(c)
  \/ \E k \in Codes : CodeExpires(k) \/ HourPasses(k)

CodesNext == CodesNextOf(Kinds)

CodesSpec == CodesInit /\ [][CodesNext]_codeVars

-----------------------------------------------------------------------------
(***************************************************************************)
(* Properties.                                                             *)
(***************************************************************************)
\* A code signs in, and a reset code or a link sets a password, only once,
\* unless two requests were checking it at the same time or the handler was
\* lost between using the code and marking it (verifyOtp, completePasswordSetup).
CodeUsedOnce == \A k \in Codes : fate[k] # "reused"

\* Wrong guesses count against the code they were compared with: all in all a
\* code is guessed at most MaxAttempts times, and once more for each further
\* request that had read the row meanwhile (incrementOtpAttempts).
GuessesBounded ==
  \A k \in Codes : code[k].tries + 1 <= MaxAttempts + Cardinality(CodeCalls)

\* Within an hour an account is sent at most MaxSends codes, and one more for
\* each further request that had counted before they were created; links are
\* not limited, but they count (countRecentOtps).
SendsBounded ==
  Cardinality({k \in Codes : code[k].recent /\ code[k].kind = "login"}) + 1
    <= MaxSends + Cardinality(CodeCalls)

\* Both limits of one-time codes hold up to the requests that run at once
\* (sendOtp, verifyOtp, assertValidPasswordResetOtp).
CodesLimited == GuessesBounded /\ SendsBounded
=============================================================================
