----------------------------- MODULE SignInProofs -----------------------------
(***************************************************************************)
(* The ways to sign in, for any users, codes, sessions and requests.       *)
(***************************************************************************)
EXTENDS SignInCodes, DesktopSignIn, FiniteSetTheorems, TLAPS

-----------------------------------------------------------------------------
(***************************************************************************)
(* One-time codes, for any number of codes and requests and for all        *)
(* limits.  A code that was used is marked, or the one request that used   *)
(* it is about to mark it; the requests that are still to count a guess,   *)
(* or to create a code, have their place under the limits.                 *)
(***************************************************************************)

USE SignInCodesAssumption

CallsPlaced ==
  \A c \in CodeCalls :
    codeCall[c].phase \in {"counting", "using", "marking"} =>
      codeCall[c].on \in Codes /\ code[codeCall[c].on].state # "free"

FreeIsUnused == \A k \in Codes : code[k].state = "free" => fate[k] = "unused"

OneUser ==
  \A k \in Codes : fate[k] # "excused" =>
    \A c, d \in Using(k) : c = d

UsedIsMarked ==
  \A k \in Codes : fate[k] = "used" =>
    /\ Using(k) = {} => code[k].state = "used"
    /\ \A c \in Using(k) : codeCall[c].phase = "marking"

UseInv ==
  CodesTypeOK /\ CodeUsedOnce /\ CallsPlaced /\ FreeIsUnused /\ OneUser /\ UsedIsMarked

Counting(k) == {c \in CodeCalls : codeCall[c].phase = "counting" /\ codeCall[c].on = k}

Sending == {c \in CodeCalls : codeCall[c].phase \in {"invalidating", "creating"}
                              /\ codeCall[c].kind = "login"}

RecentLogins == {k \in Codes : code[k].recent /\ code[k].kind = "login"}

GuessesPlaced ==
  \A k \in Codes :
    code[k].tries + Cardinality(Counting(k)) + 1 <= MaxAttempts + Cardinality(CodeCalls)

SendsPlaced ==
  Cardinality(RecentLogins) + Cardinality(Sending) + 1
    <= MaxSends + Cardinality(CodeCalls)

LimitInv == GuessesPlaced /\ SendsPlaced

-----------------------------------------------------------------------------
LEMMA NoRequestType == NoRequest \in CodeRequest /\ NoRequest.phase = "idle"
  BY DEF NoRequest, CodeRequest, CodePhases, Kinds

(***************************************************************************)
(* One request moves on and the others stay as they are.                   *)
(***************************************************************************)
LEMMA CallMoves ==
  ASSUME CodesTypeOK, NEW c \in CodeCalls, NEW next \in CodeRequest,
         codeCall' = [codeCall EXCEPT ![c] = next]
  PROVE  /\ codeCall' \in [CodeCalls -> CodeRequest]
         /\ codeCall'[c] = next
         /\ \A d \in CodeCalls \ {c} : codeCall'[d] = codeCall[d]
  BY DEF CodesTypeOK

LEMMA PhaseMoves ==
  ASSUME CodesTypeOK, NEW c \in CodeCalls, NEW p \in CodePhases, Moves(c, p)
  PROVE  /\ codeCall' \in [CodeCalls -> CodeRequest]
         /\ codeCall'[c].phase = p
         /\ codeCall'[c].on = codeCall[c].on
         /\ codeCall'[c].kind = codeCall[c].kind
         /\ \A d \in CodeCalls \ {c} : codeCall'[d] = codeCall[d]
<1>1. codeCall[c] \in CodeRequest
  BY DEF CodesTypeOK
<1> DEFINE next == [codeCall[c] EXCEPT !.phase = p]
<1>2. /\ next \in CodeRequest
      /\ next.phase = p
      /\ next.on = codeCall[c].on
      /\ next.kind = codeCall[c].kind
  BY <1>1 DEF CodeRequest
<1>3. codeCall' = [codeCall EXCEPT ![c] = next]
  BY DEF Moves
<1> HIDE DEF next
<1> QED
  BY <1>2, <1>3, CallMoves

(***************************************************************************)
(* A step that uses and frees no code, and whose requests neither start to *)
(* use one nor leave one unmarked.                                         *)
(***************************************************************************)
LEMMA ElsewhereKeepsUse ==
  ASSUME UseInv,
         code' \in [Codes -> CodeRow],
         \A k \in Codes : /\ code'[k].state = "free" => code[k].state = "free"
                          /\ code[k].state = "used" => code'[k].state = "used",
         codeCall' \in [CodeCalls -> CodeRequest],
         \A d \in CodeCalls :
           \/ codeCall'[d] = codeCall[d]
           \/ /\ codeCall[d].phase # "marking"
              /\ codeCall'[d].phase \notin {"using", "marking"}
              /\ codeCall'[d].phase = "counting" =>
                   codeCall'[d].on \in Codes /\ code[codeCall'[d].on].state # "free",
         UNCHANGED fate
  PROVE  UseInv'
<1> USE DEF UseInv
<1>1. CodesTypeOK' /\ CodeUsedOnce' /\ FreeIsUnused'
  BY DEF CodesTypeOK, CodeUsedOnce, FreeIsUnused
<1>2. CallsPlaced'
  BY DEF CallsPlaced
<1>3. \A k \in Codes : Using(k)' \subseteq Using(k)
  BY DEF Using
<1>4. OneUser'
  BY <1>3 DEF OneUser
<1>5. UsedIsMarked'
  <2> SUFFICES ASSUME NEW k \in Codes, fate[k] = "used"
               PROVE  /\ Using(k)' = {} => code'[k].state = "used"
                      /\ \A d \in Using(k)' : codeCall'[d].phase = "marking"
    BY DEF UsedIsMarked
  <2>1. \A d \in Using(k) : codeCall'[d] = codeCall[d] /\ codeCall[d].phase = "marking"
    BY DEF UsedIsMarked, Using
  <2>2. Using(k)' = Using(k)
    BY <1>3, <2>1 DEF Using
  <2> QED
    BY <2>1, <2>2 DEF UsedIsMarked
<1> QED
  BY <1>1, <1>2, <1>4, <1>5

(***************************************************************************)
(* Requests that have checked the same code are told apart by its fate.    *)
(***************************************************************************)
LEMMA EntersUse ==
  ASSUME UseInv, NEW c \in CodeCalls, NEW k \in Codes, NEW next \in CodeRequest,
         codeCall[c].phase = "idle",
         codeCall' = [codeCall EXCEPT ![c] = next],
         next.phase = "using", next.on = k, code[k].state = "open",
         fate' = IF Using(k) # {} THEN Excused(k) ELSE fate,
         UNCHANGED code
  PROVE  UseInv'
<1> USE DEF UseInv
<1>1. /\ codeCall' \in [CodeCalls -> CodeRequest]
      /\ codeCall'[c] = next
      /\ \A d \in CodeCalls \ {c} : codeCall'[d] = codeCall[d]
  BY CallMoves
<1>2. /\ fate' \in [Codes -> {"unused", "used", "reused", "excused"}]
      /\ Using(k) # {} => fate'[k] = "excused"
      /\ Using(k) = {} => fate'[k] = fate[k]
      /\ \A l \in Codes \ {k} : fate'[l] = fate[l]
  BY DEF Excused, CodesTypeOK
<1>3. CodesTypeOK' /\ CodeUsedOnce' /\ FreeIsUnused'
  BY <1>1, <1>2 DEF CodesTypeOK, CodeUsedOnce, FreeIsUnused
<1>4. CallsPlaced'
  BY <1>1 DEF CallsPlaced
<1>5. /\ Using(k)' = Using(k) \cup {c}
      /\ \A l \in Codes \ {k} : Using(l)' = Using(l)
      /\ \A l \in Codes : c \notin Using(l)
  BY <1>1 DEF Using
<1>6. OneUser'
  BY <1>2, <1>5 DEF OneUser
<1>7. UsedIsMarked'
  <2> SUFFICES ASSUME NEW l \in Codes, fate'[l] = "used"
               PROVE  /\ Using(l)' = {} => code[l].state = "used"
                      /\ \A d \in Using(l)' : codeCall'[d].phase = "marking"
    BY DEF UsedIsMarked
  <2>1. l # k
    <3> SUFFICES ASSUME l = k PROVE FALSE
      OBVIOUS
    <3>1. Using(k) = {} /\ fate[k] = "used"
      BY <1>2
    <3> QED
      BY <3>1 DEF UsedIsMarked
  <2>2. Using(l)' = Using(l) /\ fate[l] = "used"
    BY <1>2, <1>5, <2>1
  <2>3. \A d \in Using(l) : codeCall'[d] = codeCall[d]
    BY <1>1, <1>5 DEF Using
  <2> QED
    BY <2>2, <2>3 DEF UsedIsMarked
<1> QED
  BY <1>3, <1>4, <1>6, <1>7

LEMMA InitUse == CodesInit => UseInv
<1> SUFFICES ASSUME CodesInit PROVE UseInv
  OBVIOUS
<1>1. FreeCode \in CodeRow /\ FreeCode.state = "free"
  BY DEF FreeCode, CodeRow, Kinds
<1>2. CodesTypeOK /\ CodeUsedOnce /\ FreeIsUnused
  BY <1>1, NoRequestType DEF CodesInit, CodesTypeOK, CodeUsedOnce, FreeIsUnused
<1>3. CallsPlaced
  BY NoRequestType DEF CodesInit, CallsPlaced
<1>4. \A k \in Codes : Using(k) = {}
  BY NoRequestType DEF CodesInit, Using
<1>5. OneUser /\ UsedIsMarked
  BY <1>4 DEF CodesInit, OneUser, UsedIsMarked
<1> QED
  BY <1>2, <1>3, <1>5 DEF UseInv

-----------------------------------------------------------------------------
(***************************************************************************)
(* How the steps keep that a code is used once.                            *)
(***************************************************************************)
LEMMA SendUse ==
  ASSUME UseInv, NEW c \in CodeCalls, NEW kind \in Kinds, SendCount(c, kind)
  PROVE  UseInv'
<1> DEFINE next == [phase |-> "invalidating", kind |-> kind, on |-> NoCode]
<1>1. /\ codeCall[c].phase = "idle"
      /\ codeCall' = [codeCall EXCEPT ![c] = next]
      /\ UNCHANGED <<code, fate>>
  BY DEF SendCount
<1>2. next \in CodeRequest /\ next.phase = "invalidating"
  BY DEF CodeRequest, CodePhases
<1> HIDE DEF next
<1>3. /\ codeCall' \in [CodeCalls -> CodeRequest]
      /\ codeCall'[c] = next
      /\ \A d \in CodeCalls \ {c} : codeCall'[d] = codeCall[d]
  BY <1>1, <1>2, CallMoves DEF UseInv
<1> QED
  BY <1>1, <1>2, <1>3, ElsewhereKeepsUse DEF UseInv, CodesTypeOK

LEMMA InvalidateUse ==
  ASSUME UseInv, NEW c \in CodeCalls, Invalidate(c)
  PROVE  UseInv'
<1>1. /\ codeCall[c].phase = "invalidating"
      /\ code' = [k \in Codes |-> IF k \in Open(codeCall[c].kind)
                                  THEN [code[k] EXCEPT !.state = "used"] ELSE code[k]]
      /\ Moves(c, "creating")
      /\ UNCHANGED fate
  BY DEF Invalidate
<1>2. "creating" \in CodePhases
  BY DEF CodePhases
<1>3. /\ codeCall' \in [CodeCalls -> CodeRequest]
      /\ codeCall'[c].phase = "creating"
      /\ \A d \in CodeCalls \ {c} : codeCall'[d] = codeCall[d]
  BY <1>1, <1>2, PhaseMoves DEF UseInv
<1>4. \A k \in Codes : code[k] \in CodeRow
  BY DEF UseInv, CodesTypeOK
<1>5. \A k \in Codes : /\ code'[k] \in CodeRow
                       /\ code'[k].state \in {code[k].state, "used"}
  BY <1>1, <1>4 DEF CodeRow
<1>6. code' \in [Codes -> CodeRow]
  BY <1>1, <1>5
<1> QED
  BY <1>1, <1>3, <1>5, <1>6, ElsewhereKeepsUse

(***************************************************************************)
(* The row of one code is written, and the others stay.                    *)
(***************************************************************************)
LEMMA CodeWritten ==
  ASSUME CodesTypeOK, NEW k \in Codes, NEW row \in CodeRow,
         code' = [code EXCEPT ![k] = row]
  PROVE  /\ code' \in [Codes -> CodeRow]
         /\ code'[k] = row
         /\ \A l \in Codes \ {k} : code'[l] = code[l]
  BY DEF CodesTypeOK

LEMMA EndMoves ==
  ASSUME CodesTypeOK, NEW c \in CodeCalls, Ends(c)
  PROVE  /\ codeCall' \in [CodeCalls -> CodeRequest]
         /\ codeCall'[c].phase = "idle"
         /\ \A d \in CodeCalls \ {c} : codeCall'[d] = codeCall[d]
  BY CallMoves, NoRequestType DEF Ends

\* What creating a code writes, for the two invariants
LEMMA CreateWrites ==
  ASSUME UseInv, NEW c \in CodeCalls, NEW k \in Codes,
         codeCall[c].phase = "creating",
         code' = [code EXCEPT ![k] = [FreeCode EXCEPT
                    !.state = "open", !.kind = codeCall[c].kind, !.recent = TRUE]]
  PROVE  /\ code' \in [Codes -> CodeRow]
         /\ code'[k].state = "open" /\ code'[k].tries = 0
         /\ code'[k].kind = codeCall[c].kind
         /\ \A l \in Codes \ {k} : code'[l] = code[l]
<1> DEFINE row == [FreeCode EXCEPT !.state = "open", !.kind = codeCall[c].kind,
                                   !.recent = TRUE]
<1>1. codeCall[c].kind \in Kinds
  BY DEF UseInv, CodesTypeOK, CodeRequest
<1>2. /\ row \in CodeRow
      /\ row.state = "open" /\ row.tries = 0
      /\ row.kind = codeCall[c].kind
  BY <1>1 DEF CodeRow, FreeCode
<1>3. code' = [code EXCEPT ![k] = row]
  OBVIOUS
<1> HIDE DEF row
<1> QED
  BY <1>2, <1>3, CodeWritten DEF UseInv

LEMMA CreateUse ==
  ASSUME UseInv, NEW c \in CodeCalls, CreateCode(c)
  PROVE  UseInv'
<1> PICK k \in Codes :
      /\ codeCall[c].phase = "creating"
      /\ code[k].state = "free"
      /\ code' = [code EXCEPT ![k] = [FreeCode EXCEPT
                    !.state = "open", !.kind = codeCall[c].kind, !.recent = TRUE]]
      /\ Ends(c)
      /\ UNCHANGED fate
  BY DEF CreateCode
<1>1. /\ code' \in [Codes -> CodeRow]
      /\ code'[k].state = "open"
      /\ \A l \in Codes \ {k} : code'[l] = code[l]
  BY CreateWrites
<1>2. /\ codeCall' \in [CodeCalls -> CodeRequest]
      /\ codeCall'[c].phase = "idle"
      /\ \A d \in CodeCalls \ {c} : codeCall'[d] = codeCall[d]
  BY EndMoves DEF UseInv
<1> QED
  BY <1>1, <1>2, ElsewhereKeepsUse

LEMMA CheckUse ==
  ASSUME UseInv, NEW c \in CodeCalls, NEW kind \in Kinds, NEW g, NEW on \in BOOLEAN,
         Check(c, kind, g, on)
  PROVE  UseInv'
<1> PICK k \in Latest(kind) :
      LET right == g = k /\ code[k].kind = kind IN
      /\ codeCall[c].phase = "idle"
      /\ Guessable(k)
      /\ IF right /\ ~on THEN UNCHANGED codeVars ELSE
           /\ codeCall' = [codeCall EXCEPT ![c] =
                [phase |-> IF right THEN "using" ELSE "counting",
                 kind |-> kind, on |-> k]]
           /\ fate' = IF right /\ Using(k) # {} THEN Excused(k) ELSE fate
           /\ UNCHANGED code
  BY DEF Check
<1> DEFINE right == g = k /\ code[k].kind = kind
           next == [phase |-> IF right THEN "using" ELSE "counting",
                    kind |-> kind, on |-> k]
<1>1. k \in Codes /\ code[k].state = "open"
  BY DEF Latest, Open
<1>2. /\ next \in CodeRequest
      /\ next.phase = IF right THEN "using" ELSE "counting"
      /\ next.on = k
  BY <1>1 DEF CodeRequest, CodePhases
<1>3. CASE right /\ ~on
  <2>1. UNCHANGED codeVars
    BY <1>3
  <2> QED
    BY <2>1 DEF codeVars, UseInv, CodesTypeOK, CodeUsedOnce, CallsPlaced, FreeIsUnused,
                OneUser, UsedIsMarked, Using
<1>4. CASE right /\ on
  <2>1. /\ codeCall[c].phase = "idle"
        /\ codeCall' = [codeCall EXCEPT ![c] = next]
        /\ fate' = IF Using(k) # {} THEN Excused(k) ELSE fate
        /\ UNCHANGED code
    BY <1>4
  <2>2. next.phase = "using"
    BY <1>2, <1>4
  <2> HIDE DEF next
  <2> QED
    BY <1>1, <1>2, <2>1, <2>2, EntersUse
<1>5. CASE ~right
  <2>1. /\ codeCall[c].phase = "idle"
        /\ codeCall' = [codeCall EXCEPT ![c] = next]
        /\ UNCHANGED <<code, fate>>
    BY <1>5
  <2>2. next.phase = "counting"
    BY <1>2, <1>5
  <2> HIDE DEF next
  <2>3. /\ codeCall' \in [CodeCalls -> CodeRequest]
        /\ codeCall'[c] = next
        /\ \A d \in CodeCalls \ {c} : codeCall'[d] = codeCall[d]
    BY <1>2, <2>1, CallMoves DEF UseInv
  <2> QED
    BY <1>1, <1>2, <2>1, <2>2, <2>3, ElsewhereKeepsUse DEF UseInv, CodesTypeOK
<1> QED
  BY <1>3, <1>4, <1>5

LEMMA LinkUse ==
  ASSUME UseInv, NEW c \in CodeCalls, NEW k \in Codes, CheckLink(c, k)
  PROVE  UseInv'
<1> DEFINE next == [phase |-> "using", kind |-> "link", on |-> k]
<1>1. next \in CodeRequest /\ next.phase = "using" /\ next.on = k
  BY DEF CodeRequest, CodePhases, Kinds
<1>2. /\ codeCall[c].phase = "idle"
      /\ codeCall' = [codeCall EXCEPT ![c] = next]
      /\ code[k].state = "open"
      /\ fate' = IF Using(k) # {} THEN Excused(k) ELSE fate
      /\ UNCHANGED code
  BY DEF CheckLink
<1> HIDE DEF next
<1> QED
  BY <1>1, <1>2, EntersUse

\* What counting a guess writes, for the two invariants
LEMMA CountWrites ==
  ASSUME UseInv, NEW c \in CodeCalls, CountGuess(c)
  PROVE  LET k == codeCall[c].on IN
         /\ k \in Codes
         /\ code' \in [Codes -> CodeRow]
         /\ code'[k].tries = code[k].tries + 1
         /\ \A l \in Codes \ {k} : code'[l] = code[l]
         /\ \A l \in Codes : /\ code'[l].state = code[l].state
                             /\ code'[l].kind = code[l].kind
                             /\ code'[l].recent = code[l].recent
<1> DEFINE k == codeCall[c].on
           row == [code[k] EXCEPT !.tries = @ + 1]
<1>1. k \in Codes
  BY DEF UseInv, CallsPlaced, CountGuess
<1>2. code[k] \in CodeRow
  BY <1>1 DEF UseInv, CodesTypeOK
<1>3. /\ row \in CodeRow
      /\ row.tries = code[k].tries + 1
      /\ row.state = code[k].state
      /\ row.kind = code[k].kind
      /\ row.recent = code[k].recent
  BY <1>2 DEF CodeRow
<1>4. code' = [code EXCEPT ![k] = row]
  BY DEF CountGuess
<1> HIDE DEF row, k
<1>5. /\ code' \in [Codes -> CodeRow]
      /\ code'[k] = row
      /\ \A l \in Codes \ {k} : code'[l] = code[l]
  BY <1>1, <1>3, <1>4, CodeWritten DEF UseInv
<1> QED
  BY <1>1, <1>3, <1>5 DEF k

LEMMA CountUse ==
  ASSUME UseInv, NEW c \in CodeCalls, CountGuess(c)
  PROVE  UseInv'
<1>1. codeCall[c].phase = "counting" /\ Ends(c) /\ UNCHANGED fate
  BY DEF CountGuess
<1>2. /\ codeCall' \in [CodeCalls -> CodeRequest]
      /\ codeCall'[c].phase = "idle"
      /\ \A d \in CodeCalls \ {c} : codeCall'[d] = codeCall[d]
  BY <1>1, EndMoves DEF UseInv
<1> QED
  BY <1>1, <1>2, CountWrites, ElsewhereKeepsUse

(***************************************************************************)
(* Whoever uses a code is the only one that checked it, unless its fate    *)
(* says so, and leaves it marked.                                          *)
(***************************************************************************)
LEMMA UseUse ==
  ASSUME UseInv, NEW c \in CodeCalls, UseCode(c)
  PROVE  UseInv'
<1> USE DEF UseInv
<1> DEFINE k == codeCall[c].on
<1>1. /\ codeCall[c].phase = "using"
      /\ fate' = [fate EXCEPT ![k] = CASE @ = "unused" -> "used"
                                       [] @ = "used" -> "reused"
                                       [] OTHER -> @]
      /\ Moves(c, "marking")
      /\ UNCHANGED code
  BY DEF UseCode
<1>2. k \in Codes /\ code[k].state # "free" /\ c \in Using(k)
  BY <1>1 DEF CallsPlaced, Using
<1>3. fate[k] \in {"unused", "excused"}
  BY <1>1, <1>2 DEF UsedIsMarked, CodeUsedOnce, CodesTypeOK
<1>4. /\ fate' \in [Codes -> {"unused", "used", "reused", "excused"}]
      /\ fate'[k] = IF fate[k] = "unused" THEN "used" ELSE "excused"
      /\ \A l \in Codes \ {k} : fate'[l] = fate[l]
  <2> HIDE DEF k
  <2> QED
    BY <1>1, <1>2, <1>3 DEF CodesTypeOK
<1>5. "marking" \in CodePhases
  BY DEF CodePhases
<1>6. /\ codeCall' \in [CodeCalls -> CodeRequest]
      /\ codeCall'[c].phase = "marking"
      /\ codeCall'[c].on = k
      /\ \A d \in CodeCalls \ {c} : codeCall'[d] = codeCall[d]
  BY <1>1, <1>5, PhaseMoves
<1> HIDE DEF k
<1>7. CodesTypeOK' /\ CodeUsedOnce' /\ FreeIsUnused'
  BY <1>1, <1>2, <1>4, <1>6 DEF CodesTypeOK, CodeUsedOnce, FreeIsUnused
<1>8. CallsPlaced'
  BY <1>1, <1>2, <1>6 DEF CallsPlaced
<1>9. \A l \in Codes : Using(l)' = Using(l)
  BY <1>1, <1>6 DEF Using, k
<1>10. OneUser'
  BY <1>3, <1>4, <1>9 DEF OneUser
<1>11. UsedIsMarked'
  <2> SUFFICES ASSUME NEW l \in Codes, fate'[l] = "used"
               PROVE  /\ Using(l)' = {} => code'[l].state = "used"
                      /\ \A d \in Using(l)' : codeCall'[d].phase = "marking"
    BY DEF UsedIsMarked
  <2>1. CASE l = k
    <3>1. fate[k] = "unused"
      BY <2>1, <1>3, <1>4
    <3>2. \A d \in Using(k) : d = c
      BY <1>2, <3>1 DEF OneUser
    <3> QED
      BY <2>1, <3>2, <1>2, <1>6, <1>9
  <2>2. CASE l # k
    <3>1. fate[l] = "used" /\ c \notin Using(l)
      BY <2>2, <1>4 DEF Using, k
    <3>2. \A d \in Using(l) : codeCall'[d] = codeCall[d]
      BY <3>1, <1>6 DEF Using
    <3> QED
      BY <3>1, <3>2, <1>1, <1>9 DEF UsedIsMarked
  <2> QED
    BY <2>1, <2>2
<1> QED
  BY <1>7, <1>8, <1>10, <1>11

\* What marking a code writes
LEMMA MarkUse ==
  ASSUME UseInv, NEW c \in CodeCalls, MarkUsed(c)
  PROVE  UseInv'
<1> USE DEF UseInv
<1> DEFINE k == codeCall[c].on
           row == [code[k] EXCEPT !.state = "used"]
<1>1. /\ codeCall[c].phase = "marking"
      /\ code' = [code EXCEPT ![k] = row]
      /\ IF codeCall[c].kind = "login" THEN Ends(c) ELSE Moves(c, "clearing")
      /\ UNCHANGED fate
  BY DEF MarkUsed
<1>2. k \in Codes /\ code[k].state # "free"
  BY <1>1 DEF CallsPlaced
<1>3. code[k] \in CodeRow
  BY <1>2 DEF CodesTypeOK
<1>4. row \in CodeRow /\ row.state = "used"
  BY <1>3 DEF CodeRow
<1> HIDE DEF row, k
<1>5. /\ code' \in [Codes -> CodeRow]
      /\ code'[k].state = "used"
      /\ \A l \in Codes \ {k} : code'[l] = code[l]
  BY <1>1, <1>2, <1>4, CodeWritten
<1>6. "clearing" \in CodePhases
  BY DEF CodePhases
<1>7. /\ codeCall' \in [CodeCalls -> CodeRequest]
      /\ codeCall'[c].phase \in {"idle", "clearing"}
      /\ \A d \in CodeCalls \ {c} : codeCall'[d] = codeCall[d]
  BY <1>1, <1>6, EndMoves, PhaseMoves
<1>8. CodesTypeOK' /\ CodeUsedOnce' /\ FreeIsUnused'
  BY <1>1, <1>2, <1>5, <1>7 DEF CodesTypeOK, CodeUsedOnce, FreeIsUnused
<1>9. CallsPlaced'
  BY <1>2, <1>5, <1>7 DEF CallsPlaced
<1>10. \A l \in Codes : Using(l)' = Using(l) \ {c}
  BY <1>7 DEF Using
<1>11. OneUser'
  BY <1>1, <1>10 DEF OneUser
<1>12. UsedIsMarked'
  <2> SUFFICES ASSUME NEW l \in Codes, fate[l] = "used"
               PROVE  /\ Using(l)' = {} => code'[l].state = "used"
                      /\ \A d \in Using(l)' : codeCall'[d].phase = "marking"
    BY <1>1 DEF UsedIsMarked
  <2>1. \A d \in Using(l)' : codeCall'[d] = codeCall[d] /\ d \in Using(l)
    BY <1>7, <1>10 DEF Using
  <2>2. l # k => Using(l)' = Using(l)
    BY <1>10 DEF Using, k
  <2> QED
    BY <2>1, <2>2, <1>5 DEF UsedIsMarked
<1> QED
  BY <1>8, <1>9, <1>11, <1>12

\* A request that ends without marking the code it used says so
LEMMA EndUse ==
  ASSUME UseInv, NEW c \in CodeCalls, ClearSessions(c) \/ CodeCallFails(c)
  PROVE  UseInv'
<1> USE DEF UseInv
<1> DEFINE k == codeCall[c].on
<1>1. /\ Ends(c) /\ UNCHANGED code
      /\ fate' = IF codeCall[c].phase = "marking" THEN Excused(k) ELSE fate
  BY DEF ClearSessions, CodeCallFails
<1>2. /\ codeCall' \in [CodeCalls -> CodeRequest]
      /\ codeCall'[c].phase = "idle"
      /\ \A d \in CodeCalls \ {c} : codeCall'[d] = codeCall[d]
  BY <1>1, EndMoves
<1>3. CASE codeCall[c].phase # "marking"
  BY <1>1, <1>2, <1>3, ElsewhereKeepsUse DEF CodesTypeOK
<1>4. CASE codeCall[c].phase = "marking"
  <2>1. k \in Codes /\ code[k].state # "free"
    BY <1>4 DEF CallsPlaced
  <2> HIDE DEF k
  <2>2. /\ fate' \in [Codes -> {"unused", "used", "reused", "excused"}]
        /\ fate'[k] = "excused"
        /\ \A l \in Codes \ {k} : fate'[l] = fate[l]
    BY <1>1, <1>4, <2>1 DEF Excused, CodesTypeOK
  <2>3. CodesTypeOK' /\ CodeUsedOnce' /\ FreeIsUnused' /\ CallsPlaced'
    BY <1>1, <1>2, <2>1, <2>2 DEF CodesTypeOK, CodeUsedOnce, FreeIsUnused, CallsPlaced
  <2>4. \A l \in Codes \ {k} :
          Using(l)' = Using(l) /\ \A d \in Using(l) : codeCall'[d] = codeCall[d]
    BY <1>2 DEF Using, k
  <2>5. OneUser' /\ UsedIsMarked'
    BY <1>1, <2>2, <2>4 DEF OneUser, UsedIsMarked
  <2> QED
    BY <2>3, <2>5
<1> QED
  BY <1>3, <1>4

\* What the passing of time writes, for the two invariants
LEMMA TimeWrites ==
  ASSUME UseInv, NEW k \in Codes, CodeExpires(k) \/ HourPasses(k)
  PROVE  /\ code' \in [Codes -> CodeRow]
         /\ \A l \in Codes : /\ code'[l].state = code[l].state
                             /\ code'[l].tries = code[l].tries
                             /\ code'[l].kind = code[l].kind
                             /\ code'[l].recent => code[l].recent
<1>1. code[k] \in CodeRow
  BY DEF UseInv, CodesTypeOK
<1>2. CASE CodeExpires(k)
  <2> DEFINE row == [code[k] EXCEPT !.over = TRUE]
  <2>1. /\ row \in CodeRow
        /\ row.state = code[k].state /\ row.tries = code[k].tries
        /\ row.kind = code[k].kind /\ row.recent = code[k].recent
    BY <1>1 DEF CodeRow
  <2>2. code' = [code EXCEPT ![k] = row]
    BY <1>2 DEF CodeExpires
  <2> HIDE DEF row
  <2> QED
    BY <2>1, <2>2, CodeWritten DEF UseInv
<1>3. CASE HourPasses(k)
  <2> DEFINE row == [code[k] EXCEPT !.recent = FALSE]
  <2>1. /\ row \in CodeRow
        /\ row.state = code[k].state /\ row.tries = code[k].tries
        /\ row.kind = code[k].kind /\ row.recent = FALSE
    BY <1>1 DEF CodeRow
  <2>2. code' = [code EXCEPT ![k] = row]
    BY <1>3 DEF HourPasses
  <2> HIDE DEF row
  <2> QED
    BY <2>1, <2>2, CodeWritten DEF UseInv
<1> QED
  BY <1>2, <1>3

LEMMA TimeUse ==
  ASSUME UseInv, NEW k \in Codes, CodeExpires(k) \/ HourPasses(k)
  PROVE  UseInv'
<1>1. UNCHANGED <<codeCall, fate>>
  BY DEF CodeExpires, HourPasses
<1>2. codeCall' \in [CodeCalls -> CodeRequest]
  BY <1>1 DEF UseInv, CodesTypeOK
<1> QED
  BY <1>1, <1>2, TimeWrites, ElsewhereKeepsUse

LEMMA StandingUse ==
  ASSUME UseInv, UNCHANGED codeVars
  PROVE  UseInv'
  BY DEF codeVars, UseInv, CodesTypeOK, CodeUsedOnce, CallsPlaced, FreeIsUnused, OneUser,
         UsedIsMarked, Using

LEMMA NextUse == UseInv /\ [CodesNext]_codeVars => UseInv'
<1> SUFFICES ASSUME UseInv, [CodesNext]_codeVars PROVE UseInv'
  OBVIOUS
<1>1. ASSUME NEW c \in CodeCalls,
             \/ \E kind \in Kinds : SendCount(c, kind)
             \/ Invalidate(c) \/ CreateCode(c)
             \/ \E kind \in Kinds \ {"link"}, g \in Codes \cup {NoCode}, on \in BOOLEAN :
                  Check(c, kind, g, on \/ kind = "login")
             \/ \E k \in Codes : CheckLink(c, k)
             \/ CountGuess(c) \/ UseCode(c) \/ MarkUsed(c) \/ ClearSessions(c)
             \/ CodeCallFails(c)
      PROVE  UseInv'
  BY <1>1, SendUse, InvalidateUse, CreateUse, CheckUse, LinkUse, CountUse, UseUse, MarkUse,
     EndUse
<1>2. ASSUME NEW k \in Codes, CodeExpires(k) \/ HourPasses(k)
      PROVE  UseInv'
  BY <1>2, TimeUse
<1>3. CASE UNCHANGED codeVars
  BY <1>3, StandingUse
<1> QED
  BY <1>1, <1>2, <1>3 DEF CodesNext, CodesNextOf

-----------------------------------------------------------------------------
(***************************************************************************)
(* The limits.                                                             *)
(***************************************************************************)
LEMMA PlacesFinite ==
  ASSUME NEW k
  PROVE  /\ IsFiniteSet(Counting(k)) /\ IsFiniteSet(Sending) /\ IsFiniteSet(RecentLogins)
         /\ Cardinality(Counting(k)) \in Nat /\ Cardinality(Sending) \in Nat
         /\ Cardinality(RecentLogins) \in Nat /\ Cardinality(CodeCalls) \in Nat
         /\ Cardinality(Counting(k)) <= Cardinality(CodeCalls)
         /\ Cardinality(Sending) <= Cardinality(CodeCalls)
<1>1. /\ Counting(k) \in SUBSET CodeCalls /\ Sending \in SUBSET CodeCalls
      /\ RecentLogins \in SUBSET Codes
  BY DEF Counting, Sending, RecentLogins
<1>2. IsFiniteSet(Codes)
  BY FS_Interval DEF Codes
<1>3. IsFiniteSet(Counting(k)) /\ IsFiniteSet(Sending) /\ IsFiniteSet(RecentLogins)
  BY <1>1, <1>2, FS_Subset
<1>4. /\ Cardinality(Counting(k)) <= Cardinality(CodeCalls)
      /\ Cardinality(Sending) <= Cardinality(CodeCalls)
  BY <1>1, FS_Subset
<1> QED
  BY <1>3, <1>4, FS_CardinalityType

LEMMA PlacesFinitePrimed ==
  ASSUME NEW k
  PROVE  /\ Cardinality(Counting(k)') \in Nat /\ Cardinality(Sending') \in Nat
         /\ Cardinality(RecentLogins') \in Nat
         /\ Cardinality(Counting(k)') <= Cardinality(CodeCalls)
         /\ Cardinality(Sending') <= Cardinality(CodeCalls)
<1>1. /\ Counting(k)' \in SUBSET CodeCalls /\ Sending' \in SUBSET CodeCalls
      /\ RecentLogins' \in SUBSET Codes
  BY DEF Counting, Sending, RecentLogins
<1>2. IsFiniteSet(Codes)
  BY FS_Interval DEF Codes
<1>3. /\ IsFiniteSet(Counting(k)') /\ IsFiniteSet(Sending')
      /\ IsFiniteSet(RecentLogins')
  BY <1>1, <1>2, FS_Subset
<1>4. /\ Cardinality(Counting(k)') <= Cardinality(CodeCalls)
      /\ Cardinality(Sending') <= Cardinality(CodeCalls)
  BY <1>1, FS_Subset
<1> QED
  BY <1>3, <1>4, FS_CardinalityType

(***************************************************************************)
(* Steps that count no guess and send no code keep the places.             *)
(***************************************************************************)
LEMMA GuessesKept ==
  ASSUME UseInv, GuessesPlaced,
         \A k \in Codes : code'[k].tries = code[k].tries /\ Counting(k)' \subseteq Counting(k)
  PROVE  GuessesPlaced'
<1> SUFFICES ASSUME NEW k \in Codes
             PROVE  code'[k].tries + Cardinality(Counting(k)') + 1
                      <= MaxAttempts + Cardinality(CodeCalls)
  BY DEF GuessesPlaced
<1>1. code[k].tries \in Nat
  BY DEF UseInv, CodesTypeOK, CodeRow
<1>2. Cardinality(Counting(k)') <= Cardinality(Counting(k))
  BY PlacesFinite, FS_Subset
<1>3. code[k].tries + Cardinality(Counting(k)) + 1 <= MaxAttempts + Cardinality(CodeCalls)
  BY DEF GuessesPlaced
<1> QED
  BY <1>1, <1>2, <1>3, PlacesFinite, PlacesFinitePrimed

LEMMA SendsKept ==
  ASSUME SendsPlaced, Sending' \subseteq Sending, RecentLogins' \subseteq RecentLogins
  PROVE  SendsPlaced'
<1>1. /\ Cardinality(Sending') <= Cardinality(Sending)
      /\ Cardinality(RecentLogins') <= Cardinality(RecentLogins)
  BY PlacesFinite, FS_Subset
<1> QED
  BY <1>1, PlacesFinite, PlacesFinitePrimed DEF SendsPlaced

LEMMA InitLimits == CodesInit => LimitInv
<1> SUFFICES ASSUME CodesInit PROVE LimitInv
  OBVIOUS
<1>1. Sending = {} /\ RecentLogins = {} /\ \A k \in Codes : Counting(k) = {}
  BY NoRequestType DEF CodesInit, Sending, RecentLogins, Counting, FreeCode
<1>2. Cardinality({}) = 0 /\ Cardinality(CodeCalls) \in Nat
  BY FS_EmptySet, FS_CardinalityType
<1>3. \A k \in Codes : code[k].tries = 0
  BY DEF CodesInit, FreeCode
<1>4. GuessesPlaced
  BY <1>1, <1>2, <1>3 DEF GuessesPlaced
<1>5. SendsPlaced
  BY <1>1, <1>2 DEF SendsPlaced
<1> QED
  BY <1>4, <1>5 DEF LimitInv

(***************************************************************************)
(* A request takes its place while there is room under the limit.          *)
(***************************************************************************)
LEMMA SendLimits ==
  ASSUME UseInv, LimitInv, NEW c \in CodeCalls, NEW kind \in Kinds, SendCount(c, kind)
  PROVE  LimitInv'
<1> DEFINE next == [phase |-> "invalidating", kind |-> kind, on |-> NoCode]
<1>1. /\ codeCall[c].phase = "idle"
      /\ codeCall' = [codeCall EXCEPT ![c] = next]
      /\ kind # "link" => Cardinality(Recent(kind)) < MaxSends
      /\ UNCHANGED code
  BY DEF SendCount
<1>2. next \in CodeRequest /\ next.phase = "invalidating" /\ next.kind = kind
  BY DEF CodeRequest, CodePhases
<1> HIDE DEF next
<1>3. codeCall'[c] = next /\ \A d \in CodeCalls \ {c} : codeCall'[d] = codeCall[d]
  BY <1>1, <1>2, CallMoves DEF UseInv
<1>4. GuessesPlaced'
  BY <1>1, <1>2, <1>3, GuessesKept DEF LimitInv, Counting
<1>5. RecentLogins' = RecentLogins
  BY <1>1 DEF RecentLogins
<1>6. CASE kind = "login"
  <2>1. Recent(kind) = RecentLogins
    BY <1>6 DEF Recent, RecentLogins, TypeOf
  <2>2. Cardinality(RecentLogins') < MaxSends
    BY <1>1, <1>5, <1>6, <2>1
  <2>3. /\ Cardinality(RecentLogins') \in Nat /\ Cardinality(Sending') \in Nat
        /\ Cardinality(CodeCalls) \in Nat
        /\ Cardinality(Sending') <= Cardinality(CodeCalls)
    BY PlacesFinite, PlacesFinitePrimed
  <2>4. SendsPlaced'
    BY <2>2, <2>3 DEF SendsPlaced
  <2> QED
    BY <1>4, <2>4 DEF LimitInv
<1>7. CASE kind # "login"
  <2>1. Sending' \subseteq Sending
    BY <1>2, <1>3, <1>7 DEF Sending
  <2> QED
    BY <1>4, <1>5, <2>1, SendsKept DEF LimitInv
<1> QED
  BY <1>6, <1>7

LEMMA CheckLimits ==
  ASSUME UseInv, LimitInv, NEW c \in CodeCalls, NEW kind \in Kinds, NEW g, NEW on,
         Check(c, kind, g, on)
  PROVE  LimitInv'
<1> PICK k \in Latest(kind) :
      LET right == g = k /\ code[k].kind = kind IN
      /\ codeCall[c].phase = "idle"
      /\ Guessable(k)
      /\ IF right /\ ~on THEN UNCHANGED codeVars ELSE
           /\ codeCall' = [codeCall EXCEPT ![c] =
                [phase |-> IF right THEN "using" ELSE "counting",
                 kind |-> kind, on |-> k]]
           /\ fate' = IF right /\ Using(k) # {} THEN Excused(k) ELSE fate
           /\ UNCHANGED code
  BY DEF Check
<1> DEFINE right == g = k /\ code[k].kind = kind
           next == [phase |-> IF right THEN "using" ELSE "counting",
                    kind |-> kind, on |-> k]
<1>1. /\ codeCall[c].phase = "idle" /\ Guessable(k) /\ k \in Codes
      /\ codeCall' \in {codeCall, [codeCall EXCEPT ![c] = next]}
      /\ UNCHANGED code
  BY DEF Latest, Open, codeVars
<1>2. next.phase \in {"using", "counting"} /\ next.on = k /\ next \in CodeRequest
  BY <1>1 DEF CodeRequest, CodePhases
<1> HIDE DEF next
<1>3. /\ codeCall'[c] \in {codeCall[c], next}
      /\ \A d \in CodeCalls \ {c} : codeCall'[d] = codeCall[d]
  BY <1>1, <1>2, CallMoves DEF UseInv
<1>4. Sending' \subseteq Sending /\ RecentLogins' \subseteq RecentLogins
  BY <1>1, <1>2, <1>3 DEF Sending, RecentLogins
<1>5. \A l \in Codes \ {k} : Counting(l)' \subseteq Counting(l)
  BY <1>2, <1>3 DEF Counting
<1>6. GuessesPlaced'
  <2> SUFFICES ASSUME NEW l \in Codes
               PROVE  code'[l].tries + Cardinality(Counting(l)') + 1
                        <= MaxAttempts + Cardinality(CodeCalls)
    BY DEF GuessesPlaced
  <2>1. code'[l].tries = code[l].tries /\ code[l].tries \in Nat
    BY <1>1 DEF UseInv, CodesTypeOK, CodeRow
  <2>2. CASE l = k
    <3>1. code[k].tries < MaxAttempts
      BY <1>1 DEF Guessable
    <3>2. /\ Cardinality(Counting(l)') \in Nat /\ Cardinality(CodeCalls) \in Nat
          /\ Cardinality(Counting(l)') <= Cardinality(CodeCalls)
      BY PlacesFinite, PlacesFinitePrimed
    <3> QED
      BY <2>1, <2>2, <3>1, <3>2
  <2>3. CASE l # k
    <3>1. Cardinality(Counting(l)') <= Cardinality(Counting(l))
      BY <1>5, <2>3, PlacesFinite, FS_Subset
    <3>2. code[l].tries + Cardinality(Counting(l)) + 1
            <= MaxAttempts + Cardinality(CodeCalls)
      BY DEF LimitInv, GuessesPlaced
    <3> QED
      BY <2>1, <3>1, <3>2, PlacesFinite, PlacesFinitePrimed
  <2> QED
    BY <2>2, <2>3
<1> QED
  BY <1>4, <1>6, SendsKept DEF LimitInv

(***************************************************************************)
(* It gives its place up for what it counts or creates.                    *)
(***************************************************************************)
LEMMA CreateLimits ==
  ASSUME UseInv, LimitInv, NEW c \in CodeCalls, CreateCode(c)
  PROVE  LimitInv'
<1> PICK k \in Codes :
      /\ codeCall[c].phase = "creating"
      /\ code[k].state = "free"
      /\ code' = [code EXCEPT ![k] = [FreeCode EXCEPT
                    !.state = "open", !.kind = codeCall[c].kind, !.recent = TRUE]]
      /\ Ends(c)
  BY DEF CreateCode
<1>1. /\ code'[k].tries = 0
      /\ code'[k].kind = codeCall[c].kind
      /\ \A l \in Codes \ {k} : code'[l] = code[l]
  BY CreateWrites
<1>2. /\ codeCall'[c].phase = "idle"
      /\ \A d \in CodeCalls \ {c} : codeCall'[d] = codeCall[d]
  BY EndMoves DEF UseInv
<1>3. \A l \in Codes : Counting(l)' \subseteq Counting(l)
  BY <1>2 DEF Counting
<1>4. GuessesPlaced'
  <2> SUFFICES ASSUME NEW l \in Codes
               PROVE  code'[l].tries + Cardinality(Counting(l)') + 1
                        <= MaxAttempts + Cardinality(CodeCalls)
    BY DEF GuessesPlaced
  <2>1. CASE l = k
    <3>1. /\ Cardinality(Counting(l)') \in Nat /\ Cardinality(CodeCalls) \in Nat
          /\ Cardinality(Counting(l)') <= Cardinality(CodeCalls)
      BY PlacesFinite, PlacesFinitePrimed
    <3> QED
      BY <2>1, <3>1, <1>1
  <2>2. CASE l # k
    <3>1. code'[l].tries = code[l].tries /\ code[l].tries \in Nat
      BY <1>1, <2>2 DEF UseInv, CodesTypeOK, CodeRow
    <3>2. Cardinality(Counting(l)') <= Cardinality(Counting(l))
      BY <1>3, PlacesFinite, FS_Subset
    <3>3. code[l].tries + Cardinality(Counting(l)) + 1
            <= MaxAttempts + Cardinality(CodeCalls)
      BY DEF LimitInv, GuessesPlaced
    <3> QED
      BY <3>1, <3>2, <3>3, PlacesFinite, PlacesFinitePrimed
  <2> QED
    BY <2>1, <2>2
<1>5. SendsPlaced'
  <2>1. CASE codeCall[c].kind = "login"
    <3>1. c \in Sending /\ Sending' = Sending \ {c}
      BY <1>2, <2>1 DEF Sending
    <3>2. Cardinality(Sending') = Cardinality(Sending) - 1
      BY <3>1, PlacesFinite, FS_RemoveElement
    <3>3. RecentLogins' \in SUBSET (RecentLogins \cup {k})
      BY <1>1 DEF RecentLogins
    <3>4. /\ IsFiniteSet(RecentLogins \cup {k})
          /\ Cardinality(RecentLogins \cup {k}) =
               IF k \in RecentLogins THEN Cardinality(RecentLogins)
               ELSE Cardinality(RecentLogins) + 1
      <4> HIDE DEF RecentLogins
      <4> QED
        BY PlacesFinite, FS_AddElement
    <3>5. Cardinality(RecentLogins') <= Cardinality(RecentLogins \cup {k})
      BY <3>3, <3>4, FS_Subset
    <3>6. Cardinality(RecentLogins) + Cardinality(Sending) + 1
            <= MaxSends + Cardinality(CodeCalls)
      BY DEF LimitInv, SendsPlaced
    <3> QED
      BY <3>2, <3>4, <3>5, <3>6, PlacesFinite, PlacesFinitePrimed DEF SendsPlaced
  <2>2. CASE codeCall[c].kind # "login"
    <3>1. Sending' \subseteq Sending /\ RecentLogins' \subseteq RecentLogins
      BY <1>1, <1>2, <2>2 DEF Sending, RecentLogins
    <3> QED
      BY <3>1, SendsKept DEF LimitInv
  <2> QED
    BY <2>1, <2>2
<1> QED
  BY <1>4, <1>5 DEF LimitInv

LEMMA CountLimits ==
  ASSUME UseInv, LimitInv, NEW c \in CodeCalls, CountGuess(c)
  PROVE  LimitInv'
<1> PICK k \in Codes : k = codeCall[c].on
  BY CountWrites
<1>1. codeCall[c].phase = "counting" /\ Ends(c)
  BY DEF CountGuess
<1>2. /\ codeCall'[c].phase = "idle"
      /\ \A d \in CodeCalls \ {c} : codeCall'[d] = codeCall[d]
  BY <1>1, EndMoves DEF UseInv
<1>3. /\ code'[k].tries = code[k].tries + 1
      /\ \A l \in Codes \ {k} : code'[l] = code[l]
      /\ \A l \in Codes : /\ code'[l].kind = code[l].kind
                          /\ code'[l].recent = code[l].recent
  BY CountWrites
<1>4. c \in Counting(k) /\ Counting(k)' = Counting(k) \ {c}
  BY <1>1, <1>2 DEF Counting
<1>5. \A l \in Codes \ {k} : Counting(l)' = Counting(l)
  BY <1>2 DEF Counting
<1>6. Cardinality(Counting(k)') = Cardinality(Counting(k)) - 1
  <2>1. IsFiniteSet(Counting(k))
    BY PlacesFinite
  <2> HIDE DEF Counting
  <2>2. Cardinality(Counting(k) \ {c}) = Cardinality(Counting(k)) - 1
    BY <1>4, <2>1, FS_RemoveElement
  <2> QED
    BY <1>4, <2>2
<1>7. \A l \in Codes :
        /\ code[l].tries \in Nat
        /\ code[l].tries + Cardinality(Counting(l)) + 1
             <= MaxAttempts + Cardinality(CodeCalls)
  BY DEF LimitInv, GuessesPlaced, UseInv, CodesTypeOK, CodeRow
<1>8. GuessesPlaced'
  <2> SUFFICES ASSUME NEW l \in Codes
               PROVE  code'[l].tries + Cardinality(Counting(l)') + 1
                        <= MaxAttempts + Cardinality(CodeCalls)
    BY DEF GuessesPlaced
  <2>1. CASE l = k
    BY <2>1, <1>3, <1>6, <1>7, PlacesFinite
  <2>2. CASE l # k
    BY <2>2, <1>3, <1>5, <1>7
  <2> QED
    BY <2>1, <2>2
<1>9. Sending' \subseteq Sending /\ RecentLogins' \subseteq RecentLogins
  BY <1>2, <1>3 DEF Sending, RecentLogins
<1> QED
  BY <1>8, <1>9, SendsKept DEF LimitInv

(***************************************************************************)
(* The other steps count no guess and send no code.                        *)
(***************************************************************************)
LEMMA OtherLimits ==
  ASSUME UseInv, LimitInv,
         \/ \E c \in CodeCalls : \/ Invalidate(c) \/ UseCode(c) \/ MarkUsed(c)
                                 \/ ClearSessions(c) \/ CodeCallFails(c)
                                 \/ \E k \in Codes : CheckLink(c, k)
         \/ \E k \in Codes : CodeExpires(k) \/ HourPasses(k)
         \/ UNCHANGED codeVars
  PROVE  LimitInv'
<1> SUFFICES
      /\ \A k \in Codes : /\ code'[k].tries = code[k].tries
                          /\ Counting(k)' \subseteq Counting(k)
      /\ Sending' \subseteq Sending
      /\ RecentLogins' \subseteq RecentLogins
  BY GuessesKept, SendsKept DEF LimitInv
<1>1. ASSUME NEW c \in CodeCalls,
             \/ Invalidate(c) \/ UseCode(c) \/ MarkUsed(c) \/ ClearSessions(c)
             \/ CodeCallFails(c) \/ \E k \in Codes : CheckLink(c, k)
      PROVE  /\ \A d \in CodeCalls \ {c} : codeCall'[d] = codeCall[d]
             /\ codeCall'[c].phase # "counting"
             /\ codeCall'[c].phase \in {"invalidating", "creating"} =>
                  /\ codeCall[c].phase \in {"invalidating", "creating"}
                  /\ codeCall'[c].kind = codeCall[c].kind
             /\ \A k \in Codes : /\ code'[k].tries = code[k].tries
                                 /\ code'[k].kind = code[k].kind
                                 /\ code'[k].recent = code[k].recent
  <2>1. {"creating", "marking", "clearing"} \subseteq CodePhases
    BY DEF CodePhases
  <2>2. \A k \in Codes : code[k] \in CodeRow
    BY DEF UseInv, CodesTypeOK
  <2>3. CASE Invalidate(c)
    <3>1. codeCall[c].phase = "invalidating" /\ Moves(c, "creating")
      BY <2>3 DEF Invalidate
    <3>2. \A k \in Codes : code'[k] \in {code[k], [code[k] EXCEPT !.state = "used"]}
      BY <2>3 DEF Invalidate
    <3> QED
      BY <2>1, <2>2, <3>1, <3>2, PhaseMoves DEF UseInv, CodeRow
  <2>4. CASE UseCode(c)
    BY <2>1, <2>4, PhaseMoves DEF UseCode, UseInv
  <2>5. CASE MarkUsed(c)
    <3>1. /\ codeCall[c].phase = "marking"
          /\ Ends(c) \/ Moves(c, "clearing")
          /\ code' = [code EXCEPT ![codeCall[c].on].state = "used"]
      BY <2>5 DEF MarkUsed
    <3>2. \A k \in Codes : code'[k] \in {code[k], [code[k] EXCEPT !.state = "used"]}
      BY <3>1 DEF UseInv, CodesTypeOK
    <3> QED
      BY <2>1, <2>2, <3>1, <3>2, PhaseMoves, EndMoves DEF UseInv, CodeRow
  <2>6. CASE ClearSessions(c) \/ CodeCallFails(c)
    BY <2>6, EndMoves DEF ClearSessions, CodeCallFails, UseInv
  <2>7. CASE \E k \in Codes : CheckLink(c, k)
    <3> PICK k \in Codes : CheckLink(c, k)
      BY <2>7
    <3> DEFINE next == [phase |-> "using", kind |-> "link", on |-> k]
    <3>1. next \in CodeRequest /\ next.phase = "using"
      BY DEF CodeRequest, CodePhases, Kinds
    <3>2. codeCall' = [codeCall EXCEPT ![c] = next] /\ UNCHANGED code
      BY DEF CheckLink
    <3> HIDE DEF next
    <3> QED
      BY <3>1, <3>2, CallMoves DEF UseInv
  <2> QED
    BY <1>1, <2>3, <2>4, <2>5, <2>6, <2>7
<1>2. CASE \E c \in CodeCalls : \/ Invalidate(c) \/ UseCode(c) \/ MarkUsed(c)
                                \/ ClearSessions(c) \/ CodeCallFails(c)
                                \/ \E k \in Codes : CheckLink(c, k)
  BY <1>1, <1>2 DEF Counting, Sending, RecentLogins
<1>3. CASE \E k \in Codes : CodeExpires(k) \/ HourPasses(k)
  <2>1. UNCHANGED codeCall
    BY <1>3 DEF CodeExpires, HourPasses
  <2> QED
    BY <1>3, <2>1, TimeWrites DEF Counting, Sending, RecentLogins
<1>4. CASE UNCHANGED codeVars
  BY <1>4 DEF codeVars, Counting, Sending, RecentLogins
<1> QED
  BY <1>2, <1>3, <1>4

LEMMA NextLimits == UseInv /\ LimitInv /\ [CodesNext]_codeVars => LimitInv'
<1> SUFFICES ASSUME UseInv, LimitInv, [CodesNext]_codeVars PROVE LimitInv'
  OBVIOUS
<1>1. ASSUME NEW c \in CodeCalls,
             \/ \E kind \in Kinds : SendCount(c, kind)
             \/ CreateCode(c)
             \/ \E kind \in Kinds \ {"link"}, g \in Codes \cup {NoCode}, on \in BOOLEAN :
                  Check(c, kind, g, on \/ kind = "login")
             \/ CountGuess(c)
      PROVE  LimitInv'
  BY <1>1, SendLimits, CreateLimits, CheckLimits, CountLimits
<1> QED
  BY <1>1, OtherLimits DEF CodesNext, CodesNextOf

-----------------------------------------------------------------------------
(***************************************************************************)
(* No code signs in, or sets a password, twice, unless two requests had    *)
(* checked it at once or one was lost before it marked it (verifyOtp,      *)
(* completePasswordSetup).                                                 *)
(***************************************************************************)
THEOREM CodesUsedOnce == CodesSpec => []CodeUsedOnce
<1>1. UseInv => CodeUsedOnce
  BY DEF UseInv
<1> QED
  BY InitUse, NextUse, <1>1, PTL DEF CodesSpec

(***************************************************************************)
(* Both limits of one-time codes hold up to the requests that run at once  *)
(* (sendOtp, verifyOtp, assertValidPasswordResetOtp).                      *)
(***************************************************************************)
THEOREM LimitsHold == CodesSpec => []CodesLimited
<1>1. UseInv /\ LimitInv => CodesLimited
  <2> SUFFICES ASSUME UseInv, LimitInv PROVE CodesLimited
    OBVIOUS
  <2>1. GuessesBounded
    <3> SUFFICES ASSUME NEW k \in Codes
                 PROVE  code[k].tries + 1 <= MaxAttempts + Cardinality(CodeCalls)
      BY DEF GuessesBounded
    <3>1. code[k].tries \in Nat
      BY DEF UseInv, CodesTypeOK, CodeRow
    <3> QED
      BY <3>1, PlacesFinite DEF LimitInv, GuessesPlaced
  <2>2. SendsBounded
    BY PlacesFinite DEF LimitInv, SendsPlaced, SendsBounded, RecentLogins
  <2> QED
    BY <2>1, <2>2 DEF CodesLimited
<1> QED
  BY InitUse, NextUse, InitLimits, NextLimits, <1>1, PTL DEF CodesSpec

-----------------------------------------------------------------------------
(***************************************************************************)
(* The desktop sign-in implements HandOver, for any number of attempts,    *)
(* logins, callbacks and polls.                                            *)
(*                                                                         *)
(* Not the status of an attempt but consumedAt makes the hand-over happen  *)
(* once: callbacks may set the status back and forth, but none clears the  *)
(* mark, and the statement that sets it succeeds for one poll only.        *)
(***************************************************************************)

HIDE SignInCodesAssumption
USE DesktopAssumption

Holding(p) == poll[p].phase \in {"consuming", "answering"}

Answering(p) == poll[p].phase = "answering"

(***************************************************************************)
(* What is stored, or carried by a callback or a poll, was made for the    *)
(* attempt it is stored with, or carried for.                              *)
(***************************************************************************)
MadeForIt ==
  /\ \A a \in Attempts :
       attempt[a].status = "COMPLETED" => attempt[a].payload \in made[a]
  /\ \A c \in Callbacks :
       callback[c].phase = "storing" => callback[c].login \in made[callback[c].of]
  /\ \A p \in Polls : Holding(p) => poll[p].login \in made[poll[p].of]

(***************************************************************************)
(* Whoever may answer has consumed the attempt, alone and for the first    *)
(* time.                                                                   *)
(***************************************************************************)
AnswersOnce ==
  /\ \A g \in given : attempt[g[1]].consumed
  /\ \A p \in Polls : Answering(p) =>
       /\ attempt[poll[p].of].consumed
       /\ \A g \in given : g[1] # poll[p].of
       /\ \A q \in Polls : Answering(q) /\ poll[q].of = poll[p].of => q = p

DesktopInv == DesktopTypeOK /\ MadeForIt /\ AnswersOnce

-----------------------------------------------------------------------------
LEMMA AtRestType ==
  /\ AtRest.of \in Attempts
  /\ AtRest \in Callback
  /\ AtRest \in Poll
  /\ AtRest.phase = "idle"
  BY DEF AtRest, Callback, Poll

(***************************************************************************)
(* Writing one column of an attempt keeps the others.                      *)
(***************************************************************************)
LEMMA StatusWritten ==
  ASSUME DesktopTypeOK, NEW a \in Attempts,
         NEW st \in {"PENDING", "FAILED", "EXPIRED"},
         attempt' = [attempt EXCEPT ![a].status = st]
  PROVE  /\ attempt' \in [Attempts -> AttemptRow]
         /\ \A b \in Attempts :
              /\ attempt'[b].consumed = attempt[b].consumed
              /\ attempt'[b].payload = attempt[b].payload
              /\ attempt'[b].status = "COMPLETED" => attempt[b].status = "COMPLETED"
         /\ attempt'[a].status = st
         /\ \A b \in Attempts \ {a} : attempt'[b] = attempt[b]
<1> DEFINE row == [attempt[a] EXCEPT !.status = st]
<1>1. attempt[a] \in AttemptRow /\ \A b \in Attempts : attempt[b] \in AttemptRow
  BY DEF DesktopTypeOK
<1>2. /\ row \in AttemptRow
      /\ row.consumed = attempt[a].consumed
      /\ row.payload = attempt[a].payload
      /\ row.status = st
  BY <1>1 DEF AttemptRow
<1>3. attempt' = [attempt EXCEPT ![a] = row]
  OBVIOUS
<1> HIDE DEF row
<1> QED
  BY <1>2, <1>3 DEF DesktopTypeOK

LEMMA InitInv == DesktopInit => DesktopInv
<1> SUFFICES ASSUME DesktopInit PROVE DesktopInv
  OBVIOUS
<1> USE DEF DesktopInit
<1>1. DesktopTypeOK
  BY AtRestType DEF DesktopTypeOK, AttemptRow, NoAttempt
<1>2. MadeForIt
  BY AtRestType DEF MadeForIt, Holding, NoAttempt
<1>3. AnswersOnce
  BY AtRestType DEF AnswersOnce, Answering
<1> QED
  BY <1>1, <1>2, <1>3 DEF DesktopInv

-----------------------------------------------------------------------------
(***************************************************************************)
(* Each group of actions keeps the invariant and is a step of HandOver, or *)
(* none.  The application and the clock leave consumed and payload alone.  *)
(***************************************************************************)
HandOverStep == [Promise!HandOverNext]_(Promise!handOverVars)

LEMMA Stutters == UNCHANGED <<made, given>> => HandOverStep
  BY DEF HandOverStep, Promise!handOverVars

LEMMA AttemptStep ==
  ASSUME DesktopInv, NEW a \in Attempts, StartAttempt(a) \/ AttemptTimesOut(a)
  PROVE  DesktopInv' /\ HandOverStep
<1> USE DEF DesktopInv, DesktopTypeOK
<1>0. UNCHANGED <<callback, poll, made, given>>
  BY DEF StartAttempt, AttemptTimesOut
<1>1. /\ attempt' \in [Attempts -> AttemptRow]
      /\ \A b \in Attempts :
           /\ attempt'[b].consumed = attempt[b].consumed
           /\ attempt'[b].payload = attempt[b].payload
           /\ attempt'[b].status = "COMPLETED" => attempt[b].status = "COMPLETED"
  <2>1. CASE StartAttempt(a)
    BY <2>1, StatusWritten DEF StartAttempt
  <2>2. CASE AttemptTimesOut(a)
    <3>1. attempt' = [attempt EXCEPT ![a] = [attempt[a] EXCEPT !.over = TRUE]]
      BY <2>2 DEF AttemptTimesOut
    <3>2. [attempt[a] EXCEPT !.over = TRUE] \in AttemptRow
      BY DEF AttemptRow
    <3> QED
      BY <3>1, <3>2 DEF AttemptRow
  <2> QED
    BY <2>1, <2>2
<1>3. MadeForIt'
  BY <1>0, <1>1 DEF MadeForIt, Holding
<1>4. AnswersOnce'
  BY <1>0, <1>1 DEF AnswersOnce, Answering, Poll
<1> QED
  BY <1>0, <1>1, <1>3, <1>4, Stutters

(***************************************************************************)
(* The browser: a login is made before it is stored, and no statement of   *)
(* the callback clears consumed.                                           *)
(***************************************************************************)
LEMMA CallbackStep ==
  ASSUME DesktopInv, NEW c \in Callbacks,
         \/ \E a \in Attempts, x \in {"code", "error"} : CallbackArrives(c, a, x)
         \/ \E s \in Logins : CallbackSignsIn(c, s)
         \/ CallbackIsRefused(c) \/ CallbackWrites(c) \/ CallbackLost(c)
  PROVE  DesktopInv' /\ HandOverStep
<1> USE DEF DesktopInv, DesktopTypeOK
<1>1. CASE \/ \E a \in Attempts, x \in {"code", "error"} : CallbackArrives(c, a, x)
           \/ CallbackIsRefused(c) \/ CallbackLost(c)
  <2>0. UNCHANGED <<attempt, poll, made, given>>
    BY <1>1 DEF CallbackArrives, CallbackIsRefused, CallbackLost
  <2>1. /\ callback' \in [Callbacks -> Callback]
        /\ callback'[c].phase # "storing"
        /\ \A d \in Callbacks \ {c} : callback'[d] = callback[d]
    BY <1>1, AtRestType
       DEF CallbackArrives, CallbackIsRefused, CallbackLost, Callback
  <2>2. MadeForIt'
    BY <2>0, <2>1 DEF MadeForIt, Holding
  <2>3. AnswersOnce'
    BY <2>0 DEF AnswersOnce, Answering
  <2> QED
    BY <2>0, <2>1, <2>2, <2>3, Stutters
<1>2. ASSUME NEW s \in Logins, CallbackSignsIn(c, s)
      PROVE  DesktopInv' /\ HandOverStep
  <2> DEFINE a == callback[c].of
  <2>0. /\ UNCHANGED <<attempt, poll, given>>
        /\ a \in Attempts
        /\ \A b \in Attempts : s \notin made[b]
        /\ made' = [made EXCEPT ![a] = @ \cup {s}]
    BY <1>2 DEF CallbackSignsIn, Callback
  <2>1. /\ made' \in [Attempts -> SUBSET Logins]
        /\ \A b \in Attempts : made[b] \subseteq made'[b]
        /\ s \in made'[a]
    BY <2>0
  <2>2. /\ callback' \in [Callbacks -> Callback]
        /\ callback'[c].of = a /\ callback'[c].login = s
        /\ \A d \in Callbacks \ {c} : callback'[d] = callback[d]
    BY <1>2 DEF CallbackSignsIn, Callback
  <2>3. MadeForIt'
    BY <2>0, <2>1, <2>2 DEF MadeForIt, Holding, Callback, Poll
  <2>4. AnswersOnce'
    BY <2>0 DEF AnswersOnce, Answering
  <2>5. Promise!Make(a, s)
    BY <2>0 DEF Promise!Make
  <2>6. HandOverStep
    BY <2>0, <2>5 DEF HandOverStep, Promise!HandOverNext
  <2> QED
    BY <2>0, <2>1, <2>2, <2>3, <2>4, <2>6
<1>3. CASE CallbackWrites(c)
  <2> DEFINE a == callback[c].of
  <2>0. /\ UNCHANGED <<poll, made, given>>
        /\ a \in Attempts
        /\ callback[c].phase = "storing" => callback[c].login \in made[a]
    BY <1>3 DEF CallbackWrites, Callback, MadeForIt
  <2>1. /\ attempt' \in [Attempts -> AttemptRow]
        /\ \A b \in Attempts : attempt'[b].consumed = attempt[b].consumed
        /\ \A b \in Attempts \ {a} : attempt'[b] = attempt[b]
        /\ attempt'[a].status = "COMPLETED" =>
             callback[c].phase = "storing" /\ attempt'[a].payload = callback[c].login
    <3>1. CASE callback[c].phase = "storing"
      <4> DEFINE row == [attempt[a] EXCEPT !.status = "COMPLETED",
                                           !.payload = callback[c].login]
      <4>1. attempt' = [attempt EXCEPT ![a] = row]
        BY <1>3, <3>1, <2>0 DEF CallbackWrites
      <4>2. callback[c].login \in Logins /\ attempt[a] \in AttemptRow
        BY <2>0, <3>1
      <4>3. /\ row \in AttemptRow
            /\ row.consumed = attempt[a].consumed
            /\ row.payload = callback[c].login
        BY <4>2 DEF AttemptRow
      <4> HIDE DEF row
      <4> QED
        BY <2>0, <3>1, <4>1, <4>3
    <3>2. CASE callback[c].phase = "failing"
      <4>1. attempt' = [attempt EXCEPT ![a].status = "FAILED"]
        BY <1>3, <3>2 DEF CallbackWrites
      <4> QED
        BY <2>0, <4>1, StatusWritten
    <3>3. CASE callback[c].phase = "expiring"
      <4>1. attempt' = [attempt EXCEPT ![a].status = "EXPIRED"]
        BY <1>3, <3>3 DEF CallbackWrites
      <4> QED
        BY <2>0, <4>1, StatusWritten
    <3> QED
      BY <1>3, <3>1, <3>2, <3>3 DEF CallbackWrites
  <2>2. /\ callback' \in [Callbacks -> Callback]
        /\ callback'[c].phase # "storing"
        /\ \A d \in Callbacks \ {c} : callback'[d] = callback[d]
    BY <1>3, AtRestType DEF CallbackWrites, Callback
  <2>3. MadeForIt'
    BY <2>0, <2>1, <2>2 DEF MadeForIt, Holding
  <2>4. AnswersOnce'
    BY <2>0, <2>1 DEF AnswersOnce, Answering, Poll
  <2> QED
    BY <2>0, <2>1, <2>2, <2>3, <2>4, Stutters
<1> QED
  BY <1>1, <1>2, <1>3

(***************************************************************************)
(* The polls: one that was refused or lost no longer answers; one that     *)
(* consumes finds the attempt as nobody has answered for it.               *)
(***************************************************************************)
LEMMA PollStep ==
  ASSUME DesktopInv, NEW p \in Polls,
         \/ \E a \in Attempts : PollReads(p, a)
         \/ PollExpires(p) \/ PollConsumes(p) \/ PollAnswers(p) \/ PollLost(p)
  PROVE  DesktopInv' /\ HandOverStep
<1> USE DEF DesktopInv, DesktopTypeOK
<1>1. ASSUME NEW a \in Attempts, PollReads(p, a)
      PROVE  DesktopInv' /\ HandOverStep
  <2>0. UNCHANGED <<attempt, callback, made, given>>
    BY <1>1 DEF PollReads
  <2>1. /\ poll' \in [Polls -> Poll]
        /\ ~Answering(p)'
        /\ poll'[p].phase = "consuming" =>
             poll'[p].of = a /\ poll'[p].login \in made[a]
        /\ \A q \in Polls \ {p} : poll'[q] = poll[q]
    <3>1. CASE Overdue(a) /\ poll' = [poll EXCEPT ![p] =
                 [phase |-> "expiring", of |-> a, login |-> NoLogin]]
      BY <3>1 DEF Poll, Answering
    <3>2. CASE /\ attempt[a].status = "COMPLETED"
               /\ poll' = [poll EXCEPT ![p] =
                    [phase |-> "consuming", of |-> a, login |-> attempt[a].payload]]
      <4>1. attempt[a].payload \in made[a] /\ attempt[a].payload \in Logins
        BY <3>2 DEF MadeForIt
      <4> QED
        BY <3>2, <4>1 DEF Poll, Answering
    <3> QED
      BY <1>1, <3>1, <3>2 DEF PollReads
  <2>2. MadeForIt'
    BY <2>0, <2>1 DEF MadeForIt, Holding, Answering
  <2>3. AnswersOnce'
    BY <2>0, <2>1 DEF AnswersOnce, Answering
  <2> QED
    BY <2>0, <2>1, <2>2, <2>3, Stutters
<1>2. CASE PollExpires(p) \/ PollLost(p)
  <2>0. UNCHANGED <<callback, made, given>>
    BY <1>2 DEF PollExpires, PollLost
  <2>1. /\ attempt' \in [Attempts -> AttemptRow]
        /\ \A a \in Attempts :
             /\ attempt'[a].consumed = attempt[a].consumed
             /\ attempt'[a].payload = attempt[a].payload
             /\ attempt'[a].status = "COMPLETED" => attempt[a].status = "COMPLETED"
    <3>1. CASE PollExpires(p)
      <4>1. poll[p].of \in Attempts
        BY DEF Poll
      <4>2. attempt' = [attempt EXCEPT ![poll[p].of].status = "EXPIRED"]
        BY <3>1 DEF PollExpires
      <4> QED
        BY <4>1, <4>2, StatusWritten
    <3>2. CASE PollLost(p)
      BY <3>2 DEF PollLost
    <3> QED
      BY <1>2, <3>1, <3>2
  <2>2. /\ poll' \in [Polls -> Poll]
        /\ poll'[p].phase = "idle"
        /\ \A q \in Polls \ {p} : poll'[q] = poll[q]
    BY <1>2, AtRestType DEF PollExpires, PollLost
  <2>3. MadeForIt'
    BY <2>0, <2>1, <2>2 DEF MadeForIt, Holding
  <2>4. AnswersOnce'
    <3>1. \A g \in given' : attempt'[g[1]].consumed
      BY <2>0, <2>1 DEF AnswersOnce
    <3>2. \A q \in Polls : Answering(q)' =>
            Answering(q) /\ poll'[q].of = poll[q].of /\ poll[q].of \in Attempts
      BY <2>2 DEF Answering, Poll
    <3> QED
      BY <2>0, <2>1, <3>1, <3>2 DEF AnswersOnce, Answering
  <2> QED
    BY <2>0, <2>1, <2>2, <2>3, <2>4, Stutters
<1>3. CASE PollConsumes(p)
  <2> DEFINE a == poll[p].of
  <2>0. UNCHANGED <<callback, made, given>> /\ a \in Attempts
    BY <1>3 DEF PollConsumes, Poll
  <2>1. /\ attempt' \in [Attempts -> AttemptRow]
        /\ \A b \in Attempts :
             /\ attempt[b].consumed => attempt'[b].consumed
             /\ attempt'[b].payload = attempt[b].payload
             /\ attempt'[b].status = attempt[b].status
    <3>1. CASE Consumable(attempt[a])
      <4>1. attempt' = [attempt EXCEPT ![a] = [attempt[a] EXCEPT !.consumed = TRUE]]
        BY <1>3, <3>1 DEF PollConsumes
      <4>2. attempt[a] \in AttemptRow
        BY <2>0
      <4>3. [attempt[a] EXCEPT !.consumed = TRUE] \in AttemptRow
        BY <4>2 DEF AttemptRow
      <4> QED
        BY <2>0, <4>1, <4>3 DEF AttemptRow
    <3>2. CASE ~Consumable(attempt[a])
      BY <1>3, <3>2 DEF PollConsumes
    <3> QED
      BY <3>1, <3>2
  <2>2. /\ poll' \in [Polls -> Poll]
        /\ \A q \in Polls \ {p} : poll'[q] = poll[q]
        /\ Holding(p)' => poll'[p].of = a /\ poll'[p].login = poll[p].login
        /\ Answering(p)' => ~attempt[a].consumed /\ attempt'[a].consumed
                            /\ poll'[p].of = a
    BY <1>3, <2>0, AtRestType
       DEF PollConsumes, Consumable, Poll, Holding, Answering, AttemptRow
  <2>3. poll[p].login \in made[a]
    BY <1>3 DEF PollConsumes, MadeForIt, Holding
  <2>4. MadeForIt'
    BY <2>0, <2>1, <2>2, <2>3 DEF MadeForIt, Holding
  <2>5. ASSUME Answering(p)'
        PROVE  /\ \A g \in given : g[1] # a
               /\ \A q \in Polls : Answering(q) => poll[q].of # a
    BY <2>2, <2>5 DEF AnswersOnce, Answering
  <2>6. AnswersOnce'
    <3>1. \A g \in given' : attempt'[g[1]].consumed
      BY <2>0, <2>1 DEF AnswersOnce
    <3>2. ASSUME NEW q \in Polls, Answering(q)'
          PROVE  /\ attempt'[poll'[q].of].consumed
                 /\ \A g \in given' : g[1] # poll'[q].of
                 /\ \A r \in Polls : Answering(r)' /\ poll'[r].of = poll'[q].of => r = q
      <4>1. \A r \in Polls : poll[r].of \in Attempts /\ poll'[r].of \in Attempts
        BY <2>2 DEF Poll
      <4>2. CASE q = p
        <5>1. \A r \in Polls \ {p} : Answering(r)' => poll'[r].of # a
          BY <2>2, <2>5, <3>2, <4>2 DEF Answering
        <5> QED
          BY <2>0, <2>2, <2>5, <3>2, <4>2, <5>1
      <4>3. CASE q # p
        <5>1. Answering(q) /\ poll'[q].of = poll[q].of
          BY <2>2, <3>2, <4>3 DEF Answering
        <5>2. /\ attempt[poll[q].of].consumed
              /\ \A g \in given : g[1] # poll[q].of
              /\ \A r \in Polls : Answering(r) /\ poll[r].of = poll[q].of => r = q
          BY <5>1 DEF AnswersOnce
        <5>3. \A r \in Polls \ {p} : Answering(r)' => Answering(r) /\ poll'[r].of = poll[r].of
          BY <2>2 DEF Answering
        <5>4. Answering(p)' => poll'[p].of # poll[q].of
          BY <2>5, <5>1, <2>2
        <5> QED
          BY <2>0, <2>1, <4>1, <5>1, <5>2, <5>3, <5>4
      <4> QED
        BY <4>2, <4>3
    <3> QED
      BY <3>1, <3>2 DEF AnswersOnce
  <2> QED
    BY <2>0, <2>1, <2>2, <2>4, <2>6, Stutters
<1>4. CASE PollAnswers(p)
  <2> DEFINE a == poll[p].of
             s == poll[p].login
  <2>0. /\ UNCHANGED <<attempt, callback, made>>
        /\ given' = given \cup {<<a, s>>}
        /\ a \in Attempts
    BY <1>4 DEF PollAnswers, Poll
  <2>1. /\ s \in made[a]
        /\ attempt[a].consumed
        /\ \A g \in given : g[1] # a
        /\ \A q \in Polls \ {p} : Answering(q) => poll[q].of # a
    BY <1>4 DEF PollAnswers, MadeForIt, AnswersOnce, Holding, Answering
  <2>2. /\ poll' \in [Polls -> Poll]
        /\ poll'[p].phase = "idle"
        /\ \A q \in Polls \ {p} : poll'[q] = poll[q]
    BY <1>4, AtRestType DEF PollAnswers
  <2>3. given' \subseteq Attempts \X Logins
    BY <2>0, <2>1
  <2>4. MadeForIt'
    BY <2>0, <2>2 DEF MadeForIt, Holding
  <2>5. AnswersOnce'
    BY <2>0, <2>1, <2>2 DEF AnswersOnce, Answering
  <2>6. s \in Logins
    BY <2>0, <2>1
  <2>7. Promise!Give(a, s)
    BY <2>0, <2>1 DEF Promise!Give
  <2>8. HandOverStep
    BY <2>0, <2>6, <2>7 DEF HandOverStep, Promise!HandOverNext
  <2> QED
    BY <2>0, <2>2, <2>3, <2>4, <2>5, <2>8
<1> QED
  BY <1>1, <1>2, <1>3, <1>4

-----------------------------------------------------------------------------
LEMMA NextStep ==
  ASSUME DesktopInv, [DesktopNext]_desktopVars
  PROVE  DesktopInv' /\ HandOverStep
<1>1. CASE DesktopNext
  BY <1>1, AttemptStep, CallbackStep, PollStep DEF DesktopNext
<1>2. CASE UNCHANGED desktopVars
  <2>1. UNCHANGED <<attempt, callback, poll, made, given>>
    BY <1>2 DEF desktopVars
  <2>2. DesktopInv'
    BY <2>1 DEF DesktopInv, DesktopTypeOK, MadeForIt, AnswersOnce, Holding, Answering
  <2> QED
    BY <2>1, <2>2, Stutters
<1> QED
  BY <1>1, <1>2

(***************************************************************************)
(* Every reachable state of the desktop sign-in is well typed, and what a  *)
(* poll may answer with was made for its attempt and is answered once.     *)
(***************************************************************************)
THEOREM SignInInvariant == DesktopSpec => []DesktopInv
  BY InitInv, NextStep, PTL DEF DesktopSpec

(***************************************************************************)
(* The desktop sign-in implements HandOver: an application is given at     *)
(* most one session per attempt, once, and one the browser made for it     *)
(* (handleDesktopGoogleCallback, getDesktopGoogleSignInStatus).            *)
(***************************************************************************)
THEOREM ImplementsHandOver == DesktopSpec => HandsOverOnce
<1>1. DesktopInit => Promise!HandOverInit
  BY DEF DesktopInit, Promise!HandOverInit
<1>2. DesktopInv /\ [DesktopNext]_desktopVars
        => [Promise!HandOverNext]_(Promise!handOverVars)
  BY NextStep DEF HandOverStep
<1> QED
  BY <1>1, <1>2, SignInInvariant, PTL
     DEF DesktopSpec, HandsOverOnce, Promise!HandOverSpec
=============================================================================
