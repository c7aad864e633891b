---------------------------- MODULE Whiteboards -----------------------------
(***************************************************************************)
(* A whiteboard and its slides (canvas.controller.ts and                   *)
(* slides.controller.ts): slides are created, deleted and reordered by     *)
(* requests that read the slides in one statement and write in another.    *)
(***************************************************************************)
EXTENDS Naturals, FiniteSets, Functions

CONSTANTS
  Slides,      \* rows of the slides table, those not created yet included
  Edits,       \* requests in flight
  LastOrder    \* bound: the highest order a slide is followed to

ASSUME WhiteboardAssumption ==
  /\ IsFiniteSet(Slides)
  /\ LastOrder \in Nat /\ Cardinality(Slides) <= LastOrder + 1

VARIABLES
  board,       \* the row of the canvases table: "none", "open" or "deleted"
  slide,       \* per slide its state, "none", "there" or "gone", and its order
  edit,        \* the local state of each request
  overtaken    \* history: slides that a request wrote by what it had read
               \* before another request wrote

boardVars == <<board, slide, edit, overtaken>>

Edit == [phase : {"idle", "checked", "creating", "reordering", "deleting"},
         order : 0..(LastOrder + 1),
         seen : SUBSET Slides,   \* slides found by the reordering
         stale : BOOLEAN]

NoEdit == [phase |-> "idle", order |-> 0, seen |-> {}, stale |-> FALSE]

NoSlide == [state |-> "none", order |-> 0]

At(n) == [state |-> "there", order |-> n]

Present == {s \in Slides : slide[s].state = "there"}

BoardTypeOK ==
  /\ board \in {"none", "open", "deleted"}
  /\ slide \in [Slides -> [state : {"none", "there", "gone"}, order : 0..(LastOrder + 1)]]
  /\ edit \in [Edits -> Edit]
  /\ overtaken \subseteq Slides

BoardInit ==
  /\ board = "none"
  /\ slide = [s \in Slides |-> NoSlide]
  /\ edit = [e \in Edits |-> NoEdit]
  /\ overtaken = {}

-----------------------------------------------------------------------------
\* Every request but the one that writes now works with what is read already
Committed(e) ==
  edit' = [d \in Edits |->
    IF d = e THEN NoEdit
    ELSE [edit[d] EXCEPT !.stale = @ \/ edit[d].phase \notin {"idle", "checked"}]]

Goes(e, from, record) ==
  /\ edit[e].phase = from
  /\ edit' = [edit EXCEPT ![e] = record]

\* CanvasController.create: a whiteboard comes with its first slide
CreateBoard(s) ==
  /\ board = "none"
  /\ board' = "open"
  /\ slide' = [slide EXCEPT ![s] = At(0)]
  /\ UNCHANGED <<edit, overtaken>>

\* ensureCanvasWriteAccess, the first statement of every request
CheckBoard(e) ==
  /\ board = "open"
  /\ Goes(e, "idle", [NoEdit EXCEPT !.phase = "checked"])
  /\ UNCHANGED <<board, slide, overtaken>>

DeleteBoard(e) ==
  /\ edit[e].phase = "checked"
  /\ board' = "deleted"
  /\ edit' = [edit EXCEPT ![e] = NoEdit]
  /\ UNCHANGED <<slide, overtaken>>

NextOrderByCount == Cardinality(Present)

\* One more than the highest order there is
NextOrder == CHOOSE n \in 0..(LastOrder + 1) :
               /\ \A s \in Present : slide[s].order < n
               /\ n = 0 \/ \E s \in Present : slide[s].order + 1 = n

ReadOrder(e) ==
  /\ NextOrder <= LastOrder
  /\ Goes(e, "checked", [NoEdit EXCEPT !.phase = "creating", !.order = NextOrder])
  /\ UNCHANGED <<board, slide, overtaken>>

CreateSlide(e, s) ==
  /\ edit[e].phase = "creating"
  /\ slide[s].state = "none"
  /\ slide' = [slide EXCEPT ![s] = At(edit[e].order)]
  /\ overtaken' = IF edit[e].stale THEN overtaken \cup {s} ELSE overtaken
  /\ Committed(e)
  /\ UNCHANGED board

FindSlide(e, s) ==
  /\ s \in Present
  /\ Goes(e, "checked", [NoEdit EXCEPT !.phase = "deleting", !.seen = {s}])
  /\ UNCHANGED <<board, slide, overtaken>>

\* The delete of a slide that is gone fails
DeleteSlide(e) ==
  /\ edit[e].phase = "deleting"
  /\ slide' = [s \in Slides |-> IF s \in edit[e].seen THEN [NoSlide EXCEPT !.state = "gone"]
                           ELSE slide[s]]
  /\ overtaken' = overtaken \ edit[e].seen
  /\ IF edit[e].seen \subseteq Present THEN Committed(e)
     ELSE edit' = [edit EXCEPT ![e] = NoEdit]
  /\ UNCHANGED board

\* reorder: the request has to name the slides there are
ReadSlides(e) ==
  /\ Goes(e, "checked", [NoEdit EXCEPT !.phase = "reordering", !.seen = Present])
  /\ UNCHANGED <<board, slide, overtaken>>

\* The transaction updates the slides one by one and fails as a whole when one
\* of them is gone
Reorderable(e) == edit[e].seen \subseteq Present

ReorderSlides(e, places) ==
  /\ edit[e].phase = "reordering"
  /\ Reorderable(e)
  /\ slide' = [s \in Slides |-> IF s \in edit[e].seen THEN At(places[s]) ELSE slide[s]]
  /\ overtaken' = IF edit[e].stale THEN overtaken \cup edit[e].seen
                  ELSE overtaken \ edit[e].seen
  /\ Committed(e)
  /\ UNCHANGED board

EditFails(e) ==
  /\ edit[e].phase # "idle"
  /\ edit' = [edit EXCEPT ![e] = NoEdit]
  /\ UNCHANGED <<board, slide, overtaken>>

Places(seen) == Bijection(seen, 0..(Cardinality(seen) - 1))

BoardNext ==
  \/ \E s \in Slides : CreateBoard(s)
  \/ \E e \in Edits :
       \/ CheckBoard(e) \/ DeleteBoard(e) \/ ReadOrder(e) \/ DeleteSlide(e)
       \/ ReadSlides(e) \/ EditFails(e)
       \/ \E s \in Slides : CreateSlide(e, s) \/ FindSlide(e, s)
       \/ \E places \in Places(edit[e].seen) : ReorderSlides(e, places)

BoardSpec == BoardInit /\ [][BoardNext]_boardVars

-----------------------------------------------------------------------------
\* Two slides of a whiteboard have the same place only if one of them was
\* written by a request that another had overtaken since it read the slides:
\* creating, deleting and reordering keep places apart otherwise, whatever gaps
\* deletions leave (slides.controller.ts).
PlacesDistinct ==
  \A s, t \in Present :
    s # t /\ slide[s].order = slide[t].order => {s, t} \cap overtaken # {}
=============================================================================
