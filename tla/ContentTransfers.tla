-------------------------- MODULE ContentTransfers --------------------------
(***************************************************************************)
(* Exports of whiteboards and imports of documents (export.controller.ts,  *)
(* export.service.ts, import-conversion.service.ts).  A handler works in   *)
(* the request: it writes the row's status, renders or waits for the       *)
(* conversion service, and writes the status again.  The client uploads a  *)
(* document itself, to object storage or, without one, to Cloudinary.      *)
(***************************************************************************)
EXTENDS FiniteSets

CONSTANTS
  Exports,     \* rows of the exports table, those not created yet included
  Imports,     \* documents to import
  NoItem,      \* a request at rest
  Transfers    \* requests in flight

ASSUME TransfersAssumption ==
  NoItem \notin Exports \cup Imports /\ Exports \cap Imports = {}

VARIABLES
  export,     \* the rows of the exports table
  document,   \* per import, the content_imports row and the uploaded file
  transfer,   \* the local state of each request
  outcome     \* history: how the rendering or the last conversion ended, or
              \* that its row, or its file in Cloudinary, may be otherwise

transferVars == <<export, document, transfer, outcome>>

ExportRow == [status : {"NONE", "PENDING", "PROCESSING", "COMPLETED", "FAILED"},
              file : {"none", "partial", "whole"},   \* what fileUrl is on
                                                     \* the server's disk
              client : BOOLEAN]   \* the client made the file and says where it is

NoExport == [status |-> "NONE", file |-> "none", client |-> FALSE]

\* A document in Cloudinary has no row
Document == [where : {"nowhere", "objects", "cloudinary"},
             status : {"NONE", "PENDING", "PROCESSING", "CONVERTED", "FAILED"},
             file : {"none", "good", "bad"},
             open : BOOLEAN]   \* the signed upload is still accepted

NoDocument == [where |-> "nowhere", status |-> "NONE", file |-> "none", open |-> FALSE]

Transfer == [phase : {"idle", "queued", "rendering", "writing", "completing", "failing",
                      "starting", "checking", "converting", "settling", "refusing",
                      "cleaning"},
             of : Exports \cup Imports \cup {NoItem},
             named : BOOLEAN]   \* a conversion that names its file in Cloudinary

NoTransfer == [phase |-> "idle", of |-> NoItem, named |-> FALSE]
Outcomes == {"none", "made", "refused", "lost"}

TransfersTypeOK ==
  /\ export \in [Exports -> ExportRow]
  /\ document \in [Imports -> Document]
  /\ transfer \in [Transfers -> Transfer]
  /\ \A t \in Transfers : transfer[t].phase = "idle" <=> transfer[t].of = NoItem
  /\ outcome \in [Exports \cup Imports -> Outcomes]

TransfersInit ==
  /\ export = [x \in Exports |-> NoExport]
  /\ document = [i \in Imports |-> NoDocument]
  /\ transfer = [t \in Transfers |-> NoTransfer]
  /\ outcome = [x \in Exports \cup Imports |-> "none"]

-----------------------------------------------------------------------------
Goes(t, from, to) ==
  /\ transfer[t].phase = from
  /\ transfer' = [transfer EXCEPT ![t].phase = to]

Ends(t, from) ==
  /\ transfer[t].phase = from
  /\ transfer' = [transfer EXCEPT ![t] = NoTransfer]

Begins(t, x, phase, named) ==
  /\ transfer[t].phase = "idle"
  /\ transfer' = [transfer EXCEPT ![t] = [phase |-> phase, of |-> x, named |-> named]]

At(x) == {t \in Transfers : transfer[t].of = x}

\* What the row says may be wrong once outcome is "lost"
Turns(x, o) == outcome' = IF outcome[x] = "lost" THEN outcome
                          ELSE [outcome EXCEPT ![x] = o]

SaysExport(t, status) == export' = [export EXCEPT ![transfer[t].of].status = status]

-----------------------------------------------------------------------------
(***************************************************************************)
(* Exports made by the server (exportPdf, exportImage, generateExport).    *)
(***************************************************************************)
CreateExport(t, x) ==
  /\ export[x].status = "NONE"
  /\ Begins(t, x, "queued", FALSE)
  /\ export' = [export EXCEPT ![x].status = "PENDING"]
  /\ UNCHANGED <<document, outcome>>

StartExport(t) ==
  /\ Goes(t, "queued", "rendering")
  /\ SaysExport(t, "PROCESSING")
  /\ UNCHANGED <<document, outcome>>

\* A slide that was asked for is gone, or the whiteboard has none
RenderFails(t) ==
  /\ Goes(t, "rendering", "failing")
  /\ Turns(transfer[t].of, "refused")
  /\ UNCHANGED <<export, document>>

RenderWithoutWaiting(t) ==
  /\ Goes(t, "rendering", "completing")
  /\ export' = [export EXCEPT ![transfer[t].of].file = "partial"]
  /\ UNCHANGED <<document, outcome>>

Render(t) ==
  /\ Goes(t, "rendering", "writing")
  /\ export' = [export EXCEPT ![transfer[t].of].file = "partial"]
  /\ UNCHANGED <<document, outcome>>

WriteArtifact(t) ==
  /\ Goes(t, "writing", "completing")
  /\ export' = [export EXCEPT ![transfer[t].of].file = "whole"]
  /\ UNCHANGED <<document, outcome>>

WriteArtifactFails(t) ==
  /\ Goes(t, "writing", "failing")
  /\ Turns(transfer[t].of, "refused")
  /\ UNCHANGED <<export, document>>

\* The update is returned, not awaited: when it fails, nothing catches it
CompleteExport(t) ==
  /\ Ends(t, "completing")
  /\ SaysExport(t, "COMPLETED")
  /\ Turns(transfer[t].of, "made")
  /\ UNCHANGED document

FailExport(t) ==
  /\ Ends(t, "failing")
  /\ SaysExport(t, "FAILED")
  /\ UNCHANGED <<document, outcome>>

\* completeClientExport records what the client says, its fileUrl too, which may
\* be a path to anything, or to nothing, on the server's disk
RecordClientExport(x, status, file) ==
  /\ export[x].status = "NONE"
  /\ export' = [export EXCEPT ![x] = [status |-> status, file |-> file, client |-> TRUE]]
  /\ outcome' = [outcome EXCEPT ![x] = IF status = "COMPLETED" THEN "made" ELSE "refused"]
  /\ UNCHANGED <<document, transfer>>

\* download: what fileUrl says, whoever said it, has to be on this server's disk
Downloadable(x) == /\ export[x].status = "COMPLETED"
                   /\ export[x].file # "none"

-----------------------------------------------------------------------------
(***************************************************************************)
(* Imports: the upload intent, the client's uploads and the conversion.    *)
(***************************************************************************)
AskUpload(i, where) ==
  /\ document[i].where = "nowhere"
  /\ document' = [document EXCEPT ![i] =
       [where |-> where, status |-> IF where = "objects" THEN "PENDING" ELSE "NONE",
        file |-> "none", open |-> TRUE]]
  /\ UNCHANGED <<export, transfer, outcome>>

\* The same signed request may be sent again while it lasts
Upload(i, file) ==
  /\ document[i].open
  /\ document' = [document EXCEPT ![i].file = file]
  /\ outcome' = IF At(i) # {} \/ outcome[i] # "none"
                THEN [outcome EXCEPT ![i] = "lost"] ELSE outcome
  /\ UNCHANGED <<export, transfer>>

UploadExpires(i) ==
  /\ document[i].open
  /\ document' = [document EXCEPT ![i].open = FALSE]
  /\ UNCHANGED <<export, transfer, outcome>>

InObjects(i) == document[i].where = "objects"

SaysImport(i, status) ==
  document' = IF InObjects(i) THEN [document EXCEPT ![i].status = status] ELSE document

\* A file in Cloudinary stays there when the request sends no publicId
Forgets(i, named) == ~InObjects(i) /\ ~named

\* convertRemoteImportDocument: a wrong type or a missing name ends it at once
AskConversion(t, i, valid, named) ==
  /\ document[i].where # "nowhere"
  /\ Begins(t, i, IF valid THEN "starting" ELSE "refusing", named)
  /\ outcome' = [outcome EXCEPT ![i] = IF At(i) # {} \/ Forgets(i, named) THEN "lost"
                                       ELSE IF valid THEN "none" ELSE "refused"]
  /\ UNCHANGED <<export, document>>

StartConversion(t) ==
  /\ transfer[t].phase = "starting"
  /\ Goes(t, "starting", IF InObjects(transfer[t].of) THEN "checking" ELSE "converting")
  /\ SaysImport(transfer[t].of, "PROCESSING")
  /\ UNCHANGED <<export, outcome>>

\* Size, type and first bytes, of object storage only
CheckObject(t) ==
  /\ transfer[t].phase = "checking"
  /\ IF document[transfer[t].of].file = "good"
     THEN Goes(t, "checking", "converting") /\ UNCHANGED outcome
     ELSE Goes(t, "checking", "refusing") /\ Turns(transfer[t].of, "refused")
  /\ UNCHANGED <<export, document>>

ConversionAnswers(t) ==
  /\ Goes(t, "converting", "settling")
  /\ document[transfer[t].of].file = "good"
  /\ Turns(transfer[t].of, "made")
  /\ UNCHANGED <<export, document>>

\* A statement fails, or the service refuses, cannot be reached or takes too long
ConversionFails(t) ==
  /\ \E from \in {"starting", "checking", "converting"} : Goes(t, from, "refusing")
  /\ Turns(transfer[t].of, "refused")
  /\ UNCHANGED <<export, document>>

\* A file in Cloudinary that the request named is deleted in the end, whatever
\* happened
Settles(t, from) ==
  /\ transfer[t].phase = from
  /\ IF ~InObjects(transfer[t].of) /\ transfer[t].named
     THEN Goes(t, from, "cleaning") ELSE Ends(t, from)

SettleConversion(t) ==
  /\ Settles(t, "settling")
  /\ SaysImport(transfer[t].of, "CONVERTED")
  /\ UNCHANGED <<export, outcome>>

\* A status that cannot be written fails the conversion
SettlingFails(t) ==
  /\ Goes(t, "settling", "refusing")
  /\ InObjects(transfer[t].of)
  /\ Turns(transfer[t].of, "refused")
  /\ UNCHANGED <<export, document>>

RefuseUnlessChecked(t) ==
  /\ Settles(t, "refusing")
  /\ IF document[transfer[t].of].file = "good"
     THEN SaysImport(transfer[t].of, "FAILED") ELSE UNCHANGED document
  /\ UNCHANGED <<export, outcome>>

RefuseConversion(t) ==
  /\ Settles(t, "refusing")
  /\ SaysImport(transfer[t].of, "FAILED")
  /\ UNCHANGED <<export, outcome>>

CleanUp(t) ==
  /\ Ends(t, "cleaning")
  /\ document' = [document EXCEPT ![transfer[t].of].file = "none"]
  /\ UNCHANGED <<export, outcome>>

\* The process dies, or the statement that would record a failure, or the
\* deletion from Cloudinary, fails
TransferLost(t) ==
  /\ transfer[t].phase # "idle"
  /\ transfer' = [transfer EXCEPT ![t] = NoTransfer]
  /\ outcome' = [outcome EXCEPT ![transfer[t].of] = "lost"]
  /\ UNCHANGED <<export, document>>

-----------------------------------------------------------------------------
ExportStep ==
  \/ \E x \in Exports, s \in {"COMPLETED", "FAILED"}, file \in {"none", "partial", "whole"} :
       RecordClientExport(x, s, file)
  \/ \E t \in Transfers :
       \/ \E x \in Exports : CreateExport(t, x)
       \/ StartExport(t) \/ RenderFails(t) \/ Render(t) \/ WriteArtifact(t)
       \/ WriteArtifactFails(t) \/ CompleteExport(t) \/ FailExport(t)

ImportStep ==
  \/ \E i \in Imports :
       \/ \E where \in {"objects", "cloudinary"} : AskUpload(i, where)
       \/ \E file \in {"good", "bad"} : Upload(i, file)
       \/ UploadExpires(i)
       \/ \E t \in Transfers, valid, named \in BOOLEAN : AskConversion(t, i, valid, named)
  \/ \E t \in Transfers :
       \/ StartConversion(t) \/ CheckObject(t) \/ ConversionAnswers(t)
       \/ ConversionFails(t) \/ SettleConversion(t) \/ SettlingFails(t)
       \/ RefuseConversion(t) \/ CleanUp(t)

TransfersNext == ExportStep \/ ImportStep \/ \E t \in Transfers : TransferLost(t)

TransfersSpec == TransfersInit /\ [][TransfersNext]_transferVars

-----------------------------------------------------------------------------
\* An export that no request works on any more says how it ended, unless its
\* handler was lost, and one that the server made and that can be downloaded is a
\* whole file (generateExport, download).  Of the file of a client's export
\* nothing is known.
ExportsSayOutcome ==
  \A x \in Exports :
    /\ Downloadable(x) /\ ~export[x].client => export[x].file = "whole"
    /\ At(x) = {} /\ outcome[x] # "lost" =>
         export[x].status = CASE outcome[x] = "made" -> "COMPLETED"
                              [] outcome[x] = "refused" -> "FAILED"
                              [] OTHER -> "NONE"

\* The same for an import; it may be asked for again after it has ended, and
\* requests for it that overlap, a new upload or a lost handler may leave it
\* saying otherwise (convertRemoteImportDocument).  A file in Cloudinary is gone
\* when a conversion that named it has ended, made or refused.
ImportsSayOutcome ==
  \A i \in Imports :
    At(i) = {} /\ outcome[i] \notin {"none", "lost"} =>
      IF InObjects(i)
      THEN document[i].status = IF outcome[i] = "made" THEN "CONVERTED" ELSE "FAILED"
      ELSE document[i].file = "none"

-----------------------------------------------------------------------------
\* How far an export is, of its row and of whether a request works on it
StageOf(x) ==
  CASE export[x].status = "NONE" -> "absent"
    [] export[x].status = "COMPLETED" -> "made"
    [] export[x].status = "FAILED" -> "refused"
    [] OTHER -> IF At(x) = {} THEN "abandoned"
                ELSE IF export[x].status = "PENDING" THEN "queued" ELSE "running"

Stages == [x \in Exports |-> StageOf(x)]

Files == [x \in Exports |-> export[x].file]

Job == INSTANCE ExportJobs WITH Jobs <- Exports, stage <- Stages, file <- Files

\* Rows and requests together keep the promise of ExportJobs: every export is
\* worked on once and by one request, completed only with its whole file, and
\* stays as it ended, or as its handler was lost (generateExport,
\* completeClientExport).
ExportsAreJobs == Job!JobsSpec
=============================================================================
