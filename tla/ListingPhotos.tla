--------------------------- MODULE ListingPhotos ---------------------------
(***************************************************************************)
(* One listing, its photos and whether it may be on sale: the routes that  *)
(* reserve a row for an upload, run the pipeline over what was uploaded    *)
(* and take a photo down; the bucket they share with the seller's browser; *)
(* and the route that puts the listing on sale. The bucket and the rows    *)
(* are written in separate steps, and any step may be a handler's last.    *)
(***************************************************************************)
EXTENDS Integers, FiniteSets

CONSTANTS Photos,     \* rows listing_photos may come to hold
          Starters,   \* requests for an upload that may run at once
          Pipelines,  \* requests to process one that may run at once
          Publishers, \* requests to go on sale that may run at once
          Pictures,   \* contents that would be accepted
          NoPhoto,    \* no row
          MaxPhotos   \* MAX_PHOTOS_PER_LISTING

ASSUME PhotosAssumption == NoPhoto \notin Photos /\ MaxPhotos \in Nat
ASSUME PicturesAssumption == Pictures \cap {"bad", "none"} = {}

VARIABLES
  photo,     \* listing_photos.status; object_key is set exactly when approved
  sha256,    \* listing_photos.sha256: the picture the row says is served
  upload,    \* the bucket, under each row's upload_key
  display,   \* the bucket, under each row's display key
  starter,   \* requests that have counted the rows and not inserted yet
  pipeline,  \* the process requests
  doomed,    \* objects a delete request has still to remove
  status,    \* listings.status
  dear,      \* the price is above PHOTO_REQUIRED_ABOVE_CENTS
  publisher  \* the requests to go on sale

vars == <<photo, sha256, upload, display, starter, pipeline, doomed,
          status, dear, publisher>>

-----------------------------------------------------------------------------
PhotoStatus == {"pending", "approved", "rejected"}

(* What the inspector, the scanner and the decoder would say of the bytes. *)
Bytes == Pictures \cup {"bad"}

NoRun == [step |-> "idle", photo |-> NoPhoto, bytes |-> "none"]

Run == {NoRun}
       \cup [step : {"found"}, photo : Photos, bytes : {"none"}]
       \cup [step : {"read", "judged"}, photo : Photos, bytes : Bytes]
       \cup [step : {"stored"}, photo : Photos, bytes : Pictures]

PublishStep == {"idle", "cheap", "dear", "allowed"}

TypeOK ==
  /\ photo \in [Photos -> PhotoStatus \cup {"none", "deleted"}]
  /\ sha256 \in [Photos -> Pictures \cup {"none"}]
  /\ upload \in [Photos -> Bytes \cup {"none"}]
  /\ display \in [Photos -> Bytes \cup {"none"}]
  /\ starter \in SUBSET Starters
  /\ pipeline \in [Pipelines -> Run]
  /\ doomed \in SUBSET (Photos \X {"upload", "display"})
  /\ status \in {"draft", "active", "withdrawn", "sold", "deleted"}
  /\ dear \in BOOLEAN
  /\ publisher \in [Publishers -> PublishStep]

Init ==
  /\ photo = [p \in Photos |-> "none"]
  /\ sha256 = [p \in Photos |-> "none"]
  /\ upload = [p \in Photos |-> "none"]
  /\ display = [p \in Photos |-> "none"]
  /\ starter = {}
  /\ pipeline = [r \in Pipelines |-> NoRun]
  /\ doomed = {}
  /\ status = "draft"
  /\ dear \in BOOLEAN
  /\ publisher = [q \in Publishers |-> "idle"]

Rows == {p \in Photos : photo[p] \in PhotoStatus}

listingAlone == <<sha256, status, dear, publisher>>

-----------------------------------------------------------------------------
(* Reserving a row and uploading to it.                                    *)

(* startPhotoUpload counts the rows it can see ...                         *)
StartCounts(q) ==
  /\ q \notin starter
  /\ status # "deleted"
  /\ Cardinality(Rows) < MaxPhotos
  /\ starter' = starter \cup {q}
  /\ UNCHANGED <<photo, upload, display, pipeline, doomed>>
  /\ UNCHANGED listingAlone

(* ... and inserts one more, in the same transaction; nothing it read is   *)
(* locked. The answer carries the URL to upload to.                        *)
StartInserts(q, p) ==
  /\ q \in starter
  /\ status # "deleted"
  /\ photo[p] = "none"
  /\ photo' = [photo EXCEPT ![p] = "pending"]
  /\ starter' = starter \ {q}
  /\ UNCHANGED <<upload, display, pipeline, doomed>> /\ UNCHANGED listingAlone

StartStops(q) ==
  /\ q \in starter
  /\ starter' = starter \ {q}
  /\ UNCHANGED <<photo, upload, display, pipeline, doomed>>
  /\ UNCHANGED listingAlone

(* The browser's own PUT to the presigned URL, which may be repeated,      *)
(* whatever has become of the row. (That the URL expires only makes fewer  *)
(* of these steps; it outlives many a process request.)                    *)
BrowserPuts(p, bytes) ==
  /\ photo[p] # "none"
  /\ upload' = [upload EXCEPT ![p] = bytes]
  /\ UNCHANGED <<photo, display, starter, pipeline, doomed>>
  /\ UNCHANGED listingAlone

-----------------------------------------------------------------------------
(* The complete route and processUpload.                                   *)

pipelineAlone == <<starter, doomed, status, dear, publisher>>

CompleteFinds(r, p) ==
  /\ pipeline[r] = NoRun
  /\ photo[p] = "pending"
  /\ pipeline' = [pipeline EXCEPT ![r] =
                    [step |-> "found", photo |-> p, bytes |-> "none"]]
  /\ UNCHANGED <<photo, sha256, upload, display>> /\ UNCHANGED pipelineAlone

(* The bytes judged are the bytes read here, once.                         *)
PipelineReads(r) ==
  LET p == pipeline[r].photo IN
  /\ pipeline[r].step = "found"
  /\ upload[p] # "none"
  /\ pipeline' = [pipeline EXCEPT ![r].step = "read", ![r].bytes = upload[p]]
  /\ UNCHANGED <<photo, sha256, upload, display>> /\ UNCHANGED pipelineAlone

(* As if the copy were made from the bucket and not from what was judged.  *)
PipelineCopies(r) ==
  LET p == pipeline[r].photo IN
  /\ pipeline[r].step = "read" /\ pipeline[r].bytes # "bad"
  /\ display' = [display EXCEPT ![p] = upload[p]]
  /\ pipeline' = [pipeline EXCEPT ![r].step = "stored"]
  /\ UNCHANGED <<photo, sha256, upload>> /\ UNCHANGED pipelineAlone

(* As if the copy could wait until the photo was approved.                 *)
PipelineDefersCopy(r) ==
  /\ pipeline[r].step = "read" /\ pipeline[r].bytes # "bad"
  /\ pipeline' = [pipeline EXCEPT ![r].step = "stored"]
  /\ UNCHANGED <<photo, sha256, upload, display>> /\ UNCHANGED pipelineAlone

PipelineStores(r) ==
  /\ pipeline[r].step = "read" /\ pipeline[r].bytes # "bad"
  /\ display' = [display EXCEPT ![pipeline[r].photo] = pipeline[r].bytes]
  /\ pipeline' = [pipeline EXCEPT ![r].step = "stored"]
  /\ UNCHANGED <<photo, sha256, upload>> /\ UNCHANGED pipelineAlone

(* The original goes last when the copy is stored, at once when refused.   *)
PipelineDeletesOriginal(r) ==
  /\ \/ pipeline[r].step = "stored"
     \/ pipeline[r].step = "read" /\ pipeline[r].bytes = "bad"
  /\ upload' = [upload EXCEPT ![pipeline[r].photo] = "none"]
  /\ pipeline' = [pipeline EXCEPT ![r].step = "judged"]
  /\ UNCHANGED <<photo, sha256, display>> /\ UNCHANGED pipelineAlone

(* As if the verdict were written whether or not there is a row.           *)
RecordAlways(r) ==
  LET p == pipeline[r].photo IN
  /\ pipeline[r].step = "judged"
  /\ photo' = [photo EXCEPT ![p] = IF pipeline[r].bytes = "bad" THEN "rejected"
                                   ELSE "approved"]
  /\ pipeline' = [pipeline EXCEPT ![r] = NoRun]
  /\ UNCHANGED <<sha256, upload, display>> /\ UNCHANGED pipelineAlone

Approve(p, bytes) ==
  /\ bytes # "bad" /\ photo[p] \in {"pending", "rejected"}
  /\ photo' = [photo EXCEPT ![p] = "approved"]
  /\ sha256' = [sha256 EXCEPT ![p] = bytes]

Reject(p, bytes) ==
  /\ bytes = "bad" /\ p \in Rows
  /\ photo' = [photo EXCEPT ![p] = "rejected"]
  /\ UNCHANGED sha256

(* approvePhoto leaves an approved row alone; rejectPhoto looks at nothing *)
(* but the id. Neither finds a row that has been deleted.                  *)
CompleteRecords(r) ==
  LET p == pipeline[r].photo
      bytes == pipeline[r].bytes
  IN
  /\ pipeline[r].step = "judged"
  /\ \/ Approve(p, bytes)
     \/ Reject(p, bytes)
     \/ p \notin Rows /\ UNCHANGED <<photo, sha256>>
     \/ photo[p] = "approved" /\ bytes # "bad" /\ UNCHANGED <<photo, sha256>>
  /\ pipeline' = [pipeline EXCEPT ![r] = NoRun]
  /\ UNCHANGED <<upload, display>> /\ UNCHANGED pipelineAlone

(* The upload is not there, the scanner or the bucket does not answer, or  *)
(* the process dies: nothing is written, and the row stays as it is.       *)
CompleteStops(r) ==
  /\ pipeline[r] # NoRun
  /\ pipeline' = [pipeline EXCEPT ![r] = NoRun]
  /\ UNCHANGED <<photo, sha256, upload, display>> /\ UNCHANGED pipelineAlone

-----------------------------------------------------------------------------
(* Taking a photo down: the row first, then what it pointed at.            *)

removalAlone == <<sha256, starter, pipeline, status, dear, publisher>>

DeleteRow(p) ==
  /\ p \in Rows
  /\ photo' = [photo EXCEPT ![p] = "deleted"]
  /\ doomed' = doomed \cup {<<p, "upload">>}
                      \cup (IF photo[p] = "approved" THEN {<<p, "display">>} ELSE {})
  /\ UNCHANGED <<upload, display>> /\ UNCHANGED removalAlone

RemoveObject(p, key) ==
  /\ <<p, key>> \in doomed
  /\ doomed' = doomed \ {<<p, key>>}
  /\ IF key = "upload"
     THEN upload' = [upload EXCEPT ![p] = "none"] /\ UNCHANGED display
     ELSE display' = [display EXCEPT ![p] = "none"] /\ UNCHANGED upload
  /\ UNCHANGED photo /\ UNCHANGED removalAlone

(* The bucket refuses, which is only logged, or the process dies.          *)
RemovalFails(p, key) ==
  /\ <<p, key>> \in doomed
  /\ doomed' = doomed \ {<<p, key>>}
  /\ UNCHANGED <<photo, sha256, upload, display>> /\ UNCHANGED removalAlone

-----------------------------------------------------------------------------
(* The listing: its price, its status, and who bought it.                  *)

photosAlone == <<sha256, upload, display, starter, pipeline, doomed>>

Exists == status # "deleted"

(* updateListing: a sold row would have to stay sold, which its policy     *)
(* refuses; any other keeps its status, whatever the new price.            *)
UpdateListing(price) ==
  /\ status \notin {"sold", "deleted"}
  /\ dear' = price
  /\ UNCHANGED <<photo, status, publisher>> /\ UNCHANGED photosAlone

(* The status route reads the price, counts the approved photos and writes *)
(* the status, in three transactions.                                      *)
PublishReads(q) ==
  /\ Exists
  /\ publisher[q] = "idle"
  /\ publisher' = [publisher EXCEPT ![q] = IF dear THEN "dear" ELSE "cheap"]
  /\ UNCHANGED <<photo, status, dear>> /\ UNCHANGED photosAlone

PublishCounts(q) ==
  /\ publisher[q] \in {"cheap", "dear"}
  /\ publisher' = [publisher EXCEPT ![q] =
       IF publisher[q] = "dear" /\ \A p \in Photos : photo[p] # "approved"
       THEN "idle" ELSE "allowed"]
  /\ UNCHANGED <<photo, status, dear>> /\ UNCHANGED photosAlone

Publish(q) ==
  /\ Exists
  /\ publisher[q] = "allowed"
  /\ publisher' = [publisher EXCEPT ![q] = "idle"]
  /\ status' = "active"
  /\ UNCHANGED <<photo, dear>> /\ UNCHANGED photosAlone

PublishStops(q) ==
  /\ publisher[q] # "idle"
  /\ publisher' = [publisher EXCEPT ![q] = "idle"]
  /\ UNCHANGED <<photo, status, dear>> /\ UNCHANGED photosAlone

TakeOff(to) ==
  /\ Exists
  /\ to \in {"draft", "withdrawn"}
  /\ status' = to
  /\ UNCHANGED <<photo, dear, publisher>> /\ UNCHANGED photosAlone

(* A payment is recorded for an order of it (Marketplace).                 *)
Sell ==
  /\ Exists
  /\ status' = "sold"
  /\ UNCHANGED <<photo, dear, publisher>> /\ UNCHANGED photosAlone

(* deleteDraftListing; the rows of its photos go with it, by cascade, and  *)
(* their objects stay where they are.                                      *)
DeleteListing ==
  /\ status = "draft"
  /\ status' = "deleted"
  /\ photo' = [p \in Photos |-> IF p \in Rows THEN "deleted" ELSE photo[p]]
  /\ UNCHANGED <<dear, publisher>> /\ UNCHANGED photosAlone

-----------------------------------------------------------------------------
UploadNext ==
  \/ \E q \in Starters :
       \/ StartCounts(q)
       \/ \E p \in Photos : StartInserts(q, p)
       \/ StartStops(q)
  \/ \E p \in Photos, bytes \in Bytes : BrowserPuts(p, bytes)

PipelineNext(r) ==
  \/ \E p \in Photos : CompleteFinds(r, p)
  \/ PipelineReads(r)
  \/ PipelineStores(r)
  \/ PipelineDeletesOriginal(r)
  \/ CompleteRecords(r)
  \/ CompleteStops(r)

RemovalNext(p) ==
  \/ DeleteRow(p)
  \/ \E key \in {"upload", "display"} : RemoveObject(p, key) \/ RemovalFails(p, key)

ListingNext ==
  \/ \E price \in BOOLEAN : UpdateListing(price)
  \/ \E q \in Publishers :
       PublishReads(q) \/ PublishCounts(q) \/ Publish(q) \/ PublishStops(q)
  \/ \E to \in {"draft", "withdrawn"} : TakeOff(to)
  \/ Sell
  \/ DeleteListing

Next ==
  \/ UploadNext
  \/ \E r \in Pipelines : PipelineNext(r)
  \/ \E p \in Photos : RemovalNext(p)
  \/ ListingNext

Spec == Init /\ [][Next]_vars

-----------------------------------------------------------------------------
(* Safety.                                                                 *)

(* A gallery never points at a picture that is not there, although copies  *)
(* are stored, approved and removed by requests that race and die: storing *)
(* comes before approving, and the row goes before the object.             *)
ServedIsStored == \A p \in Photos : photo[p] = "approved" => display[p] # "none"

(* Nothing a buyer could be shown was made of bytes that would have been   *)
(* refused, although the browser may overwrite an upload at any moment.    *)
ServedWasJudged == \A p \in Photos : display[p] # "bad"

(* A verdict that comes in after the photo was taken down, or its listing  *)
(* deleted, does not bring it back.                                        *)
DeletedStaysDeleted ==
  [][\A p \in Photos : photo[p] = "deleted" => photo'[p] = "deleted"]_vars

-----------------------------------------------------------------------------
(* What the repository says of this code and the code does not do.         *)

(* processUpload: the digest is of the copy that is served. (The address   *)
(* of the copy is made from the photo's id alone.)                         *)
ServedIsDescribed ==
  \A p \in Photos : photo[p] = "approved" => sha256[p] = display[p]

(* startPhotoUpload: two requests racing cannot both see room for one more *)
(* photo and both add it.                                                  *)
PhotoLimit == Cardinality(Rows) <= MaxPhotos

(* updateListing: a seller who lists at $10 and then raises it to $80 has  *)
(* to show the card.                                                       *)
DearIsShown == status = "active" /\ dear => \E p \in Photos : photo[p] = "approved"
=============================================================================
