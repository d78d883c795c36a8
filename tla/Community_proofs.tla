-------------------------- MODULE Community_proofs --------------------------
(***************************************************************************)
(* Theorems about what people put up for others to see: photos of what     *)
(* they sell (ListingPhotos), collections (Collections) and ratings        *)
(* (Reputation).  What a gallery shows is stored and was judged, and what  *)
(* was taken down stays down, however requests race, die or are overtaken  *)
(* by the seller's browser; what others are told of a collection has       *)
(* nothing in it of what it cost or of the owner's notes, and what an      *)
(* export of one writes (Csv) an import reads; every rating is of a        *)
(* finished order, and a seller's standing is what the ratings say.        *)
(***************************************************************************)
EXTENDS ListingPhotos, Collections, Reputation, FoldTheorems, SequenceTheorems

-----------------------------------------------------------------------------
(* Type correctness.                                                       *)

\* The initial states are typed.
LEMMA TypeInit == Init => TypeOK
BY DEF Init, TypeOK, PhotoStatus, Run, Bytes, PublishStep

\* An upload's steps keep the types.
LEMMA UploadTypeStep == TypeOK /\ UploadNext => TypeOK'
<1>. SUFFICES ASSUME TypeOK, UploadNext  PROVE  TypeOK'
  OBVIOUS
<1>. USE DEF TypeOK, listingAlone
<1>1. ASSUME NEW q \in Starters, StartCounts(q) \/ StartStops(q)
      PROVE  TypeOK'
  BY <1>1 DEF StartCounts, StartStops
<1>2. ASSUME NEW q \in Starters, NEW p \in Photos, StartInserts(q, p)
      PROVE  TypeOK'
  BY <1>2 DEF StartInserts, PhotoStatus
<1>3. ASSUME NEW p \in Photos, NEW bytes \in Bytes, BrowserPuts(p, bytes)
      PROVE  TypeOK'
  BY <1>3 DEF BrowserPuts
<1>. QED  BY <1>1, <1>2, <1>3 DEF UploadNext

\* So do the steps of the image pipeline.
LEMMA PipelineTypeStep ==
  ASSUME TypeOK, NEW r \in Pipelines, PipelineNext(r)
  PROVE  TypeOK'
<1>. USE DEF TypeOK
<1>0. /\ pipeline[r] \in Run
      /\ NoRun \in Run
      /\ \A s \in Run : s # NoRun => s.photo \in Photos
  BY DEF Run
<1>1. ASSUME NEW p \in Photos, CompleteFinds(r, p)  PROVE  TypeOK'
  <2>1. [step |-> "found", photo |-> p, bytes |-> "none"] \in Run
    BY DEF Run
  <2>. QED  BY <1>1, <2>1 DEF CompleteFinds, pipelineAlone
<1>2. CASE PipelineReads(r)
  <2>1. pipeline[r].photo \in Photos
    BY <1>0, <1>2 DEF PipelineReads, NoRun
  <2>2. upload[pipeline[r].photo] \in Bytes
    BY <1>2, <2>1 DEF PipelineReads
  <2>3. [pipeline[r] EXCEPT !.step = "read", !.bytes = upload[pipeline[r].photo]] \in Run
    BY <1>0, <1>2, <2>1, <2>2 DEF PipelineReads, Run, NoRun
  <2>. QED  BY <1>2, <2>3 DEF PipelineReads, pipelineAlone
<1>3. CASE PipelineStores(r)
  <2>1. pipeline[r].photo \in Photos /\ pipeline[r].bytes \in Pictures
    BY <1>0, <1>3 DEF PipelineStores, Run, NoRun, Bytes
  <2>2. [pipeline[r] EXCEPT !.step = "stored"] \in Run
    BY <1>0, <1>3, <2>1 DEF PipelineStores, Run, NoRun
  <2>. QED  BY <1>3, <2>1, <2>2 DEF PipelineStores, pipelineAlone, Bytes
<1>4. CASE PipelineDeletesOriginal(r)
  <2>1. [pipeline[r] EXCEPT !.step = "judged"] \in Run
    BY <1>0, <1>4 DEF PipelineDeletesOriginal, Run, NoRun, Bytes
  <2>. QED  BY <1>4, <2>1 DEF PipelineDeletesOriginal, pipelineAlone
<1>5. CASE CompleteRecords(r)
  <2>1. pipeline[r].bytes \in Bytes
    BY <1>0, <1>5 DEF CompleteRecords, Run, NoRun
  <2>. QED
    BY <1>0, <1>5, <2>1 DEF CompleteRecords, Approve, Reject, pipelineAlone,
                             PhotoStatus, Bytes
<1>6. CASE CompleteStops(r)
  BY <1>0, <1>6 DEF CompleteStops, pipelineAlone
<1>. QED  BY <1>1, <1>2, <1>3, <1>4, <1>5, <1>6 DEF PipelineNext

\* So do the steps of a removal.
LEMMA RemovalTypeStep ==
  ASSUME TypeOK, NEW p \in Photos, RemovalNext(p)
  PROVE  TypeOK'
<1>. USE DEF TypeOK, removalAlone
<1>1. CASE DeleteRow(p)
  BY <1>1 DEF DeleteRow, PhotoStatus
<1>2. ASSUME NEW key \in {"upload", "display"}, RemoveObject(p, key)
      PROVE  TypeOK'
  BY <1>2 DEF RemoveObject
<1>3. ASSUME NEW key \in {"upload", "display"}, RemovalFails(p, key)
      PROVE  TypeOK'
  BY <1>3 DEF RemovalFails
<1>. QED  BY <1>1, <1>2, <1>3 DEF RemovalNext

\* So do the steps of a listing.
LEMMA ListingTypeStep == TypeOK /\ ListingNext => TypeOK'
<1>. SUFFICES ASSUME TypeOK, ListingNext  PROVE  TypeOK'
  OBVIOUS
<1>. USE DEF TypeOK, photosAlone, PublishStep
<1>1. ASSUME NEW price \in BOOLEAN, UpdateListing(price)  PROVE  TypeOK'
  BY <1>1 DEF UpdateListing
<1>2. ASSUME NEW q \in Publishers,
             PublishReads(q) \/ PublishCounts(q) \/ Publish(q) \/ PublishStops(q)
      PROVE  TypeOK'
  BY <1>2 DEF PublishReads, PublishCounts, Publish, PublishStops
<1>3. ASSUME NEW to \in {"draft", "withdrawn"}, TakeOff(to)  PROVE  TypeOK'
  BY <1>3 DEF TakeOff
<1>4. CASE Sell
  BY <1>4 DEF Sell
<1>5. CASE DeleteListing
  BY <1>5 DEF DeleteListing, PhotoStatus
<1>. QED  BY <1>1, <1>2, <1>3, <1>4, <1>5 DEF ListingNext

\* Every step keeps the types.
LEMMA TypeStep == TypeOK /\ [Next]_vars => TypeOK'
<1>1. TypeOK /\ UNCHANGED vars => TypeOK'
  BY DEF TypeOK, vars
<1>. QED
  BY <1>1, UploadTypeStep, PipelineTypeStep, RemovalTypeStep, ListingTypeStep DEF Next

(* The rows, the bucket and the requests stay within their types.          *)
THEOREM TypeCorrect == Spec => []TypeOK
BY TypeInit, TypeStep, PTL DEF Spec

-----------------------------------------------------------------------------
(* What is shown is stored. A request that is about to approve has stored  *)
(* its copy, unless the row is gone; and objects only go when rows have.   *)

PutsInPlace(r) ==
  \/ pipeline[r].step = "stored"
  \/ pipeline[r].step = "judged" /\ pipeline[r].bytes # "bad"

StoredInv ==
  /\ ServedIsStored
  /\ \A r \in Pipelines :
       PutsInPlace(r) => \/ photo[pipeline[r].photo] = "deleted"
                         \/ display[pipeline[r].photo] # "none"
  /\ \A p \in Photos, key \in {"upload", "display"} :
       <<p, key>> \in doomed => photo[p] = "deleted"

(* Nothing that happens to a row brings it back once it is deleted.        *)
LEMMA DeletedIsFinal ==
  ASSUME TypeOK, [Next]_vars, NEW p \in Photos, photo[p] = "deleted"
  PROVE  photo'[p] = "deleted"
<1>. USE DEF TypeOK
<1>1. CASE UNCHANGED vars
  BY <1>1 DEF vars
<1>2. CASE UploadNext
  BY <1>2 DEF UploadNext, StartCounts, StartInserts, StartStops, BrowserPuts
<1>3. ASSUME NEW r \in Pipelines, PipelineNext(r)  PROVE  photo'[p] = "deleted"
  <2>1. CASE CompleteRecords(r)
    BY <2>1 DEF CompleteRecords, Approve, Reject, Rows, PhotoStatus
  <2>. QED
    BY <1>3, <2>1 DEF PipelineNext, CompleteFinds, PipelineReads, PipelineStores,
                      PipelineDeletesOriginal, CompleteStops
<1>4. ASSUME NEW t \in Photos, RemovalNext(t)  PROVE  photo'[p] = "deleted"
  BY <1>4 DEF RemovalNext, DeleteRow, RemoveObject, RemovalFails
<1>5. CASE ListingNext
  BY <1>5 DEF ListingNext, UpdateListing, PublishReads, PublishCounts, Publish,
              PublishStops, TakeOff, Sell, DeleteListing, Rows, PhotoStatus
<1>. QED  BY <1>1, <1>2, <1>3, <1>4, <1>5 DEF Next

(* A photo that was taken down, or whose listing was deleted, is not       *)
(* brought back by a verdict that comes in late.                           *)
THEOREM TakenDownForGood == Spec => DeletedStaysDeleted
<1>1. TypeOK /\ [Next]_vars =>
        [\A p \in Photos : photo[p] = "deleted" => photo'[p] = "deleted"]_vars
  BY DeletedIsFinal
<1>. QED  BY <1>1, TypeCorrect, PTL DEF Spec, DeletedStaysDeleted

(* What one step may do to the row of a photo, to the copy of it that is   *)
(* served, to the objects to be removed, and to a request's finding.       *)
PhotoFrame(p) ==
  photo'[p] = "approved" =>
    \/ photo[p] = "approved"
    \/ \E r \in Pipelines :
         PutsInPlace(r) /\ pipeline[r].photo = p /\ UNCHANGED display

DisplayFrame(p) ==
  \/ display'[p] = display[p]
  \/ display'[p] = "none" /\ <<p, "display">> \in doomed
  \/ display'[p] \in Pictures

DoomedFrame(p) ==
  \A key \in {"upload", "display"} :
    <<p, key>> \in doomed' => <<p, key>> \in doomed \/ photo'[p] = "deleted"

RunFrame(r) ==
  PutsInPlace(r)' =>
    /\ pipeline'[r].photo = pipeline[r].photo
    /\ pipeline[r].photo \in Photos
    /\ PutsInPlace(r) \/ display'[pipeline[r].photo] \in Pictures

StepFrame ==
  /\ \A p \in Photos : PhotoFrame(p) /\ DisplayFrame(p) /\ DoomedFrame(p)
  /\ \A r \in Pipelines : RunFrame(r)

\* What a step of the pipeline leaves alone, for the invariants below.
LEMMA PipelineFrame ==
  ASSUME TypeOK, NEW r \in Pipelines, PipelineNext(r)
  PROVE  StepFrame
<1>. USE DEF TypeOK, StepFrame, PhotoFrame, DisplayFrame, DoomedFrame, RunFrame, PutsInPlace
<1>0. \A s \in Pipelines : pipeline[s] \in Run
  OBVIOUS
<1>1. \A s \in Pipelines : PutsInPlace(s) => pipeline[s].photo \in Photos
  BY <1>0 DEF Run, NoRun
<1>2. ASSUME NEW p \in Photos, CompleteFinds(r, p)  PROVE  StepFrame
  BY <1>1, <1>2 DEF CompleteFinds, pipelineAlone
<1>3. CASE PipelineReads(r)
  BY <1>1, <1>3 DEF PipelineReads, pipelineAlone
<1>4. CASE PipelineStores(r)
  <2>1. pipeline[r].photo \in Photos /\ pipeline[r].bytes \in Pictures
    BY <1>0, <1>4 DEF PipelineStores, Run, NoRun, Bytes
  <2>. QED  BY <1>1, <1>4, <2>1 DEF PipelineStores, pipelineAlone
<1>5. CASE PipelineDeletesOriginal(r)
  <2>1. PutsInPlace(r)' => PutsInPlace(r)
    BY <1>0, <1>5 DEF PipelineDeletesOriginal, Run, NoRun
  <2>2. pipeline'[r].photo = pipeline[r].photo
    BY <1>5 DEF PipelineDeletesOriginal
  <2>3. \A s \in Pipelines : s # r => pipeline'[s] = pipeline[s]
    BY <1>5 DEF PipelineDeletesOriginal
  <2>. QED
    BY <1>1, <1>5, <2>1, <2>2, <2>3 DEF PipelineDeletesOriginal, pipelineAlone
<1>6. CASE CompleteRecords(r)
  <2>1. \A p \in Photos : PhotoFrame(p)
    BY <1>6 DEF CompleteRecords, Approve, Reject
  <2>2. ~ PutsInPlace(r)'
    BY <1>6 DEF CompleteRecords, NoRun
  <2>3. \A s \in Pipelines : s # r => pipeline'[s] = pipeline[s]
    BY <1>6 DEF CompleteRecords
  <2>. QED  BY <1>1, <1>6, <2>1, <2>2, <2>3 DEF CompleteRecords, pipelineAlone
<1>7. CASE CompleteStops(r)
  BY <1>1, <1>7 DEF CompleteStops, pipelineAlone, NoRun
<1>. QED  BY <1>2, <1>3, <1>4, <1>5, <1>6, <1>7 DEF PipelineNext

\* What any step leaves alone.
LEMMA FrameStep == TypeOK /\ [Next]_vars => StepFrame
<1>. SUFFICES ASSUME TypeOK, [Next]_vars  PROVE  StepFrame
  OBVIOUS
<1>. USE DEF TypeOK, StepFrame, PhotoFrame, DisplayFrame, DoomedFrame, RunFrame, PutsInPlace
<1>0. \A r \in Pipelines : PutsInPlace(r) => pipeline[r].photo \in Photos
  BY DEF Run, NoRun
<1>1. CASE UNCHANGED vars
  BY <1>0, <1>1 DEF vars
<1>2. CASE UploadNext
  BY <1>0, <1>2 DEF UploadNext, StartCounts, StartInserts, StartStops, BrowserPuts
<1>3. ASSUME NEW r \in Pipelines, PipelineNext(r)  PROVE  StepFrame
  BY <1>3, PipelineFrame
<1>4. ASSUME NEW t \in Photos, RemovalNext(t)  PROVE  StepFrame
  BY <1>0, <1>4 DEF RemovalNext, DeleteRow, RemoveObject, RemovalFails, removalAlone
<1>5. CASE ListingNext
  BY <1>0, <1>5 DEF ListingNext, UpdateListing, PublishReads, PublishCounts, Publish,
              PublishStops, TakeOff, Sell, DeleteListing, photosAlone, Rows
<1>. QED  BY <1>1, <1>2, <1>3, <1>4, <1>5 DEF Next

-----------------------------------------------------------------------------
(* Whatever the browser puts in the bucket while a request is running, no  *)
(* copy a buyer is shown was made of bytes that would have been refused.   *)
THEOREM NothingUnjudgedIsServed == Spec => []ServedWasJudged
<1>1. Init => ServedWasJudged
  BY DEF Init, ServedWasJudged
<1>2. TypeOK /\ [Next]_vars /\ ServedWasJudged => ServedWasJudged'
  BY FrameStep, PicturesAssumption DEF StepFrame, DisplayFrame, ServedWasJudged
<1>. QED  BY <1>1, <1>2, TypeCorrect, PTL DEF Spec

\* Every step keeps what is known of the stored photos.
LEMMA StoredStep == TypeOK /\ StoredInv /\ [Next]_vars => StoredInv'
<1>. SUFFICES ASSUME TypeOK, StoredInv, [Next]_vars  PROVE  StoredInv'
  OBVIOUS
<1>1. StepFrame
  BY FrameStep
<1>2. \A p \in Photos : photo[p] = "deleted" => photo'[p] = "deleted"
  BY DeletedIsFinal
<1>3. \A p \in Photos, key \in {"upload", "display"} :
        <<p, key>> \in doomed' => photo'[p] = "deleted"
  BY <1>1, <1>2 DEF StoredInv, StepFrame, DoomedFrame
<1>4. \A p \in Photos : display[p] # "none" => display'[p] # "none" \/ photo'[p] = "deleted"
  BY <1>1, <1>2, PicturesAssumption DEF StoredInv, StepFrame, DisplayFrame
<1>5. ASSUME NEW r \in Pipelines, PutsInPlace(r)'
      PROVE  photo'[pipeline'[r].photo] = "deleted" \/ display'[pipeline'[r].photo] # "none"
  BY <1>1, <1>2, <1>4, <1>5, PicturesAssumption DEF StoredInv, StepFrame, RunFrame
<1>6. ASSUME NEW p \in Photos, photo'[p] = "approved"
      PROVE  display'[p] # "none"
  <2>1. CASE photo[p] = "approved"
    BY <1>4, <1>6, <2>1 DEF StoredInv, ServedIsStored
  <2>2. ASSUME NEW r \in Pipelines, PutsInPlace(r), pipeline[r].photo = p, UNCHANGED display
        PROVE  display'[p] # "none"
    BY <1>2, <1>6, <2>2 DEF StoredInv
  <2>. QED  BY <1>1, <1>6, <2>1, <2>2 DEF StepFrame, PhotoFrame
<1>. QED  BY <1>3, <1>5, <1>6 DEF StoredInv, ServedIsStored

(* A gallery never points at a picture that is not in the bucket.          *)
THEOREM NoBrokenGallery == Spec => []ServedIsStored
<1>1. Init => StoredInv
  BY DEF Init, StoredInv, ServedIsStored, PutsInPlace, NoRun
<1>2. StoredInv => ServedIsStored
  BY DEF StoredInv
<1>. QED  BY <1>1, <1>2, StoredStep, TypeCorrect, PTL DEF Spec

-----------------------------------------------------------------------------
(* What a viewer is told of a collection.                                  *)

\* A request that is still at work has answered nothing.
QuietWhileBusy ==
    /\ DOMAIN req = Req /\ DOMAIN answer = Req
    /\ \A r \in Req : req[r] # Idle => answer[r] = Absent

\* At first nothing is under way.
LEMMA QuietStart == CollInit => QuietWhileBusy
BY DEF CollInit, QuietWhileBusy

\* A step leaves every request and answer alone but one, whose answer is that of
\* a page it was asked for, or nothing.
OneRequestMoves ==
    /\ DOMAIN req' = Req /\ DOMAIN answer' = Req
    /\ \/ UNCHANGED <<req, answer>>
       \/ \E r \in Req :
             /\ \A q \in Req \ {r} : req'[q] = req[q] /\ answer'[q] = answer[q]
             /\ answer'[r] = Absent \/ (req'[r] = Idle /\ ViewAnswers(r))

\* A step of the collections moves one request and leaves the rest.
LEMMA RequestSteps == QuietWhileBusy /\ [CollNext]_collVars => OneRequestMoves
<1>. SUFFICES ASSUME QuietWhileBusy, [CollNext]_collVars  PROVE OneRequestMoves
  OBVIOUS
<1>. USE DEF QuietWhileBusy, OneRequestMoves
<1>1. CASE UNCHANGED collVars
  BY <1>1 DEF collVars
<1>2. ASSUME NEW r \in Req, NEW state, Starts(r, state)
      PROVE  OneRequestMoves
  BY <1>2 DEF Starts
<1>3. ASSUME NEW r \in Req, Ends(r, Absent)
      PROVE  OneRequestMoves
  BY <1>3 DEF Ends
<1>4. ASSUME NEW r \in Req, ViewAnswers(r)
      PROVE  OneRequestMoves
  <2>1. /\ DOMAIN req' = Req /\ DOMAIN answer' = Req /\ req'[r] = Idle
        /\ \A q \in Req \ {r} : req'[q] = req[q] /\ answer'[q] = answer[q]
    <3>1. PICK reply : Ends(r, reply)
      BY <1>4 DEF ViewAnswers
    <3>. QED  BY <3>1 DEF Ends
  <2>. QED  BY <1>4, <2>1
<1>5. ASSUME NEW r \in Req, req[r].op # "idle", UNCHANGED answer, DOMAIN req' = Req,
             \A q \in Req \ {r} : req'[q] = req[q]
      PROVE  OneRequestMoves
  <2>1. req[r] # Idle
    BY <1>5 DEF Idle
  <2>2. answer'[r] = Absent
    BY <1>5, <2>1
  <2>. QED  BY <1>5, <2>2
<1>6. ASSUME NEW r \in Req,
             \/ \E p \in User, v \in Visibility : CreateCounts(r, p, v)
             \/ \E p \in User, c \in Id, l \in Line, buy \in Purchase :
                    AddChecks(r, p, c, l, buy)
             \/ \E p \in User, c \in Id, file \in File, mode \in {"add", "replace"} :
                    ImportStarts(r, p, c, file, mode)
             \/ \E p \in User \cup {Visitor}, c \in Id : ViewChecks(r, p, c)
      PROVE  OneRequestMoves
  <2>1. \E state : Starts(r, state)
    BY <1>6 DEF CreateCounts, AddChecks, ImportStarts, ViewChecks
  <2>. QED  BY <1>2, <2>1
<1>7. ASSUME NEW r \in Req,
             (\E c \in Id : CreateInserts(r, c)) \/ AddWrites(r) \/ ImportCommits(r)
               \/ RequestFails(r)
      PROVE  OneRequestMoves
  <2>1. Ends(r, Absent)
    BY <1>7 DEF CreateInserts, AddWrites, ImportCommits, RequestFails
  <2>. QED  BY <1>3, <2>1
<1>8. ASSUME NEW r \in Req, AddReads(r) \/ ImportWrites(r) \/ \E l \in Line : ImportReads(r, l)
      PROVE  OneRequestMoves
  <2>1. CASE AddReads(r)
    <3>1. /\ req[r].op # "idle" /\ UNCHANGED answer
          /\ \E state : req' = [req EXCEPT ![r] = state]
      BY <2>1 DEF AddReads
    <3>. QED  BY <1>5, <3>1
  <2>2. ASSUME NEW l \in Line, ImportReads(r, l)
        PROVE  OneRequestMoves
    <3>1. /\ req[r].op # "idle" /\ UNCHANGED answer
          /\ req' = [req EXCEPT ![r].at = l, ![r].seen = item[req[r].coll][l]]
      BY <2>2 DEF ImportReads
    <3>. QED  BY <1>5, <3>1
  <2>3. CASE ImportWrites(r)
    <3>1. /\ req[r].op # "idle" /\ UNCHANGED answer
          /\ DOMAIN req' = Req /\ \A q \in Req \ {r} : req'[q] = req[q]
      BY <2>3 DEF ImportWrites
    <3>. QED  BY <1>5, <3>1
  <2>. QED  BY <1>8, <2>1, <2>2, <2>3
<1>9. ASSUME NEW p \in User, NEW c \in Id,
             \/ \E v \in Visibility : UpdateCollection(p, c, v)
             \/ DeleteCollection(p, c)
             \/ \E l \in Line, buy \in Purchase : UpdateItem(p, c, l, buy)
             \/ \E l \in Line : RemoveItem(p, c, l)
      PROVE  OneRequestMoves
  BY <1>9 DEF UpdateCollection, DeleteCollection, UpdateItem, RemoveItem
<1>. HIDE DEF OneRequestMoves, QuietWhileBusy
<1>. QED
  BY <1>1, <1>4, <1>6, <1>7, <1>8, <1>9 DEF CollNext

\* After every step a request still at work has answered nothing.
LEMMA QuietStep == QuietWhileBusy /\ [CollNext]_collVars => QuietWhileBusy'
<1>. SUFFICES ASSUME QuietWhileBusy, OneRequestMoves  PROVE QuietWhileBusy'
  BY RequestSteps
<1>. QED  BY DEF QuietWhileBusy, OneRequestMoves

\* What a page shows to one who does not own the collection.
LEMMA PagesKeepSecrets ==
  ASSUME NEW p, NEW c, ~Owns(p, c)
  PROVE  /\ Shown(p, c) = [l \in DOMAIN Shown(p, c) |->
                              Free(Shown(p, c)[l])]
         /\ Visible(Visitor, c) \/ Shown(p, c) = <<>>
<1>1. Lines(p, c) # {} => IsThere(c) /\ coll[c].owner # p
  BY DEF Lines, Owns, Visible
<1>2. DOMAIN Shown(p, c) = Lines(p, c)
  BY DEF Shown
<1>3. ASSUME NEW l \in Lines(p, c)
      PROVE  Shown(p, c)[l] = Free(Shown(p, c)[l])
  <2>1. Shown(p, c)[l] = Free(item[c][l])
    BY <1>1, <1>3 DEF Shown, Masked
  <2>2. Free(Free(item[c][l])) = Free(item[c][l])
    BY DEF Free
  <2>. QED  BY <2>1, <2>2
<1>4. Shown(p, c) = [l \in Lines(p, c) |-> Shown(p, c)[l]]
  BY DEF Shown
<1>5. Visible(Visitor, c) \/ Lines(p, c) = {}
  BY <1>1 DEF Lines, Visible
<1>6. Lines(p, c) = {} => Shown(p, c) = <<>>
  BY DEF Shown
<1>. QED  BY <1>2, <1>3, <1>4, <1>5, <1>6

\* What a page answers of another's collection has no cost and no notes in it,
\* and of one that is not public it shows nothing.
LEMMA AnswerStep ==
  ASSUME OneRequestMoves, QuietWhileBusy, NEW r \in Req, req[r].op = "view",
         answer'[r] # Absent
  PROVE  LET a == answer'[r]
             free == [l \in DOMAIN a.shown |-> Free(a.shown[l])]
         IN  Owns(a.who, a.coll) \/ /\ a.shown = free
                                    /\ a.value = Valuation(free)
                                    /\ Visible(Visitor, a.coll) \/ a.shown = <<>>
<1>1. req[r] # Idle /\ answer[r] = Absent
  BY DEF Idle, QuietWhileBusy
<1>2. ViewAnswers(r)
  BY <1>1 DEF OneRequestMoves
<1>. DEFINE who == req[r].who  c == req[r].coll
<1>3. answer'[r] = [who |-> who, coll |-> c, shown |-> Shown(who, c),
                    value |-> Valuation(Shown(who, c))]
  BY <1>2 DEF ViewAnswers, Ends, QuietWhileBusy
<1>4. CASE Owns(who, c)
  BY <1>3, <1>4
<1>5. CASE ~Owns(who, c)
  <2>. DEFINE shown == Shown(who, c)
              free == [l \in DOMAIN shown |-> Free(shown[l])]
  <2>1. shown = free /\ (Visible(Visitor, c) \/ shown = <<>>)
    <3>. HIDE DEF who, c
    <3>. QED  BY <1>5, PagesKeepSecrets
  <2>2. answer'[r].shown = shown /\ answer'[r].value = Valuation(shown) /\ answer'[r].coll = c
    <3>. HIDE DEF shown, who, c
    <3>. QED  BY <1>3 DEF shown
  <2>. HIDE DEF shown, who, c
  <2>. QED  BY <2>1, <2>2
<1>. QED  BY <1>4, <1>5

\* What somebody else is told of a collection says nothing of what it cost or of
\* what the owner noted.
THEOREM SecretsAreKept == CollSpec => AnswersKeepSecrets
<1>1. ASSUME QuietWhileBusy, [CollNext]_collVars
      PROVE  \A r \in Req : req[r].op = "view" /\ answer'[r] # Absent =>
               LET a == answer'[r]
                   free == [l \in DOMAIN a.shown |-> Free(a.shown[l])]
               IN  Owns(a.who, a.coll) \/ /\ a.shown = free
                                          /\ a.value = Valuation(free)
                                          /\ Visible(Visitor, a.coll) \/ a.shown = <<>>
  <2>1. OneRequestMoves
    BY <1>1, RequestSteps
  <2>. QED  BY <1>1, <2>1, AnswerStep
<1>. QED  BY <1>1, QuietStart, QuietStep, PTL DEF CollSpec, AnswersKeepSecrets

-----------------------------------------------------------------------------
(* The reader of a CSV file, one character after the other.                *)

\* What the reader of a file has in hand, its characters out of C.
Reader(C) ==
    [rows : Seq(Seq(Seq(C))), row : Seq(Seq(C)), field : Seq(C),
     mode : {"plain", "quoted", "closing", "return"}, problem : {"none", "limit", "format"}]

\* A character leaves the reader a reader.
LEMMA ReaderReads ==
  ASSUME NEW C, NEW s \in Reader(C), NEW c \in C
  PROVE  Reads(s, c) \in Reader(C)
<1>. DEFINE row == Append(s.row, s.field)
<1>0. /\ s.rows \in Seq(Seq(Seq(C))) /\ s.row \in Seq(Seq(C)) /\ s.field \in Seq(C)
      /\ row \in Seq(Seq(C)) /\ Append(s.rows, row) \in Seq(Seq(Seq(C)))
      /\ Append(s.field, c) \in Seq(C) /\ <<>> \in Seq(C) /\ <<>> \in Seq(Seq(C))
  BY DEF Reader
<1>1. ASSUME NEW t \in Reader(C), t.rows = s.rows, t.row = s.row, t.field = s.field
      PROVE  EndField(t) \in Reader(C) /\ EndRow(t) \in Reader(C)
  BY <1>0, <1>1 DEF EndField, EndRow, Reader
<1>. DEFINE t == [s EXCEPT !.mode = "plain"]
<1>2. t \in Reader(C) /\ t.rows = s.rows /\ t.row = s.row /\ t.field = s.field
  BY DEF Reader
<1>3. EndField(t) \in Reader(C) /\ EndRow(t) \in Reader(C)
  BY <1>1, <1>2
<1>. HIDE DEF t, row
<1>4. Plain(t, c) \in Reader(C)
  <2>1. [EndRow(t) EXCEPT !.mode = "return"] \in Reader(C)
    BY <1>3 DEF Reader
  <2>2. /\ [t EXCEPT !.problem = "format"] \in Reader(C) /\ [t EXCEPT !.mode = "quoted"] \in Reader(C)
        /\ [t EXCEPT !.field = Append(@, c)] \in Reader(C)
    BY <1>0, <1>2 DEF Reader
  <2>. QED  BY <1>3, <2>1, <2>2 DEF Plain
<1>5. /\ [s EXCEPT !.mode = "closing"] \in Reader(C)
      /\ [s EXCEPT !.field = Append(@, c)] \in Reader(C)
      /\ [s EXCEPT !.mode = "quoted", !.field = Append(@, c)] \in Reader(C)
      /\ [s EXCEPT !.mode = "plain"] \in Reader(C)
  BY <1>0 DEF Reader
<1>. QED  BY <1>4, <1>5 DEF Reads, t

\* Reading text takes the reader from s to t.
Turns(s, text, t) ==
    \E st : /\ st[0] = s /\ st[Len(text)] = t
            /\ \A i \in 1 .. Len(text) : st[i] = Reads(st[i - 1], text[i])

\* No text changes nothing.
LEMMA TurnsNothing ==
  ASSUME NEW s
  PROVE  Turns(s, <<>>, s)
<1>. DEFINE st == [i \in 0 .. 0 |-> s]
<1>1. st[0] = s /\ st[Len(<<>>)] = s /\ \A i \in 1 .. Len(<<>>) : st[i] = Reads(st[i - 1], <<>>[i])
  OBVIOUS
<1>. QED  BY <1>1 DEF Turns

\* One character is one step.
LEMMA TurnsOnce ==
  ASSUME NEW s, NEW c
  PROVE  Turns(s, <<c>>, Reads(s, c))
<1>. DEFINE st == [i \in 0 .. 1 |-> IF i = 0 THEN s ELSE Reads(s, c)]
<1>1. Len(<<c>>) = 1 /\ <<c>>[1] = c
  OBVIOUS
<1>2. st[0] = s /\ st[1] = Reads(s, c)
  OBVIOUS
<1>. HIDE DEF st
<1>3. \A i \in 1 .. Len(<<c>>) : st[i] = Reads(st[i - 1], <<c>>[i])
  <2>1. \A i \in 1 .. Len(<<c>>) : i = 1 /\ i - 1 = 0
    BY <1>1
  <2>. QED  BY <1>1, <1>2, <2>1
<1>. QED  BY <1>1, <1>2, <1>3 DEF Turns

\* Reading one text and then another is reading both joined.
LEMMA TurnsOn ==
  ASSUME NEW C, NEW a \in Seq(C), NEW b \in Seq(C), NEW s, NEW t, NEW u, Turns(s, a, t), Turns(t, b, u)
  PROVE  Turns(s, a \o b, u)
<1>1. PICK f : /\ f[0] = s /\ f[Len(a)] = t
               /\ \A i \in 1 .. Len(a) : f[i] = Reads(f[i - 1], a[i])
  BY DEF Turns
<1>2. PICK g : /\ g[0] = t /\ g[Len(b)] = u
               /\ \A i \in 1 .. Len(b) : g[i] = Reads(g[i - 1], b[i])
  BY DEF Turns
<1>. DEFINE n == Len(a)  m == Len(b)  ab == a \o b
            st == [i \in 0 .. n + m |-> IF i =< n THEN f[i] ELSE g[i - n]]
<1>3. /\ n \in Nat /\ m \in Nat /\ Len(ab) = n + m
      /\ \A i \in 1 .. n : ab[i] = a[i]
      /\ \A i \in n + 1 .. n + m : ab[i] = b[i - n]
  OBVIOUS
<1>. HIDE DEF n, m, ab
<1>4. st[0] = s /\ st[n + m] = u
  <2>1. CASE m = 0
    BY <1>1, <1>2, <1>3, <2>1 DEF n, m
  <2>2. CASE m # 0
    <3>1. n + m \in 0 .. n + m /\ ~(n + m =< n) /\ (n + m) - n = m
      BY <1>3, <2>2
    <3>. QED  BY <1>1, <1>2, <1>3, <3>1 DEF m
  <2>. QED  BY <2>1, <2>2
<1>5. ASSUME NEW i \in 1 .. n + m  PROVE st[i] = Reads(st[i - 1], ab[i])
  <2>1. CASE i =< n
    <3>1. i \in 1 .. n /\ st[i] = f[i] /\ st[i - 1] = f[i - 1]
      BY <1>3, <2>1
    <3>. QED  BY <1>1, <1>3, <3>1 DEF n
  <2>2. CASE i = n + 1
    <3>1. st[i] = g[1] /\ st[i - 1] = f[n] /\ 1 \in 1 .. m /\ i \in n + 1 .. n + m /\ i - n = 1
      BY <1>3, <2>2
    <3>2. g[1] = Reads(g[1 - 1], b[1])
      BY <1>2, <3>1 DEF m
    <3>3. g[1 - 1] = f[n]
      BY <1>1, <1>2 DEF n
    <3>. QED  BY <1>3, <3>1, <3>2, <3>3
  <2>3. CASE i > n + 1
    <3>1. /\ st[i] = g[i - n] /\ st[i - 1] = g[(i - n) - 1] /\ i - n \in 1 .. m
          /\ i \in n + 1 .. n + m
      <4>1. (i - 1) - n = (i - n) - 1 /\ ~(i =< n) /\ ~(i - 1 =< n) /\ i - 1 \in 0 .. n + m
        BY <1>3, <2>3
      <4>. QED  BY <1>3, <2>3, <4>1
    <3>. QED  BY <1>2, <1>3, <3>1 DEF m
  <2>. QED  BY <1>3, <2>1, <2>2, <2>3
<1>. HIDE DEF st
<1>. QED  BY <1>3, <1>4, <1>5 DEF Turns, ab

\* Reading from a blank start is what FoldLeft computes.
LEMMA FoldReads ==
  ASSUME NEW C, NEW text \in Seq(C), NEW t, Turns(Blank, text, t)
  PROVE  FoldLeft(Reads, Blank, text) = t
<1>1. PICK st : /\ st[0] = Blank /\ st[Len(text)] = t
                /\ \A i \in 1 .. Len(text) : st[i] = Reads(st[i - 1], text[i])
  BY DEF Turns
<1>. DEFINE D == DOMAIN text  V == Reader(C)  first == Blank
            c == [s \in SUBSET D |-> Max(s)]
            h == [p \in (SUBSET D) \X V |-> IF p[1] = {} THEN first ELSE Reads(p[2], text[Max(p[1])])]
            Rule(it) == it = [s \in SUBSET D |-> IF s = {} THEN first
                                                ELSE Reads(it[s \ {Max(s)}], text[Max(s)])]
            read == CHOOSE it : Rule(it)
<1>2. D = 1 .. Len(text) /\ Len(text) \in Nat /\ D \in SUBSET Int /\ \A i \in D : text[i] \in C
  OBVIOUS
<1>3. IsFiniteSet(D)
  <2>. DEFINE n == Len(text)  one == 1
  <2>1. n \in Int /\ one \in Int
    BY <1>2
  <2>. HIDE DEF n, one
  <2>2. IsFiniteSet(one .. n)
    BY <2>1, FS_Interval
  <2>. QED  BY <1>2, <2>2 DEF n, one
<1>4. ASSUME NEW s \in SUBSET D, s # {}
      PROVE  Max(s) \in s /\ \A x \in s : x =< Max(s)
  <2>1. s \in SUBSET Int /\ IsFiniteSet(s)
    BY <1>2, <1>3, FS_Subset
  <2>2. \E n \in s : \A m \in s : m =< n
    BY <1>4, <2>1, GreatestNumber
  <2>3. \E x \in s : \A y \in s : x >= y
    BY <2>1, <2>2
  <2>4. Max(s) \in s /\ \A y \in s : Max(s) >= y
    BY <2>3 DEF Max
  <2>. QED  BY <2>1, <2>4
<1>5. first \in V
  BY DEF Blank, Reader
<1>6. PICK g \in [SUBSET D -> V] : FoldRule(g, D, first, c, h)
  <2>1. \A s \in SUBSET D : s # {} => c[s] \in s
    BY <1>4
  <2>2. \A s \in SUBSET D, v \in V : h[<<s, v>>] \in V
    <3>. SUFFICES ASSUME NEW s \in SUBSET D, NEW v \in V  PROVE h[<<s, v>>] \in V
      OBVIOUS
    <3>1. CASE s = {}
      <4>. HIDE DEF V, first
      <4>. QED  BY <1>5, <3>1
    <3>2. CASE s # {}
      <4>1. text[Max(s)] \in C
        BY <1>2, <1>4, <3>2
      <4>2. Reads(v, text[Max(s)]) \in V
        BY <4>1, ReaderReads
      <4>. HIDE DEF V, first, D
      <4>. QED  BY <3>2, <4>2
    <3>. QED  BY <3>1, <3>2
  <2>. HIDE DEF c, h, V, first, D
  <2>. QED  BY <1>3, <1>5, <2>1, <2>2, FoldExists
<1>. HIDE DEF V, first
<1>7. g[{}] = first /\ \A s \in SUBSET D : s # {} => g[s] = Reads(g[s \ {Max(s)}], text[Max(s)])
  BY <1>6 DEF FoldRule
<1>8. Rule(g)
  <2>. HIDE DEF D
  <2>1. \A s \in SUBSET D : g[s] = IF s = {} THEN first ELSE Reads(g[s \ {Max(s)}], text[Max(s)])
    BY <1>7
  <2>2. g = [s \in SUBSET D |-> g[s]]
    OBVIOUS
  <2>. QED  BY <2>1, <2>2, Zenon
<1>9. Rule(read)
  BY <1>8
<1>10. FoldLeft(Reads, Blank, text) = read[D]
  BY DEF FoldLeft, MapThenFoldSet, first
<1>. HIDE DEF read
<1>11. read[{}] = first /\ \A s \in SUBSET D : s # {} => read[s] = Reads(read[s \ {Max(s)}], text[Max(s)])
  <2>. HIDE DEF D
  <2>. QED  BY <1>9
<1>. DEFINE Q == {k \in Nat : k =< Len(text) => read[1 .. k] = st[k]}
<1>12. 0 \in Q
  <2>1. 1 .. 0 = {}
    OBVIOUS
  <2>. QED  BY <1>1, <1>11, <2>1 DEF first
<1>13. ASSUME NEW k \in Nat, k \in Q  PROVE k + 1 \in Q
  <2>0. k + 1 \in Nat
    OBVIOUS
  <2>. SUFFICES ASSUME k + 1 =< Len(text)  PROVE read[1 .. k + 1] = st[k + 1]
    BY <2>0, Zenon
  <2>. DEFINE s == 1 .. k + 1
  <2>1. s \in SUBSET D /\ s # {} /\ k + 1 \in s /\ s \ {k + 1} = 1 .. k /\ \A x \in s : x =< k + 1
    <3>1. s \ {k + 1} = 1 .. k
      OBVIOUS
    <3>2. k + 1 \in s /\ \A x \in s : x =< k + 1
      OBVIOUS
    <3>3. s \in SUBSET (1 .. Len(text))
      BY <1>2
    <3>. QED  BY <1>2, <3>1, <3>2, <3>3
  <2>2. Max(s) = k + 1
    <3>1. Max(s) \in s /\ k + 1 =< Max(s)
      BY <1>4, <2>1
    <3>. HIDE DEF s
    <3>2. Max(s) =< k + 1 /\ Max(s) \in Int
      BY <1>2, <2>1, <3>1
    <3>. QED  BY <3>1, <3>2
  <2>. HIDE DEF s, D
  <2>3. read[s] = Reads(read[1 .. k], text[k + 1])
    BY <1>11, <2>1, <2>2
  <2>4. read[1 .. k] = st[k]
    BY <1>2, <1>13
  <2>5. st[k + 1] = Reads(st[k], text[k + 1])
    <3>1. k + 1 \in 1 .. Len(text) /\ (k + 1) - 1 = k
      BY <1>2
    <3>. QED  BY <1>1, <3>1
  <2>. QED  BY <2>3, <2>4, <2>5 DEF s
<1>14. \A k \in Nat : k \in Q
  <2>. HIDE DEF Q
  <2>. QED  BY <1>12, <1>13, NumberInduction
<1>15. read[1 .. Len(text)] = t
  BY <1>1, <1>2, <1>14
<1>. QED  BY <1>2, <1>10, <1>15

\* Flattening texts puts them one after the other: f[i] is the first i of them.
LEMMA Flattened ==
  ASSUME NEW C, NEW texts \in Seq(Seq(C)), Len(texts) >= 1
  PROVE  \E f : /\ f \in [1 .. Len(texts) -> Seq(C)]
                /\ f[1] = texts[1] /\ \A i \in 2 .. Len(texts) : f[i] = f[i - 1] \o texts[i]
                /\ FlattenSeq(texts) = f[Len(texts)]
<1>. DEFINE n == Len(texts)
            Rule(it) == it = [i \in 1 .. n |-> IF i = 1 THEN texts[i] ELSE it[i - 1] \o texts[i]]
            f == CHOOSE it : Rule(it)
            V == Seq(C)
            base == <<>>
            h == [p \in (1 .. n) \X V |-> p[2] \o texts[p[1]]]
<1>1. n \in Nat /\ n >= 1 /\ 1 \in 1 .. n /\ \A i \in 1 .. n : texts[i] \in V
  OBVIOUS
<1>2. base \in V /\ \A i \in 1 .. n, v \in V : h[<<i, v>>] = v \o texts[i] /\ h[<<i, v>>] \in V
  <2>1. base \in V
    OBVIOUS
  <2>2. \A i \in 1 .. n, v \in V : v \o texts[i] \in V
    BY <1>1
  <2>. HIDE DEF V, n
  <2>3. \A i \in 1 .. n, v \in V : h[<<i, v>>] = v \o texts[i]
    OBVIOUS
  <2>. QED  BY <2>1, <2>2, <2>3
<1>3. base \o texts[1] = texts[1]
  BY <1>1
<1>15. PICK g \in [0 .. n -> V] : RecursionRule(g, n, base, h)
  <2>0. n \in Nat
    BY <1>1
  <2>1. base \in V
    BY <1>2
  <2>2. \A i \in 1 .. n, v \in V : h[<<i, v>>] \in V
    BY <1>2
  <2>. HIDE DEF n, V, base, h
  <2>. QED  BY <2>0, <2>1, <2>2, NumberRecursion
<1>4. g[0] = base /\ \A i \in 1 .. n : g[i] = h[<<i, g[i - 1]>>]
  BY <1>15 DEF RecursionRule
<1>5. \A i \in 1 .. n : g[i] = g[i - 1] \o texts[i] /\ g[i] \in V
  <2>. HIDE DEF V, h
  <2>1. \A i \in 1 .. n : i \in 0 .. n /\ i - 1 \in 0 .. n
    BY <1>1
  <2>. HIDE DEF n
  <2>2. \A i \in 1 .. n : g[i - 1] \in V /\ g[i] \in V
    BY <1>4, <2>1
  <2>. QED  BY <1>2, <1>4, <2>2
<1>6. g[1] = texts[1]
  <2>0. 1 - 1 = 0
    OBVIOUS
  <2>. HIDE DEF n, V, h, base
  <2>1. g[1] = g[1 - 1] \o texts[1]
    BY <1>1, <1>5, Zenon
  <2>. QED  BY <1>3, <1>4, <2>0, <2>1
<1>. HIDE DEF V, base, h
<1>7. Rule([i \in 1 .. n |-> g[i]])
  <2>. DEFINE k == [i \in 1 .. n |-> g[i]]
  <2>1. ASSUME NEW i \in 1 .. n  PROVE k[i] = IF i = 1 THEN texts[i] ELSE k[i - 1] \o texts[i]
    <3>1. CASE i = 1
      BY <1>6, <3>1
    <3>2. CASE i # 1
      <4>1. i - 1 \in 1 .. n /\ k[i] = g[i] /\ k[i - 1] = g[i - 1]
        BY <1>1, <3>2
      <4>. QED  BY <1>5, <3>2, <4>1
    <3>. QED  BY <3>1, <3>2
  <2>2. k = [i \in 1 .. n |-> k[i]]
    OBVIOUS
  <2>. HIDE DEF k
  <2>3. k = [i \in 1 .. n |-> IF i = 1 THEN texts[i] ELSE k[i - 1] \o texts[i]]
    BY <2>1, <2>2, Zenon
  <2>4. Rule(k)
    BY <2>3
  <2>. QED  BY <2>4 DEF k
<1>8. Rule(f)
  BY <1>7
<1>9. FlattenSeq(texts) = f[n]
  BY <1>1 DEF FlattenSeq
<1>. HIDE DEF f
<1>10. /\ f[1] = texts[1] /\ \A i \in 2 .. n : f[i] = f[i - 1] \o texts[i]
       /\ DOMAIN f = 1 .. n /\ f = [i \in 1 .. n |-> f[i]]
  <2>1. \A i \in 1 .. n : f[i] = IF i = 1 THEN texts[i] ELSE f[i - 1] \o texts[i]
    BY <1>8
  <2>2. \A i \in 2 .. n : i \in 1 .. n /\ i # 1
    BY <1>1
  <2>3. f[1] = texts[1]
    BY <1>1, <2>1
  <2>4. \A i \in 2 .. n : f[i] = f[i - 1] \o texts[i]
    BY <2>1, <2>2
  <2>5. DOMAIN f = 1 .. n /\ f = [i \in 1 .. n |-> f[i]]
    BY <1>8
  <2>. QED  BY <2>3, <2>4, <2>5
<1>. DEFINE Q == {k \in Nat : k + 1 =< n => f[k + 1] \in V}
<1>11. 0 \in Q
  <2>. HIDE DEF V, n
  <2>1. 0 + 1 = 1 /\ f[1] \in V
    <3>1. 0 + 1 = 1
      OBVIOUS
    <3>. QED  BY <1>1, <1>10, <3>1, Zenon
  <2>. QED  BY <2>1
<1>12. ASSUME NEW k \in Nat, k \in Q  PROVE k + 1 \in Q
  <2>0. k + 1 \in Nat
    OBVIOUS
  <2>. SUFFICES ASSUME (k + 1) + 1 =< n  PROVE f[(k + 1) + 1] \in V
    BY <2>0, Zenon
  <2>1. /\ f[k + 1] \in V /\ (k + 1) + 1 \in 2 .. n /\ (k + 1) + 1 \in 1 .. n
        /\ ((k + 1) + 1) - 1 = k + 1
    BY <1>1, <1>12
  <2>2. f[(k + 1) + 1] = f[k + 1] \o texts[(k + 1) + 1] /\ texts[(k + 1) + 1] \in V
    <3>. HIDE DEF V, n
    <3>. QED  BY <1>1, <1>10, <2>1
  <2>. QED  BY <2>1, <2>2 DEF V
<1>13. \A k \in Nat : k \in Q
  <2>. HIDE DEF Q
  <2>. QED  BY <1>11, <1>12, NumberInduction
<1>14. \A i \in 1 .. n : f[i] \in V
  <2>. SUFFICES ASSUME NEW i \in 1 .. n  PROVE f[i] \in V
    OBVIOUS
  <2>1. i - 1 \in Nat /\ (i - 1) + 1 = i /\ i =< n
    BY <1>1
  <2>. QED  BY <1>13, <2>1
<1>. QED  BY <1>9, <1>10, <1>14 DEF V

\* If each of the texts takes the reader from one state to the next, all of
\* them flattened take it from the first state to the last.
LEMMA FlattenTurns ==
  ASSUME NEW C, NEW texts \in Seq(Seq(C)), NEW s,
         \A i \in 1 .. Len(texts) : Turns(s[i - 1], texts[i], s[i])
  PROVE  /\ FlattenSeq(texts) \in Seq(C)
         /\ Turns(s[0], FlattenSeq(texts), s[Len(texts)])
         /\ Len(texts) >= 1 /\ texts[1] # <<>> =>
               FlattenSeq(texts) # <<>> /\ Head(FlattenSeq(texts)) = Head(texts[1])
<1>. DEFINE n == Len(texts)
<1>0. n \in Nat /\ \A i \in 1 .. n : texts[i] \in Seq(C)
  OBVIOUS
<1>1. CASE n = 0
  <2>1. FlattenSeq(texts) = <<>>
    BY <1>1 DEF FlattenSeq
  <2>2. Turns(s[0], <<>>, s[0])
    BY TurnsNothing
  <2>. QED  BY <1>1, <2>1, <2>2
<1>2. CASE n >= 1
  <2>1. PICK f : /\ f \in [1 .. n -> Seq(C)]
                 /\ f[1] = texts[1] /\ \A i \in 2 .. n : f[i] = f[i - 1] \o texts[i]
                 /\ FlattenSeq(texts) = f[n]
    BY <1>2, Flattened
  <2>. HIDE DEF n
  <2>. DEFINE Kept(t) == texts[1] # <<>> => t # <<>> /\ Head(t) = Head(texts[1])
              Q == {k \in Nat : k + 1 =< n => Turns(s[0], f[k + 1], s[k + 1]) /\ Kept(f[k + 1])}
  <2>2. 0 \in Q
    <3>1. 1 \in 1 .. n /\ 1 - 1 = 0 /\ 0 + 1 = 1
      BY <1>0, <1>2
    <3>2. Turns(s[0], f[1], s[1])
      BY <2>1, <3>1 DEF n
    <3>. QED  BY <2>1, <3>1, <3>2
  <2>3. ASSUME NEW k \in Nat, k \in Q  PROVE k + 1 \in Q
    <3>. DEFINE m == k + 1
    <3>0. m \in Nat
      OBVIOUS
    <3>. SUFFICES ASSUME m + 1 =< n
                  PROVE  Turns(s[0], f[m + 1], s[m + 1]) /\ Kept(f[m + 1])
      BY <3>0, Zenon
    <3>1. m =< n /\ m \in 1 .. n /\ m + 1 \in 1 .. n /\ m + 1 \in 2 .. n /\ (m + 1) - 1 = m
      BY <1>0
    <3>2. Turns(s[0], f[m], s[m]) /\ Kept(f[m])
      BY <2>3, <3>1
    <3>. HIDE DEF m
    <3>3. f[m + 1] = f[m] \o texts[m + 1] /\ f[m] \in Seq(C) /\ texts[m + 1] \in Seq(C)
      BY <1>0, <2>1, <3>1
    <3>4. Turns(s[m], texts[m + 1], s[m + 1])
      BY <3>1 DEF n
    <3>5. Turns(s[0], f[m + 1], s[m + 1])
      BY <3>2, <3>3, <3>4, TurnsOn
    <3>6. Kept(f[m] \o texts[m + 1])
      <4>. DEFINE a == f[m]  b == texts[m + 1]
      <4>1. a \in Seq(C) /\ b \in Seq(C)
        BY <3>3
      <4>. HIDE DEF a, b
      <4>2. a # <<>> => a \o b # <<>> /\ Head(a \o b) = Head(a)
        BY <4>1
      <4>. QED  BY <3>2, <4>2 DEF a, b
    <3>. QED  BY <3>3, <3>5, <3>6
  <2>4. \A k \in Nat : k \in Q
    <3>. HIDE DEF Q
    <3>. QED  BY <2>2, <2>3, NumberInduction
  <2>5. n - 1 \in Nat /\ (n - 1) + 1 = n /\ n =< n /\ n \in 1 .. n
    BY <1>0, <1>2
  <2>6. Turns(s[0], f[n], s[n]) /\ Kept(f[n])
    BY <2>4, <2>5
  <2>. QED  BY <2>1, <2>5, <2>6 DEF n
<1>. QED  BY <1>0, <1>1, <1>2

\* The same of texts with something written between each two.
LEMMA JoinedTurns ==
  ASSUME NEW C, NEW texts \in Seq(Seq(C)), NEW between \in Seq(C), NEW s,
         Len(texts) >= 1, Turns(s[0], texts[1], s[1]),
         \A i \in 2 .. Len(texts) : Turns(s[i - 1], between \o texts[i], s[i])
  PROVE  /\ Joined(texts, between) \in Seq(C)
         /\ Turns(s[0], Joined(texts, between), s[Len(texts)])
         /\ texts[1] # <<>> => /\ Joined(texts, between) # <<>>
                               /\ Head(Joined(texts, between)) = Head(texts[1])
<1>. DEFINE all == [i \in DOMAIN texts |-> IF i = 1 THEN texts[i] ELSE between \o texts[i]]
            n == Len(texts)
<1>1. n \in Nat /\ n >= 1 /\ DOMAIN texts = 1 .. n /\ \A i \in 1 .. n : texts[i] \in Seq(C)
  OBVIOUS
<1>2. \A i \in 1 .. n : between \o texts[i] \in Seq(C)
  BY <1>1
<1>3. \A i \in 1 .. n : all[i] = IF i = 1 THEN texts[i] ELSE between \o texts[i]
  BY <1>1
<1>4. all \in [1 .. n -> Seq(C)]
  <2>. DEFINE V == Seq(C)
  <2>1. \A i \in 1 .. n : (IF i = 1 THEN texts[i] ELSE between \o texts[i]) \in V
    BY <1>1, <1>2
  <2>. HIDE DEF V
  <2>. QED  BY <1>1, <2>1 DEF V
<1>. HIDE DEF all
<1>5. all \in Seq(Seq(C)) /\ Len(all) = n
  <2>. DEFINE V == Seq(C)
  <2>1. n \in Nat /\ all \in [1 .. n -> V]
    BY <1>1, <1>4
  <2>. HIDE DEF V, n
  <2>2. all \in Seq(V) /\ Len(all) = n
    BY <2>1
  <2>. QED  BY <2>2 DEF V
<1>6. \A i \in 1 .. n : Turns(s[i - 1], all[i], s[i])
  <2>. SUFFICES ASSUME NEW i \in 1 .. n  PROVE Turns(s[i - 1], all[i], s[i])
    OBVIOUS
  <2>1. CASE i = 1
    <3>1. i - 1 = 0 /\ all[i] = texts[1]
      BY <1>1, <1>3, <2>1
    <3>. QED  BY <2>1, <3>1
  <2>2. CASE i # 1
    <3>1. i \in 2 .. n
      BY <1>1, <2>2
    <3>. QED  BY <1>3, <2>2, <3>1
  <2>. QED  BY <2>1, <2>2
<1>7. /\ FlattenSeq(all) \in Seq(C) /\ Turns(s[0], FlattenSeq(all), s[n])
      /\ n >= 1 /\ all[1] # <<>> =>
               FlattenSeq(all) # <<>> /\ Head(FlattenSeq(all)) = Head(all[1])
  <2>. HIDE DEF n
  <2>. QED  BY <1>5, <1>6, FlattenTurns
<1>8. Joined(texts, between) = FlattenSeq(all)
  BY DEF Joined, all
<1>9. all[1] = texts[1]
  BY <1>1, <1>3
<1>. QED  BY <1>1, <1>7, <1>8, <1>9

-----------------------------------------------------------------------------
(* The reader where the writer has been: what toCsv writes, parseCsv reads.*)

\* The reader, with no fault found, where these rows, cells and characters are
\* behind it.
At(rows, row, field, mode) ==
    [rows |-> rows, row |-> row, field |-> field, mode |-> mode, problem |-> "none"]

\* The characters that quoting and guarding may add to what was written.
Marks == {Quote, Comma, CR, LF, "'"}

\* What a quote, a comma and a line feed do to the reader where the writer
\* puts them.
LEMMA ReadsMarks ==
  ASSUME NEW R, NEW r, NEW f
  PROVE  /\ Reads(At(R, r, <<>>, "plain"), Quote) = At(R, r, <<>>, "quoted")
         /\ Reads(At(R, r, <<>>, "return"), LF) = At(R, r, <<>>, "plain")
         /\ Reads(At(R, r, f, "quoted"), Quote) = At(R, r, f, "closing")
         /\ Reads(At(R, r, f, "closing"), Quote) = At(R, r, Append(f, Quote), "quoted")
         /\ Reads(At(R, r, f, "closing"), Comma) = At(R, Append(r, f), <<>>, "plain")
<1>1. Reads(At(R, r, <<>>, "plain"), Quote) = At(R, r, <<>>, "quoted")
  BY DEF Reads, Plain, At, Quote, Comma, CR, LF
<1>2. Reads(At(R, r, <<>>, "return"), LF) = At(R, r, <<>>, "plain")
  BY DEF Reads, Plain, At, Quote, Comma, CR, LF
<1>3. Reads(At(R, r, f, "quoted"), Quote) = At(R, r, f, "closing")
  BY DEF Reads, Plain, At, Quote, Comma, CR, LF
<1>4. Reads(At(R, r, f, "closing"), Quote) = At(R, r, Append(f, Quote), "quoted")
  BY DEF Reads, Plain, At, Quote, Comma, CR, LF
<1>5. Reads(At(R, r, f, "closing"), Comma) = At(R, Append(r, f), <<>>, "plain")
  BY DEF Reads, Plain, EndField, At, Quote, Comma, CR, LF
<1>. QED  BY <1>1, <1>2, <1>3, <1>4, <1>5

\* Between quotes any other character is itself.
LEMMA ReadsPlain ==
  ASSUME NEW R, NEW r, NEW f, NEW c, c # Quote
  PROVE  Reads(At(R, r, f, "quoted"), c) = At(R, r, Append(f, c), "quoted")
BY DEF Reads, At

\* The reader's parts.
LEMMA AtFields ==
  ASSUME NEW R, NEW r, NEW f, NEW m, NEW k
  PROVE  /\ At(R, r, f, m).rows = R /\ At(R, r, f, m).row = r /\ At(R, r, f, m).field = f
         /\ [At(R, r, f, m) EXCEPT !.mode = k] = At(R, r, f, k)
BY DEF At

\* The end of a row within the limit moves the last cell to the row and the
\* row to the rows.
LEMMA RowEnds ==
  ASSUME NEW R, NEW r, NEW f, NEW m, Append(r, f) # <<<<>>>>,
         ~(Len(Append(R, Append(r, f))) > RowLimit + 1)
  PROVE  EndRow(At(R, r, f, m)) = At(Append(R, Append(r, f)), <<>>, <<>>, m)
<1>. DEFINE row == Append(r, f)  all == Append(R, row)  s == At(R, r, f, m)
<1>1. EndRow(s) = [s EXCEPT !.rows = all, !.row = <<>>, !.field = <<>>, !.problem = @]
  <2>1. s.row = r /\ s.field = f /\ s.rows = R /\ row # <<<<>>>> /\ ~(Len(all) > RowLimit + 1)
    BY AtFields
  <2>. HIDE DEF s
  <2>. QED  BY <2>1 DEF EndRow
<1>. HIDE DEF all, row
<1>2. [s EXCEPT !.rows = all, !.row = <<>>, !.field = <<>>, !.problem = @] = At(all, <<>>, <<>>, m)
  <2>1. [s EXCEPT !.rows = all] = At(all, r, f, m)
    BY DEF At
  <2>2. [At(all, r, f, m) EXCEPT !.row = <<>>] = At(all, <<>>, f, m)
    BY DEF At
  <2>3. [At(all, <<>>, f, m) EXCEPT !.field = <<>>] = At(all, <<>>, <<>>, m)
    BY DEF At
  <2>4. [At(all, <<>>, <<>>, m) EXCEPT !.problem = @] = At(all, <<>>, <<>>, m)
    BY DEF At
  <2>. HIDE DEF s
  <2>. QED  BY <2>1, <2>2, <2>3, <2>4
<1>. QED  BY <1>1, <1>2 DEF all, row

\* A carriage return after a closing quote ends the row.
LEMMA ReadsReturn ==
  ASSUME NEW C, NEW R \in Seq(Seq(Seq(C))), NEW r \in Seq(Seq(C)), NEW f \in Seq(C),
         Len(R) =< RowLimit, Append(r, f) # <<<<>>>>
  PROVE  Reads(At(R, r, f, "closing"), CR) = At(Append(R, Append(r, f)), <<>>, <<>>, "return")
<1>. DEFINE row == Append(r, f)  all == Append(R, row)
            s == [At(R, r, f, "closing") EXCEPT !.mode = "plain"]
<1>1. ~(Len(all) > RowLimit + 1)
  <2>1. Len(all) = Len(R) + 1 /\ Len(R) \in Nat /\ RowLimit \in Nat
    BY CsvAssumption
  <2>. QED  BY <2>1
<1>2. s = At(R, r, f, "plain")
  BY AtFields
<1>3. EndRow(s) = At(all, <<>>, <<>>, "plain")
  <2>1. row # <<<<>>>>
    OBVIOUS
  <2>2. EndRow(At(R, r, f, "plain")) = At(all, <<>>, <<>>, "plain")
    BY <1>1, <2>1, RowEnds
  <2>. QED  BY <1>2, <2>2
<1>. HIDE DEF all, row, s
<1>4. Reads(At(R, r, f, "closing"), CR) = Plain(s, CR)
  BY DEF Reads, At, Quote, CR, LF, s
<1>5. Plain(s, CR) = [EndRow(s) EXCEPT !.mode = "return"]
  BY DEF Plain, Quote, CR, LF, Comma
<1>6. [At(all, <<>>, <<>>, "plain") EXCEPT !.mode = "return"] = At(all, <<>>, <<>>, "return")
  BY AtFields
<1>. QED  BY <1>3, <1>4, <1>5, <1>6 DEF all, row

\* What is left of a row of cells once each has been made harmless.
Guards(cells) == [i \in DOMAIN cells |-> Guarded(cells[i])]

\* Guarding adds nothing but an apostrophe.
LEMMA GuardedTyped ==
  ASSUME NEW C, Marks \subseteq C, NEW cell \in Seq(C)
  PROVE  Guarded(cell) \in Seq(C)
BY DEF Guarded, Marks

\* Two characters are one and then the other.
LEMMA Pair ==
  ASSUME NEW C, NEW c \in C, NEW d \in C
  PROVE  <<c>> \in Seq(C) /\ <<c>> \o <<d>> = <<c, d>>
<1>. DEFINE a == <<c>>
<1>1. a \in Seq(C)
  OBVIOUS
<1>2. Append(a, d) = <<c, d>>
  <2>. DEFINE b == <<c, d>>  e == Append(a, d)
  <2>1. b \in Seq(C) /\ Len(b) = 2 /\ b[1] = c /\ b[2] = d
    OBVIOUS
  <2>2. Len(a) = 1 /\ a[1] = c
    OBVIOUS
  <2>. HIDE DEF a, b
  <2>3. e \in Seq(C) /\ Len(e) = Len(a) + 1 /\ e[Len(a) + 1] = d /\ \A i \in 1 .. Len(a) : e[i] = a[i]
    BY <1>1, AppendProperties
  <2>. HIDE DEF e
  <2>4. Len(e) = 2 /\ e[2] = d /\ e[1] = c
    BY <2>2, <2>3
  <2>5. \A i \in 1 .. Len(e) : e[i] = b[i]
    BY <2>1, <2>4
  <2>6. e = b
    BY <2>1, <2>3, <2>4, <2>5, SeqEqual
  <2>. QED  BY <2>6 DEF b, e
<1>. HIDE DEF a
<1>3. Append(a, d) = a \o <<d>>
  BY <1>1, AppendIsConcat
<1>. QED  BY <1>1, <1>2, <1>3 DEF a

\* Text after two characters is text after the one, after the other.
LEMMA TwoFirst ==
  ASSUME NEW C, NEW c \in C, NEW d \in C, NEW text \in Seq(C)
  PROVE  <<c, d>> \o text = <<c>> \o (<<d>> \o text)
<1>. DEFINE a == <<c>>  b == <<d>>
<1>1. a \in Seq(C) /\ b \in Seq(C) /\ <<c, d>> = a \o b
  BY Pair
<1>. HIDE DEF a, b
<1>2. (a \o b) \o text = a \o (b \o text)
  BY <1>1, ConcatAssociative
<1>. QED  BY <1>1, <1>2 DEF a, b

\* A sequence of at least two is all but its last element, and the last.
LEMMA LastApart ==
  ASSUME NEW V, NEW x \in Seq(V), Len(x) >= 2
  PROVE  LET y == SubSeq(x, 1, Len(x) - 1)  z == x[Len(x)]
         IN  y \in Seq(V) /\ z \in V /\ y # <<>> /\ Append(y, z) = x /\ x # <<<<>>>>
<1>. DEFINE k == Len(x)  y == SubSeq(x, 1, k - 1)  z == x[k]  e == <<<<>>>>  w == Append(y, z)
<1>1. k \in Nat /\ k >= 2
  OBVIOUS
<1>2. \A i \in 1 .. k : x[i] \in V
  OBVIOUS
<1>3. Len(e) = 1
  OBVIOUS
<1>. HIDE DEF k, e
<1>4. x # e
  <2>1. k # 1
    BY <1>1
  <2>2. Len(x) # 1
    BY <2>1 DEF k
  <2>. QED  BY <1>3, <2>2, Zenon
<1>5. z \in V /\ k - 1 \in Int /\ 1 \in Int /\ \A i \in 1 .. k - 1 : x[i] \in V
  BY <1>1, <1>2
<1>6. y \in Seq(V) /\ Len(y) = k - 1 /\ \A i \in 1 .. k - 1 : y[i] = x[i]
  <2>. DEFINE m == k - 1  one == 1
  <2>1. m \in Int /\ one \in Int /\ one =< m /\ \A i \in one .. m : x[i] \in V
    BY <1>1, <1>5
  <2>. HIDE DEF m, one
  <2>2. /\ SubSeq(x, one, m) \in Seq(V) /\ Len(SubSeq(x, one, m)) = m - one + 1
        /\ \A i \in 1 .. m - one + 1 : SubSeq(x, one, m)[i] = x[one + i - 1]
    BY <2>1, SubSeqProperties
  <2>3. m - one + 1 = m /\ \A i \in 1 .. m : one + i - 1 = i
    BY <2>1 DEF one
  <2>. QED  BY <2>2, <2>3 DEF m, one
<1>. HIDE DEF y, z
<1>7. w \in Seq(V) /\ Len(w) = Len(y) + 1 /\ w[Len(y) + 1] = z /\ \A i \in 1 .. Len(y) : w[i] = y[i]
  BY <1>5, <1>6, AppendProperties
<1>. HIDE DEF w
<1>8. Len(w) = k /\ \A i \in 1 .. k : w[i] = x[i]
  <2>1. Len(w) = k /\ w[k] = z
    BY <1>1, <1>6, <1>7
  <2>2. \A i \in 1 .. k : i # k => i \in 1 .. k - 1
    BY <1>1
  <2>. QED  BY <1>6, <1>7, <2>1, <2>2 DEF z
<1>9. w = x
  BY <1>7, <1>8, SeqEqual DEF k
<1>10. y # <<>>
  <2>1. Len(y) # 0
    BY <1>1, <1>6
  <2>2. Len(<<>>) = 0
    OBVIOUS
  <2>. QED  BY <2>1, <2>2
<1>. QED  BY <1>4, <1>5, <1>6, <1>9, <1>10 DEF e, w, y, z, k

\* A character between quotes, a quote doubled, is read as itself.
LEMMA CharTurns ==
  ASSUME NEW C, Marks \subseteq C, NEW c \in C, NEW R, NEW r, NEW f
  PROVE  Turns(At(R, r, f, "quoted"), IF c = Quote THEN <<c, c>> ELSE <<c>>,
               At(R, r, Append(f, c), "quoted"))
<1>1. CASE c = Quote
  <2>1. Turns(At(R, r, f, "quoted"), <<c>>, At(R, r, f, "closing"))
    BY <1>1, ReadsMarks, TurnsOnce
  <2>2. Turns(At(R, r, f, "closing"), <<c>>, At(R, r, Append(f, c), "quoted"))
    BY <1>1, ReadsMarks, TurnsOnce
  <2>3. <<c>> \in Seq(C) /\ <<c>> \o <<c>> = <<c, c>>
    BY Pair
  <2>4. Turns(At(R, r, f, "quoted"), <<c>> \o <<c>>, At(R, r, Append(f, c), "quoted"))
    BY <2>1, <2>2, <2>3, TurnsOn
  <2>. QED  BY <1>1, <2>3, <2>4
<1>2. CASE c # Quote
  BY <1>2, ReadsPlain, TurnsOnce
<1>. QED  BY <1>1, <1>2

\* A cell as it is written is read as the cell, guarded.
LEMMA CellTurns ==
  ASSUME NEW C, Marks \subseteq C, NEW cell \in Seq(C), NEW R, NEW r
  PROVE  /\ CsvCell(cell) \in Seq(C) /\ CsvCell(cell) # <<>> /\ Head(CsvCell(cell)) = Quote
         /\ Turns(At(R, r, <<>>, "plain"), CsvCell(cell), At(R, r, Guarded(cell), "closing"))
<1>. DEFINE g == Guarded(cell)  n == Len(g)  quote == <<Quote>>
            texts == [i \in DOMAIN g |-> LET c == g[i] IN IF c = Quote THEN <<c, c>> ELSE <<c>>]
            s == [i \in 0 .. n |-> At(R, r, SubSeq(g, 1, i), "quoted")]
            flat == FlattenSeq(texts)
<1>1. g \in Seq(C) /\ quote \in Seq(C)
  BY GuardedTyped DEF Marks
<1>. HIDE DEF g
<1>2. n \in Nat /\ DOMAIN g = 1 .. n /\ \A i \in 1 .. n : g[i] \in C
  BY <1>1
<1>3. texts \in Seq(Seq(C)) /\ Len(texts) = n
  <2>. DEFINE V == Seq(C)
  <2>1. \A i \in 1 .. n : (LET c == g[i] IN IF c = Quote THEN <<c, c>> ELSE <<c>>) \in V
    BY <1>2
  <2>. HIDE DEF V, n
  <2>2. texts \in [1 .. n -> V]
    BY <1>2, <2>1
  <2>. HIDE DEF texts
  <2>3. texts \in Seq(V) /\ Len(texts) = n
    BY <1>2, <2>2
  <2>. QED  BY <2>3 DEF V
<1>4. \A i \in 1 .. n : texts[i] = IF g[i] = Quote THEN <<g[i], g[i]>> ELSE <<g[i]>>
  BY <1>2
<1>5. \A i \in 1 .. n : Turns(s[i - 1], texts[i], s[i])
  <2>. SUFFICES ASSUME NEW i \in 1 .. n  PROVE Turns(s[i - 1], texts[i], s[i])
    OBVIOUS
  <2>. DEFINE f == SubSeq(g, 1, i - 1)
  <2>1. g[i] \in C /\ texts[i] = IF g[i] = Quote THEN <<g[i], g[i]>> ELSE <<g[i]>>
    BY <1>2, <1>4
  <2>2. SubSeq(g, 1, i) = Append(f, g[i])
    BY <1>1, <1>2
  <2>3. i \in 0 .. n /\ i - 1 \in 0 .. n
    BY <1>2
  <2>4. s[i - 1] = At(R, r, f, "quoted") /\ s[i] = At(R, r, Append(f, g[i]), "quoted")
    <3>1. s[i - 1] = At(R, r, SubSeq(g, 1, i - 1), "quoted")
      BY <2>3
    <3>2. s[i] = At(R, r, SubSeq(g, 1, i), "quoted")
      BY <2>3
    <3>. QED  BY <2>2, <3>1, <3>2
  <2>. HIDE DEF f, s, texts, n
  <2>5. Turns(At(R, r, f, "quoted"), IF g[i] = Quote THEN <<g[i], g[i]>> ELSE <<g[i]>>,
              At(R, r, Append(f, g[i]), "quoted"))
    BY <2>1, CharTurns
  <2>. QED  BY <2>1, <2>4, <2>5
<1>6. s[0] = At(R, r, <<>>, "quoted") /\ s[n] = At(R, r, g, "quoted")
  <2>1. SubSeq(g, 1, 0) = <<>> /\ SubSeq(g, 1, n) = g /\ 0 \in 0 .. n /\ n \in 0 .. n
    BY <1>1, <1>2
  <2>. HIDE DEF n
  <2>2. s[0] = At(R, r, SubSeq(g, 1, 0), "quoted") /\ s[n] = At(R, r, SubSeq(g, 1, n), "quoted")
    BY <2>1
  <2>. QED  BY <2>1, <2>2
<1>7. flat \in Seq(C) /\ Turns(s[0], flat, s[n])
  <2>. HIDE DEF texts, s, n
  <2>. QED  BY <1>3, <1>5, FlattenTurns
<1>8. CsvCell(cell) = (quote \o flat) \o quote
  BY DEF CsvCell, g
<1>. HIDE DEF flat, texts, s, n
<1>9. Turns(At(R, r, <<>>, "plain"), quote, At(R, r, <<>>, "quoted"))
  BY ReadsMarks, TurnsOnce
<1>10. Turns(At(R, r, g, "quoted"), quote, At(R, r, g, "closing"))
  BY ReadsMarks, TurnsOnce
<1>. DEFINE a == quote \o flat
<1>11. a \in Seq(C) /\ a \o quote \in Seq(C) /\ a \o quote # <<>> /\ Head(a \o quote) = Quote
  BY <1>1, <1>7
<1>. HIDE DEF quote
<1>12. Turns(At(R, r, <<>>, "plain"), a, At(R, r, g, "quoted"))
  BY <1>1, <1>6, <1>7, <1>9, TurnsOn
<1>. HIDE DEF a
<1>13. Turns(At(R, r, <<>>, "plain"), a \o quote, At(R, r, g, "closing"))
  BY <1>1, <1>10, <1>11, <1>12, TurnsOn
<1>. QED  BY <1>8, <1>11, <1>13 DEF g, a

\* A row as it is written is read as its cells, guarded; the last of them still
\* has to be ended.
LEMMA RowTurns ==
  ASSUME NEW C, Marks \subseteq C, NEW cells \in Seq(Seq(C)), Len(cells) >= 2, NEW R
  PROVE  /\ CsvRow(cells) \in Seq(C) /\ CsvRow(cells) # <<>> /\ Head(CsvRow(cells)) = Quote
         /\ Guards(cells) \in Seq(Seq(C)) /\ Len(Guards(cells)) = Len(cells)
         /\ Turns(At(R, <<>>, <<>>, "plain"), CsvRow(cells),
                  At(R, SubSeq(Guards(cells), 1, Len(cells) - 1), Guards(cells)[Len(cells)], "closing"))
<1>. DEFINE n == Len(cells)  g == Guards(cells)  comma == <<Comma>>
            texts == [i \in DOMAIN cells |-> CsvCell(cells[i])]
            s == [i \in 0 .. n |-> IF i = 0 THEN At(R, <<>>, <<>>, "plain")
                                   ELSE At(R, SubSeq(g, 1, i - 1), g[i], "closing")]
            V == Seq(C)
<1>1. /\ n \in Nat /\ n >= 2 /\ DOMAIN cells = 1 .. n /\ comma \in Seq(C)
      /\ \A i \in 1 .. n : cells[i] \in Seq(C)
  BY DEF Marks
<1>2. \A i \in 1 .. n : CsvCell(cells[i]) \in V /\ Guarded(cells[i]) \in V
  BY <1>1, CellTurns, GuardedTyped
<1>. HIDE DEF V
<1>3. g \in Seq(V) /\ Len(g) = n /\ \A i \in 1 .. n : g[i] = Guarded(cells[i])
  <2>1. g \in [1 .. n -> V] /\ \A i \in 1 .. n : g[i] = Guarded(cells[i])
    BY <1>1, <1>2 DEF Guards
  <2>. HIDE DEF g, n
  <2>. QED  BY <1>1, <2>1
<1>4. texts \in Seq(V) /\ Len(texts) = n /\ \A i \in 1 .. n : texts[i] = CsvCell(cells[i])
  <2>1. texts \in [1 .. n -> V] /\ \A i \in 1 .. n : texts[i] = CsvCell(cells[i])
    BY <1>1, <1>2
  <2>. HIDE DEF texts, n
  <2>. QED  BY <1>1, <2>1
<1>. HIDE DEF g, texts, n
<1>5. /\ s[0] = At(R, <<>>, <<>>, "plain")
      /\ \A i \in 1 .. n : s[i] = At(R, SubSeq(g, 1, i - 1), g[i], "closing")
  BY <1>1
<1>. HIDE DEF s
<1>6. \A r, i : i \in 1 .. n => Turns(At(R, r, <<>>, "plain"), texts[i], At(R, r, g[i], "closing"))
  BY <1>1, <1>3, <1>4, CellTurns
<1>7. Turns(s[0], texts[1], s[1])
  <2>1. 1 \in 1 .. n /\ SubSeq(g, 1, 1 - 1) = <<>>
    BY <1>1, <1>3
  <2>2. s[1] = At(R, <<>>, g[1], "closing")
    BY <1>5, <2>1
  <2>. QED  BY <1>5, <1>6, <2>1, <2>2
<1>8. \A i \in 2 .. n : Turns(s[i - 1], comma \o texts[i], s[i])
  <2>. SUFFICES ASSUME NEW i \in 2 .. n  PROVE Turns(s[i - 1], comma \o texts[i], s[i])
    OBVIOUS
  <2>. DEFINE r == SubSeq(g, 1, i - 1)  q == SubSeq(g, 1, i - 2)
  <2>1. i \in 1 .. n /\ i - 1 \in 1 .. n /\ (i - 1) - 1 = i - 2
    BY <1>1
  <2>2. r = Append(q, g[i - 1])
    BY <1>1, <1>3
  <2>3. s[i - 1] = At(R, q, g[i - 1], "closing") /\ s[i] = At(R, r, g[i], "closing")
    BY <1>5, <2>1
  <2>. HIDE DEF r, q
  <2>4. Turns(s[i - 1], comma, At(R, r, <<>>, "plain"))
    BY <2>2, <2>3, ReadsMarks, TurnsOnce
  <2>5. Turns(At(R, r, <<>>, "plain"), texts[i], s[i])
    BY <1>6, <2>1, <2>3
  <2>6. texts[i] \in Seq(C) /\ comma \in Seq(C)
    BY <1>1, <1>2, <1>4, <2>1 DEF V
  <2>. HIDE DEF comma
  <2>. QED  BY <2>4, <2>5, <2>6, TurnsOn
<1>9. texts \in Seq(Seq(C)) /\ comma \in Seq(C) /\ Len(texts) >= 1 /\ Len(texts) = n
  BY <1>1, <1>4 DEF V
<1>. HIDE DEF comma
<1>10. /\ Joined(texts, comma) \in Seq(C) /\ Turns(s[0], Joined(texts, comma), s[n])
       /\ texts[1] # <<>> => /\ Joined(texts, comma) # <<>>
                             /\ Head(Joined(texts, comma)) = Head(texts[1])
  <2>1. \A i \in 2 .. Len(texts) : Turns(s[i - 1], comma \o texts[i], s[i])
    BY <1>8, <1>9
  <2>. QED  BY <1>7, <1>9, <2>1, JoinedTurns
<1>11. CsvRow(cells) = Joined(texts, comma)
  BY DEF CsvRow, texts, comma
<1>12. texts[1] # <<>> /\ Head(texts[1]) = Quote
  <2>1. cells[1] \in Seq(C) /\ texts[1] = CsvCell(cells[1])
    BY <1>1, <1>4
  <2>2. /\ CsvCell(cells[1]) # <<>> /\ Head(CsvCell(cells[1])) = Quote
        /\ Turns(At(R, R, <<>>, "plain"), CsvCell(cells[1]), At(R, R, Guarded(cells[1]), "closing"))
    BY <2>1, CellTurns
  <2>. QED  BY <2>1, <2>2
<1>13. s[n] = At(R, SubSeq(g, 1, n - 1), g[n], "closing")
  BY <1>1, <1>5
<1>. QED  BY <1>3, <1>5, <1>10, <1>11, <1>12, <1>13 DEF V, g, n

\* A file as it is written is read as its rows, their cells guarded; the last
\* row still has to be ended.
LEMMA FileTurns ==
  ASSUME NEW C, Marks \subseteq C, NEW rows \in Seq(Seq(Seq(C))), Len(rows) >= 1,
         Len(rows) =< RowLimit + 1, \A i \in 1 .. Len(rows) : Len(rows[i]) >= 2
  PROVE  LET g == [i \in 1 .. Len(rows) |-> Guards(rows[i])]
             n == Len(rows)
         IN  /\ ToCsv(rows) \in Seq(C) /\ ToCsv(rows) # <<>> /\ Head(ToCsv(rows)) = Quote
             /\ g \in Seq(Seq(Seq(C))) /\ Len(g) = n
             /\ Turns(Blank, ToCsv(rows),
                      At(SubSeq(g, 1, n - 1), SubSeq(g[n], 1, Len(g[n]) - 1), g[n][Len(g[n])],
                         "closing"))
<1>0. \A text \in Seq(C) : <<CR, LF>> \o text = <<CR>> \o (<<LF>> \o text)
  <2>1. CR \in C /\ LF \in C
    BY DEF Marks
  <2>. SUFFICES ASSUME NEW text \in Seq(C)
                PROVE  <<CR, LF>> \o text = <<CR>> \o (<<LF>> \o text)
    OBVIOUS
  <2>. DEFINE c == CR  d == LF
  <2>2. c \in C /\ d \in C
    BY <2>1
  <2>. HIDE DEF c, d
  <2>3. <<c, d>> \o text = <<c>> \o (<<d>> \o text)
    BY <2>2, TwoFirst
  <2>. QED  BY <2>3 DEF c, d
<1>. DEFINE n == Len(rows)  g == [i \in 1 .. n |-> Guards(rows[i])]
            between == <<CR, LF>>  cr == <<CR>>  lf == <<LF>>
            texts == [i \in DOMAIN rows |-> CsvRow(rows[i])]
            First(i) == SubSeq(g[i], 1, Len(g[i]) - 1)
            Final(i) == g[i][Len(g[i])]
            s == [i \in 0 .. n |-> IF i = 0 THEN At(<<>>, <<>>, <<>>, "plain")
                                   ELSE At(SubSeq(g, 1, i - 1), First(i), Final(i), "closing")]
            V == Seq(C)  W == Seq(V)
<1>1. /\ n \in Nat /\ n >= 1 /\ DOMAIN rows = 1 .. n
      /\ \A i \in 1 .. n : rows[i] \in W /\ Len(rows[i]) >= 2
  OBVIOUS
<1>2. \A i \in 1 .. n : CsvRow(rows[i]) \in V /\ Guards(rows[i]) \in W /\ Len(Guards(rows[i])) = Len(rows[i])
  BY <1>1, RowTurns
<1>. HIDE DEF V, W
<1>3. g \in Seq(W) /\ Len(g) = n /\ \A i \in 1 .. n : g[i] = Guards(rows[i])
  <2>1. g \in [1 .. n -> W] /\ \A i \in 1 .. n : g[i] = Guards(rows[i])
    BY <1>2
  <2>. HIDE DEF g, n
  <2>. QED  BY <1>1, <2>1
<1>4. texts \in Seq(V) /\ Len(texts) = n /\ \A i \in 1 .. n : texts[i] = CsvRow(rows[i])
  <2>1. texts \in [1 .. n -> V] /\ \A i \in 1 .. n : texts[i] = CsvRow(rows[i])
    BY <1>1, <1>2
  <2>. HIDE DEF texts, n
  <2>. QED  BY <1>1, <2>1
<1>5. \A i \in 1 .. n : g[i] \in W /\ Len(g[i]) >= 2 /\ Len(g[i]) = Len(rows[i])
  BY <1>1, <1>2, <1>3
<1>. HIDE DEF g, texts, First, Final
<1>6. /\ s[0] = At(<<>>, <<>>, <<>>, "plain")
      /\ \A i \in 1 .. n : s[i] = At(SubSeq(g, 1, i - 1), First(i), Final(i), "closing")
  BY <1>1
<1>. HIDE DEF s
<1>7. ASSUME NEW R, NEW i \in 1 .. n
      PROVE  Turns(At(R, <<>>, <<>>, "plain"), texts[i], At(R, First(i), Final(i), "closing"))
  <2>1. rows[i] \in Seq(Seq(C)) /\ Len(rows[i]) >= 2
    BY <1>1 DEF V, W
  <2>2. Turns(At(R, <<>>, <<>>, "plain"), CsvRow(rows[i]),
              At(R, SubSeq(Guards(rows[i]), 1, Len(rows[i]) - 1), Guards(rows[i])[Len(rows[i])], "closing"))
    BY <2>1, RowTurns
  <2>. QED  BY <1>3, <1>4, <1>5, <2>2 DEF First, Final
<1>8. \A i \in 1 .. n : /\ First(i) \in W /\ Final(i) \in V /\ First(i) # <<>>
                        /\ Append(First(i), Final(i)) = g[i]
                        /\ Append(First(i), Final(i)) # <<<<>>>>
  <2>. SUFFICES ASSUME NEW i \in 1 .. n
                PROVE  /\ First(i) \in W /\ Final(i) \in V /\ First(i) # <<>>
                       /\ Append(First(i), Final(i)) = g[i]
                       /\ Append(First(i), Final(i)) # <<<<>>>>
    OBVIOUS
  <2>. DEFINE x == g[i]
  <2>1. x \in Seq(V) /\ Len(x) >= 2 /\ Len(x) \in Nat
    BY <1>5 DEF W
  <2>. HIDE DEF x
  <2>. DEFINE y == SubSeq(x, 1, Len(x) - 1)  z == x[Len(x)]
  <2>2. y \in Seq(V) /\ z \in V /\ y # <<>> /\ Append(y, z) = x /\ x # <<<<>>>>
    BY <2>1, LastApart
  <2>. HIDE DEF y, z
  <2>. QED  BY <2>2 DEF First, Final, W, x, y, z
<1>9. Turns(s[0], texts[1], s[1])
  <2>1. 1 \in 1 .. n /\ SubSeq(g, 1, 1 - 1) = <<>>
    BY <1>1, <1>3
  <2>2. s[1] = At(<<>>, First(1), Final(1), "closing")
    BY <1>6, <2>1
  <2>. QED  BY <1>6, <1>7, <2>1, <2>2
<1>10. \A i \in 2 .. n : Turns(s[i - 1], between \o texts[i], s[i])
  <2>. SUFFICES ASSUME NEW i \in 2 .. n  PROVE Turns(s[i - 1], between \o texts[i], s[i])
    OBVIOUS
  <2>. DEFINE R == SubSeq(g, 1, i - 1)  Q == SubSeq(g, 1, i - 2)  m == i - 1
  <2>1. i \in 1 .. n /\ m \in 1 .. n /\ m - 1 = i - 2
    BY <1>1
  <2>2. R = Append(Q, g[m]) /\ Q \in Seq(W) /\ Len(Q) =< RowLimit
    <3>1. RowLimit \in Nat /\ i =< RowLimit + 1
      BY <1>1, <2>1, CsvAssumption
    <3>2. Len(Q) = i - 2
      BY <1>1, <1>3
    <3>. QED  BY <1>1, <1>3, <3>1, <3>2
  <2>3. s[m] = At(Q, First(m), Final(m), "closing") /\ s[i] = At(R, First(i), Final(i), "closing")
    BY <1>6, <2>1
  <2>4. m = i - 1
    OBVIOUS
  <2>. HIDE DEF R, Q, m
  <2>5. Turns(s[m], cr, At(R, <<>>, <<>>, "return"))
    <3>1. First(m) \in Seq(Seq(C)) /\ Final(m) \in Seq(C) /\ Q \in Seq(Seq(Seq(C)))
      BY <1>8, <2>1, <2>2 DEF V, W
    <3>2. Append(First(m), Final(m)) # <<<<>>>> /\ Append(First(m), Final(m)) = g[m]
      BY <1>8, <2>1
    <3>3. Reads(At(Q, First(m), Final(m), "closing"), CR) = At(Append(Q, Append(First(m), Final(m))), <<>>, <<>>, "return")
      BY <2>2, <3>1, <3>2, ReadsReturn
    <3>4. Reads(s[m], CR) = At(R, <<>>, <<>>, "return")
      BY <2>2, <2>3, <3>2, <3>3
    <3>. QED  BY <3>4, TurnsOnce
  <2>6. Turns(At(R, <<>>, <<>>, "return"), lf, At(R, <<>>, <<>>, "plain"))
    BY ReadsMarks, TurnsOnce
  <2>7. Turns(At(R, <<>>, <<>>, "plain"), texts[i], s[i])
    BY <1>7, <2>1, <2>3
  <2>8. texts[i] \in Seq(C) /\ cr \in Seq(C) /\ lf \in Seq(C) /\ lf \o texts[i] \in Seq(C)
    BY <1>2, <1>4, <2>1 DEF V, Marks
  <2>9. between \o texts[i] = cr \o (lf \o texts[i])
    BY <1>0, <2>8, Zenon
  <2>. HIDE DEF between, cr, lf
  <2>10. Turns(At(R, <<>>, <<>>, "return"), lf \o texts[i], s[i])
    BY <2>6, <2>7, <2>8, TurnsOn
  <2>11. Turns(s[m], cr \o (lf \o texts[i]), s[i])
    BY <2>5, <2>8, <2>10, TurnsOn
  <2>. QED  BY <2>4, <2>9, <2>11
<1>11. texts \in Seq(Seq(C)) /\ between \in Seq(C) /\ Len(texts) >= 1 /\ Len(texts) = n
  BY <1>1, <1>4 DEF V, Marks
<1>. HIDE DEF between
<1>12. /\ Joined(texts, between) \in Seq(C) /\ Turns(s[0], Joined(texts, between), s[n])
       /\ texts[1] # <<>> => /\ Joined(texts, between) # <<>>
                             /\ Head(Joined(texts, between)) = Head(texts[1])
  <2>1. \A i \in 2 .. Len(texts) : Turns(s[i - 1], between \o texts[i], s[i])
    BY <1>10, <1>11
  <2>. QED  BY <1>9, <1>11, <2>1, JoinedTurns
<1>13. ToCsv(rows) = Joined(texts, between)
  BY DEF ToCsv, texts, between
<1>14. texts[1] # <<>> /\ Head(texts[1]) = Quote
  <2>1. rows[1] \in Seq(Seq(C)) /\ Len(rows[1]) >= 2 /\ texts[1] = CsvRow(rows[1])
    BY <1>1, <1>4 DEF V, W
  <2>. QED  BY <2>1, RowTurns
<1>15. s[n] = At(SubSeq(g, 1, n - 1), First(n), Final(n), "closing") /\ s[0] = Blank
  <2>1. n \in 1 .. n
    BY <1>1
  <2>2. Blank = At(<<>>, <<>>, <<>>, "plain")
    BY DEF Blank, At
  <2>. QED  BY <1>6, <2>1, <2>2
<1>. QED  BY <1>3, <1>12, <1>13, <1>14, <1>15 DEF V, W, g, First, Final

\* The parser reads back what the writer wrote, whatever is in the cells: as many
\* rows with as many cells, each what was written with a leading formula
\* character made harmless.  Rows of one cell are left out: the parser drops an
\* empty one.
THEOREM ParsesBack ==
  ASSUME NEW C, Marks \subseteq C, NEW rows \in Seq(Seq(Seq(C))), Len(rows) >= 1,
         Len(rows) =< RowLimit + 1, \A i \in 1 .. Len(rows) : Len(rows[i]) >= 2,
         Len(ToCsv(rows)) =< SizeLimit
  PROVE  LET g == [i \in 1 .. Len(rows) |-> Guards(rows[i])]
         IN  ParseCsv(ToCsv(rows)) =
                 [problem |-> "none", rows |-> Tail(g),
                  header |-> [j \in DOMAIN Head(g) |-> Trimmed(Head(g)[j])]]
<1>. DEFINE n == Len(rows)  g == [i \in 1 .. n |-> Guards(rows[i])]
            text == ToCsv(rows)
            R == SubSeq(g, 1, n - 1)  r == SubSeq(g[n], 1, Len(g[n]) - 1)  f == g[n][Len(g[n])]
            end == At(R, r, f, "closing")  done == At(g, <<>>, <<>>, "closing")
            V == Seq(C)  W == Seq(V)
<1>1. /\ text \in Seq(C) /\ text # <<>> /\ Head(text) = Quote
      /\ g \in Seq(W) /\ Len(g) = n /\ Turns(Blank, text, end)
  BY FileTurns
<1>2. n \in Nat /\ n >= 1 /\ n =< RowLimit + 1 /\ RowLimit \in Nat
  BY CsvAssumption
<1>3. \A i \in 1 .. n : g[i] \in W /\ Len(g[i]) >= 2
  <2>1. \A i \in 1 .. n : rows[i] \in Seq(Seq(C)) /\ Len(rows[i]) >= 2
    OBVIOUS
  <2>. SUFFICES ASSUME NEW i \in 1 .. n  PROVE g[i] \in W /\ Len(g[i]) >= 2
    OBVIOUS
  <2>2. g[i] = Guards(rows[i])
    OBVIOUS
  <2>. HIDE DEF g, n
  <2>3. Guards(rows[i]) \in Seq(Seq(C)) /\ Len(Guards(rows[i])) = Len(rows[i])
    BY <2>1, RowTurns
  <2>. QED  BY <2>1, <2>2, <2>3
<1>. HIDE DEF g, n, text, V, W
<1>4. g[n] \in Seq(V) /\ Len(g[n]) >= 2
  BY <1>2, <1>3 DEF W
<1>5. r \in Seq(V) /\ f \in V /\ r # <<>> /\ Append(r, f) = g[n] /\ g[n] # <<<<>>>>
  BY <1>4, LastApart
<1>6. Append(R, g[n]) = g
  <2>1. CASE n = 1
    <3>1. R = <<>>
      BY <1>1, <2>1
    <3>2. Len(Append(R, g[n])) = 1 /\ Append(R, g[n]) \in Seq(W) /\ Append(R, g[n])[1] = g[n]
      <4>. DEFINE e == <<>>
      <4>1. e \in Seq(W) /\ Len(e) = 0 /\ g[n] \in W
        BY <1>2, <1>3
      <4>. HIDE DEF e
      <4>2. Len(Append(e, g[n])) = 0 + 1 /\ Append(e, g[n]) \in Seq(W) /\ Append(e, g[n])[0 + 1] = g[n]
        BY <4>1, AppendProperties
      <4>3. 0 + 1 = 1
        OBVIOUS
      <4>. QED  BY <3>1, <4>2, <4>3, Zenon DEF e
    <3>. QED  BY <1>1, <2>1, <3>2, SeqEqual
  <2>2. CASE n >= 2
    BY <1>1, <2>2, LastApart
  <2>. QED  BY <1>2, <2>1, <2>2
<1>. HIDE DEF R, r, f
<1>7. EndRow(end) = done
  <2>1. Append(r, f) # <<<<>>>> /\ Append(R, Append(r, f)) = g
    BY <1>5, <1>6
  <2>2. ~(Len(Append(R, Append(r, f))) > RowLimit + 1)
    BY <1>1, <1>2, <2>1
  <2>3. EndRow(end) = At(Append(R, Append(r, f)), <<>>, <<>>, "closing")
    <3>1. Append(r, f) # <<<<>>>>
      BY <2>1
    <3>. HIDE DEF end
    <3>2. \A m : EndRow(At(R, r, f, m)) = At(Append(R, Append(r, f)), <<>>, <<>>, m)
      BY <2>2, <3>1, RowEnds
    <3>. QED  BY <3>2 DEF end
  <2>. QED  BY <2>1, <2>3
<1>8. FoldLeft(Reads, Blank, text) = end
  <2>. HIDE DEF end
  <2>. QED  BY <1>1, FoldReads
<1>9. end.row = r /\ end.field = f /\ end.problem = "none" /\ end.mode = "closing"
  BY DEF At
<1>10. done.rows = g /\ done.problem = "none"
  BY DEF At
<1>11. g # <<>>
  BY <1>1, <1>2
<1>12. ~(Len(text) > SizeLimit)
  <2>1. Len(text) =< SizeLimit
    BY DEF text
  <2>2. Len(text) \in Nat /\ SizeLimit \in Nat
    BY <1>1, CsvAssumption
  <2>. QED  BY <2>1, <2>2
<1>. HIDE DEF end, done
<1>13. ~(text # <<>> /\ Head(text) = ByteOrderMark)
  BY <1>1 DEF Quote, ByteOrderMark
<1>14. ParseCsv(text) = [problem |-> "none", rows |-> Tail(g),
                         header |-> [j \in DOMAIN Head(g) |-> Trimmed(Head(g)[j])]]
  <2>. DEFINE body == IF text # <<>> /\ Head(text) = ByteOrderMark THEN Tail(text) ELSE text
              read == FoldLeft(Reads, Blank, body)
              last == IF read.field # <<>> \/ read.row # <<>> THEN EndRow(read) ELSE read
              problem == CASE Len(text) > SizeLimit -> "limit"
                     [] read.problem # "none" -> read.problem
                     [] read.mode = "quoted" -> "format"
                     [] last.rows = <<>> -> "format"
                     [] OTHER -> last.problem
  <2>1. body = text
    BY <1>13
  <2>2. ParseCsv(text) = IF problem = "none"
            THEN [problem |-> problem, rows |-> Tail(last.rows),
                  header |-> [j \in DOMAIN Head(last.rows) |-> Trimmed(Head(last.rows)[j])]]
            ELSE [problem |-> problem, header |-> <<>>, rows |-> <<>>]
    BY DEF ParseCsv
  <2>. HIDE DEF body
  <2>3. read = end
    BY <1>8, <2>1
  <2>. HIDE DEF read
  <2>4. last = done
    BY <1>5, <1>7, <1>9, <2>3
  <2>. HIDE DEF last
  <2>5. problem = "none"
    BY <1>9, <1>10, <1>11, <1>12, <2>3, <2>4
  <2>. HIDE DEF problem
  <2>. QED  BY <1>10, <2>2, <2>4, <2>5
<1>. QED  BY <1>14 DEF g, n, text

-----------------------------------------------------------------------------
(* An export of a collection, and its import.                              *)

\* A character that is not blank is its own trimming.
LEMMA TrimmedMark ==
  ASSUME NEW c, c \notin Blanks
  PROVE  Trimmed(<<c>>) = <<c>>
<1>. DEFINE cell == <<c>>  marks == {i \in DOMAIN cell : cell[i] \notin Blanks}
            low == CHOOSE i \in marks : \A j \in marks : i <= j
            high == CHOOSE i \in marks : \A j \in marks : i >= j
<1>1. DOMAIN cell = {1} /\ cell[1] = c /\ Len(cell) = 1 /\ cell \in Seq({c})
  OBVIOUS
<1>. HIDE DEF cell
<1>2. marks = {1}
  BY <1>1
<1>. HIDE DEF marks
<1>3. low = 1 /\ high = 1
  BY <1>2
<1>4. Trimmed(cell) = SubSeq(cell, low, high)
  BY <1>2 DEF Trimmed, marks
<1>5. SubSeq(cell, 1, Len(cell)) = cell
  BY <1>1, SubSeqFull
<1>. HIDE DEF low, high
<1>. QED  BY <1>1, <1>3, <1>4, <1>5 DEF cell

\* An amount that is written with its two decimals is parsed as the same amount.
LEMMA MoneyComesBack ==
  ASSUME NEW cents \in Nat
  PROVE  ParseMoney(FormatCents(cents)) = cents
<1>. DEFINE w == cents \div 100  x == (cents % 100) \div 10  y == cents % 10
            f == <<x, y>>
<1>1. w * 100 + x * 10 + y = cents
  OBVIOUS
<1>2. Len(f) = 2 /\ f[1] = x /\ f[2] = y
  OBVIOUS
<1>3. FormatCents(cents).whole = w /\ FormatCents(cents).fraction = f
  BY DEF FormatCents
<1>. HIDE DEF w, x, y, f
<1>4. ParseMoney(FormatCents(cents)) = w * 100 + f[1] * 10 + f[2]
  BY <1>2, <1>3 DEF ParseMoney
<1>. QED  BY <1>1, <1>2, <1>4

\* SetToSeq lists a finite set, each element once.
LEMMA SetInSequence ==
  ASSUME NEW S, IsFiniteSet(S)
  PROVE  LET s == SetToSeq(S)
         IN  /\ s \in Seq(S) /\ \A i, j \in 1 .. Len(s) : s[i] = s[j] => i = j
             /\ \A x \in S : \E i \in 1 .. Len(s) : s[i] = x
<1>. DEFINE n == Cardinality(S)  s == SetToSeq(S)
            Good(f) == f \in [1 .. n -> S] /\ \A i, j \in 1 .. n : f[i] = f[j] => i = j
<1>1. n \in Nat /\ ExistsBijection(1 .. n, S)
  BY FS_CardinalityType
<1>2. \E f : Good(f)
  BY <1>1 DEF ExistsBijection, Bijection, Injection, IsInjective
<1>. HIDE DEF n
<1>3. s = CHOOSE f \in [1 .. n -> S] : IsInjective(f)
  BY DEF SetToSeq, n
<1>4. Good(s)
  <2>1. PICK f : Good(f)
    BY <1>2
  <2>2. f \in [1 .. n -> S] /\ IsInjective(f)
    BY <2>1 DEF IsInjective
  <2>. HIDE DEF s
  <2>3. s \in [1 .. n -> S] /\ IsInjective(s)
    BY <1>3, <2>2
  <2>. QED  BY <2>3 DEF IsInjective
<1>. HIDE DEF s
<1>5. s \in Seq(S) /\ Len(s) = n
  BY <1>1, <1>4
<1>. DEFINE T == {s[i] : i \in 1 .. n}
<1>6. T = S
  <2>1. T \subseteq S
    BY <1>4
  <2>2. IsFiniteSet(T)
    BY <2>1, FS_Subset
  <2>3. s \in Bijection(1 .. n, T)
    BY <1>4 DEF Bijection, Injection, Surjection, IsInjective
  <2>4. Cardinality(T) = n
    <3>1. ExistsBijection(1 .. n, T)
      BY <2>3 DEF ExistsBijection
    <3>. HIDE DEF T
    <3>. QED  BY <1>1, <2>2, <3>1, FS_CountingElements
  <2>. HIDE DEF T
  <2>. QED  BY <2>1, <2>4, FS_Subset DEF n
<1>. QED  BY <1>4, <1>5, <1>6 DEF s

\* A line as an export shows it.
CanBeShown(x) ==
    /\ x.quantity \in 1 .. MaxQuantity
    /\ x.cents \in Nat \cup {Unknown}
    /\ x.notes \in Seq(Char)

\* What may stand in an exported file.
SheetMarks == Line \cup Char \cup Marks \cup {"set", "notes"}

\* The parts of a pair.
LEMMA PairOf ==
  ASSUME NEW a, NEW b
  PROVE  /\ Len(<<a, b>>) = 2 /\ <<a, b>>[1] = a /\ <<a, b>>[2] = b /\ DOMAIN <<a, b>> = 1 .. 2
         /\ \A C : a \in C /\ b \in C => <<a, b>> \in Seq(C)
OBVIOUS

\* A row of two cells is guarded cell by cell.
LEMMA GuardsPair ==
  ASSUME NEW a, NEW b
  PROVE  Guards(<<a, b>>) = <<Guarded(a), Guarded(b)>>
<1>. DEFINE p == <<a, b>>  q == <<Guarded(a), Guarded(b)>>
<1>1. /\ DOMAIN p = 1 .. 2 /\ p[1] = a /\ p[2] = b /\ DOMAIN q = 1 .. 2
      /\ q[1] = Guarded(a) /\ q[2] = Guarded(b) /\ q = [i \in 1 .. 2 |-> q[i]]
  OBVIOUS
<1>. HIDE DEF p, q
<1>2. \A i \in 1 .. 2 : Guarded(p[i]) = q[i]
  <2>1. \A i \in 1 .. 2 : i = 1 \/ i = 2
    OBVIOUS
  <2>. QED  BY <1>1, <2>1
<1>3. Guards(p) = [i \in 1 .. 2 |-> Guarded(p[i])]
  BY <1>1 DEF Guards
<1>. QED  BY <1>1, <1>2, <1>3 DEF p, q

\* A character that does not begin a formula is not guarded.
LEMMA MarkIsKept ==
  ASSUME NEW c, c \notin Formula
  PROVE  Guarded(<<c>>) = <<c>>
BY DEF Guarded

\* What is read from the file that an export wrote.
LEMMA SheetReads ==
  ASSUME NEW shown, NEW lines \in Seq(Line), Len(lines) =< RowLimit,
         \A i \in 1 .. Len(lines) : shown[lines[i]].notes \in Seq(Char),
         Len(Sheet(shown, lines)) =< SizeLimit
  PROVE  LET doc == ParseCsv(Sheet(shown, lines))
         IN  /\ doc.problem = "none" /\ doc.header = <<<<"set">>, <<"notes">>>>
             /\ DOMAIN doc.rows = 1 .. Len(lines)
             /\ \A i \in 1 .. Len(lines) :
                    doc.rows[i] = <<<<lines[i]>>, Guarded(shown[lines[i]].notes)>>
<1>. DEFINE C == SheetMarks  n == Len(lines)  set == <<"set">>  notes == <<"notes">>
            top == <<set, notes>>  one == <<top>>
            body == [i \in DOMAIN lines |-> <<<<lines[i]>>, shown[lines[i]].notes>>]
            all == one \o body
            V == Seq(C)  W == Seq(V)
<1>1. Marks \subseteq C /\ Line \subseteq C /\ Char \subseteq C /\ "set" \in C /\ "notes" \in C
  BY DEF SheetMarks
<1>2. n \in Nat /\ DOMAIN lines = 1 .. n /\ \A i \in 1 .. n : lines[i] \in Line
  OBVIOUS
<1>. HIDE DEF n, C
<1>3. set \in V /\ notes \in V
  BY <1>1
<1>4. \A i \in 1 .. n : <<lines[i]>> \in V /\ shown[lines[i]].notes \in V
  <2>. SUFFICES ASSUME NEW i \in 1 .. n
                PROVE  <<lines[i]>> \in V /\ shown[lines[i]].notes \in V
    OBVIOUS
  <2>1. lines[i] \in C
    BY <1>1, <1>2
  <2>2. shown[lines[i]].notes \in Seq(Char)
    BY DEF n
  <2>3. shown[lines[i]].notes \in Seq(C)
    BY <1>1, <2>2, SeqMonotonic
  <2>. QED  BY <2>1, <2>3
<1>. HIDE DEF set, notes, V
<1>5. top \in W /\ Len(top) = 2
  BY <1>3, PairOf
<1>6. \A i \in 1 .. n : body[i] = <<<<lines[i]>>, shown[lines[i]].notes>> /\ body[i] \in W /\ Len(body[i]) = 2
  <2>. SUFFICES ASSUME NEW i \in 1 .. n
                PROVE  body[i] = <<<<lines[i]>>, shown[lines[i]].notes>> /\ body[i] \in W /\ Len(body[i]) = 2
    OBVIOUS
  <2>1. body[i] = <<<<lines[i]>>, shown[lines[i]].notes>>
    BY <1>2
  <2>. HIDE DEF body
  <2>2. <<<<lines[i]>>, shown[lines[i]].notes>> \in W /\ Len(<<<<lines[i]>>, shown[lines[i]].notes>>) = 2
    BY <1>4, PairOf
  <2>. QED  BY <2>1, <2>2
<1>7. body \in Seq(W) /\ Len(body) = n
  <2>1. body \in [1 .. n -> W]
    <3>. HIDE DEF W
    <3>1. \A i \in DOMAIN lines : <<<<lines[i]>>, shown[lines[i]].notes>> \in W
      BY <1>2, <1>6
    <3>. QED  BY <1>2, <3>1
  <2>. HIDE DEF body, W
  <2>. QED  BY <1>2, <2>1
<1>8. one \in Seq(W) /\ Len(one) = 1 /\ one[1] = top
  <2>. HIDE DEF W, top
  <2>. QED  BY <1>5
<1>. HIDE DEF body, one, W, top
<1>9. /\ all \in Seq(W) /\ Len(all) = n + 1 /\ all[1] = top
      /\ \A i \in 1 .. n : all[i + 1] = body[i]
  <2>1. /\ all \in Seq(W) /\ Len(all) = Len(one) + Len(body)
        /\ \A i \in 1 .. Len(one) + Len(body) : all[i] = IF i =< Len(one) THEN one[i] ELSE body[i - Len(one)]
    BY <1>7, <1>8, ConcatProperties
  <2>. HIDE DEF all
  <2>2. Len(all) = n + 1 /\ \A i \in 1 .. n + 1 : all[i] = IF i =< 1 THEN one[i] ELSE body[i - 1]
    BY <1>2, <1>7, <1>8, <2>1
  <2>3. all[1] = top
    BY <1>2, <1>8, <2>2
  <2>4. \A i \in 1 .. n : all[i + 1] = body[i]
    <3>1. \A i \in 1 .. n : i + 1 \in 1 .. n + 1 /\ ~(i + 1 =< 1) /\ (i + 1) - 1 = i
      BY <1>2
    <3>. QED  BY <2>2, <3>1
  <2>. QED  BY <2>1, <2>2, <2>3, <2>4
<1>10. Sheet(shown, lines) = ToCsv(all)
  BY DEF Sheet, all, one, body, top, set, notes
<1>. HIDE DEF all
<1>11. all \in Seq(Seq(Seq(C))) /\ Len(all) >= 1 /\ Len(all) =< RowLimit + 1 /\ Len(ToCsv(all)) =< SizeLimit
  <2>1. RowLimit \in Nat /\ n =< RowLimit
    BY CsvAssumption DEF n
  <2>. QED  BY <1>2, <1>9, <1>10, <2>1 DEF V, W
<1>12. \A i \in 1 .. Len(all) : Len(all[i]) >= 2
  <2>. SUFFICES ASSUME NEW i \in 1 .. Len(all)  PROVE Len(all[i]) >= 2
    OBVIOUS
  <2>1. Len(all[i]) = 2
    <3>1. CASE i = 1
      BY <1>5, <1>9, <3>1
    <3>2. CASE i # 1
      <4>1. i - 1 \in 1 .. n /\ (i - 1) + 1 = i
        BY <1>2, <1>9, <3>2
      <4>2. all[i] = body[i - 1]
        BY <1>9, <4>1
      <4>. QED  BY <1>6, <4>1, <4>2
    <3>. QED  BY <3>1, <3>2
  <2>2. \A k : k = 2 => k >= 2
    OBVIOUS
  <2>. QED  BY <2>1, <2>2
<1>. DEFINE g == [i \in 1 .. Len(all) |-> Guards(all[i])]
            doc == ParseCsv(ToCsv(all))
<1>13. /\ doc.problem = "none" /\ doc.rows = Tail(g)
       /\ doc.header = [j \in DOMAIN Head(g) |-> Trimmed(Head(g)[j])]
  <2>1. doc = [problem |-> "none", rows |-> Tail(g),
               header |-> [j \in DOMAIN Head(g) |-> Trimmed(Head(g)[j])]]
    BY <1>1, <1>11, <1>12, ParsesBack
  <2>. HIDE DEF doc, g
  <2>. QED  BY <2>1
<1>14. g \in Seq(W) /\ Len(g) = n + 1 /\ g[1] = Guards(top) /\ \A i \in 1 .. n : g[i + 1] = Guards(body[i])
  <2>1. \A i \in 1 .. Len(all) : Guards(all[i]) \in W
    <3>. SUFFICES ASSUME NEW i \in 1 .. Len(all)  PROVE Guards(all[i]) \in W
      OBVIOUS
    <3>1. all[i] \in Seq(Seq(C)) /\ Len(all[i]) >= 2
      BY <1>9, <1>12 DEF V, W
    <3>. QED  BY <1>1, <3>1, RowTurns DEF V, W
  <2>2. g \in [1 .. n + 1 -> W]
    BY <1>9, <2>1
  <2>3. /\ 1 \in 1 .. Len(all) /\ \A i \in 1 .. n : i + 1 \in 1 .. Len(all)
    BY <1>2, <1>9
  <2>4. g[1] = Guards(top) /\ \A i \in 1 .. n : g[i + 1] = Guards(body[i])
    BY <1>9, <2>3
  <2>. HIDE DEF g
  <2>5. g \in Seq(W) /\ Len(g) = n + 1
    BY <1>2, <2>2
  <2>. QED  BY <2>4, <2>5
<1>. HIDE DEF g, doc
<1>15. Head(g) = Guards(top) /\ DOMAIN Tail(g) = 1 .. n /\ \A i \in 1 .. n : Tail(g)[i] = Guards(body[i])
  <2>1. g # <<>>
    BY <1>2, <1>14
  <2>2. Len(Tail(g)) = n /\ \A i \in 1 .. n : Tail(g)[i] = g[i + 1]
    BY <1>2, <1>14, <2>1, HeadTailProperties
  <2>3. Tail(g) \in Seq(W)
    BY <1>14, <2>1, HeadTailProperties
  <2>. QED  BY <1>14, <2>1, <2>2, <2>3
<1>16. doc.header = <<<<"set">>, <<"notes">>>>
  <2>1. "set" \notin Formula \cup Blanks /\ "notes" \notin Formula \cup Blanks
    BY DEF Formula, Blanks, Space, CR, LF, ByteOrderMark
  <2>2. Guarded(set) = set /\ Guarded(notes) = notes /\ Trimmed(set) = set /\ Trimmed(notes) = notes
    BY <2>1, MarkIsKept, TrimmedMark DEF set, notes
  <2>3. Head(g) = <<set, notes>>
    BY <1>15, <2>2, GuardsPair DEF top
  <2>4. doc.header = [j \in DOMAIN <<set, notes>> |-> Trimmed(<<set, notes>>[j])]
    BY <1>13, <2>3
  <2>. DEFINE q == <<set, notes>>
  <2>5. DOMAIN q = 1 .. 2 /\ q[1] = set /\ q[2] = notes /\ q = [j \in 1 .. 2 |-> q[j]]
    OBVIOUS
  <2>. HIDE DEF q
  <2>6. \A j \in 1 .. 2 : Trimmed(q[j]) = q[j]
    <3>1. \A j \in 1 .. 2 : j = 1 \/ j = 2
      OBVIOUS
    <3>. QED  BY <2>2, <2>5, <3>1
  <2>7. doc.header = q
    BY <2>4, <2>5, <2>6 DEF q
  <2>. QED  BY <2>7 DEF q, set, notes
<1>17. ASSUME NEW i \in 1 .. n
       PROVE  doc.rows[i] = <<<<lines[i]>>, Guarded(shown[lines[i]].notes)>>
  <2>1. doc.rows[i] = Guards(<<<<lines[i]>>, shown[lines[i]].notes>>)
    BY <1>6, <1>13, <1>15
  <2>2. lines[i] \notin Formula
    BY <1>2, SheetAssumption
  <2>3. Guarded(<<lines[i]>>) = <<lines[i]>>
    BY <2>2, MarkIsKept
  <2>. QED  BY <2>1, <2>3, GuardsPair
<1>. QED  BY <1>10, <1>13, <1>15, <1>16, <1>17 DEF doc, n

\* The records an import makes of such a file.
LEMMA SheetRecords ==
  ASSUME NEW shown, NEW lines \in Seq(Line), Len(lines) =< RowLimit,
         \A i \in 1 .. Len(lines) : shown[lines[i]].notes \in Seq(Char),
         Len(Sheet(shown, lines)) =< SizeLimit
  PROVE  LET doc == ParseCsv(Sheet(shown, lines))
         IN  /\ doc.problem = "none" /\ HeaderIsGood(doc.header)
             /\ DOMAIN Records(doc) = 1 .. Len(lines)
             /\ \A i \in 1 .. Len(lines) :
                    /\ Records(doc)[i][<<"set">>] = <<lines[i]>>
                    /\ Records(doc)[i][<<"notes">>] = Trimmed(Guarded(shown[lines[i]].notes))
<1>. DEFINE doc == ParseCsv(Sheet(shown, lines))  n == Len(lines)
            set == <<"set">>  notes == <<"notes">>  head == <<set, notes>>
            cell == [i \in 1 .. n |-> <<<<lines[i]>>, Guarded(shown[lines[i]].notes)>>]
<1>1. /\ doc.problem = "none" /\ doc.header = head /\ DOMAIN doc.rows = 1 .. n
      /\ \A i \in 1 .. n : doc.rows[i] = cell[i]
  BY SheetReads
<1>2. n \in Nat /\ \A i \in 1 .. n : lines[i] \in Line
  OBVIOUS
<1>3. set # notes
  <2>1. set[1] = "set" /\ notes[1] = "notes"
    OBVIOUS
  <2>. QED  BY <2>1
<1>. HIDE DEF doc, set, notes, n
<1>4. DOMAIN head = 1 .. 2 /\ head[1] = set /\ head[2] = notes /\ Len(head) = 2
  OBVIOUS
<1>5. \A i \in 1 .. n : /\ cell[i][1] = <<lines[i]>> /\ Len(cell[i]) = 2
                        /\ cell[i][2] = Guarded(shown[lines[i]].notes)
  OBVIOUS
<1>. HIDE DEF head, cell
<1>6. \A j \in 1 .. 2 : j = 1 \/ j = 2
  OBVIOUS
<1>7. Range(head) = {set, notes}
  BY <1>4, <1>6 DEF Range
<1>8. HeaderIsGood(doc.header)
  <2>1. IsInjective(head)
    BY <1>3, <1>4, <1>6 DEF IsInjective
  <2>2. {set, notes} \subseteq Columns /\ Required \subseteq {set, notes}
    BY SheetAssumption DEF set, notes
  <2>. QED  BY <1>1, <1>7, <2>1, <2>2 DEF HeaderIsGood
<1>. DEFINE Column(c) == CHOOSE j \in {k \in DOMAIN head : head[k] = c} :
                             \A k \in {m \in DOMAIN head : head[m] = c} : j >= k
<1>9. Column(set) = 1 /\ Column(notes) = 2
  <2>1. {k \in DOMAIN head : head[k] = set} = {1} /\ {k \in DOMAIN head : head[k] = notes} = {2}
    BY <1>3, <1>4, <1>6
  <2>. QED  BY <2>1
<1>10. {j \in DOMAIN doc.rows : Len(doc.rows[j]) = Len(doc.header)} = 1 .. n
  BY <1>1, <1>4, <1>5
<1>11. Records(doc) = [i \in 1 .. n |-> [c \in Range(head) |-> Trimmed(doc.rows[i][Column(c)])]]
  BY <1>1, <1>10 DEF Records
<1>. HIDE DEF Column
<1>12. ASSUME NEW i \in 1 .. n
       PROVE  /\ Records(doc)[i][set] = <<lines[i]>>
              /\ Records(doc)[i][notes] = Trimmed(Guarded(shown[lines[i]].notes))
  <2>1. Records(doc)[i] = [c \in {set, notes} |-> Trimmed(doc.rows[i][Column(c)])]
    BY <1>7, <1>11
  <2>2. /\ Records(doc)[i][set] = Trimmed(cell[i][1])
        /\ Records(doc)[i][notes] = Trimmed(cell[i][2])
    BY <1>1, <1>9, <2>1
  <2>3. lines[i] \notin Blanks
    BY <1>2, SheetAssumption
  <2>. QED  BY <1>5, <2>2, <2>3, TrimmedMark
<1>. QED  BY <1>1, <1>8, <1>11, <1>12 DEF doc, n, set, notes

\* Each row of a file is about the line at its place, none about two; and what
\* an import keeps of it is the rows that are allowed.
OneRowEach(file, lines, S) ==
    /\ DOMAIN file = 1 .. Len(lines)
    /\ \A i, j \in 1 .. Len(lines) : lines[i] = lines[j] => i = j
    /\ \A x \in S : \E i \in 1 .. Len(lines) : lines[i] = x
    /\ \A i \in 1 .. Len(lines) : file[i].line = lines[i]
KeepsTheAllowed(file, lines) ==
    /\ DOMAIN Resolved(file) = {lines[i] : i \in {j \in 1 .. Len(lines) : ValidRow(file[j])}}
    /\ \A i \in 1 .. Len(lines) : ValidRow(file[i]) => Resolved(file)[lines[i]] = file[i].buy

\* A file with one row for each of its lines loses only those it may not have.
LEMMA ResolvedRows ==
  ASSUME NEW S \in SUBSET Line, NEW lines \in Seq(S), NEW file, OneRowEach(file, lines, S)
  PROVE  KeepsTheAllowed(file, lines)
<1>. USE DEF OneRowEach
<1>. DEFINE n == Len(lines)
            good == {i \in DOMAIN file : ValidRow(file[i]) /\ file[i].line \in Line}
            first == {i \in good : ~\E j \in good : j < i /\ file[j].line = file[i].line}
            valid == {j \in 1 .. n : ValidRow(file[j])}
            Row(l) == CHOOSE i \in first : file[i].line = l
<1>1. n \in Nat /\ \A i \in 1 .. n : lines[i] \in S
  OBVIOUS
<1>2. good = valid
  <2>1. \A i \in 1 .. n : file[i].line \in Line
    BY <1>1
  <2>. QED  BY <2>1
<1>3. first = valid
  <2>1. \A i, j \in 1 .. n : j < i => file[j].line # file[i].line
    <3>. SUFFICES ASSUME NEW i \in 1 .. n, NEW j \in 1 .. n, j < i
                  PROVE  file[j].line # file[i].line
      OBVIOUS
    <3>1. i # j
      BY <1>1
    <3>2. lines[i] # lines[j]
      BY <3>1
    <3>. QED  BY <3>2
  <2>2. \A i \in good : i \in 1 .. n
    BY <1>2
  <2>. HIDE DEF good
  <2>3. \A i \in good : ~\E j \in good : j < i /\ file[j].line = file[i].line
    BY <2>1, <2>2
  <2>. QED  BY <1>2, <2>3
<1>4. Resolved(file) = [l \in {file[i].line : i \in first} |-> file[Row(l)].buy]
  BY DEF Resolved
<1>. HIDE DEF first, good
<1>5. {file[i].line : i \in first} = {lines[i] : i \in valid}
  BY <1>3
<1>6. ASSUME NEW i \in valid  PROVE Row(lines[i]) = i
  <2>1. \E j \in first : file[j].line = lines[i]
    BY <1>3
  <2>2. Row(lines[i]) \in first /\ file[Row(lines[i])].line = lines[i]
    BY <2>1
  <2>. HIDE DEF Row
  <2>3. Row(lines[i]) \in 1 .. n /\ lines[Row(lines[i])] = lines[i]
    BY <1>3, <2>2
  <2>. QED  BY <2>3
<1>. HIDE DEF Row
<1>7. ASSUME NEW i \in 1 .. n, ValidRow(file[i])  PROVE Resolved(file)[lines[i]] = file[i].buy
  <2>1. i \in valid
    BY <1>7
  <2>2. lines[i] \in {lines[k] : k \in valid}
    BY <2>1
  <2>. HIDE DEF valid
  <2>. QED  BY <1>4, <1>5, <1>6, <2>1, <2>2
<1>8. DOMAIN Resolved(file) = {lines[i] : i \in valid}
  BY <1>4, <1>5
<1>. QED  BY <1>7, <1>8 DEF KeepsTheAllowed

\* What comes back of an export whose lines are as the tables allow.
LEMMA ShownComesBack ==
  ASSUME NEW shown, DOMAIN shown \subseteq Line, \A l \in DOMAIN shown : CanBeShown(shown[l]),
         Len(SetToSeq(DOMAIN shown)) =< RowLimit,
         Len(Sheet(shown, SetToSeq(DOMAIN shown))) =< SizeLimit
  PROVE  LET lines == SetToSeq(DOMAIN shown)
             doc == ParseCsv(Sheet(shown, lines))
             again == Resolved(ReadBack(shown, lines))
             Noted(l) == Trimmed(Guarded(shown[l].notes))
         IN  /\ doc.problem = "none" /\ HeaderIsGood(doc.header)
             /\ DOMAIN Records(doc) = DOMAIN lines
             /\ DOMAIN again = {l \in DOMAIN shown : Len(Noted(l)) <= MaxNotes}
             /\ \A l \in DOMAIN again :
                   /\ again[l].quantity = shown[l].quantity
                   /\ again[l].cents = shown[l].cents
                   /\ again[l].currency = shown[l].currency
                   /\ again[l].notes = Noted(l)
<1>. DEFINE S == DOMAIN shown  lines == SetToSeq(S)  n == Len(lines)
            doc == ParseCsv(Sheet(shown, lines))
            file == ReadBack(shown, lines)
            Noted(l) == Trimmed(Guarded(shown[l].notes))
            Bought(l) == [quantity |-> shown[l].quantity, currency |-> shown[l].currency,
                          cents |-> IF shown[l].cents = Unknown THEN Unknown
                                    ELSE ParseMoney(FormatCents(shown[l].cents)),
                          notes |-> Noted(l)]
            Fits(l) == Len(Noted(l)) <= MaxNotes
<1>1. S \subseteq Line /\ IsFiniteSet(S)
  BY CollectionsAssumption, FS_Subset
<1>. HIDE DEF S
<1>2. /\ lines \in Seq(S) /\ \A i, j \in 1 .. n : lines[i] = lines[j] => i = j
      /\ \A x \in S : \E i \in 1 .. n : lines[i] = x
  BY <1>1, SetInSequence
<1>3. n =< RowLimit /\ Len(Sheet(shown, lines)) =< SizeLimit
  BY DEF S
<1>. HIDE DEF lines
<1>4. n \in Nat /\ lines \in Seq(Line) /\ DOMAIN lines = 1 .. n /\ \A i \in 1 .. n : lines[i] \in S
  BY <1>1, <1>2, SeqMonotonic
<1>5. \A l \in S : CanBeShown(shown[l])
  BY DEF S
<1>6. /\ doc.problem = "none" /\ HeaderIsGood(doc.header)
      /\ DOMAIN Records(doc) = 1 .. n
      /\ \A i \in 1 .. n : /\ Records(doc)[i][<<"set">>] = <<lines[i]>>
                           /\ Records(doc)[i][<<"notes">>] = Noted(lines[i])
  <2>1. \A i \in 1 .. Len(lines) : shown[lines[i]].notes \in Seq(Char)
    BY <1>4, <1>5 DEF CanBeShown
  <2>. QED  BY <1>3, <1>4, <2>1, SheetRecords
<1>. HIDE DEF Noted
<1>7. DOMAIN file = 1 .. n /\ \A i \in 1 .. n : file[i].line = lines[i] /\ file[i].buy = Bought(lines[i])
  <2>. DEFINE records == Records(doc)
  <2>1. \A i \in 1 .. n : records[i][<<"set">>] = <<lines[i]>> /\ records[i][<<"notes">>] = Noted(lines[i])
    BY <1>6
  <2>2. file = [i \in DOMAIN lines |->
                  [line |-> Head(records[i][<<"set">>]),
                   buy |-> [quantity |-> shown[lines[i]].quantity,
                            currency |-> shown[lines[i]].currency,
                            cents |-> IF shown[lines[i]].cents = Unknown THEN Unknown
                                      ELSE ParseMoney(FormatCents(shown[lines[i]].cents)),
                            notes |-> records[i][<<"notes">>]]]]
    BY DEF ReadBack
  <2>. HIDE DEF records, file, n
  <2>3. DOMAIN file = 1 .. n
    BY <1>4, <2>2
  <2>. SUFFICES ASSUME NEW i \in 1 .. n
                PROVE  file[i].line = lines[i] /\ file[i].buy = Bought(lines[i])
    BY <2>3
  <2>4. Head(records[i][<<"set">>]) = lines[i]
    BY <2>1
  <2>5. file[i] = [line |-> lines[i], buy |-> Bought(lines[i])]
    BY <1>4, <2>1, <2>2, <2>4
  <2>. QED  BY <2>5
<1>8. ASSUME NEW l \in S
      PROVE  /\ Bought(l).quantity = shown[l].quantity /\ Bought(l).cents = shown[l].cents
             /\ Bought(l).currency = shown[l].currency /\ Bought(l).notes = Noted(l)
  <2>1. shown[l].cents = Unknown \/ shown[l].cents \in Nat
    BY <1>5 DEF CanBeShown
  <2>2. shown[l].cents # Unknown => ParseMoney(FormatCents(shown[l].cents)) = shown[l].cents
    BY <2>1, MoneyComesBack
  <2>. QED  BY <2>2
<1>. HIDE DEF Bought, file
<1>9. \A i \in 1 .. n : ValidRow(file[i]) <=> Fits(lines[i])
  <2>. SUFFICES ASSUME NEW i \in 1 .. n  PROVE ValidRow(file[i]) <=> Fits(lines[i])
    OBVIOUS
  <2>. DEFINE l == lines[i]
  <2>1. /\ l \in S /\ file[i].buy.quantity = shown[l].quantity /\ file[i].buy.notes = Noted(l)
        /\ shown[l].quantity \in 1 .. MaxQuantity
    BY <1>4, <1>5, <1>7, <1>8 DEF CanBeShown
  <2>2. file[i].buy.quantity >= 1 /\ file[i].buy.quantity <= MaxQuantity
    <3>. DEFINE q == shown[l].quantity
    <3>1. q \in 1 .. MaxQuantity /\ MaxQuantity \in Nat /\ file[i].buy.quantity = q
      BY <2>1, CollectionsAssumption
    <3>. HIDE DEF q
    <3>. QED  BY <3>1
  <2>. QED  BY <2>1, <2>2 DEF ValidRow
<1>10. /\ DOMAIN Resolved(file) = {lines[i] : i \in {j \in 1 .. n : ValidRow(file[j])}}
       /\ \A i \in 1 .. n : ValidRow(file[i]) => Resolved(file)[lines[i]] = file[i].buy
  <2>1. OneRowEach(file, lines, S)
    BY <1>2, <1>7 DEF OneRowEach
  <2>2. KeepsTheAllowed(file, lines)
    BY <1>1, <1>2, <2>1, ResolvedRows
  <2>. QED  BY <2>2 DEF KeepsTheAllowed
<1>. HIDE DEF n, Fits
<1>11. DOMAIN Resolved(file) = {l \in S : Fits(l)}
  <2>1. \A i \in {j \in 1 .. n : ValidRow(file[j])} : lines[i] \in S /\ Fits(lines[i])
    BY <1>4, <1>9
  <2>2. \A l \in S : Fits(l) => \E i \in {j \in 1 .. n : ValidRow(file[j])} : lines[i] = l
    BY <1>2, <1>9 DEF n
  <2>. QED  BY <1>10, <2>1, <2>2
<1>12. ASSUME NEW l \in S, Fits(l)  PROVE Resolved(file)[l] = Bought(l)
  <2>1. PICK i \in 1 .. n : lines[i] = l
    BY <1>2 DEF n
  <2>. QED  BY <1>7, <1>9, <1>10, <1>12, <2>1
<1>13. \A l \in DOMAIN Resolved(file) :
           /\ Resolved(file)[l].quantity = shown[l].quantity
           /\ Resolved(file)[l].cents = shown[l].cents
           /\ Resolved(file)[l].currency = shown[l].currency
           /\ Resolved(file)[l].notes = Noted(l)
  BY <1>8, <1>11, <1>12
<1>. HIDE DEF doc
<1>. QED  BY <1>4, <1>6, <1>11, <1>13 DEF doc, file, lines, S, Noted, Fits

\* A line as its columns and the routes allow it to be.
SoundRow(x) == {"quantity", "cents", "notes"} \subseteq DOMAIN x /\ CanBeShown(x)
SoundOrNone(x) == x = Absent \/ SoundRow(x)

\* What a request at work has in hand is what it may write.
SoundRequest(x) ==
    /\ x.op \in {"add", "merge"} =>
           CanBeShown(x.buy) /\ x.coll \in Id /\ x.line \in Line
    /\ x.op = "merge" => SoundOrNone(x.seen)
    /\ x.op = "import" =>
           /\ x.coll \in Id /\ DOMAIN x.rows \subseteq Line
           /\ \A l \in DOMAIN x.rows : CanBeShown(x.rows[l])
           /\ DOMAIN x.written \subseteq Line
           /\ \A l \in DOMAIN x.written : SoundRow(x.written[l])
           /\ SoundOrNone(x.seen) /\ (x.at = Absent \/ x.at \in DOMAIN x.rows)

\* The inductive invariant of the lines: every line there is, and every line a
\* request has seen or written or was asked to write, is as the table allows.
LinesAreSound ==
    /\ DOMAIN item = Id
    /\ \A c \in Id : /\ DOMAIN item[c] = Line
                     /\ \A l \in Line : SoundOrNone(item[c][l])
    /\ DOMAIN req = Req
    /\ \A r \in Req : SoundRequest(req[r])

\* At first there is no line.
LEMMA SoundStart == CollInit => LinesAreSound
<1>. SUFFICES ASSUME CollInit  PROVE LinesAreSound
  OBVIOUS
<1>1. SoundRequest(Idle)
  BY DEF SoundRequest, Idle
<1>. QED  BY <1>1 DEF CollInit, LinesAreSound, NoLines, SoundOrNone

\* The average cost of two purchases is an amount of cents, or not known.
LEMMA AverageIsAPrice ==
  ASSUME NEW q \in 1 .. MaxQuantity, NEW n \in 1 .. MaxQuantity,
         NEW a \in Nat \cup {Unknown}, NEW b \in Nat \cup {Unknown}
  PROVE  WeightedAverage(q, a, n, b) \in Nat \cup {Unknown}
<1>1. CASE a = Unknown \/ b = Unknown
  BY <1>1 DEF WeightedAverage
<1>2. CASE ~(a = Unknown \/ b = Unknown)
  <2>. DEFINE x == q * a  y == n * b  top == 2 * (x + y) + (q + n)  bottom == 2 * (q + n)
  <2>1. a \in Nat /\ b \in Nat /\ q \in Nat /\ n \in Nat /\ q >= 1 /\ n >= 1
    BY <1>2, CollectionsAssumption
  <2>2. x \in Nat /\ y \in Nat
    BY <2>1
  <2>. HIDE DEF x, y
  <2>3. top \in Nat /\ bottom \in Nat /\ bottom >= 1
    BY <2>1, <2>2
  <2>4. WeightedAverage(q, a, n, b) = top \div bottom
    BY <1>2 DEF WeightedAverage, x, y
  <2>. HIDE DEF top, bottom
  <2>5. top \div bottom \in Nat
    BY <2>3
  <2>. QED  BY <2>4, <2>5
<1>. QED  BY <1>1, <1>2

\* What upsertItem writes from a sound line and a sound purchase is sound.
LEMMA WrittenIsSound ==
  ASSUME NEW seen, NEW now, NEW buy, NEW mode, SoundOrNone(seen), SoundOrNone(now), CanBeShown(buy),
         StillThere(seen, now), Accepts(seen, buy, mode)
  PROVE  SoundRow(Upserted(seen, now, buy, mode))
<1>1. SoundRow(NewLine(buy))
  BY DEF SoundRow, NewLine, CanBeShown
<1>2. CASE seen = Absent
  BY <1>1, <1>2 DEF Upserted
<1>3. CASE seen # Absent /\ mode = "replace"
  <2>1. SoundRow([NewLine(buy) EXCEPT !.id = seen.id])
    BY DEF SoundRow, NewLine, CanBeShown
  <2>. QED  BY <1>3, <2>1 DEF Upserted
<1>4. CASE seen # Absent /\ mode # "replace"
  <2>1. SoundRow(seen) /\ SoundRow(now)
    BY <1>4 DEF SoundOrNone, StillThere
  <2>. DEFINE q == seen.quantity + buy.quantity
              m == WeightedAverage(seen.quantity, seen.cents, buy.quantity, buy.cents)
              t == IF seen.notes = <<>> THEN buy.notes ELSE seen.notes
  <2>2. q \in 1 .. MaxQuantity
    <3>1. q =< MaxQuantity
      BY <1>4 DEF Accepts
    <3>. DEFINE a == seen.quantity  b == buy.quantity
    <3>2. a \in 1 .. MaxQuantity /\ b \in 1 .. MaxQuantity
      BY <2>1 DEF SoundRow, CanBeShown
    <3>. HIDE DEF a, b
    <3>3. a + b >= 1 /\ a + b \in Nat
      BY <3>2, CollectionsAssumption
    <3>. QED  BY <3>1, <3>3, CollectionsAssumption DEF a, b
  <2>3. m \in Nat \cup {Unknown}
    BY <2>1, AverageIsAPrice DEF SoundRow, CanBeShown
  <2>4. t \in Seq(Char)
    BY <2>1 DEF SoundRow, CanBeShown
  <2>5. Upserted(seen, now, buy, mode) = [now EXCEPT !.quantity = q, !.cents = m, !.notes = t]
    BY <1>4 DEF Upserted, Merged
  <2>. HIDE DEF q, m, t
  <2>6. SoundRow([now EXCEPT !.quantity = q, !.cents = m, !.notes = t])
    BY <2>1, <2>2, <2>3, <2>4 DEF SoundRow, CanBeShown
  <2>. QED  BY <2>5, <2>6
<1>. QED  BY <1>2, <1>3, <1>4

\* What an import keeps of a file is sound.
LEMMA KeptRowsAreSound ==
  ASSUME NEW file \in File
  PROVE  /\ DOMAIN Resolved(file) \subseteq Line
         /\ \A l \in DOMAIN Resolved(file) : CanBeShown(Resolved(file)[l])
<1>. DEFINE good == {i \in DOMAIN file : ValidRow(file[i]) /\ file[i].line \in Line}
            first == {i \in good : ~\E j \in good : j < i /\ file[j].line = file[i].line}
            Row(l) == CHOOSE i \in first : file[i].line = l
<1>1. Resolved(file) = [l \in {file[i].line : i \in first} |-> file[Row(l)].buy]
  BY DEF Resolved
<1>2. \A i \in first : i \in DOMAIN file /\ ValidRow(file[i]) /\ file[i].line \in Line
  OBVIOUS
<1>. HIDE DEF first
<1>3. ASSUME NEW l \in {file[i].line : i \in first}  PROVE Row(l) \in first
  OBVIOUS
<1>. HIDE DEF Row
<1>4. ASSUME NEW i \in first  PROVE CanBeShown(file[i].buy)
  <2>1. /\ file[i].buy.quantity \in Nat /\ file[i].buy.cents \in Nat \cup {Unknown}
        /\ file[i].buy.notes \in Seq(Char)
    BY <1>2, InputAssumption
  <2>. DEFINE q == file[i].buy.quantity
  <2>2. q \in Nat /\ q >= 1 /\ q <= MaxQuantity
    BY <1>2, <2>1 DEF ValidRow
  <2>. HIDE DEF q
  <2>3. q \in 1 .. MaxQuantity
    BY <2>2, CollectionsAssumption
  <2>. QED  BY <2>1, <2>3 DEF CanBeShown, q
<1>. QED  BY <1>1, <1>2, <1>3, <1>4

\* Every step keeps the lines sound.
LEMMA SoundStep == LinesAreSound /\ [CollNext]_collVars => LinesAreSound'
<1>. SUFFICES ASSUME LinesAreSound, [CollNext]_collVars  PROVE LinesAreSound'
  OBVIOUS
<1>0. /\ DOMAIN item = Id /\ DOMAIN req = Req
      /\ \A c \in Id : DOMAIN item[c] = Line /\ \A l \in Line : SoundOrNone(item[c][l])
      /\ \A r \in Req : SoundRequest(req[r])
  BY DEF LinesAreSound
<1>. DEFINE Lives == /\ DOMAIN item' = Id
                     /\ \A c \in Id : /\ DOMAIN item'[c] = Line
                                      /\ \A l \in Line : SoundOrNone(item'[c][l])
            Asks == DOMAIN req' = Req /\ \A r \in Req : SoundRequest(req'[r])
<1>1. Lives /\ Asks => LinesAreSound'
  BY DEF LinesAreSound
<1>2. item' = item => Lives
  BY <1>0
<1>3. req' = req => Asks
  BY <1>0
<1>4. ASSUME NEW r \in Req, NEW state, SoundRequest(state), req' = [req EXCEPT ![r] = state]
      PROVE  Asks
  BY <1>0, <1>4
<1>5. SoundRequest(Idle)
  BY DEF SoundRequest, Idle
<1>6. ASSUME NEW c \in Id, NEW l \in Line, NEW x, SoundOrNone(x), item' = [item EXCEPT ![c][l] = x]
      PROVE  Lives
  <2>1. DOMAIN item' = Id /\ \A d \in Id : d # c => item'[d] = item[d]
    BY <1>0, <1>6
  <2>2. item'[c] = [item[c] EXCEPT ![l] = x]
    BY <1>0, <1>6
  <2>3. DOMAIN item'[c] = Line /\ \A k \in Line : SoundOrNone(item'[c][k])
    BY <1>0, <1>6, <2>2
  <2>. QED  BY <1>0, <2>1, <2>3
<1>7. ASSUME NEW c \in Id, NEW f, DOMAIN f = Line, \A l \in Line : SoundOrNone(f[l]),
             item' = [item EXCEPT ![c] = f]
      PROVE  Lives
  <2>1. DOMAIN item' = Id /\ item'[c] = f /\ \A d \in Id : d # c => item'[d] = item[d]
    BY <1>0, <1>7
  <2>. QED  BY <1>0, <1>7, <2>1
<1>8. ASSUME NEW r \in Req, NEW reply, Ends(r, reply)
      PROVE  Asks
  BY <1>4, <1>5, <1>8 DEF Ends
<1>. HIDE DEF Lives, Asks
<1>9. CASE UNCHANGED collVars
  BY <1>1, <1>2, <1>3, <1>9 DEF collVars
<1>10. ASSUME NEW r \in Req, NEW p, NEW v, CreateCounts(r, p, v)
       PROVE  Lives /\ Asks
  <2>1. SoundRequest([op |-> "create", who |-> p, visibility |-> v])
    BY DEF SoundRequest
  <2>. QED  BY <1>2, <1>4, <1>10, <2>1 DEF CreateCounts, Starts
<1>11. ASSUME NEW r \in Req, NEW c, CreateInserts(r, c)
       PROVE  Lives /\ Asks
  BY <1>2, <1>8, <1>11 DEF CreateInserts
<1>12. ASSUME NEW p, NEW c, NEW v, UpdateCollection(p, c, v)
       PROVE  Lives /\ Asks
  BY <1>2, <1>3, <1>12 DEF UpdateCollection
<1>13. ASSUME NEW p, NEW c \in Id, DeleteCollection(p, c)
       PROVE  Lives /\ Asks
  <2>1. DOMAIN NoLines = Line /\ \A l \in Line : SoundOrNone(NoLines[l])
    BY DEF NoLines, SoundOrNone
  <2>. QED  BY <1>3, <1>7, <1>13, <2>1 DEF DeleteCollection
<1>14. ASSUME NEW r \in Req, NEW p, NEW c \in Id, NEW l \in Line, NEW buy \in Purchase,
              AddChecks(r, p, c, l, buy)
       PROVE  Lives /\ Asks
  <2>1. SoundRequest([op |-> "add", who |-> p, coll |-> c, line |-> l, buy |-> buy])
    BY InputAssumption DEF SoundRequest, CanBeShown
  <2>. QED  BY <1>2, <1>4, <1>14, <2>1 DEF AddChecks, Starts
<1>15. ASSUME NEW r \in Req, AddReads(r)
       PROVE  Lives /\ Asks
  <2>. DEFINE x == req[r]
              state == [op |-> "merge", who |-> x.who, coll |-> x.coll, line |-> x.line,
                        buy |-> x.buy, seen |-> item[x.coll][x.line]]
  <2>1. x.op = "add" /\ SoundRequest(x)
    BY <1>0, <1>15 DEF AddReads
  <2>2. CanBeShown(x.buy) /\ x.coll \in Id /\ x.line \in Line
    BY <2>1 DEF SoundRequest
  <2>3. SoundOrNone(item[x.coll][x.line])
    BY <1>0, <2>2
  <2>. HIDE DEF x
  <2>4. SoundRequest(state)
    BY <2>2, <2>3 DEF SoundRequest
  <2>5. req' = [req EXCEPT ![r] = state] /\ item' = item
    BY <1>15 DEF AddReads, x
  <2>. HIDE DEF state
  <2>. QED  BY <1>2, <1>4, <2>4, <2>5
<1>16. ASSUME NEW r \in Req, AddWrites(r)
       PROVE  Lives /\ Asks
  <2>. DEFINE x == req[r]  now == item[x.coll][x.line]  new == Upserted(x.seen, now, x.buy, "add")
  <2>1. /\ x.op = "merge" /\ SoundRequest(x) /\ StillThere(x.seen, now) /\ Accepts(x.seen, x.buy, "add")
        /\ item' = [item EXCEPT ![x.coll][x.line] = new]
    BY <1>0, <1>16 DEF AddWrites
  <2>2. CanBeShown(x.buy) /\ x.coll \in Id /\ x.line \in Line /\ SoundOrNone(x.seen)
    BY <2>1 DEF SoundRequest
  <2>3. SoundOrNone(now)
    BY <1>0, <2>2
  <2>. HIDE DEF x, now
  <2>4. SoundOrNone(new)
    BY <2>1, <2>2, <2>3, WrittenIsSound DEF SoundOrNone
  <2>. HIDE DEF new
  <2>5. Lives
    BY <1>6, <2>1, <2>2, <2>4
  <2>6. Asks
    BY <1>8, <1>16 DEF AddWrites
  <2>. QED  BY <2>5, <2>6
<1>17. ASSUME NEW p, NEW c \in Id, NEW l \in Line, NEW buy \in Purchase, UpdateItem(p, c, l, buy)
       PROVE  Lives /\ Asks
  <2>. DEFINE old == item[c][l]
              new == [old EXCEPT !.quantity = buy.quantity, !.cents = buy.cents, !.notes = buy.notes]
  <2>1. SoundRow(old)
    BY <1>0, <1>17 DEF UpdateItem, SoundOrNone
  <2>2. SoundRow(new)
    <3>. HIDE DEF old
    <3>1. CanBeShown(buy)
      BY InputAssumption DEF CanBeShown
    <3>. QED  BY <2>1, <3>1 DEF SoundRow, CanBeShown
  <2>3. item' = [item EXCEPT ![c][l] = new]
    BY <1>0, <1>17 DEF UpdateItem
  <2>. HIDE DEF new
  <2>4. SoundOrNone(new)
    BY <2>2 DEF SoundOrNone
  <2>5. Lives
    BY <1>6, <2>3, <2>4
  <2>. QED  BY <1>3, <1>17, <2>5 DEF UpdateItem
<1>18. ASSUME NEW p, NEW c \in Id, NEW l \in Line, RemoveItem(p, c, l)
       PROVE  Lives /\ Asks
  BY <1>3, <1>6, <1>18 DEF RemoveItem, SoundOrNone
<1>19. ASSUME NEW r \in Req, NEW p, NEW c \in Id, NEW file \in File, NEW mode,
              ImportStarts(r, p, c, file, mode)
       PROVE  Lives /\ Asks
  <2>. DEFINE state == [op |-> "import", who |-> p, coll |-> c, mode |-> mode,
                        rows |-> Resolved(file), written |-> <<>>, at |-> Absent, seen |-> Absent]
  <2>1. DOMAIN state.written = {}
    OBVIOUS
  <2>2. SoundRequest(state)
    <3>1. /\ state.op = "import" /\ state.coll = c /\ state.rows = Resolved(file)
          /\ state.at = Absent /\ state.seen = Absent
      OBVIOUS
    <3>. HIDE DEF state
    <3>. QED  BY <2>1, <3>1, KeptRowsAreSound DEF SoundRequest, SoundOrNone
  <2>3. req' = [req EXCEPT ![r] = state] /\ item' = item
    BY <1>19 DEF ImportStarts, Starts
  <2>. HIDE DEF state
  <2>. QED  BY <1>2, <1>4, <2>2, <2>3
<1>20. ASSUME NEW r \in Req, NEW l \in Line, ImportReads(r, l)
       PROVE  Lives /\ Asks
  <2>. DEFINE x == req[r]  state == [x EXCEPT !.at = l, !.seen = item[x.coll][l]]
  <2>1. x.op = "import" /\ SoundRequest(x) /\ l \in DOMAIN x.rows
    BY <1>0, <1>20 DEF ImportReads
  <2>2. req' = [req EXCEPT ![r] = state] /\ item' = item
    BY <1>0, <1>20 DEF ImportReads
  <2>3. SoundOrNone(item[x.coll][l])
    BY <1>0, <2>1 DEF SoundRequest
  <2>. HIDE DEF x
  <2>4. SoundRequest(state)
    <3>1. /\ state.op = x.op /\ state.coll = x.coll /\ state.rows = x.rows /\ state.written = x.written
          /\ state.at \in {x.at, l} /\ state.seen \in {x.seen, item[x.coll][l]}
      OBVIOUS
    <3>. HIDE DEF state
    <3>. QED  BY <2>1, <2>3, <3>1 DEF SoundRequest
  <2>. HIDE DEF state
  <2>. QED  BY <1>2, <1>4, <2>2, <2>4
<1>21. ASSUME NEW r \in Req, ImportWrites(r)
       PROVE  Lives /\ Asks
  <2>. DEFINE x == req[r]  l == x.at  now == item[x.coll][l]
              new == Upserted(x.seen, now, x.rows[l], x.mode)
              written == [k \in DOMAIN x.written \cup {l} |-> IF k = l THEN new ELSE x.written[k]]
              state == [x EXCEPT !.at = Absent, !.seen = Absent, !.written = written]
  <2>1. /\ x.op = "import" /\ SoundRequest(x) /\ l # Absent /\ StillThere(x.seen, now)
        /\ Accepts(x.seen, x.rows[l], x.mode)
    BY <1>0, <1>21 DEF ImportWrites
  <2>2. req' = [req EXCEPT ![r] = state] /\ item' = item
    BY <1>0, <1>21 DEF ImportWrites
  <2>3. /\ x.coll \in Id /\ DOMAIN x.rows \subseteq Line /\ l \in DOMAIN x.rows
        /\ CanBeShown(x.rows[l]) /\ SoundOrNone(x.seen)
        /\ DOMAIN x.written \subseteq Line /\ \A k \in DOMAIN x.written : SoundRow(x.written[k])
        /\ \A k \in DOMAIN x.rows : CanBeShown(x.rows[k])
    BY <2>1 DEF SoundRequest
  <2>4. SoundOrNone(now)
    BY <1>0, <2>3
  <2>. HIDE DEF x, l, now
  <2>5. SoundRow(new)
    BY <2>1, <2>3, <2>4, WrittenIsSound
  <2>. HIDE DEF new
  <2>6. DOMAIN written \subseteq Line /\ \A k \in DOMAIN written : SoundRow(written[k])
    <3>1. /\ DOMAIN written = {l} \cup DOMAIN x.written
          /\ \A k \in DOMAIN written : written[k] = IF k = l THEN new ELSE x.written[k]
      OBVIOUS
    <3>. HIDE DEF written
    <3>. QED  BY <2>3, <2>5, <3>1
  <2>. HIDE DEF written
  <2>7. SoundRequest(state)
    <3>1. /\ state.op = x.op /\ state.coll = x.coll /\ state.rows = x.rows
          /\ state.written \in {x.written, written}
          /\ state.at \in {x.at, Absent} /\ state.seen \in {x.seen, Absent}
      OBVIOUS
    <3>. HIDE DEF state
    <3>2. SoundOrNone(Absent)
      BY DEF SoundOrNone
    <3>. QED  BY <2>1, <2>3, <2>6, <3>1, <3>2 DEF SoundRequest, l
  <2>. HIDE DEF state
  <2>. QED  BY <1>2, <1>4, <2>2, <2>7
<1>22. ASSUME NEW r \in Req, ImportCommits(r)
       PROVE  Lives /\ Asks
  <2>. DEFINE x == req[r]  c == x.coll  f == [l \in Line |-> IF l \in DOMAIN x.written THEN x.written[l] ELSE item[c][l]]
  <2>1. x.op = "import" /\ SoundRequest(x)
    BY <1>0, <1>22 DEF ImportCommits
  <2>2. c \in Id /\ DOMAIN x.written \subseteq Line /\ \A k \in DOMAIN x.written : SoundRow(x.written[k])
    BY <2>1 DEF SoundRequest
  <2>3. item' = [item EXCEPT ![c] = f]
    BY <1>0, <1>22, <2>2 DEF ImportCommits
  <2>. HIDE DEF x, c
  <2>4. /\ DOMAIN f = Line
        /\ \A k \in Line : f[k] = IF k \in DOMAIN x.written THEN x.written[k] ELSE item[c][k]
    OBVIOUS
  <2>. HIDE DEF f
  <2>5. DOMAIN f = Line /\ \A k \in Line : SoundOrNone(f[k])
    BY <1>0, <2>2, <2>4 DEF SoundOrNone
  <2>6. Lives
    BY <1>7, <2>2, <2>3, <2>5
  <2>. QED  BY <1>8, <1>22, <2>6 DEF ImportCommits
<1>23. ASSUME NEW r \in Req, RequestFails(r) \/ ViewAnswers(r)
       PROVE  Lives /\ Asks
  BY <1>2, <1>8, <1>23 DEF RequestFails, ViewAnswers
<1>24. ASSUME NEW r \in Req, NEW p, NEW c, ViewChecks(r, p, c)
       PROVE  Lives /\ Asks
  <2>1. SoundRequest([op |-> "view", who |-> p, coll |-> c])
    BY DEF SoundRequest
  <2>. QED  BY <1>2, <1>4, <1>24, <2>1 DEF ViewChecks, Starts
<1>. QED
  BY <1>1, <1>9, <1>10, <1>11, <1>12, <1>13, <1>14, <1>15, <1>16, <1>17, <1>18, <1>19, <1>20,
     <1>21, <1>22, <1>23, <1>24 DEF CollNext

\* So a viewer is only shown what an export can write: a line, or the line
\* without its cost and notes.
LEMMA SoundIsShown ==
  ASSUME LinesAreSound, NEW p, NEW c \in Id
  PROVE  DOMAIN Shown(p, c) \subseteq Line /\ \A l \in DOMAIN Shown(p, c) : CanBeShown(Shown(p, c)[l])
<1>1. DOMAIN Shown(p, c) = Lines(p, c)
  BY DEF Shown
<1>2. Lines(p, c) \subseteq Line /\ \A l \in Lines(p, c) : SoundRow(item[c][l])
  BY DEF Lines, LinesAreSound, SoundOrNone
<1>3. ASSUME NEW l \in Lines(p, c)  PROVE CanBeShown(Shown(p, c)[l])
  <2>. DEFINE x == item[c][l]
  <2>1. Shown(p, c)[l] = x \/ Shown(p, c)[l] = Free(x)
    BY <1>3 DEF Shown, Masked
  <2>2. SoundRow(x)
    BY <1>2
  <2>. HIDE DEF x
  <2>3. CanBeShown(x) /\ CanBeShown(Free(x))
    BY <2>2 DEF SoundRow, CanBeShown, Free
  <2>. QED  BY <2>1, <2>3
<1>. QED  BY <1>1, <1>2, <1>3

\* Whatever is in a collection, the file that its export writes is a file that
\* its import reads (exportCollectionCsv, toCsv, parseCsv and
\* resolveImportRows): no line is lost or changed but one whose notes were so
\* long that guarding them against formulas makes them longer than notes may be.
THEOREM ExportsComeBack == CollSpec => []ExportComesBack
<1>1. LinesAreSound => ExportComesBack
  <2>. SUFFICES ASSUME LinesAreSound  PROVE ExportComesBack
    OBVIOUS
  <2>1. ASSUME NEW p, NEW c \in Id
        PROVE  DOMAIN Shown(p, c) \subseteq Line /\ \A l \in DOMAIN Shown(p, c) : CanBeShown(Shown(p, c)[l])
    BY <2>1, SoundIsShown
  <2>. QED  BY <2>1, ShownComesBack DEF ExportComesBack
<1>. QED  BY <1>1, SoundStart, SoundStep, PTL DEF CollSpec

-----------------------------------------------------------------------------
(* Ratings.                                                                *)

\* Orders somebody has rated.
Rated == {o \in Order : rating[o] # None}

RatingsStand ==
    /\ DOMAIN order = Order /\ DOMAIN rating = Order
    /\ IsFiniteSet(Rated)
    /\ \A o \in Rated :
          /\ order[o] \in {"completed", "disputed", "refunded"}
          /\ rating[o] = [rater |-> Buyer[o], seller |-> Seller[o], stars |-> rating[o].stars]
          /\ rating[o].stars \in 1 .. 5

\* At first nobody has rated.
LEMMA RatingsStart == RepInit => RatingsStand
<1>. SUFFICES ASSUME RepInit  PROVE RatingsStand
  OBVIOUS
<1>1. Rated = {}
  BY DEF RepInit, Rated
<1>. QED  BY <1>1, FS_EmptySet DEF RepInit, RatingsStand

\* After every step each rating is of a finished order, by its two parties.
LEMMA RatingsStep == RatingsStand /\ [RepNext]_repVars => RatingsStand'
<1>. SUFFICES ASSUME RatingsStand, [RepNext]_repVars  PROVE RatingsStand'
  OBVIOUS
<1>. USE DEF RatingsStand, Rated
<1>1. CASE UNCHANGED rateVars
  BY <1>1 DEF rateVars
<1>2. ASSUME NEW o \in Order, NEW to \in OrderStatus, NEW actor \in OrderActor,
             OrderMoves(o, to, actor)
      PROVE  RatingsStand'
  <2>1. order[o] \in {"completed", "disputed", "refunded"}
          => to \in {"completed", "disputed", "refunded"}
    BY <1>2 DEF OrderMoves, CanTransition, Moves
  <2>2. rating' = rating /\ order' = [order EXCEPT ![o] = to]
    BY <1>2 DEF OrderMoves
  <2>3. Rated' = Rated
    BY <2>2
  <2>. QED  BY <2>1, <2>2, <2>3
<1>3. ASSUME NEW o \in Order, RateReads(o) \/ RateFails(o)
      PROVE  RatingsStand'
  BY <1>3 DEF RateReads, RateFails
<1>4. ASSUME NEW p \in Person, NEW o \in Order, NEW stars \in Stars, RateInserts(p, o, stars)
      PROVE  RatingsStand'
  <2>1. /\ order' = order /\ order[o] = "completed" /\ p = Buyer[o] /\ stars \in 1 .. 5
        /\ rating' = [rating EXCEPT ![o] = [rater |-> p, seller |-> Seller[o],
                                            stars |-> stars]]
    BY <1>4, ReputationAssumption DEF RateInserts, MayRate
  <2>2. Rated' \subseteq Rated \cup {o}
    BY <2>1
  <2>3. IsFiniteSet(Rated')
    BY <2>2, FS_AddElement, FS_Subset
  <2>4. DOMAIN order' = Order /\ DOMAIN rating' = Order
    BY <2>1
  <2>5. ASSUME NEW x \in Rated'
        PROVE  /\ order'[x] \in {"completed", "disputed", "refunded"}
               /\ rating'[x] = [rater |-> Buyer[x], seller |-> Seller[x],
                                stars |-> rating'[x].stars]
               /\ rating'[x].stars \in 1 .. 5
    <3>1. CASE x = o
      BY <2>1, <2>5, <3>1
    <3>2. CASE x # o
      BY <2>1, <2>5, <3>2
    <3>. QED  BY <3>1, <3>2
  <2>. QED  BY <2>3, <2>4, <2>5
<1>5. ASSUME NEW p \in Person, NEW o \in Order, NEW stars \in Stars, UpdateRating(p, o, stars)
      PROVE  RatingsStand'
  <2>1. /\ order' = order /\ o \in Rated /\ stars \in 1 .. 5
        /\ rating' = [rating EXCEPT ![o].stars = stars]
    BY <1>5, ReputationAssumption DEF UpdateRating
  <2>2. Rated' \subseteq Rated
    BY <2>1
  <2>3. IsFiniteSet(Rated')
    BY <2>2, FS_Subset
  <2>4. DOMAIN order' = Order /\ DOMAIN rating' = Order
    BY <2>1
  <2>5. rating'[o] = [rater |-> Buyer[o], seller |-> Seller[o], stars |-> stars]
    BY <2>1
  <2>6. ASSUME NEW x \in Rated'
        PROVE  /\ order'[x] \in {"completed", "disputed", "refunded"}
               /\ rating'[x] = [rater |-> Buyer[x], seller |-> Seller[x],
                                stars |-> rating'[x].stars]
               /\ rating'[x].stars \in 1 .. 5
    <3>1. CASE x = o
      BY <2>1, <2>5, <2>6, <3>1
    <3>2. CASE x # o
      BY <2>1, <2>2, <2>6, <3>2
    <3>. QED  BY <3>1, <3>2
  <2>. QED  BY <2>3, <2>4, <2>6
<1>. QED
  BY <1>1, <1>2, <1>3, <1>4, <1>5 DEF RepNext, RateNext, repVars, rateVars

\* A nearest-tenth average of numbers between lo and hi is between 10 lo and 10 hi.
LEMMA AverageBounds ==
  ASSUME NEW total \in Int, NEW count \in Nat \ {0}, NEW lo \in Nat, NEW hi \in Nat,
         lo * count =< total, total =< hi * count
  PROVE  /\ AverageStars(total, count) \in Int
         /\ 10 * lo =< AverageStars(total, count) /\ AverageStars(total, count) =< 10 * hi
<1>. DEFINE n == 20 * total + count  d == 2 * count  q == n \div d
<1>1. AverageStars(total, count) = q
  BY DEF AverageStars
<1>2. n \in Int /\ d \in Nat \ {0}
  OBVIOUS
<1>3. q \in Int /\ d * q =< n /\ n < d * (q + 1)
  <2>. HIDE DEF n, d
  <2>1. n = q * d + (n % d)
    BY <1>2
  <2>2. q \in Int /\ 0 =< n % d /\ n % d < d
    BY <1>2
  <2>. DEFINE m == n % d
  <2>. HIDE DEF q, m
  <2>3. q * d = d * q /\ d * (q + 1) = d * q + d /\ d * q \in Int
    BY <1>2, <2>2
  <2>. DEFINE a == d * q
  <2>4. n = a + m /\ 0 =< m /\ m < d /\ a \in Int /\ d * (q + 1) = a + d
    BY <2>1, <2>2, <2>3 DEF m
  <2>5. m \in Int
    BY <1>2 DEF m
  <2>. HIDE DEF a
  <2>6. a =< n /\ n < a + d
    BY <1>2, <2>4, <2>5
  <2>. QED  BY <2>2, <2>4, <2>6 DEF a
<1>4. d * (10 * lo) =< n /\ n < d * (10 * hi + 1)
  <2>. DEFINE a == lo * count  b == hi * count
  <2>1. a \in Int /\ b \in Int /\ a =< total /\ total =< b
    OBVIOUS
  <2>2. d * (10 * lo) = 20 * a /\ d * (10 * hi + 1) = 20 * b + 2 * count
    OBVIOUS
  <2>. HIDE DEF a, b
  <2>. QED  BY <2>1, <2>2
<1>5. \A x, y \in Int : d * x < d * y => x < y
  <2>. SUFFICES ASSUME NEW x \in Int, NEW y \in Int, y =< x  PROVE d * y =< d * x
    BY <1>2
  <2>. HIDE DEF d
  <2>. DEFINE z == x - y
  <2>1. z \in Nat /\ x = y + z
    OBVIOUS
  <2>2. d * z \in Nat
    <3>. HIDE DEF z
    <3>. QED  BY <1>2, <2>1
  <2>3. d * (y + z) = d * y + d * z /\ d * y \in Int
    BY <1>2
  <2>. DEFINE a == d * y  b == d * z
  <2>4. d * x = a + b /\ a \in Int /\ b \in Nat
    BY <2>1, <2>2, <2>3
  <2>. HIDE DEF a, b
  <2>5. a =< d * x
    BY <2>4
  <2>. QED  BY <2>5 DEF a
<1>6. d * (10 * lo) < d * (q + 1) /\ d * q < d * (10 * hi + 1)
  <2>. DEFINE a == d * (10 * lo)  b == d * (q + 1)  c == d * q  e == d * (10 * hi + 1)
  <2>1. a \in Int /\ b \in Int /\ c \in Int /\ e \in Int
    BY <1>2, <1>3
  <2>2. a =< n /\ n < b /\ c =< n /\ n < e
    BY <1>3, <1>4
  <2>. HIDE DEF a, b, c, e, n
  <2>3. a < b /\ c < e
    BY <1>2, <2>1, <2>2
  <2>. QED  BY <2>3 DEF a, b, c, e
<1>7. 10 * lo < q + 1 /\ q < 10 * hi + 1
  <2>. HIDE DEF d, q
  <2>. QED  BY <1>3, <1>5, <1>6
<1>. HIDE DEF q
<1>. QED  BY <1>1, <1>3, <1>7

\* Counting stars by value, and adding them up one by one, come to the same.
LEMMA StarsAddUp ==
  ASSUME NEW S, IsFiniteSet(S), NEW v, \A x \in S : v[x] \in 1 .. 5
  PROVE  LET having == [n \in 1 .. 5 |-> Cardinality({x \in S : v[x] = n})]
         IN  /\ SumFunction(having) = Cardinality(S)
             /\ SumFunction([n \in 1 .. 5 |-> n * having[n]])
                  = SumFunction([x \in S |-> v[x]])
<1>. DEFINE N == 1 .. 5
            having == [n \in N |-> Cardinality({x \in S : v[x] = n})]
            each == [n \in N |-> n]  one == [n \in N |-> 1]
<1>1. /\ \A n \in N : each[n] \in Int /\ one[n] \in Int
      /\ \A x \in S : v[x] \in N
  OBVIOUS
<1>0. IsFiniteSet(N)
  <2>1. 1 \in Int /\ 5 \in Int
    OBVIOUS
  <2>. QED  BY <2>1, FS_Interval, Zenon
<1>2. \A n \in N : having[n] \in Nat
  BY FS_Subset, FS_CardinalityType
<1>3. SumFunctionOnSet([n \in N |-> each[n] * Cardinality({x \in S : v[x] = n})], N)
        = SumFunctionOnSet([x \in S |-> each[v[x]]], S)
  <2>. HIDE DEF N, each
  <2>. QED  BY <1>0, <1>1, SumByValue
<1>4. SumFunctionOnSet([n \in N |-> one[n] * Cardinality({x \in S : v[x] = n})], N)
        = SumFunctionOnSet([x \in S |-> one[v[x]]], S)
  <2>. HIDE DEF N, one
  <2>. QED  BY <1>0, <1>1, SumByValue
<1>5. [n \in N |-> each[n] * Cardinality({x \in S : v[x] = n})] = [n \in N |-> n * having[n]]
  OBVIOUS
<1>6. [x \in S |-> each[v[x]]] = [x \in S |-> v[x]]
  OBVIOUS
<1>7. [n \in N |-> one[n] * Cardinality({x \in S : v[x] = n})] = having
  BY <1>2
<1>8. SumFunctionOnSet([x \in S |-> one[v[x]]], S) = Cardinality(S)
  <2>. DEFINE f == [x \in S |-> one[v[x]]]
  <2>1. \A x \in S : f[x] = 1
    OBVIOUS
  <2>. HIDE DEF f
  <2>. QED  BY <2>1, SumCounts
<1>. QED  BY <1>3, <1>4, <1>5, <1>6, <1>7, <1>8 DEF SumFunction

\* The two readings of a seller's standing are one, between the extremes.
StandingIsFair(p) ==
    LET given == {rating[o].stars : o \in RatingsOf(p)}
        r == GetReputation(p)
    IN  /\ r.average = ReputationOf(p).average /\ r.count = ReputationOf(p).count
        /\ IF given = {} THEN r.average = None
           ELSE 10 * Min(given) <= r.average /\ r.average <= 10 * Max(given)

\* A person's standing is what the ratings of their orders say.
LEMMA RatingsAreFair ==
  ASSUME RatingsStand, NEW p \in Person
  PROVE  StandingIsFair(p)
<1>. DEFINE S == RatingsOf(p)
            v == [o \in S |-> rating[o].stars]
            having == [n \in 1 .. 5 |-> Cardinality({o \in S : v[o] = n})]
            given == {rating[o].stars : o \in S}
            count == Cardinality(S)
            total == SumFunction(v)
<1>1. IsFiniteSet(S) /\ \A o \in S : v[o] \in 1 .. 5
  BY FS_Subset DEF RatingsStand, RatingsOf, Rated
<1>2. /\ SumFunction(having) = count
      /\ SumFunction([n \in 1 .. 5 |-> n * having[n]]) = SumFunction([o \in S |-> v[o]])
  <2>. HIDE DEF S, v
  <2>. QED  BY <1>1, StarsAddUp
<1>3. [o \in S |-> v[o]] = v
  OBVIOUS
<1>4. \A n \in 1 .. 5 : {o \in S : v[o] = n} = {o \in S : rating[o].stars = n}
  OBVIOUS
<1>5. having = [n \in 1 .. 5 |-> Cardinality({o \in RatingsOf(p) : rating[o].stars = n})]
  BY <1>4
<1>6. GetReputation(p).average = AverageStars(total, count) /\ GetReputation(p).count = count
  <2>. HIDE DEF having, v, S
  <2>. QED  BY <1>2, <1>3, <1>5 DEF GetReputation
<1>7. ReputationOf(p).average = AverageStars(total, count) /\ ReputationOf(p).count = count
  BY DEF ReputationOf
<1>8. CASE given = {}
  <2>1. S = {}
    BY <1>8
  <2>2. AverageStars(total, count) = None
    BY <2>1, FS_EmptySet DEF AverageStars
  <2>. HIDE DEF count, total
  <2>. QED  BY <1>6, <1>7, <1>8, <2>2 DEF StandingIsFair
<1>9. CASE given # {}
  <2>1. given \in SUBSET Int /\ IsFiniteSet(given)
    <3>1. given \subseteq 1 .. 5
      BY <1>1
    <3>2. 1 \in Int /\ 5 \in Int
      OBVIOUS
    <3>3. IsFiniteSet(1 .. 5)
      BY <3>2, FS_Interval, Zenon
    <3>4. IsFiniteSet(given)
      <4>. HIDE DEF given
      <4>. QED  BY <3>1, <3>3, FS_Subset
    <3>5. 1 .. 5 \subseteq Int
      OBVIOUS
    <3>. HIDE DEF given
    <3>. QED  BY <3>1, <3>4, <3>5
  <2>2. Min(given) \in given /\ \A x \in given : Min(given) =< x
    <3>1. \E x \in given : \A y \in given : x =< y
      <4>. HIDE DEF given
      <4>. QED  BY <1>9, <2>1, LeastOfNumbers
    <3>. HIDE DEF given
    <3>. QED  BY <3>1 DEF Min
  <2>3. Max(given) \in given /\ \A x \in given : x =< Max(given)
    <3>1. \E x \in given : \A y \in given : y =< x
      <4>. HIDE DEF given
      <4>. QED  BY <1>9, <2>1, GreatestNumber
    <3>2. \E x \in given : \A y \in given : x >= y
      <4>. HIDE DEF given
      <4>. QED  BY <2>1, <3>1
    <3>3. Max(given) \in given /\ \A y \in given : Max(given) >= y
      <4>. HIDE DEF given
      <4>. QED  BY <3>2 DEF Max
    <3>. HIDE DEF given
    <3>. QED  BY <2>1, <3>3
  <2>. DEFINE lo == Min(given)  hi == Max(given)
  <2>4. lo \in Nat /\ hi \in Nat /\ \A o \in S : v[o] \in Int /\ lo =< v[o] /\ v[o] =< hi
    <3>1. given \subseteq 1 .. 5 /\ \A o \in S : v[o] \in given
      BY <1>1
    <3>2. lo \in 1 .. 5 /\ hi \in 1 .. 5
      BY <2>2, <2>3, <3>1
    <3>. HIDE DEF given, v, lo, hi
    <3>3. \A x \in given : lo =< x /\ x =< hi
      BY <2>2, <2>3 DEF lo, hi
    <3>. QED  BY <1>1, <3>1, <3>2, <3>3
  <2>5. count \in Nat \ {0}
    <3>1. S # {}
      BY <1>9
    <3>. HIDE DEF S
    <3>. QED  BY <1>1, <3>1, FS_EmptySet, FS_CardinalityType
  <2>6. total = SumFunctionOnSet(v, S)
    BY DEF SumFunction
  <2>7. total \in Int /\ lo * count =< total /\ total =< hi * count
    <3>1. /\ SumFunctionOnSet(v, S) \in Int
          /\ lo * Cardinality(S) =< SumFunctionOnSet(v, S)
          /\ SumFunctionOnSet(v, S) =< hi * Cardinality(S)
      <4>1. lo \in Int /\ hi \in Int
        BY <2>4
      <4>. HIDE DEF v, S, lo, hi
      <4>. QED  BY <1>1, <2>4, <4>1, SumBounds
    <3>. HIDE DEF v, S, lo, hi, total
    <3>. QED  BY <2>6, <3>1
  <2>8. 10 * lo =< AverageStars(total, count) /\ AverageStars(total, count) =< 10 * hi
    <3>. HIDE DEF total, count, lo, hi
    <3>. QED  BY <2>4, <2>5, <2>7, AverageBounds
  <2>. HIDE DEF total, count
  <2>. QED  BY <1>6, <1>7, <1>9, <2>8 DEF StandingIsFair
<1>. QED  BY <1>8, <1>9

\* Every star had money behind it, and a seller's standing is fair.
THEOREM StarsAreEarned == RepSpec => []StarsHadMoney
<1>1. RatingsStand => StarsHadMoney
  <2>. SUFFICES ASSUME RatingsStand  PROVE StarsHadMoney
    OBVIOUS
  <2>1. \A o \in Order : rating[o] # None =>
          /\ order[o] \in {"completed", "disputed", "refunded"}
          /\ rating[o].rater = Buyer[o] /\ rating[o].seller = Seller[o]
    BY DEF RatingsStand, Rated
  <2>2. \A p \in Person : StandingIsFair(p)
    BY RatingsAreFair
  <2>. QED  BY <2>1, <2>2 DEF StarsHadMoney, StandingIsFair
<1>. QED  BY <1>1, RatingsStart, RatingsStep, PTL DEF RepSpec
=============================================================================
