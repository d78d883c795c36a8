---------------------------- MODULE Prices_proofs ----------------------------
(***************************************************************************)
(* Theorems about Prices for any number of sales, reports, pulls and runs  *)
(* of the job, any length of day and any caps: what is counted is counted  *)
(* once and is evidence, a decision stands, and the figures of a published *)
(* day are in order, whatever was observed that day.                       *)
(***************************************************************************)
EXTENDS Prices, FoldTheorems

(* What an observation is made of; that it is rejected neither when it is  *)
(* approved nor while it is held, and is not the second one of its origin. *)
FromItsOrigin ==
    \A i \in DOMAIN obs :
      /\ i = <<i[1], 1>>
      /\ ~(obs[i].approved /\ obs[i].rejected)
      /\ obs[i].flagged => obs[i].source = "live_sale" /\ ~obs[i].rejected
      /\ i[1] \in Sale => obs[i].source = "live_sale"
      /\ obs[i].source = "live_sale" =>
           i[1] \in Sale /\ IsRow(i[1]) /\ sales[i[1]].link = i
      /\ obs[i].source = "break_pull" =>
           i[1] \in Pull /\ pulls[i[1]] # None /\ Evidence(i[1])

(* What a run has read for a day, and what is published, still counts.     *)
StillCounts(ids, d) ==
    /\ ids \subseteq DOMAIN obs
    /\ \A i \in ids : Counts(obs[i]) /\ InWindow(obs[i].at, d)
ReadIsTrue ==
    /\ job = [j \in Job |-> job[j]]
    /\ \A j \in Job : job[j].at = "publishing" => StillCounts(job[j].ids, job[j].targets[1])
PublishedIsTrue ==
    \A d \in Days : index[d] # None =>
      StillCounts(index[d], d) /\ Cardinality(index[d]) >= MinObservations

PriceInv == PricesTypeOK /\ FromItsOrigin /\ ReadIsTrue /\ PublishedIsTrue
-----------------------------------------------------------------------------
(* The first observation of an origin has the number one.                  *)
LEMMA FirstOfItsOrigin ==
  ASSUME NEW o \in Origin, o \notin Taken
  PROVE  Fresh(o) = <<o, 1>>
<1>1. {i \in DOMAIN obs : i[1] = o} = {}
  BY DEF Taken
<1>. QED  BY <1>1, FS_EmptySet DEF Fresh

(* No step makes an observation that counts stop counting, or takes a      *)
(* rejection back; so what was read for a day goes on being true.          *)
GoesOnCounting ==
    \A i \in DOMAIN obs :
      /\ i \in DOMAIN obs' /\ obs'[i].at = obs[i].at
      /\ Counts(obs[i]) => Counts(obs'[i])
      /\ obs[i].rejected => obs'[i].rejected

\* Figures taken of rows that count are still taken of rows that count.
LEMMA StaysTrue ==
  ASSUME GoesOnCounting, NEW ids, NEW d, StillCounts(ids, d)
  PROVE  StillCounts(ids, d)'
BY DEF GoesOnCounting, StillCounts, InWindow

(* A step that changes only the observations keeps what was read of them.  *)
LEMMA ReadingsStayTrue ==
  ASSUME PriceInv, GoesOnCounting, UNCHANGED <<index, job>>
  PROVE  ReadIsTrue' /\ PublishedIsTrue'
BY StaysTrue DEF PriceInv, ReadIsTrue, PublishedIsTrue

LEMMA TypesWithMore ==
  ASSUME PriceInv, DOMAIN obs \subseteq DOMAIN obs', UNCHANGED index
  PROVE  index' \in [Days -> (SUBSET DOMAIN obs') \cup {None}]
BY DEF PriceInv, PricesTypeOK

(* What a decision makes of an observation.                                *)
LEMMA DecidedRow ==
  ASSUME NEW o \in ObsRow, NEW yes \in BOOLEAN, NEW no \in BOOLEAN
  PROVE  /\ [o EXCEPT !.approved = yes, !.rejected = no] \in ObsRow
         /\ [o EXCEPT !.flagged = FALSE, !.rejected = no, !.approved = yes] \in ObsRow
BY DEF ObsRow

LEMMA ModeratedRow ==
  ASSUME NEW o \in ObsRow, ~o.flagged, NEW d, NEW m,
         m = [o EXCEPT !.approved = (d = "approve"), !.rejected = (d = "reject")]
  PROVE  /\ m \in ObsRow /\ m.source = o.source /\ m.at = o.at
         /\ ~(m.approved /\ m.rejected) /\ ~m.flagged
<1>1. (d = "approve") \in BOOLEAN /\ (d = "reject") \in BOOLEAN
  OBVIOUS
<1>2. m \in ObsRow
  BY <1>1, DecidedRow, Zenon
<1>. QED  BY <1>2 DEF ObsRow

LEMMA ReviewedRow ==
  ASSUME NEW o \in ObsRow, NEW d, NEW m,
         m = [o EXCEPT !.flagged = FALSE, !.rejected = (d = "reject"),
                       !.approved = (d # "reject")]
  PROVE  /\ m \in ObsRow /\ m.source = o.source /\ m.at = o.at
         /\ ~(m.approved /\ m.rejected) /\ ~m.flagged
<1>1. (d # "reject") \in BOOLEAN /\ (d = "reject") \in BOOLEAN
  OBVIOUS
<1>2. m \in ObsRow
  BY <1>1, DecidedRow, Zenon
<1>. QED  BY <1>2 DEF ObsRow

(* The sellers, the reporters and the reviewers.                           *)
LEMMA PeopleKeepPriceInv ==
  ASSUME PriceInv,
         \/ Tick
         \/ \E s \in Sale : \/ \E at \in 0 .. now, c \in Cents : LogLiveSale(s, at, c)
                            \/ DeleteLiveSale(s)
         \/ \E p \in Pull, c \in Typical, k \in Kind : PullIsLogged(p, c, k)
         \/ \E r \in Report, at \in 0 .. now, c \in Typical : ReportPrice(r, at, c)
         \/ \E i \in DOMAIN obs :
              \/ \E d \in {"approve", "reject"} : ModerateObservation(i, d)
              \/ \E d \in {"clear", "reject"} : ReviewFlaggedObservation(i, d)
  PROVE  PriceInv' /\ GoesOnCounting
<1>. USE PricesAssumption, RowsAssumption DEF PriceInv
<1>1. CASE Tick
  <2>1. PricesTypeOK'
    BY <1>1 DEF PricesTypeOK, Tick
  <2>2. FromItsOrigin'
    BY <1>1 DEF FromItsOrigin, Tick, IsRow, Evidence
  <2>3. GoesOnCounting
    BY <1>1 DEF GoesOnCounting, Tick
  <2>. QED  BY <1>1, <2>1, <2>2, <2>3, ReadingsStayTrue DEF Tick
<1>2. ASSUME NEW s \in Sale, NEW at \in 0 .. now, NEW c \in Cents, LogLiveSale(s, at, c)
      PROVE  PriceInv' /\ GoesOnCounting
  <2>1. [at |-> at, cents |-> c, link |-> None] \in SaleRow
    BY DEF SaleRow, PricesTypeOK
  <2>2. PricesTypeOK'
    BY <1>2, <2>1 DEF PricesTypeOK, LogLiveSale
  <2>3. FromItsOrigin'
    BY <1>2 DEF FromItsOrigin, LogLiveSale, IsRow, Evidence, PricesTypeOK
  <2>4. GoesOnCounting
    BY <1>2 DEF GoesOnCounting, LogLiveSale
  <2>. QED  BY <1>2, <2>2, <2>3, <2>4, ReadingsStayTrue DEF LogLiveSale
<1>3. ASSUME NEW s \in Sale, DeleteLiveSale(s)
      PROVE  PriceInv' /\ GoesOnCounting
  <2>1. PricesTypeOK'
    BY <1>3 DEF PricesTypeOK, DeleteLiveSale
  <2>2. \A i \in DOMAIN obs : i # None
    BY DEF PricesTypeOK
  <2>3. FromItsOrigin'
    BY <1>3, <2>2 DEF FromItsOrigin, DeleteLiveSale, IsRow, Evidence, PricesTypeOK
  <2>4. GoesOnCounting
    BY <1>3 DEF GoesOnCounting, DeleteLiveSale
  <2>. QED  BY <1>3, <2>1, <2>3, <2>4, ReadingsStayTrue DEF DeleteLiveSale
<1>4. ASSUME NEW p \in Pull, NEW c \in Typical, NEW k \in Kind, PullIsLogged(p, c, k)
      PROVE  PriceInv' /\ GoesOnCounting
  <2>1. PricesTypeOK'
    BY <1>4 DEF PricesTypeOK, PullIsLogged, PullLogged
  <2>2. FromItsOrigin'
    BY <1>4 DEF FromItsOrigin, PullIsLogged, IsRow, Evidence, PricesTypeOK
  <2>3. GoesOnCounting
    BY <1>4 DEF GoesOnCounting, PullIsLogged
  <2>. QED  BY <1>4, <2>1, <2>2, <2>3, ReadingsStayTrue DEF PullIsLogged
<1>5. ASSUME NEW r \in Report, NEW at \in 0 .. now, NEW c \in Typical, ReportPrice(r, at, c)
      PROVE  PriceInv' /\ GoesOnCounting
  <2>. DEFINE row == [source |-> "user_report", at |-> at, cents |-> c,
                      approved |-> FALSE, rejected |-> FALSE, flagged |-> FALSE]
  <2>1. row \in ObsRow
    BY DEF ObsRow, PricesTypeOK
  <2>a. r \in Origin /\ r \notin Taken
    BY <1>5 DEF ReportPrice, Origin
  <2>2. Fresh(r) = <<r, 1>> /\ <<r, 1>> \in ObsId /\ <<r, 1>> \notin DOMAIN obs
    <3>1. Fresh(r) = <<r, 1>>
      BY <2>a, FirstOfItsOrigin
    <3>2. <<r, 1>> \in ObsId
      BY <2>a DEF ObsId
    <3>3. <<r, 1>> \notin DOMAIN obs
      BY <2>a DEF Taken
    <3>. QED  BY <3>1, <3>2, <3>3
  <2>3. obs' = [i \in DOMAIN obs \cup {<<r, 1>>} |-> IF i \in {<<r, 1>>} THEN row ELSE obs[i]]
    BY <1>5, <2>2 DEF ReportPrice, Inserted
  <2>. HIDE DEF row
  <2>4. PricesTypeOK'
    <3>1. DOMAIN obs' = DOMAIN obs \cup {<<r, 1>>}
      BY <2>3
    <3>2. obs' \in [DOMAIN obs' -> ObsRow] /\ DOMAIN obs' \subseteq ObsId
      BY <2>1, <2>2, <2>3, <3>1 DEF PricesTypeOK
    <3>3. index' \in [Days -> (SUBSET DOMAIN obs') \cup {None}]
      BY <1>5, <3>1, TypesWithMore DEF ReportPrice
    <3>. QED  BY <1>5, <3>2, <3>3 DEF PricesTypeOK, ReportPrice
  <2>5. r \notin Sale /\ row.source = "user_report" /\ ~row.approved /\ ~row.flagged
    BY DEF row
  <2>6. FromItsOrigin'
    <3>1. \A i \in DOMAIN obs : obs'[i] = obs[i]
      BY <2>2, <2>3
    <3>2. obs'[<<r, 1>>] = row /\ DOMAIN obs' = DOMAIN obs \cup {<<r, 1>>}
      BY <2>3
    <3>3. UNCHANGED <<sales, pulls>>
      BY <1>5 DEF ReportPrice
    <3>. QED  BY <2>5, <3>1, <3>2, <3>3 DEF FromItsOrigin, IsRow, Evidence
  <2>7. GoesOnCounting
    BY <2>2, <2>3 DEF GoesOnCounting
  <2>. QED  BY <1>5, <2>4, <2>6, <2>7, ReadingsStayTrue DEF ReportPrice
<1>6. ASSUME NEW i \in DOMAIN obs, NEW d \in {"approve", "reject"}, ModerateObservation(i, d)
      PROVE  PriceInv' /\ GoesOnCounting
  <2>1. /\ DOMAIN obs' = DOMAIN obs /\ obs' = [k \in DOMAIN obs |-> obs'[k]]
        /\ \A k \in DOMAIN obs : k # i => obs'[k] = obs[k]
        /\ UNCHANGED <<now, sales, pulls, index, job>>
    BY <1>6 DEF ModerateObservation, PricesTypeOK
  <2>2. /\ obs'[i] \in ObsRow /\ obs'[i].source = obs[i].source /\ obs'[i].at = obs[i].at
        /\ ~(obs'[i].approved /\ obs'[i].rejected) /\ ~obs'[i].flagged
    <3>1. obs[i] \in ObsRow /\ ~obs[i].flagged
      BY <1>6 DEF ModerateObservation, PricesTypeOK, Waiting, FromItsOrigin
    <3>2. obs'[i] = [obs[i] EXCEPT !.approved = (d = "approve"), !.rejected = (d = "reject")]
      BY <1>6 DEF ModerateObservation
    <3>. QED  BY <3>1, <3>2, ModeratedRow
  <2>3. ~Counts(obs[i]) /\ ~obs[i].rejected
    BY <1>6 DEF ModerateObservation, Waiting, Counts
  <2>4. PricesTypeOK'
    BY <2>1, <2>2 DEF PricesTypeOK
  <2>5. FromItsOrigin'
    BY <2>1, <2>2 DEF FromItsOrigin, IsRow, Evidence
  <2>6. GoesOnCounting
    BY <2>1, <2>2, <2>3 DEF GoesOnCounting
  <2>. QED  BY <2>1, <2>4, <2>5, <2>6, ReadingsStayTrue
<1>7. ASSUME NEW i \in DOMAIN obs, NEW d \in {"clear", "reject"}, ReviewFlaggedObservation(i, d)
      PROVE  PriceInv' /\ GoesOnCounting
  <2>1. /\ DOMAIN obs' = DOMAIN obs /\ obs' = [k \in DOMAIN obs |-> obs'[k]]
        /\ \A k \in DOMAIN obs : k # i => obs'[k] = obs[k]
        /\ UNCHANGED <<now, sales, pulls, index, job>>
    BY <1>7 DEF ReviewFlaggedObservation, PricesTypeOK
  <2>2. /\ obs'[i] \in ObsRow /\ obs'[i].source = obs[i].source /\ obs'[i].at = obs[i].at
        /\ ~(obs'[i].approved /\ obs'[i].rejected) /\ ~obs'[i].flagged
    <3>1. obs[i] \in ObsRow
      BY DEF PricesTypeOK
    <3>2. obs'[i] = [obs[i] EXCEPT !.flagged = FALSE, !.rejected = (d = "reject"),
                                   !.approved = (d # "reject")]
      BY <1>7 DEF ReviewFlaggedObservation
    <3>. QED  BY <3>1, <3>2, ReviewedRow
  <2>3. ~Counts(obs[i]) /\ ~obs[i].rejected
    BY <1>7 DEF ReviewFlaggedObservation, Counts, FromItsOrigin
  <2>4. PricesTypeOK'
    BY <2>1, <2>2 DEF PricesTypeOK
  <2>5. FromItsOrigin'
    BY <2>1, <2>2 DEF FromItsOrigin, IsRow, Evidence
  <2>6. GoesOnCounting
    BY <2>1, <2>2, <2>3 DEF GoesOnCounting
  <2>. QED  BY <2>1, <2>4, <2>5, <2>6, ReadingsStayTrue
<1>. QED  BY <1>1, <1>2, <1>3, <1>4, <1>5, <1>6, <1>7
-----------------------------------------------------------------------------
(* The job.  First what it takes from the breaks.                          *)
LEMMA StartsKeepPriceInv ==
  ASSUME PriceInv, NEW j \in Job, JobStarts(j)
  PROVE  PriceInv' /\ GoesOnCounting
<1>. USE PricesAssumption DEF PriceInv
<1>. DEFINE new == {p \in Pull \ Taken : pulls[p] # None /\ Evidence(p)}
            ids == {<<p, 1>> : p \in new}
<1>1. {Fresh(p) : p \in new} = ids
  BY FirstOfItsOrigin DEF Origin
<1>2. obs' = [i \in DOMAIN obs \cup ids |-> IF i \in ids THEN FromPull(i[1]) ELSE obs[i]]
  BY <1>1 DEF JobStarts, Inserted
<1>3. \A p \in new : FromPull(p) \in ObsRow
  BY DEF FromPull, ObsRow, PricesTypeOK, PullLogged
<1>4. ids \subseteq ObsId /\ \A i \in DOMAIN obs : i \notin ids
  BY DEF ObsId, Origin, Taken
<1>5. /\ DOMAIN obs' = DOMAIN obs \cup ids
      /\ \A i \in DOMAIN obs : obs'[i] = obs[i]
      /\ \A p \in new : obs'[<<p, 1>>] = FromPull(p)
  BY <1>2, <1>4
<1>6. UNCHANGED <<now, sales, pulls, index>>
  BY DEF JobStarts
<1>7. obs' \in [DOMAIN obs' -> ObsRow] /\ DOMAIN obs' \subseteq ObsId
  BY <1>2, <1>3, <1>4, <1>5 DEF PricesTypeOK
<1>8. PricesTypeOK'
  BY <1>5, <1>6, <1>7, TypesWithMore DEF PricesTypeOK
<1>9. FromItsOrigin'
  <2>1. ASSUME NEW i \in ids
        PROVE  /\ i = <<i[1], 1>> /\ obs'[i] = FromPull(i[1])
               /\ i[1] \in Pull /\ pulls[i[1]] # None /\ Evidence(i[1])
    BY <1>5
  <2>2. \A i \in ids : /\ obs'[i].source = "break_pull" /\ i[1] \notin Sale
                       /\ ~obs'[i].rejected /\ ~obs'[i].flagged
    <3>1. \A p \in Pull : /\ FromPull(p).source = "break_pull"
                          /\ ~FromPull(p).rejected /\ ~FromPull(p).flagged
      BY DEF FromPull
    <3>. QED  BY <2>1, <3>1
  <2>. QED  BY <1>5, <1>6, <2>1, <2>2 DEF FromItsOrigin, IsRow, Evidence
<1>10. GoesOnCounting
  BY <1>5 DEF GoesOnCounting
<1>11. ReadIsTrue' /\ PublishedIsTrue'
  BY <1>6, <1>10, StaysTrue DEF ReadIsTrue, PublishedIsTrue, JobStarts
<1>. QED  BY <1>8, <1>9, <1>10, <1>11

(* A sale is linked: it is a row without a link, so nothing was made of it.*)
LEMMA LinksKeepPriceInv ==
  ASSUME PriceInv, NEW j \in Job, NEW s \in Sale, JobLinks(j, s)
  PROVE  PriceInv' /\ GoesOnCounting
<1>. USE PricesAssumption, RowsAssumption DEF PriceInv
<1>1. ASSUME GoesOnCounting
      PROVE  ReadIsTrue' /\ PublishedIsTrue'
  <2>1. index' = index /\ job' = [job EXCEPT ![j].batch = @ \ {s}] /\ job[j].at = "linking"
    BY DEF JobLinks
  <2>2. \A d \in Days : index[d] # None => StillCounts(index[d], d)'
    BY <1>1, <2>1, StaysTrue DEF PublishedIsTrue
  <2>3. PublishedIsTrue'
    BY <2>1, <2>2 DEF PublishedIsTrue
  <2>4. /\ job' = [k \in Job |-> job'[k]] /\ job'[j] = [job[j] EXCEPT !.batch = @ \ {s}]
        /\ \A k \in Job : k # j => job'[k] = job[k]
    BY <2>1 DEF ReadIsTrue
  <2>5. job'[j].at = "linking"
    BY <2>1, <2>4
  <2>. QED  BY <1>1, <2>3, <2>4, <2>5, StaysTrue DEF ReadIsTrue
<1>2. CASE ~Linkable(s)
  <2>1. UNCHANGED <<now, sales, pulls, obs, index>>
    BY <1>2 DEF JobLinks
  <2>2. GoesOnCounting
    BY <2>1 DEF GoesOnCounting, Counts
  <2>. QED  BY <1>1, <2>1, <2>2 DEF PricesTypeOK, FromItsOrigin, IsRow, Evidence
<1>3. CASE Linkable(s)
  <2>. DEFINE row == [source |-> "live_sale", at |-> sales[s].at, cents |-> sales[s].cents,
                      approved |-> TRUE, rejected |-> FALSE, flagged |-> s \in job[j].flag]
  <2>1. s \in Origin /\ s \notin Taken /\ sales[s] \in SaleRow
    <3>1. \A i \in DOMAIN obs : i # None
      BY DEF PricesTypeOK
    <3>. QED  BY <1>3, <3>1 DEF Origin, Taken, Linkable, IsRow, FromItsOrigin, PricesTypeOK
  <2>2. Fresh(s) = <<s, 1>>
    BY <2>1, FirstOfItsOrigin
  <2>3. <<s, 1>> \in ObsId /\ <<s, 1>> \notin DOMAIN obs
    BY <2>1 DEF ObsId, Taken
  <2>4. row \in ObsRow
    BY <2>1 DEF ObsRow, SaleRow
  <2>5. obs' = [i \in DOMAIN obs \cup {<<s, 1>>} |-> IF i \in {<<s, 1>>} THEN row ELSE obs[i]]
    BY <1>3, <2>2 DEF JobLinks, Inserted
  <2>6. sales' = [sales EXCEPT ![s].link = <<s, 1>>] /\ UNCHANGED <<now, pulls, index>>
    BY <1>3, <2>2 DEF JobLinks
  <2>7. row.source = "live_sale" /\ ~row.rejected
    OBVIOUS
  <2>. HIDE DEF row
  <2>8. /\ DOMAIN obs' = DOMAIN obs \cup {<<s, 1>>} /\ obs'[<<s, 1>>] = row
        /\ \A i \in DOMAIN obs : obs'[i] = obs[i]
    BY <2>3, <2>5
  <2>9. GoesOnCounting
    BY <2>8 DEF GoesOnCounting
  <2>10. sales' \in [Sale -> SaleRow \cup {None, Deleted}] /\ sales'[s] \in SaleRow
    BY <2>1, <2>3, <2>6 DEF PricesTypeOK, SaleRow
  <2>11. obs' \in [DOMAIN obs' -> ObsRow] /\ DOMAIN obs' \subseteq ObsId
    BY <2>3, <2>4, <2>5, <2>8 DEF PricesTypeOK
  <2>12. PricesTypeOK'
    BY <2>6, <2>8, <2>10, <2>11, TypesWithMore DEF PricesTypeOK
  <2>13. /\ sales'[s].link = <<s, 1>> /\ sales'[s] # None /\ sales'[s] # Deleted
         /\ \A t \in Sale : t # s => sales'[t] = sales[t]
    BY <2>1, <2>6, <2>10 DEF PricesTypeOK, SaleRow
  <2>14. FromItsOrigin'
    BY <2>1, <2>6, <2>7, <2>8, <2>13 DEF FromItsOrigin, IsRow, Evidence, Taken
  <2>. QED  BY <1>1, <2>9, <2>12, <2>14
<1>. QED  BY <1>2, <1>3
(* What is read for a day counts, and what is published is what was read.  *)
LEMMA JobKeepsPriceInv ==
  ASSUME PriceInv, NEW j \in Job, JobStep(j) \/ JobDies(j)
  PROVE  PriceInv' /\ GoesOnCounting
<1>. USE DEF PriceInv
<1>1. ASSUME NEW held, job' = [job EXCEPT ![j] = held], UNCHANGED <<now, sales, pulls, obs, index>>,
             held.at = "publishing" => StillCounts(held.ids, held.targets[1])
      PROVE  PriceInv' /\ GoesOnCounting
  <2>1. GoesOnCounting
    BY <1>1 DEF GoesOnCounting
  <2>2. PricesTypeOK' /\ FromItsOrigin'
    BY <1>1 DEF PricesTypeOK, FromItsOrigin, IsRow, Evidence
  <2>3. PublishedIsTrue'
    BY <1>1, <2>1, StaysTrue DEF PublishedIsTrue
  <2>4. \A k \in Job : job'[k] = IF k = j THEN held ELSE job[k]
    BY <1>1 DEF ReadIsTrue
  <2>5. \A k \in Job : job'[k].at = "publishing" =>
          StillCounts(job'[k].ids, job'[k].targets[1])
    BY <1>1, <2>4 DEF ReadIsTrue
  <2>6. job' = [k \in Job |-> job'[k]]
    BY <1>1 DEF ReadIsTrue
  <2>7. ReadIsTrue'
    BY <1>1, <2>5, <2>6 DEF ReadIsTrue, StillCounts, InWindow
  <2>. QED  BY <2>1, <2>2, <2>3, <2>7
<1>2. CASE JobReadsBatch(j)
  <2>1. PICK b \in Batches :
          job' = [job EXCEPT ![j] = [at |-> "linking", batch |-> b \ FreeText,
                    flag |-> {s \in b \ FreeText : Flagged(sales[s].cents)}]]
    BY <1>2 DEF JobReadsBatch
  <2>. QED  BY <1>1, <1>2, <2>1 DEF JobReadsBatch
<1>3. CASE JobReadsDay(j)
  <2>1. PICK targets : job' = [job EXCEPT ![j] = [at |-> "publishing", targets |-> targets,
                                                  ids |-> Eligible(targets[1])]]
    BY <1>3 DEF JobReadsDay
  <2>2. StillCounts(Eligible(targets[1]), targets[1])
    BY DEF StillCounts, Eligible
  <2>. QED  BY <1>1, <1>3, <2>1, <2>2 DEF JobReadsDay
<1>4. CASE JobDies(j)
  BY <1>1, <1>4 DEF JobDies
<1>5. CASE JobPublishes(j)
  <2>. DEFINE d == job[j].targets[1]
              held == IF Len(job[j].targets) = 1 THEN [at |-> "idle"]
                      ELSE [at |-> "next", targets |-> Tail(job[j].targets)]
  <2>1. job' = [job EXCEPT ![j] = held] /\ held.at # "publishing"
    BY <1>5 DEF JobPublishes
  <2>2. StillCounts(job[j].ids, d)
    BY <1>5 DEF JobPublishes, ReadIsTrue
  <2>3. UNCHANGED <<now, sales, pulls, obs>>
    BY <1>5 DEF JobPublishes
  <2>4. \/ index' = index
        \/ index' = [index EXCEPT ![d] = job[j].ids] /\ Enough(job[j].ids)
    BY <1>5 DEF JobPublishes
  <2>5. \A ids, e : StillCounts(ids, e)' <=> StillCounts(ids, e)
    BY <2>3 DEF StillCounts, InWindow
  <2>. HIDE DEF d, held
  <2>6. PricesTypeOK'
    BY <2>2, <2>3, <2>4 DEF PricesTypeOK, StillCounts
  <2>7. FromItsOrigin'
    BY <2>3 DEF FromItsOrigin, IsRow, Evidence
  <2>8. ReadIsTrue'
    BY <2>1, <2>5 DEF ReadIsTrue
  <2>9. PublishedIsTrue'
    BY <2>2, <2>4, <2>5 DEF PublishedIsTrue, PricesTypeOK, Enough
  <2>10. GoesOnCounting
    BY <2>3 DEF GoesOnCounting
  <2>. QED  BY <2>6, <2>7, <2>8, <2>9, <2>10
<1>6. CASE \E s \in Sale : JobLinks(j, s)
  BY <1>6, LinksKeepPriceInv
<1>. QED  BY <1>2, <1>3, <1>4, <1>5, <1>6, StartsKeepPriceInv DEF JobStep
-----------------------------------------------------------------------------
LEMMA PriceInvStep == PriceInv /\ [Next]_vars => PriceInv' /\ GoesOnCounting
<1>. SUFFICES ASSUME PriceInv, [Next]_vars  PROVE PriceInv' /\ GoesOnCounting
  OBVIOUS
<1>1. CASE UNCHANGED vars
  BY <1>1 DEF vars, PriceInv, PricesTypeOK, FromItsOrigin, ReadIsTrue, PublishedIsTrue,
              StillCounts, InWindow, IsRow, Evidence, GoesOnCounting
<1>2. CASE \E j \in Job : JobStep(j) \/ JobDies(j)
  BY <1>2, JobKeepsPriceInv
<1>. QED  BY <1>1, <1>2, PeopleKeepPriceInv DEF Next

(* Clock, rows and index stay in their types, nothing is observed twice,   *)
(* and what a run holds for a day goes on counting while it holds it.      *)
THEOREM PricesInvariant == Spec => []PriceInv
<1>1. Init => PriceInv
  <2>1. ASSUME Init PROVE PricesTypeOK /\ DOMAIN obs = {}
    <3>1. DOMAIN obs = {} /\ obs \in [DOMAIN obs -> ObsRow]
      BY <2>1 DEF Init
    <3>2. /\ now \in 0 .. MaxTime /\ sales \in [Sale -> SaleRow \cup {None, Deleted}]
          /\ pulls \in [Pull -> PullLogged \cup {None}]
      BY <2>1, PricesAssumption DEF Init
    <3>3. index \in [Days -> (SUBSET DOMAIN obs) \cup {None}]
      BY <2>1 DEF Init
    <3>. QED  BY <3>1, <3>2, <3>3 DEF PricesTypeOK
  <2>2. ASSUME Init PROVE ReadIsTrue /\ PublishedIsTrue
    BY <2>2 DEF Init, ReadIsTrue, PublishedIsTrue
  <2>. QED  BY <2>1, <2>2 DEF PriceInv, FromItsOrigin
<1>. QED  BY <1>1, PriceInvStep, PTL DEF Spec

(* A sale, a pull and a report count once, whichever runs of the job race  *)
(* or are stopped half way (ingestLiveSales, ingestBreakPulls).            *)
THEOREM NothingCountsTwice == Spec => []CountedOnce
<1>1. PriceInv => CountedOnce
  BY DEF PriceInv, FromItsOrigin, CountedOnce
<1>. QED  BY <1>1, PricesInvariant, PTL

(* What a published day counts is evidence of that day, and enough of it,  *)
(* whatever is decided between a run's read and its write (rollUpDay).     *)
THEOREM DaysCountEvidence == Spec => [](\A d \in Published : CountsEvidence(d))
<1>1. PriceInv => \A d \in Published : CountsEvidence(d)
  <2>. SUFFICES ASSUME PriceInv, NEW d \in Published  PROVE CountsEvidence(d)
    OBVIOUS
  <2>1. StillCounts(index[d], d) /\ Cardinality(index[d]) >= MinObservations
    BY DEF PriceInv, PublishedIsTrue, Published
  <2>. QED  BY <2>1 DEF PriceInv, FromItsOrigin, CountsEvidence, StillCounts, Counts
<1>. QED  BY <1>1, PricesInvariant, PTL

(* A decision stands: what counts goes on counting, and what was rejected  *)
(* never counts again (moderateObservation, reviewFlaggedObservation).     *)
THEOREM DecisionsAlwaysStand == Spec => DecisionsStand
<1>1. ASSUME PriceInv, [Next]_vars
      PROVE  \A i \in DOMAIN obs :
               /\ Counts(obs[i]) => Counts(obs'[i])
               /\ obs[i].rejected => obs'[i].rejected /\ ~obs'[i].approved
  BY <1>1, PriceInvStep DEF GoesOnCounting, PriceInv, FromItsOrigin
<1>. QED  BY <1>1, PricesInvariant, PTL DEF Spec, DecisionsStand
--------------------------------------------------------------------
(* The figures of a day.                                                   *)

\* A sample in ascending order, with something in it.
Ascending(s) ==
    /\ s \in Seq(Nat) /\ Len(s) >= 1
    /\ \A i, j \in 1 .. Len(s) : i =< j => s[i] =< s[j]

\* A row that is kept weighs something, so a kept sample has a weight.
LEMMA WeighsSomething ==
  ASSUME NEW ids, IsFiniteSet(ids)
  PROVE  Weigh(ids) \in Nat /\ (ids # {} => Weigh(ids) >= 1)
<1>. DEFINE f == [i \in ids |-> Weight(obs[i].source)]
<1>1. \A i \in ids : f[i] \in Nat /\ f[i] >= 1
  BY DEF Weight
<1>2. Weigh(ids) = SumFunctionOnSet(f, ids)
  BY DEF Weigh, SumFunction
<1>. HIDE DEF f
<1>3. SumFunctionOnSet(f, ids) \in Nat
  BY <1>1, SumGrows
<1>4. ASSUME ids # {}  PROVE SumFunctionOnSet(f, ids) >= 1
  <2>1. PICK i \in ids : TRUE
    BY <1>4
  <2>2. SumFunctionOnSet(f, ids) = f[i] + SumFunctionOnSet(f, ids \ {i})
    BY <1>1, SumRemove
  <2>3. SumFunctionOnSet(f, ids \ {i}) \in Nat
    BY <1>1, SumGrows
  <2>. QED  BY <1>1, <2>2, <2>3
<1>. QED  BY <1>2, <1>3, <1>4

\* The sample a percentile is taken from ascends.
LEMMA SortedAscends ==
  ASSUME NEW ids, IsFiniteSet(ids), ids # {}, \A i \in ids : obs[i].cents \in Nat
  PROVE  Ascending(Sorted(ids))
<1>. DEFINE n == Weigh(ids)
            values == {obs[i].cents : i \in ids}
            UpTo(v) == Weigh({i \in ids : obs[i].cents =< v})
            Reach(k) == {v \in values : UpTo(v) >= k}
            s == Sorted(ids)
<1>1. n \in Nat /\ n >= 1
  BY WeighsSomething
<1>2. values \in SUBSET Nat /\ IsFiniteSet(values) /\ values # {}
  <2>. DEFINE f == [i \in ids |-> obs[i].cents]
  <2>1. f \in Surjection(ids, values)
    BY DEF Surjection
  <2>. QED  BY <2>1, FS_Surjection
<1>3. PICK top \in values : UpTo(top) = n
  <2>1. values \in SUBSET Int
    BY <1>2
  <2>2. PICK top \in values : \A m \in values : m =< top
    <3>. HIDE DEF values
    <3>. QED  BY <1>2, <2>1, GreatestNumber
  <2>3. {i \in ids : obs[i].cents =< top} = ids
    BY <2>2
  <2>. QED  BY <2>3
<1>4. \A v \in values : UpTo(v) \in Nat
  BY WeighsSomething, FS_Subset
<1>5. ASSUME NEW k \in 1 .. n
      PROVE  /\ s[k] \in values /\ UpTo(s[k]) >= k
             /\ \A w \in values : UpTo(w) >= k => s[k] =< w
  <2>1. \E v \in values : UpTo(v) >= k /\ \A w \in values : UpTo(w) >= k => v =< w
    <3>1. top \in Reach(k)
      BY <1>1, <1>3
    <3>2. Reach(k) \in SUBSET Nat /\ Reach(k) # {}
      BY <1>2, <3>1
    <3>3. PICK v \in Reach(k) : \A w \in Reach(k) : v =< w
      <4>. HIDE DEF Reach
      <4>. QED  BY <3>2, LeastNumber
    <3>. QED  BY <3>3
  <2>. DEFINE First(j) ==
                CHOOSE v \in values : UpTo(v) >= j /\ \A w \in values : UpTo(w) >= j => v =< w
  <2>2. s = [j \in 1 .. n |-> First(j)]
    BY DEF Sorted
  <2>3. s[k] = First(k)
    <3>. HIDE DEF s, First, n
    <3>. QED  BY <2>2
  <2>. HIDE DEF s, values, UpTo
  <2>. QED  BY <2>1, <2>3
<1>6. s = [k \in 1 .. n |-> s[k]]
  <2>. DEFINE First(j) ==
                CHOOSE v \in values : UpTo(v) >= j /\ \A w \in values : UpTo(w) >= j => v =< w
  <2>1. s = [j \in 1 .. n |-> First(j)]
    BY DEF Sorted
  <2>. HIDE DEF s, First, n
  <2>. QED  BY <2>1
<1>7. s \in Seq(Nat) /\ Len(s) = n
  <2>1. \A k \in 1 .. n : s[k] \in Nat
    BY <1>2, <1>5
  <2>. HIDE DEF s, n
  <2>2. s \in [1 .. n -> Nat]
    BY <1>6, <2>1
  <2>. QED  BY <1>1, <2>2
<1>8. ASSUME NEW i \in 1 .. n, NEW j \in 1 .. n, i =< j  PROVE s[i] =< s[j]
  <2>1. UpTo(s[j]) >= i
    <3>1. UpTo(s[j]) \in Nat /\ UpTo(s[j]) >= j
      BY <1>4, <1>5
    <3>. HIDE DEF UpTo, s, n
    <3>. QED  BY <1>1, <1>8, <3>1
  <2>. HIDE DEF UpTo, s, n, values
  <2>. QED  BY <1>5, <2>1
<1>. HIDE DEF s, n
<1>. QED  BY <1>1, <1>7, <1>8 DEF Ascending, s

\* So does what is kept once both ends are trimmed, within the sample's range.
LEMMA KeptAscends ==
  ASSUME NEW s, Ascending(s)
  PROVE  /\ Ascending(Kept(s))
         /\ \A i \in 1 .. Len(Kept(s)) : s[1] =< Kept(s)[i] /\ Kept(s)[i] =< s[Len(s)]
<1>. DEFINE n == Len(s)  drop == TrimCount(n)  t == Kept(s)
<1>1. n \in Nat /\ n >= 1
  BY DEF Ascending
<1>2. drop \in Nat /\ 2 * drop =< n - 1
  BY <1>1 DEF TrimCount, Least
<1>3. /\ t \in Seq(Nat) /\ Len(t) = n - 2 * drop
      /\ \A i \in 1 .. Len(t) : t[i] = s[drop + i]
  <2>. DEFINE lo == drop + 1  hi == n - drop
  <2>1. lo \in Int /\ hi \in Int /\ lo =< hi /\ \A i \in lo .. hi : s[i] \in Nat
    BY <1>1, <1>2 DEF Ascending
  <2>2. t = SubSeq(s, lo, hi)
    BY DEF Kept
  <2>. HIDE DEF lo, hi, t
  <2>3. /\ t \in Seq(Nat) /\ Len(t) = IF lo =< hi THEN hi - lo + 1 ELSE 0
        /\ \A i \in 1 .. hi - lo + 1 : t[i] = s[lo + i - 1]
    BY <2>1, <2>2
  <2>4. hi - lo + 1 = n - 2 * drop /\ Len(t) = n - 2 * drop
    BY <1>1, <1>2, <2>1, <2>3 DEF lo, hi
  <2>5. \A i \in 1 .. Len(t) : lo + i - 1 = drop + i
    BY <1>2, <2>3, <2>4 DEF lo
  <2>. QED  BY <2>3, <2>4, <2>5
<1>4. ASSUME NEW i \in 1 .. Len(t)
      PROVE  drop + i \in 1 .. n
  BY <1>1, <1>2, <1>3
<1>. HIDE DEF t, drop
<1>5. ASSUME NEW i \in 1 .. Len(t)
      PROVE  s[1] =< t[i] /\ t[i] =< s[n]
  <2>1. drop + i \in 1 .. n /\ t[i] = s[drop + i]
    BY <1>3, <1>4
  <2>. DEFINE k == drop + i
  <2>2. k \in 1 .. n /\ 1 =< k /\ k =< n /\ 1 \in 1 .. n /\ n \in 1 .. n
    BY <1>1, <2>1
  <2>. HIDE DEF k
  <2>3. s[1] =< s[k] /\ s[k] =< s[n]
    BY <2>2 DEF Ascending
  <2>. QED  BY <2>1, <2>3 DEF k
<1>6. Ascending(t)
  <2>1. ASSUME NEW i \in 1 .. Len(t), NEW j \in 1 .. Len(t), i =< j  PROVE t[i] =< t[j]
    <3>1. /\ drop + i \in 1 .. n /\ t[i] = s[drop + i]
          /\ drop + j \in 1 .. n /\ t[j] = s[drop + j] /\ drop + i =< drop + j
      BY <1>2, <1>3, <1>4, <2>1
    <3>. DEFINE k == drop + i  m == drop + j
    <3>. HIDE DEF k, m
    <3>2. s[k] =< s[m]
      BY <3>1 DEF Ascending, k, m
    <3>. QED  BY <3>1, <3>2 DEF k, m
  <2>. QED  BY <1>1, <1>2, <1>3, <2>1 DEF Ascending
<1>. QED  BY <1>5, <1>6 DEF t

\* Where a quarter falls, between which entries, and the figure it stands for,
\* in fourths of a cent.
LEMMA QuartersAscend ==
  ASSUME NEW s, Ascending(s), NEW p \in 0 .. 4 * (Len(s) - 1), NEW q \in 0 .. 4 * (Len(s) - 1),
         p =< q
  PROVE  LET Low(x) == s[x \div 4 + 1]
             High(x) == IF x % 4 = 0 THEN Low(x) ELSE s[x \div 4 + 2]
             At(x) == 4 * Low(x) + (High(x) - Low(x)) * (x % 4)
         IN  /\ At(p) \in Nat /\ At(p) =< At(q)
             /\ 4 * s[1] =< At(p) /\ At(q) =< 4 * s[Len(s)]
<1>. DEFINE n == Len(s)
            Low(x) == s[x \div 4 + 1]
            High(x) == IF x % 4 = 0 THEN Low(x) ELSE s[x \div 4 + 2]
            At(x) == 4 * Low(x) + (High(x) - Low(x)) * (x % 4)
<1>1. n \in Nat /\ n >= 1 /\ \A i \in 1 .. n : s[i] \in Nat
  BY DEF Ascending
<1>2. ASSUME NEW x \in 0 .. 4 * (n - 1)
      PROVE  /\ x \in Nat /\ x \div 4 \in Nat /\ x % 4 \in 0 .. 3
             /\ x = 4 * (x \div 4) + (x % 4)
             /\ x \div 4 + 1 \in 1 .. n
             /\ x % 4 # 0 => x \div 4 + 2 \in 1 .. n
  BY <1>1
<1>3. ASSUME NEW x \in 0 .. 4 * (n - 1)
      PROVE  /\ Low(x) \in Nat /\ High(x) \in Nat /\ At(x) \in Nat
             /\ s[1] =< Low(x) /\ Low(x) =< High(x) /\ High(x) =< s[n]
             /\ 4 * Low(x) =< At(x) /\ At(x) =< 4 * High(x)
             /\ x % 4 # 0 => High(x) = s[x \div 4 + 2]
             /\ x % 4 = 0 => At(x) = 4 * Low(x)
  <2>. DEFINE d == x \div 4  m == x % 4  lo == Low(x)  hi == High(x)
  <2>1. /\ d \in Nat /\ m \in 0 .. 3 /\ d + 1 \in 1 .. n /\ (m # 0 => d + 2 \in 1 .. n)
    BY <1>2
  <2>2. lo = s[d + 1] /\ hi = IF m = 0 THEN s[d + 1] ELSE s[d + 2]
    OBVIOUS
  <2>3. At(x) = 4 * lo + (hi - lo) * m
    OBVIOUS
  <2>4. Low(x) = lo /\ High(x) = hi /\ x \div 4 = d /\ x % 4 = m
    OBVIOUS
  <2>. HIDE DEF d, m, lo, hi, n, Low, High, At
  <2>5. lo \in Nat /\ hi \in Nat /\ s[1] =< lo /\ lo =< hi /\ hi =< s[n]
    <3>1. s[1] =< s[d + 1] /\ s[d + 1] =< s[n] /\ s[d + 1] \in Nat
      BY <1>1, <2>1 DEF Ascending, n
    <3>2. m # 0 => s[d + 1] =< s[d + 2] /\ s[d + 2] =< s[n] /\ s[d + 2] \in Nat
      BY <1>1, <2>1 DEF Ascending, n
    <3>. QED  BY <2>1, <2>2, <3>1, <3>2
  <2>6. /\ m = 0 => (hi - lo) * m = 0
        /\ m = 1 => (hi - lo) * m = hi - lo
        /\ m = 2 => (hi - lo) * m = 2 * (hi - lo)
        /\ m = 3 => (hi - lo) * m = 3 * (hi - lo)
        /\ m = 0 \/ m = 1 \/ m = 2 \/ m = 3
    BY <2>1, <2>5
  <2>7. At(x) \in Nat /\ 4 * lo =< At(x) /\ At(x) =< 4 * hi
    BY <2>3, <2>5, <2>6
  <2>8. m = 0 => At(x) = 4 * lo
    BY <2>3, <2>5, <2>6
  <2>9. m # 0 => hi = s[d + 2]
    BY <2>2
  <2>. QED  BY <2>4, <2>5, <2>7, <2>8, <2>9
<1>4. At(p) =< At(q)
  <2>. DEFINE d == p \div 4  e == q \div 4
  <2>1. d \in Nat /\ e \in Nat /\ d =< e /\ d + 1 \in 1 .. n /\ e + 1 \in 1 .. n
    BY <1>2
  <2>2. CASE d = e
    <3>1. p % 4 \in 0 .. 3 /\ q % 4 \in 0 .. 3 /\ p % 4 =< q % 4
      BY <1>2, <2>2
    <3>2. Low(p) = Low(q)
      BY <2>2
    <3>3. CASE p % 4 = 0
      <4>1. At(p) = 4 * Low(p) /\ 4 * Low(q) =< At(q)
        BY <1>3, <3>3
      <4>. QED  BY <3>2, <4>1
    <3>4. CASE p % 4 # 0
      <4>1. High(p) = High(q)
        BY <2>2, <3>1, <3>4
      <4>. DEFINE lo == Low(p)  hi == High(p)  a == p % 4  b == q % 4
      <4>2. At(p) = 4 * lo + (hi - lo) * a
        OBVIOUS
      <4>3. At(q) = 4 * lo + (hi - lo) * b
        BY <3>2, <4>1
      <4>4. lo \in Nat /\ hi \in Nat /\ lo =< hi /\ a \in 0 .. 3 /\ b \in 0 .. 3 /\ a =< b
        BY <1>3, <3>1
      <4>. HIDE DEF lo, hi, a, b, At
      <4>. DEFINE w == hi - lo
      <4>5. w \in Nat /\ At(p) = 4 * lo + w * a /\ At(q) = 4 * lo + w * b
        BY <4>2, <4>3, <4>4
      <4>. HIDE DEF w
      <4>6. w * a =< w * b /\ w * a \in Nat /\ w * b \in Nat
        <5>1. /\ w * 0 = 0 /\ w * 1 = w /\ w * 2 = w + w /\ w * 3 = w + w + w
          BY <4>5
        <5>. QED  BY <4>4, <4>5, <5>1
      <4>. QED  BY <4>4, <4>5, <4>6
    <3>. QED  BY <3>3, <3>4
  <2>3. CASE d # e
    <3>1. High(p) =< Low(q)
      <4>1. Low(p) =< Low(q)
        BY <2>1 DEF Ascending
      <4>2. p % 4 # 0 => s[d + 2] =< s[e + 1]
        BY <1>2, <2>1, <2>3 DEF Ascending
      <4>. QED  BY <4>1, <4>2
    <3>2. /\ At(p) =< 4 * High(p) /\ 4 * Low(q) =< At(q)
          /\ At(p) \in Nat /\ At(q) \in Nat /\ High(p) \in Nat /\ Low(q) \in Nat
      BY <1>3
    <3>. HIDE DEF At, High, Low
    <3>. QED  BY <3>1, <3>2
  <2>. QED  BY <2>2, <2>3
<1>5. At(p) \in Nat /\ 4 * s[1] =< At(p) /\ At(q) =< 4 * s[n]
  <2>1. /\ At(p) \in Nat /\ 4 * Low(p) =< At(p) /\ s[1] =< Low(p) /\ Low(p) \in Nat
        /\ At(q) \in Nat /\ At(q) =< 4 * High(q) /\ High(q) =< s[n] /\ High(q) \in Nat
    BY <1>3
  <2>2. s[1] \in Nat /\ s[n] \in Nat
    BY <1>1
  <2>. HIDE DEF At, Low, High
  <2>. QED  BY <2>1, <2>2
<1>. QED  BY <1>4, <1>5

\* A higher percentile of an ascending sample is no lower a price.
LEMMA PercentilesAscend ==
  ASSUME NEW s, Ascending(s)
  PROVE  /\ s[1] =< Percentile(s, 1) /\ Percentile(s, 1) =< Percentile(s, 2)
         /\ Percentile(s, 2) =< Percentile(s, 3) /\ Percentile(s, 3) =< s[Len(s)]
         /\ Percentile(s, 1) \in Int /\ Percentile(s, 2) \in Int /\ Percentile(s, 3) \in Int
<1>. DEFINE n == Len(s)
            Low(x) == s[x \div 4 + 1]
            High(x) == IF x % 4 = 0 THEN Low(x) ELSE s[x \div 4 + 2]
            At(x) == 4 * Low(x) + (High(x) - Low(x)) * (x % 4)
            P(k) == (n - 1) * k
<1>1. n \in Nat /\ n >= 1 /\ s[1] \in Nat /\ s[n] \in Nat
  BY DEF Ascending
<1>2. /\ P(1) \in 0 .. 4 * (n - 1) /\ P(2) \in 0 .. 4 * (n - 1) /\ P(3) \in 0 .. 4 * (n - 1)
      /\ P(1) =< P(2) /\ P(2) =< P(3)
  BY <1>1
<1>3. ASSUME NEW p \in 0 .. 4 * (n - 1), NEW q \in 0 .. 4 * (n - 1), p =< q
      PROVE  /\ At(p) \in Nat /\ At(p) =< At(q)
             /\ 4 * s[1] =< At(p) /\ At(q) =< 4 * s[n]
  BY <1>3, QuartersAscend
<1>4. \A k \in {1, 2, 3} : Percentile(s, k) = (At(P(k)) + 2) \div 4
  BY DEF Percentile
<1>. HIDE DEF At, P, n
<1>. DEFINE a == At(P(1))  b == At(P(2))  c == At(P(3))
<1>5. /\ a \in Nat /\ b \in Nat /\ c \in Nat /\ a =< b /\ b =< c
      /\ 4 * s[1] =< a /\ c =< 4 * s[n]
  <2>1. P(3) =< P(3)
    BY <1>1, <1>2
  <2>. QED  BY <1>2, <1>3, <2>1
<1>6. /\ Percentile(s, 1) = (a + 2) \div 4 /\ Percentile(s, 2) = (b + 2) \div 4
      /\ Percentile(s, 3) = (c + 2) \div 4
  BY <1>4
<1>. HIDE DEF a, b, c
<1>7. /\ s[1] =< (a + 2) \div 4 /\ (a + 2) \div 4 =< (b + 2) \div 4
      /\ (b + 2) \div 4 =< (c + 2) \div 4 /\ (c + 2) \div 4 =< s[n]
      /\ (a + 2) \div 4 \in Int /\ (b + 2) \div 4 \in Int /\ (c + 2) \div 4 \in Int
  BY <1>1, <1>5
<1>. QED  BY <1>6, <1>7 DEF n

\* Low, median and high of one computation are in that order.
LEMMA FiguresInOrder ==
  ASSUME NEW ids, IsFiniteSet(ids), ids # {}, \A i \in ids : obs[i].cents \in Nat
  PROVE  InOrder(Summary(ids))
<1>. DEFINE s == Sorted(ids)  t == Kept(s)
<1>1. Ascending(s)
  BY SortedAscends
<1>. HIDE DEF s
<1>2. /\ Ascending(t)
      /\ \A i \in 1 .. Len(t) : s[1] =< t[i] /\ t[i] =< s[Len(s)]
  BY <1>1, KeptAscends
<1>3. Summary(ids) = [low |-> s[1], p25 |-> Percentile(t, 1), median |-> Percentile(t, 2),
                      p75 |-> Percentile(t, 3), high |-> s[Len(s)]]
  BY DEF Summary, s
<1>. HIDE DEF t
<1>4. /\ t[1] =< Percentile(t, 1) /\ Percentile(t, 1) =< Percentile(t, 2)
      /\ Percentile(t, 2) =< Percentile(t, 3) /\ Percentile(t, 3) =< t[Len(t)]
      /\ Percentile(t, 1) \in Int /\ Percentile(t, 2) \in Int /\ Percentile(t, 3) \in Int
  BY <1>2, PercentilesAscend
<1>5. s[1] =< t[1] /\ t[Len(t)] =< s[Len(s)]
  BY <1>2 DEF Ascending
<1>6. /\ s[1] \in Nat /\ s[Len(s)] \in Nat /\ t[1] \in Nat /\ t[Len(t)] \in Nat
  BY <1>1, <1>2 DEF Ascending
<1>. QED  BY <1>3, <1>4, <1>5, <1>6 DEF InOrder

(* Only so many observations have been made, and pulls logged.             *)
FewRows == IsFiniteSet(DOMAIN obs) /\ IsFiniteSet({p \in Pull : pulls[p] # None})

\* Every step leaves finitely many rows.
LEMMA FewStep == FewRows /\ [Next]_vars => FewRows'
<1>. SUFFICES ASSUME FewRows, [Next]_vars  PROVE FewRows'
  OBVIOUS
<1>. DEFINE L == {p \in Pull : pulls[p] # None}
<1>1. ASSUME DOMAIN obs' = DOMAIN obs, UNCHANGED pulls  PROVE FewRows'
  BY <1>1 DEF FewRows
<1>2. ASSUME NEW x, DOMAIN obs' = DOMAIN obs \cup {x}, UNCHANGED pulls  PROVE FewRows'
  <2>1. IsFiniteSet(DOMAIN obs')
    BY <1>2, FS_AddElement DEF FewRows
  <2>. QED  BY <1>2, <2>1 DEF FewRows
<1>3. CASE UNCHANGED vars
  BY <1>1, <1>3 DEF vars
<1>4. ASSUME NEW p \in Pull, NEW c, NEW k, PullIsLogged(p, c, k)
      PROVE  FewRows'
  <2>1. {q \in Pull : pulls'[q] # None} \subseteq L \cup {p} /\ obs' = obs
    BY <1>4 DEF PullIsLogged
  <2>2. IsFiniteSet(L \cup {p})
    <3>1. IsFiniteSet(L)
      BY DEF FewRows
    <3>. HIDE DEF L
    <3>. QED  BY <3>1, FS_AddElement
  <2>. QED  BY <2>1, <2>2, FS_Subset DEF FewRows
<1>5. ASSUME NEW r, NEW at, NEW c, ReportPrice(r, at, c)
      PROVE  FewRows'
  BY <1>2, <1>5 DEF ReportPrice, Inserted
<1>6. ASSUME NEW i \in DOMAIN obs, NEW d, ModerateObservation(i, d) \/ ReviewFlaggedObservation(i, d)
      PROVE  FewRows'
  BY <1>1, <1>6 DEF ModerateObservation, ReviewFlaggedObservation
<1>7. ASSUME NEW j, JobStarts(j)  PROVE FewRows'
  <2>. DEFINE new == {p \in Pull \ Taken : pulls[p] # None /\ Evidence(p)}
              ids == {Fresh(p) : p \in new}
              f == [p \in new |-> Fresh(p)]
  <2>1. IsFiniteSet(new)
    BY FS_Subset DEF FewRows
  <2>2. IsFiniteSet(ids)
    <3>1. f \in Surjection(new, ids)
      BY DEF Surjection
    <3>. HIDE DEF new, f, ids
    <3>. QED  BY <2>1, <3>1, FS_Surjection
  <2>3. DOMAIN obs' = DOMAIN obs \cup ids /\ UNCHANGED pulls
    BY <1>7 DEF JobStarts, Inserted
  <2>4. IsFiniteSet(DOMAIN obs)
    BY DEF FewRows
  <2>5. IsFiniteSet(DOMAIN obs \cup ids)
    <3>. HIDE DEF ids
    <3>. QED  BY <2>2, <2>4, FS_Union
  <2>. HIDE DEF ids
  <2>. QED  BY <2>3, <2>5 DEF FewRows
<1>8. ASSUME NEW j, NEW s, JobLinks(j, s)  PROVE FewRows'
  BY <1>1, <1>2, <1>8 DEF JobLinks, Inserted
<1>9. ASSUME NEW j, JobReadsBatch(j) \/ JobReadsDay(j) \/ JobPublishes(j) \/ JobDies(j)
      PROVE  FewRows'
  BY <1>1, <1>9 DEF JobReadsBatch, JobReadsDay, JobPublishes, JobDies
<1>10. ASSUME Tick \/ \E s \in Sale : DeleteLiveSale(s) \/ \E at, c : LogLiveSale(s, at, c)
       PROVE  FewRows'
  BY <1>1, <1>10 DEF Tick, DeleteLiveSale, LogLiveSale
<1>. QED
  BY <1>3, <1>4, <1>5, <1>6, <1>7, <1>8, <1>9, <1>10 DEF Next, JobStep

(* What is published is evidence, and its low, quartiles and high are in   *)
(* order: the CHECKs of the table never refuse a row of the job.           *)
THEOREM IndexStaysHonest == Spec => []IndexIsHonest
<1>1. Init => FewRows
  <2>1. Init => DOMAIN obs = {} /\ {p \in Pull : pulls[p] # None} = {}
    BY DEF Init
  <2>. QED  BY <2>1, FS_EmptySet DEF FewRows
<1>2. PriceInv /\ FewRows => \A d \in Published : InOrder(Summary(index[d]))
  <2>. SUFFICES ASSUME PriceInv, FewRows, NEW d \in Published
                PROVE  InOrder(Summary(index[d]))
    OBVIOUS
  <2>1. /\ index[d] \in SUBSET DOMAIN obs /\ Cardinality(index[d]) >= MinObservations
        /\ \A i \in DOMAIN obs : obs[i].cents \in Cents
    BY DEF PriceInv, PricesTypeOK, PublishedIsTrue, Published, ObsRow
  <2>2. IsFiniteSet(index[d])
    BY <2>1, FS_Subset DEF FewRows
  <2>3. index[d] # {}
    BY <2>1, FS_EmptySet, PricesAssumption
  <2>4. \A i \in index[d] : obs[i].cents \in Nat
    BY <2>1, PricesAssumption
  <2>. QED  BY <2>2, <2>3, <2>4, FiguresInOrder
<1>3. Spec => []FewRows
  BY <1>1, FewStep, PTL DEF Spec
<1>4. (\A d \in Published : CountsEvidence(d)) /\ PriceInv /\ FewRows => IndexIsHonest
  BY <1>2 DEF IndexIsHonest
<1>. QED  BY <1>3, <1>4, DaysCountEvidence, PricesInvariant, PTL
=============================================================================
