------------------------------ MODULE Verifier ------------------------------
(***************************************************************************)
(* The public page of a break and the verifier on it: the evidence is read *)
(* by GET /v1/breaks/:id/public in several statements, sent with the API's *)
(* own opinion of the chain, and checked again in the viewer's browser     *)
(* (apps/web's verifier.tsx), which says so when the two disagree.  Pulls  *)
(* are logged while it is read, and somebody with the database may edit a  *)
(* row or the published seed.                                              *)
(***************************************************************************)
EXTENDS Shuffle

CONSTANTS
  Content,      \* what a pull may say
  Seed,        \* server seeds: a commitment names its seed
  MaxLog,      \* how long the log grows
  MaxEvidence, \* how many times a viewer has the evidence
  Unhashed,    \* the hashes of a row older than the chain
  Unread       \* what has not been read

ASSUME VerifierAssumption ==
  /\ MaxLog \in Nat /\ MaxEvidence \in Nat
  /\ Unhashed \notin Seq([seq : Nat, says : Content])

VARIABLES
  rows,       \* the pulls of the break, in order
  seal,       \* break_commitments: committed, client seed given, revealed
  edited,     \* whether somebody wrote what no code of the system writes
  fetch,      \* a request for the public view
  evidence,   \* what the page is checking
  had,        \* how many times it was given evidence
  runs,       \* checks in flight, each of the evidence it started with
  verdict,    \* what the page says of the seeds and of the log
  agrees      \* and whether it says that browser and server agree

verifyVars == <<rows, seal, edited, fetch, evidence, had, runs, verdict, agrees>>

NoSeal == [committed |-> Unread, client |-> FALSE, revealed |-> Unread]
Old(pulled) == [body |-> [seq |-> 1, says |-> pulled],
                prevHash |-> Unhashed, rowHash |-> Unhashed]
Asks == [step |-> "idle"]

VerifierInit ==
  /\ rows \in {<<>>} \cup {<<Old(p)>> : p \in Content}
  /\ seal = NoSeal /\ edited = FALSE
  /\ fetch = Asks /\ evidence = Unread /\ had = 0
  /\ runs = {}
  /\ verdict = [seeds |-> "checking", log |-> "checking"] /\ agrees = TRUE

-----------------------------------------------------------------------------
(* The break, in as much as the evidence tells.  When each of these may    *)
(* happen is modelled in Breaks; a viewer may come between any two.        *)

(* logPull links the row to the newest; after a row without a hash it      *)
(* starts from the beginning.                                              *)
PullArrives(p) ==
  /\ Len(rows) < MaxLog
  /\ LET tip  == IF rows = <<>> THEN Genesis ELSE rows[Len(rows)].rowHash
         prev == IF tip = Unhashed THEN Genesis ELSE tip
         body == [seq |-> Len(rows) + 1, says |-> p]
     IN  rows' = Append(rows, [body |-> body, prevHash |-> prev,
                               rowHash |-> HashPull(prev, body)])
  /\ UNCHANGED <<seal, edited, fetch, evidence, had, runs, verdict, agrees>>

(* commit, client-seed and reveal, in that order.                          *)
SealMoves ==
  /\ \/ seal.committed = Unread /\ \E s \in Seed : seal' = [seal EXCEPT !.committed = s]
     \/ seal.committed # Unread /\ ~seal.client /\ seal' = [seal EXCEPT !.client = TRUE]
     \/ seal.client /\ seal.revealed = Unread /\ seal' = [seal EXCEPT !.revealed = seal.committed]
  /\ UNCHANGED <<rows, edited, fetch, evidence, had, runs, verdict, agrees>>

(* Anyone with a psql prompt: a row says something else, or another seed   *)
(* is shown than the one committed to. Once, as a bound.                   *)
DatabaseEdited ==
  /\ ~edited /\ edited' = TRUE
  /\ \/ /\ \E i \in DOMAIN rows : \E p \in Content \ {rows[i].body.says} :
             rows' = [rows EXCEPT ![i].body.says = p]
        /\ UNCHANGED seal
     \/ /\ seal.revealed # Unread
        /\ \E s \in Seed \ {seal.committed} : seal' = [seal EXCEPT !.revealed = s]
        /\ UNCHANGED rows
  /\ UNCHANGED <<fetch, evidence, had, runs, verdict, agrees>>

-----------------------------------------------------------------------------
(* The evidence is read.                                                   *)

PredatesChain(log) == \E i \in DOMAIN log : log[i].rowHash = Unhashed

(* statusOf: the API's opinion of the rows as they are when it asks.       *)
ChainOf(log) ==
  IF log = <<>> THEN "empty"
  ELSE IF PredatesChain(log) THEN "unverifiable"
  ELSE IF BrokenAt(log) = 0 THEN "valid" ELSE "invalid"

(* A page is opened, or its button pressed, once at a time.                *)
Asked ==
  /\ fetch = Asks /\ had < MaxEvidence
  /\ fetch' = [step |-> "asked", rows |-> Unread, seal |-> Unread, chain |-> Unread]
  /\ UNCHANGED <<rows, seal, edited, evidence, had, runs, verdict, agrees>>

(* getPublicBreak.                                                         *)
ViewReads ==
  /\ fetch.step = "asked" /\ fetch.rows = Unread
  /\ fetch' = [fetch EXCEPT !.rows = rows]
  /\ UNCHANGED <<rows, seal, edited, evidence, had, runs, verdict, agrees>>

(* As if the three reads were all started at once.                         *)
RowsReadOrNot(f) == f.step = "asked"

(* The commitment and the chain are asked for when the view has come back. *)
RowsRead(f) == f.step = "asked" /\ f.rows # Unread

(* getCommitment and checkChain, in either order.                          *)
CommitmentReads ==
  /\ RowsRead(fetch) /\ fetch.seal = Unread
  /\ fetch' = [fetch EXCEPT !.seal = seal]
  /\ UNCHANGED <<rows, seal, edited, evidence, had, runs, verdict, agrees>>

ChainReads ==
  /\ RowsRead(fetch) /\ fetch.chain = Unread
  /\ fetch' = [fetch EXCEPT !.chain = ChainOf(rows)]
  /\ UNCHANGED <<rows, seal, edited, evidence, had, runs, verdict, agrees>>

(* setEvidence, and the effect that starts a check of it: a check already  *)
(* running goes on.                                                        *)
EvidenceArrives ==
  /\ fetch.step = "asked"
  /\ Unread \notin {fetch.rows, fetch.seal, fetch.chain}
  /\ evidence' = [rows |-> fetch.rows, seal |-> fetch.seal, chain |-> fetch.chain]
  /\ had' = had + 1
  /\ runs' = runs \cup {[of |-> evidence', at |-> "seeds"]}
  /\ fetch' = Asks
  /\ UNCHANGED <<rows, seal, edited, verdict, agrees>>

(* A failed request leaves the evidence in place.                          *)
FetchFails ==
  /\ fetch.step = "asked"
  /\ fetch' = Asks
  /\ UNCHANGED <<rows, seal, edited, evidence, had, runs, verdict, agrees>>

-----------------------------------------------------------------------------
(* run: first the seeds...                                                 *)
SeedsVerdict(s) ==
  IF s.committed = Unread \/ s.revealed = Unread \/ ~s.client THEN "skip"
  ELSE IF s.revealed = s.committed THEN "pass" ELSE "fail"

ChecksSeeds(run) ==
  /\ run \in runs /\ run.at = "seeds"
  /\ verdict' = [verdict EXCEPT !.seeds = SeedsVerdict(run.of.seal)]
  /\ runs' = (runs \ {run}) \cup {[run EXCEPT !.at = "log"]}
  /\ UNCHANGED <<rows, seal, edited, fetch, evidence, had, agrees>>

(* ...then the log, and only a log that could be checked says whether the  *)
(* server told the truth about it.                                         *)
LogVerdict(log) ==
  IF log = <<>> \/ PredatesChain(log) THEN "skip"
  ELSE IF BrokenAt(log) = 0 THEN "pass" ELSE "fail"

ChecksLog(run) ==
  /\ run \in runs /\ run.at = "log"
  /\ LET said == LogVerdict(run.of.rows)
     IN  /\ verdict' = [verdict EXCEPT !.log = said]
         /\ agrees' = IF said = "skip" THEN agrees
                      ELSE (run.of.chain = "valid") = (said = "pass")
  /\ runs' = runs \ {run}
  /\ UNCHANGED <<rows, seal, edited, fetch, evidence, had>>

VerifierNext ==
  \/ \E p \in Content : PullArrives(p)
  \/ SealMoves \/ DatabaseEdited
  \/ Asked \/ ViewReads \/ CommitmentReads \/ ChainReads \/ EvidenceArrives \/ FetchFails
  \/ \E run \in runs : ChecksSeeds(run) \/ ChecksLog(run)
VerifierSpec == VerifierInit /\ [][VerifierNext]_verifyVars

-----------------------------------------------------------------------------
(* The page accuses the server of misreporting its log only when somebody  *)
(* did edit the database: pulls that arrive between the statements that    *)
(* read the evidence, and checks that overtake each other, raise no alarm. *)
NoFalseAlarm == ~edited => agrees /\ verdict.log # "fail" /\ verdict.seeds # "fail"
=============================================================================
