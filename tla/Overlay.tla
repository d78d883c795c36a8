------------------------------ MODULE Overlay ------------------------------
(***************************************************************************)
(* The OBS overlay stream of apps/api/src/routes/breaks.ts, on top of      *)
(* Breaks: a viewer presents an overlay token, is counted against the      *)
(* token's connections, and is then sent the log whenever a poll finds its *)
(* newest pull changed.                                                    *)
(*                                                                         *)
(* Every await is a step: the first lookup, and each poll's query.  A slow *)
(* query is overtaken by the next poll, so answers come in any order.  The *)
(* heartbeat is left out, and what is sent is the newest sequence number.  *)
(***************************************************************************)
EXTENDS Breaks

CONSTANTS
    Viewer,             \* overlay clients
    MaxConnections      \* MAX_OVERLAY_CONNECTIONS, per token

ASSUME OverlayAssumption == MaxConnections \in Nat /\ IsFiniteSet(Viewer)

VARIABLES
    stream,             \* [Viewer -> one connection's state]
    connections         \* [<<break, version>> -> Nat]: overlayConnections

overlayVars == <<stream, connections>>
allVars == <<brk, pulls, commitment, evidence, req, stream, connections>>

Token == Break \X (1 .. MaxVersion)
Revoked == -1           \* getOverlayState found no break for the token
Closed == [at |-> "closed"]

OverlayTypeOK ==
    /\ BreaksTypeOK
    /\ stream \in [Viewer ->
         {Closed}
         \cup [at : {"lookup"}, token : Token, last : Nat, gone : BOOLEAN]
         \cup [at : {"open"}, token : Token, last : Nat, gone : BOOLEAN,
               reads : SUBSET (Nat \cup {Revoked})]]
    /\ connections \in [Token -> Nat]

OverlayInit ==
    /\ BreaksInit
    /\ stream = [v \in Viewer |-> Closed]
    /\ connections = [t \in Token |-> 0]

\* findBreakByOverlayToken: only the current version's hash is in the table.
Resolves(t) == brk[t[1]] # None /\ brk[t[1]].version = t[2]
Newest(b) == IF pulls[b] = {} THEN 0 ELSE Tip(b).body.seq
Shown(t) == IF Resolves(t) THEN Newest(t[1]) ELSE Revoked

\* The request arrives and its token is looked up; a token that does not
\* resolve is answered 404 and changes nothing.
Connects(v, t) ==
    /\ stream[v] = Closed
    /\ Resolves(t)
    /\ stream' = [stream EXCEPT ![v] =
                    [at |-> "lookup", token |-> t, last |-> Newest(t[1]), gone |-> FALSE]]
    /\ UNCHANGED connections

\* The lookup answers: too many connections, or one more.
Opens(v) ==
    /\ stream[v].at = "lookup"
    /\ LET t == stream[v].token
       IN  IF connections[t] >= MaxConnections
           THEN /\ stream' = [stream EXCEPT ![v] = Closed]
                /\ UNCHANGED connections
           ELSE /\ stream' = [stream EXCEPT ![v] =
                     [at |-> "open", token |-> t, last |-> stream[v].last,
                      gone |-> stream[v].gone, reads |-> {}]]
                /\ connections' = [connections EXCEPT ![t] = @ + 1]

CleanupLeaks(v) ==
    /\ stream' = [stream EXCEPT ![v] = Closed]
    /\ UNCHANGED connections
Cleanup(v) ==
    /\ stream' = [stream EXCEPT ![v] = Closed]
    /\ connections' = [connections EXCEPT ![stream[v].token] = IF @ > 0 THEN @ - 1 ELSE 0]

\* The client goes away.  During the lookup nobody listens for it yet, and
\* the close event is not repeated for the listener registered afterwards.
Disconnects(v) ==
    \/ /\ stream[v].at = "lookup" /\ ~stream[v].gone
       /\ stream' = [stream EXCEPT ![v].gone = TRUE]
       /\ UNCHANGED connections
    \/ /\ stream[v].at = "open" /\ ~stream[v].gone
       /\ Cleanup(v)

PollReads(v) ==
    /\ stream[v].at = "open"
    /\ stream' = [stream EXCEPT ![v].reads = @ \cup {Shown(stream[v].token)}]
    /\ UNCHANGED connections

PollAnswersDeaf(v, x) ==
    /\ stream[v].at = "open" /\ x \in stream[v].reads
    /\ stream' = [stream EXCEPT ![v].reads = @ \ {x}, ![v].last = IF x = Revoked THEN @ ELSE x]
    /\ UNCHANGED connections
PollAnswers(v, x) ==
    /\ stream[v].at = "open" /\ x \in stream[v].reads
    /\ IF x = Revoked
       THEN Cleanup(v)
       ELSE /\ stream' = [stream EXCEPT ![v].reads = @ \ {x}, ![v].last = x]
            /\ UNCHANGED connections

IdleTimeout(v) ==
    /\ stream[v].at = "open"
    /\ Cleanup(v)

Answers(v) == \E x \in 0 .. SeqBound : PollAnswers(v, x)

OverlayStep(v) ==
    /\ \/ \E t \in Token : Connects(v, t)
       \/ Opens(v) \/ Disconnects(v) \/ PollReads(v)
       \/ PollAnswers(v, Revoked) \/ Answers(v) \/ IdleTimeout(v)
    /\ UNCHANGED vars

OverlayNext == (BreaksNext /\ UNCHANGED overlayVars) \/ (\E v \in Viewer : OverlayStep(v))

\* The lookup answers and the poll timer runs: setInterval keeps firing while
\* the process lives, and a query that fails is asked again.  The idle timer
\* (six hours) is assumed only where nothing else can end the stream, so that
\* no property is met by waiting for it.  Nothing is assumed of creators,
\* viewers or requests.
OverlayFairness ==
    \A v \in Viewer :
      /\ WF_allVars(Opens(v) /\ UNCHANGED vars)
      /\ WF_allVars(PollReads(v) /\ UNCHANGED vars)
      /\ WF_allVars(stream[v].at = "open" /\ stream[v].gone /\ IdleTimeout(v) /\ UNCHANGED vars)
      /\ \A x \in -1 .. SeqBound :
           WF_allVars(PollAnswers(v, x) /\ UNCHANGED vars)

OverlaySpec == OverlayInit /\ [][OverlayNext]_allVars /\ OverlayFairness
-----------------------------------------------------------------------------
\* The count of a token's connections is the number of its open streams, so
\* it is within the cap, no slot is lost or counted twice, and a slot is held
\* only by a stream whose timers still run (overlayConnections, cleanup).
SlotsMatchStreams ==
    \A t \in Token :
      /\ connections[t] =< MaxConnections
      /\ connections[t] = Cardinality({v \in Viewer : stream[v].at = "open"
                                                      /\ stream[v].token = t})

\* A stream that stays open is in the end shown the newest pull, though its
\* polls may overtake one another; a stream whose token was rotated away is
\* closed; and so is one whose client left before anyone listened, which
\* holds a connection until the idle timer.
OverlayCatchesUp ==
    \A v \in Viewer : \A t \in Token :
      LET open == stream[v].at = "open" /\ stream[v].token = t
      IN  /\ open ~> (~open \/ ~Resolves(t) \/ stream[v].last = Newest(t[1]))
          /\ (open /\ ~Resolves(t)) ~> ~open
          /\ (open /\ stream[v].gone) ~> ~open
=============================================================================
