----------------------------- MODULE MCCommunity -----------------------------
(* Collections, Reputation and the web pages for TLC.  They share no state    *)
(* that is modelled: a behaviour of the run is about collections, about       *)
(* breakers' pages, about ratings, about the marketplace's two pages, about   *)
(* the two logging forms or about the verifier, chosen at the start.          *)
EXTENDS Collections, Reputation, Screens, Loggers, Verifier
CONSTANTS p1, p2, l1, l2, ca, cb
VARIABLE part

MCCreator == [b \in Break |-> p1]
MCProduct == [b \in Break |-> "box"]
MCOdds == [x \in {"box"} \X Rarity |-> IF x[2] = "SR" THEN [n |-> 1, d |-> 2] ELSE None]
MCZSquared == <<4, 5>>
MCBuyer == [o \in Order |-> p1]
MCSeller == [o \in Order |-> p2]

Buy(q, cents, currency, notes) ==
    [quantity |-> q, cents |-> cents, currency |-> currency, notes |-> notes]
FileRow(l, buy) == [line |-> l, buy |-> buy]
MCPurchase ==
    {Buy(1, Unknown, "USD", <<>>), Buy(1, 0, "USD", <<"=", Quote>>),
     Buy(2, 105, "USD", <<CR, LF, "a">>)}
MCFile ==
    {<<FileRow(l1, Buy(1, 7, "USD", <<>>)), FileRow(l2, Buy(1, Unknown, "USD", <<"a", Comma, Quote>>))>>,
     <<FileRow(l1, Buy(0, 9, "EUR", <<>>)), FileRow(l1, Buy(2, 4, "EUR", <<>>)),
       FileRow(l1, Buy(1, 9, "EUR", <<>>))>>}
MCChar == {"a", "=", Quote, Comma, CR, LF}
MCPrice == [l \in Line |-> IF l = l1 THEN 50 ELSE Unpriced]
MCColumns == {<<"set">>, <<"quantity">>, <<"notes">>}
MCRequired == {<<"set">>}

MCFinds == [text \in Text |-> IF text \in Card THEN <<text>> ELSE <<ca, cb>>]
MCIndexPrice == [c \in Card |-> IF c = ca THEN 5 ELSE Empty]

(* The initial state of the part a behaviour is not about.                    *)
ScreenStill == ScreenInit /\ screen = "orders"
               /\ \A r \in Item : row[r] = NewRow("buying", "created")
LoggerStill == LoggerInit /\ logger = "sales" /\ status = "live"
VerifierStill == VerifierInit /\ rows = <<>>

allVars == <<collVars, repVars, screenVars, logVars, verifyVars, part>>
MCInit ==
    /\ CollInit /\ RepInit
    /\ \/ /\ part \in {"collections", "page", "stars"}
          /\ ScreenStill /\ LoggerStill /\ VerifierStill
       \/ part = "screens" /\ ScreenInit /\ LoggerStill /\ VerifierStill
       \/ part = "loggers" /\ LoggerInit /\ ScreenStill /\ VerifierStill
       \/ part = "verifier" /\ VerifierInit /\ ScreenStill /\ LoggerStill
MCNext ==
    \/ /\ part = "collections" /\ CollNext
       /\ UNCHANGED <<repVars, screenVars, logVars, verifyVars, part>>
    \/ /\ part = "page" /\ BreakerNext
       /\ UNCHANGED <<collVars, rateVars, screenVars, logVars, verifyVars, part>>
    \/ /\ part = "stars" /\ RateNext
       /\ UNCHANGED <<collVars, breakerVars, screenVars, logVars, verifyVars, part>>
    \/ /\ part = "screens" /\ ScreenNext
       /\ UNCHANGED <<collVars, repVars, logVars, verifyVars, part>>
    \/ /\ part = "loggers" /\ LoggerNext
       /\ UNCHANGED <<collVars, repVars, screenVars, verifyVars, part>>
    \/ /\ part = "verifier" /\ VerifierNext
       /\ UNCHANGED <<collVars, repVars, screenVars, logVars, part>>
MCSpec == MCInit /\ [][MCNext]_allVars
=============================================================================
