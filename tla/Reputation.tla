----------------------------- MODULE Reputation -----------------------------
(***************************************************************************)
(* What the public is told about a person: a breaker's page, with the      *)
(* fairness badge and the pull rates set against published odds            *)
(* (queries/profiles.ts, core/rarity.ts, checkChains of                    *)
(* queries/fairness.ts), and a seller's reputation, made of ratings of     *)
(* finished orders (queries/ratings.ts and migration 0045).                *)
(*                                                                         *)
(* Breaks and orders move here as their own modules let them: OrderRules   *)
(* is the table of an order's moves, and a break's log may gain a pull     *)
(* that was begun before it ended.  A page is read in several statements,  *)
(* each on its own snapshot.                                               *)
(***************************************************************************)
EXTENDS Integers, FiniteSets, FiniteSetsExt, OrderRules

CONSTANTS
    Person,
    Handle,
    Reserved,       \* RESERVED_HANDLES
    Break,
    Creator,        \* [Break -> Person]
    Product,        \* [Break -> the sealed product opened]
    Rarity,
    NoRarity,       \* a pull that names no card, or a card without a rarity
    Odds,           \* [products \X Rarity -> [n, d], n in d packs, or None]
    PackCount,      \* pack counts a creator records
    MaxPulls,       \* bound: pulls of one rarity in a break
    MinPacks,       \* MIN_PACKS_FOR_ODDS
    MinExpected,    \* MIN_EXPECTED_HITS
    ZSquared,       \* [comparisons -> zFor(ODDS_CONFIDENCE, comparisons)^2]
    Sample,         \* PROFILE_CHAIN_SAMPLE
    Order,
    Buyer, Seller,  \* [Order -> Person]
    Stars,          \* 1 .. 5
    None

ASSUME ReputationAssumption ==
    /\ Reserved \subseteq Handle
    /\ Stars \subseteq 1 .. 5
    /\ \A o \in Order : Buyer[o] # Seller[o]

VARIABLES
    profile,    \* [Person -> [handle, published], or None]: creator_profiles
    brk,        \* [Break -> [status, packs, revealed, chain, ended]]
    pulled,     \* [Break -> [Rarity and NoRarity -> pulls logged]]
    logging,    \* breaks with a pull begun while live and not committed yet
    order,      \* [Order -> status]
    asked,      \* orders whose buyer's rating has been read for and not written
    rating,     \* [Order -> [rater, seller, stars], or None]: order_ratings
    page        \* a page being read, or the last one answered, or None

breakerVars == <<profile, brk, pulled, logging, page>>
rateVars == <<order, asked, rating>>
repVars == <<breakerVars, rateVars>>
-----------------------------------------------------------------------------
RepInit ==
    /\ profile = [p \in Person |-> None]
    /\ brk = [b \in Break |-> [status |-> "draft", packs |-> None, revealed |-> FALSE,
                               edited |-> FALSE, ended |-> 0]]
    /\ pulled = [b \in Break |-> [r \in Rarity \cup {NoRarity} |-> 0]]
    /\ logging = {}
    /\ order = [o \in Order |-> "delivered"]
    /\ asked = {}
    /\ rating = [o \in Order |-> None]
    /\ page = None

\* isValidHandle, and the unique index on handles.
ValidHandle(h) == h \in Handle \ Reserved
Taken(h, p) == \E q \in Person \ {p} : profile[q] # None /\ profile[q].handle = h

\* upsertProfile: one row an account, and nobody else's handle.
UpsertProfile(p, h, published) ==
    /\ ValidHandle(h) /\ ~Taken(h, p)
    /\ profile' = [profile EXCEPT ![p] = [handle |-> h, published |-> published]]
    /\ UNCHANGED <<brk, pulled, logging, page>>

DeleteMyProfile(p) ==
    /\ profile[p] # None
    /\ profile' = [profile EXCEPT ![p] = None]
    /\ UNCHANGED <<brk, pulled, logging, page>>
-----------------------------------------------------------------------------
\* The life of a break, as its own module has it.
Pulls(b) == SumFunction(pulled[b])
EndedBreaks == {b \in Break : brk[b].status = "ended"}

BreakMoves(b) ==
    /\ \/ /\ brk[b].status = "draft"
          /\ brk' = [brk EXCEPT ![b].status = "live"]
       \/ /\ brk[b].status = "live"
          /\ brk' = [brk EXCEPT ![b].status = "ended", ![b].ended = Cardinality(EndedBreaks) + 1]
       \/ /\ brk[b].status = "ended" /\ ~brk[b].revealed
          /\ brk' = [brk EXCEPT ![b].revealed = TRUE]
    /\ UNCHANGED <<profile, pulled, logging, page>>

SetPacksOpened(b, n) ==
    /\ brk[b].packs # n
    /\ brk' = [brk EXCEPT ![b].packs = n]
    /\ UNCHANGED <<profile, pulled, logging, page>>

PullBegins(b) ==
    /\ brk[b].status = "live"
    /\ b \notin logging
    /\ logging' = logging \cup {b}
    /\ UNCHANGED <<profile, brk, pulled, page>>

PullCommits(b, r) ==
    /\ b \in logging
    /\ pulled[b][r] < MaxPulls
    /\ logging' = logging \ {b}
    /\ pulled' = [pulled EXCEPT ![b][r] = @ + 1]
    /\ UNCHANGED <<profile, brk, page>>

\* A row of the log is changed behind the application's back.
LogIsEdited(b) ==
    /\ Pulls(b) > 0 /\ ~brk[b].edited
    /\ brk' = [brk EXCEPT ![b].edited = TRUE]
    /\ UNCHANGED <<profile, pulled, logging, page>>
-----------------------------------------------------------------------------
\* compareToOdds.  A rate is outside the Wilson interval around hits / packs just
\* when the score test rejects it: (hits/packs - rate)^2 > z^2 rate (1 - rate) / packs.
Rejected(hits, packs, odds, k) ==
    LET gap == hits * odds.d - packs * odds.n
    IN  gap * gap > ZSquared[k] * packs * odds.n * (odds.d - odds.n)

Insufficient(packs, odds) == packs < MinPacks \/ packs * odds.n < MinExpected * odds.d

Verdict(hits, packs, odds, k) ==
    CASE odds = None -> "unpublished"
      [] odds # None /\ hits > packs -> "not_comparable"
      [] odds # None /\ hits <= packs /\ Insufficient(packs, odds) -> "insufficient"
      [] OTHER -> CASE ~Rejected(hits, packs, odds, k) -> "consistent"
                    [] Rejected(hits, packs, odds, k) /\ hits * odds.d > packs * odds.n -> "above"
                    [] OTHER -> "below"

\* breakerOddsReports: ended breaks with a pack count, product by product; every
\* rarity that was pulled or has odds is a row, and those with odds are the tests.
Eligible(p) == {b \in Break : Creator[b] = p /\ brk[b].status = "ended" /\ brk[b].packs # None}

Packs(bs) == LET Opened(b) == brk[b].packs IN MapThenSumSet(Opened, bs)
Hits(bs, r) == LET Pulled(b) == pulled[b][r] IN MapThenSumSet(Pulled, bs)

CompareRarities(bs, s) ==
    LET tested == {r \in Rarity : Odds[s, r] # None}
        k == Max({1, Cardinality(tested)})
        rows == tested \cup {r \in Rarity : Hits(bs, r) > 0}
    IN  [r \in rows |-> Verdict(Hits(bs, r), Packs(bs), Odds[s, r], k)]

OddsReports(p) ==
    [s \in {Product[b] : b \in Eligible(p)} |->
        LET bs == {b \in Eligible(p) : Product[b] = s}
        IN  [packs |-> Packs(bs), unidentified |-> Hits(bs, NoRarity),
             rarities |-> CompareRarities(bs, s)]]

\* breakerTotals, over the breaks that are not drafts.
BreakerTotals(p) ==
    LET mine == {b \in Break : Creator[b] = p /\ brk[b].status # "draft"}
        ended == mine \cap EndedBreaks
        counted == ended \cap Eligible(p)
    IN  [breaks |-> Cardinality(mine), ended |-> Cardinality(ended),
         pulls |-> MapThenSumSet(Pulls, mine), packs |-> Packs(counted),
         uncounted |-> Cardinality(ended \ counted)]

\* checkChains, over the last breaks that ended; one without a pull says nothing.
ChainState(b) ==
    CASE Pulls(b) = 0 -> "empty" [] Pulls(b) > 0 /\ brk[b].edited -> "invalid" [] OTHER -> "valid"

Sampled(p) ==
    {b \in EndedBreaks : Creator[b] = p
        /\ Cardinality({c \in EndedBreaks : Creator[c] = p /\ brk[c].ended > brk[b].ended}) < Sample}

Revealed(p) == Cardinality({b \in Break : Creator[b] = p /\ brk[b].revealed})

Badge(revealed, states) ==
    CASE "invalid" \in states -> "broken" [] "invalid" \notin states /\ revealed > 0 -> "verified"
      [] OTHER -> "none"

\* GET a breaker's page: the profile, and then the queries about its owner.  The
\* two the badge is made of are apart; each of the others is one statement, and
\* shows BreakerTotals and OddsReports as they are when it runs.
PageOpens(p) ==
    /\ profile[p] # None /\ profile[p].published
    /\ page' = [who |-> p, revealed |-> None, badge |-> None]
    /\ UNCHANGED <<profile, brk, pulled, logging>>

PageCounts ==
    /\ page # None /\ page.revealed = None
    /\ page' = [page EXCEPT !.revealed = Revealed(page.who)]
    /\ UNCHANGED <<profile, brk, pulled, logging>>

PageChecks ==
    /\ page # None /\ page.revealed # None /\ page.badge = None
    /\ page' = [page EXCEPT !.badge =
                  Badge(page.revealed, {ChainState(b) : b \in Sampled(page.who)})]
    /\ UNCHANGED <<profile, brk, pulled, logging>>
-----------------------------------------------------------------------------
OrderMoves(o, to, actor) ==
    /\ CanTransition(order[o], to, actor)
    /\ order' = [order EXCEPT ![o] = to]
    /\ UNCHANGED <<asked, rating>>

\* rateOrder: the order is read -- its parties can see it -- and the insert is let
\* through by the policy, which asks again, and by one rating an order.
RateReads(o) ==
    /\ asked' = asked \cup {o}
    /\ o \notin asked
    /\ UNCHANGED <<order, rating>>

MayRateAnyOwn(p, o) == p = Buyer[o] /\ order[o] # "created"
MayRate(p, o) == p = Buyer[o] /\ order[o] = "completed"

RateInserts(p, o, stars) ==
    /\ o \in asked
    /\ MayRate(p, o)
    /\ rating[o] = None
    /\ rating' = [rating EXCEPT ![o] = [rater |-> p, seller |-> Seller[o], stars |-> stars]]
    /\ asked' = asked \ {o}
    /\ UNCHANGED order

RateFails(o) ==
    /\ o \in asked
    /\ asked' = asked \ {o}
    /\ UNCHANGED <<order, rating>>

UpdateRating(p, o, stars) ==
    /\ rating[o] # None /\ rating[o].rater = p
    /\ rating' = [rating EXCEPT ![o].stars = stars]
    /\ UNCHANGED <<order, asked>>

\* averageStars, in tenths; None before there is anything to average.
AverageStars(total, count) ==
    IF count = 0 THEN None ELSE (20 * total + count) \div (2 * count)

RatingsOf(p) == {o \in Order : rating[o] # None /\ rating[o].seller = p}

\* getReputation counts star by star; reputationOf, for a page of listings, sums.
GetReputation(p) ==
    LET having == [n \in 1 .. 5 |-> Cardinality({o \in RatingsOf(p) : rating[o].stars = n})]
        count == SumFunction(having)
    IN  [average |-> AverageStars(SumFunction([n \in 1 .. 5 |-> n * having[n]]), count),
         count |-> count, distribution |-> having]

ReputationOf(p) ==
    LET count == Cardinality(RatingsOf(p))
    IN  [average |-> AverageStars(SumFunction([o \in RatingsOf(p) |-> rating[o].stars]), count),
         count |-> count]
-----------------------------------------------------------------------------
BreakerNext ==
    \/ \E p \in Person, h \in Handle, published \in BOOLEAN : UpsertProfile(p, h, published)
    \/ \E p \in Person : DeleteMyProfile(p) \/ PageOpens(p)
    \/ \E b \in Break : BreakMoves(b) \/ PullBegins(b) \/ LogIsEdited(b)
    \/ \E b \in Break, n \in PackCount \cup {None} : SetPacksOpened(b, n)
    \/ \E b \in Break, r \in Rarity \cup {NoRarity} : PullCommits(b, r)
    \/ PageCounts \/ PageChecks

RateNext ==
    \/ \E o \in Order, to \in OrderStatus, actor \in OrderActor : OrderMoves(o, to, actor)
    \/ \E o \in Order : RateReads(o) \/ RateFails(o)
    \/ \E p \in Person, o \in Order, stars \in Stars :
           RateInserts(p, o, stars) \/ UpdateRating(p, o, stars)

RepNext ==
    \/ BreakerNext /\ UNCHANGED rateVars
    \/ RateNext /\ UNCHANGED breakerVars

RepSpec == RepInit /\ [][RepNext]_repVars
-----------------------------------------------------------------------------
\* Every star had money behind it: it was given by the buyer of an order that was
\* completed, and no later quarrel about that order makes it anyone else's.  Both
\* places that show a seller's standing agree on it, and it lies between the
\* lowest and the highest rating.
StarsHadMoney ==
    /\ \A o \in Order : rating[o] # None =>
          /\ order[o] \in {"completed", "disputed", "refunded"}
          /\ rating[o].rater = Buyer[o] /\ rating[o].seller = Seller[o]
    /\ \A p \in Person :
          LET given == {rating[o].stars : o \in RatingsOf(p)}
              r == GetReputation(p)
          IN  /\ r.average = ReputationOf(p).average /\ r.count = ReputationOf(p).count
              /\ IF given = {} THEN r.average = None
                 ELSE 10 * Min(given) <= r.average /\ r.average <= 10 * Max(given)

=============================================================================
