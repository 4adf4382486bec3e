-------------------------------- MODULE Universe -------------------------------
(***************************************************************************)
(* AutomaticUniverseDiscovery.discover (data/universe.py): pages of a      *)
(* market screen, largest company first, are read until enough of their    *)
(* rows join the SEC's identities; the largest issuers are the cohort.     *)
(*                                                                         *)
(* A page is asked for by offset and may come from the network or from a   *)
(* cache that another day has filled, so every page is cut out of a screen *)
(* of its own: screens[k] is the screen as page k sees it.  A row is known *)
(* by its place in the screen; rows that were read are a function of it.   *)
(* A raw row is [ticker, equity, listed, whole, cap, liquid]: whole says   *)
(* that no metric is missing, liquid that it passes the volume threshold.  *)
(* Tickers are numbers in the order of their strings, 0 an unusable one.   *)
(***************************************************************************)
EXTENDS Integers, Sequences, FiniteSets, Functions, Evaluation

PageSizeLimit  == 250
ScreenedLimit  == 5000

\* UniversePolicy.__post_init__, with the least minimum_size as a parameter.
PolicyAdmitted(p, least) ==
  /\ least <= p.minimum /\ p.minimum <= p.target
  /\ p.pageSize \in 1..PageSizeLimit
  /\ p.target <= p.maxScreened /\ p.maxScreened <= ScreenedLimit
  /\ p.minimumCap > 0

Smaller(a, b) == IF a <= b THEN a ELSE b

Excluded(i, reason) == [row |-> i, reason |-> reason]

\* _parse_market_page: the first rule a row breaks.
RowReason(p, r) ==
  CASE r.ticker = 0         -> "invalid_market_row"
    [] ~r.equity            -> "non_equity"
    [] ~r.listed            -> "market_exchange_outside_policy"
    [] ~r.whole             -> "incomplete_screen_metrics"
    [] r.cap < p.minimumCap -> "failed_market_threshold"
    [] ~r.liquid            -> "failed_liquidity_threshold"
    [] OTHER                -> "none"

--------------------------------------------------------------------------------
(* _eligible_rows.  sec is a partial function from tickers to [cik, listed].    *)

SameTicker(rows, i) == {j \in DOMAIN rows : rows[j].ticker = rows[i].ticker}

\* Of several rows of a ticker the one with the greatest capitalisation stays (ties
\* are broken by a content hash; here the earlier row stays).
Outbids(rows, i, j) == rows[i].cap > rows[j].cap \/ (rows[i].cap = rows[j].cap /\ i < j)
BestByTicker(rows) ==
  {i \in DOMAIN rows : \A j \in SameTicker(rows, i) \ {i} : Outbids(rows, i, j)}
Repeated(rows) == {i \in DOMAIN rows : \E j \in SameTicker(rows, i) : j < i}

Identified(rows, sec) == {i \in BestByTicker(rows) : rows[i].ticker \in DOMAIN sec}
Joined(rows, sec)     == {i \in Identified(rows, sec) : sec[rows[i].ticker].listed}

\* One share class of each issuer, the largest.
Larger(a, b) == a.cap > b.cap \/ (a.cap = b.cap /\ a.ticker < b.ticker)
Cik(rows, sec, i) == sec[rows[i].ticker].cik
Eligible(rows, sec) ==
  {i \in Joined(rows, sec) :
     \A j \in Joined(rows, sec) \ {i} : Cik(rows, sec, j) = Cik(rows, sec, i) => Larger(rows[i], rows[j])}

JoinExclusions(rows, sec) ==
  LET excluding(these, reason) == {Excluded(i, reason) : i \in these}
  IN  excluding(Repeated(rows), "duplicate_market_row")
      \cup excluding(BestByTicker(rows) \ Identified(rows, sec), "missing_sec_identity")
      \cup excluding(Identified(rows, sec) \ Joined(rows, sec), "sec_exchange_outside_policy")
      \cup excluding(Joined(rows, sec) \ Eligible(rows, sec), "duplicate_issuer")

--------------------------------------------------------------------------------
(* discover: the loop over the pages, then the cohort.                          *)

\* The places a page asked for at offset covers.
PageSize(p, offset)     == Smaller(p.pageSize, p.maxScreened - offset)
Page(p, screen, offset) == (offset + 1)..Smaller(offset + PageSize(p, offset), Len(screen))
Accepted(p, screen, these) == {i \in these : RowReason(p, screen[i]) = "none"}

\* Mutant: rows are counted before they are joined.
Suffices_Unjoined(p, rows, sec) == Cardinality(DOMAIN rows) >= p.target
Suffices(p, rows, sec) == Cardinality(Eligible(rows, sec)) >= p.target

Unread == [rows |-> <<>>, exclusions |-> {}, fetched |-> 0, total |-> 0, offset |-> 0,
           error |-> "none", over |-> FALSE]

\* One turn of the loop.
ReadPage(p, sec, screen, s) ==
  LET page     == Page(p, screen, s.offset)
      kept     == Accepted(p, screen, page)
      rows     == [i \in DOMAIN s.rows \cup kept |-> IF i \in kept THEN screen[i] ELSE s.rows[i]]
      reached  == s.offset + PageSize(p, s.offset)
      conflict == s.offset > 0 /\ Len(screen) # s.total
  IN  [rows       |-> rows,
       exclusions |-> s.exclusions \cup {Excluded(i, RowReason(p, screen[i])) : i \in page \ kept},
       fetched    |-> s.fetched + Cardinality(page),
       total      |-> Len(screen),
       offset     |-> reached,
       error      |-> IF conflict THEN "conflicting_totals" ELSE "none",
       over       |-> \/ conflict \/ Suffices(p, rows, sec)
                      \/ kept = {} \/ reached >= Len(screen) \/ reached >= p.maxScreened]

Reading(p, sec, screens) ==
  LET read[k \in 0..Len(screens)] ==
        IF k = 0 THEN Unread
        ELSE IF read[k - 1].over THEN read[k - 1] ELSE ReadPage(p, sec, screens[k], read[k - 1])
  IN  read

\* Rows in the order of their size: the n-th has n - 1 larger ones.
Ahead(rows, these, i) == {j \in these : Larger(rows[j], rows[i])}
BySize(rows, these) ==
  [n \in 1..Cardinality(these) |-> CHOOSE i \in these : Cardinality(Ahead(rows, these, i)) = n - 1]

\* The manifest of what was read.
Manifest(p, sec, s) ==
  LET ordered == BySize(s.rows, Eligible(s.rows, sec))
      size    == Smaller(p.target, Len(ordered))
      cut     == {Excluded(ordered[n], "below_target_cutoff") : n \in (size + 1)..Len(ordered)}
  IN  [error      |-> IF s.error = "none" /\ size < p.minimum THEN "insufficient" ELSE s.error,
       members    |-> [n \in 1..size |-> s.rows[ordered[n]]],
       exclusions |-> s.exclusions \cup JoinExclusions(s.rows, sec) \cup cut,
       unique     |-> Cardinality({s.rows[i].ticker : i \in DOMAIN s.rows}),
       fetched    |-> s.fetched, total |-> s.total]

Discovered(p, sec, screens) == Manifest(p, sec, Reading(p, sec, screens)[Len(screens)])

--------------------------------------------------------------------------------
(* Reference definitions.                                                       *)

\* UniverseManifest.__post_init__
ManifestAdmitted(d) ==
  /\ Len(d.members) <= d.unique /\ d.unique <= d.fetched /\ d.fetched <= d.total
  /\ IsInjective([n \in DOMAIN d.members |-> d.members[n].ticker])

Steady(screens) == \A k \in DOMAIN screens : screens[k] = screens[1]
\* Largest first, and no two of one size: the screen is sorted.
Descending(screen) == \A i, j \in DOMAIN screen : i < j => screen[i].cap > screen[j].cap
\* No page of its first n rows consists of refused rows only.
EveryPageHolds(p, screen, n) ==
  \A k \in 0..n : k * p.pageSize < n =>
    Accepted(p, screen, (k * p.pageSize + 1)..Smaller((k + 1) * p.pageSize, n)) # {}

\* Every row that was fetched is a member or has one exclusion, and the manifest d
\* passes its own validation; no two members are of one issuer.
Accounted(sec, d) ==
  /\ ManifestAdmitted(d)
  /\ d.fetched = Len(d.members) + Cardinality(d.exclusions)
  /\ IsInjective([n \in DOMAIN d.members |-> sec[d.members[n].ticker].cik])

\* The cohort of a screen that is read to its end, or to max_screened.
WholeCohort(p, sec, screen) ==
  LET all  == Accepted(p, screen, 1..Smaller(p.maxScreened, Len(screen)))
      rows == [i \in all |-> screen[i]]
      best == BySize(rows, Eligible(rows, sec))
  IN  [n \in 1..Smaller(p.target, Len(best)) |-> rows[best[n]]]

\* Stopping early loses nobody: over a sorted screen that does not change while it
\* is read, the cohort is that of all the rows within max_screened.
NobodyLost(p, sec, screens, d) ==
  Steady(screens) /\ Descending(screens[1])
    /\ EveryPageHolds(p, screens[1], Smaller(p.maxScreened, Len(screens[1]))) =>
      d.members = WholeCohort(p, sec, screens[1])

CohortSound(p, sec, screens, d) ==
  PolicyAdmitted(p, 1) /\ d.error # "conflicting_totals" =>
    Accounted(sec, d) /\ NobodyLost(p, sec, screens, d)

UniverseSound(p, sec, screens) == CohortSound(p, sec, screens, Discovered(p, sec, screens))

\* universe.py: reading page by page, with an early stop, finds the largest issuers
\* and accounts for every row that was read.
SelectionsSound ==
  Is("cohort") => UniverseSound(subject.input[1], subject.input[2], subject.input[3])
================================================================================
