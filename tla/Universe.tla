------------------------------ MODULE Universe ------------------------------
(***************************************************************************)
(* universe.py, with what it uses of gamma.py and clob.py: from the        *)
(* markets that Gamma lists to the markets to record.                      *)
(*                                                                         *)
(* A market is a record as Gamma sends it: two fields that may hold its    *)
(* token ids, each a list, a string that encodes one, something else or    *)
(* nothing; its 24h volume; its end date, which may be missing or garbled, *)
(* or lack a time zone; and with it the answer to a request for the book   *)
(* of its first token: two sequences of levels <<price, size>>, some of    *)
(* them Malformed, NoBook for an HTTP error, or NoJson.  Prices are in     *)
(* ticks of 1e-4, the floor of the spread in the score.                    *)
(***************************************************************************)
EXTENDS Integers, Sequences, FiniteSets, SequencesExt

CONSTANTS
  Markets,        \* the markets that Gamma may list
  CandidateLimit, \* universe.candidate_limit
  NoBook,         \* what book() returns after an HTTP error
  NoJson,         \* an answer at which book() raises
  Malformed,      \* a level without a price or a size that is a number
  MaxPrice,       \* bound: the price 1.0, in ticks
  MaxVolume,      \* bound: the 24h volume of a market
  TargetSize,     \* universe.target_size
  Horizon,        \* universe.min_seconds_to_resolution
  RefineByDepth,  \* universe.refine_with_book_depth
  Unbooked        \* 1e40, the fourth power of 1e-4 / 1e-6 in ticks

Square(x) == x * x

\* The answer to a request for a book, as _levels finds it.
Level == ((0 .. MaxPrice) \X Nat) \cup {Malformed}
Books == [bids : Seq(Level), asks : Seq(Level)]

ASSUME UniverseAssumption ==
  /\ \A m \in Markets : m.volume \in 0 .. MaxVolume /\ m.book \in {NoBook, NoJson} \cup Books
  /\ MaxPrice \in Nat \ {0} /\ MaxVolume \in Nat
  /\ CandidateLimit \in Nat /\ TargetSize \in Nat /\ Horizon \in Nat
  /\ RefineByDepth \in BOOLEAN
  /\ Unbooked \in Nat \ {0}

\* With prices up to 10^4 ticks it takes a volume of 10^12 to reach 1e40.
ASSUME UnbookedIsFar == Square(MaxVolume) * Square(Square(MaxPrice)) < Unbooked

VARIABLES
  listing,   \* what Gamma listed at the last refresh that succeeded
  chosen     \* the markets that select() chose then, in its order

uvars == <<listing, chosen>>

-----------------------------------------------------------------------------
(***************************************************************************)
(* Python's lists.  Some elements of s, those at the positions kept, in    *)
(* the order before, a set of pairs of positions: list.sort is stable, so  *)
(* of two that this leaves open the one at the lower position is first.    *)
(***************************************************************************)
Precedes(before, i, j) == <<i, j>> \in before \/ (<<j, i>> \notin before /\ i < j)

Rank(kept, before, i) == Cardinality({j \in kept : Precedes(before, j, i)})

Arrange(s, kept, before) ==
  [k \in 1 .. Cardinality(kept) |-> s[CHOOSE i \in kept : Rank(kept, before, i) = k - 1]]

Those(s, kept)    == Arrange(s, kept, {})
Sorted(s, before) == Arrange(s, DOMAIN s, before)
-----------------------------------------------------------------------------
(***************************************************************************)
(* gamma.py.                                                               *)
(***************************************************************************)

\* "order": "volume24hr", "ascending": "false", "limit": candidate_limit
Listings ==
  {s \in SeqOf(Markets, CandidateLimit) :
     /\ IsInjective(s)
     /\ \A i, j \in DOMAIN s : i < j => s[i].volume >= s[j].volume}

\* Python's "or" takes the second field if the first is missing or empty; a string
\* that encodes an empty list is not empty.
Falsy(field) == field.form = "none" \/ (field.form = "list" /\ field.ids = <<>>)

\* clobTokenIds or clob_token_ids: a list, or a string that encodes one.
ParseTokenIds(m) ==
  LET raw == IF Falsy(m.clobTokenIds) THEN m.clob_token_ids ELSE m.clobTokenIds
  IN  IF raw.form \in {"list", "json"} THEN raw.ids ELSE <<>>

\* top_markets drops a market that has no token id.
TopMarkets(listed) ==
  Those(listed, {i \in DOMAIN listed : ParseTokenIds(listed[i]) # <<>>})
-----------------------------------------------------------------------------
(***************************************************************************)
(* clob.py: the book, best level first.                                    *)
(***************************************************************************)

\* Variant: the first malformed level is taken for the end.
LevelsCut(side) ==
  LET good == {n \in 0 .. Len(side) : \A i \in 1 .. n : side[i] # Malformed}
  IN  SubSeq(side, 1, CHOOSE n \in good : \A k \in good : k =< n)

\* _levels skips what is malformed.
Levels(side) == Those(side, {i \in DOMAIN side : side[i] # Malformed})

Pairs(s)    == {<<i, j>> : i, j \in DOMAIN s}
Dearer(s)   == {p \in Pairs(s) : s[p[1]][1] > s[p[2]][1]}
Cheaper(s)  == {p \in Pairs(s) : s[p[1]][1] < s[p[2]][1]}
Bids(book)  == Sorted(Levels(book.bids), Dearer(Levels(book.bids)))
Asks(book)  == Sorted(Levels(book.asks), Cheaper(Levels(book.asks)))

TwoSided(book) == book # NoBook /\ Levels(book.bids) # <<>> /\ Levels(book.asks) # <<>>

\* Variant: the levels are used in the order of the answer.
SpreadAsSent(book) == Levels(book.asks)[1][1] - Levels(book.bids)[1][1]

Spread(book)   == Asks(book)[1][1] - Bids(book)[1][1]
TopDepth(book) == Bids(book)[1][2] + Asks(book)[1][2]
-----------------------------------------------------------------------------
(***************************************************************************)
(* UniverseManager.                                                        *)
(***************************************************************************)
AtLeastOne(x) == IF x < 1 THEN 1 ELSE x

\* Variant: the fallback score is not scaled down.
ScoreUnscaled(m) ==
  IF TwoSided(m.book)
  THEN <<Square(m.volume) * AtLeastOne(TopDepth(m.book)), Square(Square(AtLeastOne(Spread(m.book))))>>
  ELSE <<Square(m.volume), 1>>

\* The fourth power of the score, as a fraction: volume^2 * depth / spread^4
\* with a two-sided book, else volume^2 far below that.
Score(m) ==
  IF TwoSided(m.book)
  THEN <<Square(m.volume) * AtLeastOne(TopDepth(m.book)), Square(Square(AtLeastOne(Spread(m.book))))>>
  ELSE <<Square(m.volume), Unbooked>>

Above(x, y) == x[1] * y[2] > y[1] * x[2]
Better(ms)  == {p \in Pairs(ms) : Above(Score(ms[p[1]]), Score(ms[p[2]]))}

Keep(markets) ==
  SubSeq(markets, 1, IF Len(markets) < TargetSize THEN Len(markets) ELSE TargetSize)

Refine(candidates) == Keep(Sorted(candidates, Better(candidates)))

\* _seconds_to_end: none without an end date that can be read.
OutsideHorizon(m) == m.end.form = "at" => m.end.seconds >= Horizon

\* Variant: the horizon keeps what it should drop.
CandidatesInverted(listed) ==
  LET top == TopMarkets(listed)
  IN  Those(top, {i \in DOMAIN top : Horizon > 0 => ~ OutsideHorizon(top[i])})

\* select() drops a market that resolves inside the horizon.
Candidates(listed) ==
  LET top == TopMarkets(listed)
  IN  Those(top, {i \in DOMAIN top : Horizon > 0 => OutsideHorizon(top[i])})

Refines(listed) == RefineByDepth /\ Len(Candidates(listed)) > TargetSize

Select(listed) ==
  IF Refines(listed) THEN Refine(Candidates(listed)) ELSE Keep(Candidates(listed))

\* One market is enough to make select() raise: by an end date without a time
\* zone, from which "now" cannot be subtracted, or by a book that is no JSON.
SelectRaises(listed) ==
  \/ Horizon > 0 /\ \E m \in ToSet(TopMarkets(listed)) : m.end.form = "naive"
  \/ Refines(listed) /\ \E m \in ToSet(Candidates(listed)) : m.book = NoJson

UInit == listing = <<>> /\ chosen = <<>>

\* A refresh that raises leaves everything as it is.
Refresh ==
  /\ listing' \in Listings /\ ~ SelectRaises(listing')
  /\ chosen' = Select(listing')

USpec == UInit /\ [][Refresh]_uvars
-----------------------------------------------------------------------------
\* Type correctness: select() returns at most target_size markets that Gamma
\* listed, each once, each with a token id and outside the horizon.
UTypeOK ==
  /\ listing \in Listings
  /\ chosen \in SeqOf(Markets, TargetSize) /\ IsInjective(chosen)
  /\ \A m \in ToSet(chosen) :
       m \in ToSet(listing) /\ ParseTokenIds(m) # <<>> /\ (Horizon > 0 => OutsideHorizon(m))

\* The best bid and the best ask, in whatever order the CLOB sends the levels,
\* and whatever else it sends among them.
TightSpread(book) ==
  LET bids == {x[1] : x \in ToSet(book.bids) \ {Malformed}}
      asks == {x[1] : x \in ToSet(book.asks) \ {Malformed}}
  IN  (CHOOSE x \in asks : \A y \in asks : x =< y) - (CHOOSE x \in bids : \A y \in bids : x >= y)

\* Of two candidates of one volume and one depth, the one with the tighter book is
\* preferred: it is never left out for the other.  Those without any volume have
\* the score 0 and stay as Gamma sent them.
TighterFirst ==
  \A m \in ToSet(Candidates(listing)) \ ToSet(chosen), n \in ToSet(chosen) :
    /\ RefineByDepth
    /\ TwoSided(m.book) /\ TwoSided(n.book)
    /\ m.volume = n.volume /\ m.volume > 0 /\ TopDepth(m.book) = TopDepth(n.book)
    => AtLeastOne(TightSpread(m.book)) >= AtLeastOne(TightSpread(n.book))

\* A market that nobody can trade is not recorded in the place of one with a
\* two-sided book and some volume.
UntradeableLast ==
  \A m \in ToSet(Candidates(listing)) \ ToSet(chosen), n \in ToSet(chosen) :
    RefineByDepth /\ TwoSided(m.book) /\ m.volume > 0 => TwoSided(n.book)
=============================================================================
