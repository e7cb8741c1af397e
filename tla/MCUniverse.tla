----------------------------- MODULE MCUniverse -----------------------------
EXTENDS Universe

\* Ordinary, wide, crossed, one-sided, unsorted and partly malformed books.
Narrow   == [bids |-> <<<<5, 1>>>>, asks |-> <<<<6, 1>>>>]
Wide     == [bids |-> <<<<4, 1>>>>, asks |-> <<<<6, 1>>>>]
Deep     == [bids |-> <<<<4, 3>>>>, asks |-> <<<<6, 3>>>>]
Crossed  == [bids |-> <<<<6, 1>>>>, asks |-> <<<<5, 1>>>>]
BidsOnly == [bids |-> <<<<5, 1>>>>, asks |-> <<Malformed>>]
Upwards  == [bids |-> <<<<2, 2>>, <<5, 1>>>>, asks |-> <<<<8, 2>>, <<6, 1>>>>]
Broken   == [bids |-> <<<<3, 1>>, Malformed, <<5, 1>>>>, asks |-> <<<<6, 1>>>>]

None      == [form |-> "none"]
List(ids) == [form |-> "list", ids |-> ids]
Text(ids) == [form |-> "json", ids |-> ids]
At(s)     == [form |-> "at", seconds |-> s]

Market(first, second, volume, end, book) ==
  [clobTokenIds |-> first, clob_token_ids |-> second, volume |-> volume,
   end |-> end, book |-> book]

Plain(name, volume, book) == Market(Text(<<name>>), None, volume, None, book)

MCMarkets ==
  { Plain("narrow", 2, Narrow), Plain("wide", 2, Wide), Plain("deep", 1, Deep),
    Plain("still", 0, Narrow), Plain("onesided", 2, BidsOnly),
    Plain("unsorted", 2, Upwards), Plain("error", 1, NoBook), Plain("broken", 2, Broken),
    Plain("nojson", 1, NoJson),
    Market(None, List(<<"crossed">>), 1, At(60), Crossed),
    Market(List(<<>>), Text(<<"soon">>), 2, At(59), Narrow),
    Market(List(<<"naive">>), None, 1, [form |-> "naive"], Wide),
    Market(Text(<<>>), List(<<"empty">>), 2, None, Narrow),
    Market([form |-> "other"], List(<<"lost">>), 2, None, Narrow) }
=============================================================================
