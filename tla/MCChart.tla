------------------------------ MODULE MCChart ------------------------------
EXTENDS Chart

Quote(asset, bids, asks) == [asset |-> asset, bids |-> bids, asks |-> asks]

\* Two deadlines of one event, the second listed as closed too, a third market
\* that is not asked for, and one without a condition id, under June's label.
MCJune ==
  [id |-> "m1", question |-> {"deal", "June"}, title |-> "deal by June", tail |-> "June",
   outcomes |-> <<"no", "yes">>, tokens |-> <<"june_no", "june">>]
MCJuly ==
  [id |-> "m2", question |-> {"deal", "July"}, title |-> "deal by July", tail |-> "July",
   outcomes |-> <<"yes", "no">>, tokens |-> <<"july", "july_no">>]
MCOther ==
  [id |-> "m3", question |-> {"cup"}, title |-> "cup", tail |-> "cup",
   outcomes |-> <<"red", "blue">>, tokens |-> <<"red", "blue">>]
MCNoId ==
  [id |-> "", question |-> {"deal", "June"}, title |-> "deal by June", tail |-> "June",
   outcomes |-> <<"yes">>, tokens |-> <<"june_no">>]
MCOpen    == <<MCNoId, MCJuly, MCOther>>
MCClosed  == <<MCJuly, MCJune>>
MCRequest == [by |-> "market", value |-> "deal"]

\* A snapshot, price changes of both lines, and a list with a one-sided book.
MCPayload ==
  << [shape |-> "snapshot", items |-> <<Quote("june", {1, 3}, {5, 7})>>],
     [shape |-> "changes",  items |-> <<Quote("june", {2}, {4}), Quote("july", {6}, {8})>>],
     [shape |-> "list",     items |-> <<Quote("july", {7}, {9}), Quote("june", {}, {9}),
                                        Quote("june_no", {1}, {2})>>] >>
=============================================================================
