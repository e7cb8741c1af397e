------------------------------- MODULE Chart -------------------------------
(***************************************************************************)
(* tools/plot_market.py: what a chart of a time window shows of the frames *)
(* that the recorder put in the bucket.  The recorder is Pipeline with a   *)
(* clock, because the reader finds frames by three times: recv_ts of a     *)
(* frame, the time at which its file was opened, which is the file's name, *)
(* and the day of its upload, which is in the key.                         *)
(*                                                                         *)
(* A chart is a function of the bucket, the window and the request, and    *)
(* reading changes nothing: it is an operator, and the properties speak of *)
(* every chart that could be drawn in a state.                             *)
(***************************************************************************)
EXTENDS Pipeline, FiniteSetsExt, SequencesExt

CONSTANTS
  RotateInterval,   \* rotate_interval_s
  RotateSlack,      \* ROTATE_SLACK_S
  DayLength,        \* 24 h
  MaxTime,          \* bound: the clock stops there
  MaxPrice,         \* bound: the price 1.0, in ticks
  Payload,          \* of each frame: its shape and its items
  OpenMarkets,      \* Gamma's answer to closed=false, by volume
  ClosedMarkets,    \* and to closed=true
  Request           \* --token, --condition-id or --market

\* Gamma's markets have a token for each outcome.
Market == [id : STRING, question : SUBSET STRING, title : STRING, tail : STRING,
           outcomes : Seq(STRING), tokens : Seq(STRING)]

\* What is charted of an item: the asset and the prices of both sides.
Item == [asset : STRING, bids : SUBSET (0 .. MaxPrice), asks : SUBSET (0 .. MaxPrice)]

ASSUME ChartAssumption ==
  /\ RotateInterval \in Nat \ {0} /\ DayLength \in Nat \ {0} /\ MaxTime \in Nat
  /\ MaxTime < (MaxDay + 1) * DayLength
  /\ RotateSlack \in Nat /\ RotateSlack >= RotateInterval
  /\ Request.by \in {"token", "condition_id", "market"}
  /\ Request.by = "token" => IsFiniteSet(DOMAIN Request.value)
  /\ OpenMarkets \in Seq(Market) /\ ClosedMarkets \in Seq(Market)
  /\ \A m \in Range(OpenMarkets \o ClosedMarkets) : Len(m.tokens) = Len(m.outcomes)
  /\ MaxPrice \in Nat
  /\ Payload \in [Frames -> [shape : {"changes", "list", "snapshot", "other"}, items : Seq(Item)]]

VARIABLES
  clock,    \* the time, for the clocks of the recorder and of the reader
  stamp,    \* recv_ts of each frame
  opened,   \* when the current spool file was opened
  named     \* the time in the name of each file

cvars == <<pvars, clock, stamp, opened, named>>

CInit ==
  /\ PInit
  /\ clock = 0 /\ stamp = <<>> /\ opened = 0
  /\ named = [f \in Frames |-> 0]
-----------------------------------------------------------------------------
(***************************************************************************)
(* The recorder and its clock.                                             *)
(***************************************************************************)

\* _open_new: the first step of the writer, and its rotation by age or by size,
\* when the frame that it took from the queue is in the file it left.
Reopens ==
  /\ writer' = "running"
  /\ \/ writer = "new"
     \/ aged /\ ~ aged'
     \/ arrived' = arrived /\ queue' # queue /\ buf' = <<>>

\* A step of the recorder takes no time.  It stamps the frame that arrives and
\* the file that is opened, and a file is not aged before its time.
RecorderStep ==
  /\ PNext /\ day' = day
  /\ aged' /\ ~ aged => clock - opened >= RotateInterval
  /\ stamp' = IF arrived' > arrived THEN Append(stamp, clock) ELSE stamp
  /\ named' = [f \in Frames |-> IF made'[f] # made[f] THEN opened ELSE named[f]]
  /\ opened' = IF Reopens THEN clock ELSE opened
  /\ UNCHANGED clock

\* run() looks at the age of its file once a second, so the file is rotated
\* before it is noticeably older than rotate_interval_s.
Tick ==
  /\ clock < MaxTime
  /\ writer = "running" => clock - opened < RotateInterval
  /\ clock' = clock + 1
  /\ IF (clock + 1) % DayLength = 0 THEN Midnight ELSE UNCHANGED pvars
  /\ UNCHANGED <<stamp, opened, named>>

CNext == RecorderStep \/ Tick

CSpec == CInit /\ [][CNext]_cvars
-----------------------------------------------------------------------------
(***************************************************************************)
(* Which tokens to chart.                                                  *)
(***************************************************************************)

\* The open markets, then the closed ones that were not among them; one without a
\* condition id is left out.
gamma_markets ==
  LET all == OpenMarkets \o ClosedMarkets
  IN  {all[k] : k \in {k \in DOMAIN all : /\ all[k].id # ""
                                         /\ \A j \in 1 .. k - 1 : all[j].id # all[k].id}}

\* Variant: the first token, whatever the outcomes are called.
FirstToken(m) == m.tokens[1]

\* The token of the outcome "Yes", or the first one.
YesToken(m) ==
  LET yes == {i \in DOMAIN m.outcomes : m.outcomes[i] = "yes"}
  IN  m.tokens[IF yes = {} THEN 1 ELSE Min(yes)]

Picked ==
  {m \in gamma_markets : \/ Request.by = "condition_id" /\ m.id = Request.value
                         \/ Request.by = "market" /\ Request.value \in m.question}

\* The label of a market among several is what follows " by " in its question.
shorten_label(m) == IF Cardinality(Picked) > 1 THEN m.tail ELSE m.title

\* {token_id: label}, of the markets that have such a token.
Asked == {m \in Picked : m.tokens # <<>> /\ YesToken(m) # ""}

watch ==
  IF Request.by = "token" THEN Request.value
  ELSE [t \in {YesToken(m) : m \in Asked} |->
          shorten_label(CHOOSE m \in Asked : YesToken(m) = t)]

Labels == {watch[t] : t \in DOMAIN watch}

\* The order of the labels as strings.
Rank == CHOOSE r \in [Labels -> 1 .. Cardinality(Labels)] : IsInjective(r)
-----------------------------------------------------------------------------
(***************************************************************************)
(* Reading the bucket.                                                     *)
(***************************************************************************)
DateOf(t) == t \div DayLength

\* Variant: a file is taken to hold what came after its name only.
ListKeysNoSlack(start, end) ==
  {key \in (DateOf(start) .. DateOf(end)) \X Frames :
     s3[key[1]][key[2]] # NoFile /\ named[key[2]] =< end /\ named[key[2]] >= start}

\* list_keys: the keys <<day, file>> of the days of the window whose file, by its
\* name, may hold frames of the window.
ListKeys(start, end) ==
  {key \in (DateOf(start) .. DateOf(end)) \X Frames :
     /\ s3[key[1]][key[2]] # NoFile
     /\ named[key[2]] =< end /\ named[key[2]] + RotateSlack >= start}

\* A line of an object is <<day, file, number>>.
FrameAt(line) == s3[line[1]][line[2]][line[3]]

\* The lines of the window in the files that are read.
LinesRead(start, end) ==
  LET lines(key) == {<<key[1], key[2], i>> : i \in DOMAIN s3[key[1]][key[2]]}
  IN  {line \in UNION {lines(key) : key \in ListKeys(start, end)} :
         start =< stamp[FrameAt(line)] /\ stamp[FrameAt(line)] =< end}

\* Price changes, a list of books, or a snapshot; other frames have none.
Items(f) == IF Payload[f].shape = "other" THEN <<>> ELSE Payload[f].items

\* Twice the midpoint of an item with two sides.
HasMid(it) == it.bids # {} /\ it.asks # {}
Mid(it)    == Max(it.bids) + Min(it.asks)

\* An event is made of the item at <<line, number>>, if it is of an asset that was
\* asked for and has a label.
ItemAt(pos) == Items(FrameAt(pos[1]))[pos[2]]

EventsRead(start, end) ==
  LET items(line) == {<<line, i>> : i \in DOMAIN Items(FrameAt(line))}
  IN  {pos \in UNION {items(line) : line \in LinesRead(start, end)} :
         /\ ItemAt(pos).asset \in DOMAIN watch /\ watch[ItemAt(pos).asset] # ""
         /\ HasMid(ItemAt(pos))}

Event(pos) == [ts |-> stamp[FrameAt(pos[1])], label |-> watch[ItemAt(pos).asset],
               pct |-> Mid(ItemAt(pos))]

\* Variant: the events stay in the order in which they were read.
SortKeyUnsorted(pos) == <<pos[1][1], pos[1][2], pos[1][3], pos[2]>>

\* Tuples (ts, label, pct) are compared from the left, and a sort is stable: of
\* equal ones the one is first that was read first, by its key, the line in the
\* object and the item in the line.
SortKey(pos) ==
  LET e == Event(pos)
  IN  <<e.ts, Rank[e.label], e.pct, pos[1][1], pos[1][2], pos[1][3], pos[2]>>

Before(x, y) == \E k \in DOMAIN x : x[k] < y[k] /\ \A j \in 1 .. k - 1 : x[j] = y[j]

\* extract_series: the events, sorted.
ExtractSeries(start, end) ==
  LET keyed   == {<<SortKey(pos), pos>> : pos \in EventsRead(start, end)}
      ahead(x) == {y \in keyed : Before(y[1], x[1])}
  IN  [k \in 1 .. Cardinality(keyed) |->
         Event((CHOOSE x \in keyed : Cardinality(ahead(x)) = k - 1)[2])]

\* write_csv and make_plot: a row for each event, in which the line of each label
\* has the last value up to there, if any.
Rows(events) ==
  [i \in DOMAIN events |->
     [l \in {l \in Labels : \E j \in 1 .. i : events[j].label = l} |->
        events[Max({j \in 1 .. i : events[j].label = l})].pct]]
-----------------------------------------------------------------------------
\* The frames of a window that the bucket holds.
InBucket(start, end) ==
  {f \in DOMAIN stamp : /\ start =< stamp[f] /\ stamp[f] =< end
                        /\ \E d \in 0 .. MaxDay, g \in Frames :
                             s3[d][g] # NoFile /\ f \in Range(s3[d][g])}

\* plot_market.py, with --end left at its default, now: no frame of the window
\* that S3 holds is left out, although files are found by their names and by
\* the days of their uploads, a file that spans the start of the window is named
\* before it, and an upload may be late or repeated on the next day.
RecentWindowComplete ==
  \A start \in 0 .. clock :
    {FrameAt(line) : line \in LinesRead(start, clock)} = InBucket(start, clock)

\* No other market that was asked for has the token or the label of m, and m has one.
ToldApart(m) ==
  /\ shorten_label(m) # ""
  /\ \A n \in Asked \ {m} : YesToken(n) # YesToken(m) /\ shorten_label(n) # shorten_label(m)

\* The last row of a chart up to now has for each market that was asked for the
\* midpoint of its Yes token from a newest frame that S3 holds, also when a file
\* is in the bucket under two days.  Frames of one recv_ts count as equally new.
LastRowIsNewest ==
  \A start \in 0 .. clock :
    LET rows == Rows(ExtractSeries(start, clock))
    IN  \A m \in Asked :
          LET yes == m.tokens[Min({i \in DOMAIN m.tokens :
                                m.outcomes[i] = "yes" \/ "yes" \notin Range(m.outcomes)})]
              quotes == UNION {{<<f, it>> : it \in {x \in Range(Items(f)) :
                                                     x.asset = yes /\ HasMid(x)}}
                                 : f \in InBucket(start, clock)}
          IN  ToldApart(m) /\ quotes # {} =>
                /\ rows # <<>>
                /\ \E q \in quotes :
                     /\ \A r \in quotes : stamp[r[1]] =< stamp[q[1]]
                     /\ shorten_label(m) \in DOMAIN Last(rows)
                     /\ Last(rows)[shorten_label(m)] = Mid(q[2])

\* README.md: plot_market.py "auto-discovers exactly the S3 files overlapping
\* your window".  A file that was opened before the end of a window, also one of
\* the past, and has a frame of it is read.
OverlappingFilesRead ==
  \A end \in 0 .. clock : \A start \in 0 .. end : \A d \in 0 .. MaxDay, f \in Frames :
    /\ s3[d][f] # NoFile /\ named[f] =< end
    /\ \E g \in Range(s3[d][f]) : stamp[g] \in start .. end
    => \E key \in ListKeys(start, end) : key[2] = f
=============================================================================
