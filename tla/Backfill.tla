------------------------------ MODULE Backfill ------------------------------
(***************************************************************************)
(* backfill.py: the batch job that pages through the trades of each market *)
(* with an offset, writes them to a file in pending_dir, and calls the     *)
(* flusher's _flush_once at its end.  A live recorder of the same          *)
(* configuration uploads from that pending_dir meanwhile.                  *)
(*                                                                         *)
(* A market and its file are a number; the trades of a market are numbered *)
(* from its oldest one, and new ones are made while the job pages, newest  *)
(* first.  Only the market that the job is at matters to it: how many      *)
(* trades another has is open until the job turns to it.                   *)
(***************************************************************************)
EXTENDS Naturals, Sequences, Functions

CONSTANTS
  MaxMarkets,  \* the job is called for the markets 1..MaxMarkets
  Limit,       \* the page size
  MaxOffset,   \* _MAX_OFFSET
  MaxTrades,   \* bound: the trades of a market
  Recorders,   \* the S3Flusher of a live recorder on this pending_dir, or none
  Job,         \* the S3Flusher of the job
  Configured,  \* the flushers that have a bucket: uploads are on
  NoFile       \* nothing at a path

ASSUME BackfillAssumption ==
  /\ MaxMarkets \in Nat /\ MaxTrades \in Nat /\ MaxOffset \in Nat
  /\ Limit \in Nat \ {0}
  /\ Job \notin Recorders /\ Configured \subseteq Recorders \cup {Job}
  /\ NoFile \notin Seq(Nat)

Markets == 1 .. MaxMarkets

VARIABLES
  pending, made, gz, s3, day, fstop, task, pass, crashes,   \* see Flusher
  stage,    \* where the job is
  market,   \* the market it is at
  total,    \* the API: how many trades the market has that is being fetched
  offset,   \* fetch_trades: the offset of the next page
  trades,   \* what fetch_trades has for this market
  atStart,  \* history: total when the job turned to the market
  warned,   \* history: the cap was logged for this market
  cut,      \* history: an answer that was no list ended its pages
  clashed   \* history: the files that a pass opened before they were closed, or
            \* while another pass was at them

Flush == INSTANCE Flusher WITH
           Jobs <- {Job}, Files <- Markets,
           MaxDay <- 0, MaxCrashes <- 0, DeleteAfterUpload <- TRUE

fvars == <<pending, made, gz, s3, day, fstop, task, pass, crashes>>
jvars == <<stage, market, offset, trades, atStart, warned, cut>>
bvars == <<fvars, jvars, total, clashed>>

BTypeOK ==
  /\ stage \in {"fetching", "fetched", "writing", "flushing", "dead"}
  /\ market \in 1 .. MaxMarkets + 1
  /\ total \in 0 .. MaxTrades
  /\ offset \in 0 .. MaxOffset
  /\ trades \in Seq(1 .. MaxTrades)
  /\ atStart \in 0 .. MaxTrades
  /\ warned \in BOOLEAN /\ cut \in BOOLEAN
  /\ clashed \subseteq Markets
  /\ stage \in {"fetched", "writing"} => market \in Markets
  /\ stage # "flushing" => pass[Job] = Flush!Idle

\* The job turns to market m.
StartMarket(m) ==
  /\ market' = m
  /\ offset' = 0 /\ trades' = <<>> /\ warned' = FALSE /\ cut' = FALSE
  /\ total' \in 0 .. (IF m \in Markets THEN MaxTrades ELSE 0)
  /\ atStart' = total'
  /\ stage' = "fetching"

\* The list of trades and what was noted of its pages matter no more.
FetchDone == total' = 0 /\ atStart' = 0 /\ warned' = FALSE /\ cut' = FALSE

BInit ==
  /\ Flush!FInit
  /\ total \in 0 .. (IF 1 \in Markets THEN MaxTrades ELSE 0)
  /\ atStart = total
  /\ market = 1 /\ stage = "fetching" /\ clashed = {}
  /\ offset = 0 /\ trades = <<>> /\ warned = FALSE /\ cut = FALSE
-----------------------------------------------------------------------------
(***************************************************************************)
(* fetch_trades().                                                         *)
(***************************************************************************)
Fetching == stage = "fetching" /\ market \in Markets

\* The API: the trades behind the newest offset ones, newest first.
Page ==
  LET left == IF total > offset THEN total - offset ELSE 0
      n    == IF left < Limit THEN left ELSE Limit
  IN  [i \in 1 .. n |-> left - i + 1]

\* Variant: no cap, the server rejects the offset.
FetchPageUncapped ==
  /\ Fetching
  /\ trades' = trades \o Page
  /\ \/ Len(Page) < Limit /\ stage' = "fetched" /\ UNCHANGED offset
     \/ Len(Page) = Limit /\ offset' = offset + Limit /\ UNCHANGED stage
  /\ UNCHANGED <<fvars, total, market, atStart, warned, cut>>

\* Variant: the next page is taken to start one trade later.
FetchPageStride ==
  /\ Fetching
  /\ trades' = trades \o Page
  /\ \/ /\ Len(Page) < Limit \/ offset + Limit + 1 > MaxOffset
        /\ stage' = "fetched"
        /\ warned' = (Len(Page) = Limit)
        /\ UNCHANGED offset
     \/ /\ Len(Page) = Limit /\ offset + Limit + 1 =< MaxOffset
        /\ offset' = offset + Limit + 1
        /\ UNCHANGED <<stage, warned>>
  /\ UNCHANGED <<fvars, total, market, atStart, cut>>

\* A page: an empty or a short one is the last, and after a full one the offset
\* advances, to the cap with a warning.
FetchPage ==
  /\ Fetching
  /\ trades' = trades \o Page
  /\ \/ /\ Len(Page) < Limit
        /\ stage' = "fetched"
        /\ UNCHANGED <<offset, warned>>
     \/ /\ Len(Page) = Limit /\ offset + Limit =< MaxOffset
        /\ offset' = offset + Limit
        /\ UNCHANGED <<stage, warned>>
     \/ /\ Len(Page) = Limit /\ offset + Limit > MaxOffset
        /\ stage' = "fetched" /\ warned' = TRUE
        /\ UNCHANGED offset
  /\ UNCHANGED <<fvars, total, market, atStart, cut>>

\* The answer is JSON but no list: what was fetched so far is returned.
OddPage ==
  /\ Fetching
  /\ stage' = "fetched" /\ cut' = TRUE
  /\ UNCHANGED <<fvars, total, market, offset, trades, atStart, warned>>

\* Variant: the market is tried again.
FetchFailsRetried ==
  /\ Fetching
  /\ StartMarket(market)
  /\ UNCHANGED fvars

\* httpx.HTTPError: the market is skipped, with the pages it had.
FetchFails ==
  /\ Fetching
  /\ StartMarket(market + 1)
  /\ UNCHANGED fvars

\* resp.json() raises: nothing catches that, and the job ends without a flush.
FetchRaises ==
  /\ Fetching
  /\ stage' = "dead"
  /\ UNCHANGED <<fvars, total, market, offset, trades, atStart, warned, cut>>
-----------------------------------------------------------------------------
(***************************************************************************)
(* _write_frames() and the rest of run().                                  *)
(***************************************************************************)

\* Nothing to write.
SkipFrames ==
  /\ stage = "fetched" /\ trades = <<>>
  /\ StartMarket(market + 1)
  /\ UNCHANGED fvars

\* open(path, "w"), in pending_dir, under its final name.
OpenFrames ==
  /\ stage = "fetched" /\ trades # <<>>
  /\ pending' = [pending EXCEPT ![market] = <<>>]
  /\ made' = [made EXCEPT ![market] = trades]
  /\ stage' = "writing"
  /\ FetchDone
  /\ UNCHANGED <<gz, s3, day, fstop, task, pass, crashes, market, offset, trades>>

\* A buffer goes to the file.  If the name was removed, it goes with it.
WriteFrames ==
  /\ stage = "writing"
  /\ pending[market] # NoFile /\ Len(pending[market]) < Len(trades)
  /\ \E n \in Len(pending[market]) + 1 .. Len(trades) :
       pending' = [pending EXCEPT ![market] = SubSeq(trades, 1, n)]
  /\ UNCHANGED <<made, gz, s3, day, fstop, task, pass, crashes, jvars, total>>

\* Variant: a market whose file could not be written is skipped.
WriteRaisesSkipped ==
  /\ (stage = "fetched" /\ trades # <<>>) \/ stage = "writing"
  /\ StartMarket(market + 1)
  /\ UNCHANGED fvars

\* An OSError of makedirs, open, write or close, or a trade that is no JSON object:
\* nothing catches it.  The job ends without a flush, and what it has written of
\* the file stays in pending_dir under the final name.
WriteRaises ==
  /\ (stage = "fetched" /\ trades # <<>>) \/ stage = "writing"
  /\ stage' = "dead"
  /\ UNCHANGED <<fvars, total, market, offset, trades, atStart, warned, cut>>

\* The file is closed: all of it was written, to its name or to none.
CloseFrames ==
  /\ stage = "writing"
  /\ pending[market] \in {trades, NoFile}
  /\ StartMarket(market + 1)
  /\ UNCHANGED fvars

\* After the last market, one pass over pending_dir if a file was written.
StartFlush ==
  /\ stage = "fetching" /\ market \notin Markets
  /\ stage' = "flushing"
  /\ IF \E m \in Markets : made[m] # NoFile
     THEN Flush!Wake(Job)
     ELSE UNCHANGED fvars
  /\ UNCHANGED <<total, market, offset, trades, atStart, warned, cut>>

\* The job or another pass is at the file that p opens.
Clash(p) ==
  {m \in Markets :
     /\ pass[p].pc = "next" /\ pass'[p].pc = "copying" /\ Flush!Current(p) = m
     /\ \/ stage = "writing" /\ market = m
        \/ \E q \in Flush!Flushers \ {p} :
             pass[q].pc \in Flush!Working /\ Flush!Current(q) = m}

FlushPass(p) ==
  /\ Flush!FlushStep(p) \/ Flush!Raise(p)
  /\ clashed' = clashed \cup Clash(p)
  /\ UNCHANGED <<jvars, total>>

\* The live recorder begins a pass.
RecorderWakes ==
  /\ \E p \in Recorders : Flush!Wake(p)
  /\ UNCHANGED <<jvars, total, clashed>>

\* The next page sees it.
NewTrade ==
  /\ Fetching /\ total < MaxTrades
  /\ total' = total + 1
  /\ UNCHANGED <<fvars, jvars, clashed>>

JobStep ==
  /\ \/ FetchPage \/ OddPage \/ FetchFails \/ FetchRaises
     \/ SkipFrames \/ OpenFrames \/ WriteFrames \/ WriteRaises \/ CloseFrames \/ StartFlush
  /\ UNCHANGED clashed

BNext ==
  \/ JobStep \/ RecorderWakes \/ NewTrade
  \/ \E p \in {Job} \cup Recorders : FlushPass(p)

BSpec == BInit /\ [][BNext]_bvars

\* Each request is answered or times out, and the job goes on.
BFairSpec == BSpec /\ WF_bvars(JobStep) /\ WF_bvars(FlushPass(Job))
-----------------------------------------------------------------------------
Ended == \/ stage = "dead"
         \/ stage = "flushing" /\ pass[Job] = Flush!Idle

\* The offset shifts under the job whenever a trade is made.  It meets trades
\* twice for that, but it misses none: what it has is an unbroken stretch from
\* a trade that was at least the newest one when it turned to the market, down
\* to the very first trade, or to the cap that was logged.
FetchedWithoutHole ==
  stage = "fetched" /\ ~ cut =>
    LET lowest == IF trades = <<>> THEN atStart + 1 ELSE trades[Len(trades)] IN
    /\ lowest .. atStart \subseteq Range(trades)
    /\ warned \/ lowest = 1 \/ atStart = 0

\* The trades that the job has written are in pending_dir or in S3, all of them,
\* from the moment the file is closed, through errors of the job and of both
\* flushers.  Only a file is lost that a pass opened while the job wrote it, or
\* while the other pass was at it; nothing in the code prevents either.
WrittenIsKept ==
  \A m \in Markets :
    /\ made[m] # NoFile /\ m \notin clashed
    /\ ~ (m = market /\ stage \in {"writing", "dead"})
    => pending[m] = made[m] \/ Flush!Stored(m)

\* The job comes to its end, although the list it pages through grows.
JobEnds == <> Ended
=============================================================================
