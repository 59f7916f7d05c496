----------------------------- MODULE AdapterBase -----------------------------
(***************************************************************************)
(* What every polling adapter has: the health and the backoff of           *)
(* AdapterBase (gateway/omp/adapter.py), and the windowed statistics that  *)
(* generic-modbus (_Stats) and generic-serial (StatsAggregator) keep per   *)
(* channel.                                                                *)
(*                                                                         *)
(* Values are integers in tenths, so that a register scaled by 0.1 has a   *)
(* value: 10 is 1, 12 is 1.2.  What opens and closes a window is           *)
(* time.monotonic(); the stamps start_ts and end_ts, which now_iso() takes *)
(* from the wall clock beside it, are left out: that clock may step, and   *)
(* nothing is claimed of them.                                             *)
(***************************************************************************)
EXTENDS Integers, FiniteSets, SequencesExt

CONSTANTS
  MaxDelay,    \* the longest backoff (300 s)
  Window,      \* stats_window_s
  Channels,    \* the channels with statistics
  NoBlock      \* the channel has no open window

Windows == [mono : Nat, min : Int, max : Int, sum : Int, count : Nat \ {0}]

ASSUME AdapterAssumption ==
  /\ MaxDelay \in Nat \ {0} /\ Window \in Nat /\ NoBlock \notin Windows
  /\ IsFiniteSet(Channels)

VARIABLES
  health,      \* _HealthState
  delay,       \* _backoff_s, which backoff() returns and then doubles
  acc,         \* channel -> its open window
  now,         \* time.monotonic()
  emitted,     \* the bodies this step has handed to emit(), in order
  seen         \* history: connections, failures, the last wait, samples

baseVars == <<health, delay, acc, now, emitted, seen>>

SmallerOf(a, b) == IF a < b THEN a ELSE b
LargerOf(a, b) == IF a > b THEN a ELSE b

-----------------------------------------------------------------------------
NewHealth == [state |-> "disconnected", since |-> FALSE, data |-> FALSE,
              reconnects |-> 0, errors |-> 0]

(* Mutation: the first connection counts as a reconnect.                   *)
Connected_CountsAll(h) ==
  [h EXCEPT !.state = "ok", !.since = TRUE, !.reconnects = @ + 1]

(* _mark_connected; since: connected_since is set.                         *)
Connected(h) ==
  [h EXCEPT !.state = "ok", !.since = TRUE,
            !.reconnects = IF h.state # "ok" /\ h.since THEN @ + 1 ELSE @]

WithData(h) == [h EXCEPT !.data = TRUE]
Degraded(h) == [h EXCEPT !.state = "degraded", !.errors = @ + 1]
Disconnected(h) == [h EXCEPT !.state = "disconnected", !.errors = @ + 1]

NextDelay(d) == SmallerOf(2 * d, MaxDelay)

(* _mark_connected, and _mark_disconnected with the backoff that follows:  *)
(* the wait is _backoff_s before it is doubled.                            *)
Connects ==
  /\ health' = Connected(health) /\ delay' = 1
  /\ seen' = [seen EXCEPT !.connects = @ + 1, !.fails = 0]

Fails(h, s) ==
  /\ health' = Disconnected(h) /\ delay' = NextDelay(delay)
  /\ seen' = [s EXCEPT !.fails = @ + 1, !.wait = delay]

-----------------------------------------------------------------------------
Truncated(sum, n) == IF sum >= 0 THEN sum \div n ELSE -((-sum) \div n)

Opened(value, t) ==
  [mono |-> t, min |-> value, max |-> value, sum |-> value, count |-> 1]

Fed(a, value) ==
  [mono |-> a.mono, min |-> SmallerOf(a.min, value), max |-> LargerOf(a.max, value),
   sum |-> a.sum + value, count |-> a.count + 1]

(* _close: the average is cut to a whole number.  from and to are history: *)
(* when the window opened and closed.                                      *)
Block(channel, a, end) ==
  [kind |-> "stats", channel |-> channel, from |-> a.mono, to |-> end,
   min |-> a.min, max |-> a.max, avg |-> 10 * Truncated(a.sum, 10 * a.count),
   count |-> a.count]

(* Mutation: the sample that closes a window is not in it.                 *)
Added_CloseFirst(channel, value, t) ==
  IF acc[channel] = NoBlock
  THEN [acc |-> [acc EXCEPT ![channel] = Opened(value, t)], done |-> <<>>]
  ELSE IF t - acc[channel].mono >= Window
       THEN [acc |-> [acc EXCEPT ![channel] = NoBlock],
             done |-> <<Block(channel, acc[channel], t)>>]
       ELSE [acc |-> [acc EXCEPT ![channel] = Fed(@, value)], done |-> <<>>]

(* Mutation: a closed window is not taken out.                             *)
Added_StaysOpen(channel, value, t) ==
  LET a == IF acc[channel] = NoBlock THEN Opened(value, t) ELSE Fed(acc[channel], value)
  IN  [acc |-> [acc EXCEPT ![channel] = a],
       done |-> IF t - a.mono < Window THEN <<>> ELSE <<Block(channel, a, t)>>]

(* add: the first sample opens a window and never closes one; a later one  *)
(* closes it when the window's time is over.                               *)
Added(channel, value, t) ==
  LET a == Fed(acc[channel], value)
  IN  IF acc[channel] = NoBlock
      THEN [acc |-> [acc EXCEPT ![channel] = Opened(value, t)], done |-> <<>>]
      ELSE IF t - a.mono < Window
           THEN [acc |-> [acc EXCEPT ![channel] = a], done |-> <<>>]
           ELSE [acc |-> [acc EXCEPT ![channel] = NoBlock],
                 done |-> <<Block(channel, a, t)>>]

OpenChannels == {c \in Channels : acc[c] # NoBlock}
NothingOpen == [c \in Channels |-> NoBlock]
OpenCount(windows) == [c \in Channels |-> IF windows[c] = NoBlock THEN 0 ELSE windows[c].count]

(* Counts per channel, added up.                                           *)
Plus(f, g) == [c \in Channels |-> f[c] + g[c]]

(* The history after a sample.                                             *)
Counted(channel, done, t) ==
  [seen EXCEPT !.fed[channel] = @ + 1,
               !.sent[channel] = IF done = <<>> THEN @ ELSE @ + done[1].count,
               !.ends[channel] = IF done = <<>> THEN @ ELSE t]

(* What emit() did not take is lost with its samples.                      *)
Refused(s) ==
  [s EXCEPT !.sent = seen.sent,
            !.lost = [c \in Channels |-> @[c] + s.sent[c] - seen.sent[c]]]

(* flush: every open window is closed, whatever its age, and emitted one   *)
(* by one.  emit() may raise at any of them, before or after it took the   *)
(* block: that ends start(), and the rest is lost.                         *)
Flushed(order, n) ==
  /\ emitted' = [i \in 1 .. n |-> Block(order[i], acc[order[i]], now)]
  /\ acc' = NothingOpen

CountIn(taken) == [c \in Channels |-> IF c \in taken THEN OpenCount(acc)[c] ELSE 0]

FlushAll ==
  /\ \E order \in SetToSeqs(OpenChannels) : Flushed(order, Len(order))
  /\ seen' = [seen EXCEPT !.sent = Plus(@, OpenCount(acc))]

FlushRaises ==
  /\ OpenChannels # {}
  /\ \E order \in SetToSeqs(OpenChannels) : \E n \in 0 .. Len(order) :
       LET taken == {order[i] : i \in 1 .. n}
       IN  /\ Flushed(order, n)
           /\ Fails(health, [seen EXCEPT !.sent = Plus(@, CountIn(taken)),
                                         !.lost = Plus(@, CountIn(Channels \ taken))])

BaseInit ==
  /\ health = NewHealth /\ delay = 1 /\ acc = NothingOpen /\ now = 0 /\ emitted = <<>>
  /\ LET zero == [c \in Channels |-> 0]
     IN  seen = [connects |-> 0, fails |-> 0, wait |-> 0, fed |-> zero, sent |-> zero, lost |-> zero,
                 ends |-> zero]

-----------------------------------------------------------------------------
(* Every sample of a channel that was read is in exactly one block that    *)
(* emit() took, in the open window, or was lost: with start(), or in a     *)
(* block that emit() refused (adapter.py 31-52, protocol.py 78-121).       *)
SamplesCounted == seen.fed = Plus(Plus(seen.sent, seen.lost), OpenCount(acc))

(* By the monotonic clock the windows of a channel do not overlap, and a   *)
(* block whose extremes are whole numbers has its average between them,    *)
(* also when it is cut towards zero from below (adapter.py 39, 48).        *)
SaneBlock(b) ==
  b.kind = "stats" =>
    /\ seen.ends[b.channel] <= b.from /\ b.from <= b.to
    /\ b.min % 10 = 0 /\ b.max % 10 = 0 => b.min <= b.avg /\ b.avg <= b.max

BlocksSane == [][\A i \in DOMAIN emitted' : SaneBlock(emitted'[i])]_baseVars

(* 2 ^ n, by a recursion that a proof can unfold.                          *)
PowerOfTwo[n \in Nat] == IF n = 0 THEN 1 ELSE 2 * PowerOfTwo[n - 1]

(* Reconnects are the connections after the first, and the wait after the  *)
(* n-th failure in a row was 2^(n-1) seconds, up to the longest            *)
(* (adapter.py 90-131: "Exponential backoff delay in seconds, 1 s to       *)
(* 5 min").                                                                *)
CountersHonest ==
  /\ health.reconnects = LargerOf(seen.connects - 1, 0)
  /\ seen.fails > 0 => seen.wait = SmallerOf(PowerOfTwo[seen.fails - 1], MaxDelay)
=============================================================================
