------------------------------- MODULE WrkStats -------------------------------
(***************************************************************************)
(* The statistics of the wrk client: threads record values in one table     *)
(* with no lock, main joins them, corrects the table for the requests that  *)
(* a slow answer kept from being sent, and reads the summary.  Each atomic  *)
(* operation of stats_record is a step; stats_correct and the queries run   *)
(* when main is alone and are functions of the table.  A mean or a          *)
(* deviation is kept as the integers it is a quotient of.                   *)
(***************************************************************************)
EXTENDS Naturals, Integers, Sequences, SequencesExt, FiniteSetsExt

CONSTANTS
  Thread,      (* the threads that record                                   *)
  MaxValue,    (* the greatest value the table has room for                 *)
  Percents,    (* the percentiles that are asked for                        *)
  MaxInterval, (* bound of the model: the expected interval of a request    *)
  MaxRecords   (* bound of the model: values a thread records               *)

ASSUME StatsAssumption ==
  /\ MaxValue \in Nat /\ MaxRecords \in Nat /\ MaxInterval \in Nat
  /\ Percents \subseteq 0..99

VARIABLES
  stats,    (* data, count, min and max of the table                        *)
  call,     (* per thread: its call of stats_record, and its locals         *)
  taken,    (* history: per value, how often it was recorded                *)
  calls,    (* per thread: calls so far                                     *)
  interval  (* what main corrected the table by, 0 before                   *)

vars == <<stats, call, taken, calls, interval>>

Value == 0..MaxValue
Unset == MaxValue + 2   (* UINT64_MAX *)

NoCall == [pc |-> "idle", n |-> 0, min |-> 0, max |-> 0]

(* stats_alloc                                                              *)
Init ==
  /\ stats = [data |-> [n \in Value |-> 0], count |-> 0, min |-> Unset, max |-> 0]
  /\ call = [t \in Thread |-> NoCall]
  /\ taken = [n \in Value |-> 0]
  /\ calls = [t \in Thread |-> 0]
  /\ interval = 0

-------------------------------------------------------------------------------
(* stats_record                                                             *)

Goes(t, from, to) == call[t].pc = from /\ call' = [call EXCEPT ![t].pc = to]

(* A value beyond the limit is refused.                                     *)
Begin(t) ==
  /\ call[t].pc = "idle"
  /\ calls[t] < MaxRecords
  /\ interval = 0
  /\ \E n \in 0..(MaxValue + 1) :
       IF n >= MaxValue + 1 THEN UNCHANGED <<call, taken>>
       ELSE /\ call' = [call EXCEPT ![t] = [NoCall EXCEPT !.pc = "data", !.n = n]]
            /\ taken' = [taken EXCEPT ![n] = @ + 1]
  /\ calls' = [calls EXCEPT ![t] = @ + 1]
  /\ UNCHANGED <<stats, interval>>

AddData(t) ==
  /\ Goes(t, "data", "count")
  /\ stats' = [stats EXCEPT !.data[call[t].n] = @ + 1]
  /\ UNCHANGED <<taken, calls, interval>>

AddCount(t) ==
  /\ Goes(t, "count", "readmin")
  /\ stats' = [stats EXCEPT !.count = @ + 1]
  /\ UNCHANGED <<taken, calls, interval>>

ReadMin(t) ==
  /\ call[t].pc = "readmin"
  /\ call' = [call EXCEPT ![t].pc = "readmax", ![t].min = stats.min]
  /\ UNCHANGED <<stats, taken, calls, interval>>

ReadMax(t) ==
  /\ call[t].pc = "readmax"
  /\ call' = [call EXCEPT ![t].pc = "min", ![t].max = stats.max]
  /\ UNCHANGED <<stats, taken, calls, interval>>

SwapMinOnce(t) ==
  /\ call[t].pc = "min"
  /\ call' = [call EXCEPT ![t].pc = "max"]
  /\ stats' = [stats EXCEPT !.min = IF call[t].n < call[t].min /\ @ = call[t].min
                                    THEN call[t].n ELSE @]
  /\ UNCHANGED <<taken, calls, interval>>

(* One turn of the loop: compare-and-swap gives the value it found.         *)
SwapMin(t) ==
  /\ call[t].pc = "min"
  /\ IF call[t].n < call[t].min
     THEN /\ call' = [call EXCEPT ![t].min = stats.min]
          /\ stats' = [stats EXCEPT !.min = IF @ = call[t].min THEN call[t].n ELSE @]
     ELSE call' = [call EXCEPT ![t].pc = "max"] /\ UNCHANGED stats
  /\ UNCHANGED <<taken, calls, interval>>

SwapMax(t) ==
  /\ call[t].pc = "max"
  /\ IF call[t].n > call[t].max
     THEN /\ call' = [call EXCEPT ![t].max = stats.max]
          /\ stats' = [stats EXCEPT !.max = IF @ = call[t].max THEN call[t].n ELSE @]
     ELSE call' = [call EXCEPT ![t] = NoCall] /\ UNCHANGED stats
  /\ UNCHANGED <<taken, calls, interval>>

-------------------------------------------------------------------------------
(* Main, after it has joined the threads.                                   *)

Between(lo, hi) == [i \in 1..(IF hi < lo THEN 0 ELSE hi - lo + 1) |-> lo + i - 1]

PhantomsToZero(n, expected) ==
  {m \in Value : m < n /\ (n - m) % expected = 0}

(* Where a value n that took longer than expected leaves its phantoms.      *)
Phantoms(n, expected) ==
  {m \in Value : m > expected /\ m < n /\ (n - m) % expected = 0}

(* The table is scanned upwards while it is added to.                       *)
stats_correct(s, expected) ==
  FoldLeft(
    LAMBDA t, n :
      LET P == Phantoms(n, expected)
      IN  [t EXCEPT !.data = [m \in Value |-> @[m] + (IF m \in P THEN t.data[n] ELSE 0)],
                    !.count = @ + t.data[n] * Cardinality(P)],
    s, Between(expected * 2, s.max))

Recorded == \A t \in Thread : call[t].pc = "idle" /\ calls[t] = MaxRecords

Correct ==
  /\ Recorded
  /\ interval = 0
  /\ \E e \in 1..MaxInterval :
       /\ interval' = e
       /\ stats' = stats_correct(stats, e)
  /\ UNCHANGED <<call, taken, calls>>

(* The queries scan from min to max.                                        *)
Scanned(s) == {i \in Value : s.min <= i /\ i <= s.max}

Total(s, S) == MapThenSumSet(LAMBDA i : s.data[i], S)

(* sum and count of stats_mean                                              *)
stats_mean(s) == [sum   |-> MapThenSumSet(LAMBDA i : s.data[i] * i, Scanned(s)),
                  count |-> s.count]

(* stats_stdev, squared, as a quotient: with the mean S/C the deviation of  *)
(* i is (i*C - S)/C.                                                        *)
stats_variance(s) ==
  LET m == stats_mean(s)
      d(i) == i * m.count - m.sum
  IN  [num |-> IF m.count < 2 THEN 0
               ELSE MapThenSumSet(LAMBDA i : d(i) * d(i) * s.data[i], Scanned(s)),
       den |-> IF m.count < 2 THEN 1 ELSE m.count - 1]

(* How many values lie within one deviation of the mean.                    *)
stats_within_stdev(s) ==
  LET m == stats_mean(s)
      v == stats_variance(s)
      d(i) == i * m.count - m.sum
  IN  Total(s, {i \in Scanned(s) : d(i) * d(i) * v.den <= v.num})

RankRoundedDown(s, p) == (p * s.count) \div 100

(* round(p / 100 * count + 0.5) is one more than the whole part.            *)
Rank(s, p) == (p * s.count) \div 100 + 1

stats_percentile(s, p) ==
  LET reach == {i \in Scanned(s) : Total(s, {j \in Scanned(s) : j <= i}) >= Rank(s, p)}
  IN  IF reach = {} THEN 0 ELSE Min(reach)

stats_popcount(s) == Cardinality({i \in Scanned(s) : s.data[i] # 0})

(* The value and the count a script gets for an index.                      *)
stats_value_at(s, index) ==
  LET at == {i \in Scanned(s) :
               /\ s.data[i] # 0
               /\ Cardinality({j \in Scanned(s) : j < i /\ s.data[j] # 0}) = index}
  IN  IF at = {} THEN <<0, stats_popcount(s)>>
      ELSE <<Min(at), s.data[Min(at)]>>

Next ==
  \/ \E t \in Thread : \/ Begin(t) \/ AddData(t) \/ AddCount(t)
                       \/ ReadMin(t) \/ ReadMax(t) \/ SwapMin(t) \/ SwapMax(t)
  \/ Correct

Spec == Init /\ [][Next]_vars

-------------------------------------------------------------------------------

(* Once the threads are joined the table holds exactly the values recorded, *)
(* and min and max are the true extremes, however the calls interleaved.    *)
TableIsExact ==
  Recorded /\ interval = 0 =>
    /\ stats.data = taken
    /\ stats.count = Total(stats, Value)
    /\ LET seen == {n \in Value : taken[n] > 0}
       IN  seen # {} => stats.min = Min(seen) /\ stats.max = Max(seen)

(* The correction adds, for each value recorded, what the requests not sent *)
(* in the meantime would have waited: one expected interval less each time, *)
(* as long as it is more than the interval.  The values the correction adds *)
(* are not corrected in turn, though the scan runs over the same table.     *)
CorrectionIsOfRecorded ==
  interval > 0 =>
    LET waits(m) == {n \in Value : \E k \in 1..n : m = n - k * interval /\ m > interval}
    IN  /\ \A m \in Value :
             stats.data[m] = taken[m] + MapThenSumSet(LAMBDA n : taken[n], waits(m))
        /\ stats.count = Total(stats, Value)

(* The summary main prints is of the whole table: a percentile is the least *)
(* value that more than that part of the table does not exceed, the mean is *)
(* between the extremes, and some value is within a deviation of it.  After *)
(* a correction this needs an interval no less than the least value: the    *)
(* queries start at min, which stats_correct does not lower.                *)
Summarised == stats.count > 0 /\ Recorded /\ (interval = 0 \/ interval >= stats.min)

SummaryIsOfTable ==
  Summarised =>
    /\ \A p \in Percents :
         stats_percentile(stats, p) =
           Min({v \in Value : 100 * Total(stats, 0..v) > p * stats.count})
    /\ LET m == stats_mean(stats)
       IN  stats.min * m.count <= m.sum /\ m.sum <= stats.max * m.count
    /\ stats_within_stdev(stats) > 0
    /\ LET at(i) == stats_value_at(stats, i)
           N == stats_popcount(stats)
       IN  /\ \A i \in 0..(N - 2) : at(i)[1] < at(i + 1)[1]
           /\ stats.count = MapThenSumSet(LAMBDA i : at(i)[2], 0..(N - 1))

===============================================================================
