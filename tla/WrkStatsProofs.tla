---------------------------- MODULE WrkStatsProofs ----------------------------
(***************************************************************************)
(* The table of WrkStats, for any threads, values, percentiles, intervals   *)
(* and numbers of records: recording without a lock loses nothing, the      *)
(* correction adds the phantoms of what was recorded and of nothing else,   *)
(* and the summary is of the whole table.                                   *)
(*                                                                         *)
(* The sums and the scan are folds, which are recursive functions over the  *)
(* subsets of a finite set.  What they compute is shown by induction over   *)
(* such a set, stated with the set of the subsets for which it holds.       *)
(***************************************************************************)
EXTENDS WrkStats, FiniteSetTheorems, WellFoundedInduction, TLAPS

(* Induction over a finite set, on the set of the subsets for which what is *)
(* to be proved holds.                                                      *)
LEMMA FromSubsets ==
  ASSUME NEW S, IsFiniteSet(S), NEW U \in SUBSET SUBSET S,
         \A T \in SUBSET S : (\A V \in SUBSET T : V # T => V \in U) => T \in U
  PROVE  U = SUBSET S
<1>1. SUFFICES ASSUME U # SUBSET S PROVE FALSE
  OBVIOUS
<1> DEFINE R == StrictSubsetOrdering(S)
           B == (SUBSET S) \ U
<1>2. B \subseteq FiniteSubsetsOf(S) /\ B # {}
  <2>1. ASSUME NEW T \in B PROVE IsFiniteSet(T)
    BY FS_Subset
  <2>2. QED
    BY <1>1, <2>1 DEF FiniteSubsetsOf
<1>3. PICK T \in B : \A V \in B : ~ (<<V, T>> \in R)
  <2>1. IsWellFoundedOn(R, FiniteSubsetsOf(S))
    BY FS_StrictSubsetOrderingWellFounded
  <2> HIDE DEF B, R
  <2>2. QED
    BY <1>2, <2>1, WFMin
<1>4. ASSUME NEW V \in SUBSET T, V # T PROVE V \in U
  BY <1>3, <1>4 DEF StrictSubsetOrdering
<1>5. QED
  BY <1>3, <1>4

LEMMA BuildUp ==
  ASSUME NEW S, IsFiniteSet(S), NEW U \in SUBSET SUBSET S, {} \in U,
         \A T \in U : \A x \in S \ T : T \cup {x} \in U
  PROVE  U = SUBSET S
<1>1. ASSUME NEW T \in SUBSET S, \A V \in SUBSET T : V # T => V \in U
      PROVE  T \in U
  <2>1. CASE T = {}
    BY <2>1
  <2>2. CASE T # {}
    <3>1. PICK x \in T : x \in S
      BY <2>2
    <3>2. T \ {x} \in SUBSET T /\ T \ {x} # T /\ x \in S \ (T \ {x})
          /\ (T \ {x}) \cup {x} = T
      BY <3>1
    <3>3. T \ {x} \in U
      BY <1>1, <3>2
    <3>4. (T \ {x}) \cup {x} \in U
      BY <3>2, <3>3
    <3>5. QED
      BY <3>2, <3>4
  <2>3. QED
    BY <2>1, <2>2
<1>2. QED
  BY <1>1, FromSubsets

-------------------------------------------------------------------------------
(* Sums over finite sets.                                                   *)
Sum(f, S) == MapThenSumSet(LAMBDA i : f[i], S)

Chosen(s) == CHOOSE x \in s : TRUE

(* g sums f over the subsets of S the way the fold does.                    *)
SumsUp(f, S, g) ==
  g = [s \in SUBSET S |-> IF s = {} THEN 0
                          ELSE LET x == CHOOSE x \in s : TRUE IN f[x] + g[s \ {x}]]

LEMMA SumIs ==
  ASSUME NEW f, NEW S
  PROVE  Sum(f, S) = (CHOOSE g : SumsUp(f, S, g))[S]
  BY DEF Sum, SumsUp, MapThenSumSet, MapThenFoldSet

(* The recursion, for a set that is not empty.                              *)
More(f, g, s) == f[Chosen(s)] + g[s \ {Chosen(s)}]

LEMMA SumsUpNone ==
  ASSUME NEW f, NEW S, NEW g, SumsUp(f, S, g)
  PROVE  g[{}] = 0
<1>1. {} \in SUBSET S
  OBVIOUS
<1>2. \A v \in SUBSET S : g[v] = IF v = {} THEN 0
                                 ELSE LET x == CHOOSE x \in v : TRUE IN f[x] + g[v \ {x}]
  BY DEF SumsUp
<1>3. QED
  BY <1>1, <1>2

LEMMA SumsUpMore ==
  ASSUME NEW f, NEW S, NEW g, SumsUp(f, S, g), NEW s \in SUBSET S, s # {}
  PROVE  g[s] = More(f, g, s)
<1>1. \A v \in SUBSET S : g[v] = IF v = {} THEN 0
                                 ELSE LET x == CHOOSE x \in v : TRUE IN f[x] + g[v \ {x}]
  BY DEF SumsUp
<1>2. QED
  BY <1>1 DEF Chosen, More

LEMMA MeansSumsUp ==
  ASSUME NEW f, NEW S, NEW g, g = [s \in SUBSET S |-> g[s]],
         g[{}] = 0,
         \A s \in SUBSET S : s # {} => g[s] = f[Chosen(s)] + g[s \ {Chosen(s)}]
  PROVE  SumsUp(f, S, g)
<1>1. \A s \in SUBSET S : g[s] = IF s = {} THEN 0
                                 ELSE LET x == CHOOSE x \in s : TRUE IN f[x] + g[s \ {x}]
  BY DEF Chosen
<1>2. QED
  BY <1>1 DEF SumsUp

LEMMA ChosenIn == ASSUME NEW s, s # {} PROVE Chosen(s) \in s
  BY DEF Chosen

LEMMA SumsUpAgree ==
  ASSUME NEW f, NEW S, IsFiniteSet(S), NEW T \in SUBSET S, NEW g, NEW h,
         SumsUp(f, S, g), SumsUp(f, T, h)
  PROVE  \A s \in SUBSET T : g[s] = h[s]
<1> DEFINE U == {s \in SUBSET T : g[s] = h[s]}
<1>1. IsFiniteSet(T)
  BY FS_Subset
<1>2. ASSUME NEW s \in SUBSET T, \A v \in SUBSET s : v # s => v \in U
      PROVE  s \in U
  <2>1. CASE s = {}
    BY <2>1, SumsUpNone
  <2>2. CASE s # {}
    <3>1. Chosen(s) \in s
      BY <2>2, ChosenIn
    <3>2. s \ {Chosen(s)} \in U
      BY <1>2, <3>1
    <3>3. s \in SUBSET S
      OBVIOUS
    <3>4. g[s] = More(f, g, s)
      BY <2>2, <3>3, SumsUpMore
    <3>5. h[s] = More(f, h, s)
      BY <2>2, SumsUpMore
    <3>6. QED
      BY <3>2, <3>4, <3>5 DEF More
  <2>3. QED
    BY <2>1, <2>2
<1>3. U = SUBSET T
  <2> HIDE DEF U
  <2>1. U \in SUBSET SUBSET T
    BY DEF U
  <2>2. QED
    BY <1>1, <1>2, <2>1, FromSubsets
<1>4. QED
  BY <1>3

Summed(f, S) == \E g : SumsUp(f, S, g)

LEMMA SummedIs ==
  ASSUME NEW f, NEW S, Summed(f, S)
  PROVE  \E g : SumsUp(f, S, g) /\ Sum(f, S) = g[S]
  BY SumIs DEF Summed

LEMMA SumsUpIs ==
  ASSUME NEW f, NEW S, IsFiniteSet(S), NEW g, SumsUp(f, S, g),
         NEW T \in SUBSET S, Summed(f, T)
  PROVE  Sum(f, T) = g[T]
<1>1. PICK h : SumsUp(f, T, h) /\ Sum(f, T) = h[T]
  BY SummedIs
<1>2. QED
  BY <1>1, SumsUpAgree

LEMMA AllSummed ==
  ASSUME NEW f, NEW S, IsFiniteSet(S)
  PROVE  Summed(f, S)
<1> DEFINE U == {T \in SUBSET S : Summed(f, T)}
<1>1. ASSUME NEW T \in SUBSET S, \A V \in SUBSET T : V # T => V \in U
      PROVE  T \in U
  <2> DEFINE h == [s \in SUBSET T |-> IF s = {} THEN 0
                                     ELSE f[Chosen(s)] + Sum(f, s \ {Chosen(s)})]
  <2>1. ASSUME NEW V \in SUBSET T, V # T PROVE Sum(f, V) = h[V]
    <3>1. IsFiniteSet(V) /\ Summed(f, V)
      BY <1>1, <2>1, FS_Subset
    <3>2. PICK g : SumsUp(f, V, g) /\ Sum(f, V) = g[V]
      BY <3>1, SummedIs
    <3>3. CASE V = {}
      BY <3>2, <3>3, SumsUpNone
    <3>4. CASE V # {}
      <4>1. Chosen(V) \in V
        BY <3>4, ChosenIn
      <4>2. V \ {Chosen(V)} \in SUBSET V /\ V \ {Chosen(V)} \in SUBSET T
            /\ V \ {Chosen(V)} # T
        BY <2>1, <4>1
      <4>3. Summed(f, V \ {Chosen(V)})
        BY <1>1, <4>2
      <4>4. Sum(f, V \ {Chosen(V)}) = g[V \ {Chosen(V)}]
        BY <3>1, <3>2, <4>2, <4>3, SumsUpIs
      <4>5. g[V] = More(f, g, V)
        <5>1. V \in SUBSET V
          OBVIOUS
        <5>2. QED
          BY <3>2, <3>4, <5>1, SumsUpMore
      <4>6. QED
        BY <3>2, <3>4, <4>4, <4>5 DEF More
    <3>5. QED
      BY <3>3, <3>4
  <2>2. ASSUME NEW s \in SUBSET T, s # {}
        PROVE  h[s] = f[Chosen(s)] + h[s \ {Chosen(s)}]
    <3>1. Chosen(s) \in s
      BY <2>2, ChosenIn
    <3>2. s \ {Chosen(s)} \in SUBSET T /\ s \ {Chosen(s)} # T
      BY <3>1
    <3>3. Sum(f, s \ {Chosen(s)}) = h[s \ {Chosen(s)}]
      BY <2>1, <3>2
    <3>4. QED
      BY <2>2, <3>3
  <2>3. h[{}] = 0 /\ h = [s \in SUBSET T |-> h[s]]
    OBVIOUS
  <2>4. SumsUp(f, T, h)
    <3> HIDE DEF h
    <3>1. QED
      BY <2>2, <2>3, MeansSumsUp
  <2>5. QED
    BY <2>4 DEF Summed
<1>2. U \in SUBSET SUBSET S
  OBVIOUS
<1>3. U = SUBSET S
  <2> HIDE DEF U
  <2>1. QED
    BY <1>1, <1>2, FromSubsets
<1>4. QED
  BY <1>3

LEMMA SumChosen ==
  ASSUME NEW f, NEW S, IsFiniteSet(S)
  PROVE  /\ Sum(f, {}) = 0
         /\ S # {} => Sum(f, S) = f[Chosen(S)] + Sum(f, S \ {Chosen(S)})
<1>1. PICK g : SumsUp(f, S, g)
  BY AllSummed DEF Summed
<1>2. ASSUME NEW T \in SUBSET S PROVE Sum(f, T) = g[T]
  BY <1>1, AllSummed, SumsUpIs, FS_Subset
<1>3. g[{}] = 0 /\ (S # {} => g[S] = More(f, g, S))
  <2>1. S \in SUBSET S
    OBVIOUS
  <2>2. QED
    BY <1>1, <2>1, SumsUpNone, SumsUpMore
<1>4. {} \in SUBSET S /\ S \in SUBSET S /\ S \ {Chosen(S)} \in SUBSET S
  OBVIOUS
<1>5. QED
  BY <1>2, <1>3, <1>4 DEF More

LEMMA SumNone == ASSUME NEW f PROVE Sum(f, {}) = 0
<1>1. IsFiniteSet({})
  BY FS_EmptySet
<1>2. QED
  BY <1>1, SumChosen

LEMMA SumIsInt ==
  ASSUME NEW f, NEW S, IsFiniteSet(S), \A i \in S : f[i] \in Int
  PROVE  \A T \in SUBSET S : Sum(f, T) \in Int
<1> DEFINE U == {T \in SUBSET S : Sum(f, T) \in Int}
<1>1. ASSUME NEW T \in SUBSET S, \A V \in SUBSET T : V # T => V \in U
      PROVE  T \in U
  <2>1. CASE T = {}
    BY <2>1, SumNone
  <2>2. CASE T # {}
    <3>1. Chosen(T) \in T /\ IsFiniteSet(T)
      BY <2>2, ChosenIn, FS_Subset
    <3>2. T \ {Chosen(T)} \in U
      BY <1>1, <3>1
    <3>3. Sum(f, T) = f[Chosen(T)] + Sum(f, T \ {Chosen(T)})
      BY <2>2, <3>1, SumChosen
    <3>4. f[Chosen(T)] \in Int
      BY <3>1
    <3>5. QED
      BY <3>2, <3>3, <3>4
  <2>3. QED
    BY <2>1, <2>2
<1>2. U \in SUBSET SUBSET S
  OBVIOUS
<1>3. U = SUBSET S
  <2> HIDE DEF U
  <2>1. QED
    BY <1>1, <1>2, FromSubsets
<1>4. QED
  BY <1>3

(* The order in which a sum is taken does not matter.                       *)
LEMMA SumTake ==
  ASSUME NEW f, NEW S, IsFiniteSet(S), \A i \in S : f[i] \in Int, NEW x \in S
  PROVE  Sum(f, S) = f[x] + Sum(f, S \ {x})
<1> DEFINE U == {T \in SUBSET S : \A y \in T : Sum(f, T) = f[y] + Sum(f, T \ {y})}
<1>1. ASSUME NEW T \in SUBSET S, \A V \in SUBSET T : V # T => V \in U
      PROVE  T \in U
  <2>1. SUFFICES ASSUME NEW y \in T PROVE Sum(f, T) = f[y] + Sum(f, T \ {y})
    OBVIOUS
  <2>2. PICK c : c = Chosen(T)
    OBVIOUS
  <2>3. IsFiniteSet(T) /\ c \in T
    BY <2>2, ChosenIn, FS_Subset
  <2>4. Sum(f, T) = f[c] + Sum(f, T \ {c})
    BY <2>2, <2>3, SumChosen
  <2>5. CASE c = y
    BY <2>4, <2>5
  <2>6. CASE c # y
    <3>1. y \in T \ {c} /\ c \in T \ {y}
      BY <2>3, <2>6
    <3>2. T \ {c} \in U /\ T \ {y} \in U
      BY <1>1, <2>3
    <3>3. /\ Sum(f, T \ {c}) = f[y] + Sum(f, (T \ {c}) \ {y})
          /\ Sum(f, T \ {y}) = f[c] + Sum(f, (T \ {y}) \ {c})
      BY <3>1, <3>2
    <3>4. PICK W \in SUBSET S : W = (T \ {c}) \ {y} /\ W = (T \ {y}) \ {c}
      OBVIOUS
    <3>5. Sum(f, W) \in Int /\ f[y] \in Int /\ f[c] \in Int
      BY <2>3, <3>4, SumIsInt
    <3>6. PICK a \in Int, b \in Int, w \in Int : a = f[y] /\ b = f[c] /\ w = Sum(f, W)
      BY <3>5
    <3>7. Sum(f, T \ {c}) = a + w /\ Sum(f, T \ {y}) = b + w
      BY <3>3, <3>4, <3>6
    <3>8. QED
      BY <2>4, <3>6, <3>7
  <2>7. QED
    BY <2>5, <2>6
<1>2. U \in SUBSET SUBSET S
  OBVIOUS
<1>3. U = SUBSET S
  <2> HIDE DEF U
  <2>1. QED
    BY <1>1, <1>2, FromSubsets
<1>4. S \in U
  BY <1>3
<1>5. QED
  BY <1>4

LEMMA SumAdd ==
  ASSUME NEW f, NEW S, IsFiniteSet(S), \A i \in S : f[i] \in Int,
         NEW T \in SUBSET S, NEW x \in S \ T
  PROVE  Sum(f, T \cup {x}) = f[x] + Sum(f, T)
<1>1. T \cup {x} \in SUBSET S /\ (T \cup {x}) \ {x} = T /\ x \in T \cup {x}
  OBVIOUS
<1>2. IsFiniteSet(T \cup {x}) /\ \A i \in T \cup {x} : f[i] \in Int
  BY <1>1, FS_Subset
<1>3. Sum(f, T \cup {x}) = f[x] + Sum(f, (T \cup {x}) \ {x})
  BY <1>1, <1>2, SumTake
<1>4. QED
  BY <1>1, <1>3

LEMMA SumSame ==
  ASSUME NEW f, NEW h, NEW S, IsFiniteSet(S), \A i \in S : f[i] \in Int /\ h[i] = f[i]
  PROVE  \A T \in SUBSET S : Sum(h, T) = Sum(f, T)
<1> DEFINE U == {T \in SUBSET S : Sum(h, T) = Sum(f, T)}
<1>1. {} \in U
  BY SumNone
<1>2. ASSUME NEW T \in U, NEW x \in S \ T PROVE T \cup {x} \in U
  <2>1. Sum(f, T \cup {x}) = f[x] + Sum(f, T)
    BY SumAdd
  <2>2. Sum(h, T \cup {x}) = h[x] + Sum(h, T)
    BY SumAdd
  <2>3. QED
    BY <2>1, <2>2
<1>3. U \in SUBSET SUBSET S
  OBVIOUS
<1>4. U = SUBSET S
  <2> HIDE DEF U
  <2>1. QED
    BY <1>1, <1>2, <1>3, BuildUp
<1>5. QED
  BY <1>4

LEMMA SumAtOne ==
  ASSUME NEW S, IsFiniteSet(S), NEW d, NEW e, \A i \in S : d[i] \in Int /\ e[i] \in Int,
         NEW n \in S, \A i \in S \ {n} : e[i] = d[i]
  PROVE  Sum(e, S) = Sum(d, S) + (e[n] - d[n])
<1>1. Sum(d, S) = d[n] + Sum(d, S \ {n})
  BY SumTake
<1>2. Sum(e, S) = e[n] + Sum(e, S \ {n})
  BY SumTake
<1>3. Sum(e, S \ {n}) = Sum(d, S \ {n})
  <2>1. PICK T \in SUBSET S : T = S \ {n}
    OBVIOUS
  <2>2. IsFiniteSet(T) /\ T \in SUBSET T
    BY FS_Subset
  <2>3. \A i \in T : d[i] \in Int /\ e[i] = d[i]
    BY <2>1
  <2>4. Sum(e, T) = Sum(d, T)
    BY <2>2, <2>3, SumSame
  <2>5. QED
    BY <2>1, <2>4
<1>4. Sum(d, S \ {n}) \in Int
  BY SumIsInt
<1>5. QED
  BY <1>1, <1>2, <1>3, <1>4

LEMMA SumOneMore ==
  ASSUME NEW S, IsFiniteSet(S), NEW d \in [S -> Nat], NEW n \in S
  PROVE  Sum([d EXCEPT ![n] = @ + 1], S) = Sum(d, S) + 1
<1>1. PICK e : e = [d EXCEPT ![n] = @ + 1]
  OBVIOUS
<1>2. /\ \A i \in S : d[i] \in Int /\ e[i] \in Int
      /\ \A i \in S \ {n} : e[i] = d[i]
      /\ e[n] - d[n] = 1
  BY <1>1
<1>3. Sum(e, S) = Sum(d, S) + (e[n] - d[n])
  BY <1>2, SumAtOne
<1>4. QED
  BY <1>1, <1>2, <1>3

-------------------------------------------------------------------------------
(* What the calls of stats_record still have to do.                         *)
Adding(n) == {t \in Thread : call[t].pc = "data" /\ call[t].n = n}
Counting == {t \in Thread : call[t].pc = "count"}

BeforeMin == {"data", "count", "readmin", "readmax", "min"}

StatsTypes ==
  /\ interval = 0 =>
       stats \in [data : [Value -> Nat], count : Nat, min : Nat, max : Nat]
  /\ taken \in [Value -> Nat]
  /\ calls \in [Thread -> Nat]
  /\ interval \in Nat
  /\ call \in [Thread -> [pc : BeforeMin \cup {"idle", "max"},
                          n : Value, min : Nat, max : Nat]]

(* Every value taken is in the data, or a call is about to add it there;    *)
(* every entry of the data is counted, or a call is about to count it.      *)
DataInv ==
  /\ \A n \in Value : /\ IsFiniteSet(Adding(n))
                      /\ taken[n] = stats.data[n] + Cardinality(Adding(n))
  /\ IsFiniteSet(Counting)
  /\ Sum(stats.data, Value) = stats.count + Cardinality(Counting)

(* The extremes of the table are of values taken; a call's own idea of them *)
(* is never beyond the table's; a value beyond them has its call still in   *)
(* the loop that will move them.                                            *)
MinInv ==
  /\ stats.min = Unset \/ (stats.min \in Value /\ taken[stats.min] > 0)
  /\ \A t \in Thread : call[t].pc \in {"readmax", "min"} => stats.min <= call[t].min
  /\ \A n \in Value : taken[n] > 0 =>
       stats.min <= n \/ \E t \in Thread : call[t].pc \in BeforeMin /\ call[t].n = n

MaxInv ==
  /\ stats.max = 0 \/ (stats.max \in Value /\ taken[stats.max] > 0)
  /\ \A t \in Thread : call[t].pc \in {"min", "max"} => call[t].max <= stats.max
  /\ \A n \in Value : taken[n] > 0 =>
       n <= stats.max \/ \E t \in Thread : call[t].pc # "idle" /\ call[t].n = n

CallsTake == \A t \in Thread : call[t].pc # "idle" => taken[call[t].n] > 0

RecordInv == DataInv /\ MinInv /\ MaxInv /\ CallsTake

LEMMA ValueFinite == IsFiniteSet(Value) /\ 0 \in Value /\ MaxValue \in Nat
  BY StatsAssumption, FS_Interval DEF Value

LEMMA SumZero ==
  ASSUME NEW f, NEW S, IsFiniteSet(S), \A i \in S : f[i] = 0
  PROVE  Sum(f, S) = 0
<1> DEFINE U == {T \in SUBSET S : Sum(f, T) = 0}
<1>1. {} \in U
  BY SumNone
<1>2. ASSUME NEW T \in U, NEW x \in S \ T PROVE T \cup {x} \in U
  <2>1. \A i \in S : f[i] \in Int
    OBVIOUS
  <2>2. Sum(f, T \cup {x}) = f[x] + Sum(f, T)
    BY <2>1, SumAdd
  <2>3. QED
    BY <2>2
<1>3. U \in SUBSET SUBSET S
  OBVIOUS
<1>4. U = SUBSET S
  <2> HIDE DEF U
  <2>1. QED
    BY <1>1, <1>2, <1>3, BuildUp
<1>5. QED
  BY <1>4

LEMMA InitStats == Init => StatsTypes /\ RecordInv /\ interval = 0
<1> SUFFICES ASSUME Init PROVE StatsTypes /\ RecordInv /\ interval = 0
  OBVIOUS
<1>1. interval = 0
  BY DEF Init
<1>2. StatsTypes
  BY <1>1, ValueFinite DEF Init, StatsTypes, NoCall, Unset, BeforeMin
<1>3. \A t \in Thread : call[t].pc = "idle"
  BY DEF Init, NoCall
<1>4. DataInv
  <2>1. Counting = {} /\ \A n \in Value : Adding(n) = {}
    BY <1>3 DEF Counting, Adding
  <2>2. IsFiniteSet({}) /\ Cardinality({}) = 0
    BY FS_EmptySet
  <2>3. \A n \in Value : taken[n] = 0 /\ stats.data[n] = 0
    BY DEF Init
  <2>4. Sum(stats.data, Value) = 0
    BY <2>3, ValueFinite, SumZero
  <2>5. stats.count = 0
    BY DEF Init
  <2>6. QED
    BY <2>1, <2>2, <2>3, <2>4, <2>5 DEF DataInv
<1>5. MinInv /\ MaxInv /\ CallsTake
  BY <1>3 DEF Init, MinInv, MaxInv, CallsTake, Unset, Value
<1>6. QED
  BY <1>1, <1>2, <1>4, <1>5 DEF RecordInv

(* Where a call stands, and whether a step of another matters to it.        *)
LEMMA SameAdding ==
  ASSUME \A u \in Thread : \/ call'[u].pc = call[u].pc /\ call'[u].n = call[u].n
                           \/ call'[u].pc \notin {"data"} /\ call[u].pc # "data"
  PROVE  \A n \in Value : Adding(n)' = Adding(n)
  BY DEF Adding

LEMMA SameCounting ==
  ASSUME \A u \in Thread : call'[u].pc = "count" <=> call[u].pc = "count"
  PROVE  Counting' = Counting
  BY DEF Counting

LEMMA BeginKeeps ==
  ASSUME StatsTypes, RecordInv, NEW t \in Thread, Begin(t)
  PROVE  StatsTypes' /\ RecordInv' /\ interval' = 0
<1>1. interval = 0 /\ interval' = 0 /\ stats' = stats
  BY DEF Begin
<1>2. calls' \in [Thread -> Nat]
  BY DEF Begin, StatsTypes
<1>3. PICK n \in 0 .. MaxValue + 1 :
        IF n >= MaxValue + 1 THEN UNCHANGED <<call, taken>>
        ELSE /\ call' = [call EXCEPT ![t] = [NoCall EXCEPT !.pc = "data", !.n = n]]
             /\ taken' = [taken EXCEPT ![n] = @ + 1]
  BY DEF Begin
<1>4. CASE n >= MaxValue + 1
  <2>1. UNCHANGED <<stats, call, taken, interval>>
    BY <1>1, <1>3, <1>4
  <2>2. QED
    BY <1>1, <1>2, <2>1
    DEF StatsTypes, RecordInv, DataInv, MinInv, MaxInv, CallsTake, Adding, Counting
<1>5. CASE ~ (n >= MaxValue + 1)
  <2>1. n \in Value
    BY <1>3, <1>5, ValueFinite DEF Value
  <2>2. call[t].pc = "idle"
    BY DEF Begin
  <2>3. /\ call'[t] = [pc |-> "data", n |-> n, min |-> 0, max |-> 0]
        /\ \A u \in Thread : u # t => call'[u] = call[u]
        /\ call' \in [Thread -> [pc : BeforeMin \cup {"idle", "max"},
                                 n : Value, min : Nat, max : Nat]]
    <3>1. PICK e : e = [pc |-> "data", n |-> n, min |-> 0, max |-> 0]
      OBVIOUS
    <3>2. call' = [call EXCEPT ![t] = e]
      BY <1>3, <1>5, <3>1 DEF NoCall
    <3>3. e \in [pc : BeforeMin \cup {"idle", "max"}, n : Value, min : Nat, max : Nat]
      BY <2>1, <3>1 DEF BeforeMin
    <3>4. QED
      BY <3>1, <3>2, <3>3 DEF StatsTypes
  <2>4. /\ taken' \in [Value -> Nat]
        /\ taken'[n] = taken[n] + 1
        /\ \A m \in Value : m # n => taken'[m] = taken[m]
    BY <1>3, <1>5, <2>1 DEF StatsTypes
  <2>5. StatsTypes'
    BY <1>1, <1>2, <2>3, <2>4 DEF StatsTypes
  <2>6. \A m \in Value : taken[m] > 0 => taken'[m] > 0
    BY <2>4 DEF StatsTypes
  <2>7. DataInv'
    <3>1. Counting' = Counting
      BY <2>2, <2>3, SameCounting
    <3>2. \A m \in Value : Adding(m)' = IF m = n THEN Adding(n) \cup {t} ELSE Adding(m)
      BY <2>2, <2>3 DEF Adding
    <3>3. t \notin Adding(n)
      BY <2>2 DEF Adding
    <3>4. IsFiniteSet(Adding(n) \cup {t})
          /\ Cardinality(Adding(n) \cup {t}) = Cardinality(Adding(n)) + 1
      BY <2>1, <3>3, FS_AddElement DEF RecordInv, DataInv
    <3>5. taken[n] = stats.data[n] + Cardinality(Adding(n)) /\ stats.data[n] \in Nat
      BY <1>1, <2>1 DEF RecordInv, DataInv, StatsTypes
    <3>6. Cardinality(Adding(n)) \in Nat
      BY <2>1, FS_CardinalityType DEF RecordInv, DataInv
    <3>7. ASSUME NEW m \in Value
          PROVE  /\ IsFiniteSet(Adding(m)')
                 /\ taken'[m] = stats.data[m] + Cardinality(Adding(m)')
      <4>1. CASE m = n
        <5>1. Adding(m)' = Adding(n) \cup {t}
          BY <3>2, <4>1
        <5>2. PICK k \in Nat : k = Cardinality(Adding(n))
          BY <3>6
        <5>3. Cardinality(Adding(n) \cup {t}) = k + 1
          BY <3>4, <5>2
        <5>4. taken'[m] = stats.data[m] + (k + 1)
          BY <2>4, <3>5, <4>1, <5>2
        <5>5. QED
          BY <3>4, <5>1, <5>3, <5>4
      <4>2. CASE m # n
        BY <2>4, <3>2, <4>2 DEF RecordInv, DataInv
      <4>3. QED
        BY <4>1, <4>2
    <3>8. QED
      BY <1>1, <3>1, <3>7 DEF RecordInv, DataInv
  <2>8. CallsTake'
    BY <2>2, <2>3, <2>4, <2>6 DEF RecordInv, CallsTake, StatsTypes
  <2>9. MinInv'
    <3>1. stats.min = Unset \/ (stats.min \in Value /\ taken'[stats.min] > 0)
      BY <2>6 DEF RecordInv, MinInv
    <3>2. \A u \in Thread : call'[u].pc \in {"readmax", "min"} => stats.min <= call'[u].min
      BY <2>3 DEF RecordInv, MinInv
    <3>3. ASSUME NEW m \in Value, taken'[m] > 0
          PROVE  stats.min <= m \/ \E u \in Thread : call'[u].pc \in BeforeMin /\ call'[u].n = m
      <4>1. CASE m = n
        BY <2>3, <4>1 DEF BeforeMin
      <4>2. CASE m # n
        <5>1. stats.min <= m \/ \E u \in Thread : call[u].pc \in BeforeMin /\ call[u].n = m
          BY <2>4, <3>3, <4>2 DEF RecordInv, MinInv
        <5>2. "idle" \notin BeforeMin
          BY DEF BeforeMin
        <5>3. QED
          BY <2>2, <2>3, <5>1, <5>2
      <4>3. QED
        BY <4>1, <4>2
    <3>4. QED
      BY <1>1, <3>1, <3>2, <3>3 DEF MinInv
  <2>10. MaxInv'
    <3>1. stats.max = 0 \/ (stats.max \in Value /\ taken'[stats.max] > 0)
      BY <2>6 DEF RecordInv, MaxInv
    <3>2. \A u \in Thread : call'[u].pc \in {"min", "max"} => call'[u].max <= stats.max
      BY <2>3 DEF RecordInv, MaxInv
    <3>3. ASSUME NEW m \in Value, taken'[m] > 0
          PROVE  m <= stats.max \/ \E u \in Thread : call'[u].pc # "idle" /\ call'[u].n = m
      <4>1. CASE m = n
        BY <2>3, <4>1
      <4>2. CASE m # n
        <5>1. m <= stats.max \/ \E u \in Thread : call[u].pc # "idle" /\ call[u].n = m
          BY <2>4, <3>3, <4>2 DEF RecordInv, MaxInv
        <5>2. QED
          BY <2>2, <2>3, <5>1
      <4>3. QED
        BY <4>1, <4>2
    <3>4. QED
      BY <1>1, <3>1, <3>2, <3>3 DEF MaxInv
  <2>11. QED
    BY <1>1, <2>5, <2>7, <2>8, <2>9, <2>10 DEF RecordInv
<1>6. QED
  BY <1>4, <1>5

LEMMA AddDataKeeps ==
  ASSUME StatsTypes, RecordInv, interval = 0, NEW t \in Thread, AddData(t)
  PROVE  StatsTypes' /\ RecordInv' /\ interval' = 0
<1>1. PICK n \in Value : n = call[t].n
  BY DEF StatsTypes
<1>2. /\ call[t].pc = "data" /\ interval' = 0 /\ taken' = taken /\ calls' = calls
      /\ call' = [call EXCEPT ![t].pc = "count"]
  BY DEF AddData, Goes
<1>3. /\ stats'.data = [stats.data EXCEPT ![n] = @ + 1]
      /\ stats'.count = stats.count /\ stats'.min = stats.min /\ stats'.max = stats.max
      /\ stats' \in [data : [Value -> Nat], count : Nat, min : Nat, max : Nat]
  BY <1>1 DEF AddData, StatsTypes
<1>4. /\ call'[t].pc = "count" /\ call'[t].n = n
      /\ \A u \in Thread : u # t => call'[u] = call[u]
      /\ call' \in [Thread -> [pc : BeforeMin \cup {"idle", "max"},
                               n : Value, min : Nat, max : Nat]]
  BY <1>1, <1>2 DEF StatsTypes, BeforeMin
<1>5. StatsTypes'
  BY <1>2, <1>3, <1>4 DEF StatsTypes
<1>6. DataInv'
  <2>1. t \in Adding(n) /\ t \notin Counting
    BY <1>1, <1>2 DEF Adding, Counting
  <2>2. Counting' = Counting \cup {t}
    BY <1>4 DEF Counting
  <2>3. \A m \in Value : Adding(m)' = IF m = n THEN Adding(n) \ {t} ELSE Adding(m)
    BY <1>1, <1>2, <1>4 DEF Adding
  <2>4. PICK k \in Nat : k = Cardinality(Adding(n))
    BY FS_CardinalityType DEF RecordInv, DataInv
  <2>5. IsFiniteSet(Adding(n) \ {t}) /\ Cardinality(Adding(n) \ {t}) = k - 1
    BY <2>1, <2>4, FS_RemoveElement DEF RecordInv, DataInv
  <2>6. PICK j \in Nat : j = Cardinality(Counting)
    BY FS_CardinalityType DEF RecordInv, DataInv
  <2>7. IsFiniteSet(Counting') /\ Cardinality(Counting') = j + 1
    BY <2>1, <2>2, <2>6, FS_AddElement DEF RecordInv, DataInv
  <2>8. ASSUME NEW m \in Value
        PROVE  /\ IsFiniteSet(Adding(m)')
               /\ taken'[m] = stats'.data[m] + Cardinality(Adding(m)')
    <3>1. CASE m = n
      <4>1. Adding(m)' = Adding(n) \ {t}
        BY <2>3, <3>1
      <4>2. taken[n] = stats.data[n] + k
        BY <2>4 DEF RecordInv, DataInv
      <4>3. stats'.data[m] = stats.data[n] + 1 /\ stats.data[n] \in Nat
        BY <1>3, <3>1 DEF StatsTypes
      <4>4. taken'[m] = stats'.data[m] + (k - 1)
        BY <1>2, <3>1, <4>2, <4>3
      <4>5. QED
        BY <2>5, <4>1, <4>4
    <3>2. CASE m # n
      <4>1. Adding(m)' = Adding(m)
        BY <2>3, <3>2
      <4>2. stats'.data[m] = stats.data[m]
        BY <1>3, <3>2 DEF StatsTypes
      <4>3. QED
        BY <1>2, <4>1, <4>2 DEF RecordInv, DataInv
    <3>3. QED
      BY <3>1, <3>2
  <2>9. Sum(stats'.data, Value) = stats'.count + Cardinality(Counting')
    <3>1. PICK d \in [Value -> Nat] : d = stats.data
      BY DEF StatsTypes
    <3>2. Sum([d EXCEPT ![n] = @ + 1], Value) = Sum(d, Value) + 1
      BY ValueFinite, SumOneMore
    <3>3. Sum(d, Value) = stats.count + j
      BY <2>6, <3>1 DEF RecordInv, DataInv
    <3>4. stats.count \in Nat
      BY DEF StatsTypes
    <3>5. QED
      BY <1>3, <2>7, <3>1, <3>2, <3>3, <3>4
  <2>10. QED
    BY <2>7, <2>8, <2>9 DEF DataInv
<1>7. MinInv'
  BY <1>1, <1>2, <1>3, <1>4 DEF RecordInv, MinInv, BeforeMin
<1>8. MaxInv'
  BY <1>1, <1>2, <1>3, <1>4 DEF RecordInv, MaxInv
<1>9. CallsTake'
  BY <1>1, <1>2, <1>4 DEF RecordInv, CallsTake
<1>10. QED
  BY <1>2, <1>5, <1>6, <1>7, <1>8, <1>9 DEF RecordInv

LEMMA AddCountKeeps ==
  ASSUME StatsTypes, RecordInv, interval = 0, NEW t \in Thread, AddCount(t)
  PROVE  StatsTypes' /\ RecordInv' /\ interval' = 0
<1>1. PICK n \in Value : n = call[t].n
  BY DEF StatsTypes
<1>2. /\ call[t].pc = "count" /\ interval' = 0 /\ taken' = taken /\ calls' = calls
      /\ call' = [call EXCEPT ![t].pc = "readmin"]
  BY DEF AddCount, Goes
<1>3. /\ stats'.count = stats.count + 1
      /\ stats'.data = stats.data /\ stats'.min = stats.min /\ stats'.max = stats.max
      /\ stats' \in [data : [Value -> Nat], count : Nat, min : Nat, max : Nat]
  BY DEF AddCount, StatsTypes
<1>4. /\ call'[t].pc = "readmin" /\ call'[t].n = n
      /\ \A u \in Thread : u # t => call'[u] = call[u]
      /\ call' \in [Thread -> [pc : BeforeMin \cup {"idle", "max"},
                               n : Value, min : Nat, max : Nat]]
  BY <1>1, <1>2 DEF StatsTypes, BeforeMin
<1>5. StatsTypes'
  BY <1>2, <1>3, <1>4 DEF StatsTypes
<1>6. DataInv'
  <2>1. t \in Counting
    BY <1>2 DEF Counting
  <2>2. Counting' = Counting \ {t}
    BY <1>4 DEF Counting
  <2>3. \A m \in Value : Adding(m)' = Adding(m)
    BY <1>2, <1>4 DEF Adding
  <2>4. PICK j \in Nat : j = Cardinality(Counting)
    BY FS_CardinalityType DEF RecordInv, DataInv
  <2>5. IsFiniteSet(Counting') /\ Cardinality(Counting') = j - 1
    BY <2>1, <2>2, <2>4, FS_RemoveElement DEF RecordInv, DataInv
  <2>6. Sum(stats'.data, Value) = stats'.count + Cardinality(Counting')
    <3>1. stats.count \in Nat
      BY DEF StatsTypes
    <3>2. Sum(stats.data, Value) = stats.count + j
      BY <2>4 DEF RecordInv, DataInv
    <3>3. QED
      BY <1>3, <2>5, <3>1, <3>2
  <2>7. QED
    BY <1>2, <1>3, <2>3, <2>5, <2>6 DEF RecordInv, DataInv
<1>7. MinInv'
  BY <1>1, <1>2, <1>3, <1>4 DEF RecordInv, MinInv, BeforeMin
<1>8. MaxInv'
  BY <1>1, <1>2, <1>3, <1>4 DEF RecordInv, MaxInv
<1>9. CallsTake'
  BY <1>1, <1>2, <1>4 DEF RecordInv, CallsTake
<1>10. QED
  BY <1>2, <1>5, <1>6, <1>7, <1>8, <1>9 DEF RecordInv

(* A call that has counted its value leaves the data alone.                 *)
Counted(t) ==
  /\ call[t].pc \notin {"idle", "data", "count"}
  /\ call'[t].pc \notin {"data", "count"}
  /\ \A u \in Thread : u # t => call'[u] = call[u]
  /\ taken' = taken /\ interval' = interval
  /\ stats'.data = stats.data /\ stats'.count = stats.count

LEMMA DataStays ==
  ASSUME RecordInv, NEW t \in Thread, Counted(t)
  PROVE  DataInv'
<1>1. Counting' = Counting
  BY DEF Counting, Counted
<1>2. \A m \in Value : Adding(m)' = Adding(m)
  BY DEF Adding, Counted
<1>3. QED
  BY <1>1, <1>2 DEF RecordInv, DataInv, Counted

LEMMA ReadMinKeeps ==
  ASSUME StatsTypes, RecordInv, interval = 0, NEW t \in Thread, ReadMin(t)
  PROVE  StatsTypes' /\ RecordInv' /\ interval' = 0
<1>1. PICK n \in Value : n = call[t].n
  BY DEF StatsTypes
<1>2. /\ call[t].pc = "readmin" /\ UNCHANGED <<stats, taken, calls, interval>>
      /\ call' = [call EXCEPT ![t].pc = "readmax", ![t].min = stats.min]
      /\ stats.min \in Nat
  BY DEF ReadMin, StatsTypes
<1>3. /\ call'[t].pc = "readmax" /\ call'[t].n = n /\ call'[t].min = stats.min
      /\ \A u \in Thread : u # t => call'[u] = call[u]
      /\ call' \in [Thread -> [pc : BeforeMin \cup {"idle", "max"},
                               n : Value, min : Nat, max : Nat]]
  <2> DEFINE C == [pc : BeforeMin \cup {"idle", "max"}, n : Value, min : Nat, max : Nat]
  <2>1. PICK r : r = [call[t] EXCEPT !.pc = "readmax", !.min = stats.min]
    OBVIOUS
  <2>2. PICK c \in C : c = call[t]
    BY DEF StatsTypes
  <2>3. /\ r \in C /\ r.pc = "readmax" /\ r.n = c.n /\ r.min = stats.min
        /\ r.max = c.max
    BY <1>2, <2>1, <2>2 DEF BeforeMin
  <2>4. call \in [Thread -> C]
    BY DEF StatsTypes
  <2>5. call' = [call EXCEPT ![t] = r]
    BY <1>2, <2>1, <2>4
  <2>6. call' \in [Thread -> C]
    <3> HIDE DEF C
    <3>1. QED
      BY <2>3, <2>4, <2>5
  <2>7. call'[t] = r /\ \A u \in Thread : u # t => call'[u] = call[u]
    <3> HIDE DEF C
    <3>1. QED
      BY <2>4, <2>5
  <2>8. QED
    BY <1>1, <2>2, <2>3, <2>6, <2>7
<1>4. StatsTypes' /\ interval' = 0
  BY <1>2, <1>3 DEF StatsTypes
<1>5. DataInv'
  BY <1>2, <1>3, DataStays DEF Counted
<1>6. MinInv'
  BY <1>1, <1>2, <1>3 DEF RecordInv, MinInv, BeforeMin
<1>7. MaxInv'
  BY <1>1, <1>2, <1>3 DEF RecordInv, MaxInv
<1>8. CallsTake'
  BY <1>1, <1>2, <1>3 DEF RecordInv, CallsTake
<1>9. QED
  BY <1>4, <1>5, <1>6, <1>7, <1>8 DEF RecordInv

LEMMA ReadMaxKeeps ==
  ASSUME StatsTypes, RecordInv, interval = 0, NEW t \in Thread, ReadMax(t)
  PROVE  StatsTypes' /\ RecordInv' /\ interval' = 0
<1>1. PICK n \in Value : n = call[t].n
  BY DEF StatsTypes
<1>2. /\ call[t].pc = "readmax" /\ UNCHANGED <<stats, taken, calls, interval>>
      /\ call' = [call EXCEPT ![t].pc = "min", ![t].max = stats.max]
      /\ stats.max \in Nat
  BY DEF ReadMax, StatsTypes
<1>3. /\ call'[t].pc = "min" /\ call'[t].n = n /\ call'[t].max = stats.max
      /\ call'[t].min = call[t].min
      /\ \A u \in Thread : u # t => call'[u] = call[u]
      /\ call' \in [Thread -> [pc : BeforeMin \cup {"idle", "max"},
                               n : Value, min : Nat, max : Nat]]
  <2> DEFINE C == [pc : BeforeMin \cup {"idle", "max"}, n : Value, min : Nat, max : Nat]
  <2>1. PICK r : r = [call[t] EXCEPT !.pc = "min", !.max = stats.max]
    OBVIOUS
  <2>2. PICK c \in C : c = call[t]
    BY DEF StatsTypes
  <2>3. /\ r \in C /\ r.pc = "min" /\ r.n = c.n /\ r.max = stats.max
        /\ r.min = c.min
    BY <1>2, <2>1, <2>2 DEF BeforeMin
  <2>4. call \in [Thread -> C]
    BY DEF StatsTypes
  <2>5. call' = [call EXCEPT ![t] = r]
    BY <1>2, <2>1, <2>4
  <2>6. call' \in [Thread -> C]
    <3> HIDE DEF C
    <3>1. QED
      BY <2>3, <2>4, <2>5
  <2>7. call'[t] = r /\ \A u \in Thread : u # t => call'[u] = call[u]
    <3> HIDE DEF C
    <3>1. QED
      BY <2>4, <2>5
  <2>8. QED
    BY <1>1, <2>2, <2>3, <2>6, <2>7
<1>4. StatsTypes' /\ interval' = 0
  BY <1>2, <1>3 DEF StatsTypes
<1>5. DataInv'
  BY <1>2, <1>3, DataStays DEF Counted
<1>6. MinInv'
  BY <1>1, <1>2, <1>3 DEF RecordInv, MinInv, BeforeMin
<1>7. MaxInv'
  BY <1>1, <1>2, <1>3 DEF RecordInv, MaxInv
<1>8. CallsTake'
  BY <1>1, <1>2, <1>3 DEF RecordInv, CallsTake
<1>9. QED
  BY <1>4, <1>5, <1>6, <1>7, <1>8 DEF RecordInv

LEMMA SwapMinKeeps ==
  ASSUME StatsTypes, RecordInv, interval = 0, NEW t \in Thread, SwapMin(t)
  PROVE  StatsTypes' /\ RecordInv' /\ interval' = 0
<1>1. PICK n \in Value, l \in Nat, m \in Nat : n = call[t].n /\ l = call[t].min /\ m = stats.min
  BY DEF StatsTypes
<1>2. call[t].pc = "min" /\ UNCHANGED <<taken, calls, interval>>
  BY DEF SwapMin
<1>3. m <= l /\ taken[n] > 0 /\ n \in Nat
  BY <1>1, <1>2, ValueFinite DEF RecordInv, MinInv, CallsTake, Value
<1>4. CASE n < l
  <2>1. call' = [call EXCEPT ![t].min = m]
    BY <1>1, <1>4 DEF SwapMin
  <2>2. stats' = [stats EXCEPT !.min = IF m = l THEN n ELSE m]
    BY <1>1, <1>4 DEF SwapMin
  <2>3. PICK p \in Nat : p = IF m = l THEN n ELSE m
    BY <1>3
  <2>4. /\ stats' \in [data : [Value -> Nat], count : Nat, min : Nat, max : Nat]
        /\ stats'.data = stats.data /\ stats'.count = stats.count /\ stats'.max = stats.max
        /\ stats'.min = p
    BY <2>2, <2>3 DEF StatsTypes
  <2>5. p <= m /\ (p = m \/ p = n)
    BY <1>3, <1>4, <2>3
  <2>6. /\ call'[t].pc = "min" /\ call'[t].n = n /\ call'[t].min = m
        /\ call'[t].max = call[t].max
        /\ \A u \in Thread : u # t => call'[u] = call[u]
        /\ call' \in [Thread -> [pc : BeforeMin \cup {"idle", "max"},
                                 n : Value, min : Nat, max : Nat]]
    BY <1>1, <1>2, <2>1 DEF StatsTypes, BeforeMin
  <2>7. StatsTypes' /\ interval' = 0
    BY <1>2, <2>4, <2>6 DEF StatsTypes
  <2>8. DataInv'
    BY <1>2, <2>4, <2>6, DataStays DEF Counted
  <2>9. MinInv'
    <3>1. p = Unset \/ (p \in Value /\ taken[p] > 0)
      BY <1>1, <1>3, <2>5 DEF RecordInv, MinInv
    <3>2. \A u \in Thread : call'[u].pc \in {"readmax", "min"} => p <= call'[u].min
      <4>1. SUFFICES ASSUME NEW u \in Thread, call'[u].pc \in {"readmax", "min"}
                     PROVE  p <= call'[u].min
        OBVIOUS
      <4>2. CASE u = t
        BY <2>5, <2>6, <4>2
      <4>3. CASE u # t
        <5>1. m <= call[u].min /\ call[u].min \in Nat
          BY <1>1, <2>6, <4>1, <4>3 DEF RecordInv, MinInv, StatsTypes
        <5>2. QED
          BY <2>5, <2>6, <4>3, <5>1
      <4>4. QED
        BY <4>2, <4>3
    <3>3. ASSUME NEW i \in Value, taken[i] > 0
          PROVE  p <= i \/ \E u \in Thread : call'[u].pc \in BeforeMin /\ call'[u].n = i
      <4>1. i \in Nat
        BY ValueFinite DEF Value
      <4>2. CASE m <= i
        BY <2>5, <4>1, <4>2
      <4>3. CASE ~(m <= i)
        <5>1. PICK u \in Thread : call[u].pc \in BeforeMin /\ call[u].n = i
          BY <1>1, <3>3, <4>3 DEF RecordInv, MinInv
        <5>2. call'[u].pc \in BeforeMin /\ call'[u].n = i
          BY <1>1, <2>6, <5>1 DEF BeforeMin
        <5>3. QED
          BY <5>2
      <4>4. QED
        BY <4>2, <4>3
    <3>4. QED
      BY <1>2, <2>4, <3>1, <3>2, <3>3 DEF MinInv
  <2>10. MaxInv'
    BY <1>1, <1>2, <2>4, <2>6 DEF RecordInv, MaxInv
  <2>11. CallsTake'
    BY <1>1, <1>2, <2>6 DEF RecordInv, CallsTake
  <2>12. QED
    BY <2>7, <2>8, <2>9, <2>10, <2>11 DEF RecordInv
<1>5. CASE ~(n < l)
  <2>1. call' = [call EXCEPT ![t].pc = "max"] /\ stats' = stats
    BY <1>1, <1>5 DEF SwapMin
  <2>2. /\ call'[t].pc = "max" /\ call'[t].n = n /\ call'[t].max = call[t].max
        /\ \A u \in Thread : u # t => call'[u] = call[u]
        /\ call' \in [Thread -> [pc : BeforeMin \cup {"idle", "max"},
                                 n : Value, min : Nat, max : Nat]]
    BY <1>1, <2>1 DEF StatsTypes, BeforeMin
  <2>3. StatsTypes' /\ interval' = 0
    BY <1>2, <2>1, <2>2 DEF StatsTypes
  <2>4. DataInv'
    BY <1>2, <2>1, <2>2, DataStays DEF Counted
  <2>5. m <= n
    BY <1>3, <1>5
  <2>6. MinInv'
    <3>1. ASSUME NEW i \in Value, taken[i] > 0
          PROVE  m <= i \/ \E u \in Thread : call'[u].pc \in BeforeMin /\ call'[u].n = i
      <4>1. CASE m <= i
        BY <4>1
      <4>2. CASE ~(m <= i)
        <5>1. PICK u \in Thread : call[u].pc \in BeforeMin /\ call[u].n = i
          BY <1>1, <3>1, <4>2 DEF RecordInv, MinInv
        <5>2. u # t
          BY <1>1, <2>5, <4>2, <5>1
        <5>3. QED
          BY <2>2, <5>1, <5>2
      <4>3. QED
        BY <4>1, <4>2
    <3>2. \A u \in Thread : call'[u].pc \in {"readmax", "min"} => m <= call'[u].min
      BY <1>1, <2>2 DEF RecordInv, MinInv
    <3>3. QED
      BY <1>1, <1>2, <2>1, <3>1, <3>2 DEF RecordInv, MinInv
  <2>7. MaxInv'
    BY <1>1, <1>2, <2>1, <2>2 DEF RecordInv, MaxInv
  <2>8. CallsTake'
    BY <1>1, <1>2, <2>2 DEF RecordInv, CallsTake
  <2>9. QED
    BY <2>3, <2>4, <2>6, <2>7, <2>8 DEF RecordInv
<1>6. QED
  BY <1>4, <1>5

LEMMA SwapMaxKeeps ==
  ASSUME StatsTypes, RecordInv, interval = 0, NEW t \in Thread, SwapMax(t)
  PROVE  StatsTypes' /\ RecordInv' /\ interval' = 0
<1>1. PICK n \in Value, l \in Nat, m \in Nat : n = call[t].n /\ l = call[t].max /\ m = stats.max
  BY DEF StatsTypes
<1>2. call[t].pc = "max" /\ UNCHANGED <<taken, calls, interval>>
  BY DEF SwapMax
<1>3. l <= m /\ taken[n] > 0 /\ n \in Nat
  BY <1>1, <1>2, ValueFinite DEF RecordInv, MaxInv, CallsTake, Value
<1>4. CASE n > l
  <2>1. call' = [call EXCEPT ![t].max = m]
    BY <1>1, <1>4 DEF SwapMax
  <2>2. stats' = [stats EXCEPT !.max = IF m = l THEN n ELSE m]
    BY <1>1, <1>4 DEF SwapMax
  <2>3. PICK p \in Nat : p = IF m = l THEN n ELSE m
    BY <1>3
  <2>4. /\ stats' \in [data : [Value -> Nat], count : Nat, min : Nat, max : Nat]
        /\ stats'.data = stats.data /\ stats'.count = stats.count /\ stats'.min = stats.min
        /\ stats'.max = p
    BY <2>2, <2>3 DEF StatsTypes
  <2>5. m <= p /\ (p = m \/ p = n)
    BY <1>3, <1>4, <2>3
  <2>6. /\ call'[t].pc = "max" /\ call'[t].n = n /\ call'[t].max = m
        /\ \A u \in Thread : u # t => call'[u] = call[u]
        /\ call' \in [Thread -> [pc : BeforeMin \cup {"idle", "max"},
                                 n : Value, min : Nat, max : Nat]]
    BY <1>1, <1>2, <2>1 DEF StatsTypes, BeforeMin
  <2>7. StatsTypes' /\ interval' = 0
    BY <1>2, <2>4, <2>6 DEF StatsTypes
  <2>8. DataInv'
    BY <1>2, <2>4, <2>6, DataStays DEF Counted
  <2>9. MaxInv'
    <3>1. p = 0 \/ (p \in Value /\ taken[p] > 0)
      BY <1>1, <1>3, <2>5 DEF RecordInv, MaxInv
    <3>2. \A u \in Thread : call'[u].pc \in {"min", "max"} => call'[u].max <= p
      <4>1. SUFFICES ASSUME NEW u \in Thread, call'[u].pc \in {"min", "max"}
                     PROVE  call'[u].max <= p
        OBVIOUS
      <4>2. CASE u = t
        BY <2>5, <2>6, <4>2
      <4>3. CASE u # t
        <5>1. call[u].max <= m /\ call[u].max \in Nat
          BY <1>1, <2>6, <4>1, <4>3 DEF RecordInv, MaxInv, StatsTypes
        <5>2. QED
          BY <2>5, <2>6, <4>3, <5>1
      <4>4. QED
        BY <4>2, <4>3
    <3>3. ASSUME NEW i \in Value, taken[i] > 0
          PROVE  i <= p \/ \E u \in Thread : call'[u].pc # "idle" /\ call'[u].n = i
      <4>1. i \in Nat
        BY ValueFinite DEF Value
      <4>2. CASE i <= m
        BY <2>5, <4>1, <4>2
      <4>3. CASE ~(i <= m)
        <5>1. PICK u \in Thread : call[u].pc # "idle" /\ call[u].n = i
          BY <1>1, <3>3, <4>3 DEF RecordInv, MaxInv
        <5>2. call'[u].pc # "idle" /\ call'[u].n = i
          BY <1>1, <2>6, <5>1
        <5>3. QED
          BY <5>2
      <4>4. QED
        BY <4>2, <4>3
    <3>4. QED
      BY <1>2, <2>4, <3>1, <3>2, <3>3 DEF MaxInv
  <2>10. MinInv'
    BY <1>1, <1>2, <2>4, <2>6 DEF RecordInv, MinInv, BeforeMin
  <2>11. CallsTake'
    BY <1>1, <1>2, <2>6 DEF RecordInv, CallsTake
  <2>12. QED
    BY <2>7, <2>8, <2>9, <2>10, <2>11 DEF RecordInv
<1>5. CASE ~(n > l)
  <2>1. call' = [call EXCEPT ![t] = NoCall] /\ stats' = stats
    BY <1>1, <1>5 DEF SwapMax
  <2>2. /\ call'[t].pc = "idle"
        /\ \A u \in Thread : u # t => call'[u] = call[u]
        /\ call' \in [Thread -> [pc : BeforeMin \cup {"idle", "max"},
                                 n : Value, min : Nat, max : Nat]]
    <3>1. NoCall \in [pc : BeforeMin \cup {"idle", "max"}, n : Value, min : Nat, max : Nat]
      BY ValueFinite DEF NoCall
    <3>2. QED
      BY <2>1, <3>1 DEF StatsTypes, NoCall
  <2>3. StatsTypes' /\ interval' = 0
    BY <1>2, <2>1, <2>2 DEF StatsTypes
  <2>4. DataInv'
    BY <1>2, <2>1, <2>2, DataStays DEF Counted
  <2>5. n <= m
    BY <1>3, <1>5
  <2>6. MaxInv'
    <3>1. ASSUME NEW i \in Value, taken[i] > 0
          PROVE  i <= m \/ \E u \in Thread : call'[u].pc # "idle" /\ call'[u].n = i
      <4>1. CASE i <= m
        BY <4>1
      <4>2. CASE ~(i <= m)
        <5>1. PICK u \in Thread : call[u].pc # "idle" /\ call[u].n = i
          BY <1>1, <3>1, <4>2 DEF RecordInv, MaxInv
        <5>2. u # t
          BY <1>1, <2>5, <4>2, <5>1
        <5>3. QED
          BY <2>2, <5>1, <5>2
      <4>3. QED
        BY <4>1, <4>2
    <3>2. \A u \in Thread : call'[u].pc \in {"min", "max"} => call'[u].max <= m
      BY <1>1, <2>2 DEF RecordInv, MaxInv
    <3>3. QED
      BY <1>1, <1>2, <2>1, <3>1, <3>2 DEF RecordInv, MaxInv
  <2>7. MinInv'
    BY <1>1, <1>2, <2>1, <2>2 DEF RecordInv, MinInv, BeforeMin
  <2>8. CallsTake'
    BY <1>1, <1>2, <2>2 DEF RecordInv, CallsTake
  <2>9. QED
    BY <2>3, <2>4, <2>6, <2>7, <2>8 DEF RecordInv
<1>6. QED
  BY <1>4, <1>5

LEMMA RecordKeeps ==
  ASSUME StatsTypes, RecordInv, interval = 0, [Next]_vars
  PROVE  \/ StatsTypes' /\ RecordInv' /\ interval' = 0
         \/ Correct
<1>1. CASE UNCHANGED vars
  BY <1>1 DEF vars, StatsTypes, RecordInv, DataInv, MinInv, MaxInv, CallsTake, Adding, Counting
<1>2. ASSUME NEW t \in Thread,
             \/ Begin(t) \/ AddData(t) \/ AddCount(t) \/ ReadMin(t) \/ ReadMax(t)
             \/ SwapMin(t) \/ SwapMax(t)
      PROVE  StatsTypes' /\ RecordInv' /\ interval' = 0
  BY <1>2, BeginKeeps, AddDataKeeps, AddCountKeeps, ReadMinKeeps, ReadMaxKeeps,
     SwapMinKeeps, SwapMaxKeeps
<1>3. QED
  BY <1>1, <1>2 DEF Next

(* Nothing is recorded after the correction.                                *)
LEMMA RecordedStays ==
  ASSUME Recorded, interval # 0, [Next]_vars
  PROVE  UNCHANGED vars
  BY DEF Recorded, Next, Begin, AddData, AddCount, ReadMin, ReadMax, SwapMin, SwapMax,
         Goes, Correct, vars

LEMMA TotalIs ==
  ASSUME NEW s, NEW S
  PROVE  Total(s, S) = Sum(s.data, S)
  BY DEF Total, Sum

LEMMA MinOf ==
  ASSUME NEW S, NEW m \in S, S \subseteq Nat, \A k \in S : m <= k
  PROVE  Min(S) = m
<1>1. Min(S) \in S /\ \A k \in S : Min(S) <= k
  BY DEF Min
<1>2. PICK x \in Nat : x = Min(S) /\ x <= m /\ m <= x /\ m \in Nat
  BY <1>1
<1>3. QED
  BY <1>2

LEMMA MaxOf ==
  ASSUME NEW S, NEW m \in S, S \subseteq Nat, \A k \in S : k <= m
  PROVE  Max(S) = m
<1>1. Max(S) \in S /\ \A k \in S : k <= Max(S)
  BY DEF Max
<1>2. PICK x \in Nat : x = Max(S) /\ x <= m /\ m <= x /\ m \in Nat
  BY <1>1
<1>3. QED
  BY <1>2

(* The table, when every call has returned.                                 *)
LEMMA RecordedIsExact ==
  ASSUME StatsTypes, RecordInv, interval = 0, Recorded
  PROVE  /\ stats.data = taken
         /\ stats.count = Sum(stats.data, Value)
         /\ \A n \in Value : taken[n] > 0 => stats.min <= n /\ n <= stats.max
         /\ stats.min = Unset \/ (stats.min \in Value /\ taken[stats.min] > 0)
         /\ stats.max = 0 \/ (stats.max \in Value /\ taken[stats.max] > 0)
<1>1. \A t \in Thread : call[t].pc = "idle"
  BY DEF Recorded
<1>2. Counting = {} /\ \A n \in Value : Adding(n) = {}
  BY <1>1 DEF Counting, Adding
<1>3. Cardinality({}) = 0
  BY FS_EmptySet
<1>4. ASSUME NEW n \in Value PROVE taken[n] = stats.data[n]
  <2>1. taken[n] = stats.data[n] + 0 /\ stats.data[n] \in Nat
    BY <1>2, <1>3 DEF RecordInv, DataInv, StatsTypes
  <2>2. QED
    BY <2>1
<1>5. stats.data = taken
  BY <1>4 DEF StatsTypes
<1>6. stats.count = Sum(stats.data, Value)
  <2>1. Sum(stats.data, Value) = stats.count + 0 /\ stats.count \in Nat
    BY <1>2, <1>3 DEF RecordInv, DataInv, StatsTypes
  <2>2. QED
    BY <2>1
<1>7. "idle" \notin BeforeMin
  BY DEF BeforeMin
<1>8. QED
  BY <1>1, <1>5, <1>6, <1>7 DEF RecordInv, MinInv, MaxInv

LEMMA ExactTable ==
  ASSUME StatsTypes, RecordInv
  PROVE  TableIsExact
<1>1. SUFFICES ASSUME Recorded, interval = 0
               PROVE  /\ stats.data = taken
                      /\ stats.count = Total(stats, Value)
                      /\ LET seen == {n \in Value : taken[n] > 0}
                         IN  seen # {} => stats.min = Min(seen) /\ stats.max = Max(seen)
  BY DEF TableIsExact
<1>2. PICK seen \in SUBSET Nat : seen = {n \in Value : taken[n] > 0}
  <2>1. {n \in Value : taken[n] > 0} \in SUBSET Nat
    BY ValueFinite DEF Value
  <2>2. QED
    BY <2>1
<1>3. ASSUME seen # {} PROVE stats.min = Min(seen) /\ stats.max = Max(seen)
  <2>1. PICK n \in seen : n \in Value /\ taken[n] > 0
    BY <1>2, <1>3
  <2>2. stats.min <= n /\ n <= stats.max /\ n <= MaxValue /\ n \in Nat /\ stats.max \in Nat
    BY <1>1, <2>1, RecordedIsExact, ValueFinite DEF StatsTypes, Value
  <2>3. stats.min \in seen
    BY <1>1, <1>2, <2>2, RecordedIsExact, ValueFinite DEF Unset
  <2>4. stats.max \in seen
    <3>1. CASE stats.max = 0
      BY <2>1, <2>2, <3>1
    <3>2. CASE stats.max # 0
      BY <1>1, <1>2, <3>2, RecordedIsExact
    <3>3. QED
      BY <3>1, <3>2
  <2>5. \A k \in seen : stats.min <= k /\ k <= stats.max
    BY <1>1, <1>2, RecordedIsExact
  <2>6. QED
    BY <1>2, <2>3, <2>4, <2>5, MinOf, MaxOf
<1>4. QED
  BY <1>1, <1>2, <1>3, RecordedIsExact, TotalIs

-------------------------------------------------------------------------------
(* stats_correct, value by value.                                           *)
CorrectOne(t, n, e) ==
  LET P == Phantoms(n, e)
  IN  [t EXCEPT !.data = [m \in Value |-> @[m] + (IF m \in P THEN t.data[n] ELSE 0)],
                !.count = @ + t.data[n] * Cardinality(P)]

Corrects(s, e, seq, g) ==
  g = [D \in SUBSET DOMAIN seq |->
         IF D = {} THEN s
         ELSE LET x == Max(D) IN CorrectOne(g[D \ {x}], seq[x], e)]

LEMMA CorrectIs ==
  ASSUME NEW s, NEW e, NEW seq, seq = Between(e * 2, s.max)
  PROVE  stats_correct(s, e) = (CHOOSE g : Corrects(s, e, seq, g))[DOMAIN seq]
  BY DEF stats_correct, FoldLeft, MapThenFoldSet, Corrects, CorrectOne

LEMMA HasMax ==
  ASSUME NEW S, IsFiniteSet(S), S \subseteq Int, S # {}
  PROVE  \E m \in S : \A k \in S : k <= m
<1> DEFINE U == {T \in SUBSET S : T = {} \/ \E m \in T : \A k \in T : k <= m}
<1>1. {} \in U
  OBVIOUS
<1>2. ASSUME NEW T \in U, NEW x \in S \ T PROVE T \cup {x} \in U
  <2>1. CASE T = {}
    <3>1. T \cup {x} = {x} /\ x <= x
      BY <2>1
    <3>2. QED
      BY <3>1
  <2>2. CASE T # {}
    <3>1. PICK m \in T : \A k \in T : k <= m
      BY <2>2
    <3>2. PICK p \in T \cup {x} : p = IF x <= m THEN m ELSE x
      BY <3>1
    <3>3. \A k \in T \cup {x} : k <= p
      BY <3>1, <3>2
    <3>4. QED
      BY <3>3
  <2>3. QED
    BY <2>1, <2>2
<1>3. U \in SUBSET SUBSET S
  OBVIOUS
<1>4. U = SUBSET S
  <2> HIDE DEF U
  <2>1. QED
    BY <1>1, <1>2, <1>3, BuildUp
<1>5. S \in U
  BY <1>4
<1>6. QED
  BY <1>5

LEMMA MaxIn ==
  ASSUME NEW S, IsFiniteSet(S), S \subseteq Int, S # {}
  PROVE  Max(S) \in S /\ \A k \in S : k <= Max(S)
<1>1. \E m \in S : \A k \in S : k <= m
  BY HasMax
<1>2. QED
  BY <1>1 DEF Max

(* The recursion, for a set that is not empty.                              *)
LastOf(g, D, seq, e) == CorrectOne(g[D \ {Max(D)}], seq[Max(D)], e)

LEMMA CorrectsNone ==
  ASSUME NEW s, NEW e, NEW seq, NEW g, Corrects(s, e, seq, g)
  PROVE  g[{}] = s
<1>1. {} \in SUBSET DOMAIN seq
  OBVIOUS
<1>2. QED
  BY <1>1 DEF Corrects

LEMMA CorrectsMore ==
  ASSUME NEW s, NEW e, NEW seq, NEW g, Corrects(s, e, seq, g),
         NEW D \in SUBSET DOMAIN seq, D # {}
  PROVE  g[D] = LastOf(g, D, seq, e)
  BY DEF Corrects, LastOf

LEMMA CorrectsAgree ==
  ASSUME NEW s, NEW e, NEW seq, IsFiniteSet(DOMAIN seq), DOMAIN seq \subseteq Int,
         NEW g, NEW h, Corrects(s, e, seq, g), Corrects(s, e, seq, h)
  PROVE  \A D \in SUBSET DOMAIN seq : g[D] = h[D]
<1> DEFINE U == {D \in SUBSET DOMAIN seq : g[D] = h[D]}
<1>1. ASSUME NEW D \in SUBSET DOMAIN seq, \A V \in SUBSET D : V # D => V \in U
      PROVE  D \in U
  <2>1. CASE D = {}
    BY <2>1, CorrectsNone
  <2>2. CASE D # {}
    <3>1. IsFiniteSet(D) /\ D \subseteq Int
      BY FS_Subset
    <3>2. Max(D) \in D
      BY <2>2, <3>1, MaxIn
    <3>3. D \ {Max(D)} \in U
      BY <1>1, <3>2
    <3>4. g[D] = LastOf(g, D, seq, e)
      BY <2>2, CorrectsMore
    <3>5. h[D] = LastOf(h, D, seq, e)
      BY <2>2, CorrectsMore
    <3>6. QED
      BY <3>3, <3>4, <3>5 DEF LastOf
  <2>3. QED
    BY <2>1, <2>2
<1>2. U \in SUBSET SUBSET DOMAIN seq
  OBVIOUS
<1>3. U = SUBSET DOMAIN seq
  <2> HIDE DEF U
  <2>1. QED
    BY <1>1, <1>2, FromSubsets
<1>4. QED
  BY <1>3

(* What the values of A add when they are corrected, in ascending order: no *)
(* value that is still to come has been added to.                           *)
Phantom(s, e) == [n \in Value |-> s.data[n] * Cardinality(Phantoms(n, e))]

Corrected(s, e, A) ==
  [data  |-> [m \in Value |-> s.data[m] + Sum(s.data, {n \in A : m \in Phantoms(n, e)})],
   count |-> s.count + Sum(Phantom(s, e), A),
   min   |-> s.min,
   max   |-> s.max]

Table == [data : [Value -> Nat], count : Nat, min : Nat, max : Nat]

LEMMA SumIsNat ==
  ASSUME NEW f, NEW S, IsFiniteSet(S), \A i \in S : f[i] \in Nat
  PROVE  \A T \in SUBSET S : Sum(f, T) \in Nat
<1> DEFINE U == {T \in SUBSET S : Sum(f, T) \in Nat}
<1>1. {} \in U
  BY SumNone
<1>2. ASSUME NEW T \in U, NEW x \in S \ T PROVE T \cup {x} \in U
  <2>1. \A i \in S : f[i] \in Int
    OBVIOUS
  <2>2. Sum(f, T \cup {x}) = f[x] + Sum(f, T)
    BY <2>1, SumAdd
  <2>3. QED
    BY <2>2
<1>3. U \in SUBSET SUBSET S
  OBVIOUS
<1>4. U = SUBSET S
  <2> HIDE DEF U
  <2>1. QED
    BY <1>1, <1>2, <1>3, BuildUp
<1>5. QED
  BY <1>4

LEMMA PhantomsFinite ==
  ASSUME NEW n, NEW e
  PROVE  /\ Phantoms(n, e) \subseteq Value
         /\ IsFiniteSet(Phantoms(n, e)) /\ Cardinality(Phantoms(n, e)) \in Nat
<1>1. Phantoms(n, e) \subseteq Value
  BY DEF Phantoms
<1>2. QED
  BY <1>1, ValueFinite, FS_Subset, FS_CardinalityType

LEMMA PhantomIs ==
  ASSUME NEW s \in Table, NEW e
  PROVE  \A n \in Value : /\ Phantom(s, e)[n] = s.data[n] * Cardinality(Phantoms(n, e))
                          /\ Phantom(s, e)[n] \in Nat
  BY PhantomsFinite DEF Phantom, Table

LEMMA CorrectedMore ==
  ASSUME NEW s \in Table, NEW e, NEW A \in SUBSET Value, NEW n \in Value \ A
  PROVE  /\ \A m \in Value :
              Corrected(s, e, A \cup {n}).data[m] = Corrected(s, e, A).data[m]
                + (IF m \in Phantoms(n, e) THEN s.data[n] ELSE 0)
         /\ Corrected(s, e, A \cup {n}).count
              = Corrected(s, e, A).count + s.data[n] * Cardinality(Phantoms(n, e))
<1>1. PICK d \in [Value -> Nat] : d = s.data
  BY DEF Table
<1>2. n \notin A /\ IsFiniteSet(Value) /\ n \in Value
  BY ValueFinite
<1>0. \A i \in Value : d[i] \in Int
  OBVIOUS
<1>5. ASSUME NEW m \in Value
      PROVE  Sum(d, {i \in A \cup {n} : m \in Phantoms(i, e)})
               = Sum(d, {i \in A : m \in Phantoms(i, e)})
                   + (IF m \in Phantoms(n, e) THEN d[n] ELSE 0)
  <2>1. PICK T \in SUBSET Value : T = {i \in A : m \in Phantoms(i, e)}
    OBVIOUS
  <2>2. Sum(d, T) \in Int
    BY <1>0, <1>2, SumIsInt
  <2>3. CASE m \in Phantoms(n, e)
    <3>1. {i \in A \cup {n} : m \in Phantoms(i, e)} = T \cup {n} /\ n \in Value \ T
      BY <1>2, <2>1, <2>3
    <3>2. Sum(d, T \cup {n}) = d[n] + Sum(d, T)
      BY <1>0, <1>2, <3>1, SumAdd
    <3>3. PICK a \in Int, b \in Int : a = Sum(d, T) /\ b = d[n]
      BY <2>2
    <3>4. Sum(d, T \cup {n}) = a + b
      BY <3>2, <3>3
    <3>5. QED
      BY <2>1, <2>3, <3>1, <3>3, <3>4
  <2>4. CASE m \notin Phantoms(n, e)
    <3>1. {i \in A \cup {n} : m \in Phantoms(i, e)} = T
      BY <1>2, <2>1, <2>4
    <3>2. PICK a \in Int : a = Sum(d, T)
      BY <2>2
    <3>3. a = a + 0
      OBVIOUS
    <3>4. QED
      BY <2>1, <2>4, <3>1, <3>2, <3>3
  <2>5. QED
    BY <2>3, <2>4
<1>6. Sum(Phantom(s, e), A \cup {n}) = d[n] * Cardinality(Phantoms(n, e)) + Sum(Phantom(s, e), A)
  <2>1. \A i \in Value : Phantom(s, e)[i] \in Int
    BY PhantomIs
  <2>2. Sum(Phantom(s, e), A \cup {n}) = Phantom(s, e)[n] + Sum(Phantom(s, e), A)
    BY <1>2, <2>1, SumAdd
  <2>3. QED
    BY <1>1, <2>2, PhantomIs
<1>8. ASSUME NEW m \in Value
      PROVE  Corrected(s, e, A).data[m] + (IF m \in Phantoms(n, e) THEN d[n] ELSE 0)
               = Corrected(s, e, A \cup {n}).data[m]
  <2>1. PICK a \in Int : a = Sum(d, {i \in A : m \in Phantoms(i, e)})
    <3>1. {i \in A : m \in Phantoms(i, e)} \in SUBSET Value
      OBVIOUS
    <3>2. QED
      BY <1>0, <1>2, <3>1, SumIsInt
  <2>2. PICK b \in Int : b = IF m \in Phantoms(n, e) THEN d[n] ELSE 0
    OBVIOUS
  <2>3. Corrected(s, e, A).data[m] = d[m] + a
    BY <1>1, <2>1 DEF Corrected
  <2>4. Corrected(s, e, A \cup {n}).data[m] = d[m] + (a + b)
    BY <1>1, <1>5, <2>1, <2>2 DEF Corrected
  <2>5. QED
    BY <2>2, <2>3, <2>4
<1>9. Corrected(s, e, A).count + d[n] * Cardinality(Phantoms(n, e))
        = Corrected(s, e, A \cup {n}).count
  <2>1. PICK a \in Int, b \in Int, c \in Nat :
          /\ a = Sum(Phantom(s, e), A)
          /\ b = d[n] * Cardinality(Phantoms(n, e))
          /\ c = s.count
    <3>1. \A i \in Value : Phantom(s, e)[i] \in Int
      BY PhantomIs
    <3>2. Sum(Phantom(s, e), A) \in Int
      BY <1>2, <3>1, SumIsInt
    <3>3. d[n] * Cardinality(Phantoms(n, e)) \in Int
      BY PhantomsFinite
    <3>4. QED
      BY <3>2, <3>3 DEF Table
  <2>2. Corrected(s, e, A).count = c + a /\ Corrected(s, e, A \cup {n}).count = c + (b + a)
    BY <1>6, <2>1 DEF Corrected
  <2>3. QED
    BY <2>1, <2>2
<1>10. QED
  BY <1>1, <1>8, <1>9

LEMMA CorrectOneMore ==
  ASSUME NEW s \in Table, NEW e \in Nat, NEW A \in SUBSET Value, NEW n \in Value,
         \A i \in A : i < n
  PROVE  CorrectOne(Corrected(s, e, A), n, e) = Corrected(s, e, A \cup {n})
<1>1. PICK d \in [Value -> Nat] : d = s.data
  BY DEF Table
<1>2. Value \subseteq Nat /\ n \notin A /\ IsFiniteSet(Value)
  BY ValueFinite DEF Value
<1>0. \A i \in Value : d[i] \in Int
  OBVIOUS
<1>3. {i \in A : n \in Phantoms(i, e)} = {}
  <2>1. ASSUME NEW i \in A PROVE n \notin Phantoms(i, e)
    <3>1. i \in Nat /\ n \in Nat /\ i < n
      BY <1>2
    <3>2. QED
      BY <3>1 DEF Phantoms
  <2>2. QED
    BY <2>1
<1>4. Corrected(s, e, A).data[n] = d[n]
  <2>1. Corrected(s, e, A).data[n] = d[n] + Sum(d, {i \in A : n \in Phantoms(i, e)})
    BY <1>1 DEF Corrected
  <2>2. Sum(d, {i \in A : n \in Phantoms(i, e)}) = 0
    BY <1>3, SumNone
  <2>3. QED
    BY <2>1, <2>2
<1>7. CorrectOne(Corrected(s, e, A), n, e) =
        [data  |-> [m \in Value |-> Corrected(s, e, A).data[m]
                                      + (IF m \in Phantoms(n, e) THEN d[n] ELSE 0)],
         count |-> Corrected(s, e, A).count + d[n] * Cardinality(Phantoms(n, e)),
         min   |-> s.min, max |-> s.max]
  <2>1. PICK t : t = Corrected(s, e, A)
    OBVIOUS
  <2>2. /\ t.min = s.min /\ t.max = s.max
        /\ t \in [data : {t.data}, count : {t.count}, min : {s.min}, max : {s.max}]
    BY <2>1 DEF Corrected
  <2>3. t.data[n] = d[n]
    BY <1>4, <2>1
  <2>4. PICK N, C :
          /\ N = [m \in Value |-> t.data[m] + (IF m \in Phantoms(n, e) THEN d[n] ELSE 0)]
          /\ C = t.count + d[n] * Cardinality(Phantoms(n, e))
    OBVIOUS
  <2>5. CorrectOne(t, n, e) = [t EXCEPT !.data = N, !.count = C]
    BY <2>3, <2>4 DEF CorrectOne
  <2>6. [t EXCEPT !.data = N, !.count = C]
          = [data |-> N, count |-> C, min |-> s.min, max |-> s.max]
    <3>1. PICK r : r = [t EXCEPT !.data = N, !.count = C]
      OBVIOUS
    <3>2. r \in [data : {N}, count : {C}, min : {s.min}, max : {s.max}]
      BY <2>2, <3>1
    <3>3. QED
      BY <3>1, <3>2
  <2>7. QED
    BY <2>1, <2>4, <2>5, <2>6
<1>8. n \in Value \ A
  BY <1>2
<1>9. /\ \A m \in Value :
           Corrected(s, e, A \cup {n}).data[m] = Corrected(s, e, A).data[m]
             + (IF m \in Phantoms(n, e) THEN d[n] ELSE 0)
      /\ Corrected(s, e, A \cup {n}).count
           = Corrected(s, e, A).count + d[n] * Cardinality(Phantoms(n, e))
  BY <1>1, <1>8, CorrectedMore
<1>10. PICK t : t = Corrected(s, e, A \cup {n})
  OBVIOUS
<1>11. t.data = [m \in Value |-> t.data[m]]
       /\ t = [data |-> t.data, count |-> t.count, min |-> s.min, max |-> s.max]
  BY <1>10 DEF Corrected
<1>12. t.data = [m \in Value |-> Corrected(s, e, A).data[m]
                                  + (IF m \in Phantoms(n, e) THEN d[n] ELSE 0)]
  BY <1>9, <1>10, <1>11
<1>13. t.count = Corrected(s, e, A).count + d[n] * Cardinality(Phantoms(n, e))
  BY <1>9, <1>10
<1>14. QED
  BY <1>7, <1>10, <1>11, <1>12, <1>13

LEMMA NoneCorrected ==
  ASSUME NEW s \in Table, NEW e
  PROVE  Corrected(s, e, {}) = s
<1>1. ASSUME NEW m \in Value
      PROVE  s.data[m] + Sum(s.data, {n \in {} : m \in Phantoms(n, e)}) = s.data[m]
  <2>1. {n \in {} : m \in Phantoms(n, e)} = {} /\ s.data[m] \in Nat
    BY DEF Table
  <2>2. Sum(s.data, {n \in {} : m \in Phantoms(n, e)}) = 0
    BY <2>1, SumNone
  <2>3. QED
    BY <2>1, <2>2
<1>2. PICK d : d = [m \in Value |-> s.data[m] + Sum(s.data, {n \in {} : m \in Phantoms(n, e)})]
  OBVIOUS
<1>3. d = s.data
  BY <1>1, <1>2 DEF Table
<1>4. s.count + Sum(Phantom(s, e), {}) = s.count
  BY SumNone DEF Table
<1>5. Corrected(s, e, {}) = [data |-> s.data, count |-> s.count, min |-> s.min, max |-> s.max]
  BY <1>2, <1>3, <1>4 DEF Corrected
<1>6. QED
  BY <1>5 DEF Table

LEMMA CorrectedAll ==
  ASSUME NEW s \in Table, NEW e \in Nat \ {0}, s.max \in Value
  PROVE  stats_correct(s, e) = Corrected(s, e, (e * 2) .. s.max)
<1>1. PICK hi \in Nat : hi = s.max
  BY DEF Table
<1>2. PICK K \in Nat : K = IF hi < e * 2 THEN 0 ELSE hi - e * 2 + 1
  <2>1. CASE hi < e * 2
    BY <2>1
  <2>2. CASE ~(hi < e * 2)
    <3>1. hi - e * 2 + 1 \in Nat
      BY <2>2
    <3>2. QED
      BY <2>2, <3>1
  <2>3. QED
    BY <2>1, <2>2
<1>3. PICK seq : seq = Between(e * 2, s.max)
  OBVIOUS
<1>4. /\ DOMAIN seq = 1 .. K
      /\ \A i \in 1 .. K : seq[i] = e * 2 + i - 1
  BY <1>1, <1>2, <1>3 DEF Between
<1>5. IsFiniteSet(DOMAIN seq) /\ DOMAIN seq \subseteq Int
  BY <1>4, FS_Interval
<1> DEFINE At(D) == {seq[i] : i \in D}
           h == [D \in SUBSET DOMAIN seq |-> Corrected(s, e, At(D))]
<1>6. \A i \in DOMAIN seq : seq[i] \in Value
  BY <1>1, <1>2, <1>4, ValueFinite DEF Value
<1>7. ASSUME NEW D \in SUBSET DOMAIN seq, D # {}
      PROVE  h[D] = LastOf(h, D, seq, e)
  <2>1. IsFiniteSet(D) /\ D \subseteq Int
    BY <1>5, FS_Subset
  <2>2. PICK x \in D : x = Max(D) /\ \A k \in D : k <= x
    BY <1>7, <2>1, MaxIn
  <2>3. At(D \ {x}) \in SUBSET Value /\ seq[x] \in Value
    BY <1>6, <2>2
  <2>4. At(D) = At(D \ {x}) \cup {seq[x]}
    BY <2>2
  <2>5. ASSUME NEW i \in At(D \ {x}) PROVE i < seq[x]
    <3>1. PICK k \in D \ {x} : i = seq[k]
      BY <2>5
    <3>2. k \in 1 .. K /\ x \in 1 .. K /\ k < x
      BY <1>4, <2>2, <3>1
    <3>3. QED
      BY <1>4, <3>1, <3>2
  <2>6. CorrectOne(Corrected(s, e, At(D \ {x})), seq[x], e)
          = Corrected(s, e, At(D \ {x}) \cup {seq[x]})
    <3> HIDE DEF At
    <3>1. QED
      BY <2>3, <2>5, CorrectOneMore
  <2>7. h[D \ {x}] = Corrected(s, e, At(D \ {x})) /\ h[D] = Corrected(s, e, At(D))
    <3>1. D \ {x} \in SUBSET DOMAIN seq
      OBVIOUS
    <3>2. QED
      BY <3>1
  <2>8. QED
    <3> HIDE DEF h, At
    <3>1. QED
      BY <2>2, <2>4, <2>6, <2>7 DEF LastOf
<1>8. h[{}] = s
  <2>1. At({}) = {}
    OBVIOUS
  <2>2. QED
    BY <2>1, NoneCorrected
<1>9. Corrects(s, e, seq, h)
  <2>1. h = [D \in SUBSET DOMAIN seq |-> h[D]]
    OBVIOUS
  <2> HIDE DEF h
  <2>2. \A D \in SUBSET DOMAIN seq :
          h[D] = IF D = {} THEN s ELSE LET x == Max(D) IN CorrectOne(h[D \ {x}], seq[x], e)
    BY <1>7, <1>8 DEF LastOf
  <2>3. QED
    BY <2>1, <2>2 DEF Corrects
<1>10. PICK g : Corrects(s, e, seq, g) /\ stats_correct(s, e) = g[DOMAIN seq]
  <2> HIDE DEF h
  <2>1. QED
    BY <1>3, <1>9, CorrectIs
<1>11. g[DOMAIN seq] = h[DOMAIN seq]
  <2> HIDE DEF h
  <2>1. DOMAIN seq \in SUBSET DOMAIN seq
    OBVIOUS
  <2>2. \A D \in SUBSET DOMAIN seq : g[D] = h[D]
    BY <1>5, <1>9, <1>10, CorrectsAgree
  <2>3. QED
    BY <2>1, <2>2
<1>12. At(DOMAIN seq) = (e * 2) .. s.max
  <2>1. ASSUME NEW n \in (e * 2) .. hi PROVE n \in At(DOMAIN seq)
    <3>1. n - e * 2 + 1 \in 1 .. K
      BY <1>2
    <3>2. seq[n - e * 2 + 1] = n
      BY <1>4, <3>1
    <3>3. QED
      BY <1>4, <3>1, <3>2
  <2>2. ASSUME NEW n \in At(DOMAIN seq) PROVE n \in (e * 2) .. hi
    BY <1>2, <1>4
  <2>3. QED
    BY <1>1, <2>1, <2>2
<1>13. QED
  BY <1>10, <1>11, <1>12

LEMMA SumSpread ==
  ASSUME NEW S, IsFiniteSet(S), NEW f, NEW h, NEW P \in SUBSET S, NEW k \in Nat,
         \A i \in S : f[i] \in Nat /\ h[i] = f[i] + (IF i \in P THEN k ELSE 0)
  PROVE  Sum(h, S) = Sum(f, S) + k * Cardinality(P)
<1> DEFINE U == {T \in SUBSET S : Sum(h, T) = Sum(f, T) + k * Cardinality(P \cap T)}
<1>1. {} \in U
  <2>1. P \cap {} = {} /\ Cardinality({}) = 0
    BY FS_EmptySet
  <2>2. Sum(h, {}) = 0 /\ Sum(f, {}) = 0
    BY SumNone
  <2>3. k * Cardinality(P \cap {}) = 0
    BY <2>1
  <2>4. Sum(h, {}) = Sum(f, {}) + k * Cardinality(P \cap {})
    BY <2>2, <2>3
  <2>5. QED
    BY <2>4
<1>2. \A i \in S : f[i] \in Int /\ h[i] \in Int
  OBVIOUS
<1>3. ASSUME NEW T \in U, NEW x \in S \ T PROVE T \cup {x} \in U
  <2>1. Sum(f, T \cup {x}) = f[x] + Sum(f, T)
    BY <1>2, SumAdd
  <2>2. Sum(h, T \cup {x}) = h[x] + Sum(h, T)
    BY <1>2, SumAdd
  <2>3. IsFiniteSet(P \cap T)
    BY FS_Subset
  <2>4. PICK c \in Nat : c = Cardinality(P \cap T)
    BY <2>3, FS_CardinalityType
  <2>5. PICK a \in Int, b \in Int, v \in Nat : a = Sum(f, T) /\ b = Sum(h, T) /\ v = f[x]
    BY <1>2, SumIsInt
  <2>6. b = a + k * c
    BY <2>4, <2>5
  <2>7. CASE x \in P
    <3>1. P \cap (T \cup {x}) = (P \cap T) \cup {x} /\ x \notin P \cap T
      BY <2>7
    <3>2. Cardinality(P \cap (T \cup {x})) = c + 1
      BY <2>3, <2>4, <3>1, FS_AddElement
    <3>3. h[x] = v + k
      BY <2>5, <2>7
    <3>4. k * (c + 1) = k * c + k
      OBVIOUS
    <3>5. k * c \in Nat
      OBVIOUS
    <3>6. (v + k) + (a + k * c) = (v + a) + (k * c + k)
      BY <3>5
    <3>7. QED
      BY <2>1, <2>2, <2>5, <2>6, <3>2, <3>3, <3>4, <3>6
  <2>8. CASE x \notin P
    <3>1. P \cap (T \cup {x}) = P \cap T
      BY <2>8
    <3>2. h[x] = v
      BY <2>5, <2>8
    <3>3. k * c \in Nat
      OBVIOUS
    <3>4. v + (a + k * c) = (v + a) + k * c
      BY <3>3
    <3>5. QED
      BY <2>1, <2>2, <2>4, <2>5, <2>6, <3>1, <3>2, <3>4
  <2>9. QED
    BY <2>7, <2>8
<1>4. U \in SUBSET SUBSET S
  OBVIOUS
<1>5. U = SUBSET S
  <2> HIDE DEF U
  <2>1. QED
    BY <1>1, <1>3, <1>4, BuildUp
<1>6. S \in U /\ P \cap S = P
  BY <1>5
<1>7. QED
  BY <1>6

LEMMA CorrectedIsTable ==
  ASSUME NEW s \in Table, NEW e, NEW A \in SUBSET Value
  PROVE  Corrected(s, e, A) \in Table
<1>1. \A n \in Value : s.data[n] \in Nat /\ Phantom(s, e)[n] \in Nat
  BY PhantomIs DEF Table
<1>2. Sum(Phantom(s, e), A) \in Nat
  BY <1>1, ValueFinite, SumIsNat
<1>3. ASSUME NEW m \in Value
      PROVE  s.data[m] + Sum(s.data, {n \in A : m \in Phantoms(n, e)}) \in Nat
  <2>1. {n \in A : m \in Phantoms(n, e)} \in SUBSET Value
    OBVIOUS
  <2>2. Sum(s.data, {n \in A : m \in Phantoms(n, e)}) \in Nat
    BY <1>1, <2>1, ValueFinite, SumIsNat
  <2>3. QED
    BY <1>1, <2>2
<1>4. QED
  BY <1>2, <1>3 DEF Corrected, Table

(* The count keeps up with the data.                                        *)
LEMMA CorrectedCounts ==
  ASSUME NEW s \in Table, s.count = Sum(s.data, Value), NEW e
  PROVE  \A A \in SUBSET Value :
           Corrected(s, e, A).count = Sum(Corrected(s, e, A).data, Value)
<1> DEFINE U == {A \in SUBSET Value :
                   Corrected(s, e, A).count = Sum(Corrected(s, e, A).data, Value)}
<1>1. {} \in U
  BY NoneCorrected
<1>2. ASSUME NEW A \in U, NEW n \in Value \ A PROVE A \cup {n} \in U
  <2>1. PICK t \in Table, r \in Table, k \in Nat :
          t = Corrected(s, e, A) /\ r = Corrected(s, e, A \cup {n}) /\ k = s.data[n]
    BY CorrectedIsTable DEF Table
  <2>2. PICK P \in SUBSET Value : P = Phantoms(n, e) /\ Cardinality(P) \in Nat
    BY PhantomsFinite
  <2>3. /\ \A m \in Value : r.data[m] = t.data[m] + (IF m \in P THEN k ELSE 0)
        /\ r.count = t.count + k * Cardinality(P)
    BY <2>1, <2>2, CorrectedMore
  <2>4. \A m \in Value : t.data[m] \in Nat
    BY DEF Table
  <2>5. Sum(r.data, Value) = Sum(t.data, Value) + k * Cardinality(P)
    BY <2>3, <2>4, ValueFinite, SumSpread
  <2>6. t.count = Sum(t.data, Value)
    BY <2>1
  <2>7. QED
    BY <2>1, <2>3, <2>5, <2>6
<1>3. U \in SUBSET SUBSET Value
  OBVIOUS
<1>4. U = SUBSET Value
  <2> HIDE DEF U
  <2>1. QED
    BY <1>1, <1>2, <1>3, ValueFinite, BuildUp
<1>5. QED
  BY <1>4

LEMMA SumOfZeros ==
  ASSUME NEW f, NEW S, IsFiniteSet(S), NEW T \in SUBSET S,
         \A i \in S : f[i] \in Int, \A i \in S \ T : f[i] = 0
  PROVE  Sum(f, S) = Sum(f, T)
<1> DEFINE U == {V \in SUBSET (S \ T) : Sum(f, T \cup V) = Sum(f, T)}
<1>1. {} \in U
  <2>1. T \cup {} = T
    OBVIOUS
  <2>2. QED
    BY <2>1
<1>2. ASSUME NEW V \in U, NEW x \in (S \ T) \ V PROVE V \cup {x} \in U
  <2>1. T \cup (V \cup {x}) = (T \cup V) \cup {x} /\ T \cup V \in SUBSET S /\ x \in S \ (T \cup V)
    OBVIOUS
  <2>2. Sum(f, (T \cup V) \cup {x}) = f[x] + Sum(f, T \cup V)
    BY <2>1, SumAdd
  <2>3. PICK a \in Int : a = Sum(f, T) /\ a = Sum(f, T \cup V)
    BY SumIsInt
  <2>4. f[x] = 0 /\ V \cup {x} \in SUBSET (S \ T)
    OBVIOUS
  <2>5. Sum(f, (T \cup V) \cup {x}) = 0 + a
    BY <2>2, <2>3, <2>4
  <2>6. Sum(f, (T \cup V) \cup {x}) = a
    BY <2>5
  <2>7. Sum(f, T \cup (V \cup {x})) = Sum(f, T)
    BY <2>1, <2>3, <2>6
  <2>8. QED
    BY <2>4, <2>7
<1>3. U \in SUBSET SUBSET (S \ T) /\ IsFiniteSet(S \ T)
  BY FS_Subset
<1>4. U = SUBSET (S \ T)
  <2> HIDE DEF U
  <2>1. QED
    BY <1>1, <1>2, <1>3, BuildUp
<1>5. S \ T \in U /\ T \cup (S \ T) = S
  BY <1>4
<1>6. QED
  BY <1>5

-------------------------------------------------------------------------------
(* Multiples of the interval.                                               *)
LEMMA MultipleHasNoRest ==
  ASSUME NEW e \in Nat \ {0}, NEW k \in Nat
  PROVE  (k * e) % e = 0
<1>1. PICK x \in Nat : x = k * e
  OBVIOUS
<1>2. PICK q \in Int, r \in Int : q = x \div e /\ r = x % e
  OBVIOUS
<1>3. x = e * q + r /\ 0 <= r /\ r < e
  BY <1>2
<1>4. PICK d \in Int : d = k - q
  <2>1. k \in Int /\ q \in Int
    BY <1>2
  <2>2. k - q \in Int
    BY <2>1
  <2>3. QED
    BY <2>2
<1>5. r = e * d
  BY <1>1, <1>3, <1>4
<1>6. d < 1
  <2>1. SUFFICES ASSUME d >= 1 PROVE FALSE
    OBVIOUS
  <2>2. e * d >= e
    BY <2>1
  <2>3. QED
    BY <1>3, <1>5, <2>2
<1>7. d > -1
  <2>1. SUFFICES ASSUME d <= -1 PROVE FALSE
    OBVIOUS
  <2>2. e * d <= -e
    BY <2>1
  <2>3. QED
    BY <1>3, <1>5, <2>2
<1>8. d = 0
  BY <1>6, <1>7
<1>9. QED
  BY <1>1, <1>2, <1>5, <1>8

LEMMA NoRestIsMultiple ==
  ASSUME NEW e \in Nat \ {0}, NEW x \in Nat, x % e = 0
  PROVE  \E k \in Nat : x = k * e
<1>1. PICK q \in Int : q = x \div e
  OBVIOUS
<1>2. x = e * q
  BY <1>1
<1>3. q >= 0
  BY <1>2
<1>4. QED
  BY <1>2, <1>3

LEMMA WaitsArePhantoms ==
  ASSUME NEW e \in Nat \ {0}, NEW m \in Value, NEW n \in Value
  PROVE  m \in Phantoms(n, e) <=> \E k \in 1 .. n : m = n - k * e /\ m > e
<1>1. m \in Nat /\ n \in Nat
  BY ValueFinite DEF Value
<1>2. ASSUME m \in Phantoms(n, e) PROVE \E k \in 1 .. n : m = n - k * e /\ m > e
  <2>1. m > e /\ m < n /\ (n - m) % e = 0 /\ n - m \in Nat
    BY <1>1, <1>2 DEF Phantoms
  <2>2. PICK k \in Nat : n - m = k * e
    BY <2>1, NoRestIsMultiple
  <2>3. k # 0
    BY <1>1, <2>1, <2>2
  <2>4. k <= k * e
    BY <2>3
  <2>5. k \in 1 .. n /\ m = n - k * e
    BY <1>1, <2>2, <2>3, <2>4
  <2>6. QED
    BY <2>1, <2>5
<1>3. ASSUME NEW k \in 1 .. n, m = n - k * e, m > e PROVE m \in Phantoms(n, e)
  <2>1. PICK x \in Nat : x = k * e
    OBVIOUS
  <2>2. x % e = 0
    BY <2>1, MultipleHasNoRest
  <2>3. x >= 1
    BY <2>1
  <2>4. n - m = x /\ m < n
    BY <1>1, <1>3, <2>1, <2>3
  <2>5. QED
    BY <1>3, <2>2, <2>4 DEF Phantoms
<1>4. QED
  BY <1>2, <1>3

-------------------------------------------------------------------------------
(* The table as it was recorded.                                            *)
Exact(s) ==
  /\ s \in Table /\ s.data = taken /\ s.count = Sum(taken, Value)
  /\ \A n \in Value : taken[n] > 0 => s.min <= n /\ n <= s.max
  /\ s.min = Unset \/ (s.min \in Value /\ taken[s.min] > 0)
  /\ s.max \in Value /\ (s.max = 0 \/ taken[s.max] > 0)

LEMMA RecordedExact ==
  ASSUME StatsTypes, RecordInv, interval = 0, Recorded
  PROVE  Exact(stats)
<1>1. stats \in Table
  BY DEF StatsTypes, Table
<1>2. QED
  BY <1>1, RecordedIsExact, ValueFinite DEF Exact

LEMMA ExactCorrected ==
  ASSUME interval \in Nat \ {0}, NEW s, Exact(s), stats = stats_correct(s, interval)
  PROVE  CorrectionIsOfRecorded
<1>1. PICK e \in Nat \ {0} : e = interval
  OBVIOUS
<1>2. s \in Table /\ s.max \in Value /\ s.data = taken /\ s.count = Sum(s.data, Value)
  BY DEF Exact
<1>3. Value \subseteq Nat /\ s.max \in Nat
  BY <1>2, ValueFinite DEF Value
<1>4. PICK A \in SUBSET Value : A = (e * 2) .. s.max
  <2>1. ASSUME NEW n \in (e * 2) .. s.max PROVE n \in Value
    <3>1. s.max <= MaxValue /\ MaxValue \in Nat
      BY <1>2, ValueFinite DEF Value
    <3>2. n \in Int /\ e * 2 <= n /\ n <= s.max
      BY <1>3, <2>1
    <3>3. e * 2 >= 0
      OBVIOUS
    <3>4. n >= 0 /\ n <= MaxValue
      BY <1>3, <3>1, <3>2, <3>3
    <3>5. QED
      BY <3>2, <3>4 DEF Value
  <2>2. (e * 2) .. s.max \in SUBSET Value
    BY <2>1
  <2>3. QED
    BY <2>2
<1>5. stats = Corrected(s, e, A)
  BY <1>1, <1>2, <1>4, CorrectedAll
<1>6. stats.count = Total(stats, Value)
  BY <1>2, <1>5, CorrectedCounts, TotalIs
<1>7. \A n \in Value : taken[n] \in Nat /\ taken[n] \in Int
  BY <1>2 DEF Table
<1>8. ASSUME NEW m \in Value, NEW W \in SUBSET Value,
             W = {n \in Value : \E k \in 1 .. n : m = n - k * interval /\ m > interval}
      PROVE  stats.data[m] = taken[m] + MapThenSumSet(LAMBDA n : taken[n], W)
  <2>1. W = {n \in Value : m \in Phantoms(n, e)}
    BY <1>1, <1>8, WaitsArePhantoms
  <2>2. PICK V \in SUBSET W : V = {n \in A : m \in Phantoms(n, e)}
    BY <2>1
  <2>3. ASSUME NEW n \in W \ V PROVE taken[n] = 0
    <3>1. n \in Nat /\ m \in Nat /\ n \notin A /\ n \in Value /\ m \in Phantoms(n, e)
      BY <1>3, <2>1, <2>2, <2>3
    <3>2. PICK k \in 1 .. n : m = n - k * e /\ m > e
      BY <3>1, WaitsArePhantoms
    <3>3. k * e >= e
      BY <3>2
    <3>4. n >= e * 2
      BY <3>1, <3>2, <3>3
    <3>5. ~(n <= s.max)
      BY <1>3, <1>4, <3>1, <3>4
    <3>6. taken[n] \in Nat
      BY <1>7
    <3>7. QED
      BY <3>1, <3>5, <3>6 DEF Exact
  <2>4. IsFiniteSet(W) /\ \A n \in W : taken[n] \in Int
    BY <1>7, ValueFinite, FS_Subset
  <2>5. Sum(taken, W) = Sum(taken, V)
    BY <2>3, <2>4, SumOfZeros
  <2>6. stats.data[m] = taken[m] + Sum(taken, V)
    BY <1>2, <1>5, <2>2 DEF Corrected
  <2>7. QED
    BY <2>5, <2>6 DEF Sum
<1>9. QED
  BY <1>6, <1>8 DEF CorrectionIsOfRecorded

-------------------------------------------------------------------------------
(* The invariant of the statistics: while values are recorded what the      *)
(* calls still have to do, and after the correction that the table is the   *)
(* one recorded, corrected.                                                 *)
StatsInv ==
  /\ StatsTypes
  /\ IF interval = 0 THEN RecordInv
     ELSE Recorded /\ \E s : Exact(s) /\ stats = stats_correct(s, interval)

(* What the table holds, and that it is corrected once, when every call has *)
(* returned.                                                                *)
THEOREM StatsInductive == Spec => []StatsInv
<1>1. Init => StatsInv
  BY InitStats DEF StatsInv
<1>2. StatsInv /\ [Next]_vars => StatsInv'
  <2> SUFFICES ASSUME StatsInv, [Next]_vars PROVE StatsInv'
    OBVIOUS
  <2>1. CASE interval = 0
    <3>1. CASE StatsTypes' /\ RecordInv' /\ interval' = 0
      BY <3>1 DEF StatsInv
    <3>2. CASE Correct
      <4>1. PICK e \in 1 .. MaxInterval : interval' = e /\ stats' = stats_correct(stats, e)
        BY <3>2 DEF Correct
      <4>2. Recorded /\ UNCHANGED <<call, taken, calls>>
        BY <3>2 DEF Correct
      <4>3. Exact(stats)
        BY <2>1, <4>2, RecordedExact DEF StatsInv
      <4>4. PICK s : s = stats
        OBVIOUS
      <4>5. Exact(s)'
        <5>1. Exact(s)
          BY <4>3, <4>4
        <5>2. QED
          BY <4>2, <5>1 DEF Exact
      <4>6. Recorded' /\ StatsTypes'
        BY <4>1, <4>2 DEF Recorded, StatsInv, StatsTypes
      <4>7. e # 0
        OBVIOUS
      <4>8. stats' = stats_correct(s, interval')
        BY <4>1, <4>4
      <4>9. QED
        BY <4>1, <4>5, <4>6, <4>7, <4>8 DEF StatsInv
    <3>3. QED
      BY <2>1, <3>1, <3>2, RecordKeeps DEF StatsInv
  <2>2. CASE interval # 0
    <3>1. UNCHANGED vars
      BY <2>2, RecordedStays DEF StatsInv
    <3>2. QED
      BY <2>2, <3>1 DEF vars, StatsInv, StatsTypes, Recorded, Exact
  <2>3. QED
    BY <2>1, <2>2
<1>3. QED
  BY <1>1, <1>2, PTL DEF Spec

(* Once the threads are joined the table holds exactly what was recorded,   *)
(* and its extremes are the true ones, for any threads and values.          *)
THEOREM TableExact == Spec => []TableIsExact
<1>1. StatsInv => TableIsExact
  BY ExactTable DEF StatsInv, TableIsExact
<1>2. QED
  BY <1>1, StatsInductive, PTL

(* The correction adds the phantoms of the values recorded, and of no       *)
(* others, though it scans the table it adds to.                            *)
THEOREM CorrectionExact == Spec => []CorrectionIsOfRecorded
<1>1. StatsInv => CorrectionIsOfRecorded
  <2> SUFFICES ASSUME StatsInv, interval > 0 PROVE CorrectionIsOfRecorded
    BY DEF CorrectionIsOfRecorded
  <2>1. interval \in Nat \ {0}
    BY DEF StatsInv, StatsTypes
  <2>2. PICK s : Exact(s) /\ stats = stats_correct(s, interval)
    BY <2>1 DEF StatsInv
  <2>3. QED
    BY <2>1, <2>2, ExactCorrected
<1>2. QED
  BY <1>1, StatsInductive, PTL

-------------------------------------------------------------------------------
(* Sums of numbers that are not negative.                                   *)
LEMMA SumMono ==
  ASSUME NEW S, IsFiniteSet(S), NEW f, NEW h,
         \A i \in S : f[i] \in Int /\ h[i] \in Int /\ f[i] <= h[i]
  PROVE  Sum(f, S) <= Sum(h, S)
<1> DEFINE U == {T \in SUBSET S : Sum(f, T) <= Sum(h, T)}
<1>1. {} \in U
  BY SumNone
<1>2. ASSUME NEW T \in U, NEW x \in S \ T PROVE T \cup {x} \in U
  <2>1. Sum(f, T \cup {x}) = f[x] + Sum(f, T)
    BY SumAdd
  <2>2. Sum(h, T \cup {x}) = h[x] + Sum(h, T)
    BY SumAdd
  <2>3. Sum(f, T) \in Int /\ Sum(h, T) \in Int
    BY SumIsInt
  <2>4. QED
    BY <2>1, <2>2, <2>3
<1>3. U \in SUBSET SUBSET S
  OBVIOUS
<1>4. U = SUBSET S
  <2> HIDE DEF U
  <2>1. QED
    BY <1>1, <1>2, <1>3, BuildUp
<1>5. S \in U
  BY <1>4
<1>6. QED
  BY <1>5

LEMMA SumScale ==
  ASSUME NEW S, IsFiniteSet(S), NEW f, NEW h, NEW k \in Int,
         \A i \in S : f[i] \in Int /\ h[i] = k * f[i]
  PROVE  Sum(h, S) = k * Sum(f, S)
<1> DEFINE U == {T \in SUBSET S : Sum(h, T) = k * Sum(f, T)}
<1>1. {} \in U
  BY SumNone
<1>2. ASSUME NEW T \in U, NEW x \in S \ T PROVE T \cup {x} \in U
  <2>1. \A i \in S : f[i] \in Int /\ h[i] \in Int
    OBVIOUS
  <2>2. Sum(f, T \cup {x}) = f[x] + Sum(f, T)
    BY <2>1, SumAdd
  <2>3. Sum(h, T \cup {x}) = h[x] + Sum(h, T)
    BY <2>1, SumAdd
  <2>4. PICK a \in Int, b \in Int : a = f[x] /\ b = Sum(f, T)
    BY <2>1, SumIsInt
  <2>5. h[x] = k * a /\ Sum(h, T) = k * b
    BY <2>4
  <2>6. k * (a + b) = k * a + k * b
    OBVIOUS
  <2>7. QED
    BY <2>2, <2>3, <2>4, <2>5, <2>6
<1>3. U \in SUBSET SUBSET S
  OBVIOUS
<1>4. U = SUBSET S
  <2> HIDE DEF U
  <2>1. QED
    BY <1>1, <1>2, <1>3, BuildUp
<1>5. S \in U
  BY <1>4
<1>6. QED
  BY <1>5

LEMMA SumAtLeast ==
  ASSUME NEW S, IsFiniteSet(S), NEW f, \A i \in S : f[i] \in Nat, NEW x \in S
  PROVE  f[x] <= Sum(f, S)
<1>1. \A i \in S : f[i] \in Int
  OBVIOUS
<1>2. Sum(f, S) = f[x] + Sum(f, S \ {x})
  BY <1>1, SumTake
<1>3. Sum(f, S \ {x}) \in Nat
  BY SumIsNat
<1>4. f[x] \in Nat
  OBVIOUS
<1>5. QED
  BY <1>2, <1>3, <1>4

LEMMA SomePositive ==
  ASSUME NEW S, IsFiniteSet(S), NEW f, \A i \in S : f[i] \in Nat, Sum(f, S) > 0
  PROVE  \E x \in S : f[x] > 0
<1>1. SUFFICES ASSUME \A i \in S : f[i] = 0 PROVE FALSE
  OBVIOUS
<1>2. Sum(f, S) = 0
  BY <1>1, SumZero
<1>3. QED
  BY <1>2

-------------------------------------------------------------------------------
(* What the queries need to know of a table.                                *)
Bounded(s) ==
  /\ s \in Table
  /\ s.count = Sum(s.data, Value) /\ s.count > 0
  /\ \A n \in Value : s.data[n] > 0 => s.min <= n /\ n <= s.max
  /\ s.max \in Value

LEMMA ExactIsBounded ==
  ASSUME NEW s, Exact(s), s.count > 0
  PROVE  Bounded(s)
  BY DEF Exact, Bounded

LEMMA CorrectedIsBounded ==
  ASSUME NEW s, Exact(s), NEW e \in Nat \ {0}, e >= s.min,
         stats_correct(s, e).count > 0
  PROVE  Bounded(stats_correct(s, e))
<1>1. s \in Table /\ s.max \in Value /\ s.data = taken /\ s.count = Sum(s.data, Value)
  BY DEF Exact
<1>2. Value \subseteq Nat /\ s.max \in Nat /\ s.min \in Nat
  BY <1>1, ValueFinite DEF Value, Table
<1>3. PICK A \in SUBSET Value : A = (e * 2) .. s.max
  <2>1. ASSUME NEW n \in (e * 2) .. s.max PROVE n \in Value
    <3>1. s.max <= MaxValue /\ MaxValue \in Nat
      BY <1>1, ValueFinite DEF Value
    <3>2. n \in Int /\ e * 2 <= n /\ n <= s.max
      BY <1>2, <2>1
    <3>3. e * 2 >= 0
      OBVIOUS
    <3>4. n >= 0 /\ n <= MaxValue
      BY <1>2, <3>1, <3>2, <3>3
    <3>5. QED
      BY <3>2, <3>4 DEF Value
  <2>2. (e * 2) .. s.max \in SUBSET Value
    BY <2>1
  <2>3. QED
    BY <2>2
<1>4. PICK t \in Table : t = stats_correct(s, e) /\ t = Corrected(s, e, A)
  BY <1>1, <1>3, CorrectedAll, CorrectedIsTable
<1>5. t.count = Sum(t.data, Value) /\ t.min = s.min /\ t.max = s.max
  BY <1>1, <1>4, CorrectedCounts DEF Corrected
<1>6. \A n \in Value : s.data[n] \in Nat /\ t.data[n] \in Nat
  BY <1>1 DEF Table
<1>7. ASSUME NEW m \in Value, t.data[m] > 0 PROVE s.min <= m /\ m <= s.max
  <2>1. CASE s.data[m] > 0
    BY <1>1, <2>1 DEF Exact
  <2>2. CASE ~(s.data[m] > 0)
    <3>1. PICK W \in SUBSET Value : W = {n \in A : m \in Phantoms(n, e)}
      OBVIOUS
    <3>2. t.data[m] = s.data[m] + Sum(s.data, W)
      BY <1>4, <3>1 DEF Corrected
    <3>3. s.data[m] = 0
      BY <1>6, <2>2
    <3>4. IsFiniteSet(W) /\ \A n \in W : s.data[n] \in Nat
      BY <1>6, ValueFinite, FS_Subset
    <3>5. W # {}
      <4>1. SUFFICES ASSUME W = {} PROVE FALSE
        OBVIOUS
      <4>2. Sum(s.data, W) = 0
        BY <4>1, SumNone
      <4>3. QED
        BY <1>7, <3>2, <3>3, <4>2
    <3>6. PICK n \in A : m \in Phantoms(n, e)
      BY <3>1, <3>5
    <3>7. m > e /\ m < n
      BY <3>6 DEF Phantoms
    <3>8. n <= s.max /\ n \in Nat /\ m \in Nat
      BY <1>2, <1>3, <3>6
    <3>9. QED
      BY <1>2, <3>7, <3>8
  <2>3. QED
    BY <2>1, <2>2
<1>8. QED
  BY <1>1, <1>4, <1>5, <1>7 DEF Bounded

LEMMA ScannedHasAll ==
  ASSUME NEW s, Bounded(s)
  PROVE  /\ Scanned(s) \in SUBSET Value /\ IsFiniteSet(Scanned(s))
         /\ \A i \in Value \ Scanned(s) : s.data[i] = 0
         /\ Sum(s.data, Scanned(s)) = s.count
<1>1. Scanned(s) \in SUBSET Value
  BY DEF Scanned
<1>2. IsFiniteSet(Scanned(s))
  BY <1>1, ValueFinite, FS_Subset
<1>3. \A i \in Value : s.data[i] \in Int /\ s.data[i] \in Nat
  BY DEF Bounded, Table
<1>4. ASSUME NEW i \in Value \ Scanned(s) PROVE s.data[i] = 0
  <2>1. ~(s.data[i] > 0)
    BY <1>4 DEF Bounded, Scanned
  <2>2. QED
    BY <1>3, <2>1
<1>5. Sum(s.data, Value) = Sum(s.data, Scanned(s))
  BY <1>1, <1>3, <1>4, ValueFinite, SumOfZeros
<1>6. QED
  BY <1>1, <1>2, <1>4, <1>5 DEF Bounded

-------------------------------------------------------------------------------
(* Percentiles.                                                             *)
LEMMA HasMin ==
  ASSUME NEW S, IsFiniteSet(S), S \subseteq Int, S # {}
  PROVE  \E m \in S : \A k \in S : m <= k
<1> DEFINE U == {T \in SUBSET S : T = {} \/ \E m \in T : \A k \in T : m <= k}
<1>1. {} \in U
  OBVIOUS
<1>2. ASSUME NEW T \in U, NEW x \in S \ T PROVE T \cup {x} \in U
  <2>1. CASE T = {}
    <3>1. T \cup {x} = {x} /\ x <= x
      BY <2>1
    <3>2. QED
      BY <3>1
  <2>2. CASE T # {}
    <3>1. PICK m \in T : \A k \in T : m <= k
      BY <2>2
    <3>2. PICK p \in T \cup {x} : p = IF m <= x THEN m ELSE x
      BY <3>1
    <3>3. \A k \in T \cup {x} : p <= k
      BY <3>1, <3>2
    <3>4. QED
      BY <3>3
  <2>3. QED
    BY <2>1, <2>2
<1>3. U \in SUBSET SUBSET S
  OBVIOUS
<1>4. U = SUBSET S
  <2> HIDE DEF U
  <2>1. QED
    BY <1>1, <1>2, <1>3, BuildUp
<1>5. S \in U
  BY <1>4
<1>6. QED
  BY <1>5

UpTo(s, v) == {j \in Scanned(s) : j <= v}

LEMMA TotalUpTo ==
  ASSUME NEW s, Bounded(s), NEW v \in Value
  PROVE  /\ Total(s, UpTo(s, v)) = Total(s, 0 .. v)
         /\ Total(s, 0 .. v) \in Nat
         /\ Total(s, 0 .. v) > 0 => s.min <= v
<1>1. PICK A \in SUBSET Value : A = 0 .. v
  BY ValueFinite DEF Value
<1>2. IsFiniteSet(A) /\ \A i \in A : s.data[i] \in Int /\ s.data[i] \in Nat
  BY ValueFinite, FS_Subset DEF Bounded, Table
<1>3. PICK B \in SUBSET A : B = UpTo(s, v)
  <2>1. UpTo(s, v) \subseteq A
    BY <1>1, ValueFinite DEF UpTo, Scanned, Value
  <2>2. QED
    BY <2>1
<1>4. ASSUME NEW i \in A \ B PROVE s.data[i] = 0
  <2>1. i \in Value /\ i <= v
    BY <1>1, ValueFinite DEF Value
  <2>2. i \notin Scanned(s)
    BY <1>3, <2>1 DEF UpTo
  <2>3. QED
    BY <2>1, <2>2, ScannedHasAll
<1>5. Sum(s.data, A) = Sum(s.data, B)
  BY <1>2, <1>4, SumOfZeros
<1>6. Sum(s.data, A) \in Nat
  BY <1>2, SumIsNat
<1>7. ASSUME Sum(s.data, A) > 0 PROVE s.min <= v
  <2>1. PICK j \in A : s.data[j] > 0
    BY <1>2, <1>7, SomePositive
  <2>2. s.min <= j /\ j <= v /\ j \in Nat /\ v \in Nat /\ s.min \in Nat
    BY <1>1, <2>1, ValueFinite DEF Bounded, Value, Table
  <2>3. QED
    BY <2>2
<1>8. QED
  BY <1>1, <1>3, <1>5, <1>6, <1>7, TotalIs

LEMMA RankMeans ==
  ASSUME NEW x \in Nat, NEW T \in Nat
  PROVE  T >= (x \div 100) + 1 <=> 100 * T > x
<1>1. PICK q \in Int : q = x \div 100 /\ 100 * q <= x /\ x < 100 * q + 100
  OBVIOUS
<1>2. QED
  BY <1>1

(* A percentile is the least value that more than that part of the table    *)
(* does not exceed, though only the values from min to max are looked at.   *)
LEMMA PercentileIs ==
  ASSUME NEW s, Bounded(s), NEW p \in 0 .. 99
  PROVE  stats_percentile(s, p) = Min({v \in Value : 100 * Total(s, 0 .. v) > p * s.count})
<1>1. PICK L \in SUBSET Value : L = {v \in Value : 100 * Total(s, 0 .. v) > p * s.count}
  OBVIOUS
<1>2. PICK R : R = {i \in Scanned(s) : Total(s, {j \in Scanned(s) : j <= i}) >= Rank(s, p)}
  OBVIOUS
<1>3. PICK c \in Nat : c = s.count /\ c > 0
  BY DEF Bounded, Table
<1>4. ASSUME NEW i \in Scanned(s) PROVE i \in R <=> i \in L
  <2>1. i \in Value
    BY ScannedHasAll
  <2>2. Total(s, {j \in Scanned(s) : j <= i}) = Total(s, 0 .. i) /\ Total(s, 0 .. i) \in Nat
    BY <2>1, TotalUpTo DEF UpTo
  <2>3. PICK x \in Nat : x = p * s.count
    BY <1>3
  <2>4. Rank(s, p) = (x \div 100) + 1
    BY <2>3 DEF Rank
  <2>5. QED
    BY <1>1, <1>2, <2>1, <2>2, <2>3, <2>4, RankMeans
<1>5. s.max \in L
  <2>1. s.max \in Value /\ s.min <= s.max
    <3>1. \E n \in Value : s.data[n] > 0
      BY ValueFinite, SomePositive DEF Bounded, Table
    <3>2. PICK n \in Value : s.min <= n /\ n <= s.max
      BY <3>1 DEF Bounded
    <3>3. n \in Nat /\ s.min \in Nat /\ s.max \in Nat
      BY ValueFinite DEF Bounded, Table, Value
    <3>4. QED
      BY <3>2, <3>3 DEF Bounded
  <2>2. UpTo(s, s.max) = Scanned(s)
    BY DEF UpTo, Scanned
  <2>3. Total(s, 0 .. s.max) = c
    BY <1>3, <2>1, <2>2, TotalUpTo, TotalIs, ScannedHasAll
  <2>4. 100 * c > p * c
    <3>1. p \in Nat /\ p + 1 <= 100
      OBVIOUS
    <3>2. PICK k \in Nat : k = 100 - p /\ k > 0
      BY <3>1
    <3>3. 100 * c = p * c + k * c
      BY <3>1, <3>2
    <3>4. k * c > 0
      BY <1>3, <3>2
    <3>5. p * c \in Nat /\ k * c \in Nat
      BY <3>1, <3>2
    <3>6. QED
      BY <3>3, <3>4, <3>5
  <2>5. QED
    BY <1>1, <1>3, <2>1, <2>3, <2>4
<1>6. PICK m \in L : \A k \in L : m <= k
  <2>1. IsFiniteSet(L) /\ L \subseteq Int
    <3>1. IsFiniteSet(L)
      BY ValueFinite, FS_Subset
    <3>2. QED
      BY <3>1, ValueFinite DEF Value
  <2>2. QED
    BY <1>5, <2>1, HasMin
<1>7. m \in Scanned(s)
  <2>1. m \in Value /\ m <= s.max
    BY <1>5, <1>6
  <2>2. PICK T \in Nat : T = Total(s, 0 .. m) /\ 100 * T > p * c
    BY <1>1, <1>3, <2>1, TotalUpTo
  <2>3. p * c >= 0
    OBVIOUS
  <2>4. T > 0
    <3>1. PICK x \in Nat : x = p * c
      OBVIOUS
    <3>2. QED
      BY <2>2, <3>1
  <2>5. s.min <= m
    BY <2>1, <2>2, <2>4, TotalUpTo
  <2>6. QED
    BY <2>1, <2>5 DEF Scanned
<1>8. m \in R /\ \A k \in R : m <= k
  <2>1. R \subseteq Scanned(s)
    BY <1>2
  <2>2. QED
    BY <1>4, <1>6, <1>7, <2>1
<1>9. R \subseteq Nat /\ L \subseteq Nat
  BY <1>2, ScannedHasAll, ValueFinite DEF Value
<1>10. Min(R) = m /\ Min(L) = m
  BY <1>6, <1>8, <1>9, MinOf
<1>11. stats_percentile(s, p) = Min(R)
  BY <1>2, <1>8 DEF stats_percentile
<1>12. QED
  BY <1>1, <1>10, <1>11

-------------------------------------------------------------------------------
(* The mean and the deviation.                                              *)
Moment(s) == [i \in Value |-> s.data[i] * i]

MomentsUp(s, S, g) ==
  g = [T \in SUBSET S |-> IF T = {} THEN 0
                          ELSE LET x == CHOOSE x \in T : TRUE IN s.data[x] * x + g[T \ {x}]]

LEMMA MomentsAre ==
  ASSUME NEW s, NEW S \in SUBSET Value, NEW g
  PROVE  MomentsUp(s, S, g) <=> SumsUp(Moment(s), S, g)
<1>1. ASSUME NEW T \in SUBSET S, T # {}
      PROVE  Moment(s)[CHOOSE x \in T : TRUE]
               = s.data[CHOOSE x \in T : TRUE] * (CHOOSE x \in T : TRUE)
  <2>1. PICK x : x = CHOOSE y \in T : TRUE
    OBVIOUS
  <2>2. x \in Value
    BY <1>1, <2>1
  <2>3. QED
    BY <2>1, <2>2 DEF Moment
<1>2. [T \in SUBSET S |-> IF T = {} THEN 0
                          ELSE LET x == CHOOSE x \in T : TRUE IN s.data[x] * x + g[T \ {x}]]
      = [T \in SUBSET S |-> IF T = {} THEN 0
                          ELSE LET x == CHOOSE x \in T : TRUE IN Moment(s)[x] + g[T \ {x}]]
  BY <1>1
<1>3. QED
  BY <1>2 DEF MomentsUp, SumsUp

LEMMA MeanIs ==
  ASSUME NEW s
  PROVE  /\ stats_mean(s).sum = Sum(Moment(s), Scanned(s))
         /\ stats_mean(s).count = s.count
<1>1. Scanned(s) \in SUBSET Value
  BY DEF Scanned
<1>2. IsFiniteSet(Scanned(s))
  BY <1>1, ValueFinite, FS_Subset
<1>3. PICK S \in SUBSET Value : S = Scanned(s) /\ IsFiniteSet(S)
  BY <1>1, <1>2
<1>4. stats_mean(s).sum = (CHOOSE g : MomentsUp(s, S, g))[S] /\ stats_mean(s).count = s.count
  BY <1>3 DEF stats_mean, MapThenSumSet, MapThenFoldSet, MomentsUp
<1>5. \E g : MomentsUp(s, S, g)
  BY <1>3, AllSummed, MomentsAre DEF Summed
<1>6. PICK g : g = (CHOOSE h : MomentsUp(s, S, h)) /\ MomentsUp(s, S, g)
  BY <1>5
<1>7. SumsUp(Moment(s), S, g)
  BY <1>6, MomentsAre
<1>8. Sum(Moment(s), S) = g[S]
  <2>1. S \in SUBSET S
    OBVIOUS
  <2>2. QED
    BY <1>3, <1>7, <2>1, AllSummed, SumsUpIs
<1>9. QED
  BY <1>3, <1>4, <1>6, <1>8

Times(k, f) == [i \in Value |-> k * f[i]]

LEMMA MeanWithin ==
  ASSUME NEW s, Bounded(s)
  PROVE  /\ stats_mean(s).sum \in Nat
         /\ s.min * s.count <= stats_mean(s).sum
         /\ stats_mean(s).sum <= s.max * s.count
<1>1. PICK S \in SUBSET Value : S = Scanned(s) /\ IsFiniteSet(S)
  BY ScannedHasAll
<1>2. s.min \in Nat /\ s.max \in Nat /\ s.count \in Nat
  BY DEF Bounded, Table
<1>3. \A i \in S : /\ i \in Nat /\ s.min <= i /\ i <= s.max
                   /\ s.data[i] \in Nat /\ Moment(s)[i] = s.data[i] * i
  BY <1>1, ValueFinite DEF Scanned, Value, Bounded, Table, Moment
<1>4. PICK lo, hi : lo = Times(s.min, s.data) /\ hi = Times(s.max, s.data)
  OBVIOUS
<1>5. \A i \in S : lo[i] = s.min * s.data[i] /\ hi[i] = s.max * s.data[i]
  BY <1>4 DEF Times
<1>6. ASSUME NEW i \in S
      PROVE  /\ lo[i] \in Int /\ hi[i] \in Int /\ Moment(s)[i] \in Nat
             /\ lo[i] <= Moment(s)[i] /\ Moment(s)[i] <= hi[i]
  <2>1. PICK a \in Nat, k \in Nat, l \in Nat, h \in Nat :
               a = i /\ k = s.data[i] /\ l = s.min /\ h = s.max /\ l <= a /\ a <= h
    BY <1>2, <1>3
  <2>2. l * k <= k * a /\ k * a <= h * k /\ k * a \in Nat /\ l * k \in Int /\ h * k \in Int
    BY <2>1
  <2>3. QED
    BY <1>3, <1>5, <2>1, <2>2
<1>7. Sum(lo, S) = s.min * Sum(s.data, S) /\ Sum(hi, S) = s.max * Sum(s.data, S)
  BY <1>1, <1>2, <1>3, <1>5, SumScale
<1>8. Sum(lo, S) <= Sum(Moment(s), S) /\ Sum(Moment(s), S) <= Sum(hi, S)
  BY <1>1, <1>6, SumMono
<1>9. Sum(Moment(s), S) \in Nat
  BY <1>1, <1>6, SumIsNat
<1>10. Sum(s.data, S) = s.count
  BY <1>1, ScannedHasAll
<1>11. QED
  BY <1>1, <1>7, <1>8, <1>9, <1>10, MeanIs

Dev(s, i) == i * stats_mean(s).count - stats_mean(s).sum

Spread(s) == [i \in Value |-> Dev(s, i) * Dev(s, i) * s.data[i]]

SpreadsUp(s, S, g) ==
  g = [T \in SUBSET S |->
         IF T = {} THEN 0
         ELSE LET x == CHOOSE x \in T : TRUE
              IN  Dev(s, x) * Dev(s, x) * s.data[x] + g[T \ {x}]]

LEMMA SpreadsAre ==
  ASSUME NEW s, NEW S \in SUBSET Value, NEW g
  PROVE  SpreadsUp(s, S, g) <=> SumsUp(Spread(s), S, g)
<1>1. ASSUME NEW T \in SUBSET S, T # {}
      PROVE  Spread(s)[CHOOSE x \in T : TRUE]
               = Dev(s, CHOOSE x \in T : TRUE) * Dev(s, CHOOSE x \in T : TRUE)
                   * s.data[CHOOSE x \in T : TRUE]
  <2>1. PICK x : x = CHOOSE y \in T : TRUE
    OBVIOUS
  <2>2. x \in Value
    BY <1>1, <2>1
  <2>3. QED
    BY <2>1, <2>2 DEF Spread
<1>2. [T \in SUBSET S |->
         IF T = {} THEN 0
         ELSE LET x == CHOOSE x \in T : TRUE
              IN  Dev(s, x) * Dev(s, x) * s.data[x] + g[T \ {x}]]
      = [T \in SUBSET S |-> IF T = {} THEN 0
                          ELSE LET x == CHOOSE x \in T : TRUE IN Spread(s)[x] + g[T \ {x}]]
  BY <1>1
<1>3. QED
  BY <1>2 DEF SpreadsUp, SumsUp

LEMMA VarianceIs ==
  ASSUME NEW s
  PROVE  stats_variance(s) = [num |-> IF s.count < 2 THEN 0 ELSE Sum(Spread(s), Scanned(s)),
                              den |-> IF s.count < 2 THEN 1 ELSE s.count - 1]
<1>1. Scanned(s) \in SUBSET Value
  BY DEF Scanned
<1>2. IsFiniteSet(Scanned(s))
  BY <1>1, ValueFinite, FS_Subset
<1>3. PICK S \in SUBSET Value : S = Scanned(s) /\ IsFiniteSet(S)
  BY <1>1, <1>2
<1>4. stats_mean(s).count = s.count
  BY MeanIs
<1>5. PICK v : v = MapThenSumSet(LAMBDA i : Dev(s, i) * Dev(s, i) * s.data[i], S)
  OBVIOUS
<1>6. stats_variance(s) = [num |-> IF s.count < 2 THEN 0 ELSE v,
                           den |-> IF s.count < 2 THEN 1 ELSE s.count - 1]
  <2>1. stats_variance(s) =
          [num |-> IF stats_mean(s).count < 2 THEN 0
                   ELSE MapThenSumSet(LAMBDA i : Dev(s, i) * Dev(s, i) * s.data[i], Scanned(s)),
           den |-> IF stats_mean(s).count < 2 THEN 1 ELSE stats_mean(s).count - 1]
    BY DEF stats_variance, Dev
  <2>2. QED
    BY <1>3, <1>4, <1>5, <2>1
<1>7. v = (CHOOSE g : SpreadsUp(s, S, g))[S]
  BY <1>5 DEF MapThenSumSet, MapThenFoldSet, SpreadsUp
<1>8. \E g : SpreadsUp(s, S, g)
  BY <1>3, AllSummed, SpreadsAre DEF Summed
<1>9. PICK g : g = (CHOOSE h : SpreadsUp(s, S, h)) /\ SpreadsUp(s, S, g)
  BY <1>8
<1>10. SumsUp(Spread(s), S, g)
  BY <1>9, SpreadsAre
<1>11. Sum(Spread(s), S) = g[S]
  <2>1. S \in SUBSET S
    OBVIOUS
  <2>2. QED
    BY <1>3, <1>10, <2>1, AllSummed, SumsUpIs
<1>12. QED
  BY <1>3, <1>6, <1>7, <1>9, <1>11

Near(s) == {i \in Scanned(s) : Dev(s, i) * Dev(s, i) * stats_variance(s).den
                                 <= stats_variance(s).num}

LEMMA WithinIs ==
  ASSUME NEW s
  PROVE  stats_within_stdev(s) = Sum(s.data, Near(s))
<1>1. stats_mean(s).count = s.count
  BY MeanIs
<1>2. stats_within_stdev(s) = Total(s, Near(s))
  BY <1>1 DEF stats_within_stdev, Near, Dev
<1>3. QED
  BY <1>2, TotalIs

LEMMA DevIsInt ==
  ASSUME NEW s, Bounded(s), NEW i \in Value
  PROVE  Dev(s, i) \in Int
<1>1. PICK a \in Int, c \in Int, m \in Int :
             a = i /\ c = stats_mean(s).count /\ m = stats_mean(s).sum
  <2>1. i \in Int
    BY ValueFinite DEF Value
  <2>2. s.count \in Int
    BY DEF Bounded, Table
  <2>3. stats_mean(s).count \in Int /\ stats_mean(s).sum \in Int
    BY <2>2, MeanIs, MeanWithin
  <2>4. QED
    BY <2>1, <2>3
<1>2. a * c - m \in Int
  OBVIOUS
<1>3. QED
  BY <1>1, <1>2 DEF Dev

(* One value alone is its own mean.                                         *)
LEMMA OneIsNear ==
  ASSUME NEW s, Bounded(s), s.count = 1
  PROVE  Sum(s.data, Near(s)) > 0
<1>1. PICK S \in SUBSET Value : S = Scanned(s) /\ IsFiniteSet(S) /\ Sum(s.data, S) = 1
  BY ScannedHasAll
<1>2. \A i \in S : s.data[i] \in Nat /\ s.data[i] \in Int /\ i \in Nat
                   /\ Moment(s)[i] = s.data[i] * i
  BY ValueFinite DEF Bounded, Table, Value, Moment
<1>3. PICK i \in S : s.data[i] > 0
  BY <1>1, <1>2, SomePositive
<1>4. PICK R \in SUBSET S : R = S \ {i} /\ IsFiniteSet(R)
  <2>1. S \ {i} \in SUBSET S
    OBVIOUS
  <2>2. IsFiniteSet(S \ {i})
    BY <1>1, <2>1, FS_Subset
  <2>3. QED
    BY <2>1, <2>2
<1>5. s.data[i] = 1 /\ Sum(s.data, R) = 0
  <2>1. Sum(s.data, S) = s.data[i] + Sum(s.data, R)
    BY <1>1, <1>2, <1>4, SumTake
  <2>2. Sum(s.data, R) \in Nat
    BY <1>2, <1>4, SumIsNat
  <2>3. PICK a \in Nat, b \in Nat : a = s.data[i] /\ b = Sum(s.data, R)
    BY <1>2, <2>2
  <2>4. QED
    BY <1>1, <1>3, <2>1, <2>3
<1>6. \A j \in R : s.data[j] = 0
  BY <1>2, <1>4, <1>5, SumAtLeast
<1>7. Sum(Moment(s), R) = 0
  <2>1. \A j \in R : Moment(s)[j] = 0
    BY <1>2, <1>6
  <2>2. QED
    BY <1>4, <2>1, SumZero
<1>8. Sum(Moment(s), S) = i
  <2>1. \A j \in S : Moment(s)[j] \in Int
    BY <1>2
  <2>2. Sum(Moment(s), S) = Moment(s)[i] + Sum(Moment(s), R)
    BY <1>1, <1>4, <2>1, SumTake
  <2>3. Moment(s)[i] = i
    BY <1>2, <1>5
  <2>4. QED
    BY <1>2, <1>7, <2>2, <2>3
<1>9. Dev(s, i) = 0
  BY <1>1, <1>2, <1>8, MeanIs DEF Dev
<1>10. stats_variance(s).num = 0 /\ stats_variance(s).den = 1
  BY VarianceIs
<1>11. i \in Near(s)
  BY <1>1, <1>9, <1>10 DEF Near
<1>12. IsFiniteSet(Near(s)) /\ \A j \in Near(s) : s.data[j] \in Nat
  BY <1>1, <1>2, FS_Subset DEF Near
<1>13. s.data[i] <= Sum(s.data, Near(s)) /\ Sum(s.data, Near(s)) \in Nat
  BY <1>11, <1>12, SumAtLeast, SumIsNat
<1>14. QED
  BY <1>5, <1>13

(* If every value were further from the mean than the deviation, the        *)
(* deviation would be greater than it is.                                   *)
LEMMA SomeAreNear ==
  ASSUME NEW s, Bounded(s), s.count >= 2
  PROVE  Sum(s.data, Near(s)) > 0
<1>1. PICK S \in SUBSET Value : S = Scanned(s) /\ IsFiniteSet(S) /\ Sum(s.data, S) = s.count
  BY ScannedHasAll
<1>2. \A i \in S : s.data[i] \in Nat /\ Dev(s, i) \in Int
  BY DevIsInt DEF Bounded, Table
<1>3. PICK f : f = Spread(s)
  OBVIOUS
<1>4. \A i \in S : f[i] = Dev(s, i) * Dev(s, i) * s.data[i] /\ f[i] \in Nat
  <2>1. ASSUME NEW i \in S PROVE Dev(s, i) * Dev(s, i) * s.data[i] \in Nat
    <3>1. PICK d \in Int, k \in Nat : d = Dev(s, i) /\ k = s.data[i]
      BY <1>2
    <3>2. d * d \in Nat
      OBVIOUS
    <3>3. d * d * k \in Nat
      BY <3>2
    <3>4. QED
      BY <3>1, <3>3
  <2>2. QED
    BY <1>3, <2>1 DEF Spread
<1>5. PICK n \in Nat, c \in Nat : n = Sum(f, S) /\ c = s.count /\ c >= 2
  BY <1>1, <1>4, SumIsNat DEF Bounded, Table
<1>6. stats_variance(s).num = n /\ stats_variance(s).den = c - 1
  BY <1>1, <1>3, <1>5, VarianceIs
<1>7. SUFFICES ASSUME ~(Sum(s.data, Near(s)) > 0) PROVE FALSE
  OBVIOUS
<1>8. ASSUME NEW i \in Near(s) PROVE s.data[i] = 0
  <2>1. IsFiniteSet(Near(s)) /\ \A j \in Near(s) : s.data[j] \in Nat
    BY <1>1, <1>2, FS_Subset DEF Near
  <2>2. s.data[i] <= Sum(s.data, Near(s)) /\ Sum(s.data, Near(s)) \in Nat
    BY <2>1, SumAtLeast, SumIsNat
  <2>3. QED
    BY <1>7, <2>1, <2>2
<1>9. PICK lo, hi : lo = Times(n + 1, s.data) /\ hi = Times(c - 1, f)
  OBVIOUS
<1>10. \A i \in S : lo[i] = (n + 1) * s.data[i] /\ hi[i] = (c - 1) * f[i]
  BY <1>9 DEF Times
<1>11. ASSUME NEW i \in S PROVE lo[i] \in Int /\ hi[i] \in Int /\ lo[i] <= hi[i]
  <2>1. PICK d \in Int, k \in Nat : d = Dev(s, i) /\ k = s.data[i]
    BY <1>2
  <2>2. PICK q \in Nat, b \in Nat : q = d * d /\ b = c - 1
    <3>1. d * d \in Nat /\ c - 1 \in Nat
      BY <1>5
    <3>2. QED
      BY <3>1
  <2>3. lo[i] = (n + 1) * k /\ hi[i] = b * (q * k)
    BY <1>4, <1>10, <2>1, <2>2
  <2>4. (n + 1) * k \in Int /\ b * (q * k) \in Int
    OBVIOUS
  <2>5. CASE i \in Near(s)
    <3>1. k = 0
      BY <1>8, <2>1, <2>5
    <3>2. QED
      BY <2>3, <3>1
  <2>6. CASE i \notin Near(s)
    <3>1. ~(q * b <= n)
      BY <1>1, <1>6, <2>1, <2>2, <2>6 DEF Near
    <3>2. PICK x \in Nat : x = q * b
      OBVIOUS
    <3>3. n + 1 <= x
      BY <3>1, <3>2
    <3>4. (n + 1) * k <= x * k
      BY <3>3
    <3>5. b * (q * k) = x * k
      BY <3>2
    <3>6. QED
      BY <2>3, <2>4, <3>4, <3>5
  <2>7. QED
    BY <2>5, <2>6
<1>12. Sum(lo, S) = (n + 1) * c /\ Sum(hi, S) = (c - 1) * n
  <2>1. n + 1 \in Int /\ c - 1 \in Int /\ \A i \in S : s.data[i] \in Int /\ f[i] \in Int
    BY <1>2, <1>4
  <2>2. Sum(lo, S) = (n + 1) * Sum(s.data, S) /\ Sum(hi, S) = (c - 1) * Sum(f, S)
    BY <1>1, <1>10, <2>1, SumScale
  <2>3. QED
    BY <1>1, <1>5, <2>2
<1>13. (n + 1) * c <= (c - 1) * n
  BY <1>1, <1>11, <1>12, SumMono
<1>14. (n + 1) * c = n * c + c /\ (c - 1) * n = n * c - n
  OBVIOUS
<1>15. QED
  BY <1>5, <1>13, <1>14

LEMMA WithinSome ==
  ASSUME NEW s, Bounded(s)
  PROVE  stats_within_stdev(s) > 0
<1>1. s.count = 1 \/ s.count >= 2
  BY DEF Bounded, Table
<1>2. QED
  BY <1>1, OneIsNear, SomeAreNear, WithinIs

-------------------------------------------------------------------------------
(* The entries a script is given, by their index.                           *)
Entries(s) == {i \in Scanned(s) : s.data[i] # 0}

Before(s, v) == {j \in Scanned(s) : j < v /\ s.data[j] # 0}

Place(s) == [v \in Entries(s) |-> Cardinality(Before(s, v))]

LEMMA EntriesFinite ==
  ASSUME NEW s, Bounded(s)
  PROVE  /\ Entries(s) \in SUBSET Scanned(s) /\ Entries(s) \in SUBSET Value
         /\ Entries(s) \subseteq Nat
         /\ IsFiniteSet(Entries(s)) /\ Cardinality(Entries(s)) \in Nat
         /\ stats_popcount(s) = Cardinality(Entries(s))
<1>1. Entries(s) \in SUBSET Scanned(s) /\ Entries(s) \in SUBSET Value
  BY DEF Entries, Scanned
<1>2. IsFiniteSet(Entries(s))
  BY <1>1, ValueFinite, FS_Subset
<1>3. Value \subseteq Nat
  BY ValueFinite DEF Value
<1>4. QED
  BY <1>1, <1>2, <1>3, FS_CardinalityType DEF stats_popcount, Entries

LEMMA PlacesAscend ==
  ASSUME NEW s, Bounded(s), NEW v \in Entries(s), NEW w \in Entries(s), v < w
  PROVE  Place(s)[v] < Place(s)[w]
<1>1. PICK A, B : A = Before(s, v) /\ B = Before(s, w)
  OBVIOUS
<1>2. \A j \in Scanned(s) : j \in Nat
  BY ScannedHasAll, ValueFinite DEF Value
<1>3. v \in Nat /\ w \in Nat /\ v \in Scanned(s) /\ s.data[v] # 0
  BY <1>2 DEF Entries
<1>4. A \in SUBSET B /\ v \in B /\ v \notin A
  <2>1. ASSUME NEW j \in A PROVE j \in B
    <3>1. j \in Scanned(s) /\ j < v /\ s.data[j] # 0
      BY <1>1 DEF Before
    <3>2. j < w
      BY <1>2, <1>3, <3>1
    <3>3. QED
      BY <1>1, <3>1, <3>2 DEF Before
  <2>2. v \in B
    BY <1>1, <1>3 DEF Before
  <2>3. v \notin A
    <3>1. ~(v < v)
      BY <1>3
    <3>2. QED
      BY <1>1, <3>1 DEF Before
  <2>4. QED
    BY <2>1, <2>2, <2>3
<1>5. IsFiniteSet(B)
  <2>1. B \in SUBSET Scanned(s)
    BY <1>1 DEF Before
  <2>2. QED
    BY <2>1, ScannedHasAll, FS_Subset
<1>6. IsFiniteSet(A) /\ Cardinality(A) <= Cardinality(B) /\ Cardinality(A) # Cardinality(B)
  BY <1>4, <1>5, FS_Subset
<1>7. Cardinality(A) \in Nat /\ Cardinality(B) \in Nat
  BY <1>5, <1>6, FS_CardinalityType
<1>8. QED
  BY <1>1, <1>6, <1>7 DEF Place

LEMMA PlaceRange ==
  ASSUME NEW s, Bounded(s), NEW v \in Entries(s)
  PROVE  Place(s)[v] \in 0 .. (Cardinality(Entries(s)) - 1)
<1>1. PICK A : A = Before(s, v)
  OBVIOUS
<1>2. A \in SUBSET Entries(s) /\ v \notin A
  <2>1. A \in SUBSET Entries(s)
    BY <1>1 DEF Before, Entries
  <2>2. ~(v < v)
    BY EntriesFinite
  <2>3. QED
    BY <1>1, <2>1, <2>2 DEF Before
<1>3. /\ IsFiniteSet(A) /\ Cardinality(A) <= Cardinality(Entries(s))
      /\ Cardinality(A) # Cardinality(Entries(s))
  BY <1>2, EntriesFinite, FS_Subset
<1>4. Cardinality(A) \in Nat /\ Cardinality(Entries(s)) \in Nat
  BY <1>3, EntriesFinite, FS_CardinalityType
<1>5. QED
  BY <1>1, <1>3, <1>4 DEF Place

LEMMA PlaceDistinct ==
  ASSUME NEW s, Bounded(s), NEW v \in Entries(s), NEW w \in Entries(s),
         Place(s)[v] = Place(s)[w]
  PROVE  v = w
<1>1. v \in Nat /\ w \in Nat
  BY EntriesFinite
<1>2. Place(s)[v] \in Int
  BY PlaceRange
<1>3. ~(v < w) /\ ~(w < v)
  BY <1>2, PlacesAscend
<1>4. QED
  BY <1>1, <1>3

LEMMA EveryPlace ==
  ASSUME NEW s, Bounded(s), NEW k \in 0 .. (stats_popcount(s) - 1)
  PROVE  \E v \in Entries(s) : Place(s)[v] = k
<1>1. PICK N \in Nat : N = Cardinality(Entries(s)) /\ N = stats_popcount(s)
  BY EntriesFinite
<1>2. PICK V, I, f : V = Entries(s) /\ I = 0 .. (N - 1) /\ f = Place(s)
  OBVIOUS
<1>3. IsFiniteSet(I) /\ Cardinality(I) = N
  BY <1>1, <1>2, FS_Interval
<1>4. f \in [V -> I]
  BY <1>1, <1>2, PlaceRange DEF Place
<1>5. f \in Injection(V, I)
  BY <1>2, <1>4, PlaceDistinct DEF Injection, IsInjective
<1>6. f \in Surjection(V, I)
  BY <1>1, <1>2, <1>3, <1>5, FS_Injection
<1>7. QED
  BY <1>1, <1>2, <1>6 DEF Surjection

LEMMA ValueAtIs ==
  ASSUME NEW s, Bounded(s), NEW v \in Entries(s)
  PROVE  stats_value_at(s, Place(s)[v]) = <<v, s.data[v]>>
<1>1. PICK k \in Int : k = Place(s)[v]
  BY PlaceRange
<1>2. PICK at : at = {i \in Scanned(s) :
                        /\ s.data[i] # 0
                        /\ Cardinality({j \in Scanned(s) : j < i /\ s.data[j] # 0}) = k}
  OBVIOUS
<1>3. at = {i \in Entries(s) : Place(s)[i] = k}
  BY <1>2 DEF Entries, Place, Before
<1>4. at = {v}
  BY <1>1, <1>3, PlaceDistinct
<1>5. Min(at) = v
  <2>1. v \in Nat
    BY EntriesFinite
  <2>2. QED
    BY <1>4, <2>1, MinOf
<1>6. stats_value_at(s, k) = <<Min(at), s.data[Min(at)]>>
  BY <1>2, <1>4 DEF stats_value_at
<1>7. QED
  BY <1>1, <1>5, <1>6

(* The values are given in ascending order.                                 *)
LEMMA ValuesAscend ==
  ASSUME NEW s, Bounded(s), NEW k \in 0 .. (stats_popcount(s) - 2)
  PROVE  stats_value_at(s, k)[1] < stats_value_at(s, k + 1)[1]
<1>1. k \in 0 .. (stats_popcount(s) - 1) /\ k + 1 \in 0 .. (stats_popcount(s) - 1)
  BY EntriesFinite
<1>2. PICK v \in Entries(s), w \in Entries(s) : Place(s)[v] = k /\ Place(s)[w] = k + 1
  BY <1>1, EveryPlace
<1>3. v < w
  <2>1. v \in Nat /\ w \in Nat /\ k \in Int
    BY EntriesFinite
  <2>2. v # w /\ ~(w < v)
    BY <1>2, <2>1, PlacesAscend
  <2>3. QED
    BY <2>1, <2>2
<1>4. stats_value_at(s, k) = <<v, s.data[v]>> /\ stats_value_at(s, k + 1) = <<w, s.data[w]>>
  BY <1>2, ValueAtIs
<1>5. QED
  BY <1>3, <1>4

(* A sum does not depend on the names of what is summed.                    *)
LEMMA SumRenamed ==
  ASSUME NEW V, IsFiniteSet(V), NEW I, IsFiniteSet(I), NEW r \in [V -> I],
         NEW f, NEW h, \A i \in I : h[i] \in Int,
         \A v \in V : f[v] \in Int /\ h[r[v]] = f[v],
         \A v \in V : \A w \in V : r[v] = r[w] => v = w,
         \A i \in I : \E v \in V : r[v] = i
  PROVE  Sum(h, I) = Sum(f, V)
<1> DEFINE Image(T) == {i \in I : \E v \in T : r[v] = i}
           U == {T \in SUBSET V : Sum(h, Image(T)) = Sum(f, T)}
<1>1. {} \in U
  <2>1. Image({}) = {}
    OBVIOUS
  <2>2. QED
    BY <2>1, SumNone
<1>2. ASSUME NEW T \in U, NEW x \in V \ T PROVE T \cup {x} \in U
  <2>1. Sum(f, T \cup {x}) = f[x] + Sum(f, T)
    BY SumAdd
  <2>2. PICK J \in SUBSET I : J = Image(T)
    OBVIOUS
  <2>3. PICK y \in I \ J : y = r[x]
    BY <2>2
  <2>4. Sum(h, J \cup {y}) = h[y] + Sum(h, J)
    BY SumAdd
  <2>5. Image(T \cup {x}) = J \cup {y}
    BY <2>2, <2>3
  <2>6. QED
    BY <2>1, <2>2, <2>3, <2>4, <2>5
<1>3. U \in SUBSET SUBSET V
  OBVIOUS
<1>4. U = SUBSET V
  <2> HIDE DEF U
  <2>1. QED
    BY <1>1, <1>2, <1>3, BuildUp
<1>5. V \in U /\ Image(V) = I
  BY <1>4
<1>6. QED
  BY <1>5

Counts(s) == [i \in Nat |-> stats_value_at(s, i)[2]]

CountsUp(s, S, g) ==
  g = [T \in SUBSET S |-> IF T = {} THEN 0
                          ELSE LET x == CHOOSE x \in T : TRUE
                               IN  stats_value_at(s, x)[2] + g[T \ {x}]]

LEMMA CountsAre ==
  ASSUME NEW s, NEW S \in SUBSET Nat, NEW g
  PROVE  CountsUp(s, S, g) <=> SumsUp(Counts(s), S, g)
<1>1. ASSUME NEW T \in SUBSET S, T # {}
      PROVE  Counts(s)[CHOOSE x \in T : TRUE] = stats_value_at(s, CHOOSE x \in T : TRUE)[2]
  <2>1. PICK x : x = CHOOSE y \in T : TRUE
    OBVIOUS
  <2>2. x \in Nat
    BY <1>1, <2>1
  <2>3. QED
    BY <2>1, <2>2 DEF Counts
<1>2. [T \in SUBSET S |-> IF T = {} THEN 0
                          ELSE LET x == CHOOSE x \in T : TRUE
                               IN  stats_value_at(s, x)[2] + g[T \ {x}]]
      = [T \in SUBSET S |-> IF T = {} THEN 0
                          ELSE LET x == CHOOSE x \in T : TRUE IN Counts(s)[x] + g[T \ {x}]]
  BY <1>1
<1>3. QED
  BY <1>2 DEF CountsUp, SumsUp

LEMMA CountsSum ==
  ASSUME NEW s, NEW S \in SUBSET Nat, IsFiniteSet(S)
  PROVE  MapThenSumSet(LAMBDA i : stats_value_at(s, i)[2], S) = Sum(Counts(s), S)
<1>1. MapThenSumSet(LAMBDA i : stats_value_at(s, i)[2], S) = (CHOOSE g : CountsUp(s, S, g))[S]
  BY DEF MapThenSumSet, MapThenFoldSet, CountsUp
<1>2. \E g : CountsUp(s, S, g)
  BY AllSummed, CountsAre DEF Summed
<1>3. PICK g : g = (CHOOSE h : CountsUp(s, S, h)) /\ CountsUp(s, S, g)
  BY <1>2
<1>4. SumsUp(Counts(s), S, g)
  BY <1>3, CountsAre
<1>5. Sum(Counts(s), S) = g[S]
  <2>1. S \in SUBSET S
    OBVIOUS
  <2>2. QED
    BY <1>4, <2>1, AllSummed, SumsUpIs
<1>6. QED
  BY <1>1, <1>3, <1>5

(* The counts given with them are all there are.                            *)
LEMMA ValuesAreAll ==
  ASSUME NEW s, Bounded(s)
  PROVE  s.count = Sum(Counts(s), 0 .. (stats_popcount(s) - 1))
<1>1. PICK N \in Nat : N = Cardinality(Entries(s)) /\ N = stats_popcount(s)
  BY EntriesFinite
<1>2. PICK I \in SUBSET Nat : I = 0 .. (N - 1) /\ IsFiniteSet(I)
  BY FS_Interval
<1>3. PICK V \in SUBSET Scanned(s) : V = Entries(s) /\ IsFiniteSet(V)
  BY EntriesFinite
<1>4. PICK r \in [V -> I] : r = Place(s)
  BY <1>1, <1>2, <1>3, PlaceRange DEF Place
<1>5. \A v \in V : /\ s.data[v] \in Int
                   /\ Counts(s)[r[v]] = s.data[v]
  <2>1. SUFFICES ASSUME NEW v \in V
                 PROVE  s.data[v] \in Int /\ Counts(s)[r[v]] = s.data[v]
    OBVIOUS
  <2>2. s.data[v] \in Int /\ v \in Entries(s)
    BY <1>3, ScannedHasAll DEF Bounded, Table
  <2>3. r[v] \in Nat
    OBVIOUS
  <2>4. Counts(s)[r[v]] = stats_value_at(s, r[v])[2]
    BY <2>3 DEF Counts
  <2>5. stats_value_at(s, r[v]) = <<v, s.data[v]>>
    BY <1>4, <2>2, ValueAtIs
  <2>6. QED
    BY <2>2, <2>4, <2>5
<1>6. \A i \in I : \E v \in V : r[v] = i
  BY <1>1, <1>2, <1>3, <1>4, EveryPlace
<1>7. \A i \in I : Counts(s)[i] \in Int
  BY <1>5, <1>6
<1>8. \A v \in V : \A w \in V : r[v] = r[w] => v = w
  BY <1>3, <1>4, PlaceDistinct
<1>9. Sum(Counts(s), I) = Sum(s.data, V)
  BY <1>2, <1>3, <1>5, <1>6, <1>7, <1>8, SumRenamed
<1>10. Sum(s.data, Scanned(s)) = Sum(s.data, V)
  <2>1. \A i \in Scanned(s) : s.data[i] \in Int
    BY ScannedHasAll DEF Bounded, Table
  <2>2. \A i \in Scanned(s) \ V : s.data[i] = 0
    BY <1>3 DEF Entries
  <2>3. QED
    BY <2>1, <2>2, ScannedHasAll, SumOfZeros
<1>11. QED
  BY <1>1, <1>2, <1>9, <1>10, ScannedHasAll

LEMMA SummarisedIsBounded ==
  ASSUME StatsInv, Summarised
  PROVE  Bounded(stats)
<1>1. CASE interval = 0
  <2>1. Exact(stats)
    BY <1>1, RecordedExact DEF StatsInv, Summarised
  <2>2. QED
    BY <2>1, ExactIsBounded DEF Summarised
<1>2. CASE interval # 0
  <2>1. PICK s : Exact(s) /\ stats = stats_correct(s, interval)
    BY <1>2 DEF StatsInv
  <2>2. interval \in Nat \ {0}
    BY <1>2 DEF StatsInv, StatsTypes
  <2>3. stats.min = s.min
    BY <2>1, <2>2, CorrectedAll DEF Exact, Corrected
  <2>4. interval >= s.min /\ stats_correct(s, interval).count > 0
    BY <1>2, <2>1, <2>3 DEF Summarised
  <2>5. QED
    BY <2>1, <2>2, <2>4, CorrectedIsBounded
<1>3. QED
  BY <1>1, <1>2

(* What main prints of any table, as recorded or corrected: percentiles,    *)
(* mean, deviation and the entries given to a script.                       *)
THEOREM SummaryExact == Spec => []SummaryIsOfTable
<1>1. StatsInv => SummaryIsOfTable
  <2> SUFFICES ASSUME StatsInv, Summarised PROVE SummaryIsOfTable
    BY DEF SummaryIsOfTable
  <2>1. Bounded(stats)
    BY SummarisedIsBounded
  <2>2. \A p \in Percents :
          stats_percentile(stats, p)
            = Min({v \in Value : 100 * Total(stats, 0 .. v) > p * stats.count})
    BY <2>1, PercentileIs, StatsAssumption
  <2>3. /\ stats.min * stats_mean(stats).count <= stats_mean(stats).sum
        /\ stats_mean(stats).sum <= stats.max * stats_mean(stats).count
    BY <2>1, MeanWithin, MeanIs
  <2>4. stats_within_stdev(stats) > 0
    BY <2>1, WithinSome
  <2>5. \A i \in 0 .. (stats_popcount(stats) - 2) :
          stats_value_at(stats, i)[1] < stats_value_at(stats, i + 1)[1]
    BY <2>1, ValuesAscend
  <2>6. stats.count = MapThenSumSet(LAMBDA i : stats_value_at(stats, i)[2],
                                    0 .. (stats_popcount(stats) - 1))
    <3>1. PICK S \in SUBSET Nat : S = 0 .. (stats_popcount(stats) - 1) /\ IsFiniteSet(S)
      <4>1. stats_popcount(stats) - 1 \in Int
        BY <2>1, EntriesFinite
      <4>2. QED
        BY <4>1, FS_Interval
    <3>2. MapThenSumSet(LAMBDA i : stats_value_at(stats, i)[2], S) = Sum(Counts(stats), S)
      BY <3>1, CountsSum
    <3>3. QED
      BY <2>1, <3>1, <3>2, ValuesAreAll
  <2>7. QED
    BY <2>2, <2>3, <2>4, <2>5, <2>6 DEF SummaryIsOfTable
<1>2. QED
  BY <1>1, StatsInductive, PTL

===============================================================================
