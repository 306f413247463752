--------------------------- MODULE FrontEndProofs ---------------------------
(***************************************************************************)
(* Proofs about the life of a codec server process and its rate limiter,   *)
(* for any number of requests, calls and clients, any configuration and    *)
(* any limits on time.                                                     *)
(***************************************************************************)
EXTENDS FrontEnd, NumberLemmas, FiniteSetTheorems

(***************************************************************************)
(* Limiters.                                                               *)
(***************************************************************************)
LEMMA NamesAreFinite ==
    /\ IsFiniteSet(Name) /\ Cardinality(Name) \in Nat
    /\ IsFiniteSet(Slot) /\ Cardinality(Slot) \in Nat
<1>1. IsFiniteSet(Name)
  <2>1. [source \in Source |-> getIP(source)] \in Surjection(Source, Name)
    BY DEF Surjection, Name
  <2> QED
    BY <2>1, LimiterAssumption, FS_Surjection
<1> QED
  BY <1>1, LimiterAssumption, FS_CardinalityType

(* There is always a limiter that nobody refers to.                        *)
LEMMA FreshLimiter ==
    ASSUME LimiterTypeOK, NEW n \in Name, ips[n] = None,
           NEW q \in Slot, slot[q].held = None
    PROVE  LET fresh == Min(Limiter \ Live(ips, slot))
           IN  fresh \in Limiter /\ fresh \notin Live(ips, slot)
<1> DEFINE Tabled == {ips[m] : m \in Name \ {n}}
           Held == {slot[r].held : r \in Slot \ {q}}
<1>1. Live(ips, slot) \subseteq Tabled \cup Held
  BY DEF Live, Range, LimiterTypeOK
<1>2. /\ IsFiniteSet(Tabled)
      /\ Cardinality(Tabled) <= Cardinality(Name \ {n})
  <2>1. IsFiniteSet(Name \ {n})
    BY NamesAreFinite, FS_RemoveElement
  <2>2. [m \in Name \ {n} |-> ips[m]] \in Surjection(Name \ {n}, Tabled)
    BY DEF Surjection
  <2> QED
    BY <2>1, <2>2, FS_Surjection
<1>3. IsFiniteSet(Held) /\ Cardinality(Held) <= Cardinality(Slot \ {q})
  <2>1. IsFiniteSet(Slot \ {q})
    BY NamesAreFinite, FS_RemoveElement
  <2>2. [r \in Slot \ {q} |-> slot[r].held]
            \in Surjection(Slot \ {q}, Held)
    BY DEF Surjection
  <2> QED
    BY <2>1, <2>2, FS_Surjection
<1>4. /\ Cardinality(Name \ {n}) = Cardinality(Name) - 1
      /\ Cardinality(Slot \ {q}) = Cardinality(Slot) - 1
  BY NamesAreFinite, FS_RemoveElement
<1> HIDE DEF Tabled, Held
<1>5. /\ IsFiniteSet(Tabled \cup Held)
      /\ Cardinality(Tabled \cup Held) <= Cardinality(Tabled) + Cardinality(Held)
  <2>1. IsFiniteSet(Tabled \cap Held)
    BY <1>2, FS_Subset
  <2>2. /\ Cardinality(Tabled \cap Held) \in Nat
        /\ Cardinality(Tabled) \in Nat /\ Cardinality(Held) \in Nat
    BY <1>2, <1>3, <2>1, FS_CardinalityType
  <2>3. /\ IsFiniteSet(Tabled \cup Held)
        /\ Cardinality(Tabled \cup Held) =
               Cardinality(Tabled) + Cardinality(Held)
                   - Cardinality(Tabled \cap Held)
    BY <1>2, <1>3, FS_Union
  <2> QED
    BY <2>2, <2>3
<1>6. Cardinality(Limiter) = Cardinality(Name) + Cardinality(Slot)
  BY NamesAreFinite, FS_Interval DEF Limiter
<1>7. ~ (Limiter \subseteq Live(ips, slot))
  <2> SUFFICES ASSUME Limiter \subseteq Live(ips, slot) PROVE FALSE
    OBVIOUS
  <2>1. Cardinality(Limiter) <= Cardinality(Tabled \cup Held)
    BY <1>1, <1>5, FS_Subset
  <2>2. /\ Cardinality(Tabled) \in Nat /\ Cardinality(Held) \in Nat
        /\ Cardinality(Tabled \cup Held) \in Nat
    BY <1>2, <1>3, <1>5, FS_CardinalityType
  <2> QED
    BY <1>2, <1>3, <1>4, <1>5, <1>6, <2>1, <2>2, NamesAreFinite
<1>8. Limiter \ Live(ips, slot) \in SUBSET Nat
  BY DEF Limiter
<1> QED
  BY <1>7, <1>8, MinIsLeast

(***************************************************************************)
(* The inductive invariant of the limiter.                                 *)
(***************************************************************************)
Asking(q) == slot[q].at = "asking"

(* A limiter is the one of a name while it is in the table under the name  *)
(* or a request of the name holds it.                                      *)
Owns(n, l) ==
    \/ ips[n] = l
    \/ \E q \in Slot : Asking(q) /\ NameOf(q) = n /\ slot[q].held = l

TableInv ==
    /\ \A q \in Slot :
           /\ slot[q].at \in {"arrived", "asking"} => slot[q].source \in Source
           /\ slot[q].held # None <=> Asking(q)
    /\ \A l \in Limiter, n, m \in Name : Owns(n, l) /\ Owns(m, l) => n = m

(* The requests that hold a limiter which is no longer in the table.       *)
LateOf(n) ==
    {q \in Slot : Asking(q) /\ NameOf(q) = n /\ slot[q].held # ips[n]}

(* What a name may still be admitted with: the units of its limiter, or of *)
(* the new one it will get, and those of the removed ones it still holds.  *)
Stock(n) == IF ips[n] = None THEN Full ELSE level[ips[n]]

Potential(n) == Stock(n) + Cardinality(LateOf(n)) * Cost

Extra == Full + Cardinality(Slot) * Cost

Allowance(w) == (1 + removed[w]) * Extra + config.rps * w

RateOf(n) ==
    \A w \in 0..Horizon : recent[n][w] * Cost + Potential(n) <= Allowance(w)

(* The units of the last w ticks that a name did not use.                  *)
Unused(n, w) == config.rps * w - recent[n][w] * Cost

(* A limiter has what was not used for any length of time, or has been     *)
(* full since and has what was not used since.                             *)
FloorOf(n, l) ==
    \A w \in 0..Horizon :
        \/ level[l] >= Unused(n, w)
        \/ \E v \in 0..w : level[l] >= Full + Unused(n, v)

UsageInv ==
    /\ \A n \in Name : RateOf(n)
    /\ \A n \in Name, l \in Limiter : Owns(n, l) => FloorOf(n, l)

Valid == config.rps \in Nat /\ config.burst \in Nat

LimiterInv == LimiterTypeOK /\ TableInv /\ (Valid => UsageInv)

LEMMA Products ==
    /\ \A r \in Nat : (r + 1) * Cost = r * Cost + Cost /\ r * Cost \in Nat
    /\ 0 * Cost = 0
    /\ Valid => /\ Full \in Nat
                /\ \A w \in Nat : config.rps * w \in Nat
                /\ \A w \in Nat \ {0} :
                       config.rps * w = config.rps * (w - 1) + config.rps
BY LimiterAssumption DEF Valid, Full

LEMMA Allowances ==
    ASSUME Valid
    PROVE  /\ Extra \in Nat /\ Full <= Extra
           /\ \A r \in Nat : /\ (1 + r) * Extra \in Nat
                             /\ (1 + (r + 1)) * Extra = (1 + r) * Extra + Extra
           /\ (1 + 0) * Extra = Extra
<1>1. Full \in Nat /\ Cardinality(Slot) * Cost \in Nat
  BY Products, NamesAreFinite
<1>2. Extra \in Nat /\ Full <= Extra
  BY <1>1 DEF Extra
<1> HIDE DEF Extra
<1> QED
  BY <1>2

LEMMA NoneIsNoLimiter == None \notin Limiter
BY LimiterAssumption DEF Limiter

LEMMA OwnedIsLive ==
    ASSUME LimiterTypeOK, NEW n \in Name, NEW l \in Limiter, Owns(n, l)
    PROVE  l \in Live(ips, slot)
BY NoneIsNoLimiter DEF Owns, Live, Range, LimiterTypeOK

LEMMA LateIsFinite ==
    ASSUME NEW n
    PROVE  /\ IsFiniteSet(LateOf(n)) /\ Cardinality(LateOf(n)) \in Nat
           /\ Cardinality(LateOf(n)) <= Cardinality(Slot)
<1>1. LateOf(n) \subseteq Slot
  BY DEF LateOf
<1> QED
  BY <1>1, NamesAreFinite, FS_Subset, FS_CardinalityType

PotentialOK ==
    \A n \in Name :
        /\ Stock(n) \in Nat /\ Potential(n) \in Nat
        /\ Cardinality(LateOf(n)) * Cost \in Nat
        /\ Cardinality(LateOf(n)) * Cost <= Cardinality(Slot) * Cost

LEMMA PotentialType == LimiterTypeOK /\ Valid => PotentialOK
<1> SUFFICES ASSUME LimiterTypeOK, Valid, NEW n \in Name
             PROVE  /\ Stock(n) \in Nat /\ Potential(n) \in Nat
                    /\ Cardinality(LateOf(n)) * Cost \in Nat
                    /\ Cardinality(LateOf(n)) * Cost
                           <= Cardinality(Slot) * Cost
  BY DEF PotentialOK
<1>1. Stock(n) \in Nat
  BY Products DEF Stock, LimiterTypeOK
<1> DEFINE a == Cardinality(LateOf(n))
           b == Cardinality(Slot)
<1>2. a \in Nat /\ b \in Nat /\ a <= b
  BY LateIsFinite, NamesAreFinite
<1> HIDE DEF a, b
<1>3. \A x, y \in Nat : x <= y => x * Cost <= y * Cost
  BY LimiterAssumption
<1>4. a * Cost \in Nat /\ a * Cost <= b * Cost
  BY <1>2, <1>3, Products
<1> QED
  BY <1>1, <1>4 DEF Potential, a, b

(***************************************************************************)
(* What a step does to the usage of a name.                                *)
(***************************************************************************)
Idles(n) ==
    /\ UNCHANGED <<recent[n], removed>>
    /\ Potential(n)' <= Potential(n)

Spends(n) ==
    /\ \A w \in 0..Horizon : recent'[n][w] = recent[n][w] + 1
    /\ UNCHANGED removed
    /\ Potential(n)' + Cost <= Potential(n)

Loses(n) ==
    /\ UNCHANGED recent[n]
    /\ \A w \in 0..Horizon : removed'[w] = removed[w] + 1
    /\ Potential(n)' <= Potential(n) + Extra

Ages(n) ==
    /\ \A w \in 0..Horizon :
           /\ recent'[n][w] = IF w = 0 THEN 0 ELSE recent[n][w - 1]
           /\ removed'[w] = IF w = 0 THEN 0 ELSE removed[w - 1]
    /\ Potential(n)' <= Potential(n) + config.rps
    /\ Potential(n)' <= Extra

LEMMA RateStep ==
    ASSUME LimiterTypeOK, LimiterTypeOK', Valid, config' = config,
           NEW n \in Name, RateOf(n),
           Idles(n) \/ Spends(n) \/ Loses(n) \/ Ages(n)
    PROVE  RateOf(n)'
<1>1. Valid' /\ Extra' = Extra
  BY DEF Valid, Extra, Full
<1>2. Potential(n) \in Nat /\ Potential(n)' \in Nat
  <2>1. PotentialOK /\ PotentialOK'
    BY <1>1, PotentialType, PTL
  <2> QED
    BY <2>1 DEF PotentialOK
<1> DEFINE P == Potential(n)
           Q == Potential(n)'
<1> HIDE DEF P, Q
<1> SUFFICES ASSUME NEW w \in 0..Horizon
             PROVE  recent'[n][w] * Cost + Q
                        <= (1 + removed'[w]) * Extra + config.rps * w
  BY <1>1 DEF RateOf, Allowance, Q
<1> DEFINE a == recent[n][w] * Cost
           A == (1 + removed[w]) * Extra
           b == config.rps * w
<1>3. w \in Nat /\ recent[n][w] \in Nat /\ removed[w] \in Nat
  BY LimiterAssumption DEF LimiterTypeOK
<1>4. /\ a \in Nat /\ A \in Nat /\ b \in Nat /\ Extra \in Nat
      /\ P \in Nat /\ Q \in Nat /\ Cost \in Nat
  BY <1>2, <1>3, Products, Allowances, LimiterAssumption DEF P, Q
<1>5. a + P <= A + b
  BY DEF RateOf, Allowance, P
<1>6. CASE Idles(n)
  <2>1. recent'[n][w] * Cost = a /\ (1 + removed'[w]) * Extra = A
    BY <1>6 DEF Idles
  <2>2. Q <= P
    BY <1>6 DEF Idles, P, Q
  <2> HIDE DEF a, A, b
  <2>3. a + Q <= A + b
    BY <1>4, <1>5, <2>2
  <2> QED
    BY <2>1, <2>3 DEF b
<1>7. CASE Spends(n)
  <2>1. recent'[n][w] * Cost = a + Cost /\ (1 + removed'[w]) * Extra = A
    BY <1>3, <1>7, Products DEF Spends
  <2>2. Q + Cost <= P
    BY <1>7 DEF Spends, P, Q
  <2> HIDE DEF a, A, b
  <2>3. (a + Cost) + Q <= A + b
    BY <1>4, <1>5, <2>2
  <2> QED
    BY <2>1, <2>3 DEF b
<1>8. CASE Loses(n)
  <2>1. recent'[n][w] * Cost = a /\ (1 + removed'[w]) * Extra = A + Extra
    <3>1. recent'[n][w] = recent[n][w] /\ 1 + removed'[w] = 1 + (removed[w] + 1)
      BY <1>8 DEF Loses
    <3> QED
      BY <1>3, <3>1, Allowances
  <2>2. Q <= P + Extra
    BY <1>8 DEF Loses, P, Q
  <2> HIDE DEF a, A, b
  <2>3. a + Q <= (A + Extra) + b
    BY <1>4, <1>5, <2>2
  <2> QED
    BY <2>1, <2>3 DEF b
<1>9. CASE Ages(n)
  <2>1. Q <= P + config.rps /\ Q <= Extra /\ config.rps \in Nat
    BY <1>9 DEF Ages, P, Q, Valid
  <2>2. CASE w = 0
    <3>1. recent'[n][w] * Cost = 0 /\ (1 + removed'[w]) * Extra = Extra
      BY <1>9, <2>2, Products, Allowances DEF Ages
    <3> HIDE DEF b
    <3>2. 0 + Q <= Extra + b
      BY <1>4, <2>1
    <3> QED
      BY <3>1, <3>2 DEF b
  <2>3. CASE w # 0
    <3> DEFINE c == recent[n][w - 1] * Cost
               C == (1 + removed[w - 1]) * Extra
               d == config.rps * (w - 1)
    <3>1. w - 1 \in 0..Horizon /\ w - 1 \in Nat /\ w \in Nat \ {0}
      BY <1>3, <2>3, LimiterAssumption
    <3>2. recent'[n][w] * Cost = c /\ (1 + removed'[w]) * Extra = C
      BY <1>9, <2>3 DEF Ages
    <3>3. c + P <= C + d
      BY <3>1 DEF RateOf, Allowance, P
    <3>4. c \in Nat /\ C \in Nat /\ d \in Nat /\ b = d + config.rps
      <4>1. recent[n][w - 1] \in Nat /\ removed[w - 1] \in Nat
        BY <3>1 DEF LimiterTypeOK
      <4> QED
        BY <3>1, <4>1, Products, Allowances
    <3> HIDE DEF b, c, C, d
    <3>5. c + Q <= C + b
      BY <1>4, <2>1, <3>3, <3>4
    <3> QED
      BY <3>2, <3>5 DEF b
  <2> QED
    BY <2>2, <2>3
<1> QED
  BY <1>6, <1>7, <1>8, <1>9

(* What it does to a limiter that is the one of a name afterwards.         *)
Stays(n, l) ==
    /\ level'[l] = level[l]
    /\ \A w \in 0..Horizon : recent'[n][w] >= recent[n][w]

Filled(l) == level'[l] = Full

Charged(n, l) ==
    /\ level[l] >= Cost
    /\ level'[l] = level[l] - Cost
    /\ \A w \in 0..Horizon : recent'[n][w] = recent[n][w] + 1

Refilled(n, l) ==
    /\ level'[l] = level[l] + config.rps
    /\ \A w \in 0..Horizon :
           recent'[n][w] = IF w = 0 THEN 0 ELSE recent[n][w - 1]

LEMMA UnusedType ==
    ASSUME LimiterTypeOK, Valid, NEW n \in Name, NEW w \in 0..Horizon
    PROVE  Unused(n, w) \in Int
<1>1. w \in Nat /\ recent[n][w] \in Nat
  BY LimiterAssumption DEF LimiterTypeOK
<1> DEFINE a == config.rps * w
           b == recent[n][w] * Cost
<1>2. a \in Nat /\ b \in Nat
  BY <1>1, Products
<1> HIDE DEF a, b
<1>3. a - b \in Int
  BY <1>2
<1> QED
  BY <1>3 DEF Unused, a, b

LEMMA UnusedStays ==
    ASSUME LimiterTypeOK, LimiterTypeOK', Valid, config' = config,
           NEW n \in Name, NEW w \in 0..Horizon, recent'[n][w] >= recent[n][w]
    PROVE  Unused(n, w)' \in Int /\ Unused(n, w)' <= Unused(n, w)
<1>1. w \in Nat /\ recent[n][w] \in Nat /\ recent'[n][w] \in Nat
  BY LimiterAssumption DEF LimiterTypeOK
<1> DEFINE a == config.rps * w
           b == recent[n][w] * Cost
           c == recent'[n][w] * Cost
<1>2. a \in Nat /\ b \in Nat /\ c \in Nat
  BY <1>1, Products
<1>3. \A x, y \in Nat : x <= y => x * Cost <= y * Cost
  BY LimiterAssumption
<1>4. b <= c
  BY <1>1, <1>3
<1> HIDE DEF a, b, c
<1>5. a - c \in Int /\ a - c <= a - b
  BY <1>2, <1>4
<1> QED
  BY <1>5 DEF Unused, a, b, c

LEMMA UnusedCharged ==
    ASSUME LimiterTypeOK, Valid, config' = config, NEW n \in Name,
           NEW w \in 0..Horizon, \A x \in 0..Horizon : recent'[n][x] = recent[n][x] + 1
    PROVE  Unused(n, w)' = Unused(n, w) - Cost
<1>1. w \in Nat /\ recent[n][w] \in Nat /\ Cost \in Nat
  BY LimiterAssumption DEF LimiterTypeOK
<1> DEFINE a == config.rps * w
           b == recent[n][w] * Cost
<1>2. recent'[n][w] * Cost = b + Cost
  BY <1>1, Products
<1>3. a \in Nat /\ b \in Nat
  BY <1>1, Products
<1> HIDE DEF a, b
<1>4. a - (b + Cost) = (a - b) - Cost
  BY <1>1, <1>3
<1> QED
  BY <1>2, <1>4 DEF Unused, a, b

LEMMA UnusedRefilled ==
    ASSUME LimiterTypeOK, Valid, config' = config, NEW n \in Name,
           NEW l, Refilled(n, l)
    PROVE  /\ Unused(n, 0)' = 0
           /\ \A w \in 0..Horizon : w # 0 =>
                  Unused(n, w)' = Unused(n, w - 1) + config.rps
<1>1. Unused(n, 0)' = 0
  <2>1. recent'[n][0] = 0
    BY LimiterAssumption DEF Refilled
  <2>2. config.rps * 0 = 0 /\ 0 * Cost = 0
    BY LimiterAssumption DEF Valid
  <2> QED
    BY <2>1, <2>2 DEF Unused
<1>2. ASSUME NEW w \in 0..Horizon, w # 0
      PROVE  Unused(n, w)' = Unused(n, w - 1) + config.rps
  <2> DEFINE a == config.rps * (w - 1)
             b == recent[n][w - 1] * Cost
  <2>0. w - 1 \in 0..Horizon /\ w \in Nat \ {0} /\ w - 1 \in Nat
    BY <1>2, LimiterAssumption
  <2>1. w \in Nat \ {0} /\ w - 1 \in Nat /\ recent[n][w - 1] \in Nat
    BY <2>0 DEF LimiterTypeOK
  <2>2. recent'[n][w] = recent[n][w - 1]
    BY <1>2 DEF Refilled
  <2>3. config.rps * w = a + config.rps
    BY <2>1, Products
  <2>4. a \in Nat /\ b \in Nat /\ config.rps \in Nat
    BY <2>1, Products DEF Valid
  <2> HIDE DEF a, b
  <2>5. (a + config.rps) - b = (a - b) + config.rps
    BY <2>4
  <2> QED
    BY <2>2, <2>3, <2>5 DEF Unused, a, b
<1> QED
  BY <1>1, <1>2

LEMMA FloorStep ==
    ASSUME LimiterTypeOK, LimiterTypeOK', Valid, config' = config,
           NEW n \in Name, NEW l \in Limiter,
           \/ Filled(l)
           \/ FloorOf(n, l) /\ (Stays(n, l) \/ Charged(n, l) \/ Refilled(n, l))
    PROVE  FloorOf(n, l)'
<1> SUFFICES ASSUME NEW w \in 0..Horizon
             PROVE  \/ level'[l] >= Unused(n, w)'
                    \/ \E v \in 0..w : level'[l] >= Full' + Unused(n, v)'
  BY DEF FloorOf
<1>1. /\ Full' = Full /\ Full \in Nat /\ level[l] \in Nat /\ level'[l] \in Nat
      /\ Cost \in Nat /\ config.rps \in Nat
  BY Products, LimiterAssumption DEF Full, LimiterTypeOK, Valid
<1>2. /\ 0 \in 0..w /\ 0 \in 0..Horizon /\ w \in Nat /\ Horizon \in Nat
      /\ \A v \in 0..w : v \in 0..Horizon
  BY LimiterAssumption
<1>3. \A x \in 0..Horizon : Unused(n, x) \in Int
  BY UnusedType
<1>4. CASE Filled(l)
  <2>1. Unused(n, 0)' <= 0 /\ Unused(n, 0)' \in Int
    <3> DEFINE b == recent'[n][0] * Cost
    <3>1. config.rps * 0 = 0
      BY <1>1
    <3>2. recent'[n][0] \in Nat
      BY <1>2 DEF LimiterTypeOK
    <3>3. b \in Nat
      BY <3>2, Products
    <3> HIDE DEF b
    <3>4. 0 - b <= 0 /\ 0 - b \in Int
      BY <3>3
    <3> QED
      BY <3>1, <3>4 DEF Unused, b
  <2> DEFINE u == Unused(n, 0)'
  <2> HIDE DEF u
  <2>2. Full >= Full + u
    BY <1>1, <2>1 DEF u
  <2> QED
    BY <1>1, <1>2, <1>4, <2>2 DEF Filled, u
<1> SUFFICES ASSUME FloorOf(n, l), Stays(n, l) \/ Charged(n, l) \/ Refilled(n, l)
             PROVE  \/ level'[l] >= Unused(n, w)'
                    \/ \E v \in 0..w : level'[l] >= Full' + Unused(n, v)'
  BY <1>4
<1>5. \A x \in 0..Horizon : \/ level[l] >= Unused(n, x)
                            \/ \E v \in 0..x : level[l] >= Full + Unused(n, v)
  BY DEF FloorOf
<1>6. CASE Stays(n, l)
  <2>1. \A x \in 0..Horizon :
            Unused(n, x)' \in Int /\ Unused(n, x)' <= Unused(n, x)
    BY <1>6, UnusedStays DEF Stays
  <2>2. CASE level[l] >= Unused(n, w)
    BY <1>1, <1>3, <1>6, <2>1, <2>2 DEF Stays
  <2>3. CASE \E v \in 0..w : level[l] >= Full + Unused(n, v)
    <3>1. PICK v \in 0..w : level[l] >= Full + Unused(n, v)
      BY <2>3
    <3> DEFINE u == Unused(n, v)
               x == Unused(n, v)'
    <3>2. u \in Int /\ x \in Int /\ x <= u
      BY <1>2, <1>3, <2>1
    <3> HIDE DEF u, x
    <3>3. level'[l] >= Full + x
      BY <1>1, <1>6, <3>1, <3>2 DEF Stays, u
    <3> QED
      BY <1>1, <3>3 DEF x
  <2> QED
    BY <1>5, <2>2, <2>3
<1>7. CASE Charged(n, l)
  <2>1. \A x \in 0..Horizon : Unused(n, x)' = Unused(n, x) - Cost
    BY <1>7, UnusedCharged DEF Charged
  <2>2. level'[l] = level[l] - Cost
    BY <1>7 DEF Charged
  <2>3. ASSUME NEW u \in Int, NEW k \in Int, level[l] >= k + u
        PROVE  level'[l] >= k + (u - Cost)
    BY <1>1, <2>2, <2>3
  <2>4. CASE level[l] >= Unused(n, w)
    BY <1>1, <1>3, <2>1, <2>2, <2>4
  <2>5. CASE \E v \in 0..w : level[l] >= Full + Unused(n, v)
    <3>1. PICK v \in 0..w : level[l] >= Full + Unused(n, v)
      BY <2>5
    <3>2. v \in 0..Horizon
      BY <1>2
    <3>3. level'[l] >= Full + (Unused(n, v) - Cost)
      BY <1>1, <1>3, <2>3, <3>1, <3>2
    <3> QED
      BY <1>1, <2>1, <3>2, <3>3
  <2> QED
    BY <1>5, <2>4, <2>5
<1>8. CASE Refilled(n, l)
  <2>1. /\ Unused(n, 0)' = 0
        /\ \A x \in 0..Horizon : x # 0 =>
               Unused(n, x)' = Unused(n, x - 1) + config.rps
    BY <1>8, UnusedRefilled
  <2>2. level'[l] = level[l] + config.rps
    BY <1>8 DEF Refilled
  <2>3. CASE w = 0
    BY <1>1, <2>1, <2>3
  <2>4. CASE w # 0
    <3>1. w - 1 \in 0..Horizon
      BY <1>2, <2>4
    <3>2. Unused(n, w)' = Unused(n, w - 1) + config.rps
      BY <2>1, <2>4
    <3>3. CASE level[l] >= Unused(n, w - 1)
      BY <1>1, <1>3, <2>2, <3>1, <3>2, <3>3
    <3>4. CASE \E v \in 0..(w - 1) : level[l] >= Full + Unused(n, v)
      <4>1. PICK v \in 0..(w - 1) : level[l] >= Full + Unused(n, v)
        BY <3>4
      <4>2. /\ v \in 0..Horizon /\ v + 1 \in 0..w /\ v + 1 \in 0..Horizon
            /\ v + 1 # 0 /\ (v + 1) - 1 = v
        BY <1>2, <2>4
      <4>3. Unused(n, v + 1)' = Unused(n, v) + config.rps
        BY <2>1, <4>2
      <4>4. level'[l] >= Full + (Unused(n, v) + config.rps)
        BY <1>1, <1>3, <2>2, <4>1, <4>2
      <4> QED
        BY <1>1, <4>2, <4>3, <4>4
    <3> QED
      BY <1>5, <3>1, <3>3, <3>4
  <2> QED
    BY <2>3, <2>4
<1> QED
  BY <1>6, <1>7, <1>8

(* Whatever does one of these to every name keeps the invariant.           *)
LEMMA UsageStep ==
    ASSUME LimiterInv, LimiterTypeOK', TableInv', config' = config,
           Valid => \A n \in Name :
               /\ Idles(n) \/ Spends(n) \/ Loses(n) \/ Ages(n)
               /\ \A l \in Limiter : Owns(n, l)' =>
                      \/ Filled(l)
                      \/ Owns(n, l) /\ \/ Stays(n, l) \/ Charged(n, l)
                                       \/ Refilled(n, l)
    PROVE  LimiterInv'
<1> SUFFICES ASSUME Valid PROVE UsageInv'
  BY DEF LimiterInv, Valid
<1>1. \A n \in Name : RateOf(n)'
  BY RateStep DEF LimiterInv, UsageInv
<1>2. ASSUME NEW n \in Name, NEW l \in Limiter, Owns(n, l)'
      PROVE  FloorOf(n, l)'
  <2>1. Owns(n, l) => FloorOf(n, l)
    BY DEF LimiterInv, UsageInv
  <2> QED
    BY <1>2, <2>1, FloorStep DEF LimiterInv
<1> QED
  BY <1>1, <1>2 DEF UsageInv
-----------------------------------------------------------------------------
(***************************************************************************)
(* The steps of the limiter.                                               *)
(***************************************************************************)
LEMMA AskingRequest ==
    ASSUME LimiterInv, NEW q \in Slot, Asking(q)
    PROVE  /\ slot[q] \in HttpRequest /\ slot[q].source \in Source
           /\ NameOf(q) \in Name /\ slot[q].held \in Limiter
           /\ slot[q].held # None /\ Owns(NameOf(q), slot[q].held)
BY DEF LimiterInv, LimiterTypeOK, TableInv, Asking, Idle, RequestAt, NameOf,
       Name, HttpRequest, Owns

(* The requests that ask are among those that did.                         *)
NoNewAsker ==
    \A q \in Slot :
        \/ slot'[q] = slot[q]
        \/ /\ slot'[q].at # "asking" /\ slot'[q].held = None
           /\ slot'[q].at = "arrived" => slot'[q].source \in Source

LEMMA AskersStay ==
    ASSUME LimiterInv, ips' = ips, NoNewAsker
    PROVE  /\ TableInv'
           /\ \A n \in Name : LateOf(n)' \subseteq LateOf(n)
           /\ \A n \in Name, l \in Limiter : Owns(n, l)' => Owns(n, l)
<1>1. ASSUME NEW q \in Slot, Asking(q)'
      PROVE  slot'[q] = slot[q] /\ Asking(q) /\ NameOf(q)' = NameOf(q)
  BY <1>1 DEF NoNewAsker, Asking, NameOf
<1>2. \A n \in Name : LateOf(n)' \subseteq LateOf(n)
  BY <1>1 DEF LateOf
<1>3. \A n \in Name, l \in Limiter : Owns(n, l)' => Owns(n, l)
  BY <1>1 DEF Owns
<1>4. TableInv'
  BY <1>3 DEF LimiterInv, TableInv, NoNewAsker, Asking
<1> QED
  BY <1>2, <1>3, <1>4

LEMMA LateLess ==
    ASSUME NEW n, LateOf(n)' \subseteq LateOf(n)
    PROVE  /\ Cardinality(LateOf(n)') * Cost <= Cardinality(LateOf(n)) * Cost
           /\ (\E q \in LateOf(n) : q \notin LateOf(n)') =>
                  Cardinality(LateOf(n)') * Cost + Cost
                      <= Cardinality(LateOf(n)) * Cost
<1> DEFINE L == LateOf(n)
           M == LateOf(n)'
           a == Cardinality(L)
           b == Cardinality(M)
<1>1. IsFiniteSet(L) /\ a \in Nat
  BY LateIsFinite
<1>2. M \subseteq L
  OBVIOUS
<1> HIDE DEF L, M
<1>3. b \in Nat /\ b <= a
  BY <1>1, <1>2, FS_Subset, FS_CardinalityType
<1>4. \A x, y \in Nat : x <= y => x * Cost <= y * Cost
  BY LimiterAssumption
<1>5. ASSUME NEW q \in L, q \notin M PROVE b * Cost + Cost <= a * Cost
  <2>1. IsFiniteSet(L \ {q}) /\ Cardinality(L \ {q}) = a - 1
    BY <1>1, <1>5, FS_RemoveElement
  <2>2. b <= a - 1
    BY <1>2, <1>5, <2>1, FS_Subset
  <2> HIDE DEF a, b
  <2>3. (b + 1) * Cost <= a * Cost
    BY <1>1, <1>3, <1>4, <2>2
  <2> QED
    BY <1>3, <2>3, Products
<1> QED
  BY <1>1, <1>3, <1>4, <1>5 DEF L, M

(* The name keeps its limiter, and loses late requests if any.             *)
LEMMA StockAndLate ==
    ASSUME LimiterTypeOK, LimiterTypeOK', Valid, config' = config,
           NEW n \in Name, LateOf(n)' \subseteq LateOf(n)
    PROVE  /\ Stock(n)' <= Stock(n) => Potential(n)' <= Potential(n)
           /\ Stock(n)' + Cost <= Stock(n) =>
                  Potential(n)' + Cost <= Potential(n)
           /\ (/\ Stock(n)' <= Stock(n)
               /\ \E q \in LateOf(n) : q \notin LateOf(n)') =>
                  Potential(n)' + Cost <= Potential(n)
<1>1. Valid'
  BY DEF Valid
<1>2. PotentialOK /\ PotentialOK'
  BY <1>1, PotentialType, PTL
<1> DEFINE s == Stock(n)
           t == Stock(n)'
           a == Cardinality(LateOf(n)) * Cost
           b == Cardinality(LateOf(n)') * Cost
<1>3. s \in Nat /\ t \in Nat /\ a \in Nat /\ b \in Nat /\ Cost \in Nat
  BY <1>2, LimiterAssumption DEF PotentialOK
<1>4. /\ b <= a
      /\ (\E q \in LateOf(n) : q \notin LateOf(n)') => b + Cost <= a
  BY LateLess
<1>5. Potential(n) = s + a /\ Potential(n)' = t + b
  BY DEF Potential
<1> HIDE DEF s, t, a, b
<1>6. /\ t <= s => t + b <= s + a
      /\ t + Cost <= s => t + b + Cost <= s + a
      /\ t <= s /\ b + Cost <= a => t + b + Cost <= s + a
  BY <1>3, <1>4
<1> QED
  BY <1>4, <1>5, <1>6 DEF s, t

(* Requests come and go; the limiters that are left do not change.         *)
LEMMA LimitersRest ==
    ASSUME LimiterInv, LimiterTypeOK', config' = config, ips' = ips,
           NoNewAsker, UNCHANGED history,
           \A l \in Limiter : l \in Live(ips', slot') => level'[l] = level[l]
    PROVE  LimiterInv'
<1>1. /\ TableInv'
      /\ \A n \in Name : LateOf(n)' \subseteq LateOf(n)
      /\ \A n \in Name, l \in Limiter : Owns(n, l)' => Owns(n, l)
  BY AskersStay
<1>2. ASSUME Valid, NEW n \in Name PROVE Idles(n)
  <2>1. Stock(n)' = Stock(n)
    <3>1. CASE ips[n] = None
      BY <3>1 DEF Stock, Full
    <3>2. CASE ips[n] # None
      <4>1. ips[n] \in Limiter /\ ips[n] \in Live(ips', slot')
        BY <3>2 DEF Live, Range, LimiterInv, LimiterTypeOK
      <4> QED
        BY <3>2, <4>1 DEF Stock
    <3> QED
      BY <3>1, <3>2
  <2>2. PotentialOK
    BY <1>2, PotentialType DEF LimiterInv
  <2>3. Stock(n)' <= Stock(n)
    BY <2>1, <2>2 DEF PotentialOK
  <2>4. Potential(n)' <= Potential(n)
    BY <1>1, <1>2, <2>3, StockAndLate DEF LimiterInv
  <2> QED
    BY <2>4 DEF Idles, history
<1>3. ASSUME NEW n \in Name, NEW l \in Limiter, Owns(n, l)'
      PROVE  Owns(n, l) /\ Stays(n, l)
  <2>1. l \in Live(ips', slot')
    BY <1>3, NoneIsNoLimiter DEF Owns, Live, Range, LimiterTypeOK
  <2>2. \A w \in 0..Horizon : recent[n][w] \in Nat
    BY DEF LimiterInv, LimiterTypeOK
  <2> QED
    BY <1>1, <1>3, <2>1, <2>2 DEF Stays, history
<1> QED
  BY <1>1, <1>2, <1>3, UsageStep
LEMMA ArriveInv ==
    ASSUME LimiterInv, NEW q \in Slot, NEW source \in Source,
           Arrive(q, source), config' = config
    PROVE  LimiterInv'
<1> DEFINE request == RequestAt("arrived", source, None)
<1>1. /\ request \in HttpRequest /\ request.at = "arrived"
      /\ request.source = source /\ request.held = None
  BY DEF RequestAt, HttpRequest, Places
<1> HIDE DEF request
<1>2. slot' = [slot EXCEPT ![q] = request] /\ UNCHANGED <<ips, level, history>>
  BY DEF Arrive, request
<1>3. LimiterTypeOK'
  BY <1>1, <1>2 DEF LimiterInv, LimiterTypeOK, history
<1>4. NoNewAsker
  BY <1>1, <1>2 DEF LimiterInv, LimiterTypeOK, NoNewAsker
<1> QED
  BY <1>2, <1>3, <1>4, LimitersRest

(* A request that leaves the limiter takes nothing from the others.        *)
LEMMA LeaveSlot ==
    ASSUME LimiterInv, NEW q \in Slot, NEW request \in {Idle, Admitted},
           slot' = [slot EXCEPT ![q] = request]
    PROVE  /\ slot' \in [Slot -> HttpRequest \cup {Idle}]
           /\ NoNewAsker
           /\ slot'[q].at # "asking"
<1>1. /\ request \in HttpRequest \cup {Idle}
      /\ request.at \notin {"arrived", "asking"} /\ request.held = None
  <2>1. CASE request = Idle
    BY <2>1 DEF Idle, RequestAt
  <2>2. CASE request = Admitted
    BY <2>2 DEF Admitted, RequestAt, HttpRequest, Places
  <2> QED
    BY <2>1, <2>2
<1> QED
  BY <1>1 DEF LimiterInv, LimiterTypeOK, NoNewAsker

LEMMA AnsweredInv ==
    ASSUME LimiterInv, NEW q \in Slot, Answered(q),
           UNCHANGED <<ips, level, history>>, config' = config
    PROVE  LimiterInv'
<1>1. slot' \in [Slot -> HttpRequest \cup {Idle}] /\ NoNewAsker
  BY LeaveSlot DEF Answered
<1>2. LimiterTypeOK'
  BY <1>1 DEF LimiterInv, LimiterTypeOK, history
<1> QED
  BY <1>1, <1>2, LimitersRest

LEMMA RefuseInv ==
    ASSUME LimiterInv, NEW q \in Slot, Refuse(q), config' = config
    PROVE  LimiterInv'
<1>1. slot' \in [Slot -> HttpRequest \cup {Idle}] /\ NoNewAsker
  BY LeaveSlot DEF Refuse, Answered
<1>2. /\ level' \in [Limiter -> Nat]
      /\ \A l \in Limiter : l \in Live(ips', slot') => level'[l] = level[l]
  BY DEF Refuse, Collect, LimiterInv, LimiterTypeOK
<1>3. LimiterTypeOK'
  BY <1>1, <1>2 DEF Refuse, LimiterInv, LimiterTypeOK, history
<1> QED
  BY <1>1, <1>2, <1>3, LimitersRest DEF Refuse

LEMMA TakeInv ==
    ASSUME LimiterInv, NEW q \in Slot, slot[q].at = "arrived",
           ips[NameOf(q)] # None, Take(q, ips[NameOf(q)]),
           UNCHANGED <<ips, level, history>>, config' = config
    PROVE  LimiterInv'
<1> DEFINE n == NameOf(q)
           request == RequestAt("asking", slot[q].source, ips[n])
<1>1. /\ slot[q] \in HttpRequest /\ slot[q].source \in Source /\ n \in Name
      /\ ips[n] \in Limiter
  BY DEF LimiterInv, LimiterTypeOK, TableInv, Idle, RequestAt, NameOf, Name
<1>2. /\ request \in HttpRequest /\ request.at = "asking"
      /\ request.source = slot[q].source /\ request.held = ips[n]
  BY <1>1 DEF RequestAt, HttpRequest, Places
<1>3. slot' = [slot EXCEPT ![q] = request]
  BY DEF Take
<1> HIDE DEF request
<1>4. LimiterTypeOK'
  BY <1>2, <1>3 DEF LimiterInv, LimiterTypeOK, history
<1>5. /\ NameOf(q)' = n /\ slot'[q].held = ips[n]
      /\ \A r \in Slot : r # q => slot'[r] = slot[r]
  BY <1>2, <1>3 DEF LimiterInv, LimiterTypeOK, NameOf
<1>6. \A m \in Name, l \in Limiter : Owns(m, l)' => Owns(m, l)
  BY <1>5 DEF Owns, Asking, NameOf
<1>7. \A m \in Name : LateOf(m)' \subseteq LateOf(m)
  BY <1>5 DEF LateOf, Asking, NameOf
<1>8. TableInv'
  <2>1. \A r \in Slot :
            (/\ slot[r].at \in {"arrived", "asking"} => slot[r].source \in Source
             /\ slot[r].held # None <=> Asking(r))'
    BY <1>1, <1>2, <1>3 DEF LimiterInv, LimiterTypeOK, TableInv, Asking
  <2> QED
    BY <1>6, <2>1 DEF LimiterInv, TableInv
<1>9. ASSUME Valid, NEW m \in Name PROVE Idles(m)
  <2>1. PotentialOK
    BY <1>9, PotentialType DEF LimiterInv
  <2>2. Stock(m)' <= Stock(m)
    BY <1>9, <2>1 DEF PotentialOK, Stock, Full
  <2>3. Potential(m)' <= Potential(m)
    BY <1>4, <1>7, <1>9, <2>2, StockAndLate DEF LimiterInv
  <2> QED
    BY <2>3 DEF Idles, history
<1>10. ASSUME NEW m \in Name, NEW l \in Limiter PROVE Stays(m, l)
  <2>1. \A w \in 0..Horizon : recent[m][w] \in Nat
    BY DEF LimiterInv, LimiterTypeOK
  <2> QED
    BY <2>1 DEF Stays, history
<1> QED
  BY <1>4, <1>6, <1>8, <1>9, <1>10, UsageStep

(* A name that has no limiter gets one that nobody has, in place of what   *)
(* it could still have been given.                                         *)
LEMMA NewLimiterInv ==
    ASSUME LimiterInv, Valid, NEW q \in Slot, GetLimiter(q),
           ips[NameOf(q)] = None, config' = config
    PROVE  LimiterInv'
<1> DEFINE n == NameOf(q)
<1>1. /\ slot[q] \in HttpRequest /\ slot[q].source \in Source
      /\ slot[q].at = "arrived" /\ slot[q].held = None /\ n \in Name
  BY DEF GetLimiter, LimiterInv, LimiterTypeOK, TableInv, Asking, Idle,
         RequestAt, NameOf, Name
<1>2. PICK fresh \in Limiter :
          /\ fresh = Min(Limiter \ Live(ips, slot))
          /\ fresh \notin Live(ips, slot) /\ fresh # None
  BY <1>1, FreshLimiter, NoneIsNoLimiter DEF LimiterInv
<1> DEFINE request == RequestAt("asking", slot[q].source, fresh)
<1>3. /\ slot' = [slot EXCEPT ![q] = request]
      /\ ips' = [ips EXCEPT ![n] = fresh]
      /\ level' = [level EXCEPT ![fresh] = Full]
      /\ recent' = recent /\ removed' = removed
  BY <1>2 DEF GetLimiter, Take, history
<1>4. /\ \A m \in Name : ips[m] # fresh
      /\ \A r \in Slot : slot[r].held # fresh
  BY <1>2 DEF Live, Range, LimiterInv, LimiterTypeOK
<1>5. /\ request \in HttpRequest /\ request.at = "asking"
      /\ request.source = slot[q].source /\ request.held = fresh
  BY <1>1, <1>2 DEF RequestAt, HttpRequest, Places
<1> HIDE DEF request
<1>6. LimiterTypeOK'
  BY <1>1, <1>2, <1>3, <1>5, Products DEF LimiterInv, LimiterTypeOK
<1>7. /\ NameOf(q)' = n /\ slot'[q].held = fresh
      /\ \A r \in Slot : r # q => slot'[r] = slot[r]
      /\ ips'[n] = fresh /\ level'[fresh] = Full
      /\ \A m \in Name : m # n => ips'[m] = ips[m]
      /\ \A l \in Limiter : l # fresh => level'[l] = level[l]
  BY <1>1, <1>2, <1>3, <1>5 DEF LimiterInv, LimiterTypeOK, NameOf
<1> HIDE DEF n
<1>8. ASSUME NEW m \in Name, Owns(m, fresh)' PROVE m = n
  <2>1. CASE ips'[m] = fresh
    BY <1>4, <1>7, <2>1
  <2>2. CASE \E r \in Slot : NameOf(r)' = m /\ slot'[r].held = fresh
    <3>1. PICK r \in Slot : NameOf(r)' = m /\ slot'[r].held = fresh
      BY <2>2
    <3>2. r = q
      BY <1>4, <1>7, <3>1
    <3> QED
      BY <1>7, <3>1, <3>2
  <2> QED
    BY <1>8, <2>1, <2>2 DEF Owns
<1>9. \A m \in Name, l \in Limiter : Owns(m, l)' /\ l # fresh => Owns(m, l)
  BY <1>7 DEF Owns, Asking, NameOf
<1>10. TableInv'
  <2>1. \A r \in Slot :
            (/\ slot[r].at \in {"arrived", "asking"} => slot[r].source \in Source
             /\ slot[r].held # None <=> Asking(r))'
    BY <1>1, <1>2, <1>3, <1>5
       DEF LimiterInv, LimiterTypeOK, TableInv, Asking
  <2>2. ASSUME NEW l \in Limiter, NEW m \in Name, NEW k \in Name,
               Owns(m, l)', Owns(k, l)'
        PROVE  m = k
    <3>1. CASE l = fresh
      BY <1>8, <2>2, <3>1
    <3>2. CASE l # fresh
      BY <1>9, <2>2, <3>2 DEF LimiterInv, TableInv
    <3> QED
      BY <3>1, <3>2
  <2> QED
    BY <2>1, <2>2 DEF TableInv
<1>11. ASSUME NEW m \in Name PROVE LateOf(m)' \subseteq LateOf(m)
  <2>1. CASE m = n
    <3>1. ips[m] = None
      BY <2>1 DEF n
    <3>2. \A r \in Slot : Asking(r) => slot[r].held # None
      BY DEF LimiterInv, TableInv
    <3> QED
      BY <1>7, <2>1, <3>1, <3>2 DEF LateOf, Asking, NameOf
  <2>2. CASE m # n
    BY <1>7, <2>2 DEF LateOf, Asking, NameOf
  <2> QED
    BY <2>1, <2>2
<1>12. ASSUME NEW m \in Name PROVE Idles(m)
  <2>1. PotentialOK /\ LimiterTypeOK
    BY PotentialType DEF LimiterInv
  <2>2. Stock(m)' = Stock(m)
    <3>1. CASE m = n
      <4>1. ips[m] = None
        BY <3>1 DEF n
      <4> QED
        BY <1>2, <1>7, <3>1, <4>1 DEF Stock
    <3>2. CASE m # n
      BY <1>4, <1>7, <2>1, <3>2 DEF Stock, Full, LimiterTypeOK
    <3> QED
      BY <3>1, <3>2
  <2>3. Stock(m)' <= Stock(m)
    BY <2>1, <2>2 DEF PotentialOK
  <2>4. Potential(m)' <= Potential(m)
    BY <1>6, <1>11, <2>1, <2>3, StockAndLate
  <2> QED
    BY <1>3, <2>4 DEF Idles
<1>13. ASSUME NEW m \in Name, NEW l \in Limiter, Owns(m, l)'
       PROVE  Filled(l) \/ (Owns(m, l) /\ Stays(m, l))
  <2>1. \A w \in 0..Horizon : recent[m][w] \in Nat
    BY DEF LimiterInv, LimiterTypeOK
  <2> QED
    BY <1>3, <1>7, <1>9, <1>13, <2>1 DEF Filled, Stays
<1> QED
  BY <1>6, <1>10, <1>12, <1>13, UsageStep

LEMMA GetLimiterInv ==
    ASSUME LimiterInv, Valid, NEW q \in Slot, GetLimiter(q), config' = config
    PROVE  LimiterInv'
BY TakeInv, NewLimiterInv DEF GetLimiter

LEMMA AdmitInv ==
    ASSUME LimiterInv, NEW q \in Slot, Admit(q), config' = config
    PROVE  LimiterInv'
<1> DEFINE n == NameOf(q)
           held == slot[q].held
<1>1. /\ Asking(q) /\ n \in Name /\ held \in Limiter /\ held # None
      /\ Owns(n, held) /\ level[held] >= Cost /\ ips' = ips
  BY AskingRequest DEF Admit, Asking
<1>2. /\ slot' \in [Slot -> HttpRequest \cup {Idle}] /\ NoNewAsker
      /\ slot'[q].at # "asking"
  BY LeaveSlot DEF Admit
<1>3. /\ level' \in [Limiter -> Nat]
      /\ \A l \in Limiter : l \in Live(ips', slot') =>
             level'[l] = IF l = held THEN level[l] - Cost ELSE level[l]
  BY <1>1, LimiterAssumption DEF Admit, Spend, LimiterInv, LimiterTypeOK
<1>4. /\ recent' \in [Name -> [0..Horizon -> Nat]]
      /\ \A w \in 0..Horizon : recent'[n][w] = recent[n][w] + 1
      /\ \A m \in Name : m # n => recent'[m] = recent[m]
      /\ removed' = removed
  <2>1. recent[n] \in [0..Horizon -> Nat]
    BY <1>1 DEF LimiterInv, LimiterTypeOK
  <2>2. \A f \in [0..Horizon -> Nat] : Counted(f) \in [0..Horizon -> Nat]
    BY DEF Counted
  <2>3. recent' = [recent EXCEPT ![n] = Counted(recent[n])]
    BY DEF Admit, Book
  <2>4. \A w \in 0..Horizon : Counted(recent[n])[w] = recent[n][w] + 1
    BY DEF Counted
  <2>5. removed' = removed
    BY DEF Admit, Book
  <2> QED
    BY <1>1, <2>1, <2>2, <2>3, <2>4, <2>5 DEF LimiterInv, LimiterTypeOK
<1>5. LimiterTypeOK'
  BY <1>1, <1>2, <1>3, <1>4 DEF LimiterInv, LimiterTypeOK
<1>6. /\ TableInv'
      /\ \A m \in Name : LateOf(m)' \subseteq LateOf(m)
      /\ \A m \in Name, l \in Limiter : Owns(m, l)' => Owns(m, l)
  BY <1>1, <1>2, AskersStay
<1>7. \A m \in Name : m # n => ~ Owns(m, held)
  BY <1>1 DEF LimiterInv, TableInv
<1> HIDE DEF n, held
<1>8. ASSUME NEW m \in Name, ips[m] # None
      PROVE  /\ ips[m] \in Limiter
             /\ level'[ips[m]] = IF ips[m] = held THEN level[ips[m]] - Cost
                                 ELSE level[ips[m]]
  <2>1. ips[m] \in Limiter /\ ips[m] \in Live(ips', slot')
    BY <1>1, <1>8 DEF Live, Range, LimiterInv, LimiterTypeOK
  <2> QED
    BY <1>3, <2>1
<1>9. ASSUME Valid, NEW m \in Name PROVE Idles(m) \/ Spends(m)
  <2>1. PotentialOK /\ LimiterTypeOK
    BY <1>9, PotentialType DEF LimiterInv
  <2>2. CASE ips[m] = held
    <3>1. m = n
      BY <1>7, <2>2 DEF Owns
    <3>2. Stock(m)' + Cost <= Stock(m)
      <4>1. Stock(m) = level[held] /\ Stock(m)' = level[held] - Cost
        BY <1>1, <1>8, <2>2 DEF Stock
      <4>2. level[held] \in Nat /\ Cost \in Nat
        BY <1>1, <2>1, LimiterAssumption DEF LimiterTypeOK
      <4> QED
        BY <4>1, <4>2
    <3>3. Potential(m)' + Cost <= Potential(m)
      BY <1>5, <1>6, <1>9, <2>1, <3>2, StockAndLate
    <3> QED
      BY <1>4, <3>1, <3>3 DEF Spends
  <2>3. CASE ips[m] # held
    <3>1. Stock(m)' = Stock(m)
      BY <1>1, <1>8, <2>3 DEF Stock, Full
    <3>2. Stock(m)' <= Stock(m)
      BY <2>1, <3>1 DEF PotentialOK
    <3>3. CASE m = n
      <4>1. q \in LateOf(m) /\ q \notin LateOf(m)'
        BY <1>1, <1>2, <2>3, <3>3 DEF LateOf, n, held, Asking
      <4>2. Potential(m)' + Cost <= Potential(m)
        BY <1>5, <1>6, <1>9, <2>1, <3>2, <4>1, StockAndLate
      <4> QED
        BY <1>4, <3>3, <4>2 DEF Spends
    <3>4. CASE m # n
      <4>1. Potential(m)' <= Potential(m)
        BY <1>5, <1>6, <1>9, <2>1, <3>2, StockAndLate
      <4> QED
        BY <1>4, <3>4, <4>1 DEF Idles
    <3> QED
      BY <3>3, <3>4
  <2> QED
    BY <2>2, <2>3
<1>10. ASSUME NEW m \in Name, NEW l \in Limiter, Owns(m, l)'
       PROVE  Owns(m, l) /\ (Stays(m, l) \/ Charged(m, l))
  <2>1. Owns(m, l)
    BY <1>6, <1>10
  <2>2. l \in Live(ips', slot')
    BY <1>5, <1>10, NoneIsNoLimiter DEF Owns, Live, Range, LimiterTypeOK
  <2>3. CASE l = held
    <3>1. m = n
      BY <1>7, <2>1, <2>3
    <3> QED
      BY <1>1, <1>3, <1>4, <2>1, <2>2, <2>3, <3>1 DEF Charged
  <2>4. CASE l # held
    <3>1. \A w \in 0..Horizon : recent'[m][w] >= recent[m][w]
      <4>1. \A w \in 0..Horizon : recent[m][w] \in Nat
        BY DEF LimiterInv, LimiterTypeOK
      <4> QED
        BY <1>4, <4>1
    <3> QED
      BY <1>3, <2>1, <2>2, <2>4, <3>1 DEF Stays
  <2> QED
    BY <2>3, <2>4
<1> QED
  BY <1>5, <1>6, <1>9, <1>10, UsageStep

(* A removal gives every name a new limiter, and leaves the old one to the *)
(* requests that hold it.                                                  *)
LEMMA CleanupStaleInv ==
    ASSUME LimiterInv, CleanupStale, config' = config
    PROVE  LimiterInv'
<1>1. /\ ips' = [n \in Name |-> None] /\ slot' = slot /\ recent' = recent
      /\ \A w \in 0..Horizon : removed'[w] = removed[w] + 1
      /\ removed' \in [0..Horizon -> Nat]
  BY DEF CleanupStale, Counted, LimiterInv, LimiterTypeOK
<1>2. /\ level' \in [Limiter -> Nat]
      /\ \A l \in Limiter : l \in Live(ips', slot') => level'[l] = level[l]
  BY DEF CleanupStale, Collect, LimiterInv, LimiterTypeOK
<1>3. LimiterTypeOK'
  BY <1>1, <1>2 DEF LimiterInv, LimiterTypeOK
<1>4. ASSUME NEW n \in Name, NEW l \in Limiter, Owns(n, l)'
      PROVE  Owns(n, l) /\ l \in Live(ips', slot')
  BY <1>1, <1>4, NoneIsNoLimiter DEF Owns, Asking, NameOf, Live
<1>5. TableInv'
  BY <1>1, <1>4 DEF LimiterInv, TableInv, Asking
<1>6. ASSUME Valid, NEW n \in Name PROVE Loses(n)
  <2>1. Valid'
    BY <1>6 DEF Valid
  <2>2. PotentialOK /\ PotentialOK'
    BY <1>3, <1>6, <2>1, PotentialType, PTL DEF LimiterInv
  <2>3. Stock(n)' = Full
    BY <1>1 DEF Stock, Full
  <2> DEFINE a == Cardinality(LateOf(n)') * Cost
             b == Cardinality(Slot) * Cost
  <2>4. a \in Nat /\ a <= b
    BY <2>2 DEF PotentialOK
  <2>5. /\ Potential(n)' = Full + a /\ Potential(n) \in Nat
        /\ Extra = Full + b /\ b \in Nat /\ Full \in Nat
    BY <1>6, <2>2, <2>3, Products, NamesAreFinite
       DEF PotentialOK, Potential, Extra
  <2> HIDE DEF a, b
  <2>6. Potential(n)' <= Potential(n) + Extra
    BY <2>4, <2>5
  <2> QED
    BY <1>1, <2>6 DEF Loses
<1>7. ASSUME NEW n \in Name, NEW l \in Limiter, Owns(n, l)'
      PROVE  Owns(n, l) /\ Stays(n, l)
  <2>1. \A w \in 0..Horizon : recent[n][w] \in Nat
    BY DEF LimiterInv, LimiterTypeOK
  <2> QED
    BY <1>1, <1>2, <1>4, <1>7, <2>1 DEF Stays
<1> QED
  BY <1>3, <1>5, <1>6, <1>7, UsageStep

(* Time gives to the windows what it gives to the limiters.                *)
LEMMA ElapseInv ==
    ASSUME LimiterInv, Live(ips, slot) # {} => Valid, Elapse, config' = config
    PROVE  LimiterInv'
<1>1. ASSUME NEW l \in Limiter, l \in Live(ips, slot)
      PROVE  /\ level'[l] \in Nat /\ level'[l] <= Full
             /\ level'[l] <= level[l] + config.rps
             /\ level'[l] \in {Full, level[l] + config.rps}
  <2>1. /\ Full \in Nat /\ config.rps \in Nat /\ level[l] \in Nat
    BY <1>1, Products DEF Valid, LimiterInv, LimiterTypeOK
  <2> DEFINE S == {Full, level[l] + config.rps}
  <2>2. level'[l] = Min(S)
    BY <1>1 DEF Elapse
  <2>3. S \in SUBSET Nat /\ S # {}
    BY <2>1
  <2>4. Min(S) \in S /\ \A y \in S : Min(S) <= y
    BY <2>3, MinIsLeast
  <2> QED
    BY <2>1, <2>2, <2>4
<1>2. level' \in [Limiter -> Nat]
  <2>1. ASSUME NEW l \in Limiter, l \notin Live(ips, slot)
        PROVE  level'[l] = 0
    BY <2>1 DEF Elapse
  <2>2. \A l \in Limiter : level'[l] \in Nat
    BY <1>1, <2>1
  <2>3. level' = [l \in Limiter |-> level'[l]]
    BY DEF Elapse
  <2> QED
    BY <2>2, <2>3
<1>3. /\ recent' = [n \in Name |-> [w \in 0..Horizon |->
                         IF w = 0 THEN 0 ELSE recent[n][w - 1]]]
      /\ removed' = [w \in 0..Horizon |-> IF w = 0 THEN 0 ELSE removed[w - 1]]
      /\ UNCHANGED <<ips, slot>>
  BY DEF Elapse, OneTickOn
<1>4. \A w \in 0..Horizon : w # 0 => w - 1 \in 0..Horizon
  BY LimiterAssumption
<1>5. LimiterTypeOK'
  BY <1>2, <1>3, <1>4 DEF LimiterInv, LimiterTypeOK
<1>6. \A n, l : Owns(n, l)' <=> Owns(n, l)
  BY <1>3 DEF Owns, Asking, NameOf
<1>7. TableInv'
  BY <1>3, <1>6 DEF LimiterInv, TableInv, Asking
<1>8. ASSUME Valid, NEW n \in Name PROVE Ages(n)
  <2>1. PotentialOK
    BY <1>8, PotentialType DEF LimiterInv
  <2>2. Full \in Nat /\ config.rps \in Nat
    BY <1>8, Products DEF Valid
  <2>3. /\ Stock(n)' \in Nat /\ Stock(n)' <= Full
        /\ Stock(n)' <= Stock(n) + config.rps
    <3>1. CASE ips[n] = None
      BY <1>3, <2>2, <3>1 DEF Stock, Full
    <3>2. CASE ips[n] # None
      <4>1. ips[n] \in Limiter /\ ips[n] \in Live(ips, slot)
        BY <3>2 DEF Live, Range, LimiterInv, LimiterTypeOK
      <4> QED
        BY <1>1, <1>3, <3>2, <4>1 DEF Stock
    <3> QED
      BY <3>1, <3>2
  <2>4. LateOf(n)' = LateOf(n)
    BY <1>3 DEF LateOf, Asking, NameOf
  <2> DEFINE a == Cardinality(LateOf(n)) * Cost
             b == Cardinality(Slot) * Cost
             s == Stock(n)
             t == Stock(n)'
  <2>5. /\ a \in Nat /\ a <= b /\ b \in Nat /\ s \in Nat
    BY <2>1, Products, NamesAreFinite DEF PotentialOK
  <2>6. /\ Potential(n) = s + a /\ Potential(n)' = t + a /\ Extra = Full + b
    BY <2>4 DEF Potential, Extra
  <2>7. t \in Nat /\ t <= Full /\ t <= s + config.rps
    BY <2>3
  <2> HIDE DEF a, b, s, t
  <2>8. t + a <= (s + a) + config.rps /\ t + a <= Full + b
    BY <2>2, <2>5, <2>7
  <2> QED
    BY <1>3, <2>6, <2>8 DEF Ages
<1>9. ASSUME NEW n \in Name, NEW l \in Limiter, Owns(n, l)'
      PROVE  Filled(l) \/ (Owns(n, l) /\ Refilled(n, l))
  <2>1. l \in Live(ips, slot)
    BY <1>6, <1>9, OwnedIsLive DEF LimiterInv
  <2> QED
    BY <1>1, <1>3, <1>6, <1>9, <2>1 DEF Filled, Refilled
<1> QED
  BY <1>5, <1>7, <1>8, <1>9, UsageStep

LEMMA LimiterRests ==
    ASSUME LimiterInv, UNCHANGED <<limiterVars, config>>
    PROVE  LimiterInv'
<1>1. NoNewAsker /\ LimiterTypeOK'
  BY DEF NoNewAsker, limiterVars, history, LimiterInv, LimiterTypeOK
<1> QED
  BY <1>1, LimitersRest DEF limiterVars
-----------------------------------------------------------------------------
(***************************************************************************)
(* The inductive invariant of the process: what is open and what may be at *)
(* work, by where the main goroutine is.                                   *)
(***************************************************************************)
Busy == main \in {"waiting", "draining", "stopping"}

Quiet ==
    /\ \A q \in Slot : slot[q] = Idle
    /\ \A n \in Name : ips[n] = None

Drained ==
    \/ \A q \in Slot : slot[q].at = "idle"
    \/ waited = ShutdownTimeout

MainInv ==
    /\ main # "down" => Validate(config)
    /\ main = "down" => \A n \in Name, w \in 0..Horizon : recent[n][w] = 0
    /\ ~ Busy => http = "closed" /\ Quiet
    /\ http = "open" => main = "waiting"
    /\ http = "starting" => Quiet
    /\ grpc # "closed" <=> main \in {"waiting", "draining"}
    /\ \/ grpc = "serving" \/ main = "stopping"
       \/ \A g \in GrpcCall : call[g] = "idle"
    /\ main = "stopping" => Drained

IInv == TypeOK /\ LimiterInv /\ MainInv

LEMMA ValidateChecks ==
    ASSUME NEW c, Validate(c)
    PROVE  c.rps \in Nat /\ c.burst \in Nat
<1>1. RateInRange(c)
  BY DEF Validate, InRange
<1> QED
  BY <1>1 DEF RateInRange

LEMMA ConfigIsValid == IInv /\ Busy => Valid
BY ValidateChecks DEF IInv, MainInv, Busy, Valid

LEMMA IdleIsIdle == Idle.at = "idle" /\ Idle.held = None
BY DEF Idle, RequestAt

(* A request on its way is a request of a process that has served HTTP.    *)
LEMMA RequestIsBusy ==
    ASSUME IInv, NEW q \in Slot, slot[q].at # "idle"
    PROVE  /\ Busy /\ http # "starting"
           /\ main = "stopping" => waited = ShutdownTimeout
BY IdleIsIdle DEF IInv, MainInv, Quiet, Drained

LEMMA LiveIsBusy == IInv /\ Live(ips, slot) # {} => Busy
BY IdleIsIdle DEF IInv, MainInv, Quiet, Live, Range, TypeOK, LimiterTypeOK

LEMMA QuietStays ==
    ASSUME IInv, UNCHANGED limiterVars, UNCHANGED waited
    PROVE  /\ (Quiet => Quiet') /\ (Drained => Drained')
           /\ recent' = recent
BY DEF Quiet, Drained, limiterVars, history

(* A process that has just begun, or ended.                                *)
Blank ==
    /\ ips = [n \in Name |-> None]
    /\ level = [l \in Limiter |-> 0]
    /\ slot = [q \in Slot |-> Idle]
    /\ recent = NothingAdmitted
    /\ removed = Never

LEMMA BlankInv == Blank => LimiterInv /\ Quiet
<1> SUFFICES ASSUME Blank PROVE LimiterInv /\ Quiet
  OBVIOUS
<1>1. LimiterTypeOK
  BY DEF Blank, LimiterTypeOK, NothingAdmitted, Never
<1>2. \A q \in Slot : ~ Asking(q)
  BY IdleIsIdle DEF Blank, Asking
<1>3. \A n \in Name, l \in Limiter : ~ Owns(n, l)
  BY <1>2, NoneIsNoLimiter DEF Blank, Owns
<1>4. TableInv
  BY <1>2, <1>3, IdleIsIdle DEF Blank, TableInv
<1>5. ASSUME Valid, NEW n \in Name, NEW w \in 0..Horizon
      PROVE  recent[n][w] * Cost + Potential(n) <= Allowance(w)
  <2>1. recent[n][w] * Cost = 0 /\ removed[w] = 0
    BY Products DEF Blank, NothingAdmitted, Never
  <2>2. PotentialOK
    BY <1>1, <1>5, PotentialType
  <2>3. Stock(n) = Full
    BY DEF Stock, Blank
  <2> DEFINE a == Cardinality(LateOf(n)) * Cost
             b == Cardinality(Slot) * Cost
             c == config.rps * w
  <2>4. a \in Nat /\ a <= b /\ b \in Nat /\ Full \in Nat /\ c \in Nat
    <3>1. w \in Nat
      BY LimiterAssumption
    <3> QED
      BY <1>5, <2>2, <3>1, Products, NamesAreFinite DEF PotentialOK
  <2>5. Potential(n) = Full + a /\ Allowance(w) = Extra + c /\ Extra = Full + b
    BY <1>5, <2>1, <2>3, Allowances DEF Potential, Allowance, Extra
  <2> HIDE DEF a, b, c
  <2> QED
    BY <2>1, <2>4, <2>5
<1>6. Valid => UsageInv
  BY <1>3, <1>5 DEF UsageInv, RateOf
<1> QED
  BY <1>1, <1>4, <1>6 DEF LimiterInv, Blank, Quiet

LEMMA InitIInv == Init => IInv
<1> SUFFICES ASSUME Init PROVE IInv
  OBVIOUS
<1>1. LimiterInv /\ Quiet
  BY BlankInv DEF Init, LimiterInit, Blank
<1>2. TypeOK
  <2>1. /\ main \in Main /\ waited \in 0..ShutdownTimeout
        /\ call \in [GrpcCall -> CallState] /\ faults \in Nat
    BY FrontEndAssumption DEF Init, Main, CallState
  <2> QED
    BY <1>1, <2>1 DEF Init, TypeOK, LimiterInv
<1>3. MainInv
  BY <1>1 DEF Init, LimiterInit, NothingAdmitted, Never, MainInv, Busy
<1> QED
  BY <1>1, <1>2, <1>3 DEF IInv

LEMMA ExitIInv ==
    ASSUME IInv, Exit, UNCHANGED faults \/ Fault
    PROVE  IInv'
<1>1. LimiterInv' /\ Quiet'
  <2>1. Blank'
    BY DEF Exit, Blank
  <2> QED
    BY <2>1, BlankInv, PTL
<1>2. faults' \in Nat
  BY DEF Fault, IInv, TypeOK
<1>3. TypeOK'
  <2>1. /\ main' \in Main /\ waited' \in 0..ShutdownTimeout
        /\ call' \in [GrpcCall -> CallState]
    BY FrontEndAssumption DEF Exit, Main, CallState
  <2> QED
    BY <1>1, <1>2, <2>1 DEF Exit, IInv, TypeOK, LimiterInv, world
<1>4. MainInv'
  BY <1>1 DEF Exit, NothingAdmitted, Never, MainInv, Busy
<1> QED
  BY <1>1, <1>3, <1>4 DEF IInv

(* A step of the main goroutine, of a gRPC call or of the outside          *)
LEMMA RestIInv ==
    ASSUME IInv, UNCHANGED <<limiterVars, config, waited>>, MainInv',
           main' \in Main, http' \in {"closed", "starting", "open"},
           grpc' \in {"closed", "bound", "serving"},
           call' \in [GrpcCall -> CallState], bucketExists' \in BOOLEAN,
           portTaken' \in BOOLEAN,
           usEast1' = usEast1, UNCHANGED faults \/ Fault
    PROVE  IInv'
<1>1. LimiterInv'
  BY LimiterRests DEF IInv
<1>2. faults' \in Nat
  BY DEF Fault, IInv, TypeOK
<1>3. TypeOK'
  BY <1>1, <1>2 DEF IInv, TypeOK, LimiterInv
<1> QED
  BY <1>1, <1>3 DEF IInv

(* A step of the HTTP requests or of time                                  *)
LEMMA WorkIInv ==
    ASSUME IInv, LimiterInv', Busy,
           UNCHANGED <<main, servers, waited, call, world, faults>>,
           http = "starting" => Quiet',
           main = "stopping" => (waited = ShutdownTimeout \/ Drained')
    PROVE  IInv'
<1>1. TypeOK'
  BY DEF IInv, TypeOK, LimiterInv, servers, world
<1>2. MainInv'
  BY DEF IInv, MainInv, Busy, servers, world, Drained
<1> QED
  BY <1>1, <1>2 DEF IInv

LEMMA StartUpIInv ==
    IInv /\ (StartUp \/ HeadBucketFails \/ ListenFails) => IInv'
<1> SUFFICES ASSUME IInv
             PROVE  StartUp \/ HeadBucketFails \/ ListenFails => IInv'
  OBVIOUS
<1>1. UNCHANGED limiterVars /\ UNCHANGED waited
          => (Quiet => Quiet') /\ (Drained => Drained') /\ recent' = recent
  BY QuietStays
<1>2. CASE LoadConfig
  <2>1. MainInv'
    BY <1>1, <1>2 DEF LoadConfig, Goto, servers, world, IInv, MainInv, Busy
  <2> QED
    BY <1>2, <2>1, RestIInv
       DEF LoadConfig, Goto, servers, world, IInv, TypeOK, Main
<1>3. CASE HeadBucket
  <2>1. main' \in {"listening", "creating"}
    BY <1>3 DEF HeadBucket, Goto
  <2>2. MainInv'
    BY <1>1, <1>3, <2>1
       DEF HeadBucket, Goto, servers, world, IInv, MainInv, Busy
  <2> QED
    BY <1>3, <2>1, <2>2, RestIInv
       DEF HeadBucket, Goto, servers, world, IInv, TypeOK, Main
<1>4. CASE HeadBucketFails
  <2>1. MainInv'
    BY <1>1, <1>4
       DEF HeadBucketFails, Goto, servers, world, IInv, MainInv, Busy
  <2> QED
    BY <1>4, <2>1, RestIInv
       DEF HeadBucketFails, Goto, servers, world, IInv, TypeOK, Main
<1>5. CASE CreateBucket
  <2>1. MainInv'
    BY <1>1, <1>5 DEF CreateBucket, Goto, servers, IInv, MainInv, Busy
  <2> QED
    BY <1>5, <2>1, RestIInv
       DEF CreateBucket, Goto, servers, IInv, TypeOK, Main
<1>6. CASE CreateBucketFails \/ ListenFails
  BY <1>6, ExitIInv DEF CreateBucketFails, ListenFails
<1>7. CASE Listen
  <2>1. MainInv'
    BY <1>1, <1>7 DEF Listen, Goto, world, IInv, MainInv, Busy
  <2> QED
    BY <1>7, <2>1, RestIInv DEF Listen, Goto, world, IInv, TypeOK, Main
<1>8. CASE ServeGrpc
  <2>1. MainInv'
    BY <1>1, <1>8 DEF ServeGrpc, Goto, world, IInv, MainInv, Busy
  <2> QED
    BY <1>8, <2>1, RestIInv DEF ServeGrpc, Goto, world, IInv, TypeOK, Main
<1>9. CASE ServeHttp
  <2>1. MainInv'
    BY <1>1, <1>9 DEF ServeHttp, Goto, world, IInv, MainInv, Busy
  <2> QED
    BY <1>9, <2>1, RestIInv DEF ServeHttp, Goto, world, IInv, TypeOK, Main
<1>10. CASE ServeHttpFails
  BY <1>10, ExitIInv DEF ServeHttpFails
<1> QED
  BY <1>2, <1>3, <1>4, <1>5, <1>6, <1>7, <1>8, <1>9, <1>10 DEF StartUp

LEMMA HttpIInv ==
    ASSUME IInv, NEW q \in Slot, ReceiveHttp(q) \/ Http(q)
    PROVE  IInv'
<1>1. CASE ReceiveHttp(q)
  <2>1. Busy /\ main # "stopping"
    BY <1>1 DEF ReceiveHttp, IInv, MainInv, Busy
  <2>2. LimiterInv' /\ http = "open"
    BY <1>1, ArriveInv DEF ReceiveHttp, Request, world, IInv
  <2> QED
    BY <1>1, <2>1, <2>2, WorkIInv DEF ReceiveHttp, Request
<1>2. CASE Middleware(q)
  <2>1. slot[q].at # "idle"
    BY <1>2 DEF Middleware, GetLimiter, Admit, Refuse
  <2>2. LimiterInv'
    BY <1>2, <2>1, RequestIsBusy, ConfigIsValid, GetLimiterInv, AdmitInv,
       RefuseInv DEF Middleware, Request, world, IInv
  <2> QED
    BY <1>2, <2>1, <2>2, RequestIsBusy, WorkIInv DEF Middleware, Request
<1>3. CASE AuthMiddleware(q)
  <2>1. slot[q].at # "idle"
    BY <1>3 DEF AuthMiddleware
  <2>2. LimiterInv'
    BY <1>3, AnsweredInv DEF AuthMiddleware, Request, world, IInv
  <2> QED
    BY <1>3, <2>1, <2>2, RequestIsBusy, WorkIInv DEF AuthMiddleware, Request
<1> QED
  BY <1>1, <1>2, <1>3 DEF Http

LEMMA GrpcIInv ==
    ASSUME IInv, NEW g \in GrpcCall,
           \/ ReceiveGrpc(g) \/ CallReturns(g)
           \/ ClientEndsStream(g) \/ ConnectionAges(g)
    PROVE  IInv'
<1>1. UNCHANGED limiterVars /\ UNCHANGED waited
          => (Quiet => Quiet') /\ (Drained => Drained') /\ recent' = recent
  BY QuietStays
<1>2. CASE ReceiveGrpc(g)
  <2>1. MainInv'
    BY <1>1, <1>2
       DEF ReceiveGrpc, Request, servers, world, IInv, MainInv, Busy
  <2>2. call' \in [GrpcCall -> CallState]
    BY <1>2 DEF ReceiveGrpc, IInv, TypeOK, CallState
  <2> QED
    BY <1>2, <2>1, <2>2, RestIInv
       DEF ReceiveGrpc, Request, servers, world, IInv, TypeOK
<1>3. ASSUME NEW kinds, EndCall(g, kinds) PROVE IInv'
  <2>1. MainInv'
    BY <1>1, <1>3
       DEF EndCall, Request, servers, world, IInv, TypeOK, MainInv, Busy
  <2>2. call' \in [GrpcCall -> CallState]
    BY <1>3 DEF EndCall, IInv, TypeOK, CallState
  <2> QED
    BY <1>3, <2>1, <2>2, RestIInv
       DEF EndCall, Request, servers, world, IInv, TypeOK
<1> QED
  BY <1>2, <1>3 DEF CallReturns, ClientEndsStream, ConnectionAges

LEMMA TickIInv == IInv /\ Tick => IInv'
<1> SUFFICES ASSUME IInv, Tick PROVE IInv'
  OBVIOUS
<1>1. LimiterInv'
  BY ElapseInv, LiveIsBusy, ConfigIsValid DEF Tick, world, IInv
<1>2. waited' \in 0..ShutdownTimeout
  <2> DEFINE S == {ShutdownTimeout, waited + 1}
  <2>1. S \in SUBSET Nat /\ S # {}
    BY FrontEndAssumption DEF IInv, TypeOK
  <2>2. Min(S) \in S /\ \A y \in S : Min(S) <= y
    BY <2>1, MinIsLeast
  <2>3. Min(S) \in 0..ShutdownTimeout
    BY <2>1, <2>2, FrontEndAssumption
  <2> QED
    BY <2>3 DEF Tick, IInv, TypeOK
<1>3. TypeOK'
  BY <1>1, <1>2 DEF Tick, IInv, TypeOK, LimiterInv, servers, world
<1>4. MainInv'
  <2>1. \A n \in Name : recent'[n] = OneTickOn(recent[n])
    BY DEF Tick, Elapse
  <2>2. \A w \in 0..Horizon : w # 0 => w - 1 \in 0..Horizon
    BY LimiterAssumption
  <2>3. (main = "down" => \A n \in Name, w \in 0..Horizon : recent[n][w] = 0)'
    BY <2>1, <2>2 DEF Tick, OneTickOn, IInv, MainInv
  <2> QED
    BY <2>3
       DEF Tick, Elapse, IInv, MainInv, Busy, Quiet, Drained, servers, world
<1> QED
  BY <1>1, <1>3, <1>4 DEF IInv

LEMMA HourlyCleanupIInv == IInv /\ HourlyCleanup => IInv'
<1> SUFFICES ASSUME IInv, HourlyCleanup PROVE IInv'
  OBVIOUS
<1>1. LimiterInv'
  BY CleanupStaleInv DEF HourlyCleanup, world, IInv
<1>2. slot' = slot /\ \A n \in Name : ips'[n] = None
  BY DEF HourlyCleanup, CleanupStale
<1>3. /\ http = "starting" => Quiet'
      /\ main = "stopping" => (waited = ShutdownTimeout \/ Drained')
  BY <1>2 DEF IInv, MainInv, Drained, Quiet
<1> QED
  BY <1>1, <1>3, WorkIInv DEF HourlyCleanup, Busy

LEMMA ShutDownIInv == IInv /\ (Signal \/ ShutDown \/ Crash) => IInv'
<1> SUFFICES ASSUME IInv PROVE Signal \/ ShutDown \/ Crash => IInv'
  OBVIOUS
<1>1. UNCHANGED limiterVars /\ UNCHANGED waited
          => (Quiet => Quiet') /\ (Drained => Drained') /\ recent' = recent
  BY QuietStays
<1>2. CASE Signal
  <2>1. MainInv'
    BY <1>1, <1>2 DEF Signal, world, IInv, MainInv, Busy
  <2> QED
    BY <1>2, <2>1, RestIInv DEF Signal, world, IInv, TypeOK, Main
<1>3. CASE ShutdownReturns
  <2>1. MainInv'
    BY <1>1, <1>3 DEF ShutdownReturns, world, IInv, MainInv, Busy, Drained
  <2> QED
    BY <1>3, <2>1, RestIInv DEF ShutdownReturns, world, IInv, TypeOK, Main
<1>4. CASE GracefulStopReturns
  BY <1>4, ExitIInv DEF GracefulStopReturns
<1>5. CASE Crash
  BY <1>5, ExitIInv DEF Crash
<1> QED
  BY <1>2, <1>3, <1>4, <1>5 DEF ShutDown

LEMMA OutsideIInv ==
    IInv /\ (OtherReplicaCreatesBucket \/ TakePort \/ FreePort \/ UNCHANGED vars)
        => IInv'
<1> SUFFICES ASSUME IInv, \/ OtherReplicaCreatesBucket \/ TakePort \/ FreePort
                          \/ UNCHANGED vars
             PROVE  IInv'
  OBVIOUS
<1>1. /\ UNCHANGED <<limiterVars, main, servers, waited, call, config, usEast1>>
      /\ bucketExists' \in BOOLEAN /\ portTaken' \in BOOLEAN
      /\ UNCHANGED faults \/ Fault
  BY DEF OtherReplicaCreatesBucket, TakePort, FreePort, vars, world, IInv,
         TypeOK
<1>2. MainInv'
  BY <1>1, QuietStays DEF servers, IInv, MainInv, Busy
<1> QED
  BY <1>1, <1>2, RestIInv DEF servers, IInv, TypeOK

LEMMA NextIInv == IInv /\ [Next]_vars => IInv'
BY StartUpIInv, HttpIInv, GrpcIInv, TickIInv, HourlyCleanupIInv, ShutDownIInv,
   OutsideIInv DEF Next

THEOREM Invariance == Spec => []IInv
BY InitIInv, NextIInv, PTL DEF Spec
-----------------------------------------------------------------------------
(***************************************************************************)
(* Theorems.                                                               *)
(***************************************************************************)

(* Every variable of the process and of its limiter has its type.          *)
THEOREM TypeCorrect == Spec => []TypeOK
<1>1. IInv => TypeOK
  BY DEF IInv
<1> QED
  BY <1>1, Invariance, PTL

(* The gRPC server of a process that answers health checks has its port    *)
(* and does not stop.                                                      *)
THEOREM HealthMeansBoth == Spec => []HealthyServesBoth
<1>1. IInv => HealthyServesBoth
  BY DEF IInv, MainInv, HealthyServesBoth
<1> QED
  BY <1>1, Invariance, PTL

(* What a name gets in any window of time, from removed limiters as well:  *)
(* one burst and the requests on their way, again for each removal in the  *)
(* window, and what the rate adds; whatever the burst, the rate and the    *)
(* number of requests that compete.                                        *)
THEOREM RateIsKept == Spec => []AtMostRate
<1>1. IInv => AtMostRate
  <2> SUFFICES ASSUME IInv, NEW n \in Name, NEW w \in 0..Horizon,
                      recent[n][w] > 0
               PROVE  recent[n][w] * Cost <= Allowance(w)
    BY DEF AtMostRate, Allowance, Extra
  <2>1. w \in Nat /\ recent[n][w] \in Nat /\ removed[w] \in Nat
    BY LimiterAssumption DEF IInv, TypeOK, LimiterTypeOK
  <2>2. Valid
    BY <2>1, ValidateChecks DEF IInv, MainInv, Valid
  <2> DEFINE a == recent[n][w] * Cost
             b == config.rps * w
             c == (1 + removed[w]) * Extra
  <2>3. a \in Nat /\ b \in Nat /\ c \in Nat /\ Potential(n) \in Nat
    BY <2>1, <2>2, Products, Allowances, PotentialType
       DEF IInv, LimiterInv, PotentialOK
  <2>4. a + Potential(n) <= c + b
    BY <2>2 DEF IInv, LimiterInv, UsageInv, RateOf, Allowance
  <2> HIDE DEF a, b, c
  <2>5. a <= c + b
    BY <2>3, <2>4
  <2> QED
    BY <2>5 DEF a, b, c, Allowance
<1> QED
  BY <1>1, Invariance, PTL

(* A request is refused only if, however far one looks back, its name has  *)
(* used all that the rate gave it in that time, or more than burst and     *)
(* rate allow in a shorter one: for any burst, rate and number of requests *)
(* and whichever limiter the request holds.                                *)
THEOREM RefusalsAreAtRate == Spec => []RefusesOnlyExcess
<1>1. IInv => RefusesOnlyExcess
  <2> SUFFICES ASSUME IInv, NEW q \in Slot, slot[q].at = "asking",
                      level[slot[q].held] < Cost, NEW w \in 0..Horizon
               PROVE  \/ (recent[NameOf(q)][w] + 1) * Cost > config.rps * w
                      \/ \E v \in 0..w :
                             (recent[NameOf(q)][v] + 1) * Cost
                                 > Full + config.rps * v
    BY DEF RefusesOnlyExcess
  <2> DEFINE n == NameOf(q)
             l == slot[q].held
  <2>1. n \in Name /\ l \in Limiter /\ Owns(n, l)
    BY AskingRequest DEF IInv, Asking
  <2>2. /\ Valid /\ LimiterTypeOK /\ FloorOf(n, l)
    BY <2>1, RequestIsBusy, ConfigIsValid DEF IInv, LimiterInv, UsageInv
  <2>3. level[l] \in Nat /\ Full \in Nat /\ Cost \in Nat
    BY <2>1, <2>2, Products, LimiterAssumption DEF LimiterTypeOK
  <2>4. level[l] < Cost
    OBVIOUS
  <2> HIDE DEF n, l
  <2>5. ASSUME NEW v \in 0..Horizon, NEW base \in Nat,
               level[l] >= base + Unused(n, v)
        PROVE  (recent[n][v] + 1) * Cost > base + config.rps * v
    <3> DEFINE a == config.rps * v
               b == recent[n][v] * Cost
    <3>1. v \in Nat /\ recent[n][v] \in Nat
      BY <2>1, <2>2, LimiterAssumption DEF LimiterTypeOK
    <3>2. a \in Nat /\ b \in Nat
      BY <2>2, <3>1, Products
    <3>3. (recent[n][v] + 1) * Cost = b + Cost
      BY <3>1, Products
    <3>4. level[l] >= base + (a - b)
      BY <2>5 DEF Unused
    <3> HIDE DEF a, b
    <3>5. b + Cost > base + a
      BY <2>3, <2>4, <3>2, <3>4
    <3> QED
      BY <3>3, <3>5 DEF a
  <2>6. CASE level[l] >= Unused(n, w)
    <3>1. Unused(n, w) \in Int /\ config.rps * w \in Nat
      <4>1. w \in Nat
        BY LimiterAssumption
      <4> QED
        BY <2>1, <2>2, <4>1, UnusedType, Products
    <3>2. level[l] >= 0 + Unused(n, w)
      BY <2>6, <3>1
    <3>3. (recent[n][w] + 1) * Cost > 0 + config.rps * w
      BY <2>5, <3>2
    <3> QED
      BY <3>1, <3>3 DEF n
  <2>7. CASE \E v \in 0..w : level[l] >= Full + Unused(n, v)
    <3>1. PICK v \in 0..w : level[l] >= Full + Unused(n, v)
      BY <2>7
    <3>2. v \in 0..Horizon
      BY LimiterAssumption
    <3>3. (recent[n][v] + 1) * Cost > Full + config.rps * v
      BY <2>3, <2>5, <3>1, <3>2
    <3> QED
      BY <3>3 DEF n
  <2> QED
    BY <2>2, <2>6, <2>7 DEF FloorOf
<1> QED
  BY <1>1, Invariance, PTL

(* Unless it crashes, a process ends with no gRPC call at work, except     *)
(* when another has the port of an HTTP server that never opened, and with *)
(* no HTTP request that has not had the time of shutdownCtx.               *)
THEOREM NothingIsCut == Spec => RequestsRunToTheEnd
<1> DEFINE Clean ==
        /\ \/ \A g \in GrpcCall : call[g] = "idle"
           \/ http = "starting" /\ portTaken
        /\ \/ \A q \in Slot : slot[q].at = "idle"
           \/ waited = ShutdownTimeout
<1>1. ASSUME IInv, [Next]_vars, main # "down", main' = "down",
             UNCHANGED faults
      PROVE  Clean
  <2>1. faults # faults + 1
    BY <1>1 DEF IInv, TypeOK
  <2>2. CASE CreateBucketFails
    BY <1>1, <2>2, IdleIsIdle
       DEF CreateBucketFails, IInv, MainInv, Busy, Quiet
  <2>3. CASE ServeHttpFails
    <3>1. config.httpPort # config.grpcPort
      BY <1>1 DEF IInv, MainInv, Validate
    <3> QED
      BY <1>1, <2>3, <3>1, IdleIsIdle
         DEF ServeHttpFails, PortInUse, IInv, MainInv, Quiet
  <2>4. CASE GracefulStopReturns
    BY <1>1, <2>4 DEF GracefulStopReturns, IInv, MainInv, Drained
  <2>5. CASE Crash \/ ListenFails
    BY <1>1, <2>1, <2>5 DEF Crash, ListenFails, Fault
  <2>6. CASE UNCHANGED main
    BY <1>1, <2>6
  <2>7. \/ CreateBucketFails \/ ServeHttpFails \/ GracefulStopReturns
        \/ Crash \/ ListenFails \/ UNCHANGED main
    <3>1. CASE StartUp \/ HeadBucketFails \/ ListenFails
      BY <1>1, <3>1 DEF StartUp, HeadBucketFails, LoadConfig, HeadBucket,
         CreateBucket, Listen, ServeGrpc, ServeHttp, Goto
    <3>2. ASSUME NEW q \in Slot, ReceiveHttp(q) \/ Http(q)
          PROVE  UNCHANGED main
      BY <3>2 DEF ReceiveHttp, Http, Middleware, AuthMiddleware, Request
    <3>3. ASSUME NEW g \in GrpcCall,
                 \/ ReceiveGrpc(g) \/ CallReturns(g)
                 \/ ClientEndsStream(g) \/ ConnectionAges(g)
          PROVE  UNCHANGED main
      BY <3>3 DEF ReceiveGrpc, CallReturns, ClientEndsStream,
         ConnectionAges, EndCall, Request
    <3>4. CASE \/ Tick \/ HourlyCleanup \/ OtherReplicaCreatesBucket
               \/ TakePort \/ FreePort \/ UNCHANGED vars
      BY <3>4 DEF Tick, HourlyCleanup, OtherReplicaCreatesBucket, TakePort,
         FreePort, vars
    <3>5. CASE Signal \/ ShutDown
      BY <1>1, <3>5 DEF Signal, ShutDown, ShutdownReturns
    <3> QED
      BY <1>1, <3>1, <3>2, <3>3, <3>4, <3>5 DEF Next
  <2> QED
    BY <2>2, <2>3, <2>4, <2>5, <2>6, <2>7
<1>2. IInv /\ [Next]_vars =>
          [(main # "down" /\ main' = "down" /\ UNCHANGED faults) => Clean]_vars
  BY <1>1
<1> QED
  BY <1>2, Invariance, PTL DEF Spec, RequestsRunToTheEnd
=============================================================================
