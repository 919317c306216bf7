--------------------------- MODULE FileRecordProofs ---------------------------
(* What rounding an expiry to the second does, at any clock resolution. *)
EXTENDS FileRecord, TLAPS

(* FloorSec(t) is the last whole second that is not after t. *)
LEMMA FloorFacts ==
    ASSUME NEW t \in Int
    PROVE  /\ t \div TicksPerSecond \in Int
           /\ FloorSec(t) = TicksPerSecond * (t \div TicksPerSecond)
           /\ FloorSec(t) \in Int
           /\ FloorSec(t) <= t
           /\ t < FloorSec(t) + TicksPerSecond
  <1> DEFINE T == TicksPerSecond
             q == t \div T
             r == t % T
  <1>1. T \in Nat /\ T > 0
    BY TicksAssumption
  <1>2. q \in Int /\ r \in Int /\ t = T * q + r /\ 0 <= r /\ r < T
    BY <1>1
  <1>3. FloorSec(t) = t - r
    BY DEF FloorSec
  <1>4. T * q \in Int
    BY <1>1, <1>2
  <1> HIDE DEF T, q, r
  <1>5. FloorSec(t) = T * q
    BY <1>1, <1>2, <1>3, <1>4
  <1>6. FloorSec(t) \in Int /\ FloorSec(t) <= t /\ t < FloorSec(t) + T
    BY <1>1, <1>2, <1>3, <1>4, <1>5
  <1> QED
    BY <1>2, <1>5, <1>6 DEF T, q

(* It is never negative for a time that is not. *)
LEMMA FloorNat ==
    ASSUME NEW t \in Nat
    PROVE  FloorSec(t) \in Nat
  <1> DEFINE r == t % TicksPerSecond
  <1>1. /\ r \in Int /\ r <= t
        /\ FloorSec(t) = t - r
    BY TicksAssumption DEF FloorSec
  <1> HIDE DEF r
  <1> QED
    BY <1>1

(* Of two whole seconds the later is at least a full second later. *)
LEMMA FloorApart ==
    ASSUME NEW t \in Int, NEW u \in Int, FloorSec(t) < FloorSec(u)
    PROVE  FloorSec(t) + TicksPerSecond <= FloorSec(u)
  <1> DEFINE T == TicksPerSecond
             a == t \div T
             b == u \div T
  <1>1. T \in Nat /\ T > 0
    BY TicksAssumption
  <1>2. a \in Int /\ FloorSec(t) = T * a /\ FloorSec(t) \in Int
    BY FloorFacts
  <1>3. b \in Int /\ FloorSec(u) = T * b /\ FloorSec(u) \in Int
    BY FloorFacts
  <1> HIDE DEF T, a, b
  <1>4. a < b
    <2>1. SUFFICES ASSUME b <= a PROVE FALSE
      BY <1>2, <1>3
    <2>2. PICK k \in Nat : a = b + k
      <3>1. a - b \in Nat
        BY <1>2, <1>3, <2>1
      <3> QED
        BY <3>1, <1>2, <1>3
    <2>3. T * a = T * b + T * k /\ T * k \in Nat
      BY <1>1, <1>3, <2>2
    <2> QED
      BY <2>3, <1>2, <1>3
  <1>5. PICK k \in Nat : b = a + 1 + k
    <2>1. b - a - 1 \in Nat
      BY <1>2, <1>3, <1>4
    <2> QED
      BY <2>1, <1>2, <1>3
  <1>6. T * b = T * a + T + T * k /\ T * k \in Nat
    BY <1>1, <1>2, <1>5
  <1>7. FloorSec(t) + T <= FloorSec(u)
    BY <1>1, <1>2, <1>3, <1>6
  <1> QED
    BY <1>7 DEF T

(* NOW() never runs back. *)
LEMMA FloorMonotone ==
    ASSUME NEW t \in Int, NEW u \in Int, t <= u
    PROVE  FloorSec(t) <= FloorSec(u)
  <1>1. SUFFICES ASSUME FloorSec(u) < FloorSec(t) PROVE FALSE
    BY FloorFacts
  <1>2. FloorSec(u) + TicksPerSecond <= FloorSec(t)
    BY <1>1, FloorApart
  <1>3. /\ FloorSec(t) \in Int /\ FloorSec(t) <= t
        /\ FloorSec(u) \in Int /\ u < FloorSec(u) + TicksPerSecond
    BY FloorFacts
  <1> QED
    BY <1>2, <1>3, TicksAssumption

(* The stored expiry is at most half a second later than the exact one, and *)
(* less than a second earlier.                                              *)
LEMMA RoundFacts ==
    ASSUME NEW e \in Nat
    PROVE  /\ RoundSec(e) \in Nat
           /\ RoundSec(e) <= e + (TicksPerSecond \div 2)
           /\ e < RoundSec(e) + TicksPerSecond
  <1> DEFINE h == TicksPerSecond \div 2
  <1>1. TicksPerSecond \in Nat /\ h \in Nat /\ e + h \in Nat
    BY TicksAssumption
  <1>2. RoundSec(e) = FloorSec(e + h)
    BY DEF RoundSec
  <1> HIDE DEF h
  <1>3. /\ FloorSec(e + h) \in Nat
        /\ FloorSec(e + h) <= e + h
        /\ e + h < FloorSec(e + h) + TicksPerSecond
    BY <1>1, FloorFacts, FloorNat
  <1>4. /\ RoundSec(e) \in Nat
        /\ RoundSec(e) <= e + h
        /\ e < RoundSec(e) + TicksPerSecond
    BY <1>1, <1>2, <1>3
  <1> QED
    BY <1>4 DEF h

(* The other way round, the stored expiry is earlier than the exact one by  *)
(* less than half a second.                                                 *)
LEMMA RoundEarly ==
    ASSUME NEW e \in Nat
    PROVE  e - ((TicksPerSecond - 1) \div 2) <= RoundSec(e)
  <1> DEFINE h == TicksPerSecond \div 2
  <1>1. TicksPerSecond \in Nat /\ h \in Nat /\ e + h \in Nat
    BY TicksAssumption
  <1>2. h + ((TicksPerSecond - 1) \div 2) = TicksPerSecond - 1
    BY TicksAssumption
  <1>3. FloorSec(e + h) \in Int /\ e + h < FloorSec(e + h) + TicksPerSecond
    BY <1>1, FloorFacts
  <1>4. RoundSec(e) = FloorSec(e + h) /\ (TicksPerSecond - 1) \div 2 \in Int
    BY TicksAssumption DEF RoundSec
  <1> HIDE DEF h
  <1> QED
    BY <1>1, <1>2, <1>3, <1>4

(* Rounding keeps the order of two times. *)
LEMMA RoundMonotone ==
    ASSUME NEW d \in Nat, NEW e \in Nat, d <= e
    PROVE  RoundSec(d) <= RoundSec(e)
  <1> DEFINE h == TicksPerSecond \div 2
  <1>1. h \in Nat
    BY TicksAssumption
  <1> HIDE DEF h
  <1>2. d + h \in Nat /\ e + h \in Nat /\ d + h <= e + h
    BY <1>1
  <1>3. FloorSec(d + h) <= FloorSec(e + h)
    BY <1>2, FloorMonotone
  <1> QED
    BY <1>3 DEF RoundSec, h

(* A stored expiry is an expiry. *)
LEMMA AsTimestampType ==
    ASSUME NEW exp \in Expiries
    PROVE  AsTimestamp(exp) \in Expiries
  BY RoundFacts DEF AsTimestamp, Expiries, Never

(* Although it compares two rounded times, and by a clock that may be half  *)
(* a second ahead, the sweeper's query never finds a file before its exact  *)
(* expiry: both sides are whole seconds, so a strict comparison leaves a    *)
(* full second between them, and rounding takes less than half of it.       *)
THEOREM SqlExpiredIsExpired ==
    ASSUME NEW exp \in Expiries, NEW t \in Nat, NEW skew \in Int,
           skew <= TicksPerSecond \div 2,
           SqlExpired(AsTimestamp(exp), t + skew)
    PROVE  Expired(exp, t) /\ Expired(AsTimestamp(exp), t)
  <1> DEFINE T == TicksPerSecond
             h == T \div 2
             k == (T - 1) \div 2
  <1>1. T \in Nat /\ T > 0 /\ h \in Nat /\ k \in Nat /\ h + k = T - 1
    BY TicksAssumption
  <1>2. exp \in Nat /\ exp # Never
    BY DEF SqlExpired, AsTimestamp, Expiries
  <1>3. AsTimestamp(exp) = RoundSec(exp) /\ RoundSec(exp) < FloorSec(t + skew)
    BY <1>2 DEF SqlExpired, AsTimestamp
  <1>4. RoundSec(exp) \in Nat /\ exp - k <= RoundSec(exp)
    BY <1>2, RoundFacts, RoundEarly
  <1>5. FloorSec(t + skew) \in Int /\ FloorSec(t + skew) <= t + skew
    BY FloorFacts
  <1>6. RoundSec(exp) + T <= FloorSec(t + skew)
    <2>1. exp + h \in Int /\ t + skew \in Int
      BY <1>1, <1>2
    <2> QED
      BY <1>3, <2>1, FloorApart DEF RoundSec
  <1>7. skew <= h
    OBVIOUS
  <1> HIDE DEF T, h, k
  <1>8. exp < t /\ RoundSec(exp) < t
    BY <1>1, <1>2, <1>4, <1>5, <1>6, <1>7
  <1>9. RoundSec(exp) # Never
    BY <1>4 DEF Never
  <1> QED
    BY <1>2, <1>3, <1>4, <1>8, <1>9 DEF Expired

(* And half a second is all it allows for: a database whose clock is ahead  *)
(* by one tick more lists some file that has not expired.                   *)
THEOREM NoMoreSkew ==
    ASSUME NEW skew \in Nat, skew > TicksPerSecond \div 2
    PROVE  \E exp \in Expiries, t \in Nat :
              SqlExpired(AsTimestamp(exp), t + skew) /\ ~Expired(exp, t)
  <1> DEFINE T == TicksPerSecond
             h == T \div 2
             e == T - 1 - h
  <1>1. T \in Nat /\ T > 0 /\ h \in Nat /\ e \in Nat /\ e + skew >= T
    BY TicksAssumption
  <1>2. FloorSec(T - 1) = 0
    BY TicksAssumption DEF FloorSec
  <1>3. AsTimestamp(e) = 0
    <2>1. e + h = T - 1 /\ e # Never
      BY <1>1 DEF Never
    <2> HIDE DEF e
    <2> QED
      BY <1>2, <2>1 DEF AsTimestamp, RoundSec
  <1>4. 0 < FloorSec(e + skew)
    <2>1. e + skew \in Int /\ FloorSec(e + skew) \in Int /\ e + skew < FloorSec(e + skew) + T
      BY <1>1, FloorFacts
    <2> HIDE DEF e, h, T
    <2> QED
      BY <1>1, <2>1
  <1>5. SqlExpired(AsTimestamp(e), e + skew)
    BY <1>3, <1>4 DEF SqlExpired, Never
  <1>6. ~Expired(e, e)
    BY <1>1 DEF Expired
  <1> HIDE DEF e
  <1> QED
    BY <1>1, <1>5, <1>6 DEF Expiries

(* What the sweeper's query finds once it finds ever after. *)
LEMMA SqlExpiredStays ==
    ASSUME NEW exp \in Expiries, NEW t \in Nat, NEW u \in Nat, t <= u,
           NEW skew \in Int, SqlExpired(exp, t + skew)
    PROVE  SqlExpired(exp, u + skew)
  <1>1. t + skew \in Int /\ u + skew \in Int /\ t + skew <= u + skew
    OBVIOUS
  <1>2. FloorSec(t + skew) <= FloorSec(u + skew)
    BY <1>1, FloorMonotone
  <1>3. FloorSec(t + skew) \in Int /\ FloorSec(u + skew) \in Int
    BY <1>1, FloorFacts
  <1> QED
    BY <1>2, <1>3 DEF SqlExpired, Expiries, Never
===============================================================================
