-------------------------- MODULE ScopePanel_proofs ---------------------------
(***************************************************************************)
(* What the screen shows, for any number of settings, any ring, any bad    *)
(* answers, any steps and any numbers typed.                               *)
(***************************************************************************)
EXTENDS ScopePanel, WellFoundedInduction, TLAPS

-----------------------------------------------------------------------------
(* Arithmetic of the two roundings.                                        *)

LEMMA Quotient ==
  ASSUME NEW a \in Nat, NEW b \in Nat \ {0}
  PROVE  a \div b \in Nat /\ (a \div b) * b <= a /\ a < (a \div b + 1) * b
PROOF OBVIOUS

LEMMA Monotone ==
  ASSUME NEW a \in Nat, NEW b \in Nat, NEW c \in Nat, a <= b
  PROVE  a * c <= b * c
PROOF OBVIOUS

LEMMA Cancel ==
  ASSUME NEW a \in Nat, NEW b \in Nat, NEW c \in Nat, a * c < b * c
  PROVE  a < b
<1>1. SUFFICES ASSUME b <= a PROVE FALSE
  OBVIOUS
<1>2. b * c <= a * c
  BY <1>1, Monotone
<1>3. a * c \in Nat /\ b * c \in Nat
  OBVIOUS
<1> QED
  BY <1>2, <1>3

\* A limit that came from a rate comes back from the rate it is shown as.
LEMMA RoundTrip ==
  ASSUME NEW r \in Nat \ {0}, 1000 \div r > 0
  PROVE  1000 \div (1000 \div (1000 \div r)) = 1000 \div r
<1> DEFINE i == 1000 \div r
           q == 1000 \div i
           j == 1000 \div q
<1>1. i \in Nat \ {0} /\ i * r <= 1000
  BY Quotient
<1>2. q \in Nat /\ q * i <= 1000 /\ 1000 < (q + 1) * i
  BY <1>1, Quotient
<1> HIDE DEF i, q
<1>3. r * i < (q + 1) * i
  BY <1>1, <1>2
<1>4. r < q + 1
  BY <1>1, <1>2, <1>3, Cancel
<1>5. q \in Nat \ {0}
  BY <1>2, <1>4
<1>6. j \in Nat /\ j * q <= 1000 /\ 1000 < (j + 1) * q
  BY <1>5, Quotient
<1> HIDE DEF j
<1>7. i < j + 1
  <2>1. i * q < (j + 1) * q
    BY <1>1, <1>2, <1>5, <1>6
  <2> QED
    BY <2>1, <1>1, <1>5, <1>6, Cancel
<1>8. j < i + 1
  <2>1. 1000 < (i + 1) * r
    BY Quotient DEF i
  <2>2. r * (i + 1) <= q * (i + 1)
    BY <1>1, <1>2, <1>4, Monotone
  <2>3. j * q < (i + 1) * q
    BY <2>1, <2>2, <1>1, <1>2, <1>6
  <2> QED
    BY <2>3, <1>1, <1>5, <1>6, Cancel
<1>9. j = i
  BY <1>1, <1>6, <1>7, <1>8
<1> QED
  BY <1>9 DEF i, j, q

LEMMA IntervalType == \A r \in Nat : Interval(r) \in 0..1000
<1> SUFFICES ASSUME NEW r \in Nat PROVE Interval(r) \in 0..1000
  OBVIOUS
<1>1. CASE r = 0
  BY <1>1 DEF Interval
<1>2. CASE r \in Nat \ {0}
  <2>1. 1000 \div r \in Nat /\ (1000 \div r) * r <= 1000
    BY <1>2, Quotient
  <2>2. (1000 \div r) * 1 <= (1000 \div r) * r
    BY <2>1, <1>2
  <2> QED
    BY <2>1, <2>2, <1>2 DEF Interval
<1> QED
  BY <1>1, <1>2

LEMMA RateType == \A i \in Nat : Rate(i) \in Nat
<1> SUFFICES ASSUME NEW i \in Nat PROVE Rate(i) \in Nat
  OBVIOUS
<1>1. CASE i = 0
  BY <1>1 DEF Rate
<1>2. CASE i \in Nat \ {0}
  BY <1>2, Quotient DEF Rate
<1> QED
  BY <1>1, <1>2

LEMMA NothingLimits == Rate(0) = 0 /\ Interval(0) = 0
  BY DEF Rate, Interval

\* The limits that a rate can set: what is shown sets the same limit again.
IsLimit(i) == i \in 0..1000 /\ Interval(Rate(i)) = i

LEMMA LimitOfRate == \A r \in Nat : IsLimit(Interval(r))
<1> SUFFICES ASSUME NEW r \in Nat PROVE IsLimit(Interval(r))
  OBVIOUS
<1>1. Interval(r) \in 0..1000
  BY IntervalType, SMTT(20)
<1>2. CASE Interval(r) = 0
  <2>1. Rate(Interval(r)) = 0
    BY <1>2, NothingLimits
  <2> QED
    BY <1>2, <2>1, NothingLimits DEF IsLimit
<1>3. CASE Interval(r) > 0
  <2>1. r > 0 /\ Interval(r) = 1000 \div r
    BY <1>3 DEF Interval
  <2> DEFINE i == 1000 \div r
             q == 1000 \div i
  <2>2. i \in Nat \ {0} /\ i <= 1000
    BY <1>1, <1>3, <2>1
  <2>3. 1000 \div q = i
    BY <2>1, <2>2, RoundTrip
  <2>4. q > 0
    <3> HIDE DEF i
    <3>1. q \in Nat /\ 1000 < (q + 1) * i
      BY <2>2, Quotient
    <3> HIDE DEF q
    <3>2. q * i + i = (q + 1) * i
      BY <3>1, <2>2
    <3>3. q = 0 => q * i = 0
      BY <2>2
    <3> QED
      BY <3>1, <3>2, <3>3, <2>2
  <2>5. Rate(Interval(r)) = q
    BY <2>1, <2>2 DEF Rate
  <2>6. Interval(q) = i
    BY <2>3, <2>4 DEF Interval
  <2> QED
    BY <1>1, <2>1, <2>5, <2>6 DEF IsLimit
<1> QED
  BY <1>1, <1>2, <1>3

-----------------------------------------------------------------------------
(* The spinner.                                                            *)

LEMMA HasLeast ==
  ASSUME NEW S \in SUBSET Nat, S # {}
  PROVE  \E n \in S : \A m \in S : n <= m
<1> DEFINE R == OpToRel(<, Nat)
<1>1. IsWellFoundedOn(R, Nat)
  BY NatLessThanWellFounded
<1>2. PICK n \in S : \A m \in S : ~(<<m, n>> \in R)
  <2> HIDE DEF R
  <2> QED
    BY <1>1, WFMin
<1>3. \A m \in S : ~(m < n)
  BY <1>2 DEF OpToRel
<1> QED
  BY <1>3

\* The entries of the list.
LEMMA StepTypes ==
  /\ Len(Steps) \in Nat \ {0} /\ 1 \in 1..Len(Steps) /\ Steps[1] = 1
  /\ \A k \in 1..Len(Steps) : Steps[k] \in Nat \ {0}
BY StepsAssumption

LEMMA StepsIncrease ==
  \A i, j \in 1..Len(Steps) : i <= j => Steps[i] <= Steps[j]
<1> TAKE i, j \in 1..Len(Steps)
<1>1. CASE i = j
  BY <1>1, StepTypes
<1>2. CASE i < j
  BY <1>2, StepTypes, StepsAssumption
<1> QED
  BY <1>1, <1>2, StepTypes

\* From a rate, Up takes the least step above it, 0 if there is none.
UpIsNext(c) ==
  \/ Up(c) = 0 /\ c > 0 /\ \A j \in 1..Len(Steps) : Steps[j] <= c
  \/ \E k \in 1..Len(Steps) :
       /\ Up(c) = Steps[k] /\ Steps[k] > c
       /\ \A j \in 1..Len(Steps) : Steps[j] > c => Steps[k] <= Steps[j]

LEMMA UpNext == \A c \in Nat : UpIsNext(c)
<1> SUFFICES ASSUME NEW c \in Nat PROVE UpIsNext(c)
  OBVIOUS
<1>0. \A j \in 1..Len(Steps) : j \in Above(c) <=> Steps[j] > c
  BY StepTypes DEF Above
<1>1. CASE Above(c) = {}
  <2>1. \A j \in 1..Len(Steps) : Steps[j] <= c
    BY <1>0, <1>1, StepTypes
  <2>2. c > 0
    BY <2>1, StepTypes
  <2> QED
    BY <1>1, <2>1, <2>2 DEF Up, UpIsNext
<1>2. CASE Above(c) # {}
  <2> DEFINE i == CHOOSE i \in Above(c) : \A j \in Above(c) : i <= j
  <2>1. Above(c) \subseteq 1..Len(Steps) /\ Above(c) \in SUBSET Nat
    BY StepTypes DEF Above
  <2>2. \E k \in Above(c) : \A j \in Above(c) : k <= j
    BY <1>2, <2>1, HasLeast
  <2>3. i \in Above(c) /\ \A j \in Above(c) : i <= j
    BY <2>2
  <2>4. Up(c) = Steps[i]
    BY <1>2 DEF Up
  <2> HIDE DEF i
  <2>5. i \in 1..Len(Steps) /\ Steps[i] > c
    BY <1>0, <2>1, <2>3
  <2>6. \A j \in 1..Len(Steps) : Steps[j] > c => Steps[i] <= Steps[j]
    BY <1>0, <2>3, <2>5, StepsIncrease
  <2> QED
    BY <2>4, <2>5, <2>6 DEF UpIsNext
<1> QED
  BY <1>1, <1>2

\* Down takes the greatest step below it, the first if there is none, and the
\* greatest of all if nothing is limited.
DownIsNext(c) ==
  \/ c > 0 /\ Down(c) = Steps[1] /\ \A j \in 1..Len(Steps) : c <= Steps[j]
  \/ \E k \in 1..Len(Steps) :
       /\ Down(c) = Steps[k] /\ (c > 0 => Steps[k] < c)
       /\ \A j \in 1..Len(Steps) : c = 0 \/ Steps[j] < c => Steps[j] <= Steps[k]

LEMMA DownNext == \A c \in Nat : DownIsNext(c)
<1> SUFFICES ASSUME NEW c \in Nat PROVE DownIsNext(c)
  OBVIOUS
<1>0. \A j \in 1..Len(Steps) : j \in Below(c) <=> Steps[j] < c
  BY DEF Below
<1>1. CASE c = 0
  <2>1. Down(c) = Steps[Len(Steps)] /\ Len(Steps) \in 1..Len(Steps)
    BY <1>1, StepTypes DEF Down
  <2>2. \A j \in 1..Len(Steps) : Steps[j] <= Steps[Len(Steps)]
    BY <2>1, StepTypes, StepsIncrease
  <2> QED
    BY <1>1, <2>1, <2>2 DEF DownIsNext
<1>2. CASE c > 0 /\ Below(c) = {}
  <2>1. \A j \in 1..Len(Steps) : c <= Steps[j]
    BY <1>0, <1>2, StepTypes
  <2> QED
    BY <1>2, <2>1 DEF Down, DownIsNext
<1>3. CASE c > 0 /\ Below(c) # {}
  <2> DEFINE i == CHOOSE i \in Below(c) : \A j \in Below(c) : i >= j
             Mirror == {Len(Steps) - k : k \in Below(c)}
  <2>1. Below(c) \subseteq 1..Len(Steps)
    BY DEF Below
  <2>2. Mirror \in SUBSET Nat /\ Mirror # {}
    BY <1>3, <2>1, StepTypes
  <2>3. PICK m \in Mirror : \A n \in Mirror : m <= n
    BY <2>2, HasLeast
  <2>4. PICK k \in Below(c) : m = Len(Steps) - k
    BY <2>3
  <2>5. \A j \in Below(c) : k >= j
    <3> TAKE j \in Below(c)
    <3>1. m <= Len(Steps) - j
      BY <2>3
    <3> QED
      BY <2>1, <2>4, <3>1, StepTypes
  <2>6. i \in Below(c) /\ \A j \in Below(c) : i >= j
    BY <2>5
  <2>7. Down(c) = Steps[i]
    BY <1>3 DEF Down
  <2> HIDE DEF i
  <2>8. i \in 1..Len(Steps) /\ Steps[i] < c
    BY <1>0, <2>1, <2>6
  <2>9. \A j \in 1..Len(Steps) : Steps[j] < c => Steps[j] <= Steps[i]
    BY <1>0, <2>6, <2>8, StepsIncrease
  <2> QED
    BY <1>3, <2>7, <2>8, <2>9 DEF DownIsNext
<1> QED
  BY <1>1, <1>2, <1>3

LEMMA SpinnerTypes == \A c \in Nat : Up(c) \in Nat /\ Down(c) \in Nat
<1> TAKE c \in Nat
<1>1. Up(c) \in Nat
  <2>1. UpIsNext(c)
    BY UpNext
  <2> QED
    BY <2>1, StepTypes DEF UpIsNext
<1>2. Down(c) \in Nat
  <2>1. DownIsNext(c)
    BY DownNext
  <2> QED
    BY <2>1, StepTypes DEF DownIsNext
<1> QED
  BY <1>1, <1>2

\* A higher rate has a shorter interval.
LEMMA Antitone ==
  ASSUME NEW i \in Nat \ {0}, NEW s \in Nat \ {0}, s > Rate(i)
  PROVE  Interval(s) < i
<1>1. Rate(i) \in Nat /\ 1000 < (Rate(i) + 1) * i
  BY Quotient DEF Rate
<1>2. (Rate(i) + 1) * i <= s * i
  BY <1>1, Monotone
<1>3. Interval(s) \in Nat /\ Interval(s) * s <= 1000
  BY Quotient DEF Interval
<1>4. Interval(s) * s < i * s
  BY <1>1, <1>2, <1>3
<1> QED
  BY <1>3, <1>4, Cancel

LEMMA AntitoneDown ==
  ASSUME NEW i \in Nat \ {0}, NEW s \in Nat \ {0}, s <= Rate(i)
  PROVE  Interval(s) >= i
<1>1. Rate(i) \in Nat /\ Rate(i) * i <= 1000
  BY Quotient DEF Rate
<1>2. s * i <= Rate(i) * i
  BY <1>1, Monotone
<1>3. Interval(s) \in Nat /\ 1000 < (Interval(s) + 1) * s
  BY Quotient DEF Interval
<1>4. i * s < (Interval(s) + 1) * s
  BY <1>1, <1>2, <1>3
<1>5. i < Interval(s) + 1
  BY <1>3, <1>4, Cancel
<1> QED
  BY <1>3, <1>5

LEMMA IntervalFalls ==
  ASSUME NEW r \in Nat \ {0}, NEW s \in Nat \ {0}, r <= s
  PROVE  Interval(s) <= Interval(r)
<1> DEFINE a == Interval(s)
           b == Interval(r)
<1>1. /\ a \in Nat /\ a * s <= 1000
      /\ b \in Nat /\ 1000 < (b + 1) * r
  BY Quotient DEF Interval
<1> HIDE DEF a, b
<1>2. r * a <= s * a
  BY <1>1, Monotone
<1>3. a * r < (b + 1) * r
  BY <1>1, <1>2
<1>4. a < b + 1
  BY <1>1, <1>3, Cancel
<1> QED
  BY <1>1, <1>4 DEF a, b

\* What a step is shown as.
LEMMA StepExact ==
  ASSUME NEW k \in 1..Len(Steps)
  PROVE  Interval(Steps[k]) \in Nat \ {0} /\ Rate(Interval(Steps[k])) = Steps[k]
<1> DEFINE s == Steps[k]
           q == 1000 \div s
           m == 1000 \div q
<1>1. s \in Nat \ {0} /\ q * s = 1000
  BY StepsAssumption
<1>2. q \in Nat
  BY <1>1, Quotient
<1> HIDE DEF s, q
<1>3. q > 0
  BY <1>1, <1>2
<1>4. m \in Nat /\ m * q <= 1000 /\ 1000 < (m + 1) * q
  BY <1>2, <1>3, Quotient
<1> HIDE DEF m
<1>5. s * q = 1000
  BY <1>1, <1>2
<1>6. s < m + 1
  BY <1>1, <1>2, <1>4, <1>5, Cancel
<1>7. m < s + 1
  <2>1. (s + 1) * q = s * q + q
    BY <1>1, <1>2
  <2>2. m * q < (s + 1) * q
    BY <2>1, <1>1, <1>2, <1>3, <1>4, <1>5
  <2> QED
    BY <2>2, <1>1, <1>2, <1>4, Cancel
<1>8. m = s
  BY <1>1, <1>4, <1>6, <1>7
<1>9. Interval(s) = q
  BY <1>1 DEF Interval, q
<1>10. Rate(q) = m
  BY <1>2, <1>3 DEF Rate, m
<1> QED
  BY <1>2, <1>3, <1>8, <1>9, <1>10 DEF s

-----------------------------------------------------------------------------
(* The rate and its field.                                                 *)

RateTypeOK == /\ interval \in 0..1000 /\ text \in Nat
              /\ focus \in BOOLEAN /\ untouched \in BOOLEAN
RateInv ==
  /\ RateTypeOK
  /\ IsLimit(interval)
  /\ focus /\ untouched => text = Rate(interval)

LEMMA LeftType == RateInv => IsLimit(Left) /\ Left \in Nat /\ Rate(Left) \in Nat
<1> SUFFICES ASSUME RateInv PROVE IsLimit(Left) /\ Left \in Nat /\ Rate(Left) \in Nat
  OBVIOUS
<1>1. CASE focus
  <2>1. Left = Interval(text) /\ text \in Nat
    BY <1>1 DEF RateInv, RateTypeOK, Left
  <2>2. IsLimit(Left)
    BY <2>1, LimitOfRate
  <2>3. Left \in Nat
    BY <2>2 DEF IsLimit
  <2> QED
    BY <2>2, <2>3, RateType
<1>2. CASE ~focus
  <2>1. Left = interval /\ IsLimit(interval)
    BY <1>2 DEF RateInv, Left
  <2>2. Left \in Nat
    BY <2>1 DEF IsLimit
  <2> HIDE DEF Left
  <2> QED
    BY <2>1, <2>2, RateType
<1> QED
  BY <1>1, <1>2

\* The steps that leave the rate alone.
LEMMA RateStays ==
  ASSUME AcquisitionThread \/ StartAcquisition \/ StopAcquisition \/ DisconnectScope
         \/ ConnectThread \/ RenderTick \/ PanelLoads \/ StopReturns \/ UNCHANGED vars
  PROVE  UNCHANGED rateVars
<1>1. CASE ConnectThread
  BY <1>1 DEF ConnectThread, ConnectOpens, ConnectFails, SyncHorizontal, SyncChannel,
       SyncLoads, SyncStoresSec, SyncStoresVolt, SyncForgets
<1>2. CASE AcquisitionThread \/ StartAcquisition \/ StopAcquisition \/ DisconnectScope
  BY <1>2 DEF AcquisitionThread, StartAcquisition, StopAcquisition, DisconnectScope
<1>3. CASE RenderTick \/ PanelLoads \/ StopReturns \/ UNCHANGED vars
  BY <1>3 DEF RenderTick, PanelLoads, StopReturns, vars
<1> QED
  BY <1>1, <1>2, <1>3

\* The steps that take the focus from the field.
LEMMA FieldLeft ==
  ASSUME RateInv, IsLimit(interval'), text' = text, FocusGoes
  PROVE  RateInv'
<1>1. interval' \in 0..1000
  BY DEF IsLimit
<1>2. text' \in Nat
  BY DEF RateInv, RateTypeOK
<1>3. ~focus' /\ focus' \in BOOLEAN /\ untouched' \in BOOLEAN
  BY DEF FocusGoes
<1>4. RateTypeOK'
  BY <1>1, <1>2, <1>3 DEF RateTypeOK
<1>5. IsLimit(interval)'
  BY DEF IsLimit
<1> QED
  BY <1>3, <1>4, <1>5, Zenon DEF RateInv

LEMMA RateStep == RateInv /\ [Next]_vars => RateInv'
<1> SUFFICES ASSUME RateInv, [Next]_vars PROVE RateInv'
  OBVIOUS
<1> USE DEF RateInv, RateTypeOK
<1>1. CASE EnterField
  BY <1>1 DEF EnterField
<1>2. CASE Type
  <2>1. text' \in Nat
    BY <1>2, TypedAssumption DEF Type
  <2>2. interval' = interval /\ focus' = focus /\ ~untouched' /\ untouched' \in BOOLEAN
    BY <1>2 DEF Type
  <2>3. RateTypeOK' /\ IsLimit(interval')
    BY <2>1, <2>2
  <2> HIDE DEF RateTypeOK
  <2> QED
    BY <2>2, <2>3, Zenon
<1>3. CASE LeaveField
  <2>1. IsLimit(interval')
    BY <1>3, LeftType DEF LeaveField
  <2>2. text' = text /\ FocusGoes
    BY <1>3 DEF LeaveField
  <2> QED
    BY <2>1, <2>2, FieldLeft
<1>4. CASE PressUp
  <2>1. IsLimit(interval')
    BY <1>4, LeftType, SpinnerTypes, LimitOfRate DEF PressUp
  <2>2. text' = text /\ FocusGoes
    BY <1>4 DEF PressUp
  <2> QED
    BY <2>1, <2>2, FieldLeft
<1>5. CASE PressDown
  <2>1. IsLimit(interval')
    BY <1>5, LeftType, SpinnerTypes, LimitOfRate DEF PressDown
  <2>2. text' = text /\ FocusGoes
    BY <1>5 DEF PressDown
  <2> QED
    BY <2>1, <2>2, FieldLeft
<1>6. CASE PanelShows
  <2>1. Rate(interval) \in Nat
    BY RateType DEF IsLimit
  <2> QED
    BY <1>6, <2>1 DEF PanelShows
<1>7. CASE UNCHANGED rateVars
  BY <1>7 DEF rateVars
<1> QED
  BY <1>1, <1>2, <1>3, <1>4, <1>5, <1>6, <1>7, RateStays DEF Next, User

THEOREM RateHolds == Spec => []RateInv
<1>1. Init => RateInv
  <2>1. Rate(0) = 0 /\ Interval(0) = 0
    BY NothingLimits
  <2>2. IsLimit(0)
    BY <2>1 DEF IsLimit
  <2> SUFFICES ASSUME Init PROVE RateInv
    OBVIOUS
  <2>3. interval = 0 /\ text = 0 /\ focus = FALSE /\ untouched = FALSE
    BY DEF Init
  <2>4. RateTypeOK
    <3>1. interval \in 0..1000 /\ text \in Nat
      BY <2>3
    <3> QED
      BY <2>3, <3>1 DEF RateTypeOK
  <2>5. IsLimit(interval)
    BY <2>2, <2>3
  <2> QED
    BY <2>3, <2>4, <2>5 DEF RateInv
<1> QED
  BY <1>1, RateStep, PTL DEF Spec

\* Entering and leaving the rate field changes nothing
\* (App/ScopeControlPanel.cpp:199).
THEOREM FieldHarmless == Spec => []UntouchedHarmless
<1>1. RateInv => UntouchedHarmless
  <2> SUFFICES ASSUME RateInv, focus, untouched PROVE Left = interval
    BY DEF UntouchedHarmless
  <2>1. Left = Interval(Rate(interval))
    BY DEF RateInv, Left
  <2> QED
    BY <2>1 DEF RateInv, IsLimit
<1> QED
  BY <1>1, RateHolds, PTL

\* Where a step's limit is, as seen from a limit that is shown as a rate.
LEMMA StepSeen ==
  ASSUME NEW L \in Nat \ {0}, IsLimit(L), NEW k \in 1..Len(Steps)
  PROVE  LET t == Interval(Steps[k])
         IN  /\ t \in Nat \ {0}
             /\ Steps[k] > Rate(L) => t < L
             /\ Steps[k] = Rate(L) => t = L
             /\ Steps[k] < Rate(L) => t > L
<1> DEFINE t == Interval(Steps[k])
<1>0. /\ Steps[k] \in Nat \ {0} /\ Rate(L) \in Nat
      /\ t \in Nat \ {0} /\ Rate(t) = Steps[k] /\ Interval(Rate(L)) = L
  BY StepTypes, StepExact, RateType DEF IsLimit
<1>1. ASSUME Steps[k] > Rate(L) PROVE t < L
  BY <1>0, <1>1, Antitone
<1>2. ASSUME Steps[k] = Rate(L) PROVE t = L
  BY <1>0, <1>2
<1>3. ASSUME Steps[k] < Rate(L) PROVE t > L
  <2>1. t >= L
    BY <1>0, <1>3, AntitoneDown
  <2>2. t # L
    <3> HIDE DEF t
    <3> QED
      BY <1>0, <1>3
  <2> QED
    BY <1>0, <2>1, <2>2
<1> QED
  BY <1>0, <1>1, <1>2, <1>3

\* A step up from a limit, and one down.
LEMMA UpFromLimit ==
  ASSUME NEW L \in Nat \ {0}, IsLimit(L), NEW ms, ms = Interval(Up(Rate(L)))
  PROVE  ms \in Limits \cup {0} /\ ms < L /\ Between(ms, L) = {}
<1> DEFINE c == Rate(L)
<1>0. c \in Nat /\ UpIsNext(c)
  BY RateType, UpNext
<1>1. CASE Up(c) = 0 /\ c > 0 /\ \A j \in 1..Len(Steps) : Steps[j] <= c
  <2>1. ms = 0
    BY <1>1, NothingLimits
  <2>2. ASSUME NEW t \in Between(0, L) PROVE FALSE
    <3>1. PICK j \in 1..Len(Steps) : t = Interval(Steps[j]) /\ t < L
      BY <2>2 DEF Between, Limits
    <3>2. Steps[j] \in Nat /\ Steps[j] <= c
      BY <1>1, StepTypes
    <3>3. t \in Nat /\ t >= L
      BY <1>0, <3>1, <3>2, StepSeen
    <3> QED
      BY <3>1, <3>3
  <2> QED
    BY <2>1, <2>2
<1>2. ASSUME NEW k \in 1..Len(Steps), Up(c) = Steps[k], Steps[k] > c,
             \A j \in 1..Len(Steps) : Steps[j] > c => Steps[k] <= Steps[j]
      PROVE  ms \in Limits \cup {0} /\ ms < L /\ Between(ms, L) = {}
  <2>1. ms = Interval(Steps[k]) /\ ms \in Limits
    BY <1>2 DEF Limits
  <2>2. ms \in Nat /\ ms < L
    BY <1>2, <2>1, StepSeen
  <2>3. ASSUME NEW t \in Between(ms, L) PROVE FALSE
    <3>1. PICK j \in 1..Len(Steps) : t = Interval(Steps[j]) /\ t < L /\ ms < t
      BY <2>3 DEF Between, Limits
    <3>2. t \in Nat /\ Steps[j] \in Nat \ {0} /\ Steps[k] \in Nat \ {0}
      BY <3>1, StepTypes, StepSeen
    <3>3. Steps[j] > c
      BY <1>0, <3>1, <3>2, StepSeen
    <3>4. Steps[k] <= Steps[j]
      BY <1>2, <3>3
    <3>5. t <= ms
      BY <2>1, <3>1, <3>2, <3>4, IntervalFalls
    <3> QED
      BY <2>2, <3>1, <3>2, <3>5
  <2> QED
    BY <2>1, <2>2, <2>3
<1> QED
  BY <1>0, <1>1, <1>2 DEF UpIsNext

LEMMA DownFromLimit ==
  ASSUME NEW L \in Nat \ {0}, IsLimit(L), NEW ms, ms = Interval(Down(Rate(L)))
  PROVE  ms \in Limits /\ (ms > L \/ L = Interval(Steps[1])) /\ Between(L, ms) = {}
<1> DEFINE c == Rate(L)
<1>0. c \in Nat /\ DownIsNext(c) /\ Interval(c) = L
  BY RateType, DownNext DEF IsLimit
<1>00. c > 0
  BY <1>0, NothingLimits
<1>1. CASE Down(c) = Steps[1] /\ \A j \in 1..Len(Steps) : c <= Steps[j]
  <2>1. c = Steps[1]
    BY <1>0, <1>00, <1>1, StepTypes
  <2>2. ms = L /\ L = Interval(Steps[1]) /\ ms \in Limits
    BY <1>0, <1>1, <2>1, StepTypes DEF Limits
  <2>3. ASSUME NEW t \in Between(L, L) PROVE FALSE
    <3>1. PICK j \in 1..Len(Steps) : t = Interval(Steps[j]) /\ t < L /\ L < t
      BY <2>3 DEF Between, Limits
    <3>2. t \in Nat
      BY <3>1, StepSeen
    <3> QED
      BY <3>1, <3>2
  <2> QED
    BY <2>2, <2>3
<1>2. ASSUME NEW k \in 1..Len(Steps), Down(c) = Steps[k], Steps[k] < c,
             \A j \in 1..Len(Steps) : Steps[j] < c => Steps[j] <= Steps[k]
      PROVE  ms \in Limits /\ (ms > L \/ L = Interval(Steps[1])) /\ Between(L, ms) = {}
  <2>1. ms = Interval(Steps[k]) /\ ms \in Limits
    BY <1>2 DEF Limits
  <2>2. ms \in Nat /\ ms > L
    BY <1>2, <2>1, StepSeen
  <2>3. ASSUME NEW t \in Between(L, ms) PROVE FALSE
    <3>1. PICK j \in 1..Len(Steps) : t = Interval(Steps[j]) /\ L < t /\ t < ms
      BY <2>3 DEF Between, Limits
    <3>2. t \in Nat /\ Steps[j] \in Nat \ {0} /\ Steps[k] \in Nat \ {0}
      BY <3>1, StepTypes, StepSeen
    <3>0. (Steps[j] > c => t < L) /\ (Steps[j] = c => t = L)
      BY <3>1, StepSeen
    <3>3. Steps[j] < c
      BY <1>0, <3>0, <3>1, <3>2
    <3>4. Steps[j] <= Steps[k]
      BY <1>2, <3>3
    <3>5. ms <= t
      BY <2>1, <3>1, <3>2, <3>4, IntervalFalls
    <3> QED
      BY <2>2, <3>1, <3>2, <3>5
  <2> QED
    BY <2>1, <2>2, <2>3
<1> QED
  BY <1>0, <1>00, <1>1, <1>2 DEF DownIsNext

\* The two steps from no limit.
LEMMA FromNoLimit ==
  /\ Interval(Up(0)) = Interval(Steps[1])
  /\ Interval(Down(0)) \in Limits /\ Between(0, Interval(Down(0))) = {}
<1>1. Up(0) = Steps[1]
  <2>1. PICK k \in 1..Len(Steps) :
          /\ Up(0) = Steps[k]
          /\ \A j \in 1..Len(Steps) : Steps[j] > 0 => Steps[k] <= Steps[j]
    BY UpNext DEF UpIsNext
  <2>2. Steps[k] <= Steps[1] /\ Steps[k] \in Nat \ {0}
    BY <2>1, StepTypes
  <2> QED
    BY <2>1, <2>2, StepTypes
<1>2. PICK k \in 1..Len(Steps) :
        Down(0) = Steps[k] /\ \A j \in 1..Len(Steps) : Steps[j] <= Steps[k]
  BY DownNext DEF DownIsNext
<1>3. ASSUME NEW t \in Between(0, Interval(Down(0))) PROVE FALSE
  <2>1. PICK j \in 1..Len(Steps) : t = Interval(Steps[j]) /\ t < Interval(Steps[k])
    BY <1>2, <1>3 DEF Between, Limits
  <2>2. /\ Steps[j] \in Nat \ {0} /\ Steps[k] \in Nat \ {0} /\ Steps[j] <= Steps[k]
        /\ t \in Nat /\ Interval(Steps[k]) \in Nat
    BY <1>2, <2>1, StepTypes, StepExact
  <2>3. Interval(Steps[k]) <= t
    BY <2>1, <2>2, IntervalFalls
  <2> QED
    BY <2>1, <2>2, <2>3
<1> QED
  BY <1>1, <1>2, <1>3 DEF Limits

\* The spinner goes to the next step of the list whatever rate it starts from: the
\* rate it reads back gives the same limit again, and the steps come back as they
\* were (App/ScopeControlPanel.cpp:210).
THEOREM SpinnerWorks == Spec => SpinnerSteps
<1>1. RateInv => SpinnerGoes
  <2> SUFFICES ASSUME RateInv PROVE SpinnerGoes
    OBVIOUS
  <2>0. IsLimit(Left) /\ Left \in Nat
    BY LeftType
  <2>1. ASSUME PressUp, Left # 0
        PROVE  /\ interval' \in Limits \cup {0} /\ interval' < Left
               /\ Between(interval', Left) = {}
    <3>1. interval' = Interval(Up(Rate(Left)))
      BY <2>1 DEF PressUp
    <3> QED
      BY <2>0, <2>1, <3>1, UpFromLimit
  <2>2. ASSUME PressDown, Left # 0
        PROVE  /\ interval' \in Limits
               /\ (interval' > Left \/ Left = Interval(Steps[1]))
               /\ Between(Left, interval') = {}
    <3>1. interval' = Interval(Down(Rate(Left)))
      BY <2>2 DEF PressDown
    <3> QED
      BY <2>0, <2>2, <3>1, DownFromLimit
  <2>3. ASSUME PressUp, Left = 0 PROVE interval' = Interval(Steps[1])
    BY <2>3, NothingLimits, FromNoLimit DEF PressUp
  <2>4. ASSUME PressDown, Left = 0
        PROVE  interval' \in Limits /\ Between(0, interval') = {}
    <3>1. interval' = Interval(Down(0))
      BY <2>4, NothingLimits DEF PressDown
    <3> QED
      BY <3>1, FromNoLimit
  <2> QED
    BY <2>1, <2>2, <2>3, <2>4 DEF SpinnerGoes
<1>2. RateInv => [SpinnerGoes]_vars
  BY <1>1
<1> QED
  BY <1>2, RateHolds, PTL DEF Spec, SpinnerSteps

-----------------------------------------------------------------------------
(* Types.                                                                  *)

LEMMA ParseType ==
  ASSUME DataTypeOK, NEW P, NEW R
  PROVE  Parse(P, R) \in Preambles
BY DEF DataTypeOK, Parse, Preambles

LEMMA FrameType ==
  ASSUME DataTypeOK
  PROVE  Frame \in Frames
<1>1. (partial \/ (layout = 15 /\ longSeen)) \in BOOLEAN
  OBVIOUS
<1> QED
  BY <1>1 DEF DataTypeOK, Frame, Frames

LEMMA SecType == ASSUME NEW p \in Preambles PROVE SecPerDiv(p) \in Secs /\ VoltsPerDiv(p) \in Versions
BY DEF Preambles, Fields, SecPerDiv, VoltsPerDiv, Secs

\* The steps of the acquisition thread and the types of what it writes.
LEMMA ThreadTypes == ASSUME DataTypeOK, ThreadStep PROVE DataTypeOK'
<1> USE DEF DataTypeOK
<1>1. CASE ThreadExits
  BY <1>1 DEF ThreadExits, instrumentVars, historyVars
<1>2. CASE CommandChangesSetting
  <2>1. settings' \in Versions
    BY <1>2, DataAssumption DEF CommandChangesSetting, Versions
  <2>2. /\ valid' = FALSE
        /\ UNCHANGED <<layout, connected, pre, errno, acqPc, stopRequest, cachedSec,
                       cachedVolt, ring, historyVars>>
    BY <1>2 DEF CommandChangesSetting
  <2> QED
    BY <2>1, <2>2 DEF historyVars
<1>3. CASE CacheUsed
  BY <1>3 DEF CacheUsed, instrumentVars, historyVars
<1>4. CASE \E short \in Shortcomings : RefreshAnswered(short)
  <2> PICK short \in Shortcomings : RefreshAnswered(short)
    BY <1>4
  <2> DEFINE present == Present(layout, short.missing)
             p == Parse(present, short.range)
  <2>1. p \in Preambles
    BY ParseType
  <2> HIDE DEF p, present
  <2>2. /\ errno' = (errno \/ present \cap short.range # {})
        /\ partial' = (short.missing # {} \/ errno') /\ longSeen' = (longSeen \/ layout = 16)
        /\ valid' = IsValid(p)
    BY DEF RefreshAnswered, p, present
  <2>3. errno' \in BOOLEAN /\ partial' \in BOOLEAN /\ longSeen' \in BOOLEAN /\ valid' \in BOOLEAN
    BY <2>2 DEF IsValid
  <2>4. /\ acqPc' \in {"curve", "top"} /\ pre' = p
        /\ UNCHANGED <<instrumentVars, stopRequest, cachedSec, cachedVolt, ring, apart, fresh>>
    BY DEF RefreshAnswered, p, present
  <2> QED
    BY <2>1, <2>3, <2>4 DEF instrumentVars
<1>5. CASE CurveFails
  BY <1>5 DEF CurveFails, instrumentVars, historyVars
<1>6. CASE CurveRead
  BY <1>6, SecType DEF CurveRead, instrumentVars
<1>7. CASE StoreVolt
  BY <1>7, SecType DEF StoreVolt, instrumentVars
<1>8. CASE \E samples \in BOOLEAN : Deliver(samples)
  <2> PICK samples \in BOOLEAN : Deliver(samples)
    BY <1>8
  <2> DEFINE taken == samples /\ Len(ring) < Capacity
  <2>1. taken \in BOOLEAN /\ apart' = (apart \/ ~taken)
    BY DEF Deliver
  <2>2. ring' \in Seq(Frames) /\ Len(ring') <= Capacity
    <3>1. CASE taken
      BY <3>1, FrameType, DataAssumption DEF Deliver
    <3>2. CASE ~taken
      BY <3>2 DEF Deliver
    <3> QED
      BY <3>1, <3>2
  <2>3. /\ acqPc' = "top"
        /\ UNCHANGED <<instrumentVars, valid, pre, errno, stopRequest, cachedSec, cachedVolt,
                       partial, longSeen, fresh>>
    BY DEF Deliver
  <2> HIDE DEF taken
  <2>4. apart' \in BOOLEAN
    BY <2>1
  <2> QED
    BY <2>2, <2>3, <2>4 DEF instrumentVars
<1> QED
  BY <1>1, <1>2, <1>3, <1>4, <1>5, <1>6, <1>7, <1>8 DEF ThreadStep

LEMMA DataStays == ASSUME DataTypeOK, UNCHANGED dataVars PROVE DataTypeOK'
BY DEF DataTypeOK, dataVars, instrumentVars, historyVars

LEMMA EmptyRing == Len(<< >>) = 0 /\ << >> \in Seq(Frames)
  OBVIOUS

\* The connect thread's own variables, and what it writes of the others'.
SyncTypes ==
  /\ connPc \in {"off", "identify", "channel", "load", "storeSec", "storeVolt", "forget"}
  /\ syncSec \in Secs \cup {None} /\ syncVolt \in Versions \cup {None}
  /\ connPc \in {"storeSec", "storeVolt"} => syncSec \in Secs /\ syncVolt \in Versions

LEMMA ConnectTypes ==
  ASSUME DataTypeOK, SyncTypes, ConnectThread
  PROVE  DataTypeOK' /\ SyncTypes'
<1> USE DEF DataTypeOK, SyncTypes
<1>1. CASE ConnectOpens
  <2>1. settings' \in Versions
    BY <1>1, DataAssumption DEF ConnectOpens, Versions
  <2>2. /\ layout' \in Layouts /\ connected' \in BOOLEAN /\ partial' \in BOOLEAN
        /\ connPc' = "identify"
        /\ UNCHANGED <<valid, pre, errno, acqPc, stopRequest, cachedSec, cachedVolt, ring,
                       longSeen, apart, fresh, syncSec, syncVolt>>
    BY <1>1 DEF ConnectOpens
  <2> QED
    BY <2>1, <2>2
<1>2. CASE ConnectFails
  BY <1>2, DataStays DEF ConnectFails
<1>3. CASE SyncHorizontal
  <2>1. [nrPt |-> settings, xIncr |-> settings] \in Secs
    BY DEF Secs
  <2>2. syncSec' \in Secs \cup {None}
    BY <1>3, <2>1 DEF SyncHorizontal, Query
  <2> QED
    BY <1>3, <2>2, DataStays DEF SyncHorizontal
<1>4. CASE SyncChannel
  <2>1. syncVolt' \in Versions \cup {None} /\ connPc' \in {"forget", "load"}
    BY <1>4 DEF SyncChannel, Query
  <2> QED
    BY <1>4, <2>1, DataStays DEF SyncChannel
<1>5. CASE SyncLoads
  <2>1. syncSec' \in Secs /\ syncVolt' \in Versions
    BY <1>5 DEF SyncLoads
  <2> QED
    BY <1>5, <2>1, DataStays DEF SyncLoads
<1>6. CASE SyncStoresSec
  <2>1. cachedSec' \in Secs
    BY <1>6 DEF SyncStoresSec
  <2>2. /\ connPc' = "storeVolt" /\ apart' \in BOOLEAN /\ fresh' \in BOOLEAN
        /\ UNCHANGED <<instrumentVars, valid, pre, errno, acqPc, stopRequest, cachedVolt, ring,
                       partial, longSeen, syncSec, syncVolt>>
    BY <1>6 DEF SyncStoresSec
  <2> QED
    BY <1>6, <2>1, <2>2 DEF SyncStoresSec, instrumentVars
<1>7. CASE SyncStoresVolt
  <2>1. cachedVolt' \in Versions
    BY <1>7 DEF SyncStoresVolt
  <2>2. /\ connPc' = "forget" /\ apart' \in BOOLEAN /\ fresh' \in BOOLEAN
        /\ UNCHANGED <<instrumentVars, valid, pre, errno, acqPc, stopRequest, cachedSec, ring,
                       partial, longSeen, syncSec, syncVolt>>
    BY <1>7 DEF SyncStoresVolt
  <2> QED
    BY <2>1, <2>2 DEF instrumentVars
<1>8. CASE SyncForgets
  BY <1>8 DEF SyncForgets, instrumentVars, historyVars
<1> QED
  BY <1>1, <1>2, <1>3, <1>4, <1>5, <1>6, <1>7, <1>8 DEF ConnectThread

LEMMA OthersLeaveSync ==
  ASSUME [Next]_vars, ~ConnectThread
  PROVE  UNCHANGED syncVars
<1>1. CASE AcquisitionThread
  BY <1>1 DEF AcquisitionThread, syncVars
<1>2. CASE User
  BY <1>2 DEF User, EnterField, Type, LeaveField, PressUp, PressDown, StartAcquisition,
     StopAcquisition, DisconnectScope
<1>3. CASE RenderTick \/ PanelLoads \/ PanelShows \/ StopReturns \/ UNCHANGED vars
  BY <1>3 DEF RenderTick, PanelLoads, PanelShows, StopReturns, vars
<1> QED
  BY <1>1, <1>2, <1>3 DEF Next

LEMMA SyncStep == TypeOK /\ SyncTypes /\ [Next]_vars => SyncTypes'
<1> SUFFICES ASSUME TypeOK, SyncTypes, [Next]_vars PROVE SyncTypes'
  OBVIOUS
<1>1. CASE ConnectThread
  BY <1>1, ConnectTypes DEF TypeOK
<1>2. CASE ~ConnectThread
  BY <1>2, OthersLeaveSync DEF SyncTypes, syncVars
<1> QED
  BY <1>1, <1>2

LEMMA TypeStep == TypeOK /\ SyncTypes /\ SyncTypes' /\ RateInv' /\ [Next]_vars => TypeOK'
<1> SUFFICES ASSUME TypeOK, SyncTypes, SyncTypes', RateInv', [Next]_vars PROVE TypeOK'
  OBVIOUS
<1> DEFINE UiTypes == /\ uiPc \in {"idle", "loaded", "waiting"} /\ loadedSec \in Secs
                      /\ shown \in Scales \cup {None} /\ wave \in Frames \cup {None}
<1>0. RateTypeOK'
  BY DEF RateInv
<1>a. SUFFICES DataTypeOK' /\ UiTypes'
  BY <1>0 DEF TypeOK, RateTypeOK, SyncTypes
<1>b. DataTypeOK /\ UiTypes
  BY DEF TypeOK
<1>c. UNCHANGED <<uiPc, loadedSec, waveVars>> => UiTypes'
  BY <1>b DEF waveVars
<1>1. CASE AcquisitionThread
  BY <1>1, <1>b, <1>c, ThreadTypes DEF AcquisitionThread
<1>2. CASE EnterField \/ Type \/ LeaveField \/ PressUp \/ PressDown
  <2>1. UNCHANGED dataVars /\ UNCHANGED <<uiPc, loadedSec, waveVars>>
    BY <1>2 DEF EnterField, Type, LeaveField, PressUp, PressDown
  <2> QED
    BY <2>1, <1>b, <1>c, DataStays
<1>3. CASE RenderTick
  <2>1. UiTypes'
    <3>1. ring # <<>> => Len(ring) \in 1..Len(ring)
      BY <1>b DEF DataTypeOK
    <3>2. wave' \in Frames \cup {None}
      BY <1>3, <1>b, <3>1 DEF RenderTick, DataTypeOK
    <3> QED
      BY <1>3, <1>b, <3>2 DEF RenderTick
  <2>2. DataTypeOK'
    BY <1>3, <1>b, EmptyRing, DataAssumption
       DEF RenderTick, DataTypeOK, instrumentVars, historyVars
  <2> QED
    BY <2>1, <2>2
<1>4. CASE PanelLoads
  <2>1. UiTypes'
    BY <1>4, <1>b DEF PanelLoads, waveVars, DataTypeOK
  <2>2. DataTypeOK'
    BY <1>4, <1>b DEF PanelLoads, DataTypeOK, instrumentVars
  <2> QED
    BY <2>1, <2>2
<1>5. CASE PanelShows
  <2>1. [sec |-> loadedSec, volt |-> cachedVolt] \in Scales
    BY <1>b DEF DataTypeOK, Scales
  <2>2. UiTypes'
    BY <1>5, <1>b, <2>1, DataAssumption DEF PanelShows, NoSec, Secs, Versions
  <2>3. DataTypeOK'
    BY <1>5, <1>b, DataStays DEF PanelShows
  <2> QED
    BY <2>2, <2>3
<1>6. CASE StartAcquisition
  <2>1. DataTypeOK'
    BY <1>6, <1>b DEF StartAcquisition, DataTypeOK, instrumentVars, historyVars
  <2> QED
    BY <1>6, <2>1, <1>c DEF StartAcquisition
<1>7. CASE StopAcquisition
  <2>1. DataTypeOK'
    BY <1>7, <1>b DEF StopAcquisition, DataTypeOK, instrumentVars, historyVars
  <2>2. UiTypes'
    BY <1>7, <1>b DEF StopAcquisition, waveVars
  <2> QED
    BY <2>1, <2>2
<1>8. CASE StopReturns
  <2>1. UiTypes'
    BY <1>8, <1>b DEF StopReturns, waveVars
  <2> QED
    BY <1>8, <2>1, <1>b, DataStays DEF StopReturns
<1>9. CASE DisconnectScope
  <2>1. DataTypeOK'
    BY <1>9, <1>b DEF DisconnectScope, DataTypeOK, historyVars
  <2> QED
    BY <1>9, <2>1, <1>c DEF DisconnectScope
<1>10. CASE ConnectThread
  <2>1. UNCHANGED <<uiPc, loadedSec, waveVars>>
    BY <1>10 DEF ConnectThread, ConnectOpens, ConnectFails, SyncHorizontal, SyncChannel,
       SyncLoads, SyncStoresSec, SyncStoresVolt, SyncForgets
  <2> QED
    BY <1>10, <2>1, <1>b, <1>c, ConnectTypes
<1>11. CASE UNCHANGED vars
  <2>1. UNCHANGED dataVars /\ UNCHANGED <<uiPc, loadedSec, waveVars>>
    BY <1>11 DEF vars
  <2> QED
    BY <2>1, <1>b, <1>c, DataStays
<1> QED
  BY <1>1, <1>2, <1>3, <1>4, <1>5, <1>6, <1>7, <1>8, <1>9, <1>10, <1>11 DEF Next, User

LEMMA TypeInit == Init => TypeOK /\ SyncTypes
<1> SUFFICES ASSUME Init PROVE TypeOK /\ SyncTypes
  OBVIOUS
<1>1. 0 \in Versions
  BY DataAssumption DEF Versions
<1>2. DataTypeOK
  <2>1. pre \in Preambles /\ cachedSec \in Secs
    BY <1>1 DEF Init, DataInit, Preambles, Secs
  <2>2. ring \in Seq(Frames) /\ Len(ring) <= Capacity
    BY EmptyRing, DataAssumption DEF Init, DataInit
  <2> QED
    BY <1>1, <2>1, <2>2 DEF Init, DataInit, DataTypeOK, Layouts
<1>3. loadedSec \in Secs
  BY <1>1 DEF Init, NoSec, Secs
<1>4. interval \in 0..1000 /\ text \in Nat
  BY DEF Init
<1> QED
  BY <1>2, <1>3, <1>4 DEF Init, TypeOK, SyncTypes

\* Types of the data, of what the screen has, and of the rate.
THEOREM TypeCorrect == Spec => []TypeOK
  BY TypeInit, TypeStep, SyncStep, RateHolds, PTL DEF Spec

-----------------------------------------------------------------------------
(* The waveforms' own scales.                                              *)

\* What is known of the preamble object while it may be used.  xZero keeps its
\* first value until an instrument with the longer layout was read.
PreGood == partial \/ (layout = 15 /\ longSeen) \/ Right(Frame)
ScalesInv ==
  /\ valid \/ acqPc \in {"curve", "storeVolt", "decode"} => PreGood
  /\ ~longSeen => pre["xZero"] = 0

\* A complete answer with all its numbers understood makes the object good.
LEMMA RefreshGood ==
  ASSUME TypeOK, ScalesInv, NEW short \in Shortcomings, RefreshAnswered(short)
  PROVE  PreGood' /\ (~longSeen' => pre'["xZero"] = 0)
<1> DEFINE present == Present(layout, short.missing)
           p == Parse(present, short.range)
<1>0. layout \in Layouts /\ errno \in BOOLEAN /\ layout' = layout /\ settings' = settings
  BY DEF TypeOK, DataTypeOK, RefreshAnswered, instrumentVars
<1>1. /\ pre' = p /\ errno' = (errno \/ present \cap short.range # {})
      /\ partial' = (short.missing # {} \/ errno') /\ longSeen' = (longSeen \/ layout = 16)
  BY DEF RefreshAnswered
<1>2. \A f \in Fields : p[f] = IF f \in Understood(present, short.range) THEN settings ELSE pre[f]
  BY DEF Parse
<1>3. "xZero" \in Fields
  BY DEF Fields
<1>4. layout = 15 => "xZero" \notin Understood(present, short.range)
  BY DEF Understood, Present
<1>5. ~longSeen' => pre'["xZero"] = 0
  BY <1>0, <1>1, <1>2, <1>3, <1>4 DEF ScalesInv, Layouts
<1>6. ASSUME ~partial', ~(layout' = 15 /\ longSeen') PROVE Right(Frame)'
  <2>1. ~errno /\ present \cap short.range = {} /\ short.missing = {}
    BY <1>1, <1>6
  <2>2. Understood(present, short.range) = present
    BY <2>1 DEF Understood, Present
  <2>3. \A f \in Fields \ {"xZero"} : pre'[f] = settings'
    BY <1>0, <1>1, <1>2, <2>1, <2>2 DEF Present
  <2>4. layout = 16 => pre'["xZero"] = settings'
    BY <1>0, <1>1, <1>2, <1>3, <2>1, <2>2 DEF Present
  <2>5. layout = 15 => pre'["xZero"] = 0
    BY <1>0, <1>5, <1>6
  <2> QED
    BY <2>3, <2>4, <2>5, <1>0 DEF Right, Frame, Layouts
<1> QED
  BY <1>5, <1>6 DEF PreGood

LEMMA ScalesStays ==
  ASSUME ScalesInv, UNCHANGED <<settings, layout, valid, pre, acqPc, partial, longSeen>>
  PROVE  ScalesInv'
BY DEF ScalesInv, PreGood, Right, Frame

LEMMA ScalesStep == TypeOK /\ ScalesInv /\ [Next]_vars => ScalesInv'
<1> SUFFICES ASSUME TypeOK, ScalesInv, [Next]_vars PROVE ScalesInv'
  OBVIOUS
<1>1. CASE AcquisitionThread
  <2>1. CASE ThreadExits
    BY <2>1 DEF ThreadExits, ScalesInv, PreGood, Right, Frame, instrumentVars, historyVars
  <2>2. CASE CommandChangesSetting
    BY <2>2 DEF CommandChangesSetting, ScalesInv, historyVars
  <2>3. CASE CacheUsed
    BY <2>3 DEF CacheUsed, ScalesInv, PreGood, Right, Frame, instrumentVars, historyVars
  <2>4. CASE \E short \in Shortcomings : RefreshAnswered(short)
    <3> PICK short \in Shortcomings : RefreshAnswered(short)
      BY <2>4
    <3> QED
      BY RefreshGood DEF ScalesInv
  <2>5. CASE CurveFails \/ CurveRead \/ StoreVolt
    BY <2>5 DEF CurveFails, CurveRead, StoreVolt, ScalesInv, PreGood, Right, Frame,
                instrumentVars, historyVars
  <2>6. CASE \E samples \in BOOLEAN : Deliver(samples)
    BY <2>6 DEF Deliver, ScalesInv, PreGood, Right, Frame, instrumentVars
  <2> QED
    BY <1>1, <2>1, <2>2, <2>3, <2>4, <2>5, <2>6 DEF AcquisitionThread, ThreadStep
<1>2. CASE ConnectThread
  <2>1. CASE ConnectOpens
    BY <2>1 DEF ConnectOpens, ScalesInv, PreGood
  <2>2. CASE SyncForgets
    BY <2>2 DEF SyncForgets, ScalesInv, PreGood, Right, Frame, instrumentVars, historyVars
  <2>3. CASE \/ ConnectFails \/ SyncHorizontal \/ SyncChannel \/ SyncLoads
             \/ SyncStoresSec \/ SyncStoresVolt
    <3>1. UNCHANGED <<settings, layout, valid, pre, acqPc, partial, longSeen>>
      BY <2>3 DEF ConnectFails, SyncHorizontal, SyncChannel, SyncLoads, SyncStoresSec,
                  SyncStoresVolt, dataVars, instrumentVars, historyVars
    <3> QED
      BY <3>1, ScalesStays
  <2> QED
    BY <1>2, <2>1, <2>2, <2>3 DEF ConnectThread
<1>3. CASE StartAcquisition
  BY <1>3 DEF StartAcquisition, ScalesInv, PreGood, Right, Frame, instrumentVars, historyVars
<1>4. CASE \/ EnterField \/ Type \/ LeaveField \/ PressUp \/ PressDown \/ StopAcquisition
           \/ DisconnectScope \/ RenderTick \/ PanelLoads \/ PanelShows \/ StopReturns
           \/ UNCHANGED vars
  <2>1. UNCHANGED <<settings, layout, valid, pre, acqPc, partial, longSeen>>
    BY <1>4 DEF EnterField, Type, LeaveField, PressUp, PressDown, StopAcquisition,
                DisconnectScope, RenderTick, PanelLoads, PanelShows, StopReturns, vars,
                dataVars, instrumentVars, historyVars
  <2> QED
    BY <2>1, ScalesStays
<1> QED
  BY <1>1, <1>2, <1>3, <1>4 DEF Next, User

\* The ring and the picture take what the object was.
Own(w) == w.doubt \/ Right(w)

LEMMA OwnStep ==
  TypeOK /\ ScalesInv /\ ScalesOfItsOwn /\ [Next]_vars => ScalesOfItsOwn'
<1> SUFFICES ASSUME TypeOK, ScalesInv, ScalesOfItsOwn, [Next]_vars PROVE ScalesOfItsOwn'
  OBVIOUS
<1>0. /\ ring \in Seq(Frames) /\ \A i \in 1..Len(ring) : Own(ring[i])
      /\ wave # None => Own(wave)
  BY DEF TypeOK, DataTypeOK, ScalesOfItsOwn, Own
<1>00. SUFFICES /\ \A i \in 1..Len(ring') : Own(ring'[i])
                /\ wave' # None => Own(wave')
  BY DEF ScalesOfItsOwn, Own
<1>1. CASE \E samples \in BOOLEAN : Deliver(samples) /\ UNCHANGED waveVars
  <2>1. PICK samples \in BOOLEAN : Deliver(samples) /\ UNCHANGED waveVars
    BY <1>1
  <2>2. wave' = wave
    BY <2>1 DEF waveVars
  <2>3. Own(Frame)
    BY <2>1 DEF Deliver, ScalesInv, PreGood, Own, Frame
  <2>4. CASE ring' = ring
    BY <2>4, <2>2, <1>0
  <2>5. CASE ring' = Append(ring, Frame)
    <3> DEFINE F == Frame
    <3> HIDE DEF F
    <3>1. /\ Len(ring') = Len(ring) + 1 /\ Len(ring) \in Nat /\ ring'[Len(ring) + 1] = F
          /\ \A i \in 1..Len(ring) : ring'[i] = ring[i]
      BY <2>5, <1>0 DEF F
    <3>2. \A i \in 1..Len(ring') : i \in 1..Len(ring) \/ i = Len(ring) + 1
      BY <3>1
    <3>3. Own(F)
      BY <2>3 DEF F
    <3> QED
      BY <3>1, <3>2, <3>3, <2>2, <1>0
  <2> QED
    BY <2>1, <2>4, <2>5 DEF Deliver
<1>2. CASE RenderTick
  <2>1. ring' = <<>> /\ wave' = IF ring = <<>> THEN wave ELSE ring[Len(ring)]
    BY <1>2 DEF RenderTick
  <2>2. ring # <<>> => Len(ring) \in 1..Len(ring)
    BY <1>0
  <2>3. 1..Len(ring') = {}
    BY <2>1
  <2> QED
    BY <2>1, <2>2, <2>3, <1>0
<1>3. CASE UNCHANGED <<ring, wave>>
  BY <1>3, <1>0
<1>4. CASE AcquisitionThread
  <2>1. CASE \E samples \in BOOLEAN : Deliver(samples)
    BY <1>1, <1>4, <2>1 DEF AcquisitionThread
  <2>2. CASE ~\E samples \in BOOLEAN : Deliver(samples)
    BY <1>3, <1>4, <2>2 DEF AcquisitionThread, ThreadStep, waveVars, ThreadExits,
       CommandChangesSetting, CacheUsed, RefreshAnswered, CurveFails, CurveRead, StoreVolt
  <2> QED
    BY <2>1, <2>2
<1>5. CASE \/ User \/ PanelLoads \/ PanelShows \/ StopReturns \/ UNCHANGED vars
  BY <1>3, <1>5 DEF User, EnterField, Type, LeaveField, PressUp, PressDown, StopAcquisition,
     StartAcquisition, DisconnectScope, PanelLoads, PanelShows, StopReturns,
     vars, dataVars, waveVars
<1>6. CASE ConnectThread
  BY <1>3, <1>6 DEF ConnectThread, ConnectOpens, ConnectFails, SyncHorizontal, SyncChannel,
       SyncLoads, SyncStoresSec, SyncStoresVolt, SyncForgets,
     dataVars, waveVars
<1> QED
  BY <1>2, <1>4, <1>5, <1>6 DEF Next

\* A waveform carries the scales the instrument gave for it
\* (Waveform/WaveformPreamble.cpp:32).
THEOREM ScalesRight == Spec => []ScalesOfItsOwn
<1>1. Init => ScalesInv
  BY DEF Init, DataInit, ScalesInv, Fields
<1>2. Init => ScalesOfItsOwn
  <2> SUFFICES ASSUME Init PROVE ScalesOfItsOwn
    OBVIOUS
  <2>1. 1..Len(ring) = {} /\ wave = None
    BY DEF Init, DataInit
  <2> QED
    BY <2>1 DEF ScalesOfItsOwn
<1> QED
  BY <1>1, <1>2, ScalesStep, OwnStep, TypeCorrect, PTL DEF Spec

-----------------------------------------------------------------------------
(* The panel and the picture.                                              *)

Newest == IF ring = <<>> THEN wave ELSE ring[Len(ring)]
Cached == [sec |-> cachedSec, volt |-> cachedVolt]

\* What the panel holds: the cached scales as they are, unless they changed.
PanelInv ==
  fresh => /\ uiPc = "loaded" => loadedSec = cachedSec
           /\ uiPc # "loaded" /\ shown # None => shown = Cached

\* What the cached scales are, unless something put them apart: those of the object
\* between the stores and the delivery, those of the newest waveform otherwise.
CacheInv ==
  ~apart => /\ acqPc \in {"storeVolt", "decode"} => cachedSec = SecPerDiv(pre)
            /\ acqPc = "decode" => cachedVolt = VoltsPerDiv(pre)
            /\ acqPc \in {"off", "top", "curve"} =>
                 Newest # None /\ Scale(Newest) = Cached

LEMMA PanelStays ==
  ASSUME PanelInv, UNCHANGED <<fresh, uiPc, loadedSec, cachedSec, cachedVolt, shown>>
  PROVE  PanelInv'
BY DEF PanelInv, Cached

LEMMA PanelStep == PanelInv /\ [Next]_vars => PanelInv'
<1> SUFFICES ASSUME PanelInv, [Next]_vars PROVE PanelInv'
  OBVIOUS
<1>1. CASE CurveRead \/ StoreVolt
  BY <1>1 DEF CurveRead, StoreVolt, PanelInv
<1>7. CASE ConnectThread
  <2>1. CASE SyncStoresSec \/ SyncStoresVolt
    BY <2>1 DEF SyncStoresSec, SyncStoresVolt, PanelInv
  <2>2. CASE \/ ConnectOpens \/ ConnectFails \/ SyncHorizontal \/ SyncChannel \/ SyncLoads
             \/ SyncForgets
    <3>1. UNCHANGED <<fresh, uiPc, loadedSec, cachedSec, cachedVolt, shown>>
      BY <2>2 DEF ConnectOpens, ConnectFails, SyncHorizontal, SyncChannel, SyncLoads,
         SyncForgets, dataVars, historyVars, waveVars
    <3> QED
      BY <3>1, PanelStays
  <2> QED
    BY <1>7, <2>1, <2>2 DEF ConnectThread
<1>2. CASE PanelLoads
  BY <1>2 DEF PanelLoads, PanelInv
<1>3. CASE PanelShows
  BY <1>3 DEF PanelShows, PanelInv, Cached, dataVars, historyVars
<1>4. CASE StopAcquisition \/ StopReturns
  BY <1>4 DEF StopAcquisition, StopReturns, PanelInv, Cached, dataVars, historyVars, waveVars
<1>5. CASE AcquisitionThread
  <2>1. CASE CurveRead \/ StoreVolt
    BY <1>1, <2>1
  <2>2. CASE ~(CurveRead \/ StoreVolt)
    <3>1. UNCHANGED <<fresh, uiPc, loadedSec, cachedSec, cachedVolt, shown>>
      BY <1>5, <2>2 DEF AcquisitionThread, ThreadStep, ThreadExits, CommandChangesSetting,
         CacheUsed, RefreshAnswered, CurveFails, Deliver, historyVars, waveVars
    <3> QED
      BY <3>1, PanelStays
  <2> QED
    BY <2>1, <2>2
<1>6. CASE \/ EnterField \/ Type \/ LeaveField \/ PressUp \/ PressDown \/ StartAcquisition
           \/ DisconnectScope \/ RenderTick \/ UNCHANGED vars
  <2>1. UNCHANGED <<fresh, uiPc, loadedSec, cachedSec, cachedVolt, shown>>
    BY <1>6 DEF EnterField, Type, LeaveField, PressUp, PressDown, StartAcquisition,
       DisconnectScope, RenderTick, vars, dataVars, historyVars, waveVars
  <2> QED
    BY <2>1, PanelStays
<1> QED
  BY <1>1, <1>2, <1>3, <1>4, <1>5, <1>6, <1>7 DEF Next, User

LEMMA CacheStays ==
  ASSUME CacheInv, UNCHANGED <<acqPc, cachedSec, cachedVolt, pre, apart, ring, wave>>
  PROVE  CacheInv'
BY DEF CacheInv, Newest, Cached, SecPerDiv, VoltsPerDiv, Scale

\* The newest waveform is the one that was put into the ring.
LEMMA DeliverNewest ==
  ASSUME TypeOK, ring' = Append(ring, Frame)
  PROVE  Newest' = Frame
<1> DEFINE F == Frame
<1> HIDE DEF F
<1>1. ring \in Seq(Frames) /\ ring' = Append(ring, F)
  BY DEF TypeOK, DataTypeOK, F
<1>2. Len(ring') = Len(ring) + 1 /\ Len(ring) \in Nat /\ ring'[Len(ring) + 1] = F
  BY <1>1
<1>3. ring' # <<>>
  BY <1>2
<1> QED
  BY <1>2, <1>3 DEF Newest, F

LEMMA CacheStep == TypeOK /\ CacheInv /\ [Next]_vars => CacheInv'
<1> SUFFICES ASSUME TypeOK, CacheInv, [Next]_vars PROVE CacheInv'
  OBVIOUS
<1>1. CASE AcquisitionThread
  <2>0. wave' = wave
    BY <1>1 DEF AcquisitionThread, waveVars
  <2>1. CASE ThreadExits \/ CommandChangesSetting \/ CacheUsed \/ CurveFails
    BY <2>0, <2>1 DEF ThreadExits, CommandChangesSetting, CacheUsed, CurveFails, CacheInv,
       Newest, Cached, historyVars
  <2>2. CASE \E short \in Shortcomings : RefreshAnswered(short)
    BY <2>0, <2>2 DEF RefreshAnswered, CacheInv, Newest, Cached
  <2>3. CASE CurveRead
    BY <2>0, <2>3 DEF CurveRead, CacheInv, Newest
  <2>4. CASE StoreVolt
    BY <2>0, <2>4 DEF StoreVolt, CacheInv, Newest
  <2>5. CASE \E samples \in BOOLEAN : Deliver(samples)
    <3> PICK samples \in BOOLEAN : Deliver(samples)
      BY <2>5
    <3>1. acqPc' = "top" /\ UNCHANGED <<pre, cachedSec, cachedVolt>>
      BY DEF Deliver
    <3>2. CASE apart'
      BY <3>1, <3>2 DEF CacheInv
    <3>3. CASE ~apart'
      <4>1. ring' = Append(ring, Frame)
        BY <3>3 DEF Deliver
      <4>2. Newest' = Frame
        BY <4>1, DeliverNewest
      <4>3. Frame # None
        BY FrameType, NoneAssumption DEF TypeOK
      <4>4. cachedSec = SecPerDiv(pre) /\ cachedVolt = VoltsPerDiv(pre)
        BY <3>3 DEF Deliver, CacheInv
      <4>5. Scale(Frame) = Cached
        BY <4>4 DEF Scale, Frame, Cached
      <4>6. Scale(Newest') = Cached'
        BY <4>2, <4>5, <3>1 DEF Cached
      <4> QED
        BY <3>1, <4>2, <4>3, <4>6 DEF CacheInv, Scale
    <3> QED
      BY <3>2, <3>3
  <2> QED
    BY <1>1, <2>1, <2>2, <2>3, <2>4, <2>5 DEF AcquisitionThread, ThreadStep
<1>2. CASE RenderTick
  <2>1. Newest' = Newest
    BY <1>2 DEF RenderTick, Newest
  <2>2. UNCHANGED <<acqPc, cachedSec, cachedVolt, pre, apart>>
    BY <1>2 DEF RenderTick, historyVars
  <2> QED
    BY <2>1, <2>2 DEF CacheInv, Cached, SecPerDiv, VoltsPerDiv, Scale
<1>3. CASE StartAcquisition
  BY <1>3 DEF StartAcquisition, CacheInv, Newest, Cached, waveVars, historyVars
<1>4. CASE ConnectThread
  <2>1. CASE SyncStoresSec \/ SyncStoresVolt
    BY <2>1 DEF SyncStoresSec, SyncStoresVolt, CacheInv
  <2>2. CASE \/ ConnectOpens \/ ConnectFails \/ SyncHorizontal \/ SyncChannel \/ SyncLoads
             \/ SyncForgets
    <3>1. UNCHANGED <<acqPc, cachedSec, cachedVolt, pre, apart, ring, wave>>
      BY <2>2 DEF ConnectOpens, ConnectFails, SyncHorizontal, SyncChannel, SyncLoads,
         SyncForgets, dataVars, historyVars, waveVars
    <3> QED
      BY <3>1, CacheStays
  <2> QED
    BY <1>4, <2>1, <2>2 DEF ConnectThread
<1>5. CASE \/ EnterField \/ Type \/ LeaveField \/ PressUp \/ PressDown \/ StopAcquisition
           \/ DisconnectScope \/ PanelLoads \/ PanelShows \/ StopReturns \/ UNCHANGED vars
  <2>1. UNCHANGED <<acqPc, cachedSec, cachedVolt, pre, apart, ring, wave>>
    BY <1>5 DEF EnterField, Type, LeaveField, PressUp, PressDown, StopAcquisition,
       DisconnectScope, PanelLoads, PanelShows, StopReturns, vars, dataVars, historyVars,
       waveVars
  <2> QED
    BY <2>1, CacheStays
<1> QED
  BY <1>1, <1>2, <1>3, <1>4, <1>5 DEF Next, User

\* The panel's scales are those of the picture once both timers have caught up
\* (Scope/TektronixScope.cpp:226, App/MainFrm.cpp:171).
THEOREM ScreenRight == Spec => []ScreenAgrees
<1>1. Init => PanelInv /\ CacheInv
  BY DEF Init, DataInit, PanelInv, CacheInv
<1>2. PanelInv /\ CacheInv => ScreenAgrees
  BY DEF PanelInv, CacheInv, ScreenAgrees, Newest
<1> QED
  BY <1>1, <1>2, PanelStep, CacheStep, TypeCorrect, PTL DEF Spec

-----------------------------------------------------------------------------
(* The order in which waveforms reach the screen.                          *)

\* The version of its settings never falls along the way from the instrument to
\* the screen: picture, ring from its oldest to its newest, settings now.
InOrder ==
  /\ \A i \in 1..Len(ring) : ring[i].made <= settings
  /\ \A i \in 1..Len(ring) : \A j \in 1..Len(ring) : i < j => ring[i].made <= ring[j].made
  /\ wave # None => /\ wave.made <= settings
                    /\ \A i \in 1..Len(ring) : wave.made <= ring[i].made

PictureGoesOn == wave # None => wave' # None /\ wave'.made >= wave.made

\* Only a step of the settings, of Deliver or of RenderTick touches what InOrder
\* speaks of.
LEMMA PictureFrame ==
  ASSUME [Next]_vars
  PROVE  \/ UNCHANGED <<ring, wave>> /\ (settings' = settings \/ settings' = settings + 1)
         \/ (\E samples \in BOOLEAN : Deliver(samples)) /\ wave' = wave
         \/ RenderTick
<1>1. CASE AcquisitionThread
  <2>1. wave' = wave
    BY <1>1 DEF AcquisitionThread, waveVars
  <2>2. CASE \E samples \in BOOLEAN : Deliver(samples)
    BY <2>1, <2>2
  <2>3. CASE \/ ThreadExits \/ CommandChangesSetting \/ CacheUsed \/ CurveFails \/ CurveRead
             \/ StoreVolt \/ \E short \in Shortcomings : RefreshAnswered(short)
    BY <2>1, <2>3 DEF ThreadExits, CommandChangesSetting, CacheUsed, CurveFails, CurveRead,
       StoreVolt, RefreshAnswered, instrumentVars
  <2> QED
    BY <1>1, <2>2, <2>3 DEF AcquisitionThread, ThreadStep
<1>2. CASE RenderTick
  BY <1>2
<1>3. CASE User \/ PanelLoads \/ PanelShows \/ StopReturns \/ UNCHANGED vars
  BY <1>3 DEF User, EnterField, Type, LeaveField, PressUp, PressDown, StopAcquisition,
     StartAcquisition, DisconnectScope, PanelLoads, PanelShows, StopReturns,
     vars, dataVars, instrumentVars, waveVars
<1>4. CASE ConnectThread
  BY <1>4 DEF ConnectThread, ConnectOpens, ConnectFails, SyncHorizontal, SyncChannel,
       SyncLoads, SyncStoresSec, SyncStoresVolt, SyncForgets,
     dataVars, instrumentVars, waveVars
<1> QED
  BY <1>1, <1>2, <1>3, <1>4 DEF Next

LEMMA PictureStep ==
  TypeOK /\ InOrder /\ [Next]_vars => InOrder' /\ PictureGoesOn
<1> SUFFICES ASSUME TypeOK, InOrder, [Next]_vars PROVE InOrder' /\ PictureGoesOn
  OBVIOUS
<1>1. settings \in Nat /\ ring \in Seq(Frames)
  BY DataAssumption DEF TypeOK, DataTypeOK, Versions
<1>2. /\ Len(ring) \in Nat
      /\ \A i \in 1..Len(ring) : ring[i].made \in Nat /\ ring[i] # None
      /\ wave # None => wave.made \in Nat
  <2>1. \A f \in Frames : f.made \in Nat /\ f # None
    BY DataAssumption, NoneAssumption DEF Frames, Versions
  <2>2. \A i \in 1..Len(ring) : ring[i] \in Frames
    BY <1>1
  <2>3. wave \in Frames \cup {None}
    BY DEF TypeOK
  <2> QED
    BY <1>1, <2>1, <2>2, <2>3
<1>3. CASE UNCHANGED <<ring, wave>> /\ (settings' = settings \/ settings' = settings + 1)
  BY <1>1, <1>2, <1>3 DEF InOrder, PictureGoesOn
<1>4. CASE (\E samples \in BOOLEAN : Deliver(samples)) /\ wave' = wave
  <2>1. settings' = settings /\ (ring' = ring \/ ring' = Append(ring, Frame))
    BY <1>4 DEF Deliver, instrumentVars
  <2>2. PictureGoesOn
    BY <1>2, <1>4 DEF PictureGoesOn
  <2>3. CASE ring' = ring
    BY <1>4, <2>1, <2>2, <2>3 DEF InOrder
  <2>4. CASE ring' = Append(ring, Frame)
    <3> DEFINE F == Frame
    <3>1. F.made = settings
      BY DEF Frame
    <3> HIDE DEF F
    <3>2. /\ Len(ring') = Len(ring) + 1 /\ ring'[Len(ring) + 1] = F
          /\ \A i \in 1..Len(ring) : ring'[i] = ring[i]
      BY <1>1, <2>4 DEF F
    <3>3. \A i \in 1..Len(ring') : i \in 1..Len(ring) \/ i = Len(ring) + 1
      BY <1>2, <3>2
    <3>4. \A i \in 1..Len(ring') : ring'[i].made <= settings'
      BY <1>1, <2>1, <3>1, <3>2, <3>3 DEF InOrder
    <3>5. ASSUME NEW i \in 1..Len(ring'), NEW j \in 1..Len(ring'), i < j
          PROVE  ring'[i].made <= ring'[j].made
      <4>1. i \in 1..Len(ring) /\ ring'[i].made = ring[i].made
        BY <1>2, <3>2, <3>3, <3>5
      <4>2. CASE j \in 1..Len(ring)
        BY <3>2, <3>5, <4>1, <4>2 DEF InOrder
      <4>3. CASE j = Len(ring) + 1
        BY <3>1, <3>2, <4>1, <4>3 DEF InOrder
      <4> QED
        BY <3>3, <4>2, <4>3
    <3>6. wave' # None => /\ wave'.made <= settings'
                          /\ \A i \in 1..Len(ring') : wave'.made <= ring'[i].made
      BY <1>4, <2>1, <3>1, <3>2, <3>3 DEF InOrder
    <3> QED
      BY <2>2, <3>4, <3>5, <3>6 DEF InOrder
  <2> QED
    BY <2>1, <2>3, <2>4
<1>5. CASE RenderTick
  <2>1. ring' = <<>> /\ settings' = settings
        /\ wave' = IF ring = <<>> THEN wave ELSE ring[Len(ring)]
    BY <1>5 DEF RenderTick, instrumentVars
  <2>2. 1..Len(ring') = {}
    BY <2>1
  <2>3. ring # <<>> => Len(ring) \in 1..Len(ring)
    BY <1>1
  <2>4. wave' # None => wave'.made <= settings'
    BY <2>1, <2>3 DEF InOrder
  <2>5. PictureGoesOn
    BY <1>2, <2>1, <2>3 DEF InOrder, PictureGoesOn
  <2> QED
    BY <2>2, <2>4, <2>5 DEF InOrder
<1> QED
  BY <1>3, <1>4, <1>5, PictureFrame

\* The screen never goes back to a waveform of earlier settings than those of the
\* one it shows, nor to an empty picture: of a full ring it is the new waveform that
\* is refused, and the timer paints the last one in it
\* (App/OscilloscopeView.cpp:117, Threads/AcquisitionThread.cpp:230).
THEOREM PictureNeverOlder ==
  Spec => [][wave # None => wave' # None /\ wave'.made >= wave.made]_vars
<1>1. Init => InOrder
  <2> SUFFICES ASSUME Init PROVE InOrder
    OBVIOUS
  <2>1. 1..Len(ring) = {} /\ wave = None
    BY DEF Init, DataInit
  <2> QED
    BY <2>1 DEF InOrder
<1>2. TypeOK /\ InOrder /\ [Next]_vars => InOrder' /\ [PictureGoesOn]_vars
  BY PictureStep
<1>3. Spec => []TypeOK /\ []InOrder
  BY <1>1, <1>2, TypeCorrect, PTL DEF Spec
<1>4. Spec => [][PictureGoesOn]_vars
  BY <1>2, <1>3, PTL DEF Spec
<1> QED
  BY <1>4 DEF PictureGoesOn
=============================================================================
