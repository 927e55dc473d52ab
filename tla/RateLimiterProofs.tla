-------------------------- MODULE RateLimiterProofs --------------------------
(***************************************************************************)
(* Proofs about RateLimiter, for every rate, window and horizon.  Products *)
(* with PerToken stand for quotients by it: k * PerToken <= x.             *)
(***************************************************************************)
EXTENDS RateLimiter, TLAPS

(* Arithmetic.                                                             *)

\* Multiplication by a natural number is monotone.
LEMMA MultMono == ASSUME NEW p \in Nat, NEW a \in Int, NEW b \in Int, a <= b
                  PROVE  a * p <= b * p
  OBVIOUS

\* What the integer division of refills computes.
LEMMA DivBounds == ASSUME NEW p \in Nat \ {0}, NEW x \in Nat
                   PROVE  /\ x \div p \in Nat
                          /\ (x \div p) * p <= x
                          /\ x < (x \div p + 1) * p
  OBVIOUS

\* The division rounds down to the largest such number.
LEMMA DivLargest == ASSUME NEW p \in Nat \ {0}, NEW x \in Nat, NEW k \in Int, k * p <= x
                    PROVE  k <= x \div p
<1> DEFINE q == x \div p
<1>1. q \in Nat /\ x < (q + 1) * p
  BY DivBounds
<1>2. SUFFICES ASSUME k >= q + 1 PROVE FALSE
  BY <1>1
<1>3. (q + 1) * p <= k * p
  BY <1>1, <1>2, MultMono
<1> HIDE DEF q
<1> QED
  BY <1>1, <1>3

\* The guard `perToken <= 0` keeps the divisor positive.
LEMMA PerTokenType == PerToken \in Nat \ {0}
<1>1. Window \div Rate \in Nat
  BY RateAssumption, WindowAssumption, DivBounds
<1> QED
  BY <1>1 DEF PerToken

-----------------------------------------------------------------------------
\* What the observer has counted, set against the visitor's refills: tokens
\* left and requests passed since `from` were paid for by the first burst and
\* by the time up to the last refill.
Budget ==
  /\ from = Never => count = 0
  /\ from # Never /\ known /\ lastRefill >= from
       => (count + tokens - Rate) * PerToken <= lastRefill - from
  /\ from # Never /\ known /\ lastRefill < from
       => /\ count + tokens <= Rate - 1
          /\ count > 0 => from - lastRefill < PerToken
  /\ from # Never /\ ~known => count * PerToken <= now - from

\* Tokens are only added when one is taken at once.
Fed == known => lastRefill <= lastGrant

IInv == TypeOK /\ Budget /\ Fed

\* A new limiter has let nothing through.
LEMMA InitInvariant == Init => IInv
<1> SUFFICES ASSUME Init PROVE IInv
  OBVIOUS
<1>b. known \in BOOLEAN
  BY Zenon DEF Init
<1>1. TypeOK
  BY <1>b, RateAssumption, HorizonAssumption DEF Init, TypeOK
<1>2. Budget /\ Fed
  BY DEF Init, Budget, Fed
<1> QED
  BY <1>1, <1>2 DEF IInv

\* The refill is a natural number and pays with the time it took.
LEMMA RefillBounds ==
  ASSUME TypeOK
  PROVE  /\ TokensToAdd \in Nat
         /\ TokensToAdd * PerToken <= now - lastRefill
         /\ now - lastRefill < (TokensToAdd + 1) * PerToken
         /\ Refilled \in 0 .. Rate
         /\ Refilled <= tokens + TokensToAdd
         /\ TokensToAdd = 0 => Refilled = tokens /\ RefillTime = lastRefill
         /\ TokensToAdd > 0 => Refilled > 0 /\ RefillTime = now
<1>1. now - lastRefill \in Nat
  BY DEF TypeOK
<1>2. /\ TokensToAdd \in Nat
      /\ TokensToAdd * PerToken <= now - lastRefill
      /\ now - lastRefill < (TokensToAdd + 1) * PerToken
  BY <1>1, PerTokenType, DivBounds DEF TokensToAdd
<1>3. /\ Refilled \in 0 .. Rate
      /\ Refilled <= tokens + TokensToAdd
      /\ TokensToAdd = 0 => Refilled = tokens /\ RefillTime = lastRefill
      /\ TokensToAdd > 0 => Refilled > 0 /\ RefillTime = now
  BY <1>2, RateAssumption DEF Refilled, RefillTime, TypeOK
<1> QED
  BY <1>2, <1>3

\* A request for a key without an entry is paid for by the time since `from`.
LEMMA AllowNewStep == ASSUME IInv, AllowNew PROVE IInv'
<1> USE DEF IInv
<1>1. TypeOK'
  BY RateAssumption, HorizonAssumption DEF TypeOK, AllowNew, Grant, Never
<1>2. Budget'
  <2>1. CASE from = Never
    BY <2>1 DEF Budget, AllowNew, Grant, TypeOK, Never
  <2>2. CASE from # Never
    <3>1. count' + tokens' - Rate = count /\ lastRefill' = now /\ from' = from /\ from <= now
      BY <2>2, RateAssumption DEF AllowNew, Grant, TypeOK, Never
    <3>2. count * PerToken <= now - from
      BY <2>2 DEF Budget, AllowNew
    <3> QED
      BY <2>2, <3>1, <3>2 DEF Budget, AllowNew, TypeOK, Never
  <2> QED
    BY <2>1, <2>2
<1>3. Fed'
  BY DEF Fed, AllowNew, Grant, TypeOK
<1> QED
  BY <1>1, <1>2, <1>3

\* A token taken was in the bucket or is paid for by the time since the last
\* refill, of which less than PerToken lies before `from`.
LEMMA AllowKnownStep == ASSUME IInv, AllowKnown PROVE IInv'
<1> USE DEF IInv
<1> DEFINE k == TokensToAdd
<1>0. /\ k \in Nat /\ k * PerToken <= now - lastRefill
      /\ Refilled \in 0 .. Rate /\ Refilled <= tokens + k
      /\ k = 0 => Refilled = tokens /\ RefillTime = lastRefill
      /\ k > 0 => Refilled > 0 /\ RefillTime = now
  BY RefillBounds
<1>p. PerToken \in Nat \ {0}
  BY PerTokenType
<1> HIDE DEF k
<1>1. TypeOK'
  BY <1>0, RateAssumption DEF TypeOK, AllowKnown, Grant, Never
<1>2. Budget'
  <2>1. CASE from = Never
    BY <2>1 DEF Budget, AllowKnown, Grant, TypeOK, Never
  <2>2. CASE from # Never
    <3>0. /\ known /\ known' /\ from' = from /\ from <= now /\ from \in Nat
          /\ count' = count + 1 /\ tokens' = Refilled - 1 /\ lastRefill' = RefillTime
          /\ count' + tokens' = count + Refilled
      BY <1>0, <2>2 DEF AllowKnown, Grant, TypeOK, Never
    <3>1. CASE k = 0
      <4>1. now - lastRefill < PerToken
        <5>1. now - lastRefill < (k + 1) * PerToken
          BY RefillBounds DEF k
        <5> QED
          BY <5>1, <3>1, <1>p
      <4>2. lastRefill' = lastRefill /\ count' + tokens' = count + tokens
        BY <1>0, <3>0, <3>1
      <4>3. lastRefill < from => from - lastRefill < PerToken
        BY <4>1, <3>0, <1>p DEF TypeOK
      <4>4. count' + tokens' - Rate = count + tokens - Rate
        <5>1. count' \in Int /\ tokens' \in Int /\ count \in Int /\ tokens \in Int /\ Rate \in Int
          BY <1>1, RateAssumption DEF TypeOK
        <5>2. count' = count + 1 /\ tokens' = tokens - 1
          BY <1>0, <3>0, <3>1
        <5> QED
          BY <5>1, <5>2
      <4>5. lastRefill >= from =>
              (count' + tokens' - Rate) * PerToken <= lastRefill - from
        BY <2>2, <3>0, <4>4 DEF Budget
      <4>6. lastRefill < from => count' + tokens' <= Rate - 1
        BY <2>2, <3>0, <4>2 DEF Budget
      <4>7. from' # Never /\ known' /\ lastRefill' = lastRefill /\ from' = from
        BY <2>2, <3>0, <4>2
      <4> QED
        BY <4>3, <4>5, <4>6, <4>7 DEF Budget
    <3>2. CASE k > 0
      <4>1. lastRefill' = now /\ lastRefill' >= from'
        BY <1>0, <3>0, <3>2
      <4>2. (count + Refilled - Rate) * PerToken <= now - from
        <5>1. CASE lastRefill >= from
          <6>1. (count + tokens - Rate) * PerToken <= lastRefill - from
            BY <2>2, <3>0, <5>1 DEF Budget
          <6>2. (count + Refilled - Rate) * PerToken <= ((count + tokens - Rate) + k) * PerToken
            BY <1>0, <1>p, MultMono, RateAssumption DEF TypeOK
          <6>3. ((count + tokens - Rate) + k) * PerToken
                  = (count + tokens - Rate) * PerToken + k * PerToken
            BY <1>0, <1>p, RateAssumption DEF TypeOK
          <6>4. /\ (count + Refilled - Rate) * PerToken \in Int
                /\ (count + tokens - Rate) * PerToken \in Int
                /\ k * PerToken \in Int
            BY <1>0, <1>p, RateAssumption DEF TypeOK
          <6> QED
            BY <1>0, <3>0, <6>1, <6>2, <6>3, <6>4 DEF TypeOK
        <5>2. CASE lastRefill < from /\ count = 0
          <6>1. (count + Refilled - Rate) * PerToken <= 0 * PerToken
            BY <1>0, <1>p, <5>2, MultMono, RateAssumption DEF TypeOK
          <6>2. (count + Refilled - Rate) * PerToken \in Int
            BY <1>0, <1>p, RateAssumption DEF TypeOK
          <6> QED
            BY <1>p, <3>0, <6>1, <6>2 DEF TypeOK
        <5>3. CASE lastRefill < from /\ count > 0
          <6>1. count + tokens <= Rate - 1 /\ from - lastRefill < PerToken
            BY <2>2, <3>0, <5>3 DEF Budget
          <6>2. (count + Refilled - Rate) * PerToken <= (k - 1) * PerToken
            BY <1>0, <1>p, <6>1, MultMono, RateAssumption DEF TypeOK
          <6>3. (k - 1) * PerToken = k * PerToken - PerToken
            BY <1>0, <1>p
          <6>4. (count + Refilled - Rate) * PerToken \in Int /\ k * PerToken \in Int
            BY <1>0, <1>p, RateAssumption DEF TypeOK
          <6> QED
            BY <1>0, <1>p, <3>0, <6>1, <6>2, <6>3, <6>4 DEF TypeOK
        <5> QED
          BY <5>1, <5>2, <5>3, <3>0 DEF TypeOK
      <4>3. (count' + tokens' - Rate) * PerToken <= lastRefill' - from'
        <5>1. count' + tokens' - Rate = count + Refilled - Rate /\ from' = from
          BY <1>0, <1>1, <3>0, RateAssumption DEF TypeOK
        <5> QED
          BY <5>1, <4>1, <4>2
      <4>4. /\ from' # Never
            /\ known'
            /\ ~(lastRefill' < from')
        BY <2>2, <3>0, <4>1 DEF TypeOK
      <4> QED
        BY <4>3, <4>4 DEF Budget
    <3> QED
      BY <1>0, <3>1, <3>2
  <2> QED
    BY <2>1, <2>2
<1>3. Fed'
  BY <1>0 DEF Fed, AllowKnown, Grant, TypeOK
<1> QED
  BY <1>1, <1>2, <1>3

\* A denied request changes nothing: there was nothing to refill.
LEMMA DenyStep == ASSUME IInv, Deny PROVE UNCHANGED vars
<1>1. TypeOK /\ known
  BY DEF IInv, Deny
<1>2. TokensToAdd = 0 /\ tokens = 0
  BY <1>1, RefillBounds DEF Deny
<1> QED
  BY <1>1, <1>2, RefillBounds DEF Deny, vars, visitor, observer

\* Dropping an idle entry forgets no more than its time has paid for.
LEMMA CleanupStep == ASSUME IInv, Cleanup PROVE IInv'
<1> USE DEF IInv
<1>p. PerToken \in Nat \ {0} /\ Rate \in Nat \ {0} /\ Rate * PerToken <= Idle /\ Idle \in Nat
  BY PerTokenType, RateAssumption, IdleAssumption
<1>b. known' \in BOOLEAN
  BY Zenon DEF Cleanup
<1>1. TypeOK'
  BY <1>b, <1>p, HorizonAssumption DEF TypeOK, Cleanup, observer, Never
<1>2. Fed'
  BY DEF Fed, Cleanup
<1>3. Budget'
  <2>1. CASE from = Never
    BY <2>1 DEF Budget, Cleanup, observer
  <2>2. CASE from # Never
    <3>0. known /\ now - lastRefill > Idle /\ from \in Nat /\ from <= now
      BY <2>2 DEF Cleanup, TypeOK, Never
    <3>1. count * PerToken <= now - from
      <4>0. count * PerToken \in Int /\ Rate * PerToken \in Int
        BY <1>p DEF TypeOK
      <4>1. CASE lastRefill >= from
        <5>1. (count + tokens - Rate) * PerToken <= lastRefill - from
          BY <2>2, <3>0, <4>1 DEF Budget
        <5>2. (count - Rate) * PerToken <= (count + tokens - Rate) * PerToken
          BY <1>p, MultMono DEF TypeOK
        <5>3. (count - Rate) * PerToken = count * PerToken - Rate * PerToken
          BY <1>p DEF TypeOK
        <5>4. (count + tokens - Rate) * PerToken \in Int
          BY <1>p DEF TypeOK
        <5> QED
          BY <1>p, <3>0, <4>0, <5>1, <5>2, <5>3, <5>4 DEF TypeOK
      <4>2. CASE lastRefill < from /\ count = 0
        BY <1>p, <3>0, <4>2 DEF TypeOK
      <4>3. CASE lastRefill < from /\ count > 0
        <5>1. count <= Rate - 1 /\ from - lastRefill < PerToken
          BY <2>2, <3>0, <4>3, <1>p DEF Budget, TypeOK
        <5>2. count * PerToken <= (Rate - 1) * PerToken
          BY <1>p, <5>1, MultMono DEF TypeOK
        <5>3. (Rate - 1) * PerToken = Rate * PerToken - PerToken
          BY <1>p
        <5> QED
          BY <1>p, <3>0, <4>0, <5>1, <5>2, <5>3 DEF TypeOK
      <4> QED
        BY <4>1, <4>2, <4>3, <3>0 DEF TypeOK
    <3> QED
      BY <2>2, <3>1 DEF Budget, Cleanup, observer
  <2> QED
    BY <2>1, <2>2
<1> QED
  BY <1>1, <1>2, <1>3

\* allow, cleanup, time and the observer keep the account.
LEMMA NextInvariant == IInv /\ [Next]_vars => IInv'
<1> SUFFICES ASSUME IInv, [Next]_vars PROVE IInv'
  OBVIOUS
<1>1. CASE UNCHANGED vars
  BY <1>1 DEF IInv, TypeOK, Budget, Fed, vars, visitor, observer
<1>2. CASE Tick
  BY <1>2, HorizonAssumption, PerTokenType
     DEF Tick, IInv, TypeOK, Budget, Fed, visitor, observer, Never
<1>3. CASE Observe
  <2>1. count = 0 /\ count' = 0 /\ from' = now
    BY <1>3 DEF Observe, IInv, Budget
  <2>2. known => (count + tokens - Rate) * PerToken <= 0
    <3>1. (count + tokens - Rate) * PerToken <= 0 * PerToken
      BY <2>1, PerTokenType, MultMono, RateAssumption DEF IInv, TypeOK
    <3> QED
      BY <3>1, PerTokenType
  <2>3. 0 * PerToken = 0
    BY PerTokenType
  <2> QED
    BY <1>3, <2>1, <2>2, <2>3, RateAssumption DEF Observe, IInv, TypeOK, Budget, Fed, visitor, Never
<1> QED
  BY <1>1, <1>2, <1>3, AllowNewStep, AllowKnownStep, DenyStep, CleanupStep DEF Next

-----------------------------------------------------------------------------
\* The limiter lets at most Rate and one per PerToken through, over any stretch
\* of time, for every rate and window with Rate * PerToken <= Idle.
THEOREM ThrottleSafety == Spec => [](TypeOK /\ Throttled)
<1>1. IInv => TypeOK /\ Throttled
  <2> SUFFICES ASSUME IInv, from # Never
               PROVE  count <= Rate + (now - from) \div PerToken
    BY DEF IInv, Throttled
  <2>p. PerToken \in Nat \ {0} /\ Rate \in Nat \ {0} /\ count \in Nat /\ now - from \in Nat
    BY PerTokenType, RateAssumption DEF IInv, TypeOK, Never
  <2>1. (count - Rate) * PerToken <= now - from
    <3>1. CASE known /\ lastRefill >= from
      <4>1. (count + tokens - Rate) * PerToken <= lastRefill - from
        BY <3>1 DEF IInv, Budget
      <4>2. (count - Rate) * PerToken <= (count + tokens - Rate) * PerToken
        BY <2>p, MultMono DEF IInv, TypeOK
      <4>3. (count + tokens - Rate) * PerToken \in Int /\ (count - Rate) * PerToken \in Int
        BY <2>p DEF IInv, TypeOK
      <4> QED
        BY <2>p, <4>1, <4>2, <4>3 DEF IInv, TypeOK, Never
    <3>2. CASE ~(known /\ lastRefill >= from)
      <4>1. count - Rate <= 0 \/ count * PerToken <= now - from
        BY <2>p, <3>2 DEF IInv, Budget, TypeOK, Never
      <4>2. CASE count - Rate <= 0
        <5>1. (count - Rate) * PerToken <= 0 * PerToken
          BY <2>p, <4>2, MultMono
        <5> QED
          BY <2>p, <5>1
      <4>3. CASE count * PerToken <= now - from
        <5>1. (count - Rate) * PerToken <= count * PerToken
          BY <2>p, MultMono
        <5> QED
          BY <2>p, <4>3, <5>1
      <4> QED
        BY <4>1, <4>2, <4>3
    <3> QED
      BY <3>1, <3>2
  <2>2. count - Rate <= (now - from) \div PerToken
    BY <2>p, <2>1, DivLargest
  <2>3. (now - from) \div PerToken \in Nat
    BY <2>p, DivBounds
  <2> QED
    BY <2>p, <2>2, <2>3
<1> QED
  BY <1>1, InitInvariant, NextInvariant, PTL DEF Spec

\* Nobody is turned away for longer than PerToken after his last request that
\* passed, however often he asks.
THEOREM Unstarved == Spec => []NeverStarved
<1>1. IInv => NeverStarved
  <2> SUFFICES ASSUME IInv, known, Refilled = 0 PROVE now - lastGrant < PerToken
    BY DEF NeverStarved
  <2>1. TokensToAdd = 0 /\ now - lastRefill < (TokensToAdd + 1) * PerToken
    BY RefillBounds DEF IInv
  <2>2. now - lastRefill < PerToken
    BY <2>1, PerTokenType
  <2> QED
    BY <2>2, PerTokenType DEF IInv, Fed, TypeOK, Never
<1> QED
  BY <1>1, InitInvariant, NextInvariant, PTL DEF Spec

\* Type correctness of the bucket: its tokens stay below the rate.
THEOREM TypeCorrect == Spec => []TypeOK
BY InitInvariant, NextInvariant, PTL DEF Spec, IInv
==============================================================================
