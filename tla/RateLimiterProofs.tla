-------------------------- MODULE RateLimiterProofs --------------------------
(***************************************************************************)
(* Theorems about RateLimiter, for every rate, burst, clock resolution and *)
(* number of requests and clients.                                         *)
(***************************************************************************)
EXTENDS RateLimiter, FiniteSetTheorems, WellFoundedInduction, TLAPS

\* The limits a limiter is built with are usable ones, whatever was configured.
LEMMA Limits == Rps \in Nat \ {0} /\ Full \in Nat /\ Full >= Res /\ Res \in Nat \ {0}
<1> DEFINE burst == IF CfgBurst < 1 THEN 10 ELSE CfgBurst
<1>1. Rps \in Nat \ {0} /\ Res \in Nat \ {0} /\ burst \in Nat \ {0}
  BY LimiterAssumption DEF Rps
<1>2. Full = burst * Res
  BY DEF Full
<1>3. ASSUME NEW m \in Nat \ {0}, NEW n \in Nat \ {0} PROVE m * n \in Nat /\ m * n >= n
  OBVIOUS
<1> HIDE DEF burst
<1> QED BY <1>1, <1>2, <1>3

\* What a refill leaves in a bucket: no more than a burst, no less than there
\* was, and no more than there was and what the elapsed time earned.
LEMMA Refill ==
    ASSUME TypeOK, NEW k \in Keys, NEW t \in 0..now
    PROVE  /\ Refilled(k, t) \in 0..Full
           /\ NewLast(k, t) \in 0..now /\ NewLast(k, t) >= Last(k, t)
           /\ Refilled(k, t) <= Tokens(k) + (NewLast(k, t) - Last(k, t)) * Rps
<1>1. Tokens(k) \in 0..Full /\ Last(k, t) \in 0..now /\ now \in Nat
  BY Limits, LimiterAssumption DEF Tokens, Last, TypeOK
<1>2. CASE t <= Last(k, t)
  <2>1. Refilled(k, t) = Tokens(k) /\ NewLast(k, t) = Last(k, t)
    BY <1>1, <1>2 DEF Refilled, NewLast
  <2>2. (NewLast(k, t) - Last(k, t)) * Rps = 0
    BY <1>1, <2>1, Limits
  <2> QED BY <1>1, <2>1, <2>2, Limits
<1>3. CASE t > Last(k, t)
  <2> DEFINE earned == (t - Last(k, t)) * Rps
  <2>1. earned \in Nat
    <3>1. t - Last(k, t) \in Nat
      BY <1>1, <1>3
    <3> QED BY <3>1, Limits
  <2>2. NewLast(k, t) = t
    BY <1>3 DEF NewLast
  <2>3. Refilled(k, t) = IF Tokens(k) + earned < Full THEN Tokens(k) + earned ELSE Full
    BY <1>1, <1>3 DEF Refilled
  <2> HIDE DEF earned
  <2>4. Refilled(k, t) \in 0..Full /\ Refilled(k, t) <= Tokens(k) + earned
    BY <1>1, <2>1, <2>3, Limits
  <2> QED BY <1>1, <1>3, <2>2, <2>4 DEF earned
<1> QED BY <1>1, <1>2, <1>3

-----------------------------------------------------------------------------
LEMMA InitType == Init => TypeOK
BY Limits, LimiterAssumption DEF Init, TypeOK

LEMMA AllowType ==
    ASSUME TypeOK, NEW q \in Reqs, Allow(q)
    PROVE  TypeOK'
<1> DEFINE k == key[q]
           t == stamp[q]
<1>1. k \in Keys /\ t \in 0..now
  BY DEF TypeOK
<1>2. Refilled(k, t) \in 0..Full /\ NewLast(k, t) \in 0..now
  BY <1>1, Refill
<1>3. (IF Refilled(k, t) >= Res THEN Refilled(k, t) - Res ELSE Refilled(k, t)) \in 0..Full
  BY <1>2, Limits
<1> QED BY <1>1, <1>2, <1>3 DEF Allow, TypeOK

LEMMA StepType == TypeOK /\ [Next]_vars => TypeOK'
<1> SUFFICES ASSUME TypeOK, [Next]_vars PROVE TypeOK'
  OBVIOUS
<1>1. CASE Tick
  BY <1>1, LimiterAssumption DEF Tick, TypeOK
<1>2. ASSUME NEW q \in Reqs, Stamp(q) PROVE TypeOK'
  BY <1>2, LimiterAssumption DEF Stamp, TypeOK
<1>3. ASSUME NEW q \in Reqs, Allow(q) PROVE TypeOK'
  BY <1>3, AllowType
<1>4. CASE Over \/ UNCHANGED vars
  BY <1>4 DEF Over, vars, TypeOK
<1> QED BY <1>1, <1>2, <1>3, <1>4 DEF Next

\* A bucket always holds between zero and burst tokens, whatever the order in
\* which requests reach the mutex (allow, lines 48-68).
THEOREM LimiterTypeCorrect == Spec => []TypeOK
BY InitType, StepType, PTL DEF Spec

-----------------------------------------------------------------------------
\* RateBound alone is not inductive: a key that has no bucket yet must not
\* have been served.
Fresh == \A k \in Keys : k \notin seen => admitted[k] = 0

RateInv == TypeOK /\ RateBound /\ Fresh

\* Deciding one request keeps the bound of every key.
LEMMA AllowBound ==
    ASSUME RateInv, NEW q \in Reqs, Allow(q)
    PROVE  RateBound' /\ Fresh'
<1> DEFINE k == key[q]
           t == stamp[q]
           got == Refilled(k, t) >= Res
           left == IF got THEN Refilled(k, t) - Res ELSE Refilled(k, t)
<1>1. k \in Keys /\ t \in 0..now /\ now \in Nat
  BY LimiterAssumption DEF RateInv, TypeOK
<1>2. /\ Refilled(k, t) \in 0..Full
      /\ NewLast(k, t) \in 0..now /\ NewLast(k, t) >= Last(k, t)
      /\ Refilled(k, t) <= Tokens(k) + (NewLast(k, t) - Last(k, t)) * Rps
  BY <1>1, Refill DEF RateInv
<1>3. /\ tokens' = [tokens EXCEPT ![k] = left]
      /\ last' = [last EXCEPT ![k] = NewLast(k, t)]
      /\ seen' = seen \cup {k}
      /\ first' = [first EXCEPT ![k] = IF k \in seen THEN @ ELSE t]
      /\ admitted' = [admitted EXCEPT ![k] = IF got THEN @ + 1 ELSE @]
  BY DEF Allow
<1>4. (admitted'[k] - admitted[k]) * Res + left = Refilled(k, t)
  <2>1. admitted'[k] = (IF got THEN admitted[k] + 1 ELSE admitted[k]) /\ admitted[k] \in Nat
    BY <1>1, <1>3 DEF RateInv, TypeOK
  <2> QED BY <1>2, <2>1, Limits
<1>5. ASSUME k \in seen
      PROVE  /\ first'[k] <= last'[k]
             /\ admitted'[k] * Res + tokens'[k] <= Full + (last'[k] - first'[k]) * Rps
  <2>1. /\ Tokens(k) = tokens[k] /\ Last(k, t) = last[k]
        /\ first'[k] = first[k] /\ last'[k] = NewLast(k, t) /\ tokens'[k] = left
    BY <1>1, <1>3, <1>5 DEF Tokens, Last, RateInv, TypeOK
  <2>2. /\ first[k] <= last[k]
        /\ admitted[k] * Res + tokens[k] <= Full + (last[k] - first[k]) * Rps
    BY <1>5 DEF RateInv, RateBound
  <2>3. /\ first[k] \in Nat /\ last[k] \in Nat /\ last'[k] \in Nat
        /\ tokens[k] \in Nat /\ left \in Nat
        /\ admitted[k] \in Nat /\ admitted'[k] \in Nat
    BY <1>1, <1>2, <1>3, <2>1, Limits, AllowType DEF RateInv, TypeOK
  <2>4. admitted'[k] * Res = admitted[k] * Res + (admitted'[k] - admitted[k]) * Res
    BY <2>3, Limits
  <2>5. (last'[k] - first[k]) * Rps = (last[k] - first[k]) * Rps + (last'[k] - last[k]) * Rps
    BY <2>3, Limits
  <2>6. admitted'[k] * Res + left = admitted[k] * Res + Refilled(k, t)
    BY <1>2, <1>4, <2>3, <2>4, Limits
  <2>7. Refilled(k, t) <= tokens[k] + (last'[k] - last[k]) * Rps
    BY <1>2, <2>1
  <2>8. admitted'[k] * Res + left <= Full + (last'[k] - first[k]) * Rps
    BY <1>2, <2>2, <2>3, <2>5, <2>6, <2>7, Limits
  <2>9. first'[k] <= last'[k]
    BY <1>2, <2>1, <2>2, <2>3
  <2> QED BY <2>1, <2>8, <2>9
<1>6. ASSUME k \notin seen
      PROVE  /\ first'[k] <= last'[k]
             /\ admitted'[k] * Res + tokens'[k] <= Full + (last'[k] - first'[k]) * Rps
  <2>1. /\ Tokens(k) = Full /\ Last(k, t) = t
        /\ first'[k] = t /\ last'[k] = NewLast(k, t) /\ tokens'[k] = left
        /\ admitted[k] = 0
    BY <1>1, <1>3, <1>6 DEF Tokens, Last, RateInv, TypeOK, Fresh
  <2>2. NewLast(k, t) = t
    BY <1>1, <2>1 DEF NewLast
  <2>3. admitted'[k] \in Nat /\ left \in Nat
    BY <1>1, <1>2, <1>3, Limits, AllowType DEF RateInv, TypeOK
  <2>4. admitted'[k] * Res + left <= Full
    BY <1>2, <1>4, <2>1, <2>3, Limits
  <2>5. (last'[k] - first'[k]) * Rps = 0
    BY <1>1, <2>1, <2>2, Limits
  <2>6. first'[k] <= last'[k]
    BY <1>1, <2>1, <2>2
  <2>7. admitted'[k] * Res + tokens'[k] <= Full + (last'[k] - first'[k]) * Rps
    BY <2>1, <2>4, <2>5, Limits
  <2> QED BY <2>6, <2>7
<1>7. Fresh'
  BY <1>1, <1>3 DEF Fresh, RateInv, TypeOK
<1>8. ASSUME NEW j \in seen', j # k
      PROVE  /\ j \in seen
             /\ UNCHANGED <<first[j], last[j], admitted[j], tokens[j]>>
  BY <1>3, <1>8 DEF RateInv, TypeOK
<1>9. RateBound'
  BY <1>5, <1>6, <1>8 DEF RateBound, RateInv
<1> QED BY <1>7, <1>9

LEMMA StepBound == RateInv /\ [Next]_vars => RateInv'
<1> SUFFICES ASSUME RateInv, [Next]_vars PROVE RateInv'
  OBVIOUS
<1>1. TypeOK'
  BY StepType DEF RateInv
<1>2. ASSUME NEW q \in Reqs, Allow(q) PROVE RateBound' /\ Fresh'
  BY <1>2, AllowBound
<1>3. ASSUME Tick \/ (\E q \in Reqs : Stamp(q)) \/ Over \/ UNCHANGED vars
      PROVE  RateBound' /\ Fresh'
  BY <1>3 DEF Tick, Stamp, Over, vars, RateInv, RateBound, Fresh
<1> QED BY <1>1, <1>2, <1>3 DEF RateInv, Next

\* No interleaving of timestamps and mutex lets a client exceed its burst and
\* the rate since its first request.
THEOREM RateBounded == Spec => []RateBound
<1>1. Init => RateInv
  BY InitType DEF Init, RateInv, RateBound, Fresh
<1>2. RateInv => RateBound
  BY DEF RateInv
<1> QED BY <1>1, <1>2, StepBound, PTL DEF Spec

-----------------------------------------------------------------------------
(* Clients that keep to the rate are served, for every finite set of         *)
(* requests.                                                                 *)

\* The requests of a client, and those of them in progress.
Mine(k)    == {p \in Reqs : key[p] = k /\ state[p] # "new"}
Waiting(k) == {p \in Mine(k) : state[p] = "stamped"}

\* Its requests with a time after a, up to b.
Between(k, a, b) == {p \in Mine(k) : a < stamp[p] /\ stamp[p] <= b}

\* Requests in progress that are late: the bucket's clock has passed them.
Late(k, t) == {p \in Waiting(k) : stamp[p] <= t}

\* Between two requests the client earned a token for each that it stamped.
Spaced(k) ==
    \A p, q \in Mine(k) :
        stamp[q] < stamp[p] =>
            Cardinality(Between(k, stamp[q], stamp[p])) * Res <= (stamp[p] - stamp[q]) * Rps

\* The bucket's clock is the time of a decided request, the latest of them.
Clocked(k) ==
    /\ k \in seen => \E d \in Mine(k) : stamp[d] = last[k]
    /\ k \in seen => \A p \in Mine(k) \ Waiting(k) : stamp[p] <= last[k]
    /\ k \notin seen => Mine(k) = Waiting(k)

\* There is a token for each late request.
Reserved(k) == k \in seen => Cardinality(Late(k, last[k])) * Res <= tokens[k]

Served(k) == \A p \in Mine(k) : state[p] # "limited"

PoliteInv(k) ==
    /\ Spaced(k) /\ Clocked(k) /\ Reserved(k) /\ Served(k)
    /\ Cardinality(Waiting(k)) * Res <= Full

-----------------------------------------------------------------------------
LEMMA Finite ==
    ASSUME NEW S \in SUBSET Reqs
    PROVE  IsFiniteSet(S) /\ Cardinality(S) \in Nat
BY LimiterAssumption, FS_Subset, FS_CardinalityType

LEMMA Monotone ==
    ASSUME NEW S \in SUBSET Reqs, NEW T \in SUBSET S, NEW b \in Nat, Cardinality(S) * Res <= b
    PROVE  Cardinality(T) * Res <= b
<1>1. Cardinality(S) \in Nat /\ Cardinality(T) \in Nat /\ Cardinality(T) <= Cardinality(S)
  BY Finite, FS_Subset
<1>2. ASSUME NEW m \in Nat, NEW n \in Nat, m <= n, NEW r \in Nat PROVE m * r <= n * r
  <2>1. n * r = m * r + (n - m) * r
    OBVIOUS
  <2>2. (n - m) * r \in Nat
    <3>1. n - m \in Nat
      BY <1>2
    <3>2. ASSUME NEW x \in Nat, NEW y \in Nat PROVE x * y \in Nat
      OBVIOUS
    <3> QED BY <3>1, <3>2
  <2>3. m * r \in Int
    OBVIOUS
  <2> QED BY <2>1, <2>2, <2>3
<1>3. Cardinality(T) * Res <= Cardinality(S) * Res
  BY <1>1, <1>2, Limits
<1>4. Cardinality(T) * Res \in Int /\ Cardinality(S) * Res \in Int
  BY <1>1, Limits
<1> QED BY <1>3, <1>4

\* Of some requests one has the latest time.
LEMMA Latest ==
    ASSUME TypeOK, NEW S \in SUBSET Reqs, S # {}
    PROVE  \E m \in S : \A p \in S : stamp[p] <= stamp[m]
<1> DEFINE R == OpToRel(<, Nat)
           T == {now - stamp[p] : p \in S}
<1>1. now \in Nat /\ \A p \in S : stamp[p] \in 0..now
  BY LimiterAssumption DEF TypeOK
<1>2. T \subseteq Nat /\ T # {}
  BY <1>1
<1>3. PICK x \in T : \A y \in T : ~(<<y, x>> \in R)
  BY <1>2, NatLessThanWellFounded, WFMin
<1>4. \A y \in T : ~(y < x)
  <2>1. \A y \in T : y < x => <<y, x>> \in R
    BY <1>2 DEF OpToRel
  <2> QED BY <1>3, <2>1
<1>5. PICK m \in S : x = now - stamp[m]
  OBVIOUS
<1>6. \A p \in S : ~(now - stamp[p] < now - stamp[m])
  BY <1>4, <1>5
<1> QED BY <1>1, <1>6

\* If a request of a client that keeps to the rate is decided, the refill
\* leaves a token for it and one for every other that is late by then.
LEMMA EnoughTokens ==
    ASSUME TypeOK, NEW q \in Reqs, state[q] = "stamped", PoliteInv(key[q])
    PROVE  LET k == key[q]
               t == stamp[q]
           IN  Cardinality(Late(k, NewLast(k, t))) * Res <= Refilled(k, t)
<1> DEFINE k == key[q]
           t == stamp[q]
           L == Late(k, NewLast(k, t))
<1>1. k \in Keys /\ t \in Nat /\ q \in Waiting(k) /\ now \in Nat
  BY LimiterAssumption DEF TypeOK, Waiting, Mine
<1>2. L \in SUBSET Waiting(k) /\ Waiting(k) \in SUBSET Reqs
  BY DEF Late, Waiting, Mine
<1>3. Cardinality(L) * Res <= Full
  BY <1>2, Monotone, Limits DEF PoliteInv
<1>4. CASE k \notin seen
  <2>1. Last(k, t) = t /\ Tokens(k) = Full
    BY <1>4 DEF Last, Tokens
  <2>2. Refilled(k, t) = Full
    BY <2>1, <1>1 DEF Refilled
  <2> QED BY <1>3, <2>2
<1>5. CASE k \in seen /\ t <= last[k]
  <2>1. Last(k, t) = last[k] /\ Tokens(k) = tokens[k] /\ last[k] \in Nat
    BY <1>1, <1>5 DEF Last, Tokens, TypeOK
  <2>2. Refilled(k, t) = tokens[k] /\ NewLast(k, t) = last[k]
    BY <1>1, <1>5, <2>1 DEF Refilled, NewLast
  <2> QED BY <1>5, <2>2 DEF PoliteInv, Reserved
<1>6. CASE k \in seen /\ t > last[k]
  <2> DEFINE B == Between(k, last[k], t)
             O == Late(k, last[k])
  <2>1. Last(k, t) = last[k] /\ Tokens(k) = tokens[k] /\ last[k] \in Nat /\ tokens[k] \in Nat
    BY <1>1, <1>6, Limits DEF Last, Tokens, TypeOK
  <2>2. NewLast(k, t) = t
    BY <1>6, <2>1 DEF NewLast
  <2>3. L = O \cup B /\ O \cap B = {}
    <3>1. \A p \in Mine(k) : stamp[p] \in Nat
      BY LimiterAssumption DEF TypeOK, Mine
    <3>2. B \subseteq Waiting(k)
      BY <1>6, <2>1, <3>1 DEF Between, PoliteInv, Clocked
    <3> QED BY <1>1, <1>6, <2>1, <2>2, <3>1, <3>2 DEF Late, Between, Waiting
  <2>4. B \in SUBSET Reqs /\ O \in SUBSET Reqs
    BY DEF Between, Late, Waiting, Mine
  <2>5. Cardinality(L) = Cardinality(O) + Cardinality(B)
    <3>1. Cardinality(O \cap B) = 0
      BY <2>3, FS_EmptySet
    <3>2. /\ IsFiniteSet(O) /\ IsFiniteSet(B)
          /\ Cardinality(O) \in Nat /\ Cardinality(B) \in Nat
      BY <2>4, Finite
    <3>3. Cardinality(O \cup B) = Cardinality(O) + Cardinality(B) - Cardinality(O \cap B)
      BY <3>2, FS_Union
    <3> QED BY <2>3, <3>1, <3>2, <3>3
  <2>6. Cardinality(B) * Res <= (t - last[k]) * Rps
    <3>1. PICK d \in Mine(k) : stamp[d] = last[k]
      BY <1>6 DEF PoliteInv, Clocked
    <3>2. q \in Mine(k)
      BY <1>1 DEF Waiting
    <3> QED BY <1>6, <3>1, <3>2 DEF PoliteInv, Spaced
  <2>7. Cardinality(O) * Res <= tokens[k]
    BY <1>6 DEF PoliteInv, Reserved
  <2>8. Cardinality(L) * Res <= tokens[k] + (t - last[k]) * Rps
    <3>1. Cardinality(O) \in Nat /\ Cardinality(B) \in Nat
      BY <2>4, Finite
    <3>2. ASSUME NEW x \in Nat, NEW y \in Nat, NEW r \in Nat PROVE (x + y) * r = x * r + y * r
      OBVIOUS
    <3>3. Cardinality(L) * Res = Cardinality(O) * Res + Cardinality(B) * Res
      BY <2>5, <3>1, <3>2, Limits
    <3>4. Cardinality(O) * Res \in Int /\ Cardinality(B) * Res \in Int /\ (t - last[k]) * Rps \in Int
      BY <1>1, <2>1, <3>1, Limits
    <3> QED BY <2>1, <2>6, <2>7, <3>3, <3>4
  <2>9. Refilled(k, t) = IF tokens[k] + (t - last[k]) * Rps < Full
                         THEN tokens[k] + (t - last[k]) * Rps ELSE Full
    BY <1>1, <1>6, <2>1 DEF Refilled
  <2> QED BY <1>3, <2>8, <2>9
<1> QED BY <1>1, <1>4, <1>5, <1>6 DEF TypeOK

\* Deciding a request keeps the invariant of its own client.
LEMMA AllowPolite ==
    ASSUME TypeOK, NEW q \in Reqs, Allow(q), PoliteInv(key[q])
    PROVE  PoliteInv(key[q])'
<1> DEFINE k == key[q]
           t == stamp[q]
           L == Late(k, NewLast(k, t))
<1>1. /\ state[q] = "stamped" /\ k \in Keys /\ t \in 0..now /\ now \in Nat
      /\ UNCHANGED <<now, key, stamp>>
  BY LimiterAssumption DEF Allow, TypeOK
<1>2. q \in Waiting(k) /\ q \in L /\ NewLast(k, t) \in Nat /\ NewLast(k, t) >= t
  BY <1>1, Refill DEF Waiting, Mine, Late, NewLast
<1>3. L \in SUBSET Reqs /\ Waiting(k) \in SUBSET Reqs
  BY DEF Late, Waiting, Mine
<1>4. Cardinality(L) * Res <= Refilled(k, t) /\ Refilled(k, t) \in Nat
  BY <1>1, EnoughTokens, Refill, Limits
<1>5. /\ IsFiniteSet(L) /\ Cardinality(L) \in Nat \ {0}
      /\ Cardinality(L \ {q}) = Cardinality(L) - 1
  BY <1>2, <1>3, Finite, FS_EmptySet, FS_RemoveElement
<1>6. Refilled(k, t) >= Res /\ Cardinality(L \ {q}) * Res <= Refilled(k, t) - Res
  <2>1. ASSUME NEW n \in Nat \ {0}, NEW r \in Nat
        PROVE  (n - 1) * r = n * r - r /\ (n - 1) * r \in Nat /\ n * r \in Nat
    <3>1. n - 1 \in Nat
      OBVIOUS
    <3>2. ASSUME NEW x \in Nat, NEW y \in Nat PROVE x * y \in Nat
      OBVIOUS
    <3> QED BY <3>1, <3>2
  <2> QED BY <1>4, <1>5, <2>1, Limits
<1>7. /\ state' = [state EXCEPT ![q] = "served"]
      /\ tokens' = [tokens EXCEPT ![k] = Refilled(k, t) - Res]
      /\ last' = [last EXCEPT ![k] = NewLast(k, t)]
      /\ seen' = seen \cup {k}
  BY <1>6 DEF Allow
<1>8. Mine(k)' = Mine(k) /\ Waiting(k)' = Waiting(k) \ {q}
  BY <1>1, <1>7 DEF Mine, Waiting, TypeOK
<1>9. last'[k] = NewLast(k, t) /\ tokens'[k] = Refilled(k, t) - Res /\ k \in seen'
  BY <1>1, <1>7 DEF TypeOK
<1>10. Spaced(k)'
  <2>1. \A a, b : Between(k, a, b)' = Between(k, a, b)
    BY <1>1, <1>8 DEF Between
  <2> QED BY <1>1, <1>8, <2>1 DEF PoliteInv, Spaced
<1>11. Clocked(k)'
  <2>1. \E d \in Mine(k) : stamp[d] = NewLast(k, t)
    <3>1. CASE NewLast(k, t) = t
      BY <1>2, <3>1 DEF Waiting
    <3>2. CASE NewLast(k, t) # t
      <4>1. k \in seen /\ NewLast(k, t) = last[k]
        BY <3>2 DEF NewLast, Last
      <4> QED BY <4>1 DEF PoliteInv, Clocked
    <3> QED BY <3>1, <3>2
  <2>2. \A p \in Mine(k) \ (Waiting(k) \ {q}) : stamp[p] <= NewLast(k, t)
    <3>1. ASSUME NEW p \in Mine(k) \ Waiting(k) PROVE stamp[p] <= NewLast(k, t)
      <4>1. k \in seen /\ stamp[p] <= last[k]
        BY <3>1 DEF PoliteInv, Clocked
      <4>2. Last(k, t) = last[k] /\ last[k] \in Nat /\ stamp[p] \in Nat
        BY <1>1, <4>1 DEF Last, TypeOK, Mine
      <4> QED BY <1>1, <4>1, <4>2 DEF NewLast
    <3> QED BY <1>2, <3>1
  <2> QED BY <1>1, <1>8, <1>9, <2>1, <2>2 DEF Clocked
<1>12. Reserved(k)'
  <2>1. Late(k, last[k])' = L \ {q}
    BY <1>1, <1>8, <1>9 DEF Late
  <2> QED BY <1>6, <1>9, <2>1, <1>1 DEF Reserved
<1>13. Served(k)'
  BY <1>1, <1>7, <1>8 DEF PoliteInv, Served, TypeOK
<1>14. (Cardinality(Waiting(k)) * Res <= Full)'
  <2>1. Cardinality(Waiting(k) \ {q}) * Res <= Full
    BY <1>3, Monotone, Limits DEF PoliteInv
  <2> QED BY <1>8, <2>1 DEF Full
<1> QED BY <1>1, <1>10, <1>11, <1>12, <1>13, <1>14 DEF PoliteInv

\* A request made in time keeps it too.
LEMMA StampPolite ==
    ASSUME TypeOK, NEW q \in Reqs, Stamp(q), key[q] \in Keeping, Polite(q), PoliteInv(key[q])
    PROVE  PoliteInv(key[q])'
<1> DEFINE k == key[q]
<1>1. /\ k \in Keys /\ now \in Nat /\ q \notin Mine(k)
      /\ UNCHANGED <<now, key, seen, tokens, last>>
      /\ state' = [state EXCEPT ![q] = "stamped"] /\ stamp' = [stamp EXCEPT ![q] = now]
  BY LimiterAssumption DEF Stamp, TypeOK, Mine
<1>2. Mine(k)' = Mine(k) \cup {q} /\ Waiting(k)' = Waiting(k) \cup {q}
  BY <1>1 DEF Mine, Waiting, TypeOK
<1>3. /\ stamp'[q] = now
      /\ \A p \in Mine(k) : stamp'[p] = stamp[p] /\ state'[p] = state[p] /\ stamp[p] \in Nat
  BY <1>1 DEF Mine, TypeOK
<1>4. /\ \A p \in Mine(k) : (now - stamp[p]) * Rps >= Res
      /\ Cardinality(Waiting(k)) * Res < Full
  <2>1. Mine(k) = {p \in Reqs \ {q} : key[p] = key[q] /\ state[p] # "new"}
    BY <1>1 DEF Mine
  <2>2. Waiting(k) = {p \in Mine(k) : state[p] = "stamped"}
    BY DEF Waiting
  <2> QED BY <2>1, <2>2 DEF Polite
<1>5. \A p \in Mine(k) : stamp[p] < now
  <2>1. ASSUME NEW p \in Mine(k) PROVE stamp[p] < now
    <3>1. stamp[p] \in 0..now
      BY DEF TypeOK, Mine
    <3>2. CASE stamp[p] = now
      <4>1. (now - stamp[p]) * Rps = 0
        BY <1>1, <3>2, Limits
      <4> QED BY <1>4, <4>1, Limits
    <3> QED BY <1>1, <3>1, <3>2
  <2> QED BY <2>1
<1>6. Spaced(k)'
  <2>1. ASSUME NEW a \in Mine(k), NEW b \in Mine(k)
        PROVE  Between(k, stamp[a], stamp[b])' = Between(k, stamp[a], stamp[b])
    BY <1>1, <1>2, <1>3, <1>5 DEF Between
  <2>2. ASSUME NEW a \in Mine(k)
        PROVE  Cardinality(Between(k, stamp[a], stamp[q])') * Res <= (now - stamp[a]) * Rps
    <3> DEFINE B == Between(k, stamp[a], now)
    <3>1. Between(k, stamp[a], stamp[q])' = B \cup {q} /\ q \notin B
      BY <1>1, <1>2, <1>3, <1>5 DEF Between
    <3>2. B \in SUBSET Reqs /\ Mine(k) \in SUBSET Reqs
      BY DEF Between, Mine
    <3>3. Cardinality(B \cup {q}) = Cardinality(B) + 1 /\ Cardinality(B) \in Nat
      BY <3>1, <3>2, Finite, FS_AddElement
    <3>4. PICK m \in Mine(k) : \A p \in Mine(k) : stamp[p] <= stamp[m]
      BY <3>2, Latest
    <3>5. B = Between(k, stamp[a], stamp[m])
      BY <1>3, <1>5, <3>4, <1>1 DEF Between
    <3>6. Cardinality(B) * Res <= (stamp[m] - stamp[a]) * Rps
      <4>1. CASE stamp[a] < stamp[m]
        BY <3>5, <4>1 DEF PoliteInv, Spaced
      <4>2. CASE stamp[a] = stamp[m]
        <5>1. B = {}
          BY <1>3, <3>5, <4>2 DEF Between
        <5>2. Cardinality(B) * Res = 0 /\ (stamp[m] - stamp[a]) * Rps = 0
          BY <1>3, <4>2, <5>1, FS_EmptySet, Limits
        <5> QED BY <5>2
      <4> QED BY <1>3, <3>4, <4>1, <4>2
    <3>7. (now - stamp[m]) * Rps >= Res
      BY <1>4
    <3>8. (now - stamp[a]) * Rps = (now - stamp[m]) * Rps + (stamp[m] - stamp[a]) * Rps
      BY <1>1, <1>3, Limits
    <3>9. (Cardinality(B) + 1) * Res = Cardinality(B) * Res + Res
      BY <3>3, Limits
    <3>10. /\ Cardinality(B) * Res \in Int /\ (stamp[m] - stamp[a]) * Rps \in Int
           /\ (now - stamp[m]) * Rps \in Int /\ Res \in Int
      BY <1>1, <1>3, <3>3, Limits
    <3>11. Cardinality(B \cup {q}) * Res <= (now - stamp[a]) * Rps
      BY <3>3, <3>6, <3>7, <3>8, <3>9, <3>10
    <3> QED BY <3>1, <3>11
  <2>3. ASSUME NEW p \in Mine(k)', NEW a \in Mine(k)', stamp'[a] < stamp'[p]
        PROVE  Cardinality(Between(k, stamp[a], stamp[p])') * Res <= (stamp'[p] - stamp'[a]) * Rps
    <3>1. a \in Mine(k)
      BY <1>1, <1>2, <1>3, <1>5, <2>3
    <3>2. CASE p = q
      BY <1>3, <2>2, <3>1, <3>2 DEF Between
    <3>3. CASE p \in Mine(k)
      <4>1. stamp[a] < stamp[p]
        BY <1>3, <2>3, <3>1, <3>3
      <4> QED BY <1>3, <2>1, <3>1, <3>3, <4>1 DEF PoliteInv, Spaced
    <3> QED BY <1>2, <3>2, <3>3
  <2> QED BY <1>1, <2>3 DEF Spaced
<1>7. Clocked(k)'
  BY <1>1, <1>2, <1>3 DEF PoliteInv, Clocked
<1>8. Reserved(k)'
  <2>1. ASSUME k \in seen PROVE Late(k, last[k])' = Late(k, last[k])
    <3>1. last[k] < now /\ last[k] \in Nat
      BY <1>1, <1>5, <2>1 DEF PoliteInv, Clocked, TypeOK
    <3>2. \A p \in Waiting(k) : stamp'[p] = stamp[p]
      BY <1>3 DEF Waiting
    <3> QED BY <1>1, <1>2, <1>3, <3>1, <3>2 DEF Late
  <2> QED BY <1>1, <2>1 DEF PoliteInv, Reserved
<1>9. Served(k)'
  BY <1>1, <1>2, <1>3 DEF PoliteInv, Served, TypeOK
<1>10. (Cardinality(Waiting(k)) * Res <= Full)'
  <2> DEFINE n == Cardinality(Waiting(k))
             burst == IF CfgBurst < 1 THEN 10 ELSE CfgBurst
  <2>1. Waiting(k) \in SUBSET Reqs /\ q \notin Waiting(k)
    BY <1>1 DEF Waiting, Mine
  <2>2. n \in Nat /\ Cardinality(Waiting(k) \cup {q}) = n + 1
    BY <2>1, Finite, FS_AddElement
  <2>3. Full = burst * Res /\ burst \in Nat \ {0}
    BY LimiterAssumption DEF Full
  <2> HIDE DEF n, burst
  <2>4. ASSUME NEW x \in Nat, NEW y \in Nat, NEW r \in Nat \ {0}, x * r < y * r
        PROVE  (x + 1) * r <= y * r
    <3>1. x < y
      <4>1. CASE y <= x
        <5>1. x * r = y * r + (x - y) * r
          OBVIOUS
        <5>2. (x - y) * r \in Nat
          <6>1. x - y \in Nat
            BY <4>1
          <6>2. ASSUME NEW u \in Nat, NEW v \in Nat PROVE u * v \in Nat
            OBVIOUS
          <6> QED BY <6>1, <6>2
        <5>3. y * r \in Int
          OBVIOUS
        <5> QED BY <2>4, <5>1, <5>2, <5>3
      <4> QED BY <4>1
    <3>2. y - x - 1 \in Nat
      BY <3>1
    <3>3. (y - x - 1) * r \in Nat
      <4>1. ASSUME NEW u \in Nat, NEW v \in Nat PROVE u * v \in Nat
        OBVIOUS
      <4> QED BY <3>2, <4>1
    <3>4. y * r = (x + 1) * r + (y - x - 1) * r /\ (x + 1) * r \in Int
      OBVIOUS
    <3> QED BY <3>3, <3>4
  <2>5. (n + 1) * Res <= Full
    <3>1. n * Res < burst * Res
      BY <1>4, <2>3 DEF n
    <3> QED BY <2>2, <2>3, <2>4, <3>1, Limits
  <2> QED BY <1>2, <2>2, <2>5 DEF Full, n
<1> QED BY <1>1, <1>6, <1>7, <1>8, <1>9, <1>10 DEF PoliteInv

-----------------------------------------------------------------------------
AllPolite == TypeOK /\ \A k \in Keeping : PoliteInv(k)

\* What happens to one client's requests does not touch another's.
LEMMA OthersUntouched ==
    ASSUME TypeOK, NEW k \in Keys, PoliteInv(k), NEW q \in Reqs, key[q] # k, Stamp(q) \/ Allow(q)
    PROVE  PoliteInv(k)'
<1>1. key' = key
  BY DEF Stamp, Allow
<1>2. \A p \in Reqs : key[p] = k => state'[p] = state[p] /\ stamp'[p] = stamp[p]
  BY DEF Stamp, Allow, TypeOK
<1>3. /\ last'[k] = last[k] /\ tokens'[k] = tokens[k] /\ (k \in seen' <=> k \in seen)
  BY DEF Stamp, Allow, TypeOK
<1>4. Mine(k)' = Mine(k)
  BY <1>1, <1>2 DEF Mine
<1>5. Waiting(k)' = Waiting(k)
  BY <1>2, <1>4 DEF Waiting, Mine
<1>6. \A p \in Mine(k) : state'[p] = state[p] /\ stamp'[p] = stamp[p]
  BY <1>2 DEF Mine
<1>7. Spaced(k)'
  <2>1. \A a, b : Between(k, a, b)' = {p \in Mine(k) : a' < stamp'[p] /\ stamp'[p] <= b'}
    BY <1>4 DEF Between
  <2>2. ASSUME NEW a \in Mine(k), NEW b \in Mine(k)
        PROVE  Between(k, stamp[a], stamp[b])' = Between(k, stamp[a], stamp[b])
    BY <1>4, <1>6 DEF Between
  <2> QED BY <1>4, <1>6, <2>2 DEF PoliteInv, Spaced
<1>8. Clocked(k)'
  BY <1>3, <1>4, <1>5, <1>6 DEF PoliteInv, Clocked
<1>9. Reserved(k)'
  <2>1. Late(k, last[k])' = Late(k, last[k])
    BY <1>3, <1>5, <1>6 DEF Late, Waiting
  <2> QED BY <1>3, <2>1 DEF PoliteInv, Reserved
<1>10. Served(k)'
  BY <1>4, <1>6 DEF PoliteInv, Served
<1> QED BY <1>5, <1>7, <1>8, <1>9, <1>10 DEF PoliteInv, Full

LEMMA PoliteStep == AllPolite /\ [Next]_vars => AllPolite'
<1> SUFFICES ASSUME AllPolite, [Next]_vars PROVE AllPolite'
  OBVIOUS
<1>1. TypeOK'
  BY StepType DEF AllPolite
<1>2. ASSUME UNCHANGED <<state, key, stamp, seen, tokens, last>>, NEW k \in Keeping
      PROVE  PoliteInv(k)'
  <2>1. Mine(k)' = Mine(k) /\ Waiting(k)' = Waiting(k)
    BY <1>2 DEF Mine, Waiting
  <2>2. Spaced(k)' /\ Clocked(k)' /\ Reserved(k)' /\ Served(k)'
    BY <1>2, <2>1 DEF AllPolite, PoliteInv, Spaced, Between, Clocked, Reserved, Late, Served
  <2> QED BY <2>1, <2>2 DEF AllPolite, PoliteInv, Full
<1>3. ASSUME NEW q \in Reqs, (Polite(q) /\ Stamp(q)) \/ Allow(q), NEW k \in Keeping
      PROVE  PoliteInv(k)'
  <2>1. k \in Keys /\ PoliteInv(k) /\ TypeOK
    BY LimiterAssumption DEF AllPolite
  <2>2. CASE key[q] # k
    BY <1>3, <2>1, <2>2, OthersUntouched
  <2>3. CASE key[q] = k
    <3>1. key' = key
      BY <1>3 DEF Stamp, Allow
    <3>2. PoliteInv(key[q])'
      BY <1>3, <2>1, <2>3, AllowPolite, StampPolite
    <3> QED BY <2>3, <3>1, <3>2
  <2> QED BY <2>2, <2>3
<1>4. ASSUME NEW k \in Keeping PROVE PoliteInv(k)'
  BY <1>2, <1>3, <1>4 DEF Next, Tick, Over, vars
<1> QED BY <1>1, <1>4 DEF AllPolite

LEMMA PoliteInit == Init => AllPolite
<1> SUFFICES ASSUME Init PROVE AllPolite
  OBVIOUS
<1>1. TypeOK
  BY InitType
<1>2. ASSUME NEW k \in Keeping PROVE PoliteInv(k)
  <2>1. Mine(k) = {} /\ Waiting(k) = {} /\ k \notin seen
    BY DEF Init, Mine, Waiting
  <2>2. Cardinality(Waiting(k)) * Res <= Full
    BY <2>1, FS_EmptySet, Limits
  <2> QED BY <2>1, <2>2 DEF PoliteInv, Spaced, Clocked, Reserved, Served
<1> QED BY <1>1, <1>2 DEF AllPolite

\* A client that keeps to the rate is never refused, however its requests are
\* overtaken between the clock and the mutex and whatever others do.
THEOREM PoliteClientsServed == Spec => []PoliteServed
<1>1. AllPolite => PoliteServed
  <2> SUFFICES ASSUME AllPolite, NEW q \in Reqs, key[q] \in Keeping PROVE state[q] # "limited"
    BY DEF PoliteServed
  <2>1. Served(key[q])
    BY DEF AllPolite, PoliteInv
  <2> QED BY <2>1 DEF Served, Mine
<1> QED BY <1>1, PoliteInit, PoliteStep, PTL DEF Spec
=============================================================================
