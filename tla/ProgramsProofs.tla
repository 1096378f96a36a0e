---------------------------- MODULE ProgramsProofs ----------------------------
(***************************************************************************)
(* Proofs about the programs that talk to nobody: RSA for every range of   *)
(* primes and every public exponent, AES for every key and every text, the *)
(* request parser for every request; and with FileProcessingProofs all of  *)
(* them side by side.                                                      *)
(***************************************************************************)
EXTENDS Programs, FileProcessingProofs

-----------------------------------------------------------------------------
(* Division.                                                               *)

\* A quotient and a remainder are determined by what they add up to.
LEMMA DivisionUnique ==
  ASSUME NEW y \in Nat \ {0}, NEW m \in Int, NEW r \in 0 .. (y - 1)
  PROVE  (y * m + r) % y = r
  OBVIOUS

LEMMA Multiple ==
  ASSUME NEW x \in Int, NEW k \in Nat \ {0}
  PROVE  x % k = 0 <=> \E m \in Int : x = k * m
<1>1. ASSUME x % k = 0 PROVE \E m \in Int : x = k * m
  <2>1. x \div k \in Int /\ x = k * (x \div k) + (x % k)
    BY Division
  <2> DEFINE m == x \div k
  <2>2. m \in Int /\ x = k * m
    BY <1>1, <2>1
  <2> QED
    BY <2>2
<1>2. ASSUME NEW m \in Int, x = k * m PROVE x % k = 0
  BY <1>2, DivisionUnique
<1> QED
  BY <1>1, <1>2

-----------------------------------------------------------------------------
(* Trial division.                                                         *)

\* A number above 3 that 2 and 3 do not divide, and no k below trial, where
\* trial is one less than a multiple of 6, has only trial and trial + 2 to be
\* tested for the next 6 candidates.
LEMMA NextCandidates ==
  ASSUME NEW x \in Nat, NEW t \in Nat, t % 6 = 5,
         x % 2 # 0, x % 3 # 0, x % t # 0, x % (t + 2) # 0,
         \A k \in 2 .. (t - 1) : x % k # 0
  PROVE  \A k \in 2 .. (t + 5) : x % k # 0
<1> SUFFICES ASSUME NEW k \in 2 .. (t + 5), x % k = 0 PROVE FALSE
  OBVIOUS
<1>0. k \in Nat \ {0}
  OBVIOUS
<1>1. PICK m \in Int : x = k * m
  BY <1>0, Multiple
<1>2. k \in {t + 1, t + 3, t + 4, t + 5}
  <2>1. ~ (k \in 2 .. (t - 1)) /\ k # t /\ k # t + 2
    OBVIOUS
  <2> QED
    BY <2>1
<1>3. t = 6 * (t \div 6) + 5
  BY Division
<1>4. CASE k \in {t + 1, t + 3, t + 5}
  <2>1. PICK h \in Int : k = 2 * h
    <3>1. t \div 6 \in Int
      BY Division
    <3>2. \/ k = 2 * (3 * (t \div 6) + 3)
          \/ k = 2 * (3 * (t \div 6) + 4)
          \/ k = 2 * (3 * (t \div 6) + 5)
      BY <1>3, <1>4, <3>1
    <3>3. /\ 3 * (t \div 6) + 3 \in Int /\ 3 * (t \div 6) + 4 \in Int
          /\ 3 * (t \div 6) + 5 \in Int
      BY <3>1
    <3> QED
      BY <3>2, <3>3
  <2>2. x = 2 * (h * m)
    BY <1>1, <2>1
  <2> QED
    BY <2>2, <1>1, <2>1, Multiple
<1>5. CASE k = t + 4
  <2>1. t \div 6 \in Int
    BY Division
  <2>2. k = 3 * (2 * (t \div 6) + 3)
    BY <1>3, <1>5, <2>1
  <2> DEFINE h == 2 * (t \div 6) + 3
  <2>3. h \in Int /\ k = 3 * h
    BY <2>1, <2>2
  <2> HIDE DEF h
  <2>4. x = 3 * (h * m)
    BY <1>1, <2>3
  <2> QED
    BY <2>4, <1>1, <2>3, Multiple
<1> QED
  BY <1>2, <1>4, <1>5

\* A composite number has a divisor whose square is not larger.
LEMMA SmallDivisor ==
  ASSUME NEW x \in Nat, NEW t \in Nat, x > 1, t > 1, x < t * t,
         \A k \in 2 .. (t - 1) : k < x => x % k # 0
  PROVE  IsPrime(x)
<1> SUFFICES ASSUME NEW k \in 2 .. (x - 1), x % k = 0 PROVE FALSE
  BY DEF IsPrime
<1>0. k \in Nat \ {0}
  OBVIOUS
<1>1. PICK m \in Int : x = k * m
  BY <1>0, Multiple
<1>2. m > 1 /\ m < x
  BY <1>1
<1>3. CASE k < t
  BY <1>3
<1>4. CASE k >= t
  <2>1. m < t
    <3> SUFFICES ASSUME m >= t PROVE FALSE
      BY <1>1
    <3>1. t * t <= m * t /\ t * m <= k * m
      BY <1>1, <1>2, <1>4, ProductMonotone
    <3>2. m * t = t * m
      BY <1>1
    <3> QED
      BY <1>1, <3>1, <3>2
  <2>2. x = m * k /\ m \in Nat \ {0} /\ k \in Int
    BY <1>1, <1>2
  <2>3. x % m = 0
    BY <2>2, Multiple
  <2> QED
    <3>1. m \in 2 .. (t - 1) /\ m < x
      BY <1>2, <2>1
    <3> QED
      BY <3>1, <2>3
<1> QED
  BY <1>3, <1>4

-----------------------------------------------------------------------------
(* The inductive invariant.                                                *)

\* The drawing of the primes.
DrawInv ==
  /\ PrimesExactly
  /\ {p, q, num} \subseteq {0} \cup (LOWER .. UPPER)
  /\ rsa \in {"draw", "is_prime"} => q = 0
  /\ rsa \notin {"draw", "is_prime"} => p # 0 /\ q # 0
  /\ rsa = "is_prime" =>
       /\ num > 3 /\ num % 2 # 0 /\ num % 3 # 0
       /\ trial % 6 = 5
       /\ \A k \in 2 .. (trial - 1) : num % k # 0

\* Two numbers have the common divisors of e and phi.
SameDivisors(x, y) ==
  \A k \in Nat \ {0} : x % k = 0 /\ y % k = 0 <=> e % k = 0 /\ phi % k = 0

GcdInv == rsa = "gcd" => a # 0 /\ SameDivisors(a, b)

Congruent(x, y) == \E m \in Int : x = y + phi * m

\* The extended algorithm of Euclid: the coefficients express the remainders
\* modulo phi, have opposite signs, and are no larger than phi.
InverseInv ==
  rsa = "inverse" =>
    /\ current_remainder \in 1 .. Largest /\ next_remainder \in 0 .. Largest
    /\ SameDivisors(current_remainder, next_remainder)
    /\ Coprime(e, phi)
    /\ Congruent(coeff_phi * e, current_remainder)
    /\ Congruent(coeff_e * e, next_remainder)
    /\ \/ /\ coeff_phi <= 0 /\ coeff_e >= 0
          /\ coeff_e * current_remainder - coeff_phi * next_remainder = phi
       \/ /\ coeff_phi >= 0 /\ coeff_e <= 0
          /\ coeff_phi * next_remainder - coeff_e * current_remainder = phi
    /\ -phi <= coeff_phi /\ coeff_phi <= phi

\* What calculate_mod_pow multiplies stays smaller than n.
PowerInv ==
  rsa \in {"encrypt", "decrypt"} =>
    base \in -(n - 1) .. (n - 1) /\ power \in -(n - 1) .. (n - 1)

RsaInv ==
  RsaTypeOK /\ DrawInv /\ GcdInv /\ GivesUpRightly /\ InverseInv /\ KeyInverts
    /\ PowerInv

\* The numbers the two primes are made into.
LEMMA Moduli ==
  ASSUME RsaTypeOK, DrawInv, p # 0, q # 0
  PROVE  /\ n \in Nat /\ phi \in Nat
         /\ n > 1 /\ phi > 1 /\ n <= UPPER * UPPER /\ phi <= Largest
<1>1. p \in Nat /\ q \in Nat /\ p >= 2 /\ q >= 2 /\ p # q /\ p <= UPPER /\ q <= UPPER
  BY RsaAssumption DEF DrawInv, PrimesExactly, RsaTypeOK
<1>2. UPPER \in Nat /\ UPPER >= 2
  BY <1>1, RsaAssumption
<1>3. p * q <= UPPER * UPPER
  <2>1. p * q <= UPPER * q /\ q * UPPER <= UPPER * UPPER /\ UPPER * q = q * UPPER
    BY <1>1, <1>2, ProductMonotone
  <2>2. p * q \in Int /\ UPPER * q \in Int /\ UPPER * UPPER \in Int
    BY <1>1, <1>2
  <2> QED
    BY <2>1, <2>2
<1>4. (p - 1) * (q - 1) > 1 /\ (p - 1) * (q - 1) <= p * q /\ p * q > 1
  <2>1. (p - 1) * (q - 1) = p * q - p - q + 1
    BY <1>1
  <2>2. CASE p >= 3
    <3>1. 2 * (q - 1) <= (p - 1) * (q - 1)
      BY <1>1, <2>2, ProductMonotone
    <3> QED
      BY <1>1, <2>1, <3>1
  <2>3. CASE q >= 3
    <3>1. 2 * (p - 1) <= (q - 1) * (p - 1) /\ (q - 1) * (p - 1) = (p - 1) * (q - 1)
      BY <1>1, <2>3, ProductMonotone
    <3> QED
      BY <1>1, <2>1, <3>1
  <2> QED
    BY <1>1, <2>2, <2>3
<1>5. UPPER * UPPER <= Largest
  <2> DEFINE u == UPPER * UPPER
  <2>1. u \in Nat /\ 1 <= u
    <3>1. 1 * UPPER <= UPPER * UPPER
      BY <1>2, ProductMonotone
    <3> QED
      BY <1>2, <3>1
  <2>2. Largest = u * u
    BY <1>2 DEF Largest
  <2> HIDE DEF u
  <2>3. 1 * u <= u * u
    BY <2>1, ProductMonotone
  <2>4. u <= Largest
    BY <2>1, <2>2, <2>3
  <2> QED
    BY <2>4 DEF u
<1>6. p * q \in Nat /\ (p - 1) * (q - 1) \in Nat /\ UPPER * UPPER \in Nat /\ Largest \in Nat
  BY <1>1, <1>2, <1>4 DEF Largest
<1> QED
  BY <1>3, <1>4, <1>5, <1>6 DEF n, phi

-----------------------------------------------------------------------------
(* The initial states, and the drawing of the primes.                      *)

LEMMA InitInvariant == RsaInit => RsaInv
<1> SUFFICES ASSUME RsaInit PROVE RsaInv
  OBVIOUS
<1>1. RsaTypeOK
  BY RsaAssumption DEF RsaInit, RsaTypeOK
<1>2. DrawInv
  BY DEF RsaInit, DrawInv, PrimesExactly
<1> QED
  BY <1>1, <1>2 DEF RsaInit, RsaInv, GcdInv, GivesUpRightly, InverseInv, KeyInverts,
     PowerInv

\* What a step that leaves a prime drawn, or not, has to show.
LEMMA DrawStep ==
  ASSUME RsaInv, RsaTypeOK', DrawInv', rsa' \in {"draw", "is_prime"}
  PROVE  RsaInv'
  BY DEF RsaInv, GcdInv, GivesUpRightly, InverseInv, KeyInverts, PowerInv

LEMMA TakeInvariant ==
  ASSUME RsaInv, rsa \in {"draw", "is_prime"},
         NEW x \in LOWER .. UPPER, IsPrime(x), Take(x), num' = x, trial' \in Nat,
         UNCHANGED <<e, d, invVars, textVars, powVars>>
  PROVE  RsaInv'
<1>0. /\ RsaTypeOK /\ DrawInv /\ q = 0 /\ e \in Nat /\ e # 0
      /\ x \in Nat /\ x >= 2 /\ LOWER \in Nat /\ UPPER \in Nat
  BY RsaAssumption DEF RsaInv, RsaTypeOK, DrawInv
<1>1. CASE p = 0 /\ p' = x /\ rsa' = "draw" /\ UNCHANGED <<q, gcdVars>>
  <2>1. RsaTypeOK'
    BY <1>0, <1>1 DEF RsaTypeOK, invVars, textVars, powVars, gcdVars
  <2>2. DrawInv'
    BY <1>0, <1>1 DEF DrawInv, PrimesExactly
  <2> QED
    BY <1>1, <2>1, <2>2, DrawStep
<1>2. CASE /\ p # 0 /\ p # x /\ q' = x /\ rsa' = "gcd"
           /\ a' = e /\ b' = (p - 1) * (x - 1) /\ UNCHANGED p
  <2>0. p \in Nat /\ p >= 2 /\ (p - 1) * (x - 1) \in Nat
    BY <1>0, <1>2, RsaAssumption DEF DrawInv, RsaTypeOK
  <2>1. RsaTypeOK'
    BY <1>0, <1>2, <2>0 DEF RsaTypeOK, invVars, textVars, powVars
  <2>2. DrawInv'
    BY <1>0, <1>2 DEF DrawInv, PrimesExactly
  <2>3. GcdInv'
    BY <1>0, <1>2 DEF GcdInv, SameDivisors, phi
  <2> QED
    BY <1>2, <2>1, <2>2, <2>3
       DEF RsaInv, GivesUpRightly, InverseInv, KeyInverts, PowerInv
<1>3. CASE p = x /\ rsa' = "draw" /\ UNCHANGED <<p, q, gcdVars>>
  <2>1. RsaTypeOK'
    BY <1>0, <1>3 DEF RsaTypeOK, invVars, textVars, powVars, gcdVars
  <2>2. DrawInv'
    BY <1>0, <1>3 DEF DrawInv, PrimesExactly
  <2> QED
    BY <1>3, <2>1, <2>2, DrawStep
<1> QED
  BY <1>1, <1>2, <1>3 DEF Take, IsSecond

LEMMA DrawInvariant == RsaInv /\ generate_random_prime => RsaInv'
<1> SUFFICES ASSUME RsaInv, generate_random_prime PROVE RsaInv'
  OBVIOUS
<1>1. PICK x \in LOWER .. UPPER :
        /\ num' = x
        /\ trial' = 5
        /\ \/ x \in {2, 3} /\ Take(x)
           \/ /\ x > 3
              /\ rsa' = IF x % 2 = 0 \/ x % 3 = 0 THEN "draw" ELSE "is_prime"
              /\ UNCHANGED <<p, q, gcdVars>>
  BY DEF generate_random_prime
<1>2. /\ rsa = "draw" /\ x \in Nat /\ RsaTypeOK /\ DrawInv
      /\ UNCHANGED <<e, d, invVars, textVars, powVars>>
  BY RsaAssumption DEF generate_random_prime, RsaInv
<1>3. CASE x \in {2, 3} /\ Take(x)
  <2>1. IsPrime(x)
    BY <1>3 DEF IsPrime
  <2> QED
    BY <1>1, <1>2, <1>3, <2>1, TakeInvariant
<1>4. CASE /\ x > 3
           /\ rsa' = IF x % 2 = 0 \/ x % 3 = 0 THEN "draw" ELSE "is_prime"
           /\ UNCHANGED <<p, q, gcdVars>>
  <2>1. RsaTypeOK'
    BY <1>1, <1>2, <1>4 DEF RsaTypeOK, invVars, textVars, powVars, gcdVars
  <2>2. CASE x % 2 = 0 \/ x % 3 = 0
    <3>1. ~IsPrime(x)
      BY <1>2, <1>4, <2>2 DEF IsPrime
    <3>2. DrawInv'
      BY <1>1, <1>2, <1>4, <2>2, <3>1 DEF DrawInv, PrimesExactly
    <3> QED
      BY <1>4, <2>1, <2>2, <3>2, DrawStep
  <2>3. CASE ~ (x % 2 = 0 \/ x % 3 = 0)
    <3>1. \A k \in 2 .. 4 : x % k # 0
      BY <1>2, <2>3
    <3>2. DrawInv'
      BY <1>1, <1>2, <1>4, <2>3, <3>1 DEF DrawInv, PrimesExactly
    <3> QED
      BY <1>4, <2>1, <2>3, <3>2, DrawStep
  <2> QED
    BY <2>2, <2>3
<1> QED
  BY <1>1, <1>3, <1>4

LEMMA TestInvariant == RsaInv /\ is_prime => RsaInv'
<1> SUFFICES ASSUME RsaInv, is_prime PROVE RsaInv'
  OBVIOUS
<1>1. /\ rsa = "is_prime" /\ RsaTypeOK /\ DrawInv /\ UNCHANGED num
      /\ UNCHANGED <<e, d, invVars, textVars, powVars>>
  BY DEF is_prime, RsaInv
<1>2. /\ num \in LOWER .. UPPER /\ num \in Nat /\ num > 3 /\ num % 2 # 0 /\ num % 3 # 0
      /\ trial \in Nat /\ trial % 6 = 5 /\ trial >= 5
      /\ \A k \in 2 .. (trial - 1) : num % k # 0
  BY <1>1 DEF DrawInv, RsaTypeOK
<1>3. CASE trial * trial <= num /\ HasDivisor /\ rsa' = "draw"
           /\ UNCHANGED <<p, q, trial, gcdVars>>
  <2>1. 5 * trial <= trial * trial /\ trial * trial \in Int
    BY <1>2, ProductMonotone
  <2>2. trial \in 2 .. (num - 1) /\ trial + 2 \in 2 .. (num - 1)
    BY <1>2, <1>3, <2>1
  <2>3. ~IsPrime(num)
    BY <1>3, <2>2 DEF IsPrime, HasDivisor
  <2>4. RsaTypeOK'
    BY <1>1, <1>3 DEF RsaTypeOK, invVars, textVars, powVars, gcdVars
  <2>5. DrawInv'
    BY <1>1, <1>3, <2>3 DEF DrawInv, PrimesExactly
  <2> QED
    BY <1>3, <2>4, <2>5, DrawStep
<1>4. CASE trial * trial <= num /\ ~HasDivisor /\ trial' = trial + 6
           /\ UNCHANGED <<rsa, p, q, gcdVars>>
  <2>1. num % trial # 0 /\ num % (trial + 2) # 0
    BY <1>4 DEF HasDivisor
  <2>2. \A k \in 2 .. (trial + 5) : num % k # 0
    BY <1>2, <2>1, NextCandidates
  <2>3. trial' \in Nat /\ trial' % 6 = 5 /\ \A k \in 2 .. (trial' - 1) : num % k # 0
    BY <1>2, <1>4, <2>2
  <2>4. RsaTypeOK'
    BY <1>1, <1>4, <2>3 DEF RsaTypeOK, invVars, textVars, powVars, gcdVars
  <2>5. DrawInv'
    BY <1>1, <1>4, <2>3 DEF DrawInv, PrimesExactly
  <2> QED
    BY <1>1, <1>4, <2>4, <2>5, DrawStep
<1>5. CASE trial * trial > num /\ Take(num) /\ UNCHANGED trial
  <2>1. IsPrime(num)
    <3>1. num < trial * trial /\ num > 1 /\ trial > 1
      BY <1>2, <1>5
    <3> QED
      BY <1>2, <3>1, SmallDivisor
  <2> QED
    BY <1>1, <1>2, <1>5, <2>1, TakeInvariant
<1> QED
  BY <1>3, <1>4, <1>5 DEF is_prime

-----------------------------------------------------------------------------
(* The keys.                                                               *)

\* What x and y have in common, y and the remainder of x by y have too.
LEMMA EuclidStep ==
  ASSUME NEW x \in Nat, NEW y \in Nat \ {0}, SameDivisors(x, y)
  PROVE  SameDivisors(y, x % y)
<1> SUFFICES ASSUME NEW k \in Nat \ {0}
             PROVE  x % k = 0 /\ y % k = 0 <=> y % k = 0 /\ (x % y) % k = 0
  BY DEF SameDivisors
<1> DEFINE quo == x \div y
           rem == x % y
<1>1. quo \in Int /\ rem \in Int /\ x \in Int /\ y \in Int /\ x = y * quo + rem
  BY Division
<1> HIDE DEF quo, rem
<1>2. ASSUME x % k = 0, y % k = 0 PROVE rem % k = 0
  <2>1. PICK i \in Int : x = k * i
    BY <1>1, <1>2, Multiple
  <2>2. PICK j \in Int : y = k * j
    BY <1>1, <1>2, Multiple
  <2>3. i - j * quo \in Int /\ rem = k * (i - j * quo)
    BY <1>1, <2>1, <2>2
  <2> QED
    BY <1>1, <2>3, Multiple
<1>3. ASSUME rem % k = 0, y % k = 0 PROVE x % k = 0
  <2>1. PICK i \in Int : rem = k * i
    BY <1>1, <1>3, Multiple
  <2>2. PICK j \in Int : y = k * j
    BY <1>1, <1>3, Multiple
  <2>3. j * quo + i \in Int /\ x = k * (j * quo + i)
    BY <1>1, <2>1, <2>2
  <2> QED
    BY <2>3, Multiple
<1> QED
  BY <1>2, <1>3 DEF rem

\* After the primes, no step changes them, nor what is computed from them.
LEMMA AfterTheDraw ==
  ASSUME RsaInv, rsa \notin {"draw", "is_prime"}, rsa' \notin {"draw", "is_prime"},
         UNCHANGED <<p, q, e, num>>
  PROVE  /\ DrawInv' /\ n' = n /\ phi' = phi
         /\ n \in Nat /\ phi \in Nat /\ n > 1 /\ phi > 1
         /\ n <= UPPER * UPPER /\ phi <= Largest
         /\ e \in 1 .. Largest /\ Largest \in Nat
<1>1. DrawInv'
  BY DEF RsaInv, DrawInv, PrimesExactly
<1>2. n' = n /\ phi' = phi
  BY DEF n, phi
<1>3. e \in 1 .. Largest /\ Largest \in Nat
  BY RsaAssumption DEF RsaInv, RsaTypeOK, Largest
<1>4. p # 0 /\ q # 0
  BY DEF RsaInv, DrawInv
<1> QED
  BY <1>1, <1>2, <1>3, <1>4, Moduli DEF RsaInv

LEMMA GcdInvariant == RsaInv /\ calculate_gcd => RsaInv'
<1> SUFFICES ASSUME RsaInv, calculate_gcd PROVE RsaInv'
  OBVIOUS
<1>1. /\ rsa = "gcd" /\ RsaTypeOK /\ a # 0 /\ SameDivisors(a, b)
      /\ a \in Nat /\ b \in Nat
      /\ UNCHANGED <<p, q, e, d, num, trial, textVars, powVars>>
  BY DEF calculate_gcd, RsaInv, GcdInv, RsaTypeOK, keyVars, testVars
<1>2. CASE b # 0 /\ a' = b /\ b' = a % b /\ UNCHANGED <<rsa, invVars>>
  <2>1. DrawInv' /\ phi' = phi
    BY <1>1, <1>2, AfterTheDraw
  <2>2. a % b \in Nat
    BY <1>1, <1>2
  <2>3. RsaTypeOK'
    BY <1>1, <1>2, <2>2 DEF RsaTypeOK, invVars, textVars, powVars
  <2>4. GcdInv'
    <3>1. SameDivisors(b, a % b)
      BY <1>1, <1>2, EuclidStep
    <3> QED
      BY <1>1, <1>2, <2>1, <3>1 DEF GcdInv, SameDivisors
  <2> QED
    BY <1>1, <1>2, <2>1, <2>3, <2>4
       DEF RsaInv, GivesUpRightly, InverseInv, KeyInverts, PowerInv
<1>3. CASE b = 0 /\ a # 1 /\ rsa' = "not_coprime" /\ UNCHANGED <<gcdVars, invVars>>
  <2>1. DrawInv' /\ phi' = phi /\ phi \in Nat /\ phi > 1 /\ e \in Nat
    BY <1>1, <1>3, AfterTheDraw
  <2>2. RsaTypeOK'
    BY <1>1, <1>3 DEF RsaTypeOK, Failures, invVars, textVars, powVars, gcdVars
  <2>3. a % a = 0 /\ b % a = 0
    BY <1>1, <1>3
  <2>4. e % a = 0 /\ phi % a = 0
    BY <1>1, <2>3 DEF SameDivisors
  <2>5. a \in 2 .. phi
    BY <1>1, <1>3, <2>1, <2>4
  <2>6. ~Coprime(e, phi)'
    BY <1>1, <2>1, <2>4, <2>5 DEF Coprime
  <2> QED
    BY <1>1, <1>3, <2>1, <2>2, <2>6
       DEF RsaInv, GcdInv, GivesUpRightly, InverseInv, KeyInverts, PowerInv
<1>4. CASE /\ b = 0 /\ a = 1 /\ rsa' = "inverse" /\ coeff_phi' = 0 /\ coeff_e' = 1
           /\ current_remainder' = phi /\ next_remainder' = e /\ UNCHANGED gcdVars
  <2>1. /\ DrawInv' /\ phi' = phi /\ phi \in Nat /\ phi > 1 /\ e \in 1 .. Largest
        /\ phi <= Largest /\ Largest \in Nat
    BY <1>1, <1>4, AfterTheDraw
  <2>2. RsaTypeOK'
    BY <1>1, <1>4, <2>1 DEF RsaTypeOK, textVars, powVars, gcdVars
  <2>3. Coprime(e, phi)'
    <3> SUFFICES ASSUME NEW k \in 2 .. phi, e % k = 0, phi % k = 0 PROVE FALSE
      BY <1>1, <2>1 DEF Coprime
    <3>1. 1 % k = 0
      BY <1>1, <1>4 DEF SameDivisors
    <3> QED
      BY <2>1, <3>1
  <2>4. Congruent(coeff_phi * e, current_remainder)'
    <3>1. 0 * e = phi + phi * (-1)
      BY <2>1
    <3> QED
      BY <1>1, <1>4, <2>1, <3>1 DEF Congruent
  <2>5. Congruent(coeff_e * e, next_remainder)'
    <3>1. 1 * e = e + phi * 0
      BY <2>1
    <3> QED
      BY <1>1, <1>4, <2>1, <3>1 DEF Congruent
  <2>6. SameDivisors(current_remainder, next_remainder)'
    BY <1>1, <1>4, <2>1 DEF SameDivisors
  <2>7. 1 * phi - 0 * e = phi /\ -phi <= 0
    BY <2>1
  <2>8. InverseInv'
    BY <1>4, <2>1, <2>3, <2>4, <2>5, <2>6, <2>7 DEF InverseInv
  <2> QED
    BY <1>4, <2>1, <2>2, <2>8 DEF RsaInv, GcdInv, GivesUpRightly, KeyInverts, PowerInv
<1> QED
  BY <1>2, <1>3, <1>4 DEF calculate_gcd, HasRest

\* One round of the extended algorithm.
LEMMA InverseRound ==
  ASSUME RsaInv, calculate_mod_inverse, next_remainder # 0
  PROVE  RsaInv'
<1> DEFINE R == current_remainder
           N == next_remainder
           cp == coeff_phi
           ce == coeff_e
<1>1. /\ rsa = "inverse" /\ rsa' = rsa /\ RsaTypeOK /\ InverseInv
      /\ UNCHANGED <<p, q, e, d, num, trial, gcdVars, textVars, powVars>>
      /\ coeff_phi' = ce
      /\ coeff_e' = cp - quotient * ce
      /\ current_remainder' = N
      /\ next_remainder' = R - quotient * N
  BY DEF calculate_mod_inverse, RsaInv, testVars, Minus
<1>2. /\ DrawInv' /\ phi' = phi /\ phi \in Nat /\ phi > 1 /\ e \in 1 .. Largest
      /\ phi <= Largest /\ Largest \in Nat
  BY <1>1, AfterTheDraw
<1>3. /\ R \in 1 .. Largest /\ N \in 1 .. Largest
      /\ R \in Nat /\ N \in Nat \ {0} /\ cp \in Int /\ ce \in Int /\ e \in Int
      /\ SameDivisors(R, N) /\ Coprime(e, phi)
  BY <1>1, <1>2 DEF RsaTypeOK, InverseInv
<1>4. /\ quotient \in Nat /\ R = N * quotient + (R % N) /\ R % N \in 0 .. (N - 1)
  <2>1. R = N * (R \div N) + (R % N) /\ R % N \in 0 .. (N - 1)
    BY <1>3, Division
  <2>2. R \div N \in Nat
    BY <1>3
  <2> QED
    BY <2>1, <2>2 DEF quotient
<1>5. next_remainder' = R % N
  BY <1>1, <1>3, <1>4
<1>6. PICK m1 \in Int : cp * e = R + phi * m1
  BY <1>1 DEF InverseInv, Congruent
<1>7. PICK m2 \in Int : ce * e = N + phi * m2
  BY <1>1 DEF InverseInv, Congruent
<1>8. \/ cp <= 0 /\ ce >= 0 /\ ce * R - cp * N = phi
      \/ cp >= 0 /\ ce <= 0 /\ cp * N - ce * R = phi
  BY <1>1 DEF InverseInv
<1> DEFINE quo == quotient
           nc == cp - quo * ce
           rem == R % N
<1>9. quo \in Nat /\ nc \in Int /\ nc = cp - quo * ce /\ rem \in Nat /\ rem = R - quo * N
  BY <1>3, <1>4
<1>10. /\ coeff_phi' = ce /\ coeff_e' = nc /\ current_remainder' = N
       /\ next_remainder' = rem
  BY <1>1, <1>5
<1> HIDE DEF quo, nc, rem, R, N, cp, ce
<1>11. RsaTypeOK'
  BY <1>1, <1>3, <1>9, <1>10 DEF RsaTypeOK, textVars, powVars, gcdVars
<1>12. SameDivisors(N, rem)
  BY <1>3, EuclidStep DEF rem
<1>13. nc * e = rem + phi * (m1 - quo * m2)
  <2>1. nc * e = cp * e - quo * (ce * e)
    BY <1>3, <1>9
  <2>2. cp * e - quo * (ce * e) = (R + phi * m1) - quo * (N + phi * m2)
    BY <1>6, <1>7
  <2>3. (R + phi * m1) - quo * (N + phi * m2) = rem + phi * (m1 - quo * m2)
    BY <1>2, <1>3, <1>9
  <2> QED
    BY <2>1, <2>2, <2>3
<1>14. ce * rem - nc * N = ce * R - cp * N
  BY <1>3, <1>9
<1>15. \/ ce >= 0 /\ nc <= 0 /\ ce * rem - nc * N = phi
       \/ ce <= 0 /\ nc >= 0 /\ nc * N - ce * rem = phi
  <2>1. CASE cp <= 0 /\ ce >= 0 /\ ce * R - cp * N = phi
    <3>1. 0 <= quo * ce /\ quo * ce \in Int
      BY <1>3, <1>9, <2>1
    <3> QED
      BY <1>3, <1>9, <1>14, <2>1, <3>1
  <2>2. CASE cp >= 0 /\ ce <= 0 /\ cp * N - ce * R = phi
    <3>1. 0 >= quo * ce /\ quo * ce \in Int
      BY <1>3, <1>9, <2>2
    <3>2. ce * rem \in Int /\ nc * N \in Int /\ ce * R \in Int /\ cp * N \in Int
      BY <1>3, <1>9
    <3> QED
      BY <1>3, <1>9, <1>14, <2>2, <3>1, <3>2
  <2> QED
    BY <1>8, <2>1, <2>2
<1>16. -phi <= ce /\ ce <= phi
  <2>1. CASE cp <= 0 /\ ce >= 0 /\ ce * R - cp * N = phi
    <3>1. cp * N <= 0 /\ cp * N \in Int
      BY <1>3, <2>1
    <3>2. 1 * ce <= R * ce /\ R * ce = ce * R /\ ce * R \in Int
      BY <1>3, <2>1, ProductMonotone
    <3> QED
      BY <1>2, <1>3, <2>1, <3>1, <3>2
  <2>2. CASE cp >= 0 /\ ce <= 0 /\ cp * N - ce * R = phi
    <3>1. cp * N >= 0 /\ cp * N \in Int
      BY <1>3, <2>2
    <3>2. 1 * (-ce) <= R * (-ce) /\ R * (-ce) = -(ce * R) /\ ce * R \in Int
      BY <1>3, <2>2, ProductMonotone
    <3> QED
      BY <1>2, <1>3, <2>2, <3>1, <3>2
  <2> QED
    BY <1>8, <2>1, <2>2
<1>17. rem \in 0 .. Largest
  BY <1>2, <1>3, <1>4, <1>9 DEF rem
<1>18. InverseInv'
  <2>1. m1 - quo * m2 \in Int
    BY <1>9
  <2>2. Congruent(coeff_phi * e, current_remainder)'
    BY <1>1, <1>2, <1>7, <1>10 DEF Congruent
  <2>3. Congruent(coeff_e * e, next_remainder)'
    BY <1>1, <1>2, <1>10, <1>13, <2>1 DEF Congruent
  <2>4. SameDivisors(current_remainder, next_remainder)'
    BY <1>1, <1>2, <1>10, <1>12 DEF SameDivisors
  <2>5. Coprime(e, phi)'
    BY <1>1, <1>2, <1>3 DEF Coprime
  <2> QED
    BY <1>2, <1>3, <1>10, <1>15, <1>16, <1>17, <2>2, <2>3, <2>4, <2>5 DEF InverseInv
<1> QED
  BY <1>1, <1>2, <1>11, <1>18
     DEF RsaInv, GcdInv, GivesUpRightly, KeyInverts, PowerInv

\* The end of the extended algorithm: with the test before it passed, the last
\* remainder is 1, and the coefficient, made positive, is the inverse.
LEMMA InverseEnd ==
  ASSUME RsaInv, calculate_mod_inverse, next_remainder = 0
  PROVE  RsaInv'
<1>1. /\ rsa = "inverse" /\ RsaTypeOK /\ InverseInv /\ UNCHANGED invVars
      /\ UNCHANGED <<p, q, e, num, trial, gcdVars, textVars, powVars>>
  BY DEF calculate_mod_inverse, RsaInv, testVars
<1>2. \/ current_remainder > 1 /\ rsa' = "no_inverse" /\ d' = d
      \/ current_remainder <= 1 /\ rsa' = "read" /\ d' = Positive(coeff_phi)
  BY DEF calculate_mod_inverse
<1>3. /\ DrawInv' /\ phi' = phi /\ phi \in Nat /\ phi > 1 /\ e \in 1 .. Largest
      /\ phi <= Largest /\ Largest \in Nat
  BY <1>1, <1>2, AfterTheDraw
<1>4. /\ current_remainder \in 1 .. Largest /\ current_remainder \in Nat
      /\ coeff_phi \in Int /\ -phi <= coeff_phi /\ coeff_phi <= phi
      /\ Coprime(e, phi) /\ SameDivisors(current_remainder, next_remainder)
      /\ Congruent(coeff_phi * e, current_remainder)
  BY <1>1, <1>3 DEF InverseInv, RsaTypeOK
<1>5. current_remainder = 1
  <2> SUFFICES ASSUME current_remainder > 1 PROVE FALSE
    BY <1>4
  <2>1. current_remainder % current_remainder = 0 /\ next_remainder % current_remainder = 0
    BY <1>4
  <2>2. e % current_remainder = 0 /\ phi % current_remainder = 0
    BY <1>4, <2>1 DEF SameDivisors
  <2>3. current_remainder \in 2 .. phi
    BY <1>3, <1>4, <2>2
  <2> QED
    BY <1>4, <2>2, <2>3 DEF Coprime
<1>6. rsa' = "read" /\ d' = Positive(coeff_phi)
  BY <1>2, <1>5
<1>7. PICK m \in Int : coeff_phi * e = 1 + phi * m
  BY <1>4, <1>5 DEF Congruent
<1>8. PICK j \in Int : d' * e = phi * j + 1
  <2>1. CASE coeff_phi < 0
    <3>1. d' = coeff_phi + phi
      BY <1>6, <2>1 DEF Positive
    <3>2. (coeff_phi + phi) * e = phi * (m + e) + 1
      BY <1>3, <1>4, <1>7
    <3>3. m + e \in Int
      BY <1>3
    <3> QED
      BY <3>1, <3>2, <3>3
  <2>2. CASE ~ (coeff_phi < 0)
    <3>1. d' = coeff_phi
      BY <1>6, <2>2 DEF Positive
    <3>2. coeff_phi * e = phi * m + 1
      BY <1>3, <1>7
    <3> QED
      BY <3>1, <3>2
  <2> QED
    BY <2>1, <2>2
<1>9. (d' * e) % phi = 1
  BY <1>3, <1>8, DivisionUnique
<1>10. d' \in 0 .. phi
  BY <1>3, <1>4, <1>6 DEF Positive
<1>11. d' # 0 /\ d' # phi
  <2>1. ASSUME d' = 0 PROVE FALSE
    <3>1. d' * e = 0
      BY <1>3, <2>1
    <3> QED
      BY <1>3, <1>9, <3>1
  <2>2. ASSUME d' = phi PROVE FALSE
    <3>1. d' * e = phi * e + 0 /\ 0 \in 0 .. (phi - 1) /\ e \in Int
      BY <1>3, <2>2
    <3>2. (phi * e + 0) % phi = 0
      BY <1>3, <3>1, DivisionUnique
    <3> QED
      BY <1>9, <3>1, <3>2
  <2> QED
    BY <2>1, <2>2
<1>12. RsaTypeOK'
  BY <1>1, <1>3, <1>6, <1>10 DEF RsaTypeOK, invVars, textVars, powVars, gcdVars
<1>13. Coprime(e, phi)'
  BY <1>1, <1>3, <1>4 DEF Coprime
<1>14. KeyInverts'
  <2>1. d' \in 1 .. (phi - 1)
    BY <1>3, <1>10, <1>11
  <2>2. e' = e /\ phi' = phi
    BY <1>1, <1>3
  <2> QED
    BY <1>9, <2>1, <2>2, Zenon DEF KeyInverts
<1> QED
  BY <1>3, <1>6, <1>12, <1>13, <1>14
     DEF RsaInv, GcdInv, GivesUpRightly, InverseInv, PowerInv

LEMMA InverseInvariant == RsaInv /\ calculate_mod_inverse => RsaInv'
  BY InverseRound, InverseEnd

-----------------------------------------------------------------------------
(* The message.                                                            *)

LEMMA RemRange ==
  ASSUME NEW x \in Int, NEW m \in Nat \ {0}
  PROVE  Rem(x, m) \in -(m - 1) .. (m - 1)
  BY DEF Rem

\* The keys are made and used: what a step that reads, encrypts or decrypts
\* leaves as it is, and what it has to show.
LEMMA AfterTheKeys ==
  ASSUME RsaInv, rsa \in {"read", "encrypt", "decrypt"},
         rsa' \in {"encrypt", "decrypt", "done", "too_large"},
         UNCHANGED <<keyVars, testVars, gcdVars, invVars>>,
         {message', encrypted', decrypted', base', power'} \subseteq Int, exp' \in Nat,
         PowerInv'
  PROVE  RsaInv'
<1>1. UNCHANGED <<p, q, e, d, num, trial, a, b, coeff_phi, coeff_e,
                  current_remainder, next_remainder>>
  BY DEF keyVars, testVars, gcdVars, invVars
<1>2. DrawInv' /\ phi' = phi
  BY <1>1, AfterTheDraw
<1>3. RsaTypeOK'
  BY <1>1 DEF RsaInv, RsaTypeOK, Failures
<1>4. KeyInverts'
  BY <1>1, <1>2 DEF RsaInv, KeyInverts
<1> QED
  BY <1>2, <1>3, <1>4 DEF RsaInv, GcdInv, GivesUpRightly, InverseInv

LEMMA ReadInvariant == RsaInv /\ ReadMessage => RsaInv'
<1> SUFFICES ASSUME RsaInv, ReadMessage PROVE RsaInv'
  OBVIOUS
<1>1. /\ rsa = "read" /\ RsaTypeOK /\ message' \in Int
      /\ UNCHANGED <<keyVars, testVars, gcdVars, invVars, encrypted, decrypted>>
  BY RsaAssumption DEF ReadMessage, RsaInv
<1>2. rsa' \in {"encrypt", "too_large"} /\ UNCHANGED <<p, q, e, num>>
  BY <1>1 DEF ReadMessage, keyVars, testVars
<1>3. n' = n /\ n \in Nat \ {0} /\ n > 1 /\ e \in Nat
  BY <1>1, <1>2, AfterTheDraw
<1>4. CASE message' >= n /\ rsa' = "too_large" /\ UNCHANGED powVars
  BY <1>1, <1>4, AfterTheKeys DEF RsaTypeOK, PowerInv, powVars
<1>5. CASE rsa' = "encrypt" /\ StartPower(message', e)
  <2>1. base' \in -(n - 1) .. (n - 1) /\ exp' = e /\ power' = 1
    BY <1>1, <1>3, <1>5, RemRange DEF StartPower
  <2>2. PowerInv'
    BY <1>3, <2>1 DEF PowerInv
  <2> QED
    BY <1>1, <1>3, <1>5, <2>1, <2>2, AfterTheKeys DEF RsaTypeOK
<1> QED
  BY <1>4, <1>5 DEF ReadMessage

\* One multiplication of the power keeps what it works on smaller than n.
LEMMA PowerStep ==
  ASSUME RsaInv, rsa \in {"encrypt", "decrypt"}, SquareAndMultiply, n' = n
  PROVE  PowerInv' /\ {base', power'} \subseteq Int /\ exp' \in Nat
<1>1. /\ base \in Int /\ power \in Int /\ exp \in Nat
      /\ power \in -(n - 1) .. (n - 1)
  BY DEF RsaInv, RsaTypeOK, PowerInv
<1>2. n \in Nat \ {0}
  BY Moduli DEF RsaInv, DrawInv
<1>3. Rem(power * base, n) \in -(n - 1) .. (n - 1) /\ Rem(base * base, n) \in -(n - 1) .. (n - 1)
  <2>1. power * base \in Int /\ base * base \in Int
    BY <1>1
  <2> QED
    BY <1>2, <2>1, RemRange
<1>4. power' \in -(n - 1) .. (n - 1) /\ base' \in -(n - 1) .. (n - 1) /\ exp' = exp \div 2
  BY <1>1, <1>3 DEF SquareAndMultiply
<1>5. exp \div 2 \in Nat
  BY <1>1
<1> QED
  BY <1>2, <1>4, <1>5 DEF PowerInv

LEMMA EncryptInvariant == RsaInv /\ Encrypt => RsaInv'
<1> SUFFICES ASSUME RsaInv, Encrypt PROVE RsaInv'
  OBVIOUS
<1>1. /\ rsa = "encrypt" /\ RsaTypeOK
      /\ UNCHANGED <<keyVars, testVars, gcdVars, invVars, message, decrypted>>
  BY DEF Encrypt, RsaInv
<1>2. rsa' \in {"encrypt", "decrypt"} /\ UNCHANGED <<p, q, e, num>>
  BY <1>1 DEF Encrypt, keyVars, testVars
<1>3. n' = n /\ n \in Nat \ {0} /\ n > 1 /\ d \in Nat
  BY <1>1, <1>2, AfterTheDraw DEF RsaTypeOK
<1>4. CASE SquareAndMultiply /\ UNCHANGED <<rsa, encrypted>>
  BY <1>1, <1>3, <1>4, PowerStep, AfterTheKeys DEF RsaTypeOK
<1>5. CASE rsa' = "decrypt" /\ encrypted' = power /\ StartPower(power, d)
  <2>1. base' \in -(n - 1) .. (n - 1) /\ exp' = d /\ power' = 1
    BY <1>1, <1>3, <1>5, RemRange DEF StartPower, RsaTypeOK
  <2>2. PowerInv'
    BY <1>3, <2>1 DEF PowerInv
  <2> QED
    BY <1>1, <1>3, <1>5, <2>1, <2>2, AfterTheKeys DEF RsaTypeOK
<1> QED
  BY <1>4, <1>5 DEF Encrypt

LEMMA DecryptInvariant == RsaInv /\ Decrypt => RsaInv'
<1> SUFFICES ASSUME RsaInv, Decrypt PROVE RsaInv'
  OBVIOUS
<1>1. /\ rsa = "decrypt" /\ RsaTypeOK
      /\ UNCHANGED <<keyVars, testVars, gcdVars, invVars, message, encrypted>>
  BY DEF Decrypt, RsaInv
<1>2. rsa' \in {"decrypt", "done"} /\ UNCHANGED <<p, q, e, num>>
  BY <1>1 DEF Decrypt, keyVars, testVars
<1>3. n' = n
  BY <1>1, <1>2, AfterTheDraw
<1>4. CASE SquareAndMultiply /\ UNCHANGED <<rsa, decrypted>>
  BY <1>1, <1>3, <1>4, PowerStep, AfterTheKeys DEF RsaTypeOK
<1>5. CASE rsa' = "done" /\ decrypted' = power /\ UNCHANGED powVars
  BY <1>1, <1>5, AfterTheKeys DEF RsaTypeOK, PowerInv, powVars
<1> QED
  BY <1>4, <1>5 DEF Decrypt

-----------------------------------------------------------------------------
(* The theorems.                                                           *)

\* What is drawn, computed and multiplied satisfies the invariant in every
\* state of every run, whatever the range of the primes and the exponent.
THEOREM RsaInvariance == RsaSpec => []RsaInv
<1>1. RsaInv /\ [RsaNext]_rsaVars => RsaInv'
  <2> SUFFICES ASSUME RsaInv, [RsaNext]_rsaVars PROVE RsaInv'
    OBVIOUS
  <2>1. CASE UNCHANGED rsaVars
    <3>1. UNCHANGED <<rsa, p, q, e, d, num, trial, a, b, coeff_phi, coeff_e,
                      current_remainder, next_remainder, message, encrypted,
                      decrypted, base, exp, power>>
      BY <2>1 DEF rsaVars, keyVars, testVars, gcdVars, invVars, textVars, powVars
    <3>2. n' = n /\ phi' = phi
      BY <3>1 DEF n, phi
    <3>3. RsaTypeOK' /\ DrawInv' /\ GcdInv' /\ GivesUpRightly'
      BY <3>1, <3>2
         DEF RsaInv, RsaTypeOK, DrawInv, PrimesExactly, GcdInv, SameDivisors,
             GivesUpRightly, Coprime
    <3>4. InverseInv'
      BY <3>1, <3>2, Zenon DEF RsaInv, InverseInv, SameDivisors, Coprime, Congruent
    <3>5. KeyInverts' /\ PowerInv'
      BY <3>1, <3>2, Zenon DEF RsaInv, KeyInverts, PowerInv
    <3> QED
      BY <3>3, <3>4, <3>5 DEF RsaInv
  <2> QED
    BY <2>1, DrawInvariant, TestInvariant, GcdInvariant, InverseInvariant,
       ReadInvariant, EncryptInvariant, DecryptInvariant
       DEF RsaNext, RsaCompute
<1> QED
  BY <1>1, InitInvariant, PTL DEF RsaSpec

\* generate_random_prime returns primes, and refuses no prime but the first one
\* when it draws the second.
LEMMA PrimesAreTakenExactly == RsaSpec => []PrimesExactly
<1>1. RsaInv => PrimesExactly
  BY DEF RsaInv, DrawInv
<1> QED
  BY <1>1, RsaInvariance, PTL

\* The two tests of the public exponent never contradict each other, and find
\* out exactly whether it has an inverse.
LEMMA KeysAreRefusedRightly == RsaSpec => []GivesUpRightly
<1>1. RsaInv => GivesUpRightly
  BY DEF RsaInv
<1> QED
  BY <1>1, RsaInvariance, PTL

\* The private key inverts the public one modulo phi.
LEMMA PrivateKeyInverts == RsaSpec => []KeyInverts
<1>1. RsaInv => KeyInverts
  BY DEF RsaInv
<1> QED
  BY <1>1, RsaInvariance, PTL

\* Key generation of RSA.c as a whole: the primes, the test of the exponent and
\* its inverse, for any range of primes and any exponents.
THEOREM KeysAreMadeRight == RsaSpec => []KeysAreRight
<1>1. PrimesExactly /\ GivesUpRightly /\ KeyInverts => KeysAreRight
  BY DEF KeysAreRight
<1> QED
  BY <1>1, PrimesAreTakenExactly, KeysAreRefusedRightly, PrivateKeyInverts, PTL

LEMMA ProductFits ==
  ASSUME NEW m \in Nat \ {0}, NEW x \in -(m - 1) .. (m - 1), NEW y \in -(m - 1) .. (m - 1)
  PROVE  -(m * m) <= x * y /\ x * y <= m * m
<1> DEFINE ax == IF x < 0 THEN -x ELSE x
           ay == IF y < 0 THEN -y ELSE y
<1>1. ax \in Nat /\ ay \in Nat /\ ax <= m /\ ay <= m
  OBVIOUS
<1>2. x * y = ax * ay \/ x * y = -(ax * ay)
  OBVIOUS
<1> HIDE DEF ax, ay
<1>3. ax * ay <= m * ay /\ ay * m <= m * m /\ m * ay = ay * m
  BY <1>1, ProductMonotone
<1>4. ax * ay \in Nat /\ m * ay \in Nat /\ m * m \in Nat
  BY <1>1
<1> QED
  BY <1>2, <1>3, <1>4

\* What a round of the extended algorithm multiplies, in absolute values.
LEMMA RoundFits ==
  ASSUME NEW r \in Nat, NEW m \in Nat \ {0}, NEW quo \in Nat, NEW rem \in Nat,
         r = m * quo + rem,
         NEW x \in Nat, NEW y \in Nat, NEW f \in Nat, y * r + x * m = f
  PROVE  quo * y <= f /\ x + quo * y <= f /\ quo * m <= r
<1> DEFINE z == x + quo * y
<1>1. z \in Nat /\ quo * y \in Nat /\ quo * y <= z /\ m >= 1 /\ m \in Int
  OBVIOUS
<1>2. z * m = x * m + y * (m * quo)
  OBVIOUS
<1> HIDE DEF z
<1>3. y * (m * quo) <= y * r
  <2>1. (m * quo) * y <= r * y /\ (m * quo) * y = y * (m * quo) /\ r * y = y * r
    BY ProductMonotone
  <2> QED
    BY <2>1
<1>4. 1 * z <= m * z /\ m * z = z * m
  BY <1>1, ProductMonotone
<1>5. z <= f
  <2>1. z * m \in Int /\ x * m \in Int /\ y * (m * quo) \in Int /\ y * r \in Int
    BY <1>1
  <2> QED
    BY <1>1, <1>2, <1>3, <1>4, <2>1
<1>6. quo * m <= r
  OBVIOUS
<1> QED
  BY <1>1, <1>5, <1>6 DEF z

\* Every product that a key or a text is computed with is between the fourth
\* power of UPPER and its negative: with 500 a long long holds them all.
THEOREM ProductsFit == RsaSpec => []NoOverflow
<1>1. RsaInv => NoOverflow
  <2> SUFFICES ASSUME RsaInv PROVE NoOverflow
    OBVIOUS
  <2>1. ASSUME rsa = "inverse", next_remainder # 0
        PROVE  /\ Fits(quotient * coeff_e) /\ Fits(coeff_phi - quotient * coeff_e)
               /\ Fits(quotient * next_remainder)
    <3>1. phi \in Nat /\ phi <= Largest /\ Largest \in Nat
      BY <2>1, Moduli, RsaAssumption DEF RsaInv, DrawInv, Largest
    <3>2. /\ current_remainder \in Nat /\ next_remainder \in Nat \ {0}
          /\ current_remainder <= Largest /\ coeff_phi \in Int /\ coeff_e \in Int
          /\ \/ /\ coeff_phi <= 0 /\ coeff_e >= 0
                /\ coeff_e * current_remainder - coeff_phi * next_remainder = phi
             \/ /\ coeff_phi >= 0 /\ coeff_e <= 0
                /\ coeff_phi * next_remainder - coeff_e * current_remainder = phi
      BY <2>1, <3>1 DEF RsaInv, RsaTypeOK, InverseInv
    <3> DEFINE rem == current_remainder % next_remainder
    <3>3. quotient \in Nat /\ rem \in Nat /\ current_remainder = next_remainder * quotient + rem
      <4>1. current_remainder = next_remainder * (current_remainder \div next_remainder) + rem
        BY <3>2, Division
      <4>2. current_remainder \div next_remainder \in Nat /\ rem \in Nat
        BY <3>2
      <4> QED
        BY <4>1, <4>2 DEF quotient
    <3> HIDE DEF rem
    <3>4. CASE /\ coeff_phi <= 0 /\ coeff_e >= 0
               /\ coeff_e * current_remainder - coeff_phi * next_remainder = phi
      <4>1. /\ -coeff_phi \in Nat /\ coeff_e \in Nat
            /\ coeff_e * current_remainder + (-coeff_phi) * next_remainder = phi
        BY <3>1, <3>2, <3>4
      <4>2. /\ quotient * coeff_e <= phi /\ -coeff_phi + quotient * coeff_e <= phi
            /\ quotient * next_remainder <= current_remainder
        BY <3>1, <3>2, <3>3, <4>1, RoundFits
      <4>3. 0 <= quotient * coeff_e /\ 0 <= quotient * next_remainder
        BY <3>2, <3>3, <4>1
      <4>4. quotient * coeff_e \in Int /\ quotient * next_remainder \in Int
        BY <3>2, <3>3
      <4> QED
        BY <3>1, <3>2, <3>4, <4>2, <4>3, <4>4 DEF Fits
    <3>5. CASE /\ coeff_phi >= 0 /\ coeff_e <= 0
               /\ coeff_phi * next_remainder - coeff_e * current_remainder = phi
      <4>1. /\ coeff_phi \in Nat /\ -coeff_e \in Nat
            /\ (-coeff_e) * current_remainder + coeff_phi * next_remainder = phi
        BY <3>1, <3>2, <3>5
      <4>2. /\ quotient * (-coeff_e) <= phi /\ coeff_phi + quotient * (-coeff_e) <= phi
            /\ quotient * next_remainder <= current_remainder
        BY <3>1, <3>2, <3>3, <4>1, RoundFits
      <4>3. /\ 0 <= quotient * (-coeff_e) /\ 0 <= quotient * next_remainder
            /\ quotient * (-coeff_e) = -(quotient * coeff_e)
        BY <3>2, <3>3, <4>1
      <4>4. quotient * coeff_e \in Int /\ quotient * next_remainder \in Int
        BY <3>2, <3>3
      <4> QED
        BY <3>1, <3>2, <3>5, <4>2, <4>3, <4>4 DEF Fits
    <3> QED
      BY <3>2, <3>4, <3>5
  <2>2. ASSUME rsa \in {"encrypt", "decrypt"}
        PROVE  Fits(power * base) /\ Fits(base * base)
    <3>1. n \in Nat \ {0} /\ n <= UPPER * UPPER /\ UPPER \in Nat
      BY <2>2, Moduli, RsaAssumption DEF RsaInv, DrawInv
    <3>2. base \in -(n - 1) .. (n - 1) /\ power \in -(n - 1) .. (n - 1)
      BY <2>2 DEF RsaInv, PowerInv
    <3>3. n * n <= Largest
      <4> DEFINE u == UPPER * UPPER
      <4>1. u \in Nat /\ Largest = u * u /\ n <= u
        BY <3>1 DEF Largest
      <4> HIDE DEF u
      <4>2. n * n <= u * n /\ n * u <= u * u /\ u * n = n * u
        BY <3>1, <4>1, ProductMonotone
      <4>3. n * n \in Int /\ u * n \in Int /\ u * u \in Int
        BY <3>1, <4>1
      <4> QED
        BY <4>1, <4>2, <4>3
    <3>4. /\ -(n * n) <= power * base /\ power * base <= n * n
          /\ -(n * n) <= base * base /\ base * base <= n * n
      BY <3>1, <3>2, ProductFits
    <3>5. power * base \in Int /\ base * base \in Int /\ n * n \in Int /\ Largest \in Int
      BY <3>1, <3>2 DEF Largest
    <3> QED
      BY <3>3, <3>4, <3>5 DEF Fits
  <2> QED
    BY <2>1, <2>2 DEF NoOverflow
<1> QED
  BY <1>1, RsaInvariance, PTL

-----------------------------------------------------------------------------
(* Powers.                                                                 *)

\* f[k] is the k-th power of x.
PowersOf(f, x, N) ==
  /\ f \in [0 .. N -> Int] /\ f[0] = 1
  /\ \A k \in 1 .. N : f[k] = x * f[k - 1]
Pow(x, k) == (CHOOSE f : PowersOf(f, x, k))[k]

LEMMA PowersExist ==
  ASSUME NEW x \in Int, NEW N \in Nat
  PROVE  \E f : PowersOf(f, x, N)
<1> DEFINE step == [k \in 1 .. N |-> [v \in Int |-> x * v]]
<1>1. step \in [1 .. N -> [Int -> Int]]
  OBVIOUS
<1>2. PICK f : IsLoop(f, N, Int, 1, step)
  <2> HIDE DEF step
  <2>1. 1 \in Int
    OBVIOUS
  <2>2. \E f : IsLoop(f, N, Int, 1, step)
    BY <1>1, <2>1, LoopExists
  <2> QED
    BY <2>2
<1>3. ASSUME NEW k \in 1 .. N PROVE f[k] = x * f[k - 1]
  <2>1. f[k - 1] \in Int /\ f[k] = step[k][f[k - 1]]
    <3> HIDE DEF step
    <3>1. k - 1 \in 0 .. N
      OBVIOUS
    <3> QED
      BY <1>2, <3>1 DEF IsLoop
  <2> QED
    BY <2>1
<1> QED
  BY <1>2, <1>3 DEF IsLoop, PowersOf

LEMMA PowersAgree ==
  ASSUME NEW x \in Int, NEW N \in Nat, NEW M \in Nat, N <= M,
         NEW f, PowersOf(f, x, N), NEW g, PowersOf(g, x, M)
  PROVE  \A k \in 0 .. N : f[k] = g[k]
<1> DEFINE S == {k \in 0 .. N : f[k] = g[k]}
<1>1. 0 \in S
  BY DEF PowersOf
<1>2. ASSUME NEW k \in 0 .. (N - 1), k \in S PROVE k + 1 \in S
  <2>1. k + 1 \in 1 .. N /\ k + 1 \in 1 .. M /\ (k + 1) - 1 = k /\ f[k] = g[k]
    BY <1>2
  <2>2. f[k + 1] = x * f[k] /\ g[k + 1] = x * g[k]
    BY <2>1 DEF PowersOf
  <2> QED
    BY <2>1, <2>2
<1>3. \A k \in 0 .. N : k \in S
  <2> HIDE DEF S
  <2> QED
    BY <1>1, <1>2, UpTo
<1> QED
  BY <1>3

LEMMA PowLaws ==
  ASSUME NEW x \in Int, NEW k \in Nat
  PROVE  /\ Pow(x, k) \in Int /\ Pow(x, 0) = 1
         /\ Pow(x, k + 1) = x * Pow(x, k)
<1> DEFINE f(N) == CHOOSE f : PowersOf(f, x, N)
<1>1. \A N \in Nat : PowersOf(f(N), x, N)
  BY PowersExist
<1>2. \A N \in Nat : Pow(x, N) = f(N)[N]
  BY DEF Pow
<1> HIDE DEF f
<1>3. PowersOf(f(k), x, k) /\ PowersOf(f(k + 1), x, k + 1) /\ PowersOf(f(0), x, 0)
  BY <1>1
<1>4. f(k)[k] = f(k + 1)[k]
  BY <1>3, PowersAgree
<1>5. f(k + 1)[k + 1] = x * f(k + 1)[k] /\ f(k)[k] \in Int /\ f(0)[0] = 1
  <2>1. k + 1 \in 1 .. (k + 1) /\ (k + 1) - 1 = k /\ k \in 0 .. k
    OBVIOUS
  <2> QED
    BY <1>3, <2>1 DEF PowersOf
<1> QED
  BY <1>2, <1>4, <1>5

LEMMA PowAdd ==
  ASSUME NEW x \in Int, NEW j \in Nat, NEW k \in Nat
  PROVE  Pow(x, j + k) = Pow(x, j) * Pow(x, k)
<1> DEFINE S == {m \in Nat : Pow(x, j + m) = Pow(x, j) * Pow(x, m)}
<1>1. 0 \in S
  BY PowLaws
<1>2. ASSUME NEW m \in Nat, m \in S PROVE m + 1 \in S
  <2>1. Pow(x, (j + m) + 1) = x * Pow(x, j + m) /\ Pow(x, m + 1) = x * Pow(x, m)
        /\ Pow(x, j) \in Int /\ Pow(x, m) \in Int
    BY PowLaws
  <2>2. Pow(x, j + m) = Pow(x, j) * Pow(x, m) /\ (j + m) + 1 = j + (m + 1)
    BY <1>2
  <2> DEFINE u == Pow(x, j)  v == Pow(x, m)
  <2> HIDE DEF u, v
  <2>3. u \in Int /\ v \in Int => x * (u * v) = u * (x * v)
    OBVIOUS
  <2>4. Pow(x, j + (m + 1)) = Pow(x, j) * Pow(x, m + 1)
    BY <2>1, <2>2, <2>3 DEF u, v
  <2> QED
    BY <2>4
<1>3. Nat \subseteq S
  <2> HIDE DEF S
  <2> QED
    BY <1>1, <1>2, Induction
<1> QED
  BY <1>3

LEMMA PowOfProduct ==
  ASSUME NEW x \in Int, NEW y \in Int, NEW k \in Nat
  PROVE  Pow(x * y, k) = Pow(x, k) * Pow(y, k)
<1> DEFINE S == {m \in Nat : Pow(x * y, m) = Pow(x, m) * Pow(y, m)}
<1>0. x * y \in Int
  OBVIOUS
<1>1. 0 \in S
  BY <1>0, PowLaws
<1>2. ASSUME NEW m \in Nat, m \in S PROVE m + 1 \in S
  <2>1. /\ Pow(x * y, m + 1) = (x * y) * Pow(x * y, m)
        /\ Pow(x, m + 1) = x * Pow(x, m) /\ Pow(y, m + 1) = y * Pow(y, m)
        /\ Pow(x, m) \in Int /\ Pow(y, m) \in Int
    BY <1>0, PowLaws
  <2>2. Pow(x * y, m) = Pow(x, m) * Pow(y, m)
    BY <1>2
  <2> DEFINE u == Pow(x, m)  v == Pow(y, m)
  <2> HIDE DEF u, v
  <2>3. u \in Int /\ v \in Int => (x * y) * (u * v) = (x * u) * (y * v)
    OBVIOUS
  <2>4. Pow(x * y, m + 1) = Pow(x, m + 1) * Pow(y, m + 1)
    BY <2>1, <2>2, <2>3 DEF u, v
  <2> QED
    BY <2>4
<1>3. Nat \subseteq S
  <2> HIDE DEF S
  <2> QED
    BY <1>1, <1>2, Induction
<1> QED
  BY <1>3

LEMMA PowOfPower ==
  ASSUME NEW x \in Int, NEW j \in Nat, NEW k \in Nat
  PROVE  Pow(Pow(x, j), k) = Pow(x, j * k)
<1> DEFINE S == {m \in Nat : Pow(Pow(x, j), m) = Pow(x, j * m)}
<1>0. Pow(x, j) \in Int
  BY PowLaws
<1>1. 0 \in S
  <2>1. j * 0 = 0
    OBVIOUS
  <2> QED
    BY <1>0, <2>1, PowLaws
<1>2. ASSUME NEW m \in Nat, m \in S PROVE m + 1 \in S
  <2>1. Pow(Pow(x, j), m + 1) = Pow(x, j) * Pow(Pow(x, j), m)
    BY <1>0, PowLaws
  <2>2. Pow(Pow(x, j), m) = Pow(x, j * m) /\ j * (m + 1) = j + j * m /\ j * m \in Nat
    BY <1>2
  <2>3. Pow(x, j + j * m) = Pow(x, j) * Pow(x, j * m)
    BY <2>2, PowAdd
  <2>4. Pow(Pow(x, j), m + 1) = Pow(x, j * (m + 1))
    BY <2>1, <2>2, <2>3
  <2> QED
    BY <2>4
<1>3. Nat \subseteq S
  <2> HIDE DEF S
  <2> QED
    BY <1>1, <1>2, Induction
<1> QED
  BY <1>3

LEMMA PowOfSmall ==
  ASSUME NEW x \in Int
  PROVE  /\ Pow(x, 1) = x /\ Pow(x, 2) = x * x
         /\ \A k \in Nat : Pow(1, k) = 1
<1>1. Pow(x, 0) = 1 /\ Pow(x, 0 + 1) = x * Pow(x, 0) /\ Pow(x, 1 + 1) = x * Pow(x, 1)
  BY PowLaws
<1>2. Pow(x, 1) = x
  BY <1>1
<1> DEFINE S == {m \in Nat : Pow(1, m) = 1}
<1>3. 0 \in S
  BY PowLaws
<1>4. ASSUME NEW m \in Nat, m \in S PROVE m + 1 \in S
  <2>1. Pow(1, m + 1) = 1 * Pow(1, m)
    BY PowLaws
  <2> QED
    BY <1>4, <2>1
<1>5. Nat \subseteq S
  <2> HIDE DEF S
  <2> QED
    BY <1>3, <1>4, Induction
<1> QED
  BY <1>1, <1>2, <1>5

\* Squares, and the sign of an odd power.
LEMMA PowHalved ==
  ASSUME NEW x \in Int, NEW k \in Nat
  PROVE  /\ Pow(x, 2 * k) = Pow(x * x, k)
         /\ Pow(x, 2 * k + 1) = x * Pow(x * x, k)
<1>1. Pow(x, 2) = x * x /\ Pow(Pow(x, 2), k) = Pow(x, 2 * k)
  BY PowOfSmall, PowOfPower
<1>2. 2 * k \in Nat /\ Pow(x, 2 * k + 1) = x * Pow(x, 2 * k)
  BY PowLaws
<1> QED
  BY <1>1, <1>2

LEMMA OddPower ==
  ASSUME NEW x \in Int, NEW k \in Nat
  PROVE  Pow(-x, 2 * k + 1) = -Pow(x, 2 * k + 1)
<1>1. -x \in Int /\ (-x) * (-x) = x * x /\ x * x \in Int
  OBVIOUS
<1>2. Pow(-x, 2 * k + 1) = (-x) * Pow(x * x, k) /\ Pow(x, 2 * k + 1) = x * Pow(x * x, k)
  BY <1>1, PowHalved
<1>3. Pow(x * x, k) \in Int
  BY <1>1, PowLaws
<1> DEFINE u == Pow(x * x, k)
<1> HIDE DEF u
<1>4. u \in Int => (-x) * u = -(x * u)
  OBVIOUS
<1> QED
  BY <1>2, <1>3, <1>4 DEF u
-----------------------------------------------------------------------------
(* Divisors.                                                               *)

Divides(k, x) == \E m \in Int : x = k * m
SameMod(k, x, y) == Divides(k, x - y)
Prime(x) == x \in Nat /\ x > 1 /\ \A k \in 2 .. (x - 1) : ~Divides(k, x)

LEMMA Divided ==
  ASSUME NEW k \in Int, NEW x \in Int, NEW y \in Int, Divides(k, x)
  PROVE  /\ Divides(k, y) => Divides(k, x + y) /\ Divides(k, x - y)
         /\ Divides(k, x * y) /\ Divides(k, y * x) /\ Divides(k, -x)
<1>1. PICK m \in Int : x = k * m
  BY DEF Divides
<1>2. ASSUME Divides(k, y) PROVE Divides(k, x + y) /\ Divides(k, x - y)
  <2>1. PICK j \in Int : y = k * j
    BY <1>2 DEF Divides
  <2>2. x + y = k * (m + j) /\ x - y = k * (m - j) /\ m + j \in Int /\ m - j \in Int
    BY <1>1, <2>1
  <2> QED
    BY <2>2 DEF Divides
<1>3. /\ x * y = k * (m * y) /\ y * x = k * (m * y) /\ m * y \in Int
      /\ -x = k * (-m) /\ -m \in Int
  BY <1>1
<1> QED
  BY <1>2, <1>3 DEF Divides

LEMMA DividesMultiple ==
  ASSUME NEW k \in Int, NEW m \in Int
  PROVE  Divides(k, k * m) /\ Divides(k, k) /\ Divides(k, 0) /\ Divides(1, m)
<1>1. k = k * 1 /\ 0 = k * 0 /\ m = 1 * m /\ 1 \in Int /\ 0 \in Int
  OBVIOUS
<1> QED
  BY <1>1 DEF Divides

LEMMA ModLaws ==
  ASSUME NEW k \in Int, NEW x \in Int, NEW y \in Int
  PROVE  /\ SameMod(k, x, x)
         /\ SameMod(k, x, y) => SameMod(k, y, x)
         /\ \A z \in Int : SameMod(k, x, y) /\ SameMod(k, y, z) => SameMod(k, x, z)
<1>1. SameMod(k, x, x)
  <2>1. x - x = 0
    OBVIOUS
  <2> QED
    BY <2>1, DividesMultiple DEF SameMod
<1>2. ASSUME SameMod(k, x, y) PROVE SameMod(k, y, x)
  <2>1. x - y \in Int /\ -(x - y) = y - x
    OBVIOUS
  <2>2. Divides(k, x - y)
    BY <1>2 DEF SameMod
  <2>3. Divides(k, -(x - y))
    BY <2>1, <2>2, Divided
  <2> QED
    BY <2>1, <2>3 DEF SameMod
<1>3. ASSUME NEW z \in Int, SameMod(k, x, y), SameMod(k, y, z) PROVE SameMod(k, x, z)
  <2>1. x - y \in Int /\ y - z \in Int /\ (x - y) + (y - z) = x - z
    OBVIOUS
  <2>2. Divides(k, x - y) /\ Divides(k, y - z)
    BY <1>3 DEF SameMod
  <2>3. Divides(k, (x - y) + (y - z))
    BY <2>1, <2>2, Divided
  <2> QED
    BY <2>1, <2>3 DEF SameMod
<1> QED
  BY <1>1, <1>2, <1>3

LEMMA ModTimes ==
  ASSUME NEW k \in Int, NEW x \in Int, NEW y \in Int, NEW z \in Int, SameMod(k, x, y)
  PROVE  SameMod(k, z * x, z * y) /\ SameMod(k, x * z, y * z)
<1>1. x - y \in Int /\ (x - y) * z = x * z - y * z /\ z * (x - y) = z * x - z * y
  OBVIOUS
<1>2. Divides(k, x - y)
  BY DEF SameMod
<1>3. Divides(k, (x - y) * z) /\ Divides(k, z * (x - y))
  BY <1>1, <1>2, Divided
<1> QED
  BY <1>1, <1>3 DEF SameMod

LEMMA ModPower ==
  ASSUME NEW k \in Int, NEW x \in Int, NEW y \in Int, SameMod(k, x, y), NEW j \in Nat
  PROVE  SameMod(k, Pow(x, j), Pow(y, j))
<1> DEFINE S == {m \in Nat : SameMod(k, Pow(x, m), Pow(y, m))}
<1>1. 0 \in S
  <2>1. Pow(x, 0) = 1 /\ Pow(y, 0) = 1 /\ 1 \in Int
    BY PowLaws
  <2>2. SameMod(k, 1, 1)
    BY <2>1, ModLaws
  <2> QED
    BY <2>1, <2>2
<1>2. ASSUME NEW m \in Nat, m \in S PROVE m + 1 \in S
  <2>1. /\ Pow(x, m + 1) = x * Pow(x, m) /\ Pow(y, m + 1) = y * Pow(y, m)
        /\ Pow(x, m) \in Int /\ Pow(y, m) \in Int
    BY PowLaws
  <2>2. SameMod(k, Pow(x, m), Pow(y, m))
    BY <1>2
  <2>3. SameMod(k, x * Pow(x, m), x * Pow(y, m)) /\ SameMod(k, x * Pow(y, m), y * Pow(y, m))
    BY <2>1, <2>2, ModTimes
  <2>4. x * Pow(x, m) \in Int /\ x * Pow(y, m) \in Int /\ y * Pow(y, m) \in Int
    BY <2>1
  <2>5. SameMod(k, x * Pow(x, m), y * Pow(y, m))
    BY <2>3, <2>4, ModLaws
  <2>6. SameMod(k, Pow(x, m + 1), Pow(y, m + 1))
    BY <2>1, <2>5
  <2> QED
    BY <2>6
<1>3. Nat \subseteq S
  <2> HIDE DEF S
  <2> QED
    BY <1>1, <1>2, Induction
<1> QED
  BY <1>3

\* A number that is smaller than k and that k divides.
LEMMA SmallMultiple ==
  ASSUME NEW k \in Nat \ {0}, NEW x \in -(k - 1) .. (k - 1), Divides(k, x)
  PROVE  x = 0
<1>1. PICK m \in Int : x = k * m
  BY DEF Divides
<1>2. CASE m >= 1
  <2>1. k * (m - 1) >= 0
    BY <1>2
  <2>2. k * (m - 1) = k * m - k
    OBVIOUS
  <2>3. k * m \in Int
    OBVIOUS
  <2> QED
    BY <1>1, <2>1, <2>2, <2>3
<1>3. CASE m <= -1
  <2>1. k * (-1 - m) >= 0
    BY <1>3
  <2>2. k * (-1 - m) = -k - k * m
    OBVIOUS
  <2>3. k * m \in Int
    OBVIOUS
  <2> QED
    BY <1>1, <2>1, <2>2, <2>3
<1>4. CASE m = 0
  BY <1>1, <1>4
<1> QED
  BY <1>2, <1>3, <1>4

LEMMA Remainder ==
  ASSUME NEW k \in Nat \ {0}, NEW x \in Int
  PROVE  x % k \in 0 .. (k - 1) /\ SameMod(k, x, x % k) /\ SameMod(k, x % k, x)
<1>1. x % k \in 0 .. (k - 1) /\ x \div k \in Int
  OBVIOUS
<1>2. x = k * (x \div k) + (x % k)
  BY Z3
<1>3. x - (x % k) = k * (x \div k) /\ x % k \in Int
  BY <1>1, <1>2
<1>4. SameMod(k, x, x % k)
  BY <1>1, <1>3 DEF SameMod, Divides
<1> QED
  BY <1>1, <1>3, <1>4, ModLaws

\* A divisor of a product with a prime number that does not divide the one
\* factor divides the other.
LEMMA PrimeFactor ==
  ASSUME NEW k, Prime(k), NEW x \in Int, NEW y \in Int, ~Divides(k, x), Divides(k, x * y)
  PROVE  Divides(k, y)
<1> DEFINE T == {t \in Nat \ {0} : Divides(k, t * y)}
<1>1. k \in Nat /\ k > 1 /\ \A j \in 2 .. (k - 1) : ~Divides(j, k)
  BY DEF Prime
<1>0. k \in Int /\ Divides(k, k * y)
  <2>1. k \in Int
    BY <1>1
  <2> QED
    BY ONLY <2>1, y \in Int, DividesMultiple
<1>2. k \in T
  BY <1>0, <1>1
<1>3. PICK t \in T : \A s \in T : t <= s
  <2> HIDE DEF T
  <2>1. T # {}
    BY <1>2
  <2>2. T \subseteq Nat
    BY DEF T
  <2> QED
    BY <2>1, <2>2, LeastNumber
<1>4. t \in Nat \ {0} /\ Divides(k, t * y) /\ t <= k
  BY <1>2, <1>3
\* What is divided with y by k is a multiple of t.
<1>5. ASSUME NEW z \in Int, Divides(k, z * y) PROVE Divides(t, z)
  <2>1. z % t \in 0 .. (t - 1) /\ z \div t \in Int
    BY <1>4
  <2>2. z = t * (z \div t) + (z % t)
    BY <1>4, Z3
  <2> DEFINE u == z \div t  r == z % t
  <2> HIDE DEF u, r
  <2>3. r * y = z * y - (t * y) * u /\ z * y \in Int /\ t * y \in Int /\ (t * y) * u \in Int
    <3>1. u \in Int /\ r \in Int /\ t \in Int /\ z = t * u + r
      BY <1>4, <2>1, <2>2 DEF u, r
    <3>2. r * y = (z - t * u) * y
      BY <3>1
    <3>3. (z - t * u) * y = z * y - (t * y) * u
      BY <3>1
    <3> QED
      BY <3>1, <3>2, <3>3
  <2>4. Divides(k, (t * y) * u)
    <3>1. u \in Int /\ t * y \in Int /\ Divides(k, t * y)
      BY <1>4, <2>1, <2>3 DEF u
    <3> QED
      BY ONLY <1>0, <3>1, Divided
  <2>5. Divides(k, r * y)
    <3>1. Divides(k, z * y - (t * y) * u)
      BY ONLY <1>0, <1>5, <2>3, <2>4, Divided
    <3> QED
      BY <2>3, <3>1
  <2>6. r = 0
    <3>1. SUFFICES ASSUME r # 0 PROVE FALSE
      OBVIOUS
    <3>2. r \in Nat \ {0} /\ r < t
      BY <1>4, <2>1, <3>1 DEF r
    <3>3. r \in T
      BY <2>5, <3>2
    <3> QED
      BY <1>3, <1>4, <3>2, <3>3
  <2>7. z = t * u /\ u \in Int
    BY <1>4, <2>1, <2>2, <2>6 DEF u, r
  <2> QED
    BY <2>7 DEF Divides
<1> HIDE DEF T
<1>6. Divides(t, k) /\ Divides(t, x)
  <2> QED
    BY <1>0, <1>5
<1>7. t = 1
  <2>1. t # k
    BY <1>6
  <2>2. t \notin 2 .. (k - 1)
    BY <1>1, <1>6
  <2> QED
    BY <1>1, <1>4, <2>1, <2>2
<1> QED
  BY <1>4, <1>7

LEMMA PrimeIs ==
  ASSUME NEW k, Prime(k)
  PROVE  k \in Nat \ {0} /\ k \in Int /\ k - 1 \in Nat \ {0} /\ ~Divides(k, 1)
<1>1. k \in Nat /\ k > 1
  BY DEF Prime
<1>2. 1 \in -(k - 1) .. (k - 1) /\ k \in Nat \ {0}
  BY <1>1
<1>3. ~Divides(k, 1)
  BY <1>2, SmallMultiple
<1> QED
  BY <1>1, <1>3

LEMMA Cancelled ==
  ASSUME NEW k, Prime(k), NEW x \in Int, ~Divides(k, x), NEW y \in Int, NEW z \in Int,
         SameMod(k, x * y, x * z)
  PROVE  SameMod(k, y, z)
<1>1. x * y - x * z = x * (y - z) /\ y - z \in Int
  OBVIOUS
<1>2. Divides(k, x * (y - z))
  BY <1>1 DEF SameMod
<1>3. Divides(k, y - z)
  BY <1>1, <1>2, PrimeFactor
<1> QED
  BY <1>3 DEF SameMod

LEMMA PrimePower ==
  ASSUME NEW k, Prime(k), NEW x \in Int, ~Divides(k, x), NEW i \in Nat
  PROVE  ~Divides(k, Pow(x, i))
<1> DEFINE S == {m \in Nat : ~Divides(k, Pow(x, m))}
<1>1. 0 \in S
  BY PowLaws, PrimeIs
<1>2. ASSUME NEW m \in Nat, m \in S PROVE m + 1 \in S
  <2>1. Pow(x, m) \in Int /\ Pow(x, m + 1) = x * Pow(x, m)
    BY PowLaws
  <2>2. ~Divides(k, Pow(x, m))
    BY <1>2
  <2>3. ~Divides(k, x * Pow(x, m))
    BY <2>1, <2>2, PrimeFactor
  <2> QED
    BY <2>1, <2>3
<1>3. Nat \subseteq S
  <2> HIDE DEF S
  <2> QED
    BY <1>1, <1>2, Induction
<1> QED
  BY <1>3

LEMMA SameResidue ==
  ASSUME NEW k \in Nat \ {0}, NEW x \in 0 .. (k - 1), NEW y \in 0 .. (k - 1), SameMod(k, x, y)
  PROVE  x = y
<1>1. x - y \in -(k - 1) .. (k - 1)
  OBVIOUS
<1>2. x - y = 0
  BY <1>1, SmallMultiple DEF SameMod
<1> QED
  BY <1>2

\* The remainder of what k does not divide.
LEMMA Residue ==
  ASSUME NEW k \in Nat \ {0}, NEW x \in Int, ~Divides(k, x)
  PROVE  x % k \in 1 .. (k - 1) /\ SameMod(k, x, x % k) /\ SameMod(k, x % k, x)
<1>1. x % k \in 0 .. (k - 1) /\ SameMod(k, x, x % k) /\ SameMod(k, x % k, x)
  BY Remainder
<1>2. x % k # 0
  <2>1. SUFFICES ASSUME x % k = 0 PROVE FALSE
    OBVIOUS
  <2>2. SameMod(k, x, 0) /\ x - 0 = x
    BY <1>1, <2>1
  <2> QED
    BY <2>2 DEF SameMod
<1> QED
  BY <1>1, <1>2

\* Equal powers differ by a power that is 1.
LEMMA PowersMeet ==
  ASSUME NEW k, Prime(k), NEW x \in Int, ~Divides(k, x), NEW y \in Int, ~Divides(k, y),
         NEW i \in Nat, NEW j \in Nat, i < j, SameMod(k, Pow(x, i) * y, Pow(x, j) * y)
  PROVE  SameMod(k, Pow(x, j - i), 1)
<1>1. j - i \in Nat /\ i + (j - i) = j
  OBVIOUS
<1>2. Pow(x, j) = Pow(x, i) * Pow(x, j - i) /\ Pow(x, i) \in Int /\ Pow(x, j - i) \in Int
  <2>1. Pow(x, i + (j - i)) = Pow(x, i) * Pow(x, j - i)
    BY ONLY <1>1, x \in Int, i \in Nat, PowAdd
  <2>2. Pow(x, i) \in Int /\ Pow(x, j - i) \in Int
    BY ONLY <1>1, x \in Int, i \in Nat, PowLaws
  <2> QED
    BY <1>1, <2>1, <2>2
<1> DEFINE u == Pow(x, i)  v == Pow(x, j - i)
<1>3. u \in Int /\ v \in Int /\ ~Divides(k, u)
  BY <1>2, PrimePower
<1>4. SameMod(k, u * y, (u * v) * y)
  BY <1>2
<1> HIDE DEF u, v
<1>5. u * y = y * (u * 1) /\ (u * v) * y = y * (u * v) /\ u * 1 \in Int /\ u * v \in Int
  BY <1>3
<1>6. SameMod(k, y * (u * 1), y * (u * v))
  BY <1>4, <1>5
<1>7. SameMod(k, u * 1, u * v)
  BY ONLY <1>5, <1>6, Prime(k), y \in Int, ~Divides(k, y), Cancelled
<1>8. 1 \in Int
  OBVIOUS
<1>9. SameMod(k, 1, v)
  BY ONLY <1>3, <1>7, <1>8, Prime(k), Cancelled
<1>10. SameMod(k, v, 1)
  BY <1>3, <1>8, <1>9, PrimeIs, ModLaws
<1> QED
  BY <1>10 DEF v

\* Some power of what a prime number does not divide is 1.
LEMMA OrderExists ==
  ASSUME NEW k, Prime(k), NEW x \in Int, ~Divides(k, x)
  PROVE  \E j \in Nat \ {0} : SameMod(k, Pow(x, j), 1)
<1> DEFINE f == [i \in 0 .. (k - 1) |-> Pow(x, i) % k]
<1>1. k \in Nat \ {0} /\ k \in Int /\ k - 1 \in Int /\ k - 1 >= 1
  BY PrimeIs
<1>2. f \in [0 .. (k - 1) -> 1 .. (k - 1)]
  <2> SUFFICES ASSUME NEW i \in 0 .. (k - 1) PROVE Pow(x, i) % k \in 1 .. (k - 1)
    OBVIOUS
  <2>0. i \in Nat
    BY <1>1
  <2>1. Pow(x, i) \in Int /\ ~Divides(k, Pow(x, i))
    BY <2>0, PowLaws, PrimePower
  <2> QED
    BY <1>1, <2>1, Residue
<1>3. \A i \in 0 .. (k - 1) : f[i] = Pow(x, i) % k
  OBVIOUS
<1> HIDE DEF f
<1>4. /\ IsFiniteSet(0 .. (k - 1)) /\ Cardinality(0 .. (k - 1)) = k
      /\ IsFiniteSet(1 .. (k - 1)) /\ Cardinality(1 .. (k - 1)) = k - 1
  <2>1. 0 \in Int /\ 1 \in Int
    OBVIOUS
  <2>2. /\ IsFiniteSet(0 .. (k - 1)) /\ Cardinality(0 .. (k - 1)) = (k - 1) - 0 + 1
        /\ IsFiniteSet(1 .. (k - 1)) /\ Cardinality(1 .. (k - 1)) = (k - 1) - 1 + 1
    BY <1>1, <2>1, FS_Interval
  <2> QED
    BY <1>1, <2>2
<1>5. \E i, j \in 0 .. (k - 1) : i # j /\ f[i] = f[j]
  <2>1. Cardinality(1 .. (k - 1)) < Cardinality(0 .. (k - 1))
    BY <1>1, <1>4
  <2> QED
    BY <1>2, <1>4, <2>1, FS_PigeonHole
<1>6. PICK i \in 0 .. (k - 1), j \in 0 .. (k - 1) : i < j /\ f[i] = f[j]
  BY <1>1, <1>5
<1>7. SameMod(k, Pow(x, i) * 1, Pow(x, j) * 1)
  <2>1. i \in Nat /\ j \in Nat /\ Pow(x, i) % k = Pow(x, j) % k
    BY <1>3, <1>6
  <2>2. Pow(x, i) \in Int /\ Pow(x, j) \in Int
    BY <2>1, PowLaws
  <2>3. /\ SameMod(k, Pow(x, i), Pow(x, i) % k) /\ SameMod(k, Pow(x, j) % k, Pow(x, j))
        /\ Pow(x, i) % k \in Int
    <3>1. SameMod(k, Pow(x, i), Pow(x, i) % k) /\ SameMod(k, Pow(x, j) % k, Pow(x, j))
      BY ONLY <1>1, <2>2, Remainder
    <3> QED
      BY <1>1, <2>2, <3>1
  <2>4. SameMod(k, Pow(x, i), Pow(x, j))
    BY <1>1, <2>1, <2>2, <2>3, ModLaws
  <2>5. Pow(x, i) * 1 = Pow(x, i) /\ Pow(x, j) * 1 = Pow(x, j)
    BY <2>2
  <2> QED
    BY <2>4, <2>5
<1>8. i \in Nat /\ j \in Nat /\ 1 \in Int /\ j - i \in Nat \ {0} /\ ~Divides(k, 1)
  BY <1>6, PrimeIs
<1>9. SameMod(k, Pow(x, j - i), 1)
  BY <1>6, <1>7, <1>8, PowersMeet
<1> QED
  BY <1>8, <1>9

-----------------------------------------------------------------------------
(* Fermat's theorem.  The residues fall into orbits: what one of them is    *)
(* multiplied to by the powers of x.  All orbits have the size of the least *)
(* power that is 1, which therefore divides the number of residues.         *)

IsOrder(k, x, N) ==
  /\ N \in Nat \ {0} /\ SameMod(k, Pow(x, N), 1)
  /\ \A j \in 1 .. (N - 1) : ~SameMod(k, Pow(x, j), 1)
Orbit(k, x, y) == {z \in 1 .. (k - 1) : \E i \in Nat : SameMod(k, z, Pow(x, i) * y)}
Stable(k, x, S) ==
  /\ S \subseteq 1 .. (k - 1)
  /\ \A y \in S, z \in 1 .. (k - 1) : SameMod(k, z, x * y) => z \in S

LEMMA LeastOrder ==
  ASSUME NEW k, Prime(k), NEW x \in Int, ~Divides(k, x)
  PROVE  \E N : IsOrder(k, x, N)
<1> DEFINE T == {j \in Nat \ {0} : SameMod(k, Pow(x, j), 1)}
<1>1. T # {} /\ T \subseteq Nat
  BY OrderExists
<1>2. \A j \in T : j \in Nat \ {0} /\ SameMod(k, Pow(x, j), 1)
  OBVIOUS
<1>3. \A j \in Nat \ {0} : SameMod(k, Pow(x, j), 1) => j \in T
  OBVIOUS
<1> HIDE DEF T
<1>4. PICK N \in T : \A j \in T : N <= j
  BY <1>1, LeastNumber
<1>5. ASSUME NEW j \in 1 .. (N - 1) PROVE ~SameMod(k, Pow(x, j), 1)
  <2>1. j \in Nat \ {0} /\ N \in Nat /\ j < N
    BY <1>2, <1>4
  <2> QED
    BY <1>3, <1>4, <2>1
<1> QED
  BY <1>2, <1>4, <1>5 DEF IsOrder

LEMMA NoMultiple ==
  ASSUME NEW k \in Nat \ {0}, NEW y \in 1 .. (k - 1)
  PROVE  ~Divides(k, y) /\ y \in Int
<1>1. y \in -(k - 1) .. (k - 1) /\ y # 0
  OBVIOUS
<1> QED
  BY <1>1, SmallMultiple

\* The powers of x return after N of them.
LEMMA PowersReturn ==
  ASSUME NEW k \in Int, NEW x \in Int, NEW N, IsOrder(k, x, N), NEW y \in Int,
         NEW r \in Nat, NEW m \in Nat
  PROVE  SameMod(k, Pow(x, N * m + r) * y, Pow(x, r) * y)
<1>1. N \in Nat /\ SameMod(k, Pow(x, N), 1) /\ N * m \in Nat
  <2>1. N \in Nat /\ SameMod(k, Pow(x, N), 1)
    BY DEF IsOrder
  <2> QED
    BY <2>1
<1>2. Pow(x, N) \in Int /\ 1 \in Int
  BY <1>1, PowLaws
<1>3. SameMod(k, Pow(Pow(x, N), m), Pow(1, m))
  BY ONLY <1>1, <1>2, k \in Int, m \in Nat, ModPower
<1>4. Pow(Pow(x, N), m) = Pow(x, N * m) /\ Pow(1, m) = 1
  BY <1>1, PowOfPower, PowOfSmall
<1>5. Pow(x, N * m + r) = Pow(x, N * m) * Pow(x, r)
  BY ONLY <1>1, x \in Int, r \in Nat, PowAdd
<1>6. Pow(x, N * m) \in Int /\ Pow(x, r) \in Int
  BY ONLY <1>1, x \in Int, r \in Nat, PowLaws
<1> DEFINE u == Pow(x, N * m)  v == Pow(x, r)
<1>7. u \in Int /\ v \in Int /\ v * y \in Int /\ SameMod(k, u, 1)
  <2>1. v \in Int
    BY <1>6
  <2> HIDE DEF v
  <2>2. v * y \in Int
    BY <2>1
  <2> QED
    BY <1>3, <1>4, <1>6, <2>1, <2>2
<1>8. Pow(x, N * m + r) = u * v
  BY <1>5
<1> HIDE DEF u, v
<1>9. SameMod(k, u * (v * y), 1 * (v * y))
  BY ONLY <1>2, <1>7, k \in Int, ModTimes
<1>10. u * (v * y) = (u * v) * y /\ 1 * (v * y) = v * y
  BY <1>7
<1> QED
  BY <1>8, <1>9, <1>10 DEF v

LEMMA OrbitSize ==
  ASSUME NEW k, Prime(k), NEW x \in Int, ~Divides(k, x), NEW N, IsOrder(k, x, N),
         NEW y \in 1 .. (k - 1)
  PROVE  IsFiniteSet(Orbit(k, x, y)) /\ Cardinality(Orbit(k, x, y)) = N
<1>1. k \in Nat \ {0} /\ k \in Int /\ y \in Int /\ ~Divides(k, y)
  <2>1. k \in Nat \ {0} /\ k \in Int
    BY PrimeIs
  <2> QED
    BY <2>1, NoMultiple
<1>2. N \in Nat \ {0} /\ \A j \in 1 .. (N - 1) : ~SameMod(k, Pow(x, j), 1)
  BY DEF IsOrder
<1> DEFINE D == 0 .. (N - 1)
           f == [i \in D |-> (Pow(x, i) * y) % k]
<1>3. ASSUME NEW i \in Nat
      PROVE  Pow(x, i) * y \in Int /\ ~Divides(k, Pow(x, i) * y)
  <2>1. Pow(x, i) \in Int /\ ~Divides(k, Pow(x, i))
    BY PowLaws, PrimePower
  <2>2. Pow(x, i) * y \in Int
    BY <1>1, <2>1
  <2>3. ~Divides(k, Pow(x, i) * y)
    BY ONLY <1>1, <2>1, Prime(k), PrimeFactor
  <2> QED
    BY <2>2, <2>3
<1>4. ASSUME NEW i \in D
      PROVE  /\ i \in Nat /\ f[i] \in 1 .. (k - 1)
             /\ SameMod(k, f[i], Pow(x, i) * y) /\ SameMod(k, Pow(x, i) * y, f[i])
  <2>1. i \in Nat /\ f[i] = (Pow(x, i) * y) % k
    BY <1>2
  <2> HIDE DEF f
  <2>2. Pow(x, i) * y \in Int /\ ~Divides(k, Pow(x, i) * y)
    BY <1>3, <2>1
  <2>3. /\ (Pow(x, i) * y) % k \in 1 .. (k - 1)
        /\ SameMod(k, Pow(x, i) * y, (Pow(x, i) * y) % k)
        /\ SameMod(k, (Pow(x, i) * y) % k, Pow(x, i) * y)
    BY ONLY <1>1, <2>2, Residue
  <2> QED
    BY <2>1, <2>3
<1>5. f \in [D -> Orbit(k, x, y)]
  <2>1. \A i \in D : f[i] \in Orbit(k, x, y)
    BY <1>4 DEF Orbit
  <2> QED
    BY <2>1
<1>6. \A i, j \in D : i < j => f[i] # f[j]
  <2> SUFFICES ASSUME NEW i \in D, NEW j \in D, i < j, f[i] = f[j] PROVE FALSE
    OBVIOUS
  <2> HIDE DEF f
  <2>1. /\ i \in Nat /\ j \in Nat /\ f[j] \in Int
        /\ SameMod(k, Pow(x, i) * y, f[j]) /\ SameMod(k, f[j], Pow(x, j) * y)
    BY <1>4
  <2>2. Pow(x, i) * y \in Int /\ Pow(x, j) * y \in Int
    BY <1>3, <2>1
  <2>3. SameMod(k, Pow(x, i) * y, Pow(x, j) * y)
    BY ONLY <1>1, <2>1, <2>2, ModLaws
  <2>4. SameMod(k, Pow(x, j - i), 1)
    BY <1>1, <2>1, <2>3, PowersMeet
  <2>5. j - i \in 1 .. (N - 1)
    BY <1>2
  <2> QED
    BY <1>2, <2>4, <2>5
<1>7. \A z \in Orbit(k, x, y) : \E i \in D : f[i] = z
  <2> SUFFICES ASSUME NEW z \in Orbit(k, x, y) PROVE \E i \in D : f[i] = z
    OBVIOUS
  <2>1. z \in 1 .. (k - 1)
    BY DEF Orbit
  <2>2. PICK i \in Nat : SameMod(k, z, Pow(x, i) * y)
    BY DEF Orbit
  <2> DEFINE r == i % N  m == i \div N
  <2>3. r \in D /\ r \in Nat /\ m \in Nat /\ i = N * m + r
    <3>1. i % N \in 0 .. (N - 1) /\ i \div N \in Nat
      BY <1>2
    <3>2. i = N * (i \div N) + (i % N)
      BY <1>2, Z3
    <3> QED
      BY <3>1, <3>2
  <2> HIDE DEF r, m, f
  <2>4. SameMod(k, Pow(x, i) * y, Pow(x, r) * y)
    BY ONLY <1>1, <2>3, x \in Int, IsOrder(k, x, N), PowersReturn
  <2>5. SameMod(k, Pow(x, r) * y, f[r]) /\ f[r] \in 1 .. (k - 1)
    BY <1>4, <2>3
  <2>6. Pow(x, i) * y \in Int /\ Pow(x, r) * y \in Int
    BY <1>3, <2>3
  <2>7. z \in Int /\ f[r] \in Int
    BY <2>1, <2>5
  <2>8. SameMod(k, z, f[r])
    BY ONLY <1>1, <2>2, <2>4, <2>5, <2>6, <2>7, ModLaws
  <2>9. z \in 0 .. (k - 1) /\ f[r] \in 0 .. (k - 1)
    BY <2>1, <2>5
  <2>10. z = f[r]
    BY ONLY <1>1, <2>8, <2>9, SameResidue
  <2> QED
    BY <2>3, <2>10
<1>8. IsFiniteSet(D) /\ Cardinality(D) = N /\ D \subseteq Nat
  <2>1. 0 \in Int /\ N - 1 \in Int /\ (N - 1) - 0 + 1 = N /\ ~(0 > N - 1)
    BY <1>2
  <2>2. IsFiniteSet(D) /\ Cardinality(D) = (N - 1) - 0 + 1
    BY <2>1, FS_Interval
  <2> QED
    BY <1>2, <2>1, <2>2
<1> HIDE DEF f, D
<1>9. f \in Bijection(D, Orbit(k, x, y))
  <2>1. \A i, j \in D : f[i] = f[j] => i = j
    BY <1>6, <1>8
  <2> QED
    BY <1>5, <1>7, <2>1 DEF Bijection, Injection, Surjection, IsInjective
<1>10. ExistsBijection(D, Orbit(k, x, y))
  BY <1>9 DEF ExistsBijection
<1> QED
  BY <1>8, <1>10, FS_Bijection

LEMMA OrbitInside ==
  ASSUME NEW k, Prime(k), NEW x \in Int, ~Divides(k, x), NEW S, Stable(k, x, S), NEW y \in S
  PROVE  Orbit(k, x, y) \subseteq S
<1>1. k \in Nat \ {0} /\ k \in Int /\ y \in 1 .. (k - 1) /\ y \in Int
  BY PrimeIs DEF Stable
<1>2. ~Divides(k, y)
  BY <1>1, NoMultiple
<1> DEFINE I == {i \in Nat : \A z \in 1 .. (k - 1) : SameMod(k, z, Pow(x, i) * y) => z \in S}
<1>3. 0 \in I
  <2> SUFFICES ASSUME NEW z \in 1 .. (k - 1), SameMod(k, z, Pow(x, 0) * y) PROVE z \in S
    OBVIOUS
  <2>1. Pow(x, 0) = 1 /\ 1 * y = y
    BY <1>1, PowLaws
  <2>2. SameMod(k, z, y)
    BY <2>1
  <2>3. z \in 0 .. (k - 1) /\ y \in 0 .. (k - 1)
    BY <1>1
  <2>4. z = y
    BY ONLY <1>1, <2>2, <2>3, SameResidue
  <2> QED
    BY <2>4
<1>4. ASSUME NEW i \in Nat, i \in I PROVE i + 1 \in I
  <2> SUFFICES ASSUME NEW z \in 1 .. (k - 1), SameMod(k, z, Pow(x, i + 1) * y) PROVE z \in S
    OBVIOUS
  <2>1. \A w \in 1 .. (k - 1) : SameMod(k, w, Pow(x, i) * y) => w \in S
    BY <1>4
  <2> HIDE DEF I
  <2>2. Pow(x, i) \in Int /\ ~Divides(k, Pow(x, i)) /\ Pow(x, i + 1) = x * Pow(x, i)
    BY PowLaws, PrimePower
  <2> DEFINE u == Pow(x, i) * y  w == u % k
  <2>3. u \in Int /\ Pow(x, i + 1) * y = x * u
    <3> DEFINE v == Pow(x, i)
    <3>1. v \in Int
      BY <2>2
    <3>2. Pow(x, i + 1) * y = (x * v) * y
      BY <2>2
    <3> HIDE DEF v
    <3>3. (x * v) * y = x * (v * y) /\ v * y \in Int
      BY <1>1, <3>1
    <3> QED
      BY <3>2, <3>3 DEF v
  <2>4. ~Divides(k, u)
    BY ONLY <1>1, <1>2, <2>2, Prime(k), PrimeFactor
  <2>5. w \in 1 .. (k - 1) /\ SameMod(k, u, w) /\ SameMod(k, w, u)
    <3> HIDE DEF u
    <3> QED
      BY ONLY <1>1, <2>3, <2>4, Residue
  <2>6. w \in S
    BY <2>1, <2>5
  <2> HIDE DEF u, w
  <2>7. SameMod(k, x * u, x * w)
    <3>1. w \in Int
      BY <2>5
    <3> QED
      BY ONLY <1>1, <2>3, <2>5, <3>1, x \in Int, ModTimes
  <2>8. SameMod(k, z, x * u)
    BY <2>3
  <2>9. z \in Int /\ x * u \in Int /\ x * w \in Int
    BY <2>3, <2>5
  <2>10. SameMod(k, z, x * w)
    BY ONLY <1>1, <2>7, <2>8, <2>9, ModLaws
  <2> QED
    BY <2>6, <2>10 DEF Stable
<1>5. Nat \subseteq I
  <2> HIDE DEF I
  <2> QED
    BY <1>3, <1>4, Induction
<1> QED
  BY <1>5 DEF Orbit

LEMMA RestIsStable ==
  ASSUME NEW k, Prime(k), NEW x \in Int, ~Divides(k, x), NEW N, IsOrder(k, x, N),
         NEW S, Stable(k, x, S), NEW y \in S
  PROVE  Stable(k, x, S \ Orbit(k, x, y))
<1>1. k \in Nat \ {0} /\ k \in Int /\ y \in Int
  BY PrimeIs DEF Stable
<1>2. N \in Nat \ {0}
  BY DEF IsOrder
<1> SUFFICES ASSUME NEW u \in S, u \notin Orbit(k, x, y), NEW z \in 1 .. (k - 1),
                    SameMod(k, z, x * u), z \in Orbit(k, x, y)
             PROVE  FALSE
  BY DEF Stable
<1>3. PICK i \in Nat : SameMod(k, z, Pow(x, i) * y)
  BY DEF Orbit
<1> DEFINE j == N + i - 1
<1>4. j \in Nat /\ j + 1 = N * 1 + i
  BY <1>2
<1> HIDE DEF j
<1>5. SameMod(k, Pow(x, N * 1 + i) * y, Pow(x, i) * y)
  <2>1. 1 \in Nat
    OBVIOUS
  <2> QED
    BY ONLY <1>1, <1>3, <2>1, x \in Int, IsOrder(k, x, N), PowersReturn
<1>6. Pow(x, j) \in Int /\ Pow(x, j + 1) = x * Pow(x, j) /\ Pow(x, i) \in Int
  BY <1>4, PowLaws
<1> DEFINE v == Pow(x, j) * y  w == Pow(x, i) * y
<1>7. v \in Int /\ w \in Int /\ Pow(x, j + 1) * y = x * v
  <2> DEFINE t == Pow(x, j)
  <2>1. t \in Int
    BY <1>6
  <2>2. Pow(x, j + 1) * y = (x * t) * y
    BY <1>6
  <2> HIDE DEF t
  <2>3. (x * t) * y = x * (t * y) /\ t * y \in Int
    BY <1>1, <2>1
  <2>4. w \in Int
    BY <1>1, <1>6
  <2> QED
    BY <2>2, <2>3, <2>4 DEF t
<1>8. SameMod(k, x * v, w) /\ SameMod(k, z, w)
  BY <1>3, <1>4, <1>5, <1>7
<1> HIDE DEF v, w
<1>9. z \in Int /\ u \in Int /\ x * u \in Int /\ x * v \in Int
  BY <1>7 DEF Stable
<1>10. SameMod(k, x * u, x * v)
  <2>1. SameMod(k, x * u, z) /\ SameMod(k, w, x * v)
    BY ONLY <1>1, <1>7, <1>8, <1>9, SameMod(k, z, x * u), ModLaws
  <2>2. SameMod(k, x * u, w)
    BY ONLY <1>1, <1>7, <1>8, <1>9, <2>1, ModLaws
  <2> QED
    BY ONLY <1>1, <1>7, <1>9, <2>1, <2>2, ModLaws
<1>11. SameMod(k, u, v)
  BY ONLY <1>7, <1>9, <1>10, Prime(k), x \in Int, ~Divides(k, x), Cancelled
<1>12. u \in 1 .. (k - 1)
  BY DEF Stable
<1> QED
  BY <1>4, <1>11, <1>12 DEF Orbit, v

LEMMA StableSize ==
  ASSUME NEW k, Prime(k), NEW x \in Int, ~Divides(k, x), NEW N, IsOrder(k, x, N),
         NEW S, Stable(k, x, S)
  PROVE  Divides(N, Cardinality(S))
<1> DEFINE T == {c \in Nat : /\ ~Divides(N, c)
                             /\ \E R : Stable(k, x, R) /\ Cardinality(R) = c}
<1>1. k \in Nat \ {0} /\ N \in Nat \ {0} /\ N \in Int
  BY PrimeIs DEF IsOrder
<1>2. \A R : Stable(k, x, R) => IsFiniteSet(R) /\ Cardinality(R) \in Nat
  <2> SUFFICES ASSUME NEW R, Stable(k, x, R) PROVE IsFiniteSet(R) /\ Cardinality(R) \in Nat
    OBVIOUS
  <2>1. R \subseteq 1 .. (k - 1)
    BY DEF Stable
  <2>2. 1 \in Int /\ k - 1 \in Int
    BY <1>1
  <2>3. IsFiniteSet(1 .. (k - 1))
    BY <2>2, FS_Interval
  <2> QED
    BY <2>1, <2>3, FS_Subset, FS_CardinalityType
<1>3. SUFFICES ASSUME T # {} PROVE FALSE
  BY <1>2
<1>4. T \subseteq Nat
  OBVIOUS
<1>5. PICK c \in T : \A c2 \in T : c <= c2
  <2> HIDE DEF T
  <2> QED
    BY <1>3, <1>4, LeastNumber
<1>6. c \in Nat /\ ~Divides(N, c)
  OBVIOUS
<1>7. PICK R : Stable(k, x, R) /\ Cardinality(R) = c
  OBVIOUS
<1>8. c # 0
  BY <1>1, <1>6, DividesMultiple
<1>9. PICK y \in R : TRUE
  BY <1>2, <1>7, <1>8, FS_EmptySet
<1> DEFINE O == Orbit(k, x, y)
<1>10. O \subseteq R /\ Stable(k, x, R \ O)
  BY <1>7, OrbitInside, RestIsStable
<1>11. Cardinality(O) = N
  <2>1. y \in 1 .. (k - 1)
    BY <1>7 DEF Stable
  <2> QED
    BY <2>1, OrbitSize
<1>12. Cardinality(R \ O) = c - N /\ c - N \in Nat
  <2>1. R \cap O = O
    BY <1>10
  <2>2. Cardinality(R \ O) = c - N
    <3> HIDE DEF O, T
    <3>1. IsFiniteSet(R)
      BY <1>2, <1>7
    <3>2. Cardinality(R \ O) = Cardinality(R) - Cardinality(R \cap O)
      BY ONLY <3>1, FS_Difference
    <3> QED
      BY <1>7, <1>11, <2>1, <3>2
  <2> QED
    BY <1>2, <1>10, <2>2
<1>13. c - N \notin T
  <2> HIDE DEF T
  <2> QED
    BY <1>1, <1>4, <1>5, <1>12
<1>14. Divides(N, c - N)
  BY <1>10, <1>12, <1>13
<1>15. Divides(N, (c - N) + N)
  <2>1. Divides(N, N) /\ c - N \in Int
    BY <1>1, <1>12, DividesMultiple
  <2> QED
    BY ONLY <1>1, <1>14, <2>1, Divided
<1>16. (c - N) + N = c
  BY <1>1, <1>6
<1> QED
  BY <1>6, <1>15, <1>16

LEMMA FermatsTheorem ==
  ASSUME NEW k, Prime(k), NEW x \in Int, ~Divides(k, x)
  PROVE  SameMod(k, Pow(x, k - 1), 1)
<1>1. PICK N : IsOrder(k, x, N)
  BY LeastOrder
<1>2. k \in Nat \ {0} /\ k \in Int /\ k - 1 \in Nat \ {0} /\ N \in Nat \ {0}
  BY <1>1, PrimeIs DEF IsOrder
<1>3. Stable(k, x, 1 .. (k - 1))
  BY DEF Stable
<1>4. Cardinality(1 .. (k - 1)) = k - 1
  <2>1. 1 \in Int /\ k - 1 \in Int /\ ~(1 > k - 1) /\ (k - 1) - 1 + 1 = k - 1
    BY <1>2
  <2> QED
    BY <2>1, FS_Interval
<1>5. Divides(N, k - 1)
  BY <1>1, <1>3, <1>4, StableSize
<1>6. PICK m \in Int : k - 1 = N * m
  BY <1>5 DEF Divides
<1>7. m \in Nat
  <2>1. SUFFICES ASSUME m < 0 PROVE FALSE
    OBVIOUS
  <2>2. N * (-m) >= 0 /\ N * (-m) = -(N * m) /\ N * m \in Int
    BY <1>2, <2>1
  <2> QED
    BY <1>2, <1>6, <2>2
<1>8. SameMod(k, Pow(x, N * m + 0) * 1, Pow(x, 0) * 1)
  <2>1. 0 \in Nat /\ 1 \in Int
    OBVIOUS
  <2> QED
    BY ONLY <1>1, <1>2, <1>7, <2>1, x \in Int, PowersReturn
<1>9. N * m + 0 = k - 1 /\ Pow(x, 0) = 1 /\ Pow(x, k - 1) \in Int
  BY <1>2, <1>6, PowLaws
<1>10. Pow(x, k - 1) * 1 = Pow(x, k - 1) /\ 1 * 1 = 1
  BY <1>9
<1> QED
  BY <1>8, <1>9, <1>10

\* Of any number, multiples of the prime number included.
LEMMA PowerComesBack ==
  ASSUME NEW k, Prime(k), NEW x \in Int, NEW j \in Nat
  PROVE  SameMod(k, Pow(x, (k - 1) * j + 1), x)
<1>1. k \in Nat \ {0} /\ k \in Int /\ k - 1 \in Nat /\ (k - 1) * j \in Nat
  <2>1. k \in Nat \ {0} /\ k - 1 \in Nat
    BY PrimeIs
  <2> QED
    BY <2>1
<1>2. Pow(x, (k - 1) * j + 1) = x * Pow(x, (k - 1) * j) /\ Pow(x, (k - 1) * j) \in Int
  BY ONLY <1>1, x \in Int, PowLaws
<1> DEFINE u == Pow(x, (k - 1) * j)
<1>3. u \in Int
  BY <1>2
<1>4. CASE Divides(k, x)
  <2> HIDE DEF u
  <2>1. x * u - x = x * (u - 1) /\ u - 1 \in Int
    BY <1>3
  <2>2. Divides(k, x * (u - 1))
    BY ONLY <1>1, <1>4, <2>1, x \in Int, Divided
  <2> QED
    BY <1>2, <2>1, <2>2 DEF SameMod, u
<1>5. CASE ~Divides(k, x)
  <2>1. SameMod(k, Pow(x, k - 1), 1)
    BY <1>5, FermatsTheorem
  <2>2. Pow(x, k - 1) \in Int /\ 1 \in Int
    BY <1>1, PowLaws
  <2>3. SameMod(k, Pow(Pow(x, k - 1), j), Pow(1, j))
    BY ONLY <1>1, <2>1, <2>2, j \in Nat, ModPower
  <2>4. Pow(Pow(x, k - 1), j) = u /\ Pow(1, j) = 1
    BY <1>1, PowOfPower, PowOfSmall
  <2> HIDE DEF u
  <2>5. SameMod(k, x * u, x * 1)
    BY ONLY <1>1, <1>3, <2>2, <2>3, <2>4, x \in Int, ModTimes
  <2> QED
    BY <1>2, <2>5 DEF u
<1> QED
  BY <1>4, <1>5

LEMMA TwoPrimes ==
  ASSUME NEW k, Prime(k), NEW j, Prime(j), k # j, NEW x \in Int, Divides(k, x), Divides(j, x)
  PROVE  Divides(k * j, x)
<1>1. k \in Int /\ j \in Int /\ k \in Nat /\ j \in Nat /\ k > 1 /\ j > 1
  BY DEF Prime
<1>2. PICK m \in Int : x = k * m
  BY DEF Divides
<1>3. ~Divides(j, k)
  <2>1. SUFFICES ASSUME Divides(j, k) PROVE FALSE
    OBVIOUS
  <2>2. j \notin 2 .. (k - 1)
    BY <2>1 DEF Prime
  <2>3. k < j
    BY <1>1, <2>2
  <2>4. k \in -(j - 1) .. (j - 1) /\ j \in Nat \ {0}
    BY <1>1, <2>3
  <2>5. k = 0
    BY ONLY <2>1, <2>4, SmallMultiple
  <2> QED
    BY <1>1, <2>5
<1>4. Divides(j, m)
  BY <1>1, <1>2, <1>3, PrimeFactor
<1>5. PICK i \in Int : m = j * i
  BY <1>4 DEF Divides
<1>6. x = (k * j) * i
  BY <1>1, <1>2, <1>5
<1> QED
  BY <1>6 DEF Divides

-----------------------------------------------------------------------------
(* The remainder of C under products and powers.                           *)

LEMMA RemLaws ==
  ASSUME NEW x \in Int, NEW m \in Nat \ {0}
  PROVE  /\ Rem(x, m) \in -(m - 1) .. (m - 1)
         /\ SameMod(m, x, Rem(x, m))
         /\ x >= 0 => Rem(x, m) >= 0
         /\ x <= 0 => Rem(x, m) <= 0
<1>1. CASE x >= 0
  <2>1. Rem(x, m) = x % m
    BY <1>1 DEF Rem
  <2>2. x % m \in 0 .. (m - 1) /\ SameMod(m, x, x % m)
    BY Remainder
  <2>3. x = 0 => x % m = 0
    OBVIOUS
  <2> QED
    BY <1>1, <2>1, <2>2, <2>3
<1>2. CASE x < 0
  <2>1. Rem(x, m) = -((-x) % m) /\ -x \in Int
    BY <1>2 DEF Rem
  <2> DEFINE r == (-x) % m
  <2>2. r \in 0 .. (m - 1) /\ SameMod(m, -x, r) /\ m \in Int
    BY <2>1, Remainder
  <2> HIDE DEF r
  <2>3. Divides(m, (-x) - r) /\ (-x) - r \in Int /\ r \in Int
    BY <2>1, <2>2 DEF SameMod
  <2>4. Divides(m, -((-x) - r))
    BY ONLY <2>2, <2>3, Divided
  <2>5. -((-x) - r) = x - (-r)
    BY <2>3
  <2>6. SameMod(m, x, -r)
    BY <2>4, <2>5 DEF SameMod
  <2>7. Rem(x, m) = -r
    BY <2>1 DEF r
  <2> QED
    BY <1>2, <2>2, <2>6, <2>7
<1> QED
  BY <1>1, <1>2

LEMMA RemEqual ==
  ASSUME NEW x \in Int, NEW y \in Int, NEW m \in Nat \ {0}, SameMod(m, x, y),
         (x >= 0 /\ y >= 0) \/ (x <= 0 /\ y <= 0)
  PROVE  Rem(x, m) = Rem(y, m)
<1> DEFINE r == Rem(x, m)  s == Rem(y, m)
<1>1. /\ r \in -(m - 1) .. (m - 1) /\ SameMod(m, x, r)
      /\ x >= 0 => r >= 0
      /\ x <= 0 => r <= 0
  BY RemLaws
<1>2. /\ s \in -(m - 1) .. (m - 1) /\ SameMod(m, y, s)
      /\ y >= 0 => s >= 0
      /\ y <= 0 => s <= 0
  BY RemLaws
<1> HIDE DEF r, s
<1>3. r \in Int /\ s \in Int /\ m \in Int
  BY <1>1, <1>2
<1>4. SameMod(m, r, x)
  BY <1>1, <1>3, ModLaws
<1>5. SameMod(m, r, y)
  BY <1>3, <1>4, ModLaws
<1>6. SameMod(m, r, s)
  BY <1>2, <1>3, <1>5, ModLaws
<1>7. r - s \in -(m - 1) .. (m - 1)
  BY <1>1, <1>2, <1>3
<1>8. r - s = 0
  BY <1>6, <1>7, SmallMultiple DEF SameMod
<1>9. r = s
  BY <1>3, <1>8
<1> QED
  BY <1>9 DEF r, s

LEMMA RemOfSmall ==
  ASSUME NEW m \in Nat \ {0}, NEW x \in -(m - 1) .. (m - 1)
  PROVE  Rem(x, m) = x
<1> DEFINE r == Rem(x, m)
<1>1. /\ x \in Int /\ r \in -(m - 1) .. (m - 1) /\ SameMod(m, x, r)
      /\ x >= 0 => r >= 0
      /\ x <= 0 => r <= 0
  BY RemLaws
<1> HIDE DEF r
<1>2. x - r \in -(m - 1) .. (m - 1)
  BY <1>1
<1>3. x - r = 0
  BY <1>1, <1>2, SmallMultiple DEF SameMod
<1>4. r = x
  BY <1>1, <1>3
<1> QED
  BY <1>4 DEF r

LEMMA RemTwice ==
  ASSUME NEW x \in Int, NEW m \in Nat \ {0}
  PROVE  Rem(Rem(x, m), m) = Rem(x, m) /\ Rem(x, m) \in Int
<1>1. Rem(x, m) \in -(m - 1) .. (m - 1)
  BY RemLaws
<1> QED
  BY <1>1, RemOfSmall

LEMMA RemTimes ==
  ASSUME NEW x \in Int, NEW y \in Int, NEW z \in Int, NEW m \in Nat \ {0},
         Rem(x, m) = Rem(y, m)
  PROVE  Rem(z * x, m) = Rem(z * y, m) /\ Rem(x * z, m) = Rem(y * z, m)
<1> DEFINE r == Rem(x, m)
<1>1. /\ r \in -(m - 1) .. (m - 1) /\ SameMod(m, x, r) /\ SameMod(m, y, r)
      /\ x >= 0 => r >= 0
      /\ x <= 0 => r <= 0
      /\ y >= 0 => r >= 0
      /\ y <= 0 => r <= 0
  BY RemLaws
<1> HIDE DEF r
<1>2. r \in Int /\ m \in Int /\ z * x \in Int /\ z * y \in Int
  BY <1>1
<1>3. SameMod(m, r, y)
  BY <1>1, <1>2, ModLaws
<1>4. SameMod(m, x, y)
  BY <1>1, <1>2, <1>3, ModLaws
<1>5. SameMod(m, z * x, z * y)
  BY <1>2, <1>4, ModTimes
<1>6. Rem(z * x, m) = Rem(z * y, m)
  <2>1. CASE r = 0
    <3>1. x - 0 = x /\ y - 0 = y
      OBVIOUS
    <3>2. Divides(m, x) /\ Divides(m, y)
      BY <1>1, <2>1, <3>1 DEF SameMod
    <3>3. Divides(m, z * x) /\ Divides(m, z * y)
      BY ONLY <1>2, <3>2, x \in Int, y \in Int, z \in Int, Divided
    <3>4. ASSUME NEW u \in Int, Divides(m, u) PROVE Rem(u, m) = 0
      <4>1. Rem(u, m) \in -(m - 1) .. (m - 1) /\ SameMod(m, u, Rem(u, m))
        BY RemLaws
      <4> DEFINE t == Rem(u, m)
      <4> HIDE DEF t
      <4>2. t \in Int /\ t = u - (u - t) /\ u - t \in Int /\ Divides(m, u - t)
        BY <4>1 DEF SameMod, t
      <4>3. Divides(m, u - (u - t))
        BY ONLY <1>2, <3>4, <4>2, Divided
      <4>4. Divides(m, t)
        BY <4>2, <4>3
      <4>5. t = 0
        BY <4>1, <4>4, SmallMultiple DEF t
      <4> QED
        BY <4>5 DEF t
    <3> QED
      BY <1>2, <3>3, <3>4
  <2>2. CASE r # 0
    <3>1. (x > 0 /\ y > 0) \/ (x < 0 /\ y < 0)
      BY <1>1, <1>2, <2>2
    <3>2. (z * x >= 0 /\ z * y >= 0) \/ (z * x <= 0 /\ z * y <= 0)
      <4>1. \A u \in Int : (z >= 0 /\ u > 0 => z * u >= 0) /\ (z >= 0 /\ u < 0 => z * u <= 0)
                        /\ (z <= 0 /\ u > 0 => z * u <= 0) /\ (z <= 0 /\ u < 0 => z * u >= 0)
        OBVIOUS
      <4> QED
        BY <3>1, <4>1
    <3> QED
      BY <1>2, <1>5, <3>2, RemEqual
  <2> QED
    BY <2>1, <2>2
<1>7. z * x = x * z /\ z * y = y * z
  OBVIOUS
<1> QED
  BY <1>6, <1>7

\* The same of the product as one operator.
ModProduct(x, y, m) == Rem(x * y, m)

LEMMA ProductLaws ==
  ASSUME NEW x \in Int, NEW y \in Int, NEW m \in Nat \ {0}, Rem(x, m) = Rem(y, m), NEW z \in Int
  PROVE  ModProduct(x, z, m) = ModProduct(y, z, m) /\ ModProduct(z, x, m) = ModProduct(z, y, m)
BY RemTimes DEF ModProduct

LEMMA RemPower ==
  ASSUME NEW x \in Int, NEW y \in Int, NEW m \in Nat \ {0}, Rem(x, m) = Rem(y, m), NEW k \in Nat
  PROVE  Rem(Pow(x, k), m) = Rem(Pow(y, k), m)
<1> DEFINE S == {j \in Nat : Rem(Pow(x, j), m) = Rem(Pow(y, j), m)}
<1>1. 0 \in S
  <2>1. Pow(x, 0) = 1 /\ Pow(y, 0) = 1
    BY PowLaws
  <2> QED
    BY <2>1
<1>2. ASSUME NEW j \in Nat, j \in S PROVE j + 1 \in S
  <2>1. /\ Pow(x, j + 1) = x * Pow(x, j) /\ Pow(y, j + 1) = y * Pow(y, j)
        /\ Pow(x, j) \in Int /\ Pow(y, j) \in Int
    BY PowLaws
  <2>2. Rem(Pow(x, j), m) = Rem(Pow(y, j), m)
    BY <1>2
  <2> DEFINE u == Pow(x, j)  v == Pow(y, j)
  <2>3. u \in Int /\ v \in Int /\ Rem(u, m) = Rem(v, m)
    BY <2>1, <2>2
  <2>4. Pow(x, j + 1) = x * u /\ Pow(y, j + 1) = y * v
    BY <2>1
  <2> HIDE DEF u, v
  <2>5. Rem(x * u, m) = Rem(x * v, m)
    BY <2>3, RemTimes
  <2>6. Rem(x * v, m) = Rem(y * v, m)
    BY <2>3, RemTimes
  <2>7. Rem(Pow(x, j + 1), m) = Rem(Pow(y, j + 1), m)
    BY <2>4, <2>5, <2>6
  <2> QED
    BY <2>7
<1>3. Nat \subseteq S
  <2> HIDE DEF S
  <2> QED
    BY <1>1, <1>2, Induction
<1> QED
  BY <1>3

\* One round of calculate_mod_pow leaves the remainder of what it has and what
\* it still has to multiply.
LEMMA RoundKeeps ==
  ASSUME NEW m \in Nat \ {0}, NEW x \in Int, NEW y \in Int, NEW k \in Nat,
         NEW x2, x2 = ModProduct(x, x, m),
         NEW y2, y2 = IF k % 2 = 1 THEN ModProduct(y, x, m) ELSE y
  PROVE  ModProduct(y2, Pow(x2, k \div 2), m) = ModProduct(y, Pow(x, k), m)
<1> DEFINE h == k \div 2
<1>1. h \in Nat /\ (k % 2 = 1 => k = 2 * h + 1) /\ (k % 2 # 1 => k = 2 * h)
  OBVIOUS
<1> HIDE DEF h
<1>2. x * x \in Int /\ y * x \in Int
  OBVIOUS
<1>3. x2 \in Int /\ Rem(x2, m) = Rem(x * x, m)
  BY <1>2, RemTwice DEF ModProduct
<1>4. Rem(Pow(x2, h), m) = Rem(Pow(x * x, h), m)
  BY <1>1, <1>2, <1>3, RemPower
<1>5. Pow(x2, h) \in Int /\ Pow(x * x, h) \in Int
  BY <1>1, <1>2, <1>3, PowLaws
<1> DEFINE u == Pow(x2, h)  v == Pow(x * x, h)
<1>6. u \in Int /\ v \in Int /\ Rem(u, m) = Rem(v, m)
  BY <1>4, <1>5
<1>7. Pow(x, 2 * h) = v /\ Pow(x, 2 * h + 1) = x * v
  BY <1>1, PowHalved
<1> HIDE DEF v
<1>8. CASE k % 2 = 1
  <2>1. y2 = Rem(y * x, m)
    BY <1>8 DEF ModProduct
  <2>2. y2 \in Int /\ Rem(y2, m) = Rem(y * x, m)
    BY <1>2, <2>1, RemTwice
  <2> HIDE DEF u
  <2>3. Rem(y2 * u, m) = Rem(y2 * v, m)
    BY ONLY <1>6, <2>2, m \in Nat \ {0}, RemTimes
  <2>4. Rem(y2 * v, m) = Rem((y * x) * v, m)
    <3> DEFINE w == y * x
    <3>1. w \in Int /\ Rem(y2, m) = Rem(w, m) /\ y2 \in Int /\ v \in Int
      BY <1>2, <1>6, <2>2
    <3> HIDE DEF w
    <3>2. ModProduct(y2, v, m) = ModProduct(w, v, m)
      BY <3>1, ProductLaws
    <3> QED
      BY <3>2 DEF w, ModProduct
  <2>5. (y * x) * v = y * (x * v)
    BY <1>6
  <2>6. Rem(y2 * u, m) = Rem(y * (x * v), m)
    BY <2>3, <2>4, <2>5
  <2>7. Pow(x, k) = x * v
    BY <1>1, <1>7, <1>8
  <2> QED
    BY <2>6, <2>7 DEF u, h, ModProduct
<1>9. CASE k % 2 # 1
  <2>1. y2 = y /\ Pow(x, k) = v
    BY <1>1, <1>7, <1>9
  <2> HIDE DEF u
  <2>2. Rem(y * u, m) = Rem(y * v, m)
    BY <1>6, RemTimes
  <2> QED
    BY <2>1, <2>2 DEF u, h, ModProduct
<1> QED
  BY <1>8, <1>9

LEMMA PowSign ==
  ASSUME NEW x \in Int, NEW k \in Nat
  PROVE  /\ x >= 0 => Pow(x, k) >= 0
         /\ x <= 0 /\ k % 2 = 1 => Pow(x, k) <= 0
<1>1. ASSUME NEW y \in Nat PROVE Pow(y, k) \in Nat
  <2> DEFINE S == {j \in Nat : Pow(y, j) \in Nat}
  <2>1. 0 \in S
    BY PowLaws
  <2>2. ASSUME NEW j \in Nat, j \in S PROVE j + 1 \in S
    <3>1. Pow(y, j + 1) = y * Pow(y, j) /\ Pow(y, j) \in Nat
      BY <2>2, PowLaws
    <3> DEFINE u == Pow(y, j)
    <3> HIDE DEF u
    <3>2. u \in Nat => y * u \in Nat
      OBVIOUS
    <3> QED
      BY <3>1, <3>2 DEF u
  <2>3. Nat \subseteq S
    <3> HIDE DEF S
    <3> QED
      BY <2>1, <2>2, Induction
  <2> QED
    BY <2>3
<1>2. ASSUME x <= 0, k % 2 = 1 PROVE Pow(x, k) <= 0
  <2>1. -x \in Nat /\ -x \in Int /\ -(-x) = x
    BY <1>2
  <2>2. k \div 2 \in Nat /\ k = 2 * (k \div 2) + 1
    BY <1>2
  <2>3. Pow(-(-x), 2 * (k \div 2) + 1) = -Pow(-x, 2 * (k \div 2) + 1)
    BY ONLY <2>1, <2>2, OddPower
  <2>4. Pow(x, k) = -Pow(-x, k) /\ Pow(-x, k) \in Nat
    BY <1>1, <2>1, <2>2, <2>3
  <2> QED
    BY <2>4
<1>3. x >= 0 => Pow(x, k) >= 0
  BY <1>1
<1> QED
  BY <1>2, <1>3

-----------------------------------------------------------------------------
(* The round trip.                                                         *)

\* What the loops of a power have multiplied and what they still have to
\* multiply have the remainder of the power that they compute.
RoundInv ==
  /\ rsa \in {"encrypt", "decrypt", "done"} => message < n
  /\ rsa = "encrypt" => Rem(power * Pow(base, exp), n) = Rem(Pow(message, e), n)
  /\ rsa \in {"decrypt", "done"} => encrypted = Rem(Pow(message, e), n)
  /\ rsa = "decrypt" => Rem(power * Pow(base, exp), n) = Rem(Pow(encrypted, d), n)
  /\ rsa = "done" => decrypted = Rem(Pow(encrypted, d), n)

LEMMA PowerStarts ==
  ASSUME NEW x \in Int, NEW k \in Nat, NEW m \in Nat \ {0}
  PROVE  Rem(1 * Pow(Rem(x, m), k), m) = Rem(Pow(x, k), m)
<1>1. Rem(x, m) \in Int /\ Rem(Rem(x, m), m) = Rem(x, m)
  BY RemTwice
<1>2. Rem(Pow(Rem(x, m), k), m) = Rem(Pow(x, k), m)
  BY <1>1, RemPower
<1>3. 1 * Pow(Rem(x, m), k) = Pow(Rem(x, m), k)
  BY <1>1, PowLaws
<1> QED
  BY <1>2, <1>3

LEMMA PowerEnds ==
  ASSUME NEW x \in Int, NEW m \in Nat \ {0}, NEW y \in -(m - 1) .. (m - 1)
  PROVE  Rem(y * Pow(x, 0), m) = y
<1>1. Pow(x, 0) = 1 /\ y * 1 = y
  BY PowLaws
<1> QED
  BY <1>1, RemOfSmall

\* The steps that compute with a message leave the keys alone.
LEMMA KeysStay ==
  ASSUME RsaInv, ReadMessage \/ Encrypt \/ Decrypt
  PROVE  /\ n' = n /\ n \in Nat \ {0} /\ e' = e /\ e \in Nat /\ d' = d /\ d \in Nat
<1>1. /\ rsa \in {"read", "encrypt", "decrypt"} /\ UNCHANGED <<p, q, e, d, num>>
      /\ rsa' \in {"encrypt", "decrypt", "done", "too_large"}
  BY DEF ReadMessage, Encrypt, Decrypt, keyVars, testVars
<1>2. n' = n /\ n \in Nat /\ n > 1 /\ e \in Nat
  BY <1>1, AfterTheDraw
<1> QED
  BY <1>1, <1>2 DEF RsaInv, RsaTypeOK

LEMMA RoundStarts == RsaInv /\ RoundInv /\ ReadMessage => RoundInv'
<1> SUFFICES ASSUME RsaInv, RoundInv, ReadMessage PROVE RoundInv'
  OBVIOUS
<1>1. /\ n' = n /\ n \in Nat \ {0} /\ e' = e /\ e \in Nat /\ message' \in Int
  BY KeysStay, RsaAssumption DEF ReadMessage
<1>2. CASE rsa' = "too_large"
  BY <1>2 DEF RoundInv
<1>3. CASE rsa' = "encrypt" /\ message' < n /\ StartPower(message', e)
  <2>1. base' = Rem(message', n) /\ exp' = e /\ power' = 1
    BY <1>3 DEF StartPower
  <2>2. Rem(1 * Pow(Rem(message', n), e), n) = Rem(Pow(message', e), n)
    BY ONLY <1>1, PowerStarts
  <2> QED
    BY <1>1, <1>3, <2>1, <2>2 DEF RoundInv
<1> QED
  BY <1>2, <1>3 DEF ReadMessage

LEMMA RoundMultiplies ==
  ASSUME RsaInv, rsa \in {"encrypt", "decrypt"}, SquareAndMultiply, n \in Nat \ {0}, n' = n
  PROVE  Rem(power' * Pow(base', exp'), n') = Rem(power * Pow(base, exp), n)
<1>1. base \in Int /\ power \in Int /\ exp \in Nat
  BY DEF RsaInv, RsaTypeOK
<1>2. /\ power' = IF exp % 2 = 1 THEN ModProduct(power, base, n) ELSE power
      /\ base' = ModProduct(base, base, n) /\ exp' = exp \div 2
  BY DEF SquareAndMultiply, Odd, ModProduct
<1>3. ModProduct(power', Pow(base', exp \div 2), n) = ModProduct(power, Pow(base, exp), n)
  BY ONLY <1>1, <1>2, n \in Nat \ {0}, RoundKeeps
<1> QED
  BY <1>2, <1>3 DEF ModProduct

LEMMA RoundEncrypts == RsaInv /\ RoundInv /\ Encrypt => RoundInv'
<1> SUFFICES ASSUME RsaInv, RoundInv, Encrypt PROVE RoundInv'
  OBVIOUS
<1>1. /\ n' = n /\ n \in Nat \ {0} /\ e' = e /\ e \in Nat /\ d' = d /\ d \in Nat
      /\ rsa = "encrypt" /\ message' = message /\ message < n
      /\ Rem(power * Pow(base, exp), n) = Rem(Pow(message, e), n)
      /\ base \in Int /\ exp \in Nat /\ power \in -(n - 1) .. (n - 1)
  BY KeysStay DEF Encrypt, RoundInv, RsaInv, RsaTypeOK, PowerInv
<1>2. CASE SquareAndMultiply /\ UNCHANGED <<rsa, encrypted>>
  <2>1. Rem(power' * Pow(base', exp'), n') = Rem(power * Pow(base, exp), n)
    BY <1>1, <1>2, RoundMultiplies
  <2> QED
    BY <1>1, <1>2, <2>1 DEF RoundInv
<1>3. CASE exp <= 0 /\ encrypted' = power /\ rsa' = "decrypt" /\ StartPower(power, d)
  <2>1. exp = 0 /\ base' = Rem(power, n) /\ exp' = d /\ power' = 1 /\ power \in Int
    BY <1>1, <1>3 DEF StartPower
  <2>2. Rem(power * Pow(base, 0), n) = power
    BY ONLY <1>1, PowerEnds
  <2>3. Rem(1 * Pow(Rem(power, n), d), n) = Rem(Pow(power, d), n)
    BY ONLY <1>1, <2>1, PowerStarts
  <2> QED
    BY <1>1, <1>3, <2>1, <2>2, <2>3 DEF RoundInv
<1> QED
  BY <1>2, <1>3 DEF Encrypt

LEMMA RoundDecrypts == RsaInv /\ RoundInv /\ Decrypt => RoundInv'
<1> SUFFICES ASSUME RsaInv, RoundInv, Decrypt PROVE RoundInv'
  OBVIOUS
<1>1. /\ n' = n /\ n \in Nat \ {0} /\ e' = e /\ d' = d
      /\ rsa = "decrypt" /\ message' = message /\ message < n /\ encrypted' = encrypted
      /\ encrypted = Rem(Pow(message, e), n)
      /\ Rem(power * Pow(base, exp), n) = Rem(Pow(encrypted, d), n)
      /\ base \in Int /\ exp \in Nat /\ power \in -(n - 1) .. (n - 1)
  BY KeysStay DEF Decrypt, RoundInv, RsaInv, RsaTypeOK, PowerInv
<1>2. CASE SquareAndMultiply /\ UNCHANGED <<rsa, decrypted>>
  <2>1. Rem(power' * Pow(base', exp'), n') = Rem(power * Pow(base, exp), n)
    BY <1>1, <1>2, RoundMultiplies
  <2> QED
    BY <1>1, <1>2, <2>1 DEF RoundInv
<1>3. CASE exp <= 0 /\ decrypted' = power /\ rsa' = "done"
  <2>1. exp = 0
    BY <1>1, <1>3
  <2>2. Rem(power * Pow(base, 0), n) = power
    BY ONLY <1>1, PowerEnds
  <2> QED
    BY <1>1, <1>3, <2>1, <2>2 DEF RoundInv
<1> QED
  BY <1>2, <1>3 DEF Decrypt

\* phi is even: of two primes one is odd.
LEMMA PhiIsEven ==
  ASSUME RsaInv, p # 0, q # 0
  PROVE  \E h \in Int : phi = 2 * h
<1>1. p \in Nat /\ q \in Nat /\ IsPrime(p) /\ IsPrime(q) /\ p # q
  BY DEF RsaInv, RsaTypeOK, DrawInv, PrimesExactly
<1>2. ASSUME NEW x \in Nat, IsPrime(x), x # 2 PROVE \E h \in Int : x - 1 = 2 * h
  <2>1. x % 2 # 0
    BY <1>2 DEF IsPrime
  <2>2. (x - 1) \div 2 \in Int /\ x - 1 = 2 * ((x - 1) \div 2)
    BY <2>1
  <2> QED
    BY <2>2
<1>3. CASE p # 2
  <2>1. PICK h \in Int : p - 1 = 2 * h
    BY <1>1, <1>2, <1>3
  <2>2. phi = (2 * h) * (q - 1)
    BY <2>1 DEF phi
  <2>3. (2 * h) * (q - 1) = 2 * (h * (q - 1)) /\ h * (q - 1) \in Int
    BY <1>1
  <2> QED
    BY <2>2, <2>3
<1>4. CASE q # 2
  <2>1. PICK h \in Int : q - 1 = 2 * h
    BY <1>1, <1>2, <1>4
  <2>2. phi = (p - 1) * (2 * h)
    BY <2>1 DEF phi
  <2>3. (p - 1) * (2 * h) = 2 * (h * (p - 1)) /\ h * (p - 1) \in Int
    BY <1>1
  <2> QED
    BY <2>2, <2>3
<1> QED
  BY <1>1, <1>3, <1>4

\* The power that takes the message there and back leaves its remainder.
LEMMA ThereAndBack ==
  ASSUME RsaInv, rsa = "done", NEW x \in Int
  PROVE  /\ d * e \in Nat /\ (d * e) % 2 = 1
         /\ SameMod(n, Pow(x, d * e), x)
<1>1. /\ p # 0 /\ q # 0 /\ p \in Nat /\ q \in Nat /\ IsPrime(p) /\ IsPrime(q) /\ p # q
      /\ d \in Nat /\ e \in Nat /\ (d * e) % phi = 1
  BY RsaAssumption
     DEF RsaInv, RsaTypeOK, DrawInv, PrimesExactly, KeyInverts, Largest
<1>2. n \in Nat /\ phi \in Nat /\ n > 1 /\ phi > 1
  BY <1>1, Moduli DEF RsaInv
<1>3. d * e \in Nat
  BY <1>1
<1> DEFINE k == d * e  j == k \div phi
<1>4. k \in Nat /\ k % phi = 1
  BY <1>1, <1>3
<1> HIDE DEF k
<1>5. j \in Nat /\ k = phi * j + 1
  <2>1. phi \in Nat \ {0}
    BY <1>2
  <2>2. k = phi * (k \div phi) + (k % phi)
    BY <1>4, <2>1, Division
  <2>3. k \div phi \in Nat
    BY <1>4, <2>1
  <2> QED
    BY <1>4, <2>2, <2>3
<1> HIDE DEF j
<1>6. k % 2 = 1
  <2>1. PICK h \in Int : phi = 2 * h
    BY <1>1, PhiIsEven
  <2>2. (2 * h) * j = 2 * (h * j) /\ h * j \in Int
    BY <1>5
  <2>3. k = 2 * (h * j) + 1
    BY <1>5, <2>1, <2>2
  <2> QED
    BY <2>2, <2>3
<1>7. Prime(p) /\ Prime(q)
  <2> SUFFICES ASSUME NEW u \in Nat, IsPrime(u) PROVE Prime(u)
    BY <1>1
  <2> SUFFICES ASSUME NEW i \in 2 .. (u - 1), Divides(i, u) PROVE FALSE
    BY DEF Prime, IsPrime
  <2>1. i \in Nat \ {0} /\ \E m \in Int : u = i * m
    BY DEF Divides
  <2>2. u % i = 0
    BY <2>1, Multiple
  <2> QED
    BY <2>2 DEF IsPrime
<1>8. p - 1 \in Nat /\ q - 1 \in Nat
  BY <1>1 DEF IsPrime
<1>9. /\ phi * j = (p - 1) * ((q - 1) * j) /\ (q - 1) * j \in Nat
      /\ phi * j = (q - 1) * ((p - 1) * j) /\ (p - 1) * j \in Nat
  BY <1>5, <1>8 DEF phi
<1>10. SameMod(p, Pow(x, k), x)
  <2>1. SameMod(p, Pow(x, (p - 1) * ((q - 1) * j) + 1), x)
    BY <1>7, <1>9, PowerComesBack
  <2> QED
    BY <1>5, <1>9, <2>1
<1>11. SameMod(q, Pow(x, k), x)
  <2>1. SameMod(q, Pow(x, (q - 1) * ((p - 1) * j) + 1), x)
    BY <1>7, <1>9, PowerComesBack
  <2> QED
    BY <1>5, <1>9, <2>1
<1>12. Pow(x, k) \in Int
  BY <1>4, PowLaws
<1>13. Divides(p * q, Pow(x, k) - x)
  <2>1. Pow(x, k) - x \in Int
    BY <1>12
  <2> QED
    BY <1>1, <1>7, <1>10, <1>11, <2>1, TwoPrimes DEF SameMod
<1>14. SameMod(n, Pow(x, k), x)
  BY <1>13 DEF SameMod, n
<1> QED
  BY <1>4, <1>6, <1>14 DEF k

LEMMA RoundInvProves == RsaInv /\ RoundInv => RoundTrip
<1> SUFFICES ASSUME RsaInv, RoundInv, rsa = "done", -n < message
             PROVE  decrypted = message
  BY DEF RoundTrip
<1>1. /\ message \in Int /\ message < n
      /\ encrypted = Rem(Pow(message, e), n) /\ decrypted = Rem(Pow(encrypted, d), n)
      /\ d \in Nat /\ e \in Nat /\ p # 0 /\ q # 0
  BY RsaAssumption DEF RsaInv, RoundInv, RsaTypeOK, DrawInv, Largest
<1>2. n \in Nat \ {0} /\ message \in -(n - 1) .. (n - 1)
  BY <1>1, Moduli DEF RsaInv
<1> DEFINE u == Pow(message, e)  k == d * e
<1>3. u \in Int /\ Rem(u, n) \in Int /\ Rem(Rem(u, n), n) = Rem(u, n)
  <2>1. u \in Int
    BY <1>1, PowLaws
  <2> HIDE DEF u
  <2> QED
    BY <1>2, <2>1, RemTwice
<1>4. Pow(u, d) = Pow(message, k)
  <2>1. Pow(u, d) = Pow(message, e * d)
    BY <1>1, PowOfPower
  <2>2. e * d = d * e
    BY <1>1
  <2> QED
    BY <2>1, <2>2
<1>5. decrypted = Rem(Pow(message, k), n)
  <2> HIDE DEF u, k
  <2>1. Rem(Pow(Rem(u, n), d), n) = Rem(Pow(u, d), n)
    BY <1>1, <1>2, <1>3, RemPower
  <2> QED
    BY <1>1, <1>4, <2>1 DEF u
<1>6. k \in Nat /\ k % 2 = 1 /\ SameMod(n, Pow(message, k), message)
  BY <1>1, ThereAndBack
<1> HIDE DEF k
<1>7. Pow(message, k) \in Int
  BY <1>1, <1>6, PowLaws
<1>8. \/ Pow(message, k) >= 0 /\ message >= 0
      \/ Pow(message, k) <= 0 /\ message <= 0
  BY <1>1, <1>6, PowSign
<1>9. Rem(Pow(message, k), n) = Rem(message, n)
  BY <1>1, <1>2, <1>6, <1>7, <1>8, RemEqual
<1>10. Rem(message, n) = message
  BY <1>2, RemOfSmall
<1> QED
  BY <1>5, <1>9, <1>10

\* Decrypting with the private key gives back the number that was encrypted
\* with the public one, for any two primes of any range, any exponent whose keys
\* are not refused, and any number below n in absolute value.
THEOREM MessagesComeBack == RsaSpec => []RoundTrip
<1>1. RsaInit => RoundInv
  BY DEF RsaInit, RoundInv
<1>2. RsaInv /\ RoundInv /\ [RsaNext]_rsaVars => RoundInv'
  <2> SUFFICES ASSUME RsaInv, RoundInv, [RsaNext]_rsaVars PROVE RoundInv'
    OBVIOUS
  <2>1. CASE UNCHANGED rsaVars
    <3>1. UNCHANGED <<rsa, p, q, e, d, message, encrypted, decrypted, base, exp, power>>
      BY <2>1 DEF rsaVars, keyVars, textVars, powVars
    <3>2. n' = n
      BY <3>1 DEF n
    <3> QED
      BY <3>1, <3>2 DEF RoundInv
  <2>2. CASE generate_random_prime
    <3>1. rsa' \in {"draw", "is_prime", "gcd"}
      BY <2>2 DEF generate_random_prime, Take
    <3> QED
      BY <3>1 DEF RoundInv
  <2>3. CASE is_prime
    <3>1. rsa' \in {"draw", "is_prime", "gcd"}
      BY <2>3 DEF is_prime, Take
    <3> QED
      BY <3>1 DEF RoundInv
  <2>4. CASE calculate_gcd \/ calculate_mod_inverse
    <3>1. rsa' \in {"gcd", "not_coprime", "inverse", "no_inverse", "read"}
      BY <2>4 DEF calculate_gcd, calculate_mod_inverse
    <3> QED
      BY <3>1 DEF RoundInv
  <2> QED
    BY <2>1, <2>2, <2>3, <2>4, RoundStarts, RoundEncrypts, RoundDecrypts
       DEF RsaNext, RsaCompute
<1> QED
  BY <1>1, <1>2, RsaInvariance, RoundInvProves, PTL DEF RsaSpec

-----------------------------------------------------------------------------
(* Bytes and their bits.                                                   *)

LEMMA PowersOf2 ==
  2^0 = 1 /\ 2^1 = 2 /\ 2^2 = 4 /\ 2^3 = 8 /\ 2^4 = 16 /\ 2^5 = 32 /\ 2^6 = 64 /\ 2^7 = 128
OBVIOUS

\* The number with four given bits.
LEMMA NibbleBits ==
  ASSUME NEW b0 \in {0, 1}, NEW b1 \in {0, 1}, NEW b2 \in {0, 1}, NEW b3 \in {0, 1},
         NEW x, x = b0 + 2 * b1 + 4 * b2 + 8 * b3
  PROVE  /\ x \in 0 .. 15
         /\ Bit(x, 0) = b0 /\ Bit(x, 1) = b1 /\ Bit(x, 2) = b2 /\ Bit(x, 3) = b3
BY PowersOf2 DEF Bit

LEMMA NibbleOfBits ==
  ASSUME NEW x \in 0 .. 15
  PROVE  /\ x = Bit(x, 0) + 2 * Bit(x, 1) + 4 * Bit(x, 2) + 8 * Bit(x, 3)
         /\ Bit(x, 0) \in {0, 1} /\ Bit(x, 1) \in {0, 1} /\ Bit(x, 2) \in {0, 1}
         /\ Bit(x, 3) \in {0, 1}
BY PowersOf2 DEF Bit

\* The exclusive or of two bits.
Sum2(v, w) == IF v = w THEN 0 ELSE 1

LEMMA SumOfBits ==
  ASSUME NEW v \in {0, 1}, NEW w \in {0, 1}
  PROVE  (v + w) % 2 = Sum2(v, w) /\ Sum2(v, w) \in {0, 1}
BY DEF Sum2

LEMMA XorNibbles ==
  ASSUME NEW x \in 0 .. 15, NEW y \in 0 .. 15
  PROVE  /\ XorTable[x][y] \in 0 .. 15
         /\ \A i \in 0 .. 3 : Bit(XorTable[x][y], i) = Sum2(Bit(x, i), Bit(y, i))
<1> DEFINE bit == [i \in 0 .. 3 |-> (Bit(x, i) + Bit(y, i)) % 2]
<1>1. XorTable[x][y] = bit[0] + 2 * bit[1] + 4 * bit[2] + 8 * bit[3]
  BY DEF XorTable, Nibble
<1>2. \A i \in 0 .. 3 : bit[i] = Sum2(Bit(x, i), Bit(y, i)) /\ bit[i] \in {0, 1}
  BY NibbleOfBits, SumOfBits
<1> HIDE DEF bit
<1>3. /\ XorTable[x][y] \in 0 .. 15
      /\ Bit(XorTable[x][y], 0) = bit[0] /\ Bit(XorTable[x][y], 1) = bit[1]
      /\ Bit(XorTable[x][y], 2) = bit[2] /\ Bit(XorTable[x][y], 3) = bit[3]
  BY <1>1, <1>2, NibbleBits
<1> QED
  BY <1>2, <1>3

\* The two halves of a byte have its bits.
LEMMA Halves ==
  ASSUME NEW x \in Byte
  PROVE  /\ x \div 16 \in 0 .. 15 /\ x % 16 \in 0 .. 15 /\ x = 16 * (x \div 16) + (x % 16)
         /\ Bit(x, 0) = Bit(x % 16, 0) /\ Bit(x, 1) = Bit(x % 16, 1)
         /\ Bit(x, 2) = Bit(x % 16, 2) /\ Bit(x, 3) = Bit(x % 16, 3)
         /\ Bit(x, 4) = Bit(x \div 16, 0) /\ Bit(x, 5) = Bit(x \div 16, 1)
         /\ Bit(x, 6) = Bit(x \div 16, 2) /\ Bit(x, 7) = Bit(x \div 16, 3)
<1> DEFINE l == x % 16
           h == x \div 16
<1>1. l \in 0 .. 15 /\ h \in 0 .. 15 /\ x = 16 * h + l
  BY DEF Byte
<1> HIDE DEF l, h
<1>2. /\ (16 * h + l) % 2 = l % 2 /\ ((16 * h + l) \div 2) % 2 = (l \div 2) % 2
      /\ ((16 * h + l) \div 4) % 2 = (l \div 4) % 2 /\ ((16 * h + l) \div 8) % 2 = (l \div 8) % 2
  BY <1>1
<1>3. /\ (16 * h + l) \div 16 = h /\ (16 * h + l) \div 32 = h \div 2
      /\ (16 * h + l) \div 64 = h \div 4 /\ (16 * h + l) \div 128 = h \div 8
  BY <1>1
<1>4. \A z \in 0 .. 15 : z \div 1 = z
  OBVIOUS
<1>5. (16 * h + l) \div 1 = 16 * h + l
  BY <1>1
<1>6. /\ Bit(x, 0) = Bit(l, 0) /\ Bit(x, 1) = Bit(l, 1)
      /\ Bit(x, 2) = Bit(l, 2) /\ Bit(x, 3) = Bit(l, 3)
  BY <1>1, <1>2, <1>4, <1>5, PowersOf2 DEF Bit
<1>7. /\ Bit(x, 4) = Bit(h, 0) /\ Bit(x, 5) = Bit(h, 1)
      /\ Bit(x, 6) = Bit(h, 2) /\ Bit(x, 7) = Bit(h, 3)
  BY <1>1, <1>3, <1>4, PowersOf2 DEF Bit
<1> QED
  BY <1>1, <1>6, <1>7 DEF l, h

LEMMA BitsOfByte ==
  ASSUME NEW x \in Byte
  PROVE  /\ \A i \in 0 .. 7 : Bit(x, i) \in {0, 1}
         /\ x = Bit(x, 0) + 2 * Bit(x, 1) + 4 * Bit(x, 2) + 8 * Bit(x, 3)
                + 16 * Bit(x, 4) + 32 * Bit(x, 5) + 64 * Bit(x, 6) + 128 * Bit(x, 7)
<1> DEFINE l == x % 16
           h == x \div 16
<1>1. /\ l \in 0 .. 15 /\ h \in 0 .. 15 /\ x = 16 * h + l
      /\ Bit(x, 0) = Bit(l, 0) /\ Bit(x, 1) = Bit(l, 1)
      /\ Bit(x, 2) = Bit(l, 2) /\ Bit(x, 3) = Bit(l, 3)
      /\ Bit(x, 4) = Bit(h, 0) /\ Bit(x, 5) = Bit(h, 1)
      /\ Bit(x, 6) = Bit(h, 2) /\ Bit(x, 7) = Bit(h, 3)
  BY Halves
<1> HIDE DEF l, h
<1>2. \A i \in 0 .. 7 : i \in {0, 1, 2, 3, 4, 5, 6, 7}
  OBVIOUS
<1> QED
  BY <1>1, <1>2, NibbleOfBits

\* Bytes with the same bits are the same.
LEMMA SameByte ==
  ASSUME NEW x \in Byte, NEW y \in Byte, \A i \in 0 .. 7 : Bit(x, i) = Bit(y, i)
  PROVE  x = y
BY BitsOfByte

LEMMA XorBits ==
  ASSUME NEW x \in Byte, NEW y \in Byte
  PROVE  /\ Xor(x, y) \in Byte
         /\ \A i \in 0 .. 7 : Bit(Xor(x, y), i) = Sum2(Bit(x, i), Bit(y, i))
<1> DEFINE l == XorTable[x % 16][y % 16]
           h == XorTable[x \div 16][y \div 16]
<1>1. l \in 0 .. 15 /\ h \in 0 .. 15
  BY Halves, XorNibbles
<1>2. Xor(x, y) = 16 * h + l
  BY DEF Xor
<1>3. \A i \in 0 .. 3 : /\ Bit(l, i) = Sum2(Bit(x % 16, i), Bit(y % 16, i))
                        /\ Bit(h, i) = Sum2(Bit(x \div 16, i), Bit(y \div 16, i))
  BY Halves, XorNibbles
<1> HIDE DEF l, h
<1>4. Xor(x, y) \in Byte /\ Xor(x, y) % 16 = l /\ Xor(x, y) \div 16 = h
  BY <1>1, <1>2 DEF Byte
<1>5. \A i \in 0 .. 7 : i \in {0, 1, 2, 3, 4, 5, 6, 7}
  OBVIOUS
<1> QED
  BY <1>3, <1>4, <1>5, Halves

LEMMA BitsOfZero == 0 \in Byte /\ \A i \in 0 .. 7 : Bit(0, i) = 0
<1>1. \A i \in 0 .. 7 : i \in {0, 1, 2, 3, 4, 5, 6, 7}
  OBVIOUS
<1> QED
  BY <1>1, PowersOf2 DEF Byte, Bit

LEMMA XorLaws ==
  ASSUME NEW x \in Byte, NEW y \in Byte
  PROVE  /\ Xor(x, y) \in Byte /\ Xor(x, y) = Xor(y, x) /\ 0 \in Byte
         /\ Xor(x, x) = 0 /\ Xor(x, 0) = x /\ Xor(0, x) = x
<1>1. 0 \in Byte /\ \A i \in 0 .. 7 : Bit(0, i) = 0
  BY BitsOfZero
<1>2. Xor(x, y) \in Byte /\ Xor(y, x) \in Byte /\ Xor(x, x) \in Byte /\ Xor(x, 0) \in Byte
      /\ Xor(0, x) \in Byte
  BY <1>1, XorBits
<1>3. ASSUME NEW i \in 0 .. 7
      PROVE  /\ Bit(Xor(x, y), i) = Bit(Xor(y, x), i) /\ Bit(Xor(x, x), i) = Bit(0, i)
             /\ Bit(Xor(x, 0), i) = Bit(x, i) /\ Bit(Xor(0, x), i) = Bit(x, i)
  BY <1>1, XorBits, BitsOfByte DEF Sum2
<1> QED
  BY <1>1, <1>2, <1>3, SameByte

LEMMA XorAssociative ==
  ASSUME NEW x \in Byte, NEW y \in Byte, NEW z \in Byte
  PROVE  Xor(Xor(x, y), z) = Xor(x, Xor(y, z))
<1>1. Xor(x, y) \in Byte /\ Xor(y, z) \in Byte
  BY XorBits
<1>2. Xor(Xor(x, y), z) \in Byte /\ Xor(x, Xor(y, z)) \in Byte
  BY <1>1, XorBits
<1>3. ASSUME NEW i \in 0 .. 7 PROVE Bit(Xor(Xor(x, y), z), i) = Bit(Xor(x, Xor(y, z)), i)
  BY <1>1, XorBits, BitsOfByte DEF Sum2
<1> QED
  BY <1>2, <1>3, SameByte

\* xtime() moves the bits up; what falls out is added as the polynomial 1B.
LEMMA XtimeBits ==
  ASSUME NEW x \in Byte
  PROVE  /\ xtime(x) \in Byte
         /\ Bit(xtime(x), 0) = Bit(x, 7) /\ Bit(xtime(x), 1) = Sum2(Bit(x, 0), Bit(x, 7))
         /\ Bit(xtime(x), 2) = Bit(x, 1) /\ Bit(xtime(x), 3) = Sum2(Bit(x, 2), Bit(x, 7))
         /\ Bit(xtime(x), 4) = Sum2(Bit(x, 3), Bit(x, 7)) /\ Bit(xtime(x), 5) = Bit(x, 4)
         /\ Bit(xtime(x), 6) = Bit(x, 5) /\ Bit(xtime(x), 7) = Bit(x, 6)
<1> DEFINE u == (2 * x) % 256
           v == IF x >= 128 THEN 27 ELSE 0
<1>1. u \in Byte /\ v \in Byte /\ xtime(x) = Xor(u, v)
  BY DEF xtime, Byte
<1>2. /\ Bit(u, 0) = 0 /\ Bit(u, 1) = Bit(x, 0) /\ Bit(u, 2) = Bit(x, 1) /\ Bit(u, 3) = Bit(x, 2)
      /\ Bit(u, 4) = Bit(x, 3) /\ Bit(u, 5) = Bit(x, 4) /\ Bit(u, 6) = Bit(x, 5)
      /\ Bit(u, 7) = Bit(x, 6)
  <2> DEFINE w == Bit(x, 0) + 2 * Bit(x, 1) + 4 * Bit(x, 2) + 8 * Bit(x, 3)
                  + 16 * Bit(x, 4) + 32 * Bit(x, 5) + 64 * Bit(x, 6)
  <2>1. w \in 0 .. 127 /\ x = w + 128 * Bit(x, 7) /\ Bit(x, 7) \in {0, 1}
    BY BitsOfByte
  <2>2. u = 2 * w
    <3> HIDE DEF w
    <3> QED
      BY <2>1
  <2>3. u % 2 = 0 /\ u \div 2 = w /\ u \div 4 = w \div 2 /\ u \div 8 = w \div 4
        /\ u \div 16 = w \div 8 /\ u \div 32 = w \div 16 /\ u \div 64 = w \div 32
        /\ u \div 128 = w \div 64
    <3> HIDE DEF w, u
    <3> QED
      BY <2>1, <2>2
  <2>4. /\ Bit(w, 0) = Bit(x, 0) /\ Bit(w, 1) = Bit(x, 1) /\ Bit(w, 2) = Bit(x, 2)
        /\ Bit(w, 3) = Bit(x, 3) /\ Bit(w, 4) = Bit(x, 4) /\ Bit(w, 5) = Bit(x, 5)
        /\ Bit(w, 6) = Bit(x, 6)
    <3> HIDE DEF w
    <3>1. CASE Bit(x, 7) = 0
      <4>1. x = w
        BY <2>1, <3>1
      <4> QED
        BY <4>1
    <3>2. CASE Bit(x, 7) = 1
      <4>1. x = w + 128 /\ w \in 0 .. 127
        BY <2>1, <3>2
      <4> QED
        BY <4>1, PowersOf2 DEF Bit
    <3> QED
      BY <2>1, <3>1, <3>2
  <2>5. w \div 1 = w /\ u \div 1 = u
    <3> HIDE DEF w, u
    <3> QED
      BY <1>1, <2>1 DEF Byte
  <2> HIDE DEF w, u
  <2> QED
    BY <2>3, <2>4, <2>5, PowersOf2 DEF Bit
<1>3. /\ Bit(v, 0) = Bit(x, 7) /\ Bit(v, 1) = Bit(x, 7) /\ Bit(v, 2) = 0 /\ Bit(v, 3) = Bit(x, 7)
      /\ Bit(v, 4) = Bit(x, 7) /\ Bit(v, 5) = 0 /\ Bit(v, 6) = 0 /\ Bit(v, 7) = 0
  BY PowersOf2 DEF Bit, Byte
<1> HIDE DEF u, v
<1>4. /\ Xor(u, v) \in Byte
      /\ \A i \in 0 .. 7 : Bit(Xor(u, v), i) = Sum2(Bit(u, i), Bit(v, i))
  BY <1>1, XorBits
<1>5. \A i \in 0 .. 7 : Bit(x, i) \in {0, 1}
  BY BitsOfByte
<1> QED
  BY <1>1, <1>2, <1>3, <1>4, <1>5 DEF Sum2

LEMMA XtimeLinear ==
  ASSUME NEW x \in Byte, NEW y \in Byte
  PROVE  xtime(x) \in Byte /\ xtime(Xor(x, y)) = Xor(xtime(x), xtime(y))
<1>1. /\ Xor(x, y) \in Byte /\ xtime(x) \in Byte /\ xtime(y) \in Byte
      /\ xtime(Xor(x, y)) \in Byte /\ Xor(xtime(x), xtime(y)) \in Byte
  BY XtimeBits, XorBits
<1>2. \A i \in 0 .. 7 : /\ Bit(x, i) \in {0, 1} /\ Bit(y, i) \in {0, 1}
                        /\ Bit(Xor(x, y), i) = Sum2(Bit(x, i), Bit(y, i))
                        /\ Bit(Xor(xtime(x), xtime(y)), i) = Sum2(Bit(xtime(x), i), Bit(xtime(y), i))
  BY <1>1, BitsOfByte, XorBits
<1>3. ASSUME NEW i \in 0 .. 7 PROVE Bit(xtime(Xor(x, y)), i) = Bit(Xor(xtime(x), xtime(y)), i)
  <2>1. i \in {0, 1, 2, 3, 4, 5, 6, 7}
    OBVIOUS
  <2> QED
    BY <1>1, <1>2, <2>1, XtimeBits DEF Sum2
<1> QED
  BY <1>1, <1>3, SameByte

-----------------------------------------------------------------------------
(* Products.                                                               *)

\* What the loop of mul has added up in r, and what it has doubled in a.
Rounds(f, x, m, r) ==
  /\ m \in [0 .. 8 -> Byte] /\ m[0] = f
  /\ r \in [0 .. 8 -> Byte] /\ r[0] = 0
  /\ \A i \in 0 .. 7 : /\ m[i + 1] = xtime(m[i])
                       /\ r[i + 1] = IF Bit(x, i) = 1 THEN Xor(r[i], m[i]) ELSE r[i]

\* c is the last bit of w, and v what is left of it.
Halves2(w, c, v) == c \in {0, 1} /\ v \in Nat /\ w = c + 2 * v

LEMMA HalfIs ==
  ASSUME NEW w, NEW c, NEW v, Halves2(w, c, v)
  PROVE  w \div 2 = v /\ w % 2 = c
<1>1. c \in {0, 1} /\ v \in Nat /\ w = c + 2 * v /\ w \in Nat
  BY DEF Halves2
<1>2. CASE c = 0
  BY <1>1, <1>2
<1>3. CASE c = 1
  BY <1>1, <1>3
<1> QED
  BY <1>1, <1>2, <1>3

\* Halving a byte time and again shows its bits.
LEMMA Halving ==
  ASSUME NEW x \in Byte, NEW k, k[0] = x, \A i \in 0 .. 6 : k[i + 1] = k[i] \div 2
  PROVE  \A i \in 0 .. 7 : k[i] % 2 = Bit(x, i)
<1>1. PICK c0 \in {0, 1}, c1 \in {0, 1}, c2 \in {0, 1}, c3 \in {0, 1}, c4 \in {0, 1},
           c5 \in {0, 1}, c6 \in {0, 1}, c7 \in {0, 1} :
        /\ c0 = Bit(x, 0) /\ c1 = Bit(x, 1) /\ c2 = Bit(x, 2) /\ c3 = Bit(x, 3)
        /\ c4 = Bit(x, 4) /\ c5 = Bit(x, 5) /\ c6 = Bit(x, 6) /\ c7 = Bit(x, 7)
  BY BitsOfByte
<1>2. x = c0 + 2 * c1 + 4 * c2 + 8 * c3 + 16 * c4 + 32 * c5 + 64 * c6 + 128 * c7
  BY <1>1, BitsOfByte
<1>3. /\ k[1] = k[0] \div 2 /\ k[2] = k[1] \div 2 /\ k[3] = k[2] \div 2 /\ k[4] = k[3] \div 2
      /\ k[5] = k[4] \div 2 /\ k[6] = k[5] \div 2 /\ k[7] = k[6] \div 2
  <2>1. 0 + 1 = 1 /\ 1 + 1 = 2 /\ 2 + 1 = 3 /\ 3 + 1 = 4 /\ 4 + 1 = 5 /\ 5 + 1 = 6 /\ 6 + 1 = 7
    OBVIOUS
  <2> QED
    BY <2>1
<1> DEFINE v7 == c7
           v6 == c6 + 2 * v7
           v5 == c5 + 2 * v6
           v4 == c4 + 2 * v5
           v3 == c3 + 2 * v4
           v2 == c2 + 2 * v3
           v1 == c1 + 2 * v2
<1>5. /\ Halves2(k[0], c0, v1) /\ Halves2(v1, c1, v2) /\ Halves2(v2, c2, v3) /\ Halves2(v3, c3, v4)
      /\ Halves2(v4, c4, v5) /\ Halves2(v5, c5, v6) /\ Halves2(v6, c6, v7) /\ Halves2(v7, c7, 0)
  BY <1>2 DEF Halves2
<1> HIDE DEF v1, v2, v3, v4, v5, v6, v7
<1>8. k[0] \div 2 = v1 /\ k[0] % 2 = c0
  BY ONLY <1>5, HalfIs
<1>9. v1 \div 2 = v2 /\ v1 % 2 = c1
  BY ONLY <1>5, HalfIs
<1>10. v2 \div 2 = v3 /\ v2 % 2 = c2
  BY ONLY <1>5, HalfIs
<1>11. v3 \div 2 = v4 /\ v3 % 2 = c3
  BY ONLY <1>5, HalfIs
<1>12. v4 \div 2 = v5 /\ v4 % 2 = c4
  BY ONLY <1>5, HalfIs
<1>13. v5 \div 2 = v6 /\ v5 % 2 = c5
  BY ONLY <1>5, HalfIs
<1>14. v6 \div 2 = v7 /\ v6 % 2 = c6
  BY ONLY <1>5, HalfIs
<1>15. v7 \div 2 = 0 /\ v7 % 2 = c7
  BY ONLY <1>5, HalfIs
<1>16. k[1] = v1 /\ k[2] = v2 /\ k[3] = v3 /\ k[4] = v4 /\ k[5] = v5 /\ k[6] = v6 /\ k[7] = v7
  BY ONLY <1>3, <1>8, <1>9, <1>10, <1>11, <1>12, <1>13, <1>14, Zenon
<1>17. \A i \in 0 .. 7 : i \in {0, 1, 2, 3, 4, 5, 6, 7}
  OBVIOUS
<1> QED
  BY <1>1, <1>8, <1>9, <1>10, <1>11, <1>12, <1>13, <1>14, <1>15, <1>16, <1>17

LEMMA RoundsOfMul ==
  ASSUME NEW f \in Byte, NEW x \in Byte
  PROVE  \E m, r : Rounds(f, x, m, r) /\ mul(f, x) = r[8]
<1> DEFINE T == [result : Byte, a : Byte, b : Nat]
           first == [result |-> 0, a |-> f, b |-> x]
           next(t) == [result |-> IF t.b % 2 = 1 THEN Xor(t.result, t.a) ELSE t.result,
                       a |-> xtime(t.a), b |-> t.b \div 2]
           step == [i \in 1 .. 8 |-> [t \in T |-> next(t)]]
           Is(loop) == loop = [i \in 0 .. 8 |-> IF i = 0 THEN first ELSE next(loop[i - 1])]
           loop == CHOOSE t : Is(t)
<1>1. mul(f, x) = loop[8].result
  BY Zenon DEF mul
<1>2. first \in T
  <2>1. 0 \in Byte /\ x \in Nat
    BY DEF Byte
  <2> QED
    BY <2>1
<1>3. ASSUME NEW t \in T PROVE next(t) \in T
  <2>1. t.result \in Byte /\ t.a \in Byte /\ t.b \in Nat
    OBVIOUS
  <2>2. xtime(t.a) \in Byte /\ Xor(t.result, t.a) \in Byte /\ t.b \div 2 \in Nat
    BY <2>1, XtimeBits, XorBits
  <2> QED
    BY <2>1, <2>2
<1>4. PICK t : IsLoop(t, 8, T, first, step)
  <2>1. step \in [1 .. 8 -> [T -> T]] /\ 8 \in Nat
    BY <1>3
  <2> HIDE DEF T, first, step
  <2> QED
    BY <1>2, <2>1, LoopExists
<1>5. t \in [0 .. 8 -> T] /\ t[0] = first /\ \A i \in 1 .. 8 : t[i] = next(t[i - 1])
  <2> HIDE DEF T, first, next
  <2> QED
    BY <1>4 DEF IsLoop
<1>6. Is(t)
  <2> HIDE DEF T, first, next
  <2> QED
    BY <1>5
<1>7. Is(loop)
  <2> HIDE DEF Is
  <2> QED
    BY <1>6
<1>8. loop[0] = first /\ \A i \in 0 .. 7 : loop[i + 1] = next(loop[i])
  <2> HIDE DEF first, next, loop
  <2>1. \A i \in 0 .. 7 : i + 1 \in 0 .. 8 /\ i + 1 # 0 /\ (i + 1) - 1 = i
    OBVIOUS
  <2> QED
    BY <1>7, <2>1
<1> HIDE DEF loop, step, Is
<1>9. \A i \in 0 .. 8 : loop[i] \in T
  <2> DEFINE S == {i \in 0 .. 8 : loop[i] \in T}
  <2> HIDE DEF T, first, next
  <2>1. 0 \in S /\ 8 \in Nat
    BY <1>2, <1>8
  <2>2. \A i \in 0 .. (8 - 1) : i \in S => i + 1 \in S
    BY <1>3, <1>8
  <2>3. \A i \in 0 .. 8 : i \in S
    <3> HIDE DEF S
    <3> QED
      BY <2>1, <2>2, UpTo
  <2> QED
    BY <2>3
<1> DEFINE m == [i \in 0 .. 8 |-> loop[i].a]
           r == [i \in 0 .. 8 |-> loop[i].result]
<1>10. \A i \in 0 .. 7 : loop[i].b % 2 = Bit(x, i)
  <2> DEFINE k == [i \in 0 .. 8 |-> loop[i].b]
  <2>1. k[0] = x /\ \A i \in 0 .. 6 : k[i + 1] = k[i] \div 2
    BY <1>8
  <2>2. \A i \in 0 .. 7 : k[i] = loop[i].b
    OBVIOUS
  <2> HIDE DEF k
  <2>3. \A i \in 0 .. 7 : k[i] % 2 = Bit(x, i)
    BY <2>1, Halving
  <2> QED
    BY <2>2, <2>3
<1>11. Rounds(f, x, m, r)
  <2>1. m \in [0 .. 8 -> Byte] /\ r \in [0 .. 8 -> Byte] /\ m[0] = f /\ r[0] = 0
    BY <1>8, <1>9
  <2>2. ASSUME NEW i \in 0 .. 7
        PROVE  /\ m[i + 1] = xtime(m[i])
               /\ r[i + 1] = IF Bit(x, i) = 1 THEN Xor(r[i], m[i]) ELSE r[i]
    <3>1. loop[i + 1] = next(loop[i]) /\ loop[i].b % 2 = Bit(x, i)
      BY <1>8, <1>10
    <3>2. i \in 0 .. 8 /\ i + 1 \in 0 .. 8
      OBVIOUS
    <3>3. m[i + 1] = loop[i + 1].a /\ r[i + 1] = loop[i + 1].result
          /\ m[i] = loop[i].a /\ r[i] = loop[i].result
      BY <3>2
    <3> QED
      BY <3>1, <3>3
  <2> HIDE DEF m, r
  <2> QED
    BY <2>1, <2>2 DEF Rounds
<1>12. r[8] = loop[8].result
  OBVIOUS
<1> QED
  BY <1>1, <1>11, <1>12

LEMMA OneResult ==
  ASSUME NEW f, NEW x, NEW m, NEW r, Rounds(f, x, m, r), NEW k, NEW s, Rounds(f, x, k, s)
  PROVE  r[8] = s[8]
<1> DEFINE S == {i \in 0 .. 8 : m[i] = k[i] /\ r[i] = s[i]}
<1>1. 0 \in S /\ 8 \in Nat
  BY DEF Rounds
<1>2. \A i \in 0 .. (8 - 1) : i \in S => i + 1 \in S
  BY DEF Rounds
<1>3. \A i \in 0 .. 8 : i \in S
  <2> HIDE DEF S
  <2> QED
    BY <1>1, <1>2, UpTo
<1> QED
  BY <1>3

\* The product is what any such rounds add up.
LEMMA MulIs ==
  ASSUME NEW f \in Byte, NEW x \in Byte, NEW m, NEW r, Rounds(f, x, m, r)
  PROVE  mul(f, x) = r[8] /\ r[8] \in Byte
<1>1. PICK k, s : Rounds(f, x, k, s) /\ mul(f, x) = s[8]
  BY RoundsOfMul
<1>2. r[8] = s[8]
  BY <1>1, OneResult
<1> QED
  BY <1>1, <1>2 DEF Rounds

LEMMA XorSwap ==
  ASSUME NEW x \in Byte, NEW y \in Byte, NEW z \in Byte, NEW u \in Byte
  PROVE  Xor(Xor(x, y), Xor(z, u)) = Xor(Xor(x, z), Xor(y, u))
<1>1. /\ Xor(x, y) \in Byte /\ Xor(z, u) \in Byte /\ Xor(x, z) \in Byte /\ Xor(y, u) \in Byte
      /\ Xor(y, z) \in Byte
  BY XorLaws
<1>2. Xor(Xor(x, y), Xor(z, u)) = Xor(x, Xor(y, Xor(z, u)))
  BY <1>1, XorAssociative
<1>3. Xor(y, Xor(z, u)) = Xor(Xor(y, z), u) /\ Xor(y, z) = Xor(z, y)
  BY <1>1, XorAssociative, XorLaws
<1>4. Xor(Xor(z, y), u) = Xor(z, Xor(y, u))
  BY <1>1, XorAssociative
<1>5. Xor(x, Xor(z, Xor(y, u))) = Xor(Xor(x, z), Xor(y, u))
  BY <1>1, XorAssociative
<1> QED
  BY <1>2, <1>3, <1>4, <1>5

\* Multiplying is linear in the factor.
LEMMA MulOfSum ==
  ASSUME NEW f \in Byte, NEW g \in Byte, NEW x \in Byte
  PROVE  mul(Xor(f, g), x) = Xor(mul(f, x), mul(g, x)) /\ mul(f, x) \in Byte
<1>1. PICK m, r : Rounds(f, x, m, r) /\ mul(f, x) = r[8]
  BY RoundsOfMul
<1>2. PICK k, s : Rounds(g, x, k, s) /\ mul(g, x) = s[8]
  BY RoundsOfMul
<1> DEFINE c == [i \in 0 .. 8 |-> Xor(m[i], k[i])]
           t == [i \in 0 .. 8 |-> Xor(r[i], s[i])]
<1>3. \A i \in 0 .. 8 : m[i] \in Byte /\ k[i] \in Byte /\ r[i] \in Byte /\ s[i] \in Byte
  BY <1>1, <1>2 DEF Rounds
<1>4. c \in [0 .. 8 -> Byte] /\ t \in [0 .. 8 -> Byte] /\ c[0] = Xor(f, g) /\ t[0] = 0
  <2>1. m[0] = f /\ k[0] = g /\ r[0] = 0 /\ s[0] = 0 /\ 0 \in Byte
    BY <1>1, <1>2, XorLaws DEF Rounds
  <2>2. Xor(0, 0) = 0
    BY <2>1, XorLaws
  <2> QED
    BY <1>3, <2>1, <2>2, XorLaws
<1>5. ASSUME NEW i \in 0 .. 7
      PROVE  /\ c[i + 1] = xtime(c[i])
             /\ t[i + 1] = IF Bit(x, i) = 1 THEN Xor(t[i], c[i]) ELSE t[i]
  <2>1. i \in 0 .. 8 /\ i + 1 \in 0 .. 8
    OBVIOUS
  <2>2. /\ m[i + 1] = xtime(m[i]) /\ k[i + 1] = xtime(k[i])
        /\ r[i + 1] = IF Bit(x, i) = 1 THEN Xor(r[i], m[i]) ELSE r[i]
        /\ s[i + 1] = IF Bit(x, i) = 1 THEN Xor(s[i], k[i]) ELSE s[i]
    BY <1>1, <1>2 DEF Rounds
  <2>3. c[i] = Xor(m[i], k[i]) /\ c[i + 1] = Xor(m[i + 1], k[i + 1])
        /\ t[i] = Xor(r[i], s[i]) /\ t[i + 1] = Xor(r[i + 1], s[i + 1])
    BY <2>1
  <2>6. m[i] \in Byte /\ k[i] \in Byte /\ r[i] \in Byte /\ s[i] \in Byte
    BY <1>3, <2>1
  <2>4. c[i + 1] = xtime(c[i])
    <3>1. xtime(Xor(m[i], k[i])) = Xor(xtime(m[i]), xtime(k[i]))
      BY <2>6, XtimeLinear
    <3> HIDE DEF c, t
    <3> QED
      BY <2>2, <2>3, <3>1
  <2>5. Xor(Xor(r[i], m[i]), Xor(s[i], k[i])) = Xor(Xor(r[i], s[i]), Xor(m[i], k[i]))
    BY <2>6, XorSwap
  <2> QED
    BY <2>2, <2>3, <2>4, <2>5
<1> HIDE DEF c, t
<1>6. Rounds(Xor(f, g), x, c, t)
  BY <1>4, <1>5 DEF Rounds
<1>7. Xor(f, g) \in Byte
  BY XorLaws
<1>8. mul(Xor(f, g), x) = t[8]
  BY <1>6, <1>7, MulIs
<1>9. t[8] = Xor(r[8], s[8]) /\ r[8] \in Byte
  BY <1>3 DEF t
<1> QED
  BY <1>1, <1>2, <1>8, <1>9

LEMMA MulOfTwice ==
  ASSUME NEW f \in Byte, NEW x \in Byte
  PROVE  mul(xtime(f), x) = xtime(mul(f, x))
<1>1. PICK m, r : Rounds(f, x, m, r) /\ mul(f, x) = r[8]
  BY RoundsOfMul
<1> DEFINE c == [i \in 0 .. 8 |-> xtime(m[i])]
           t == [i \in 0 .. 8 |-> xtime(r[i])]
<1>2. \A i \in 0 .. 8 : m[i] \in Byte /\ r[i] \in Byte
  BY <1>1 DEF Rounds
<1>3. c \in [0 .. 8 -> Byte] /\ t \in [0 .. 8 -> Byte] /\ c[0] = xtime(f) /\ t[0] = 0
  <2>1. m[0] = f /\ r[0] = 0 /\ 0 \in Byte
    BY <1>1, XorLaws DEF Rounds
  <2>2. xtime(0) = 0
    <3>1. xtime(0) = Xor(0, 0)
      BY DEF xtime
    <3> QED
      BY <2>1, <3>1, XorLaws
  <2> QED
    BY <1>2, <2>1, <2>2, XtimeLinear
<1>4. ASSUME NEW i \in 0 .. 7
      PROVE  /\ c[i + 1] = xtime(c[i])
             /\ t[i + 1] = IF Bit(x, i) = 1 THEN Xor(t[i], c[i]) ELSE t[i]
  <2>1. i \in 0 .. 8 /\ i + 1 \in 0 .. 8
    OBVIOUS
  <2>2. /\ m[i + 1] = xtime(m[i])
        /\ r[i + 1] = IF Bit(x, i) = 1 THEN Xor(r[i], m[i]) ELSE r[i]
    BY <1>1 DEF Rounds
  <2>3. c[i] = xtime(m[i]) /\ c[i + 1] = xtime(m[i + 1])
        /\ t[i] = xtime(r[i]) /\ t[i + 1] = xtime(r[i + 1])
    BY <2>1
  <2>4. xtime(Xor(r[i], m[i])) = Xor(xtime(r[i]), xtime(m[i]))
    BY <1>2, <2>1, XtimeLinear
  <2> QED
    BY <2>2, <2>3, <2>4
<1> HIDE DEF c, t
<1>5. Rounds(xtime(f), x, c, t)
  BY <1>3, <1>4 DEF Rounds
<1>6. xtime(f) \in Byte
  BY XtimeLinear
<1>7. mul(xtime(f), x) = t[8]
  BY <1>5, <1>6, MulIs
<1>8. t[8] = xtime(r[8])
  BY DEF t
<1> QED
  BY <1>1, <1>7, <1>8

LEMMA XtimeShifts ==
  ASSUME NEW x \in Byte, Bit(x, 7) = 0, NEW i \in 0 .. 7
  PROVE  Bit(xtime(x), i) = IF i = 0 THEN 0 ELSE Bit(x, i - 1)
<1>1. i \in {0, 1, 2, 3, 4, 5, 6, 7}
  OBVIOUS
<1>2. \A j \in 0 .. 7 : Bit(x, j) \in {0, 1}
  BY BitsOfByte
<1> QED
  BY <1>1, <1>2, XtimeBits DEF Sum2

LEMMA MulOfOne ==
  ASSUME NEW x \in Byte
  PROVE  mul(1, x) = x
<1>1. 1 \in Byte /\ \A j \in 0 .. 7 : Bit(1, j) = IF j = 0 THEN 1 ELSE 0
  <2>1. \A j \in 0 .. 7 : j \in {0, 1, 2, 3, 4, 5, 6, 7}
    OBVIOUS
  <2> QED
    BY <2>1, PowersOf2 DEF Bit, Byte
<1>2. PICK m, r : Rounds(1, x, m, r) /\ mul(1, x) = r[8]
  BY <1>1, RoundsOfMul
<1> DEFINE S == {i \in 0 .. 8 :
                   /\ i < 8 => \A j \in 0 .. 7 : Bit(m[i], j) = IF j = i THEN 1 ELSE 0
                   /\ \A j \in 0 .. 7 : Bit(r[i], j) = IF j < i THEN Bit(x, j) ELSE 0}
<1>3. 0 \in S /\ 8 \in Nat
  <2>1. \A j \in 0 .. 7 : Bit(0, j) = 0
    BY BitsOfZero
  <2> QED
    BY <1>1, <1>2, <2>1 DEF Rounds
<1>4. ASSUME NEW i \in 0 .. (8 - 1), i \in S PROVE i + 1 \in S
  <2>1. /\ i \in 0 .. 7 /\ m[i] \in Byte /\ r[i] \in Byte /\ m[i + 1] = xtime(m[i])
        /\ r[i + 1] = IF Bit(x, i) = 1 THEN Xor(r[i], m[i]) ELSE r[i]
    BY <1>2 DEF Rounds
  <2>2. \A j \in 0 .. 7 : /\ Bit(m[i], j) = IF j = i THEN 1 ELSE 0
                          /\ Bit(r[i], j) = IF j < i THEN Bit(x, j) ELSE 0
    BY <1>4
  <2>3. ASSUME i < 7, NEW j \in 0 .. 7 PROVE Bit(m[i + 1], j) = IF j = i + 1 THEN 1 ELSE 0
    <3>1. Bit(m[i], 7) = 0
      BY <2>2, <2>3
    <3>2. Bit(m[i + 1], j) = IF j = 0 THEN 0 ELSE Bit(m[i], j - 1)
      BY <2>1, <3>1, XtimeShifts
    <3>3. CASE j = 0
      BY <2>1, <3>2, <3>3
    <3>4. CASE j # 0
      <4>1. j - 1 \in 0 .. 7
        BY <3>4
      <4> QED
        BY <2>1, <2>2, <3>2, <3>4, <4>1
    <3> QED
      BY <3>3, <3>4
  <2>4. ASSUME NEW j \in 0 .. 7 PROVE Bit(r[i + 1], j) = IF j < i + 1 THEN Bit(x, j) ELSE 0
    <3>1. Bit(Xor(r[i], m[i]), j) = Sum2(Bit(r[i], j), Bit(m[i], j)) /\ Bit(x, j) \in {0, 1}
          /\ Bit(x, i) \in {0, 1}
      BY <2>1, XorBits, BitsOfByte
    <3>2. j < i + 1 <=> j < i \/ j = i
      BY <2>1
    <3> QED
      BY <2>1, <2>2, <3>1, <3>2 DEF Sum2
  <2>5. i + 1 \in 0 .. 8 /\ (i + 1 < 8 => i < 7)
    BY <2>1
  <2> QED
    BY <2>3, <2>4, <2>5
<1>5. \A i \in 0 .. 8 : i \in S
  <2> HIDE DEF S
  <2> QED
    BY <1>3, <1>4, UpTo
<1>6. \A j \in 0 .. 7 : Bit(r[8], j) = Bit(x, j)
  BY <1>5
<1>7. r[8] \in Byte
  BY <1>2 DEF Rounds
<1> QED
  BY <1>2, <1>6, <1>7, SameByte

\* The four factors of inv_mix_columns, as sums of doublings.
LEMMA MulOfFactors ==
  ASSUME NEW x \in Byte
  PROVE  /\ mul(9, x) = Xor(xtime(xtime(xtime(x))), x)
         /\ mul(11, x) = Xor(mul(9, x), xtime(x))
         /\ mul(13, x) = Xor(mul(9, x), xtime(xtime(x)))
         /\ mul(14, x) = Xor(Xor(xtime(xtime(xtime(x))), xtime(xtime(x))), xtime(x))
<1>1. /\ 1 \in Byte /\ 2 \in Byte /\ 4 \in Byte /\ 8 \in Byte /\ 9 \in Byte /\ 12 \in Byte /\ 0 \in Byte
  BY DEF Byte
<1>2. 2 = xtime(1) /\ 4 = xtime(2) /\ 8 = xtime(4)
  <2>1. xtime(1) = Xor(2, 0) /\ xtime(2) = Xor(4, 0) /\ xtime(4) = Xor(8, 0)
    BY DEF xtime
  <2> QED
    BY <1>1, <2>1, XorLaws
<1>3. 9 = Xor(8, 1) /\ 11 = Xor(9, 2) /\ 13 = Xor(9, 4) /\ 12 = Xor(8, 4) /\ 14 = Xor(12, 2)
  BY PowersOf2 DEF Xor, XorTable, Nibble, Bit
<1>4. mul(2, x) = xtime(x) /\ mul(4, x) = xtime(xtime(x)) /\ mul(8, x) = xtime(xtime(xtime(x)))
  BY <1>1, <1>2, MulOfTwice, MulOfOne
<1>5. mul(9, x) = Xor(mul(8, x), mul(1, x)) /\ mul(11, x) = Xor(mul(9, x), mul(2, x))
      /\ mul(13, x) = Xor(mul(9, x), mul(4, x)) /\ mul(12, x) = Xor(mul(8, x), mul(4, x))
      /\ mul(14, x) = Xor(mul(12, x), mul(2, x))
  BY <1>1, <1>3, MulOfSum
<1> QED
  BY <1>4, <1>5, MulOfOne

LEMMA FactorsLinear ==
  ASSUME NEW x \in Byte, NEW y \in Byte, NEW k \in {9, 11, 13, 14}
  PROVE  mul(k, x) \in Byte /\ mul(k, Xor(x, y)) = Xor(mul(k, x), mul(k, y))
<1> DEFINE z == Xor(x, y)
<1>1. /\ z \in Byte /\ xtime(z) = Xor(xtime(x), xtime(y)) /\ xtime(x) \in Byte /\ xtime(y) \in Byte
  BY XorLaws, XtimeLinear
<1>2. /\ xtime(xtime(z)) = Xor(xtime(xtime(x)), xtime(xtime(y)))
      /\ xtime(xtime(x)) \in Byte /\ xtime(xtime(y)) \in Byte
  BY <1>1, XtimeLinear
<1>3. /\ xtime(xtime(xtime(z))) = Xor(xtime(xtime(xtime(x))), xtime(xtime(xtime(y))))
      /\ xtime(xtime(xtime(x))) \in Byte /\ xtime(xtime(xtime(y))) \in Byte
  BY <1>2, XtimeLinear
<1>4. mul(9, z) = Xor(mul(9, x), mul(9, y)) /\ mul(9, x) \in Byte /\ mul(9, y) \in Byte
  BY <1>1, <1>3, MulOfFactors, XorSwap, XorLaws
<1>5. mul(11, z) = Xor(mul(11, x), mul(11, y)) /\ mul(11, x) \in Byte
  BY <1>1, <1>4, MulOfFactors, XorSwap, XorLaws
<1>6. mul(13, z) = Xor(mul(13, x), mul(13, y)) /\ mul(13, x) \in Byte
  BY <1>1, <1>2, <1>4, MulOfFactors, XorSwap, XorLaws
<1>7. mul(14, z) = Xor(mul(14, x), mul(14, y)) /\ mul(14, x) \in Byte
  <2> DEFINE u(w) == Xor(xtime(xtime(xtime(w))), xtime(xtime(w)))
  <2>1. u(z) = Xor(u(x), u(y)) /\ u(x) \in Byte /\ u(y) \in Byte
    BY <1>2, <1>3, XorSwap, XorLaws
  <2>2. mul(14, x) = Xor(u(x), xtime(x)) /\ mul(14, y) = Xor(u(y), xtime(y))
        /\ mul(14, z) = Xor(u(z), xtime(z))
    BY <1>1, MulOfFactors
  <2> HIDE DEF u
  <2> QED
    BY <1>1, <2>1, <2>2, XorSwap, XorLaws
<1> QED
  BY <1>4, <1>5, <1>6, <1>7

Sum4(x, y, z, u) == Xor(Xor(x, y), Xor(z, u))

LEMMA Sum4Bits ==
  ASSUME NEW x \in Byte, NEW y \in Byte, NEW z \in Byte, NEW u \in Byte
  PROVE  /\ Sum4(x, y, z, u) \in Byte
         /\ \A i \in 0 .. 7 : Bit(Sum4(x, y, z, u), i)
                                = Sum2(Sum2(Bit(x, i), Bit(y, i)), Sum2(Bit(z, i), Bit(u, i)))
<1>1. Xor(x, y) \in Byte /\ Xor(z, u) \in Byte
  BY XorBits
<1> QED
  BY <1>1, XorBits DEF Sum4

\* In the product of the matrices of inv_mix_columns and mix_columns, the
\* diagonal is 1 and everything else is 0.
LEMMA MatricesInvert ==
  ASSUME NEW x \in Byte, NEW two, two = xtime(x), NEW three, three = Xor(xtime(x), x)
  PROVE  /\ two \in Byte /\ three \in Byte
         /\ Sum4(mul(14, two), mul(11, x), mul(13, x), mul(9, three)) = x
         /\ Sum4(mul(14, three), mul(11, two), mul(13, x), mul(9, x)) = 0
         /\ Sum4(mul(14, x), mul(11, three), mul(13, two), mul(9, x)) = 0
         /\ Sum4(mul(14, x), mul(11, x), mul(13, three), mul(9, two)) = 0
<1> DEFINE x2 == xtime(two)
           x3 == xtime(x2)
           x4 == xtime(x3)
<1>1. two \in Byte /\ three \in Byte /\ x2 \in Byte /\ x3 \in Byte /\ x4 \in Byte
  BY XtimeLinear, XorLaws
<1>2. /\ mul(9, x) = Xor(x3, x) /\ mul(11, x) = Xor(mul(9, x), two)
      /\ mul(13, x) = Xor(mul(9, x), x2) /\ mul(14, x) = Xor(Xor(x3, x2), two)
  BY MulOfFactors
<1>3. /\ mul(9, two) = Xor(x4, two) /\ mul(11, two) = Xor(mul(9, two), x2)
      /\ mul(13, two) = Xor(mul(9, two), x3) /\ mul(14, two) = Xor(Xor(x4, x3), x2)
  BY <1>1, MulOfFactors
<1>4. /\ mul(9, three) = Xor(mul(9, two), mul(9, x)) /\ mul(11, three) = Xor(mul(11, two), mul(11, x))
      /\ mul(13, three) = Xor(mul(13, two), mul(13, x)) /\ mul(14, three) = Xor(mul(14, two), mul(14, x))
  BY <1>1, FactorsLinear
<1>5. \A k \in {9, 11, 13, 14} : mul(k, x) \in Byte /\ mul(k, two) \in Byte /\ mul(k, three) \in Byte
  BY <1>1, FactorsLinear
<1> HIDE DEF x2, x3, x4
<1> DEFINE s1 == Sum4(mul(14, two), mul(11, x), mul(13, x), mul(9, three))
           s2 == Sum4(mul(14, three), mul(11, two), mul(13, x), mul(9, x))
           s3 == Sum4(mul(14, x), mul(11, three), mul(13, two), mul(9, x))
           s4 == Sum4(mul(14, x), mul(11, x), mul(13, three), mul(9, two))
<1>6. s1 \in Byte /\ s2 \in Byte /\ s3 \in Byte /\ s4 \in Byte /\ 0 \in Byte
  BY <1>5, Sum4Bits, XorLaws
<1>7. ASSUME NEW i \in 0 .. 7
      PROVE  Bit(s1, i) = Bit(x, i) /\ Bit(s2, i) = 0 /\ Bit(s3, i) = 0 /\ Bit(s4, i) = 0
  <2>1. PICK v0 \in {0, 1}, v1 \in {0, 1}, v2 \in {0, 1}, v3 \in {0, 1}, v4 \in {0, 1} :
          v0 = Bit(x, i) /\ v1 = Bit(two, i) /\ v2 = Bit(x2, i) /\ v3 = Bit(x3, i) /\ v4 = Bit(x4, i)
    BY <1>1, BitsOfByte
  <2> DEFINE n0 == Sum2(v3, v0)
             n1 == Sum2(v4, v1)
             e0 == Sum2(n0, v1)
             e1 == Sum2(n1, v2)
             t0 == Sum2(n0, v2)
             t1 == Sum2(n1, v3)
             f0 == Sum2(Sum2(v3, v2), v1)
             f1 == Sum2(Sum2(v4, v3), v2)
  <2>2. /\ Bit(mul(9, x), i) = n0 /\ Bit(mul(9, two), i) = n1
    BY <1>1, <1>2, <1>3, <2>1, XorBits
  <2>3. /\ Bit(mul(11, x), i) = e0 /\ Bit(mul(11, two), i) = e1
        /\ Bit(mul(13, x), i) = t0 /\ Bit(mul(13, two), i) = t1
    BY <1>1, <1>2, <1>3, <1>5, <2>1, <2>2, XorBits
  <2>4. /\ Bit(mul(14, x), i) = f0 /\ Bit(mul(14, two), i) = f1
    <3>1. Xor(x3, x2) \in Byte /\ Xor(x4, x3) \in Byte
          /\ Bit(Xor(x3, x2), i) = Sum2(v3, v2) /\ Bit(Xor(x4, x3), i) = Sum2(v4, v3)
      BY <1>1, <2>1, XorBits
    <3> QED
      BY <1>1, <1>2, <1>3, <2>1, <3>1, XorBits
  <2>5. /\ Bit(mul(9, three), i) = Sum2(n1, n0) /\ Bit(mul(11, three), i) = Sum2(e1, e0)
        /\ Bit(mul(13, three), i) = Sum2(t1, t0) /\ Bit(mul(14, three), i) = Sum2(f1, f0)
    <3> HIDE DEF n0, n1, e0, e1, t0, t1, f0, f1
    <3> QED
      BY <1>4, <1>5, <2>2, <2>3, <2>4, XorBits
  <2>6. /\ Bit(s1, i) = Sum2(Sum2(f1, e0), Sum2(t0, Sum2(n1, n0)))
        /\ Bit(s2, i) = Sum2(Sum2(Sum2(f1, f0), e1), Sum2(t0, n0))
        /\ Bit(s3, i) = Sum2(Sum2(f0, Sum2(e1, e0)), Sum2(t1, n0))
        /\ Bit(s4, i) = Sum2(Sum2(f0, e0), Sum2(Sum2(t1, t0), n1))
    <3> HIDE DEF n0, n1, e0, e1, t0, t1, f0, f1
    <3> QED
      BY <1>5, <2>2, <2>3, <2>4, <2>5, Sum4Bits
  <2>7. /\ Sum2(Sum2(f1, e0), Sum2(t0, Sum2(n1, n0))) = v0
        /\ Sum2(Sum2(Sum2(f1, f0), e1), Sum2(t0, n0)) = 0
        /\ Sum2(Sum2(f0, Sum2(e1, e0)), Sum2(t1, n0)) = 0
        /\ Sum2(Sum2(f0, e0), Sum2(Sum2(t1, t0), n1)) = 0
    BY DEF Sum2
  <2> HIDE DEF n0, n1, e0, e1, t0, t1, f0, f1, s1, s2, s3, s4
  <2> QED
    BY <2>1, <2>6, <2>7
<1> HIDE DEF s1, s2, s3, s4
<1>8. s1 = x /\ s2 = 0 /\ s3 = 0 /\ s4 = 0
  BY <1>6, <1>7, BitsOfZero, SameByte
<1> QED
  BY <1>1, <1>8 DEF s1, s2, s3, s4

LEMMA Sum4Laws ==
  ASSUME NEW x \in Byte, NEW y \in Byte, NEW z \in Byte, NEW u \in Byte
  PROVE  /\ Sum4(x, y, z, u) \in Byte
         /\ Sum4(x, y, z, u) = Sum4(u, x, y, z) /\ Sum4(x, 0, 0, 0) = x
<1>1. 0 \in Byte /\ \A i \in 0 .. 7 : Bit(0, i) = 0
  BY BitsOfZero
<1>2. Sum4(x, y, z, u) \in Byte /\ Sum4(u, x, y, z) \in Byte /\ Sum4(x, 0, 0, 0) \in Byte
  BY <1>1, Sum4Bits
<1>3. ASSUME NEW i \in 0 .. 7
      PROVE  /\ Bit(Sum4(x, y, z, u), i) = Bit(Sum4(u, x, y, z), i)
             /\ Bit(Sum4(x, 0, 0, 0), i) = Bit(x, i)
  <2>1. PICK v1 \in {0, 1}, v2 \in {0, 1}, v3 \in {0, 1}, v4 \in {0, 1} :
          v1 = Bit(x, i) /\ v2 = Bit(y, i) /\ v3 = Bit(z, i) /\ v4 = Bit(u, i)
    BY BitsOfByte
  <2>2. /\ Bit(Sum4(x, y, z, u), i) = Sum2(Sum2(v1, v2), Sum2(v3, v4))
        /\ Bit(Sum4(u, x, y, z), i) = Sum2(Sum2(v4, v1), Sum2(v2, v3))
        /\ Bit(Sum4(x, 0, 0, 0), i) = Sum2(Sum2(v1, 0), Sum2(0, 0))
    BY <1>1, <2>1, Sum4Bits
  <2> QED
    BY <2>1, <2>2 DEF Sum2
<1> QED
  BY <1>2, <1>3, SameByte

Bytes4(x, y, z, u) == x \in Byte /\ y \in Byte /\ z \in Byte /\ u \in Byte

LEMMA XorOfSum4 ==
  ASSUME NEW x1, NEW x2, NEW x3, NEW x4, NEW y1, NEW y2, NEW y3, NEW y4,
         Bytes4(x1, x2, x3, x4), Bytes4(y1, y2, y3, y4)
  PROVE  /\ Xor(Sum4(x1, x2, x3, x4), Sum4(y1, y2, y3, y4))
              = Sum4(Xor(x1, y1), Xor(x2, y2), Xor(x3, y3), Xor(x4, y4))
         /\ Bytes4(Xor(x1, y1), Xor(x2, y2), Xor(x3, y3), Xor(x4, y4))
<1>1. /\ x1 \in Byte /\ x2 \in Byte /\ x3 \in Byte /\ x4 \in Byte
      /\ y1 \in Byte /\ y2 \in Byte /\ y3 \in Byte /\ y4 \in Byte
  BY DEF Bytes4
<1>2. PICK l1 \in Byte, l2 \in Byte, r1 \in Byte, r2 \in Byte :
        l1 = Xor(x1, x2) /\ l2 = Xor(x3, x4) /\ r1 = Xor(y1, y2) /\ r2 = Xor(y3, y4)
  BY <1>1, XorBits
<1>3. Xor(Xor(l1, l2), Xor(r1, r2)) = Xor(Xor(l1, r1), Xor(l2, r2))
  BY ONLY <1>2, XorSwap
<1>4. Xor(l1, r1) = Xor(Xor(x1, y1), Xor(x2, y2))
  BY <1>1, <1>2, XorSwap
<1>5. Xor(l2, r2) = Xor(Xor(x3, y3), Xor(x4, y4))
  BY <1>1, <1>2, XorSwap
<1>6. Bytes4(Xor(x1, y1), Xor(x2, y2), Xor(x3, y3), Xor(x4, y4))
  BY <1>1, XorBits DEF Bytes4
<1> QED
  BY ONLY <1>2, <1>3, <1>4, <1>5, <1>6, Zenon DEF Sum4

\* Sums of four sums of four, by rows and by columns.
LEMMA Sum4Swap ==
  ASSUME NEW x1, NEW x2, NEW x3, NEW x4, NEW y1, NEW y2, NEW y3, NEW y4,
         NEW z1, NEW z2, NEW z3, NEW z4, NEW u1, NEW u2, NEW u3, NEW u4,
         Bytes4(x1, x2, x3, x4), Bytes4(y1, y2, y3, y4),
         Bytes4(z1, z2, z3, z4), Bytes4(u1, u2, u3, u4)
  PROVE  Sum4(Sum4(x1, x2, x3, x4), Sum4(y1, y2, y3, y4), Sum4(z1, z2, z3, z4), Sum4(u1, u2, u3, u4))
           = Sum4(Sum4(x1, y1, z1, u1), Sum4(x2, y2, z2, u2), Sum4(x3, y3, z3, u3), Sum4(x4, y4, z4, u4))
<1>1. /\ Xor(Sum4(x1, x2, x3, x4), Sum4(y1, y2, y3, y4))
           = Sum4(Xor(x1, y1), Xor(x2, y2), Xor(x3, y3), Xor(x4, y4))
      /\ Bytes4(Xor(x1, y1), Xor(x2, y2), Xor(x3, y3), Xor(x4, y4))
  BY XorOfSum4
<1>2. /\ Xor(Sum4(z1, z2, z3, z4), Sum4(u1, u2, u3, u4))
           = Sum4(Xor(z1, u1), Xor(z2, u2), Xor(z3, u3), Xor(z4, u4))
      /\ Bytes4(Xor(z1, u1), Xor(z2, u2), Xor(z3, u3), Xor(z4, u4))
  BY XorOfSum4
<1>3. Xor(Sum4(Xor(x1, y1), Xor(x2, y2), Xor(x3, y3), Xor(x4, y4)),
          Sum4(Xor(z1, u1), Xor(z2, u2), Xor(z3, u3), Xor(z4, u4)))
        = Sum4(Sum4(x1, y1, z1, u1), Sum4(x2, y2, z2, u2), Sum4(x3, y3, z3, u3), Sum4(x4, y4, z4, u4))
  <2>1. \A x, y, z, u : Sum4(x, y, z, u) = Xor(Xor(x, y), Xor(z, u))
    BY DEF Sum4
  <2> QED
    BY ONLY <1>1, <1>2, <2>1, XorOfSum4
<1>4. Sum4(Sum4(x1, x2, x3, x4), Sum4(y1, y2, y3, y4), Sum4(z1, z2, z3, z4), Sum4(u1, u2, u3, u4))
        = Xor(Xor(Sum4(x1, x2, x3, x4), Sum4(y1, y2, y3, y4)),
              Xor(Sum4(z1, z2, z3, z4), Sum4(u1, u2, u3, u4)))
  BY ONLY Zenon DEF Sum4
<1> QED
  BY ONLY <1>1, <1>2, <1>3, <1>4

LEMMA FactorsOfSum4 ==
  ASSUME NEW x \in Byte, NEW y \in Byte, NEW z \in Byte, NEW u \in Byte, NEW k \in {9, 11, 13, 14}
  PROVE  mul(k, Sum4(x, y, z, u)) = Sum4(mul(k, x), mul(k, y), mul(k, z), mul(k, u))
<1>1. Xor(x, y) \in Byte /\ Xor(z, u) \in Byte
  BY XorBits
<1>2. mul(k, Xor(x, y)) = Xor(mul(k, x), mul(k, y)) /\ mul(k, Xor(z, u)) = Xor(mul(k, z), mul(k, u))
  BY FactorsLinear
<1>3. mul(k, Xor(Xor(x, y), Xor(z, u))) = Xor(mul(k, Xor(x, y)), mul(k, Xor(z, u)))
  BY <1>1, FactorsLinear
<1> QED
  BY <1>2, <1>3 DEF Sum4

\* The byte that mix_columns puts where x is, with y, z and u below it.
Mixed(x, y, z, u) == Xor(Xor(xtime(x), Xor(xtime(y), y)), Xor(z, u))

LEMMA ColumnComesBack ==
  ASSUME NEW x \in Byte, NEW y \in Byte, NEW z \in Byte, NEW u \in Byte
  PROVE  /\ Mixed(x, y, z, u) \in Byte
         /\ Xor(Xor(mul(14, Mixed(x, y, z, u)), mul(11, Mixed(y, z, u, x))),
                Xor(mul(13, Mixed(z, u, x, y)), mul(9, Mixed(u, x, y, z)))) = x
<1> DEFINE two(w) == xtime(w)
           three(w) == Xor(xtime(w), w)
<1>1. \A w \in Byte : /\ two(w) \in Byte /\ three(w) \in Byte
                      /\ \A k \in {9, 11, 13, 14} : mul(k, w) \in Byte
  BY XtimeLinear, XorLaws, FactorsLinear
<1>2. \A w \in Byte :
        /\ Sum4(mul(14, two(w)), mul(11, w), mul(13, w), mul(9, three(w))) = w
        /\ Sum4(mul(14, three(w)), mul(11, two(w)), mul(13, w), mul(9, w)) = 0
        /\ Sum4(mul(14, w), mul(11, three(w)), mul(13, two(w)), mul(9, w)) = 0
        /\ Sum4(mul(14, w), mul(11, w), mul(13, three(w)), mul(9, two(w))) = 0
  BY MatricesInvert
<1>3. /\ Mixed(x, y, z, u) = Sum4(two(x), three(y), z, u)
      /\ Mixed(y, z, u, x) = Sum4(two(y), three(z), u, x)
      /\ Mixed(z, u, x, y) = Sum4(two(z), three(u), x, y)
      /\ Mixed(u, x, y, z) = Sum4(two(u), three(x), y, z)
  BY DEF Mixed, Sum4
<1> HIDE DEF two, three
<1>4. /\ Mixed(y, z, u, x) = Sum4(x, two(y), three(z), u)
      /\ Mixed(z, u, x, y) = Sum4(x, y, two(z), three(u))
      /\ Mixed(u, x, y, z) = Sum4(three(x), y, z, two(u))
  <2>1. Sum4(two(y), three(z), u, x) = Sum4(x, two(y), three(z), u)
    BY <1>1, Sum4Laws
  <2>2. Sum4(two(z), three(u), x, y) = Sum4(y, two(z), three(u), x)
        /\ Sum4(y, two(z), three(u), x) = Sum4(x, y, two(z), three(u))
    BY <1>1, Sum4Laws
  <2>3. Sum4(three(x), y, z, two(u)) = Sum4(two(u), three(x), y, z)
    BY <1>1, Sum4Laws
  <2> QED
    BY <1>3, <2>1, <2>2, <2>3
<1>5. /\ mul(14, Mixed(x, y, z, u)) = Sum4(mul(14, two(x)), mul(14, three(y)), mul(14, z), mul(14, u))
      /\ mul(11, Mixed(y, z, u, x)) = Sum4(mul(11, x), mul(11, two(y)), mul(11, three(z)), mul(11, u))
      /\ mul(13, Mixed(z, u, x, y)) = Sum4(mul(13, x), mul(13, y), mul(13, two(z)), mul(13, three(u)))
      /\ mul(9, Mixed(u, x, y, z)) = Sum4(mul(9, three(x)), mul(9, y), mul(9, z), mul(9, two(u)))
  <2>1. /\ two(x) \in Byte /\ three(x) \in Byte /\ two(y) \in Byte /\ three(y) \in Byte
        /\ two(z) \in Byte /\ three(z) \in Byte /\ two(u) \in Byte /\ three(u) \in Byte
    BY <1>1
  <2>2. mul(14, Mixed(x, y, z, u)) = Sum4(mul(14, two(x)), mul(14, three(y)), mul(14, z), mul(14, u))
    BY <1>3, <2>1, FactorsOfSum4
  <2>3. mul(11, Mixed(y, z, u, x)) = Sum4(mul(11, x), mul(11, two(y)), mul(11, three(z)), mul(11, u))
    BY <1>4, <2>1, FactorsOfSum4
  <2>4. mul(13, Mixed(z, u, x, y)) = Sum4(mul(13, x), mul(13, y), mul(13, two(z)), mul(13, three(u)))
    BY <1>4, <2>1, FactorsOfSum4
  <2>5. mul(9, Mixed(u, x, y, z)) = Sum4(mul(9, three(x)), mul(9, y), mul(9, z), mul(9, two(u)))
    BY <1>4, <2>1, FactorsOfSum4
  <2> QED
    BY <2>2, <2>3, <2>4, <2>5
<1>6. Sum4(mul(14, Mixed(x, y, z, u)), mul(11, Mixed(y, z, u, x)),
           mul(13, Mixed(z, u, x, y)), mul(9, Mixed(u, x, y, z)))
        = Sum4(Sum4(mul(14, two(x)), mul(11, x), mul(13, x), mul(9, three(x))),
               Sum4(mul(14, three(y)), mul(11, two(y)), mul(13, y), mul(9, y)),
               Sum4(mul(14, z), mul(11, three(z)), mul(13, two(z)), mul(9, z)),
               Sum4(mul(14, u), mul(11, u), mul(13, three(u)), mul(9, two(u))))
  <2>1. /\ two(x) \in Byte /\ three(x) \in Byte /\ two(y) \in Byte /\ three(y) \in Byte
        /\ two(z) \in Byte /\ three(z) \in Byte /\ two(u) \in Byte /\ three(u) \in Byte
    BY ONLY <1>1, x \in Byte, y \in Byte, z \in Byte, u \in Byte
  <2>2. /\ Bytes4(mul(14, two(x)), mul(14, three(y)), mul(14, z), mul(14, u))
        /\ Bytes4(mul(11, x), mul(11, two(y)), mul(11, three(z)), mul(11, u))
        /\ Bytes4(mul(13, x), mul(13, y), mul(13, two(z)), mul(13, three(u)))
        /\ Bytes4(mul(9, three(x)), mul(9, y), mul(9, z), mul(9, two(u)))
    BY <1>1, <2>1 DEF Bytes4
  <2> QED
    BY ONLY <1>5, <2>2, Sum4Swap
<1>7. Sum4(x, 0, 0, 0) = x
  BY Sum4Laws
<1>8. Sum4(mul(14, Mixed(x, y, z, u)), mul(11, Mixed(y, z, u, x)),
           mul(13, Mixed(z, u, x, y)), mul(9, Mixed(u, x, y, z))) = x
  BY <1>2, <1>6, <1>7
<1>9. Mixed(x, y, z, u) \in Byte
  BY <1>1, <1>3, Sum4Laws
<1> QED
  BY <1>8, <1>9 DEF Sum4

-----------------------------------------------------------------------------
(* Matrices.                                                               *)

Matrix == [Cells -> Byte]
Word == [1 .. 4 -> Byte]

\* add_state_round with the words it takes the key of the round from.
AddKey(w, s, r) == [c \in Cells |-> Xor(s[c], w[4 * r + c[2] + 1][c[1] + 1])]
IsSchedule(w) == w \in Seq(Word) /\ Len(w) = 44

LEMMA CellOf ==
  ASSUME NEW c \in Cells
  PROVE  c[1] \in 0 .. 3 /\ c[2] \in 0 .. 3 /\ c = <<c[1], c[2]>>
BY DEF Cells

LEMMA CellIs ==
  ASSUME NEW x \in 0 .. 3, NEW y \in 0 .. 3
  PROVE  <<x, y>> \in Cells /\ <<x, y>>[1] = x /\ <<x, y>>[2] = y
BY DEF Cells

LEMMA Substituted ==
  \A x \in Byte : /\ sbox[x + 1] \in Byte /\ inv_sbox[x + 1] \in Byte
                  /\ inv_sbox[sbox[x + 1] + 1] = x
BY DEF sbox, inv_sbox, Byte

LEMMA KeyBytes ==
  ASSUME NEW w, IsSchedule(w), NEW r \in 0 .. 10, NEW c \in Cells
  PROVE  w[4 * r + c[2] + 1][c[1] + 1] \in Byte
<1>1. c[1] \in 0 .. 3 /\ c[2] \in 0 .. 3
  BY CellOf
<1>2. 4 * r + c[2] + 1 \in 1 .. 44 /\ c[1] + 1 \in 1 .. 4
  BY <1>1
<1>3. \A k \in 1 .. 44 : w[k] \in Word
  BY ElementOfSeq DEF IsSchedule
<1> QED
  BY <1>2, <1>3 DEF Word

LEMMA AddKeyTwice ==
  ASSUME NEW w, IsSchedule(w), NEW r \in 0 .. 10, NEW s \in Matrix
  PROVE  AddKey(w, s, r) \in Matrix /\ AddKey(w, AddKey(w, s, r), r) = s
<1>1. ASSUME NEW c \in Cells
      PROVE  /\ AddKey(w, s, r)[c] \in Byte
             /\ AddKey(w, AddKey(w, s, r), r)[c] = s[c]
  <2>1. PICK k \in Byte : k = w[4 * r + c[2] + 1][c[1] + 1]
    BY KeyBytes
  <2>2. s[c] \in Byte
    BY DEF Matrix
  <2>3. AddKey(w, s, r)[c] = Xor(s[c], k)
    BY <2>1 DEF AddKey
  <2>4. AddKey(w, AddKey(w, s, r), r)[c] = Xor(AddKey(w, s, r)[c], k)
    BY <2>1 DEF AddKey
  <2>5. Xor(s[c], k) \in Byte /\ Xor(Xor(s[c], k), k) = Xor(s[c], Xor(k, k))
        /\ Xor(k, k) = 0 /\ Xor(s[c], 0) = s[c]
    BY <2>1, <2>2, XorLaws, XorAssociative
  <2> QED
    BY <2>3, <2>4, <2>5
<1>2. AddKey(w, s, r) = [c \in Cells |-> AddKey(w, s, r)[c]]
      /\ AddKey(w, AddKey(w, s, r), r) = [c \in Cells |-> AddKey(w, AddKey(w, s, r), r)[c]]
      /\ s = [c \in Cells |-> s[c]]
  BY DEF AddKey, Matrix
<1> QED
  BY <1>1, <1>2 DEF Matrix

LEMMA SubBack ==
  ASSUME NEW s \in Matrix
  PROVE  /\ sub_bytes(s) \in Matrix /\ inv_sub_bytes(s) \in Matrix
         /\ inv_sub_bytes(sub_bytes(s)) = s
<1>1. ASSUME NEW c \in Cells
      PROVE  /\ sub_bytes(s)[c] \in Byte /\ inv_sub_bytes(s)[c] \in Byte
             /\ inv_sub_bytes(sub_bytes(s))[c] = s[c]
  <2>1. s[c] \in Byte
    BY DEF Matrix
  <2>2. sub_bytes(s)[c] = sbox[s[c] + 1] /\ inv_sub_bytes(s)[c] = inv_sbox[s[c] + 1]
        /\ inv_sub_bytes(sub_bytes(s))[c] = inv_sbox[sub_bytes(s)[c] + 1]
    BY DEF sub_bytes, inv_sub_bytes
  <2> QED
    BY <2>1, <2>2, Substituted
<1>2. /\ sub_bytes(s) = [c \in Cells |-> sub_bytes(s)[c]]
      /\ inv_sub_bytes(s) = [c \in Cells |-> inv_sub_bytes(s)[c]]
      /\ inv_sub_bytes(sub_bytes(s)) = [c \in Cells |-> inv_sub_bytes(sub_bytes(s))[c]]
      /\ s = [c \in Cells |-> s[c]]
  BY DEF sub_bytes, inv_sub_bytes, Matrix
<1> QED
  BY <1>1, <1>2 DEF Matrix

LEMMA ShiftBack ==
  ASSUME NEW s \in Matrix
  PROVE  /\ shift_rows(s) \in Matrix /\ inv_shift_rows(s) \in Matrix
         /\ inv_shift_rows(shift_rows(s)) = s
<1>1. ASSUME NEW c \in Cells
      PROVE  /\ shift_rows(s)[c] \in Byte /\ inv_shift_rows(s)[c] \in Byte
             /\ inv_shift_rows(shift_rows(s))[c] = s[c]
  <2>1. PICK x \in 0 .. 3, y \in 0 .. 3 : x = c[1] /\ y = c[2] /\ c = <<x, y>>
    BY CellOf
  <2>2. PICK u \in 0 .. 3, v \in 0 .. 3 : u = (y + x) % 4 /\ v = (y - x + 4) % 4 /\ (v + x) % 4 = y
    <3>1. x \in {0, 1, 2, 3} /\ y \in {0, 1, 2, 3}
      BY <2>1
    <3>2. (y + x) % 4 \in 0 .. 3 /\ (y - x + 4) % 4 \in 0 .. 3 /\ (((y - x + 4) % 4) + x) % 4 = y
      BY <3>1
    <3> QED
      BY <3>2
  <2>3. /\ <<x, u>> \in Cells /\ <<x, v>> \in Cells /\ <<x, v>>[1] = x /\ <<x, v>>[2] = v
    BY <2>1, <2>2, CellIs
  <2>4. shift_rows(s)[c] = s[<<x, u>>] /\ inv_shift_rows(s)[c] = s[<<x, v>>]
    BY <2>1, <2>2 DEF shift_rows, inv_shift_rows
  <2>5. inv_shift_rows(shift_rows(s))[c] = shift_rows(s)[<<x, v>>]
    BY <2>1, <2>2 DEF inv_shift_rows
  <2>6. shift_rows(s)[<<x, v>>] = s[<<x, (v + x) % 4>>]
    BY <2>3 DEF shift_rows
  <2> QED
    BY <2>1, <2>2, <2>3, <2>4, <2>5, <2>6 DEF Matrix
<1>2. /\ shift_rows(s) = [c \in Cells |-> shift_rows(s)[c]]
      /\ inv_shift_rows(s) = [c \in Cells |-> inv_shift_rows(s)[c]]
      /\ inv_shift_rows(shift_rows(s)) = [c \in Cells |-> inv_shift_rows(shift_rows(s))[c]]
      /\ s = [c \in Cells |-> s[c]]
  BY DEF shift_rows, inv_shift_rows, Matrix
<1> QED
  BY <1>1, <1>2 DEF Matrix

LEMMA MixBack ==
  ASSUME NEW s \in Matrix
  PROVE  mix_columns(s) \in Matrix /\ inv_mix_columns(mix_columns(s)) = s
<1> DEFINE m == mix_columns(s)
<1>1. ASSUME NEW c \in Cells
      PROVE  /\ s[c] \in Byte /\ Below(s, c, 1) \in Byte /\ Below(s, c, 2) \in Byte
             /\ Below(s, c, 3) \in Byte
             /\ m[c] = Mixed(s[c], Below(s, c, 1), Below(s, c, 2), Below(s, c, 3))
  <2>1. PICK x \in 0 .. 3, y \in 0 .. 3 : x = c[1] /\ y = c[2] /\ c = <<x, y>>
    BY CellOf
  <2>2. (x + 1) % 4 \in 0 .. 3 /\ (x + 2) % 4 \in 0 .. 3 /\ (x + 3) % 4 \in 0 .. 3
    BY <2>1
  <2>3. <<(x + 1) % 4, y>> \in Cells /\ <<(x + 2) % 4, y>> \in Cells /\ <<(x + 3) % 4, y>> \in Cells
    BY <2>1, <2>2, CellIs
  <2>4. s[c] \in Byte /\ s[<<(x + 1) % 4, y>>] \in Byte /\ s[<<(x + 2) % 4, y>>] \in Byte
        /\ s[<<(x + 3) % 4, y>>] \in Byte
    BY <2>3 DEF Matrix
  <2> DEFINE twice == [z \in Cells |-> xtime(s[z])]
  <2>5. twice[c] = xtime(s[c]) /\ twice[<<(x + 1) % 4, y>>] = xtime(s[<<(x + 1) % 4, y>>])
    BY <2>3
  <2>6. m[c] = Xor(Xor(twice[c], Xor(Below(twice, c, 1), Below(s, c, 1))),
                   Xor(Below(s, c, 2), Below(s, c, 3)))
    BY DEF mix_columns
  <2> HIDE DEF twice, m
  <2> QED
    BY <2>1, <2>4, <2>5, <2>6 DEF Below, Mixed
<1>2. ASSUME NEW c \in Cells
      PROVE  m[c] \in Byte /\ inv_mix_columns(m)[c] = s[c]
  <2>1. PICK x \in 0 .. 3, y \in 0 .. 3 : x = c[1] /\ y = c[2] /\ c = <<x, y>>
    BY CellOf
  <2> DEFINE c1 == <<(x + 1) % 4, y>>
             c2 == <<(x + 2) % 4, y>>
             c3 == <<(x + 3) % 4, y>>
  <2>2. c1 \in Cells /\ c2 \in Cells /\ c3 \in Cells
    <3>1. (x + 1) % 4 \in 0 .. 3 /\ (x + 2) % 4 \in 0 .. 3 /\ (x + 3) % 4 \in 0 .. 3
      BY <2>1
    <3> QED
      BY <2>1, <3>1, CellIs
  <2>3. /\ Below(s, c, 1) = s[c1] /\ Below(s, c, 2) = s[c2] /\ Below(s, c, 3) = s[c3]
        /\ Below(m, c, 1) = m[c1] /\ Below(m, c, 2) = m[c2] /\ Below(m, c, 3) = m[c3]
    BY <2>1 DEF Below
  <2>4. /\ Below(s, c1, 1) = s[c2] /\ Below(s, c1, 2) = s[c3] /\ Below(s, c1, 3) = s[c]
        /\ Below(s, c2, 1) = s[c3] /\ Below(s, c2, 2) = s[c] /\ Below(s, c2, 3) = s[c1]
        /\ Below(s, c3, 1) = s[c] /\ Below(s, c3, 2) = s[c1] /\ Below(s, c3, 3) = s[c2]
    <3>0. x \in {0, 1, 2, 3}
      BY <2>1
    <3>1. /\ (((x + 1) % 4) + 1) % 4 = (x + 2) % 4 /\ (((x + 1) % 4) + 2) % 4 = (x + 3) % 4
          /\ (((x + 1) % 4) + 3) % 4 = x
      BY <3>0
    <3>2. /\ (((x + 2) % 4) + 1) % 4 = (x + 3) % 4 /\ (((x + 2) % 4) + 2) % 4 = x
          /\ (((x + 2) % 4) + 3) % 4 = (x + 1) % 4
      BY <3>0
    <3>3. /\ (((x + 3) % 4) + 1) % 4 = x /\ (((x + 3) % 4) + 2) % 4 = (x + 1) % 4
          /\ (((x + 3) % 4) + 3) % 4 = (x + 2) % 4
      BY <3>0
    <3>4. c1[1] = (x + 1) % 4 /\ c1[2] = y /\ c2[1] = (x + 2) % 4 /\ c2[2] = y
          /\ c3[1] = (x + 3) % 4 /\ c3[2] = y
      OBVIOUS
    <3> QED
      BY <2>1, <3>1, <3>2, <3>3, <3>4 DEF Below
  <2>5. PICK z0 \in Byte, z1 \in Byte, z2 \in Byte, z3 \in Byte :
          z0 = s[c] /\ z1 = s[c1] /\ z2 = s[c2] /\ z3 = s[c3]
    BY <1>1, <2>2
  <2> HIDE DEF m, c1, c2, c3
  <2>6. /\ m[c] = Mixed(z0, z1, z2, z3) /\ m[c1] = Mixed(z1, z2, z3, z0)
        /\ m[c2] = Mixed(z2, z3, z0, z1) /\ m[c3] = Mixed(z3, z0, z1, z2)
    BY <1>1, <2>2, <2>3, <2>4, <2>5
  <2>7. m[c] \in Byte /\ m[c1] \in Byte /\ m[c2] \in Byte /\ m[c3] \in Byte
    <3>1. Mixed(z0, z1, z2, z3) \in Byte /\ Mixed(z1, z2, z3, z0) \in Byte
      BY ColumnComesBack
    <3>2. Mixed(z2, z3, z0, z1) \in Byte /\ Mixed(z3, z0, z1, z2) \in Byte
      BY ColumnComesBack
    <3> QED
      BY <2>6, <3>1, <3>2
  <2>8. inv_mix_columns(m)[c] = Xor(Xor(mul(14, m[c]), mul(11, m[c1])),
                                    Xor(mul(13, m[c2]), mul(9, m[c3])))
    <3>1. \A k \in {9, 11, 13, 14} : \A z \in Byte : Product[k][z] = mul(k, z)
      BY DEF Product
    <3>2. inv_mix_columns(m)[c] = Xor(Xor(Product[14][m[c]], Product[11][Below(m, c, 1)]),
                                      Xor(Product[13][Below(m, c, 2)], Product[9][Below(m, c, 3)]))
      BY DEF inv_mix_columns
    <3> QED
      BY <2>3, <2>7, <3>1, <3>2
  <2>9. Xor(Xor(mul(14, Mixed(z0, z1, z2, z3)), mul(11, Mixed(z1, z2, z3, z0))),
            Xor(mul(13, Mixed(z2, z3, z0, z1)), mul(9, Mixed(z3, z0, z1, z2)))) = z0
    BY ColumnComesBack
  <2> QED
    BY <2>5, <2>6, <2>7, <2>8, <2>9
<1>3. /\ m = [c \in Cells |-> m[c]] /\ s = [c \in Cells |-> s[c]]
      /\ inv_mix_columns(m) = [c \in Cells |-> inv_mix_columns(m)[c]]
  BY DEF mix_columns, inv_mix_columns, Matrix
<1> HIDE DEF m
<1>4. m \in Matrix /\ inv_mix_columns(m) = s
  BY <1>2, <1>3 DEF Matrix
<1> QED
  BY <1>4 DEF m

\* What a round makes of the matrix before its key is added.
Turned(s, r) ==
  IF r < 10 THEN mix_columns(shift_rows(sub_bytes(s))) ELSE shift_rows(sub_bytes(s))

LEMMA TurnedBack ==
  ASSUME NEW s \in Matrix, NEW r \in 1 .. 10, NEW w, IsSchedule(w),
         NEW t, t = AddKey(w, Turned(s, r), r)
  PROVE  /\ Turned(s, r) \in Matrix /\ t \in Matrix
         /\ r < 10 => inv_sub_bytes(inv_shift_rows(inv_mix_columns(AddKey(w, t, r)))) = s
         /\ r = 10 => inv_sub_bytes(inv_shift_rows(AddKey(w, t, r))) = s
<1>1. sub_bytes(s) \in Matrix /\ inv_sub_bytes(sub_bytes(s)) = s
  BY SubBack
<1>2. /\ shift_rows(sub_bytes(s)) \in Matrix
      /\ inv_shift_rows(shift_rows(sub_bytes(s))) = sub_bytes(s)
  BY <1>1, ShiftBack
<1>3. /\ mix_columns(shift_rows(sub_bytes(s))) \in Matrix
      /\ inv_mix_columns(mix_columns(shift_rows(sub_bytes(s)))) = shift_rows(sub_bytes(s))
  BY <1>2, MixBack
<1>4. Turned(s, r) \in Matrix
  BY <1>2, <1>3 DEF Turned
<1>5. t \in Matrix /\ AddKey(w, t, r) = Turned(s, r)
  BY <1>4, AddKeyTwice
<1>6. CASE r < 10
  BY <1>1, <1>2, <1>3, <1>4, <1>5, <1>6 DEF Turned
<1>7. CASE r = 10
  BY <1>1, <1>2, <1>4, <1>5, <1>7 DEF Turned
<1> QED
  BY <1>6, <1>7

-----------------------------------------------------------------------------
(* Bytes of a matrix, and their digits.                                    *)

HexDigit == 0 .. 15

\* Where a cell is among the sixteen bytes of its block, and back.
LEMMA PlaceOfCell ==
  ASSUME NEW c \in Cells
  PROVE  /\ c[1] + 4 * c[2] + 1 \in 1 .. 16
         /\ ((c[1] + 4 * c[2] + 1) - 1) % 4 = c[1] /\ ((c[1] + 4 * c[2] + 1) - 1) \div 4 = c[2]
<1>1. PICK x \in 0 .. 3, y \in 0 .. 3 : x = c[1] /\ y = c[2]
  BY CellOf
<1>2. (x + 4 * y + 1) - 1 = x + 4 * y /\ (x + 4 * y) % 4 = x /\ (x + 4 * y) \div 4 = y
      /\ x + 4 * y + 1 \in 1 .. 16
  <2>1. x \in {0, 1, 2, 3} /\ y \in {0, 1, 2, 3}
    BY <1>1
  <2> QED
    BY <2>1
<1> QED
  BY <1>1, <1>2

LEMMA CellOfPlace ==
  ASSUME NEW i \in 1 .. 16
  PROVE  /\ <<(i - 1) % 4, (i - 1) \div 4>> \in Cells
         /\ ((i - 1) % 4) + 4 * ((i - 1) \div 4) + 1 = i
<1>1. (i - 1) % 4 \in 0 .. 3 /\ (i - 1) \div 4 \in 0 .. 3
      /\ ((i - 1) % 4) + 4 * ((i - 1) \div 4) + 1 = i
  OBVIOUS
<1> QED
  BY <1>1, CellIs

LEMMA BytesOfMatrix ==
  ASSUME NEW s \in Matrix
  PROVE  /\ FromMatrix(s) \in [1 .. 16 -> Byte]
         /\ \A c \in Cells : FromMatrix(s)[c[1] + 4 * c[2] + 1] = s[c]
<1>1. \A i \in 1 .. 16 : s[<<(i - 1) % 4, (i - 1) \div 4>>] \in Byte
  BY CellOfPlace DEF Matrix
<1>2. FromMatrix(s) \in [1 .. 16 -> Byte]
  BY <1>1 DEF FromMatrix
<1>3. ASSUME NEW c \in Cells PROVE FromMatrix(s)[c[1] + 4 * c[2] + 1] = s[c]
  <2>1. PICK i \in 1 .. 16 : i = c[1] + 4 * c[2] + 1 /\ (i - 1) % 4 = c[1] /\ (i - 1) \div 4 = c[2]
    BY PlaceOfCell
  <2>2. FromMatrix(s)[i] = s[<<c[1], c[2]>>]
    BY <2>1 DEF FromMatrix
  <2> QED
    BY <2>1, <2>2, CellOf
<1> QED
  BY <1>2, <1>3

LEMMA MatrixOfBytes ==
  ASSUME NEW k \in Nat, NEW v \in Seq(Byte), 16 * (k + 1) <= Len(v)
  PROVE  /\ ToMatrix(v, k) \in Matrix
         /\ \A i \in 1 .. 16 : FromMatrix(ToMatrix(v, k))[i] = v[16 * k + i]
<1>1. \A i \in 1 .. 16 : 16 * k + i \in 1 .. Len(v) /\ v[16 * k + i] \in Byte
  <2>1. Len(v) \in Nat
    BY LenProperties
  <2>2. \A i \in 1 .. 16 : 16 * k + i \in 1 .. Len(v)
    BY <2>1
  <2> QED
    BY <2>2, ElementOfSeq
<1>2. ASSUME NEW c \in Cells
      PROVE  ToMatrix(v, k)[c] = v[16 * k + (c[1] + 4 * c[2] + 1)] /\ ToMatrix(v, k)[c] \in Byte
  <2>1. c[1] \in 0 .. 3 /\ c[2] \in 0 .. 3
    BY CellOf
  <2>2. 16 * k + c[1] + 4 * c[2] + 1 = 16 * k + (c[1] + 4 * c[2] + 1)
    BY <2>1
  <2> QED
    BY <1>1, <2>2, PlaceOfCell DEF ToMatrix
<1>3. ToMatrix(v, k) \in Matrix
  <2>1. ToMatrix(v, k) = [c \in Cells |-> ToMatrix(v, k)[c]]
    BY DEF ToMatrix
  <2> QED
    BY <1>2, <2>1 DEF Matrix
<1>4. ASSUME NEW i \in 1 .. 16 PROVE FromMatrix(ToMatrix(v, k))[i] = v[16 * k + i]
  <2> DEFINE c == <<(i - 1) % 4, (i - 1) \div 4>>
  <2>1. FromMatrix(ToMatrix(v, k))[i] = ToMatrix(v, k)[c]
    BY DEF FromMatrix
  <2>2. c \in Cells /\ c[1] + 4 * c[2] + 1 = i
    BY CellOfPlace
  <2> HIDE DEF c
  <2> QED
    BY <1>2, <2>1, <2>2
<1> QED
  BY <1>3, <1>4

LEMMA DigitsOfBytes ==
  ASSUME NEW v \in [1 .. 16 -> Byte]
  PROVE  /\ HexDigits(v) \in [1 .. 32 -> HexDigit]
         /\ \A i \in 1 .. 16 : /\ HexDigits(v)[2 * i - 1] = v[i] \div 16
                               /\ HexDigits(v)[2 * i] = v[i] % 16
<1>1. Len(v) = 16
  OBVIOUS
<1>2. HexDigits(v) = [k \in 1 .. 32 |-> IF k % 2 = 1 THEN v[(k + 1) \div 2] \div 16 ELSE v[k \div 2] % 16]
  BY <1>1 DEF HexDigits
<1>3. ASSUME NEW i \in 1 .. 16
      PROVE  /\ HexDigits(v)[2 * i - 1] = v[i] \div 16 /\ HexDigits(v)[2 * i] = v[i] % 16
  <2>1. 2 * i - 1 \in 1 .. 32 /\ 2 * i \in 1 .. 32 /\ (2 * i - 1) % 2 = 1 /\ (2 * i) % 2 = 0
        /\ ((2 * i - 1) + 1) \div 2 = i /\ (2 * i) \div 2 = i
    OBVIOUS
  <2> QED
    BY <1>2, <2>1
<1>4. ASSUME NEW k \in 1 .. 32 PROVE HexDigits(v)[k] \in HexDigit
  <2>1. \E i \in 1 .. 16 : k = 2 * i - 1 \/ k = 2 * i
    OBVIOUS
  <2>2. \A x \in Byte : x \div 16 \in HexDigit /\ x % 16 \in HexDigit
    BY DEF Byte, HexDigit
  <2> QED
    BY <1>3, <2>1, <2>2
<1> QED
  BY <1>2, <1>3, <1>4

LEMMA ByteOfDigits ==
  ASSUME NEW x \in Byte
  PROVE  hex_byte(x \div 16, x % 16) = x
BY Halves DEF hex_byte, NotHex

\* The digits of matrix s are printed as those of block k.
PrintedAs(digits, k, s) ==
  \A i \in 1 .. 16 : /\ digits[32 * k + 2 * i - 1] = FromMatrix(s)[i] \div 16
                     /\ digits[32 * k + 2 * i] = FromMatrix(s)[i] % 16

LEMMA CipherOfPrinted ==
  ASSUME NEW v \in Seq(Byte), NEW k \in Nat, 16 * (k + 1) <= Len(v), NEW s \in Matrix,
         \A i \in 1 .. 16 : v[16 * k + i] = FromMatrix(s)[i]
  PROVE  ToMatrix(v, k) = s
<1>1. ToMatrix(v, k) \in Matrix /\ \A i \in 1 .. 16 : FromMatrix(ToMatrix(v, k))[i] = FromMatrix(s)[i]
  BY MatrixOfBytes
<1>2. ASSUME NEW c \in Cells PROVE ToMatrix(v, k)[c] = s[c]
  <2>1. c[1] + 4 * c[2] + 1 \in 1 .. 16
    BY PlaceOfCell
  <2> QED
    BY <1>1, <2>1, BytesOfMatrix
<1> QED
  BY <1>1, <1>2 DEF Matrix

\* What hex_string_to_bytes makes of the digits of a block.
LEMMA CipherBytes ==
  ASSUME printed \in Seq(HexDigit), NEW many \in Nat, Len(printed) = 32 * many
  PROVE  /\ cipher_bytes \in Seq(Byte) /\ Len(cipher_bytes) = 16 * many /\ Blocks = many
         /\ \A k \in 0 .. (many - 1), s \in Matrix :
              PrintedAs(printed, k, s) => ToMatrix(cipher_bytes, k) = s
<1>1. Len(printed) \div 2 = 16 * many /\ Len(printed) \div 32 = many
  OBVIOUS
<1>2. cipher_bytes = [k \in 1 .. (16 * many) |-> hex_byte(printed[2 * k - 1], printed[2 * k])]
  BY <1>1 DEF cipher_bytes
<1>3. \A k \in 1 .. (16 * many) : /\ 2 * k - 1 \in 1 .. Len(printed) /\ 2 * k \in 1 .. Len(printed)
                                  /\ printed[2 * k - 1] \in HexDigit /\ printed[2 * k] \in HexDigit
  <2>1. \A k \in 1 .. (16 * many) : 2 * k - 1 \in 1 .. Len(printed) /\ 2 * k \in 1 .. Len(printed)
    OBVIOUS
  <2> QED
    BY <2>1, ElementOfSeq
<1>4. \A x \in HexDigit, y \in HexDigit : hex_byte(x, y) \in Byte
  BY DEF hex_byte, NotHex, HexDigit, Byte
<1>5. cipher_bytes \in [1 .. (16 * many) -> Byte] /\ 16 * many \in Nat
  BY <1>2, <1>3, <1>4
<1>6. cipher_bytes \in Seq(Byte) /\ Len(cipher_bytes) = 16 * many
  BY <1>5
<1>7. ASSUME NEW k \in 0 .. (many - 1), NEW s \in Matrix, PrintedAs(printed, k, s)
      PROVE  ToMatrix(cipher_bytes, k) = s
  <2>1. ASSUME NEW i \in 1 .. 16 PROVE cipher_bytes[16 * k + i] = FromMatrix(s)[i]
    <3>1. 16 * k + i \in 1 .. (16 * many) /\ 2 * (16 * k + i) - 1 = 32 * k + 2 * i - 1
          /\ 2 * (16 * k + i) = 32 * k + 2 * i
      OBVIOUS
    <3>2. /\ printed[32 * k + 2 * i - 1] = FromMatrix(s)[i] \div 16
          /\ printed[32 * k + 2 * i] = FromMatrix(s)[i] % 16
      BY <1>7 DEF PrintedAs
    <3>3. FromMatrix(s)[i] \in Byte
      BY BytesOfMatrix
    <3> QED
      BY <1>2, <3>1, <3>2, <3>3, ByteOfDigits
  <2>2. k \in Nat /\ 16 * (k + 1) <= 16 * many
    OBVIOUS
  <2> QED
    BY <1>6, <2>1, <2>2, CipherOfPrinted
<1> QED
  BY <1>1, <1>6, <1>7 DEF Blocks

-----------------------------------------------------------------------------
(* Blocks that are encrypted, and decrypted.                               *)

\* The matrices of block k after its first m rounds, round 0 included.
Encrypted(w, pad, k, rows, m) ==
  /\ rows \in Seq(Matrix) /\ Len(rows) = m
  /\ rows[1] = AddKey(w, ToMatrix(pad, k), 0)
  /\ \A r \in 1 .. (m - 1) : rows[r + 1] = AddKey(w, Turned(rows[r], r), r)

\* The first `many` blocks are encrypted and printed.
AllPrinted(w, pad, many, digits, hist) ==
  /\ digits \in Seq(HexDigit) /\ Len(digits) = 32 * many
  /\ hist \in Seq(Seq(Matrix)) /\ many <= Len(hist)
  /\ \A k \in 0 .. (many - 1) :
       Encrypted(w, pad, k, hist[k + 1], 11) /\ PrintedAs(digits, k, hist[k + 1][11])

\* Before round i of block j, all other blocks before it being printed.
Encrypting(w, pad, many, digits, hist, j, i, t) ==
  /\ j \in 0 .. many /\ i \in 0 .. 11 /\ t \in Matrix
  /\ AllPrinted(w, pad, j, digits, hist)
  /\ Len(hist) = IF i > 0 THEN j + 1 ELSE j
  /\ i > 0 => /\ j < many
              /\ Encrypted(w, pad, j, hist[j + 1], i)
              /\ t = hist[j + 1][i]

Decrypting(w, pad, many, digits, hist, j, i, t, out) ==
  /\ AllPrinted(w, pad, many, digits, hist) /\ Len(hist) = many
  /\ j \in 0 .. many /\ i \in 0 .. 9 /\ t \in Matrix
  /\ i > 0 => j < many /\ t = hist[j + 1][i + 1]
  /\ out = SubSeq(pad, 1, 16 * j)

\* There is a key for every round and a byte for every cell of every block.
Ready(w, pad, many) ==
  IsSchedule(w) /\ pad \in Seq(Byte) /\ many \in Nat /\ 16 * many <= Len(pad)

LEMMA BlockIsMatrix ==
  ASSUME NEW w, NEW pad, NEW many, Ready(w, pad, many), NEW j \in 0 .. (many - 1)
  PROVE  /\ ToMatrix(pad, j) \in Matrix
         /\ \A i \in 1 .. 16 : FromMatrix(ToMatrix(pad, j))[i] = pad[16 * j + i]
<1>1. j \in Nat /\ pad \in Seq(Byte) /\ Len(pad) \in Nat /\ many \in Nat /\ 16 * many <= Len(pad)
  BY LenProperties DEF Ready
<1>2. 16 * (j + 1) <= Len(pad)
  BY <1>1
<1> QED
  BY <1>1, <1>2, MatrixOfBytes

LEMMA EncryptedStarts ==
  ASSUME NEW w, NEW pad, NEW many, Ready(w, pad, many), NEW j \in 0 .. (many - 1),
         NEW t, t = AddKey(w, ToMatrix(pad, j), 0)
  PROVE  t \in Matrix /\ Encrypted(w, pad, j, <<t>>, 1)
<1>1. t \in Matrix
  <2>1. ToMatrix(pad, j) \in Matrix
    BY Zenon, BlockIsMatrix
  <2>2. IsSchedule(w) /\ 0 \in 0 .. 10
    BY DEF Ready
  <2> QED
    BY <2>1, <2>2, AddKeyTwice
<1>2. <<t>> \in Seq(Matrix) /\ Len(<<t>>) = 1 /\ <<t>>[1] = t
  BY <1>1
<1> QED
  BY <1>1, <1>2 DEF Encrypted

LEMMA EncryptedGoesOn ==
  ASSUME NEW w, NEW pad, NEW j, NEW rows, NEW i, NEW t,
         IsSchedule(w), Encrypted(w, pad, j, rows, i), i \in 1 .. 10,
         t = AddKey(w, Turned(rows[i], i), i)
  PROVE  t \in Matrix /\ Encrypted(w, pad, j, Append(rows, t), i + 1)
<1>1. rows \in Seq(Matrix) /\ Len(rows) = i /\ rows[i] \in Matrix
  BY ElementOfSeq DEF Encrypted
<1>2. t \in Matrix
  BY <1>1, TurnedBack
<1>3. /\ Append(rows, t) \in Seq(Matrix) /\ Len(Append(rows, t)) = i + 1
      /\ Append(rows, t)[i + 1] = t
      /\ \A r \in 1 .. i : Append(rows, t)[r] = rows[r]
  BY <1>1, <1>2, AppendProperties
<1>4. ASSUME NEW r \in 1 .. ((i + 1) - 1)
      PROVE  Append(rows, t)[r + 1] = AddKey(w, Turned(Append(rows, t)[r], r), r)
  <2>1. CASE r = i
    <3>1. Append(rows, t)[i] = rows[i] /\ Append(rows, t)[i + 1] = t
      BY <1>3
    <3>2. Append(rows, t)[i + 1] = AddKey(w, Turned(Append(rows, t)[i], i), i)
      BY Zenon, <3>1
    <3> QED
      BY Zenon, <2>1, <3>2
  <2>2. CASE r < i
    <3>1. r \in 1 .. (i - 1) /\ r + 1 \in 1 .. i /\ r \in 1 .. i
      BY <2>2
    <3>2. rows[r + 1] = AddKey(w, Turned(rows[r], r), r)
      BY <3>1 DEF Encrypted
    <3>3. Append(rows, t)[r + 1] = rows[r + 1] /\ Append(rows, t)[r] = rows[r]
      BY <1>3, <3>1
    <3> QED
      BY Zenon, <3>2, <3>3
  <2>3. r = i \/ r < i
    OBVIOUS
  <2> QED
    BY ONLY <2>1, <2>2, <2>3
<1>5. Append(rows, t)[1] = rows[1]
  BY <1>3
<1> QED
  BY <1>2, <1>3, <1>4, <1>5 DEF Encrypted

\* What is printed stays so when the history only changes behind it.
LEMMA PrintedStays ==
  ASSUME NEW w, NEW pad, NEW j \in Nat, NEW digits, NEW hist, NEW hist2,
         AllPrinted(w, pad, j, digits, hist), hist2 \in Seq(Seq(Matrix)), j <= Len(hist2),
         \A k \in 1 .. j : hist2[k] = hist[k]
  PROVE  AllPrinted(w, pad, j, digits, hist2)
<1>1. ASSUME NEW k \in 0 .. (j - 1) PROVE hist2[k + 1] = hist[k + 1]
  <2>1. k + 1 \in 1 .. j
    OBVIOUS
  <2> QED
    BY <2>1
<1> QED
  BY <1>1 DEF AllPrinted

LEMMA FirstRoundKeeps ==
  ASSUME NEW w, NEW pad, NEW many, Ready(w, pad, many), NEW digits, NEW hist, NEW j, NEW t,
         Encrypting(w, pad, many, digits, hist, j, 0, t), j < many,
         NEW t2, t2 = AddKey(w, ToMatrix(pad, j), 0)
  PROVE  Encrypting(w, pad, many, digits, Append(hist, <<t2>>), j, 1, t2)
<1>1. j \in 0 .. (many - 1) /\ j \in Nat /\ many \in Nat
  BY DEF Encrypting, Ready
<1>2. t2 \in Matrix /\ Encrypted(w, pad, j, <<t2>>, 1) /\ <<t2>> \in Seq(Matrix)
  BY <1>1, EncryptedStarts DEF Encrypted
<1>3. hist \in Seq(Seq(Matrix)) /\ Len(hist) = j
  BY DEF Encrypting, AllPrinted
<1> DEFINE new == Append(hist, <<t2>>)
<1>4. /\ new \in Seq(Seq(Matrix)) /\ Len(new) = j + 1 /\ new[j + 1] = <<t2>>
      /\ \A k \in 1 .. j : new[k] = hist[k]
  BY <1>2, <1>3, AppendProperties
<1> HIDE DEF new
<1>5. AllPrinted(w, pad, j, digits, new)
  BY <1>1, <1>4, PrintedStays DEF Encrypting
<1>6. <<t2>>[1] = t2
  OBVIOUS
<1>7. Encrypting(w, pad, many, digits, new, j, 1, t2)
  BY <1>1, <1>2, <1>4, <1>5, <1>6 DEF Encrypting
<1> QED
  BY <1>7 DEF new

LEMMA NextRoundKeeps ==
  ASSUME NEW w, NEW pad, NEW many, Ready(w, pad, many), NEW digits, NEW hist, NEW j, NEW t,
         NEW i \in 1 .. 10, Encrypting(w, pad, many, digits, hist, j, i, t),
         NEW t2, t2 = AddKey(w, Turned(t, i), i)
  PROVE  Encrypting(w, pad, many, digits, [hist EXCEPT ![j + 1] = Append(@, t2)], j, i + 1, t2)
<1>1. j \in 0 .. (many - 1) /\ j \in Nat /\ many \in Nat
  BY DEF Encrypting, Ready
<1>2. hist \in Seq(Seq(Matrix)) /\ Len(hist) = j + 1 /\ Encrypted(w, pad, j, hist[j + 1], i)
      /\ t = hist[j + 1][i] /\ AllPrinted(w, pad, j, digits, hist)
  <2>1. i > 0
    OBVIOUS
  <2>2. /\ Len(hist) = j + 1 /\ Encrypted(w, pad, j, hist[j + 1], i)
        /\ t = hist[j + 1][i] /\ AllPrinted(w, pad, j, digits, hist)
    BY ONLY <2>1, Encrypting(w, pad, many, digits, hist, j, i, t) DEF Encrypting
  <2>3. hist \in Seq(Seq(Matrix))
    BY ONLY <2>2 DEF AllPrinted
  <2> QED
    BY ONLY <2>2, <2>3
<1>a. PICK rows : rows = hist[j + 1]
  OBVIOUS
<1> DEFINE more == Append(rows, t2)
           new  == [hist EXCEPT ![j + 1] = Append(@, t2)]
<1>3. t2 \in Matrix /\ Encrypted(w, pad, j, more, i + 1) /\ more[i + 1] = t2
  <2>1. IsSchedule(w) /\ t2 = AddKey(w, Turned(rows[i], i), i) /\ Encrypted(w, pad, j, rows, i)
        /\ i \in 1 .. 10
    BY <1>2, <1>a DEF Ready
  <2>2. t2 \in Matrix /\ Encrypted(w, pad, j, Append(rows, t2), i + 1)
    BY ONLY Zenon, <2>1, EncryptedGoesOn
  <2>3. Append(rows, t2)[i + 1] = t2
    <3>1. rows \in Seq(Matrix) /\ Len(rows) = i
      BY <2>1 DEF Encrypted
    <3> QED
      BY <2>2, <3>1, AppendProperties
  <2> QED
    BY ONLY <2>2, <2>3 DEF more
<1>4. more \in Seq(Matrix)
  BY <1>3 DEF Encrypted
<1>5. new = [hist EXCEPT ![j + 1] = more]
  BY <1>a
<1> HIDE DEF more, new
<1>6. /\ new \in Seq(Seq(Matrix)) /\ Len(new) = j + 1 /\ new[j + 1] = more
      /\ \A k \in 1 .. j : new[k] = hist[k]
  <2>1. j + 1 \in 1 .. Len(hist)
    BY <1>1, <1>2
  <2> QED
    BY <1>1, <1>2, <1>4, <1>5, <2>1, ExceptSeq
<1>7. AllPrinted(w, pad, j, digits, new)
  BY <1>1, <1>2, <1>6, PrintedStays
<1>8. Encrypting(w, pad, many, digits, new, j, i + 1, t2)
  BY <1>1, <1>3, <1>6, <1>7 DEF Encrypting
<1> QED
  BY <1>8 DEF new

LEMMA BlockKeeps ==
  ASSUME NEW w, NEW pad, NEW many, Ready(w, pad, many), NEW digits, NEW hist, NEW j, NEW t,
         Encrypting(w, pad, many, digits, hist, j, 11, t)
  PROVE  Encrypting(w, pad, many, digits \o HexDigits(FromMatrix(t)), hist, j + 1, 0, t)
<1>1. j \in 0 .. (many - 1) /\ j \in Nat /\ many \in Nat /\ t \in Matrix
  BY DEF Encrypting, Ready
<1>2. hist \in Seq(Seq(Matrix)) /\ Len(hist) = j + 1 /\ Encrypted(w, pad, j, hist[j + 1], 11)
      /\ t = hist[j + 1][11] /\ digits \in Seq(HexDigit) /\ Len(digits) = 32 * j
      /\ \A k \in 0 .. (j - 1) :
           Encrypted(w, pad, k, hist[k + 1], 11) /\ PrintedAs(digits, k, hist[k + 1][11])
  BY DEF Encrypting, AllPrinted
<1> DEFINE bytes == FromMatrix(t)
           last == HexDigits(bytes)
           all == digits \o last
<1>3. bytes \in [1 .. 16 -> Byte]
  BY <1>1, BytesOfMatrix
<1>4. /\ last \in [1 .. 32 -> HexDigit]
      /\ \A i \in 1 .. 16 : last[2 * i - 1] = bytes[i] \div 16 /\ last[2 * i] = bytes[i] % 16
  BY <1>3, DigitsOfBytes
<1> HIDE DEF last
<1>5. last \in Seq(HexDigit) /\ Len(last) = 32
  BY <1>4, FunctionIsSeq
<1>6. /\ all \in Seq(HexDigit) /\ Len(all) = 32 * j + 32
      /\ \A k \in 1 .. (32 * j) : all[k] = digits[k]
      /\ \A k \in 1 .. 32 : all[32 * j + k] = last[k]
  <2>1. all \in Seq(HexDigit) /\ Len(all) = Len(digits) + Len(last)
    BY <1>2, <1>5, ConcatProperties
  <2>2. \A k \in 1 .. (Len(digits) + Len(last)) :
          all[k] = IF k <= Len(digits) THEN digits[k] ELSE last[k - Len(digits)]
    BY <1>2, <1>5, ConcatProperties
  <2>3. ASSUME NEW k \in 1 .. (32 * j) PROVE all[k] = digits[k]
    <3>1. k \in 1 .. (32 * j + 32) /\ k <= 32 * j
      BY <1>1
    <3> QED
      BY <1>2, <1>5, <2>2, <3>1
  <2>4. ASSUME NEW k \in 1 .. 32 PROVE all[32 * j + k] = last[k]
    <3>1. 32 * j + k \in 1 .. (32 * j + 32) /\ ~(32 * j + k <= 32 * j) /\ (32 * j + k) - 32 * j = k
      BY <1>1
    <3> QED
      BY <1>2, <1>5, <2>2, <3>1
  <2> QED
    BY <1>2, <1>5, <2>1, <2>3, <2>4
<1> HIDE DEF all
<1>7. ASSUME NEW k \in 0 .. ((j + 1) - 1)
      PROVE  Encrypted(w, pad, k, hist[k + 1], 11) /\ PrintedAs(all, k, hist[k + 1][11])
  <2>1. CASE k = j
    <3>1. ASSUME NEW i \in 1 .. 16
          PROVE  /\ all[32 * j + 2 * i - 1] = bytes[i] \div 16
                 /\ all[32 * j + 2 * i] = bytes[i] % 16
      <4>1. 2 * i - 1 \in 1 .. 32 /\ 2 * i \in 1 .. 32
            /\ 32 * j + 2 * i - 1 = 32 * j + (2 * i - 1)
        BY <1>1
      <4> QED
        BY <1>4, <1>6, <4>1
    <3>2. PrintedAs(all, j, t)
      BY <3>1 DEF PrintedAs
    <3> QED
      BY <1>2, <2>1, <3>2
  <2>2. CASE k < j
    <3>1. k \in 0 .. (j - 1)
      BY <1>1, <2>2
    <3>2. ASSUME NEW i \in 1 .. 16
          PROVE  /\ all[32 * k + 2 * i - 1] = digits[32 * k + 2 * i - 1]
                 /\ all[32 * k + 2 * i] = digits[32 * k + 2 * i]
      <4>1. 32 * k + 2 * i - 1 \in 1 .. (32 * j) /\ 32 * k + 2 * i \in 1 .. (32 * j)
        BY <1>1, <3>1
      <4> QED
        BY <1>6, <4>1
    <3>3. PrintedAs(digits, k, hist[k + 1][11]) => PrintedAs(all, k, hist[k + 1][11])
      BY <3>2 DEF PrintedAs
    <3> QED
      BY <1>2, <3>1, <3>3
  <2> QED
    BY <1>1, <2>1, <2>2
<1>8. 32 * j + 32 = 32 * (j + 1) /\ j + 1 \in 0 .. many /\ 0 \in 0 .. 11
  BY <1>1
<1>9. AllPrinted(w, pad, j + 1, all, hist)
  BY <1>1, <1>2, <1>6, <1>7, <1>8 DEF AllPrinted
<1>10. Encrypting(w, pad, many, all, hist, j + 1, 0, t)
  BY <1>1, <1>2, <1>8, <1>9 DEF Encrypting
<1>11. all = digits \o HexDigits(FromMatrix(t))
  BY DEF all, last
<1> QED
  BY <1>10, <1>11

LEMMA DecryptionStarts ==
  ASSUME NEW w, NEW pad, NEW many, Ready(w, pad, many), NEW digits, NEW hist, NEW t,
         Encrypting(w, pad, many, digits, hist, many, 0, t)
  PROVE  Decrypting(w, pad, many, digits, hist, 0, 0, t, <<>>)
<1>1. SubSeq(pad, 1, 16 * 0) = <<>>
  BY SubSeqProperties DEF Ready
<1> QED
  BY <1>1 DEF Encrypting, Decrypting, Ready

\* The matrices of a block that is decrypted, from the last to the first.
LEMMA RoundsBack ==
  ASSUME NEW w, NEW pad, NEW many, Ready(w, pad, many), NEW digits, NEW hist,
         NEW j \in 0 .. (many - 1), AllPrinted(w, pad, many, digits, hist)
  PROVE  /\ \A i \in 1 .. 11 : hist[j + 1][i] \in Matrix
         /\ inv_sub_bytes(inv_shift_rows(AddKey(w, hist[j + 1][11], 10))) = hist[j + 1][10]
         /\ \A i \in 1 .. 9 :
              inv_sub_bytes(inv_shift_rows(inv_mix_columns(AddKey(w, hist[j + 1][i + 1], i))))
                = hist[j + 1][i]
         /\ AddKey(w, hist[j + 1][1], 0) = ToMatrix(pad, j)
<1> DEFINE rows == hist[j + 1]
<1>1. Encrypted(w, pad, j, rows, 11)
  BY DEF AllPrinted
<1> HIDE DEF rows
<1>2. \A i \in 1 .. 11 : rows[i] \in Matrix
  BY <1>1, ElementOfSeq DEF Encrypted
<1>3. \A i \in 1 .. 10 : rows[i + 1] = AddKey(w, Turned(rows[i], i), i)
  BY <1>1 DEF Encrypted
<1>4. IsSchedule(w)
  BY DEF Ready
<1>5. inv_sub_bytes(inv_shift_rows(AddKey(w, rows[11], 10))) = rows[10]
  <2>1. rows[10] \in Matrix /\ rows[11] = AddKey(w, Turned(rows[10], 10), 10)
    <3>1. 10 \in 1 .. 11 /\ 10 \in 1 .. 10 /\ 10 + 1 = 11
      OBVIOUS
    <3> QED
      BY <1>2, <1>3, <3>1
  <2> QED
    BY <1>4, <2>1, TurnedBack
<1>6. ASSUME NEW i \in 1 .. 9
      PROVE  inv_sub_bytes(inv_shift_rows(inv_mix_columns(AddKey(w, rows[i + 1], i)))) = rows[i]
  <2>1. i \in 1 .. 10 /\ i \in 1 .. 11 /\ i < 10
    OBVIOUS
  <2> QED
    BY <1>2, <1>3, <1>4, <2>1, TurnedBack
<1>7. AddKey(w, rows[1], 0) = ToMatrix(pad, j)
  <2>1. rows[1] = AddKey(w, ToMatrix(pad, j), 0)
    BY <1>1 DEF Encrypted
  <2> QED
    BY <1>4, <2>1, BlockIsMatrix, AddKeyTwice
<1> QED
  BY <1>2, <1>5, <1>6, <1>7 DEF rows

LEMMA LastRoundKeeps ==
  ASSUME NEW w, NEW pad, NEW many, Ready(w, pad, many), NEW digits, NEW hist, NEW j, NEW t, NEW out,
         Decrypting(w, pad, many, digits, hist, j, 0, t, out), j < many,
         NEW t2, t2 = inv_sub_bytes(inv_shift_rows(AddKey(w, hist[j + 1][11], 10)))
  PROVE  Decrypting(w, pad, many, digits, hist, j, 9, t2, out)
<1>1. j \in 0 .. (many - 1) /\ AllPrinted(w, pad, many, digits, hist)
  BY DEF Decrypting, Ready
<1>2. t2 = hist[j + 1][10] /\ t2 \in Matrix
  BY <1>1, RoundsBack
<1>3. 9 + 1 = 10 /\ 9 \in 0 .. 9
  OBVIOUS
<1> QED
  BY <1>2, <1>3 DEF Decrypting

LEMMA RoundBeforeKeeps ==
  ASSUME NEW w, NEW pad, NEW many, Ready(w, pad, many), NEW digits, NEW hist, NEW j, NEW t, NEW out,
         NEW i \in 2 .. 9, Decrypting(w, pad, many, digits, hist, j, i, t, out),
         NEW t2, t2 = inv_sub_bytes(inv_shift_rows(inv_mix_columns(AddKey(w, t, i))))
  PROVE  Decrypting(w, pad, many, digits, hist, j, i - 1, t2, out)
<1>1. j \in 0 .. (many - 1) /\ j < many /\ AllPrinted(w, pad, many, digits, hist)
      /\ t = hist[j + 1][i + 1]
  BY DEF Decrypting, Ready
<1>2. t2 = hist[j + 1][i] /\ t2 \in Matrix
  BY <1>1, RoundsBack
<1>3. (i - 1) + 1 = i /\ i - 1 \in 0 .. 9
  OBVIOUS
<1> QED
  BY <1>1, <1>2, <1>3 DEF Decrypting

LEMMA RoundZeroKeeps ==
  ASSUME NEW w, NEW pad, NEW many, Ready(w, pad, many), NEW digits, NEW hist, NEW j, NEW t, NEW out,
         Decrypting(w, pad, many, digits, hist, j, 1, t, out),
         NEW t2,
         t2 = AddKey(w, inv_sub_bytes(inv_shift_rows(inv_mix_columns(AddKey(w, t, 1)))), 0)
  PROVE  Decrypting(w, pad, many, digits, hist, j + 1, 0, t2, out \o FromMatrix(t2))
<1>0. Ready(w, pad, many)
  OBVIOUS
<1>1. /\ j \in 0 .. (many - 1) /\ j \in Nat /\ many \in Nat
      /\ AllPrinted(w, pad, many, digits, hist)
      /\ t = hist[j + 1][1 + 1] /\ Len(hist) = many /\ out = SubSeq(pad, 1, 16 * j)
  BY DEF Decrypting, Ready
<1>2. t2 = ToMatrix(pad, j)
  <2>1. /\ inv_sub_bytes(inv_shift_rows(inv_mix_columns(AddKey(w, hist[j + 1][1 + 1], 1))))
             = hist[j + 1][1]
        /\ AddKey(w, hist[j + 1][1], 0) = ToMatrix(pad, j)
    <3>1. 1 \in 1 .. 9
      OBVIOUS
    <3> QED
      BY <1>1, <3>1, RoundsBack
  <2> QED
    BY <1>1, <2>1
<1>3. t2 \in Matrix /\ \A i \in 1 .. 16 : FromMatrix(t2)[i] = pad[16 * j + i]
  <2>1. ToMatrix(pad, j) \in Matrix /\ \A i \in 1 .. 16 : FromMatrix(ToMatrix(pad, j))[i] = pad[16 * j + i]
    <3>1. j \in 0 .. (many - 1)
      BY <1>1
    <3> QED
      BY ONLY <1>0, <3>1, BlockIsMatrix
  <2> QED
    BY <1>2, <2>1
<1> DEFINE more == FromMatrix(t2)
           all == out \o more
<1>4. more \in Seq(Byte) /\ Len(more) = 16
  <2>1. more \in [1 .. 16 -> Byte]
    BY <1>3, BytesOfMatrix
  <2> HIDE DEF more
  <2> QED
    BY <2>1, FunctionIsSeq
<1>5. pad \in Seq(Byte) /\ Len(pad) \in Nat /\ 16 * j <= Len(pad) /\ 16 * (j + 1) <= Len(pad)
  <2>1. pad \in Seq(Byte) /\ Len(pad) \in Nat /\ 16 * many <= Len(pad)
    BY LenProperties DEF Ready
  <2> QED
    BY <1>1, <2>1
<1>6. SubSeq(pad, 1, 16 * (j + 1)) = SubSeq(pad, 1, 16 * j) \o more
  <2> DEFINE before == SubSeq(pad, 1, 16 * j)
             after == SubSeq(pad, 1, 16 * (j + 1))
  <2>1. /\ before \in Seq(Byte) /\ Len(before) = 16 * j
        /\ \A i \in 1 .. (16 * j) : before[i] = pad[i]
    BY <1>1, <1>5, SubSeqProperties
  <2>2. /\ after \in Seq(Byte) /\ Len(after) = 16 * (j + 1)
        /\ \A i \in 1 .. (16 * (j + 1)) : after[i] = pad[i]
    BY <1>1, <1>5, SubSeqProperties
  <2> HIDE DEF before, after, more
  <2>3. before \o more \in Seq(Byte) /\ Len(before \o more) = 16 * j + 16
        /\ \A i \in 1 .. (16 * j + 16) :
             (before \o more)[i] = IF i <= 16 * j THEN before[i] ELSE more[i - 16 * j]
    <3>1. more \in Seq(Byte) /\ Len(more) = 16
      BY <1>4 DEF more
    <3>2. /\ before \o more \in Seq(Byte) /\ Len(before \o more) = Len(before) + Len(more)
          /\ \A i \in 1 .. (Len(before) + Len(more)) :
               (before \o more)[i] = IF i <= Len(before) THEN before[i] ELSE more[i - Len(before)]
      BY <2>1, <3>1, ConcatProperties
    <3> QED
      BY <2>1, <3>1, <3>2
  <2>4. ASSUME NEW i \in 1 .. (16 * j + 16) PROVE (before \o more)[i] = after[i]
    <3>1. CASE i <= 16 * j
      <4>1. i \in 1 .. (16 * j) /\ i \in 1 .. (16 * (j + 1))
        BY <1>1, <3>1
      <4> QED
        BY <2>1, <2>2, <2>3, <3>1, <4>1
    <3>2. CASE ~(i <= 16 * j)
      <4>1. i - 16 * j \in 1 .. 16 /\ i \in 1 .. (16 * (j + 1)) /\ 16 * j + (i - 16 * j) = i
        BY <1>1, <3>2
      <4>2. more[i - 16 * j] = pad[16 * j + (i - 16 * j)]
        BY <1>3, <4>1 DEF more
      <4> QED
        BY <2>2, <2>3, <3>2, <4>1, <4>2
    <3> QED
      BY <3>1, <3>2
  <2>5. 16 * j + 16 = 16 * (j + 1)
    BY <1>1
  <2>6. before \o more = after
    BY <2>2, <2>3, <2>4, <2>5, SeqEqual
  <2> QED
    BY <2>6 DEF before, after
<1> HIDE DEF more
<1>7. all = SubSeq(pad, 1, 16 * (j + 1))
  BY <1>1, <1>6
<1>8. j + 1 \in 0 .. many /\ 0 \in 0 .. 9
  BY <1>1
<1> HIDE DEF all
<1>9. Decrypting(w, pad, many, digits, hist, j + 1, 0, t2, all)
  BY <1>1, <1>3, <1>7, <1>8 DEF Decrypting
<1> QED
  BY <1>9 DEF all, more

-----------------------------------------------------------------------------
(* The key, and the text.                                                  *)

LEMMA HexByteIs ==
  ASSUME NEW high \in 0 .. NotHex, NEW low \in 0 .. NotHex
  PROVE  hex_byte(high, low) \in Byte
BY DEF hex_byte, NotHex, Byte

LEMMA TypedByte ==
  ASSUME NEW typed \in Seq(0 .. NotHex), Len(typed) >= 32, NEW k \in 1 .. 16
  PROVE  hex_byte(typed[2 * k - 1], typed[2 * k]) \in Byte
<1>1. PICK m \in Nat : m = Len(typed) /\ m >= 32
  BY LenProperties
<1>2. 2 * k - 1 \in 1 .. m /\ 2 * k \in 1 .. m
  BY <1>1
<1>3. typed[2 * k - 1] \in 0 .. NotHex /\ typed[2 * k] \in 0 .. NotHex
  BY <1>1, <1>2, ElementOfSeq
<1> QED
  BY <1>3, HexByteIs

LEMMA TypedWord ==
  ASSUME NEW bytes \in [1 .. 16 -> Byte], NEW k \in 1 .. 4
  PROVE  SubSeq(bytes, 4 * k - 3, 4 * k) \in Word
<1>1. PICK from \in 1 .. 16, to \in 1 .. 16 : from = 4 * k - 3 /\ to = 4 * k /\ to - from + 1 = 4
  OBVIOUS
<1>2. from \in Int /\ to \in Int /\ from <= to /\ \A i \in from .. to : bytes[i] \in Byte
  BY <1>1
<1>3. SubSeq(bytes, from, to) \in Seq(Byte) /\ Len(SubSeq(bytes, from, to)) = 4
  BY <1>1, <1>2, SubSeqProperties
<1> QED
  BY <1>1, <1>3, LenProperties DEF Word

LEMMA TypedKey ==
  ASSUME NEW typed \in Seq(0 .. NotHex), Len(typed) >= 32,
         NEW bytes, bytes = [k \in 1 .. 16 |-> hex_byte(typed[2 * k - 1], typed[2 * k])],
         NEW ws, ws = [k \in 1 .. 4 |-> SubSeq(bytes, 4 * k - 3, 4 * k)]
  PROVE  ws \in Seq(Word) /\ Len(ws) = 4
<1>1. bytes \in [1 .. 16 -> Byte]
  BY TypedByte
<1>2. ws \in [1 .. 4 -> Word]
  BY <1>1, TypedWord
<1> QED
  BY <1>2, FunctionIsSeq

LEMMA RconBytes == \A k \in 1 .. 10 : rcon[k] \in Byte
BY DEF rcon, Byte

LEMMA NextWordIsWord ==
  ASSUME NEW ws \in Seq(Word), Len(ws) \in 4 .. 43
  PROVE  NextWord(ws) \in Word
<1>1. PICK m \in 4 .. 43 : m = Len(ws) /\ m - 3 \in 1 .. m /\ m \in 1 .. m
  OBVIOUS
<1> DEFINE last == ws[m]
           sub == SubWord(RotWord(last))
           temp == IF m % 4 = 0 THEN [sub EXCEPT ![1] = Xor(sub[1], rcon[m \div 4])] ELSE last
<1>2. last \in Word /\ ws[m - 3] \in Word
  BY <1>1, ElementOfSeq
<1>3. sub \in Word
  <2>1. RotWord(last) = <<last[2], last[3], last[4], last[1]>> /\ last[1] \in Byte /\ last[2] \in Byte
        /\ last[3] \in Byte /\ last[4] \in Byte
    BY <1>2 DEF RotWord, Word
  <2>2. \A k \in 1 .. 4 : RotWord(last)[k] \in Byte
    <3>1. 1 .. 4 = {1, 2, 3, 4}
      OBVIOUS
    <3> QED
      BY <2>1, <3>1
  <2>3. \A k \in 1 .. 4 : sbox[RotWord(last)[k] + 1] \in Byte
    BY <2>2, Substituted
  <2> QED
    BY <2>3 DEF SubWord, Word
<1>4. temp \in Word
  <2>1. CASE m % 4 = 0
    <3>1. m \div 4 \in 1 .. 10
      OBVIOUS
    <3>2. sub[1] \in Byte /\ rcon[m \div 4] \in Byte
      BY <1>3, <3>1, RconBytes DEF Word
    <3>3. Xor(sub[1], rcon[m \div 4]) \in Byte
      BY <3>2, XorLaws
    <3> HIDE DEF sub
    <3> QED
      BY <1>3, <2>1, <3>3 DEF Word
  <2>2. CASE m % 4 # 0
    BY <1>2, <2>2
  <2> QED
    BY <2>1, <2>2
<1>5. NextWord(ws) = [k \in 1 .. 4 |-> Xor(ws[m - 3][k], temp[k])]
  BY <1>1 DEF NextWord
<1> HIDE DEF temp, sub, last
<1>6. ASSUME NEW k \in 1 .. 4 PROVE Xor(ws[m - 3][k], temp[k]) \in Byte
  <2>1. ws[m - 3][k] \in Byte /\ temp[k] \in Byte
    BY <1>2, <1>4 DEF Word
  <2> QED
    BY <2>1, XorLaws
<1> QED
  BY <1>5, <1>6 DEF Word

\* The text with its padding, and its number of blocks without it.
PaddedText(text, pad, many) ==
  /\ text \in Seq(1 .. 255)
  /\ pad = text \o PaddingOf(text)
  /\ many = (Len(text) + BLOCK_SIZE - 1) \div BLOCK_SIZE

LEMMA PaddedFacts ==
  ASSUME NEW text, NEW pad, NEW many, PaddedText(text, pad, many)
  PROVE  /\ pad \in Seq(Byte) /\ Len(pad) \in Nat /\ many \in Nat
         /\ 16 * many <= Len(pad)
         /\ Len(text) % 16 # 0 => 16 * many - pad[16 * many] = Len(text)
<1>1. text \in Seq(1 .. 255) /\ Len(text) \in Nat /\ pad = text \o PaddingOf(text)
  BY LenProperties DEF PaddedText
<1>2. PICK m \in Nat : m = Len(text)
  BY <1>1
<1>3. PICK long \in 1 .. 16 : long = 16 - (m % 16)
  BY <1>2
<1>4. PaddingOf(text) = [k \in 1 .. long |-> long]
  BY <1>2, <1>3 DEF PaddingOf, BLOCK_SIZE
<1>5. PaddingOf(text) \in Seq(Byte) /\ Len(PaddingOf(text)) = long
      /\ \A k \in 1 .. long : PaddingOf(text)[k] = long
  <2>1. long \in Byte /\ long \in Nat
    BY DEF Byte
  <2>2. PaddingOf(text) \in [1 .. long -> Byte]
    BY <1>4, <2>1
  <2> QED
    BY <1>4, <2>1, <2>2, FunctionIsSeq
<1>6. text \in Seq(Byte)
  <2>1. ASSUME NEW k \in 1 .. Len(text) PROVE text[k] \in Byte
    <3>1. text[k] \in 1 .. 255
      BY <1>1, ElementOfSeq
    <3> QED
      BY <3>1 DEF Byte
  <2>2. text = [k \in 1 .. Len(text) |-> text[k]]
    BY <1>1
  <2>3. text \in [1 .. Len(text) -> Byte]
    BY <2>1, <2>2
  <2> QED
    BY <1>1, <2>3, FunctionIsSeq
<1>7. pad \in Seq(Byte) /\ Len(pad) = m + long
      /\ \A k \in 1 .. (m + long) : pad[k] = IF k <= m THEN text[k] ELSE PaddingOf(text)[k - m]
  BY <1>1, <1>2, <1>5, <1>6, ConcatProperties
<1>8. many = (m + 15) \div 16 /\ many \in Nat
  <2>1. many = (m + 16 - 1) \div 16
    BY <1>2 DEF PaddedText, BLOCK_SIZE
  <2> QED
    BY <2>1
<1>9. 16 * many <= m + long
  BY <1>3, <1>8
<1>10. ASSUME m % 16 # 0 PROVE 16 * many - pad[16 * many] = m
  <2>1. 16 * many = m + long
    BY <1>3, <1>8, <1>10
  <2>2. m + long \in 1 .. (m + long) /\ ~(m + long <= m) /\ (m + long) - m = long
    OBVIOUS
  <2>3. pad[m + long] = long
    BY <1>5, <1>7, <2>2
  <2> QED
    BY <2>1, <2>3
<1> QED
  BY <1>2, <1>7, <1>8, <1>9, <1>10

-----------------------------------------------------------------------------
(* The invariant of encryption and decryption.                             *)

AesWorks == {"encrypt", "decrypt", "done"}
AesBefore == {"key", "short_key", "expand", "text"}
AesEnds == {"invalid", "crashed"}

KeyInv ==
  /\ words \in Seq(Word)
  /\ aes \in {"key", "short_key"} => words = <<>>
  /\ aes = "expand" => Len(words) \in 4 .. 44
  /\ aes = "text" \/ aes \in AesEnds \cup AesWorks => Len(words) = 44

TextInv ==
  /\ aes \in AesBefore => input_array = <<>> /\ padded_data = <<>> /\ num_blocks = 0
  /\ aes \in AesEnds \cup AesWorks => PaddedText(input_array, padded_data, num_blocks)
  /\ aes \in AesWorks => num_blocks > 0

NothingDone ==
  /\ block = 0 /\ round = 0 /\ state_matrix \in Matrix
  /\ printed = <<>> /\ seen = <<>> /\ plaintext = <<>> /\ final_length = 0

\* How far the loops are.
LoopInv ==
  /\ aes \in AesBefore \cup AesEnds => NothingDone
  /\ aes = "encrypt" =>
       /\ Encrypting(words, padded_data, num_blocks, printed, seen, block, round, state_matrix)
       /\ plaintext = <<>> /\ final_length = 0
  /\ aes \in {"decrypt", "done"} =>
       Decrypting(words, padded_data, num_blocks, printed, seen, block, round, state_matrix,
                  plaintext)
  /\ aes = "decrypt" => final_length = 0
  /\ aes = "done" => /\ block = num_blocks
                     /\ final_length = 16 * num_blocks - padded_data[16 * num_blocks]

AesInv == aes \in AesBefore \cup AesEnds \cup AesWorks /\ KeyInv /\ TextInv /\ LoopInv

LEMMA AesInitInv == AesInit => AesInv
<1> SUFFICES ASSUME AesInit PROVE AesInv
  OBVIOUS
<1>1. state_matrix \in Matrix
  <2>1. 0 \in Byte
    BY DEF Byte
  <2> QED
    BY <2>1 DEF AesInit, Matrix
<1> QED
  BY <1>1 DEF AesInit, AesInv, KeyInv, TextInv, LoopInv, NothingDone, AesBefore, AesEnds, AesWorks

LEMMA ReadKeyInv == AesInv /\ ReadKey => AesInv'
<1> SUFFICES ASSUME AesInv, ReadKey PROVE AesInv'
  OBVIOUS
<1>1. /\ aes = "key" /\ NothingDone /\ words = <<>>
      /\ input_array = <<>> /\ padded_data = <<>> /\ num_blocks = 0
  BY DEF AesInv, ReadKey, KeyInv, TextInv, LoopInv, AesBefore
<1>2. UNCHANGED <<input_array, padded_data, num_blocks, block, round, state_matrix,
                  printed, plaintext, final_length, seen>>
  BY DEF ReadKey
<1>3. NothingDone'
  BY <1>1, <1>2 DEF NothingDone
<1>4. \/ aes' = "short_key" /\ words' = <<>>
      \/ aes' = "expand" /\ words' \in Seq(Word) /\ Len(words') = 4
  <2>1. PICK typed \in Keys :
          \/ Len(typed) < 32 /\ aes' = "short_key" /\ UNCHANGED <<key_bytes, words>>
          \/ /\ Len(typed) >= 32
             /\ key_bytes' = [k \in 1 .. 16 |-> hex_byte(typed[2 * k - 1], typed[2 * k])]
             /\ words' = [k \in 1 .. 4 |-> SubSeq(key_bytes', 4 * k - 3, 4 * k)]
             /\ aes' = "expand"
    BY DEF ReadKey
  <2>2. typed \in Seq(0 .. NotHex)
    BY AesAssumption
  <2>3. CASE Len(typed) < 32 /\ aes' = "short_key" /\ UNCHANGED <<key_bytes, words>>
    BY <1>1, <2>3
  <2>4. CASE /\ Len(typed) >= 32
             /\ key_bytes' = [k \in 1 .. 16 |-> hex_byte(typed[2 * k - 1], typed[2 * k])]
             /\ words' = [k \in 1 .. 4 |-> SubSeq(key_bytes', 4 * k - 3, 4 * k)]
             /\ aes' = "expand"
    <3>1. words' \in Seq(Word) /\ Len(words') = 4
      BY <2>2, <2>4, TypedKey
    <3> QED
      BY <2>4, <3>1
  <2> QED
    BY <2>1, <2>3, <2>4
<1>5. KeyInv'
  <2>1. <<>> \in Seq(Word) /\ 4 \in 4 .. 44
    OBVIOUS
  <2>2. CASE aes' = "short_key" /\ words' = <<>>
    BY <2>1, <2>2 DEF KeyInv, AesEnds, AesWorks
  <2>3. CASE aes' = "expand" /\ words' \in Seq(Word) /\ Len(words') = 4
    BY <2>1, <2>3 DEF KeyInv, AesEnds, AesWorks
  <2> QED
    BY <1>4, <2>2, <2>3
<1>6. TextInv'
  BY <1>1, <1>2, <1>4 DEF TextInv, AesBefore, AesEnds, AesWorks
<1>7. LoopInv'
  BY <1>3, <1>4 DEF LoopInv, AesBefore, AesEnds, AesWorks
<1> QED
  BY <1>4, <1>5, <1>6, <1>7 DEF AesInv, AesBefore, AesEnds, AesWorks

LEMMA KeyExpansionInv == AesInv /\ KeyExpansion => AesInv'
<1> SUFFICES ASSUME AesInv, KeyExpansion PROVE AesInv'
  OBVIOUS
<1>1. /\ aes = "expand" /\ NothingDone /\ words \in Seq(Word) /\ Len(words) \in 4 .. 44
      /\ input_array = <<>> /\ padded_data = <<>> /\ num_blocks = 0
  BY DEF AesInv, KeyExpansion, KeyInv, TextInv, LoopInv, AesBefore
<1>2. UNCHANGED <<input_array, padded_data, num_blocks, block, round, state_matrix,
                  printed, plaintext, final_length, seen>>
  BY DEF KeyExpansion
<1>3. NothingDone'
  BY <1>1, <1>2 DEF NothingDone
<1>4. /\ words' \in Seq(Word)
      /\ \/ aes' = "expand" /\ Len(words') \in 4 .. 44
         \/ aes' = "text" /\ Len(words') = 44
  <2>1. CASE Len(words) < 44 /\ words' = Append(words, NextWord(words)) /\ UNCHANGED aes
    <3>1. PICK m \in 4 .. 43 : m = Len(words)
      <4>1. PICK m \in 4 .. 44 : m = Len(words)
        BY <1>1
      <4>2. m < 44
        BY <2>1, <4>1
      <4>3. m \in 4 .. 43
        BY <4>2
      <4> QED
        BY <4>1, <4>3
    <3>2. NextWord(words) \in Word
      BY <1>1, <3>1, NextWordIsWord
    <3>3. words' \in Seq(Word) /\ Len(words') = Len(words) + 1
      BY <1>1, <2>1, <3>2, AppendProperties
    <3>4. m + 1 \in 4 .. 44
      OBVIOUS
    <3> QED
      BY <1>1, <2>1, <3>1, <3>3, <3>4
  <2>2. CASE Len(words) = 44 /\ aes' = "text" /\ UNCHANGED words
    BY <1>1, <2>2
  <2> QED
    BY <2>1, <2>2 DEF KeyExpansion
<1>5. KeyInv'
  BY <1>4 DEF KeyInv, AesEnds, AesWorks
<1>6. TextInv'
  BY <1>1, <1>2, <1>4 DEF TextInv, AesBefore, AesEnds, AesWorks
<1>7. LoopInv'
  BY <1>3, <1>4 DEF LoopInv, AesBefore, AesEnds, AesWorks
<1> QED
  BY <1>4, <1>5, <1>6, <1>7 DEF AesInv, AesBefore, AesEnds, AesWorks

LEMMA EncryptionStarts ==
  ASSUME NEW w, NEW pad, NEW many \in Nat, NEW t \in Matrix
  PROVE  Encrypting(w, pad, many, <<>>, <<>>, 0, 0, t)
<1>1. <<>> \in Seq(HexDigit) /\ Len(<<>>) = 32 * 0 /\ <<>> \in Seq(Seq(Matrix)) /\ Len(<<>>) = 0
  OBVIOUS
<1>2. AllPrinted(w, pad, 0, <<>>, <<>>)
  BY <1>1 DEF AllPrinted
<1> QED
  BY <1>1, <1>2 DEF Encrypting

LEMMA ReadTextInv == AesInv /\ ReadText => AesInv'
<1> SUFFICES ASSUME AesInv, ReadText PROVE AesInv'
  OBVIOUS
<1>1. aes = "text" /\ NothingDone /\ words \in Seq(Word) /\ Len(words) = 44
  BY DEF AesInv, ReadText, KeyInv, LoopInv, AesBefore
<1>2. UNCHANGED <<key_bytes, words, block, round, state_matrix, printed, plaintext,
                  final_length, seen>>
  BY DEF ReadText
<1>3. NothingDone'
  BY <1>1, <1>2 DEF NothingDone
<1>4. PICK text \in Texts :
        /\ input_array' = text
        /\ num_blocks' = (Len(text) + BLOCK_SIZE - 1) \div BLOCK_SIZE
        /\ padded_data' = text \o PaddingOf(text)
        /\ aes' \in IF num_blocks' = 0 THEN {"invalid", "crashed"}
                    ELSE IF Len(text) % BLOCK_SIZE = 0 THEN {"encrypt", "crashed"}
                    ELSE {"encrypt"}
  BY DEF ReadText
<1>5. PaddedText(input_array', padded_data', num_blocks')
  BY <1>4, AesAssumption DEF PaddedText
<1>6. num_blocks' \in Nat
  BY <1>5, PaddedFacts
<1>7. aes' \in {"invalid", "crashed", "encrypt"} /\ (aes' = "encrypt" => num_blocks' > 0)
  BY <1>4, <1>6
<1>8. KeyInv'
  BY <1>1, <1>2, <1>7 DEF KeyInv, AesEnds, AesWorks
<1>9. TextInv'
  BY <1>5, <1>7 DEF TextInv, AesBefore, AesEnds, AesWorks
<1>10. LoopInv'
  <2>1. CASE aes' = "encrypt"
    <3>1. Encrypting(words, padded_data, num_blocks, printed, seen, block, round, state_matrix)'
      BY <1>3, <1>6, EncryptionStarts DEF NothingDone
    <3> QED
      BY <1>3, <2>1, <3>1 DEF LoopInv, NothingDone, AesBefore, AesEnds, AesWorks
  <2>2. CASE aes' \in {"invalid", "crashed"}
    BY <1>3, <2>2 DEF LoopInv, AesBefore, AesEnds, AesWorks
  <2> QED
    BY <1>7, <2>1, <2>2
<1> QED
  BY <1>7, <1>8, <1>9, <1>10 DEF AesInv, AesBefore, AesEnds, AesWorks

\* What encryption and decryption work with.
LEMMA WorkIsReady ==
  ASSUME AesInv, aes \in AesWorks
  PROVE  /\ Ready(words, padded_data, num_blocks) /\ num_blocks > 0
         /\ PaddedText(input_array, padded_data, num_blocks)
         /\ padded_data \in Seq(Byte) /\ num_blocks \in Nat
<1>1. IsSchedule(words)
  BY DEF AesInv, KeyInv, IsSchedule
<1>2. PaddedText(input_array, padded_data, num_blocks) /\ num_blocks > 0
  BY DEF AesInv, TextInv
<1> QED
  BY <1>1, <1>2, PaddedFacts DEF Ready

LEMMA KeyOfRound == \A s, r : add_state_round(s, r) = AddKey(words, s, r)
BY DEF add_state_round, AddKey

\* Key and text stay as they are while the loops run.
LEMMA WorkStays ==
  ASSUME AesInv, aes \in AesWorks, aes' \in AesWorks,
         UNCHANGED <<key_bytes, words, input_array, padded_data, num_blocks>>
  PROVE  KeyInv' /\ TextInv'
<1>1. KeyInv'
  BY DEF AesInv, KeyInv, AesEnds, AesWorks
<1>2. TextInv'
  <2>1. PaddedText(input_array, padded_data, num_blocks)'
        /\ num_blocks' > 0
    BY WorkIsReady
  <2> QED
    BY <2>1 DEF TextInv, AesBefore, AesEnds, AesWorks
<1> QED
  BY <1>1, <1>2

LEMMA EncryptInv == AesInv /\ aes_encrypt => AesInv'
<1> SUFFICES ASSUME AesInv, aes_encrypt PROVE AesInv'
  OBVIOUS
<1> DEFINE Here == Encrypting(words, padded_data, num_blocks, printed, seen, block, round,
                              state_matrix)
<1>1. /\ aes = "encrypt" /\ Here /\ plaintext = <<>> /\ final_length = 0
      /\ UNCHANGED <<key_bytes, words, input_array, padded_data, num_blocks, plaintext,
                     final_length>>
  BY DEF AesInv, LoopInv, aes_encrypt
<1>2. Ready(words, padded_data, num_blocks) /\ num_blocks > 0
  BY <1>1, WorkIsReady DEF AesWorks
<1>3. CASE UNCHANGED aes /\ Here'
  <2>1. KeyInv' /\ TextInv'
    BY <1>1, <1>3, WorkStays DEF AesWorks
  <2>2. LoopInv'
    BY <1>1, <1>3 DEF LoopInv, AesBefore, AesEnds, AesWorks
  <2> QED
    BY <1>1, <1>3, <2>1, <2>2 DEF AesInv, AesWorks
<1>4. CASE FirstRound
  <2>1. /\ block < num_blocks /\ round = 0
        /\ state_matrix' = AddKey(words, ToMatrix(padded_data, block), 0)
        /\ round' = 1 /\ seen' = Append(seen, <<state_matrix'>>)
        /\ UNCHANGED <<aes, block, printed>>
    BY <1>4, KeyOfRound DEF FirstRound
  <2>2. Encrypting(words, padded_data, num_blocks, printed, Append(seen, <<state_matrix'>>),
                   block, 1, state_matrix')
    BY <1>1, <1>2, <2>1, FirstRoundKeeps
  <2>3. Here'
    BY <1>1, <2>1, <2>2
  <2> QED
    BY <1>3, <2>1, <2>3
<1>5. CASE NextRound
  <2>1. /\ round \in 1 .. 10
        /\ state_matrix' = AddKey(words, Turned(state_matrix, round), round)
        /\ round' = round + 1
        /\ seen' = [seen EXCEPT ![block + 1] = Append(@, state_matrix')]
        /\ UNCHANGED <<aes, block, printed>>
    BY <1>5, KeyOfRound DEF NextRound, Turned
  <2>2. Encrypting(words, padded_data, num_blocks, printed,
                   [seen EXCEPT ![block + 1] = Append(@, state_matrix')],
                   block, round + 1, state_matrix')
    BY <1>1, <1>2, <2>1, NextRoundKeeps
  <2>3. Here'
    BY <1>1, <2>1, <2>2
  <2> QED
    BY <1>3, <2>1, <2>3
<1>6. CASE BlockIsEncrypted
  <2>1. /\ round = 11 /\ printed' = printed \o HexDigits(FromMatrix(state_matrix))
        /\ round' = 0 /\ block' = block + 1 /\ UNCHANGED <<aes, state_matrix, seen>>
    BY <1>6 DEF BlockIsEncrypted
  <2>2. Encrypting(words, padded_data, num_blocks, printed \o HexDigits(FromMatrix(state_matrix)),
                   seen, block + 1, 0, state_matrix)
    BY <1>1, <1>2, <2>1, BlockKeeps
  <2>3. Here'
    BY <1>1, <2>1, <2>2
  <2> QED
    BY <1>3, <2>1, <2>3
<1>7. CASE TextIsEncrypted
  <2>1. /\ block = num_blocks /\ aes' = "decrypt" /\ block' = 0
        /\ UNCHANGED <<round, state_matrix, printed, seen>>
    BY <1>7 DEF TextIsEncrypted
  <2>2. round = 0
    BY <1>1, <2>1 DEF Encrypting
  <2>3. Decrypting(words, padded_data, num_blocks, printed, seen, 0, 0, state_matrix, <<>>)
    BY <1>1, <1>2, <2>1, <2>2, DecryptionStarts
  <2>4. Decrypting(words, padded_data, num_blocks, printed, seen, block, round, state_matrix,
                   plaintext)'
    BY <1>1, <2>1, <2>2, <2>3
  <2>5. KeyInv' /\ TextInv'
    BY <1>1, <2>1, WorkStays DEF AesWorks
  <2>6. LoopInv'
    BY <1>1, <2>1, <2>4 DEF LoopInv, AesBefore, AesEnds, AesWorks
  <2> QED
    BY <2>1, <2>5, <2>6 DEF AesInv, AesWorks
<1> QED
  BY <1>4, <1>5, <1>6, <1>7 DEF aes_encrypt

\* Decryption is given what was printed.
LEMMA CipherOfBlock ==
  ASSUME NEW w, NEW pad, NEW many \in Nat, AllPrinted(w, pad, many, printed, seen)
  PROVE  /\ Blocks = many
         /\ \A k \in 0 .. (many - 1) : ToMatrix(cipher_bytes, k) = seen[k + 1][11]
<1>1. printed \in Seq(HexDigit) /\ Len(printed) = 32 * many
  BY DEF AllPrinted
<1>2. ASSUME NEW k \in 0 .. (many - 1) PROVE ToMatrix(cipher_bytes, k) = seen[k + 1][11]
  <2>1. Encrypted(w, pad, k, seen[k + 1], 11) /\ PrintedAs(printed, k, seen[k + 1][11])
    BY DEF AllPrinted
  <2>2. seen[k + 1][11] \in Matrix
    <3>1. PICK rows \in Seq(Matrix) : rows = seen[k + 1] /\ Len(rows) = 11
      BY <2>1 DEF Encrypted
    <3>2. 11 \in 1 .. Len(rows)
      BY <3>1
    <3> QED
      BY <3>1, <3>2, ElementOfSeq
  <2> QED
    BY <1>1, <2>1, <2>2, CipherBytes
<1> QED
  BY <1>1, <1>2, CipherBytes

LEMMA DecryptInv == AesInv /\ aes_decrypt => AesInv'
<1> SUFFICES ASSUME AesInv, aes_decrypt PROVE AesInv'
  OBVIOUS
<1> DEFINE Here == Decrypting(words, padded_data, num_blocks, printed, seen, block, round,
                              state_matrix, plaintext)
<1>1. /\ aes = "decrypt" /\ Here /\ final_length = 0
      /\ UNCHANGED <<key_bytes, words, input_array, padded_data, num_blocks, printed, seen>>
  BY DEF AesInv, LoopInv, aes_decrypt
<1>2. Ready(words, padded_data, num_blocks) /\ num_blocks > 0 /\ num_blocks \in Nat
      /\ padded_data \in Seq(Byte)
  BY <1>1, WorkIsReady DEF AesWorks
<1>3. /\ Blocks = num_blocks
      /\ \A k \in 0 .. (num_blocks - 1) : ToMatrix(cipher_bytes, k) = seen[k + 1][11]
  BY <1>1, <1>2, CipherOfBlock DEF Decrypting
<1>4. CASE UNCHANGED <<aes, final_length>> /\ Here'
  <2>1. KeyInv' /\ TextInv'
    BY <1>1, <1>4, WorkStays DEF AesWorks
  <2>2. LoopInv'
    BY <1>1, <1>4 DEF LoopInv, AesBefore, AesEnds, AesWorks
  <2> QED
    BY <1>1, <1>4, <2>1, <2>2 DEF AesInv, AesWorks
<1>5. CASE LastRoundFirst
  <2>1. /\ block < num_blocks /\ round = 0
        /\ state_matrix' =
             inv_sub_bytes(inv_shift_rows(AddKey(words, ToMatrix(cipher_bytes, block), 10)))
        /\ round' = 9 /\ UNCHANGED <<aes, block, plaintext, final_length>>
    BY <1>3, <1>5, KeyOfRound DEF LastRoundFirst
  <2>2. ToMatrix(cipher_bytes, block) = seen[block + 1][11]
    <3>1. block \in 0 .. (num_blocks - 1)
      BY <1>1, <1>2, <2>1 DEF Decrypting
    <3> QED
      BY <1>3, <3>1
  <2>3. Decrypting(words, padded_data, num_blocks, printed, seen, block, 9, state_matrix',
                   plaintext)
    BY <1>1, <1>2, <2>1, <2>2, LastRoundKeeps
  <2>4. Here'
    BY <1>1, <2>1, <2>3
  <2> QED
    BY <1>4, <2>1, <2>4
<1>6. CASE RoundBefore /\ round > 1
  <2>1. /\ round \in 2 .. 9
        /\ state_matrix' =
             inv_sub_bytes(inv_shift_rows(inv_mix_columns(AddKey(words, state_matrix, round))))
        /\ round' = round - 1 /\ UNCHANGED <<aes, block, plaintext, final_length>>
    BY <1>6, KeyOfRound DEF RoundBefore
  <2>2. Decrypting(words, padded_data, num_blocks, printed, seen, block, round - 1,
                   state_matrix', plaintext)
    BY <1>1, <1>2, <2>1, RoundBeforeKeeps
  <2>3. Here'
    BY <1>1, <2>1, <2>2
  <2> QED
    BY <1>4, <2>1, <2>3
<1>7. CASE RoundBefore /\ ~(round > 1)
  <2>1. /\ round = 1
        /\ state_matrix' =
             AddKey(words, inv_sub_bytes(inv_shift_rows(inv_mix_columns(
                             AddKey(words, state_matrix, 1)))), 0)
        /\ plaintext' = plaintext \o FromMatrix(state_matrix')
        /\ block' = block + 1 /\ round' = 0 /\ UNCHANGED <<aes, final_length>>
    BY <1>7, KeyOfRound DEF RoundBefore
  <2>2. Decrypting(words, padded_data, num_blocks, printed, seen, block + 1, 0, state_matrix',
                   plaintext \o FromMatrix(state_matrix'))
    BY <1>1, <1>2, <2>1, RoundZeroKeeps
  <2>3. Here'
    BY <1>1, <2>1, <2>2
  <2> QED
    BY <1>4, <2>1, <2>3
<1>8. CASE RemovePadding
  <2>1. /\ block = num_blocks /\ aes' = "done"
        /\ final_length' = 16 * num_blocks - plaintext[Len(plaintext)]
        /\ UNCHANGED <<block, round, state_matrix, plaintext>>
    BY <1>3, <1>8 DEF RemovePadding, BLOCK_SIZE
  <2>2. plaintext[Len(plaintext)] = padded_data[16 * num_blocks]
    <3>1. plaintext = SubSeq(padded_data, 1, 16 * num_blocks)
      BY <1>1, <2>1 DEF Decrypting
    <3>2. PICK m \in Nat \ {0} : m = 16 * num_blocks /\ m <= Len(padded_data)
                                 /\ Len(padded_data) \in Nat
      BY <1>2, LenProperties DEF Ready
    <3>3. \A i \in 1 .. m : padded_data[i] \in Byte
      BY <1>2, <3>2, ElementOfSeq
    <3>4. Len(SubSeq(padded_data, 1, m)) = m /\ SubSeq(padded_data, 1, m)[m] = padded_data[m]
      BY <3>2, <3>3, SubSeqProperties
    <3> QED
      BY <3>1, <3>2, <3>4
  <2>3. Here'
    BY <1>1, <2>1
  <2>4. KeyInv' /\ TextInv'
    BY <1>1, <2>1, WorkStays DEF AesWorks
  <2>5. LoopInv'
    BY <1>1, <2>1, <2>2, <2>3 DEF LoopInv, AesBefore, AesEnds, AesWorks
  <2> QED
    BY <2>1, <2>4, <2>5 DEF AesInv, AesWorks
<1> QED
  BY <1>5, <1>6, <1>7, <1>8 DEF aes_decrypt

LEMMA AesUnchangedInv == AesInv /\ UNCHANGED aesVars => AesInv'
<1> SUFFICES ASSUME AesInv, UNCHANGED aesVars PROVE AesInv'
  OBVIOUS
<1> QED
  BY DEF AesInv, aesVars, KeyInv, TextInv, LoopInv, NothingDone

LEMMA AesNextInv == AesInv /\ [AesNext]_aesVars => AesInv'
  BY ReadKeyInv, KeyExpansionInv, ReadTextInv, EncryptInv, DecryptInv, AesUnchangedInv
     DEF AesNext, AesCompute

LEMMA AesTypes == AesInv => AesTypeOK
<1> SUFFICES ASSUME AesInv PROVE AesTypeOK
  OBVIOUS
<1>1. /\ words \in Seq([1 .. 4 -> Byte]) /\ Len(words) <= 44
  <2>1. words \in Seq(Word) /\ (words = <<>> \/ Len(words) \in 4 .. 44)
    BY DEF AesInv, KeyInv, AesBefore, AesEnds, AesWorks
  <2>2. Len(words) <= 44
    <3>1. CASE words = <<>>
      BY <3>1
    <3>2. CASE Len(words) \in 4 .. 44
      <4>1. PICK m \in 4 .. 44 : m = Len(words)
        BY <3>2
      <4>2. m <= 44
        OBVIOUS
      <4> QED
        BY ONLY <4>1, <4>2
    <3> QED
      BY <2>1, <3>1, <3>2
  <2> QED
    BY <2>1, <2>2 DEF Word
<1>2. CASE aes \in AesBefore
  <2>1. /\ NothingDone /\ input_array = <<>> /\ padded_data = <<>> /\ num_blocks = 0
    BY <1>2 DEF AesInv, TextInv, LoopInv
  <2> QED
    BY <1>1, <1>2, <2>1 DEF AesTypeOK, NothingDone, AesBefore, Matrix
<1>3. CASE aes \in AesEnds
  <2>1. NothingDone /\ PaddedText(input_array, padded_data, num_blocks)
    BY <1>3 DEF AesInv, TextInv, LoopInv
  <2>2. padded_data \in Seq(Byte) /\ num_blocks \in Nat /\ input_array \in Seq(1 .. 255)
    BY <2>1, PaddedFacts DEF PaddedText
  <2> QED
    BY <1>1, <1>3, <2>1, <2>2 DEF AesTypeOK, NothingDone, AesEnds, Matrix
<1>4. CASE aes \in AesWorks
  <2>1. /\ padded_data \in Seq(Byte) /\ num_blocks \in Nat /\ input_array \in Seq(1 .. 255)
        /\ Ready(words, padded_data, num_blocks) /\ num_blocks > 0
    BY <1>4, WorkIsReady DEF PaddedText
  <2>2. CASE aes = "encrypt"
    <3>1. /\ Encrypting(words, padded_data, num_blocks, printed, seen, block, round, state_matrix)
          /\ plaintext = <<>> /\ final_length = 0
      BY <2>2 DEF AesInv, LoopInv
    <3>2. block \in 0 .. num_blocks /\ round \in 0 .. 11 /\ state_matrix \in [Cells -> Byte]
          /\ printed \in Seq(0 .. 15)
      BY <3>1 DEF Encrypting, AllPrinted, Matrix, HexDigit
    <3> QED
      BY <1>1, <2>1, <2>2, <3>1, <3>2 DEF AesTypeOK
  <2>3. CASE aes \in {"decrypt", "done"}
    <3>1. Decrypting(words, padded_data, num_blocks, printed, seen, block, round, state_matrix,
                     plaintext)
      BY <2>3 DEF AesInv, LoopInv
    <3>2. block \in 0 .. num_blocks /\ round \in 0 .. 11 /\ state_matrix \in [Cells -> Byte]
          /\ printed \in Seq(0 .. 15)
      BY <3>1 DEF Decrypting, AllPrinted, Matrix, HexDigit
    <3>a. \A i \in 1 .. (16 * num_blocks) : padded_data[i] \in Byte
      <4>1. Len(padded_data) \in Nat /\ 16 * num_blocks <= Len(padded_data)
        BY <2>1, LenProperties DEF Ready
      <4>2. \A i \in 1 .. (16 * num_blocks) : i \in 1 .. Len(padded_data)
        BY <2>1, <4>1
      <4> QED
        BY <2>1, <4>2, ElementOfSeq
    <3>3. plaintext \in Seq(Byte)
      <4>1. plaintext = SubSeq(padded_data, 1, 16 * block)
        BY <3>1 DEF Decrypting
      <4>2. PICK m \in Nat : m = 16 * block /\ m <= 16 * num_blocks
        BY <2>1, <3>2
      <4>3. \A i \in 1 .. m : padded_data[i] \in Byte
        BY <2>1, <3>a, <4>2
      <4> QED
        BY <4>1, <4>2, <4>3, SubSeqProperties
    <3>4. final_length \in Int
      <4>1. 16 * num_blocks \in 1 .. (16 * num_blocks)
        BY <2>1
      <4>2. padded_data[16 * num_blocks] \in Int
        BY <3>a, <4>1 DEF Byte
      <4>3. final_length = 0 \/ final_length = 16 * num_blocks - padded_data[16 * num_blocks]
        BY <2>3 DEF AesInv, LoopInv
      <4> QED
        BY <2>1, <4>2, <4>3
    <3> QED
      BY <1>1, <2>1, <2>3, <3>2, <3>3, <3>4 DEF AesTypeOK
  <2> QED
    BY <1>4, <2>2, <2>3 DEF AesWorks
<1> QED
  BY <1>2, <1>3, <1>4 DEF AesInv

LEMMA TextIsBack == AesInv => TextComesBack
<1> SUFFICES ASSUME AesInv PROVE TextComesBack
  OBVIOUS
<1>1. ASSUME aes \in {"decrypt", "done"}
      PROVE  /\ Decrypting(words, padded_data, num_blocks, printed, seen, block, round,
                           state_matrix, plaintext)
  BY <1>1 DEF AesInv, LoopInv
<1>2. RoundsMirror
  BY <1>1 DEF RoundsMirror, Decrypting
<1>3. BlocksComeBack
  BY <1>1 DEF BlocksComeBack, Decrypting, BLOCK_SIZE
<1>4. LengthIsFound
  <2> SUFFICES ASSUME aes = "done", Len(input_array) % 16 # 0
               PROVE  final_length = Len(input_array)
    BY DEF LengthIsFound, BLOCK_SIZE
  <2>1. PaddedText(input_array, padded_data, num_blocks)
        /\ final_length = 16 * num_blocks - padded_data[16 * num_blocks]
    BY WorkIsReady DEF AesInv, LoopInv, AesWorks
  <2> QED
    BY <2>1, PaddedFacts
<1> QED
  BY <1>2, <1>3, <1>4 DEF TextComesBack

-----------------------------------------------------------------------------
(* The request parser.                                                     *)

\* The place of the line that ends the headers of a request, and how many of
\* its first x lines are headers that the array has room for.
HeaderEnd(req) ==
  LET ends == {k \in DOMAIN req : req[k] = EMPTY}
  IN  IF ends = {} THEN Len(req) + 1 ELSE CHOOSE k \in ends : \A j \in ends : k <= j
Kept(req, x) ==
  LET real == IF x < HeaderEnd(req) - 2 THEN x ELSE HeaderEnd(req) - 2
  IN  IF real < MAX_HEADERS THEN real ELSE MAX_HEADERS

\* The first x lines behind the request line have been looked at.
HeadersUpTo(hdrs, req, x) ==
  /\ Len(hdrs) <= MAX_HEADERS /\ Len(hdrs) >= Kept(req, x)
  /\ x <= HeaderEnd(req) - 2 => Len(hdrs) = Kept(req, x)
  /\ \A j \in 1 .. Kept(req, x) : hdrs[j] = parse_header(req[j + 1])

ParseInv ==
  /\ parse \in {"read", "headers", "parsed"}
  /\ headers \in Seq(Lines \cup {EMPTY})
  /\ parse # "read" => sent_lines \in Requests
  /\ parse = "headers" =>
       \E k \in 1 .. Len(sent_lines) :
         /\ buffer_left = SubSeq(sent_lines, k + 1, Len(sent_lines))
         /\ HeadersUpTo(headers, sent_lines, k - 1)
  /\ parse = "parsed" =>
       \E x \in Nat : /\ x >= HeaderEnd(sent_lines) - 2
                      /\ HeadersUpTo(headers, sent_lines, x)

\* The lines before the end of the headers are not empty.
LEMMA HeaderEndFacts ==
  ASSUME NEW req \in Requests
  PROVE  /\ HeaderEnd(req) \in 2 .. (Len(req) + 1) /\ Len(req) \in Nat
         /\ req \in Seq(Lines)
         /\ \A j \in 1 .. (HeaderEnd(req) - 1) : req[j] # EMPTY
<1> DEFINE ends == {k \in DOMAIN req : req[k] = EMPTY}
<1>1. req \in Seq(Lines) /\ req # <<>> /\ Head(req) # EMPTY
  BY HttpParserAssumption
<1>2. Len(req) \in Nat /\ Len(req) >= 1 /\ DOMAIN req = 1 .. Len(req) /\ req[1] # EMPTY
  BY <1>1
<1>3. CASE ends = {}
  <2>1. HeaderEnd(req) = Len(req) + 1
    BY <1>3 DEF HeaderEnd
  <2> QED
    BY <1>1, <1>2, <1>3, <2>1
<1>4. CASE ends # {}
  <2>1. ends \subseteq Nat
    BY <1>2
  <2>2. \E k \in ends : \A j \in ends : k <= j
    <3> HIDE DEF ends
    <3> QED
      BY <1>4, <2>1, LeastNumber
  <2>3. HeaderEnd(req) \in ends /\ \A j \in ends : HeaderEnd(req) <= j
    BY <1>4, <2>2 DEF HeaderEnd
  <2>4. HeaderEnd(req) \in 1 .. Len(req) /\ HeaderEnd(req) # 1
    BY <1>2, <2>3
  <2>5. \A j \in 1 .. (HeaderEnd(req) - 1) : j \in DOMAIN req /\ j \notin ends
    <3> SUFFICES ASSUME NEW j \in 1 .. (HeaderEnd(req) - 1)
                 PROVE  j \in DOMAIN req /\ j \notin ends
      OBVIOUS
    <3>1. j \in 1 .. Len(req) /\ ~ (HeaderEnd(req) <= j)
      BY <1>2, <2>4
    <3> QED
      BY <1>2, <2>3, <3>1
  <2> QED
    BY <1>1, <1>2, <2>4, <2>5
<1> QED
  BY <1>3, <1>4

LEMMA KeptFacts ==
  ASSUME NEW req \in Requests, NEW x \in Nat
  PROVE  /\ Kept(req, x) \in 0 .. MAX_HEADERS /\ Kept(req, 0) = 0
         /\ x + 1 <= HeaderEnd(req) - 2 /\ x < MAX_HEADERS =>
              Kept(req, x + 1) = Kept(req, x) + 1 /\ Kept(req, x) = x
         /\ x + 1 <= HeaderEnd(req) - 2 /\ x >= MAX_HEADERS =>
              Kept(req, x + 1) = Kept(req, x) /\ Kept(req, x) = MAX_HEADERS
         /\ \A y \in Nat : x >= HeaderEnd(req) - 2 /\ y >= x => Kept(req, y) = Kept(req, x)
<1>1. HeaderEnd(req) - 2 \in Nat
  BY HeaderEndFacts
<1>2. PICK real \in Nat : real = HeaderEnd(req) - 2
  BY <1>1
<1>3. PICK most \in Nat \ {0} : most = MAX_HEADERS
  BY HttpParserAssumption
<1> DEFINE kept(z) == IF (IF z < real THEN z ELSE real) < most
                        THEN (IF z < real THEN z ELSE real) ELSE most
<1>4. ASSUME NEW z \in Nat PROVE Kept(req, z) = kept(z)
  BY <1>2, <1>3 DEF Kept
<1>5. Kept(req, x) \in 0 .. MAX_HEADERS
  <2>1. kept(x) \in 0 .. most
    OBVIOUS
  <2> QED
    BY <1>3, <1>4, <2>1
<1>6. Kept(req, 0) = 0
  <2>1. kept(0) = 0
    OBVIOUS
  <2> QED
    BY <1>4, <2>1
<1>7. ASSUME x + 1 <= HeaderEnd(req) - 2, x < MAX_HEADERS
      PROVE  Kept(req, x + 1) = Kept(req, x) + 1 /\ Kept(req, x) = x
  <2>1. x + 1 <= real /\ x < most /\ x + 1 \in Nat
    BY <1>2, <1>3, <1>7
  <2>2. kept(x) = x /\ kept(x + 1) = x + 1
    BY <2>1
  <2> QED
    BY <1>4, <2>1, <2>2
<1>8. ASSUME x + 1 <= HeaderEnd(req) - 2, x >= MAX_HEADERS
      PROVE  Kept(req, x + 1) = Kept(req, x) /\ Kept(req, x) = MAX_HEADERS
  <2>1. x + 1 <= real /\ x >= most /\ x + 1 \in Nat
    BY <1>2, <1>3, <1>8
  <2>2. kept(x) = most /\ kept(x + 1) = most
    BY <2>1
  <2> QED
    BY <1>3, <1>4, <2>1, <2>2
<1>9. ASSUME NEW y \in Nat, x >= HeaderEnd(req) - 2, y >= x
      PROVE  Kept(req, y) = Kept(req, x)
  <2>1. x >= real /\ y >= real
    BY <1>2, <1>9
  <2>2. kept(y) = kept(x)
    BY <2>1
  <2> QED
    BY <1>4, <2>2
<1> QED
  BY <1>5, <1>6, <1>7, <1>8, <1>9

LEMMA ParseInitInv == ParseInit => ParseInv
  BY DEF ParseInit, ParseInv

LEMMA ReadRequestInv == ParseInv /\ ReadRequest => ParseInv'
<1> SUFFICES ASSUME ParseInv, ReadRequest PROVE ParseInv'
  OBVIOUS
<1>1. PICK req \in Requests : sent_lines' = req /\ buffer_left' = Tail(req)
  BY DEF ReadRequest
<1>2. headers' = <<>> /\ parse' = "headers"
  BY DEF ReadRequest
<1>3. req \in Seq(Lines) /\ req # <<>> /\ Len(req) \in Nat /\ Len(req) >= 1
  BY HttpParserAssumption
<1>4. Tail(req) = SubSeq(req, 1 + 1, Len(req))
  BY <1>3
<1>5. HeadersUpTo(<<>>, req, 0)
  <2>1. Kept(req, 0) = 0 /\ MAX_HEADERS \in Nat /\ Len(<<>>) = 0
    BY KeptFacts, HttpParserAssumption
  <2> QED
    BY <2>1 DEF HeadersUpTo
<1>6. 1 \in 1 .. Len(req) /\ 1 - 1 = 0
  BY <1>3
<1> QED
  BY <1>1, <1>2, <1>4, <1>5, <1>6 DEF ParseInv

\* One more line: it is counted, if it is a header and there is room, behind
\* those before it.
LEMMA OneLineMore ==
  ASSUME NEW req \in Requests, NEW hdrs \in Seq(Lines \cup {EMPTY}),
         NEW k \in 1 .. Len(req), NEW l \in 1 .. Len(req), k < l,
         HeadersUpTo(hdrs, req, k - 1),
         k + 1 <= HeaderEnd(req) - 1 => l = k + 1,
         NEW new, new = IF Len(hdrs) < MAX_HEADERS
                        THEN Append(hdrs, parse_header(req[l])) ELSE hdrs
  PROVE  HeadersUpTo(new, req, l - 1) /\ new \in Seq(Lines \cup {EMPTY})
<1> DEFINE entry == parse_header(req[l])
<1>1. /\ HeaderEnd(req) \in 2 .. (Len(req) + 1) /\ Len(req) \in Nat
      /\ req \in Seq(Lines)
  BY HeaderEndFacts
<1>2. k \in Nat /\ l \in Nat /\ k - 1 \in Nat /\ l - 1 \in Nat /\ MAX_HEADERS \in Nat \ {0}
  BY <1>1, HttpParserAssumption
<1>3. entry \in Lines \cup {EMPTY}
  BY <1>1 DEF parse_header
<1> HIDE DEF entry
<1>4. /\ Len(hdrs) \in Nat
      /\ Append(hdrs, entry) \in Seq(Lines \cup {EMPTY})
      /\ Len(Append(hdrs, entry)) = Len(hdrs) + 1
      /\ \A j \in 1 .. Len(hdrs) : Append(hdrs, entry)[j] = hdrs[j]
      /\ Append(hdrs, entry)[Len(hdrs) + 1] = entry
  BY <1>3, AppendProperties
<1>5. /\ Len(new) \in {Len(hdrs), Len(hdrs) + 1} /\ Len(new) <= MAX_HEADERS
      /\ new \in Seq(Lines \cup {EMPTY})
      /\ \A j \in 1 .. Len(hdrs) : new[j] = hdrs[j]
      /\ Len(hdrs) < MAX_HEADERS => Len(new) = Len(hdrs) + 1 /\ new[Len(hdrs) + 1] = entry
      /\ Len(hdrs) >= MAX_HEADERS => new = hdrs
  BY <1>2, <1>4 DEF HeadersUpTo, entry
<1>6. /\ Len(hdrs) <= MAX_HEADERS /\ Len(hdrs) >= Kept(req, k - 1)
      /\ k - 1 <= HeaderEnd(req) - 2 => Len(hdrs) = Kept(req, k - 1)
      /\ \A j \in 1 .. Kept(req, k - 1) : hdrs[j] = parse_header(req[j + 1])
  BY DEF HeadersUpTo
<1>7. Kept(req, k - 1) \in 0 .. MAX_HEADERS /\ Kept(req, l - 1) \in 0 .. MAX_HEADERS
  BY <1>2, KeptFacts
<1>8. CASE k + 1 <= HeaderEnd(req) - 1
  <2>1. l = k + 1 /\ l - 1 = (k - 1) + 1
    BY <1>2, <1>8
  <2>2. (k - 1) + 1 <= HeaderEnd(req) - 2 /\ k - 1 <= HeaderEnd(req) - 2
    BY <1>1, <1>2, <1>8
  <2>3. CASE k - 1 < MAX_HEADERS
    <3>1. Kept(req, k - 1) = k - 1 /\ Kept(req, l - 1) = k /\ Len(hdrs) = k - 1
      <4>1. PICK z \in Nat : z = k - 1
        BY <1>2
      <4>2. l - 1 = z + 1 /\ k = z + 1
        BY <1>2, <2>1, <4>1
      <4>3. Kept(req, z + 1) = Kept(req, z) + 1 /\ Kept(req, z) = z
        BY <2>2, <2>3, <4>1, KeptFacts
      <4> QED
        BY <1>6, <2>2, <4>1, <4>2, <4>3
    <3>2. Len(new) = k /\ new[k] = parse_header(req[k + 1])
      BY <1>2, <1>5, <2>1, <2>3, <3>1 DEF entry
    <3>3. \A j \in 1 .. (k - 1) : new[j] = parse_header(req[j + 1])
      BY <1>5, <1>6, <3>1
    <3>4. \A j \in 1 .. k : new[j] = parse_header(req[j + 1])
      <4>1. \A j \in 1 .. k : j \in 1 .. (k - 1) \/ j = k
        BY <1>2
      <4> QED
        BY <3>2, <3>3, <4>1
    <3>5. k <= MAX_HEADERS
      BY <1>2, <2>3
    <3> QED
      BY <1>2, <1>5, <3>1, <3>2, <3>4, <3>5 DEF HeadersUpTo
  <2>4. CASE k - 1 >= MAX_HEADERS
    <3>1. Kept(req, l - 1) = Kept(req, k - 1) /\ Len(hdrs) = MAX_HEADERS
          /\ Kept(req, k - 1) = MAX_HEADERS
      BY <1>2, <1>6, <2>1, <2>2, <2>4, KeptFacts
    <3>2. new = hdrs
      BY <1>2, <1>5, <3>1
    <3> QED
      BY <1>2, <1>6, <3>1, <3>2 DEF HeadersUpTo
  <2> QED
    BY <1>2, <2>3, <2>4
<1>9. CASE ~ (k + 1 <= HeaderEnd(req) - 1)
  <2>1. k - 1 >= HeaderEnd(req) - 2 /\ l - 1 >= k - 1 /\ ~ (l - 1 <= HeaderEnd(req) - 2)
    BY <1>1, <1>2, <1>9
  <2>2. Kept(req, l - 1) = Kept(req, k - 1)
    BY <1>2, <2>1, KeptFacts
  <2>3. \A j \in 1 .. Kept(req, k - 1) : j \in 1 .. Len(hdrs)
    BY <1>4, <1>6, <1>7
  <2>4. Len(new) >= Kept(req, k - 1)
    BY <1>4, <1>5, <1>6, <1>7
  <2> QED
    BY <1>5, <1>6, <2>1, <2>2, <2>3, <2>4 DEF HeadersUpTo
<1> QED
  BY <1>5, <1>8, <1>9

\* strtok() finds the first line that is not empty.
LEMMA FirstLineFacts ==
  ASSUME NEW Some, buffer_left \in Seq(Some), NextLines # {}
  PROVE  /\ FirstLine \in 1 .. Len(buffer_left) /\ buffer_left[FirstLine] # EMPTY
         /\ \A j \in 1 .. Len(buffer_left) : buffer_left[j] # EMPTY => FirstLine <= j
         /\ Len(buffer_left) \in Nat
<1>1. Len(buffer_left) \in Nat /\ DOMAIN buffer_left = 1 .. Len(buffer_left)
  OBVIOUS
<1>2. NextLines \subseteq Nat
  BY <1>1 DEF NextLines
<1>3. \E k \in NextLines : \A j \in NextLines : k <= j
  BY <1>2, LeastNumber
<1>4. FirstLine \in NextLines /\ \A j \in NextLines : FirstLine <= j
  BY <1>3 DEF FirstLine
<1> QED
  BY <1>1, <1>4 DEF NextLines

LEMMA HeaderLineInv == ParseInv /\ HeaderLine => ParseInv'
<1> SUFFICES ASSUME ParseInv, HeaderLine PROVE ParseInv'
  OBVIOUS
<1>1. /\ parse = "headers" /\ NextLines # {} /\ sent_lines \in Requests
      /\ headers \in Seq(Lines \cup {EMPTY})
      /\ headers' = Keep(parse_header(buffer_left[FirstLine]))
      /\ buffer_left' = SubSeq(buffer_left, FirstLine + 1, Len(buffer_left))
      /\ UNCHANGED <<parse, sent_lines>>
  BY DEF HeaderLine, ParseInv, Behind
<1>2. PICK k \in 1 .. Len(sent_lines) :
        /\ buffer_left = SubSeq(sent_lines, k + 1, Len(sent_lines))
        /\ HeadersUpTo(headers, sent_lines, k - 1)
  BY <1>1 DEF ParseInv
<1>3. PICK req \in Requests, hdrs \in Seq(Lines \cup {EMPTY}) :
        req = sent_lines /\ hdrs = headers
  BY <1>1
<1>4. /\ HeaderEnd(req) \in 2 .. (Len(req) + 1) /\ Len(req) \in Nat /\ req \in Seq(Lines)
      /\ \A j \in 1 .. (HeaderEnd(req) - 1) : req[j] # EMPTY
  BY HeaderEndFacts
<1>5. k \in 1 .. Len(req) /\ k \in Nat
  BY <1>2, <1>3, <1>4
<1>6. /\ buffer_left \in Seq(Lines) /\ Len(buffer_left) = Len(req) - k
      /\ \A j \in 1 .. (Len(req) - k) : buffer_left[j] = req[k + j]
  <2>1. buffer_left = SubSeq(req, k + 1, Len(req))
    BY <1>2, <1>3
  <2>2. SubSeq(req, k + 1, Len(req)) \in Seq(Lines)
    BY <1>4, <1>5
  <2>3. Len(SubSeq(req, k + 1, Len(req))) = Len(req) - k
    BY <1>4, <1>5
  <2>4. \A j \in 1 .. (Len(req) - k) : SubSeq(req, k + 1, Len(req))[j] = req[k + j]
    BY <1>4, <1>5
  <2> QED
    BY <2>1, <2>2, <2>3, <2>4
<1>7. PICK first \in 1 .. (Len(req) - k) :
        /\ first = FirstLine /\ buffer_left[first] # EMPTY
        /\ \A j \in 1 .. (Len(req) - k) : buffer_left[j] # EMPTY => first <= j
  BY <1>1, <1>6, FirstLineFacts
<1> DEFINE l == k + first
<1>8. l \in 1 .. Len(req) /\ k < l /\ first \in Nat
  BY <1>4, <1>5, <1>7
<1>9. k + 1 <= HeaderEnd(req) - 1 => l = k + 1
  <2> SUFFICES ASSUME k + 1 <= HeaderEnd(req) - 1 PROVE first = 1
    BY <1>5
  <2>1. k + 1 \in 1 .. (HeaderEnd(req) - 1) /\ 1 \in 1 .. (Len(req) - k)
    BY <1>4, <1>5
  <2>2. first <= 1
    BY <1>4, <1>6, <1>7, <2>1
  <2> QED
    BY <1>7, <2>2
<1>10. headers' = IF Len(hdrs) < MAX_HEADERS
                  THEN Append(hdrs, parse_header(req[l])) ELSE hdrs
  BY <1>1, <1>3, <1>6, <1>7 DEF Keep
<1>11. buffer_left' = SubSeq(req, l + 1, Len(req))
  <2>1. buffer_left' = SubSeq(SubSeq(req, k + 1, Len(req)), first + 1, Len(req) - k)
    BY <1>1, <1>2, <1>3, <1>6, <1>7
  <2>2. SubSeq(SubSeq(req, k + 1, Len(req)), first + 1, Len(req) - k)
          = SubSeq(req, l + 1, Len(req))
    <3> DEFINE s1 == SubSeq(SubSeq(req, k + 1, Len(req)), first + 1, Len(req) - k)
               s2 == SubSeq(req, l + 1, Len(req))
    <3>1. s1 \in Seq(Lines) /\ s2 \in Seq(Lines)
      BY <1>4, <1>5, <1>7, <1>8
    <3>2. Len(s1) = Len(req) - l /\ Len(s2) = Len(req) - l
      BY <1>4, <1>5, <1>7, <1>8
    <3>3. \A j \in 1 .. (Len(req) - l) : s1[j] = req[l + j] /\ s2[j] = req[l + j]
      BY <1>4, <1>5, <1>7, <1>8
    <3> HIDE DEF s1, s2
    <3> QED
      BY <3>1, <3>2, <3>3, SeqEqual DEF s1, s2
  <2> QED
    BY <2>1, <2>2
<1>12. PICK new : new = headers'
  OBVIOUS
<1> HIDE DEF l
<1>13. HeadersUpTo(new, req, l - 1) /\ new \in Seq(Lines \cup {EMPTY})
  BY <1>2, <1>3, <1>5, <1>8, <1>9, <1>10, <1>12, OneLineMore
<1> QED
  BY <1>1, <1>3, <1>8, <1>11, <1>12, <1>13 DEF ParseInv

\* The loop ends when no line is left but empty ones: all headers are behind it.
LEMMA BodyInv == ParseInv /\ BodyOfRequest => ParseInv'
<1> SUFFICES ASSUME ParseInv, BodyOfRequest PROVE ParseInv'
  OBVIOUS
<1>1. /\ parse = "headers" /\ NextLines = {} /\ sent_lines \in Requests
      /\ parse' = "parsed" /\ UNCHANGED <<headers, sent_lines>>
  BY DEF BodyOfRequest, ParseInv
<1>2. PICK k \in 1 .. Len(sent_lines) :
        /\ buffer_left = SubSeq(sent_lines, k + 1, Len(sent_lines))
        /\ HeadersUpTo(headers, sent_lines, k - 1)
  BY <1>1 DEF ParseInv
<1>3. /\ HeaderEnd(sent_lines) \in 2 .. (Len(sent_lines) + 1) /\ Len(sent_lines) \in Nat
      /\ sent_lines \in Seq(Lines)
      /\ \A j \in 1 .. (HeaderEnd(sent_lines) - 1) : sent_lines[j] # EMPTY
  BY <1>1, HeaderEndFacts
<1>4. k - 1 \in Nat /\ k - 1 >= HeaderEnd(sent_lines) - 2
  <2> SUFFICES ASSUME k + 1 <= HeaderEnd(sent_lines) - 1 PROVE FALSE
    BY <1>3
  <2>1. k + 1 \in 1 .. Len(sent_lines) /\ sent_lines[k + 1] # EMPTY
    BY <1>3
  <2>2. /\ Len(buffer_left) = Len(sent_lines) - k /\ buffer_left[1] = sent_lines[k + 1]
        /\ 1 \in DOMAIN buffer_left
    BY <1>2, <1>3, <2>1
  <2> QED
    BY <1>1, <2>1, <2>2 DEF NextLines
<1> QED
  BY <1>1, <1>2, <1>4 DEF ParseInv

LEMMA ParseNextInv == ParseInv /\ [ParseNext]_parseVars => ParseInv'
<1> SUFFICES ASSUME ParseInv, [ParseNext]_parseVars PROVE ParseInv'
  OBVIOUS
<1>1. CASE UNCHANGED parseVars
  BY <1>1 DEF parseVars, ParseInv
<1>2. CASE Respond
  BY <1>2 DEF Respond, ParseInv
<1> QED
  BY <1>1, <1>2, ReadRequestInv, HeaderLineInv, BodyInv DEF ParseNext, ParseCompute

LEMMA ParseInvProves == ParseInv => HeadersComeFirst
<1> SUFFICES ASSUME ParseInv, parse = "parsed" PROVE HeadersComeFirst
  BY DEF HeadersComeFirst
<1>1. PICK x \in Nat : /\ x >= HeaderEnd(sent_lines) - 2
                       /\ HeadersUpTo(headers, sent_lines, x)
  BY DEF ParseInv
<1>2. PICK last \in Nat :
        /\ last = HeaderEnd(sent_lines) /\ last \in 2 .. (Len(sent_lines) + 1)
        /\ Len(sent_lines) \in Nat /\ sent_lines \in Seq(Lines)
  BY HeaderEndFacts DEF ParseInv
<1>3. RealHeaders = SubSeq(sent_lines, 2, last - 1)
  BY <1>2 DEF RealHeaders, HeaderEnd
<1>4. /\ Len(RealHeaders) = last - 2
      /\ \A j \in 1 .. (last - 2) : RealHeaders[j] = sent_lines[j + 1]
  BY <1>2, <1>3
<1>5. Kept(sent_lines, x) = IF Len(RealHeaders) < MAX_HEADERS THEN Len(RealHeaders)
                                                             ELSE MAX_HEADERS
  BY <1>1, <1>2, <1>4 DEF Kept
<1>6. Kept(sent_lines, x) \in 0 .. (last - 2)
  BY <1>2, <1>4, <1>5, HttpParserAssumption
<1>7. \A j \in 1 .. Kept(sent_lines, x) : headers[j] = parse_header(RealHeaders[j])
  BY <1>1, <1>4, <1>6 DEF HeadersUpTo
<1> QED
  BY <1>1, <1>5, <1>7 DEF HeadersComeFirst, HeadersUpTo

-----------------------------------------------------------------------------
(* The programs side by side.                                              *)

\* Every step of the programs is a step of each of them or leaves it as it is.
LEMMA EachAlone ==
  [ProgramsNext]_programVars =>
    /\ [RsaNext]_rsaVars /\ [AesNext]_aesVars /\ [SumNext]_summaryVars
    /\ [EmailNext]_emailVars /\ [GenNext]_genVars /\ [ParseNext]_parseVars
  BY Zenon DEF ProgramsNext, programVars, Start, RsaAlone, AesAlone, SummaryAlone, EmailAlone,
               SentencesAlone, HttpAlone

\* Whatever else is started, RSA.c runs as it does alone.
THEOREM RsaAmongPrograms == ProgramsSpec => RsaSpec
<1>1. ProgramsInit => RsaInit
  BY DEF ProgramsInit
<1> QED
  BY <1>1, EachAlone, PTL DEF ProgramsSpec, RsaSpec

\* The headers of a request are found, as many as there is room for, whatever
\* lines its body has.
THEOREM HeadersAreFound == ProgramsSpec => []HeadersComeFirst
<1>1. ProgramsInit => ParseInv
  BY ParseInitInv DEF ProgramsInit
<1> QED
  BY <1>1, EachAlone, ParseNextInv, ParseInvProves, PTL DEF ProgramsSpec

\* In whatever notation an address is written, it is what is printed of its
\* line, and what is printed of any line is an address that stands in what the
\* rules have made of it.
THEOREM AddressesAreFound == ProgramsSpec => []AddressIsExtracted
<1>1. ProgramsInit => EmailState
  BY EmailStarts DEF ProgramsInit
<1>2. EmailState => AddressIsExtracted
  BY DEF EmailState
<1> QED
  BY <1>1, <1>2, EachAlone, EmailKeeps, PTL DEF ProgramsSpec

\* Subject and verb agree, whatever verbs, and however many other words, the
\* sentences are made of.
THEOREM SentencesAgree == ProgramsSpec => [](Agreement /\ VerbFits)
<1>1. ProgramsInit => GenInv
  BY GenInitInv DEF ProgramsInit
<1> QED
  BY <1>1, EachAlone, GenNextInv, GenInvProves, PTL DEF ProgramsSpec

\* The tokens of a line are its fields, and the buffer has room for them.
THEOREM TokensAreTheFields == ProgramsSpec => [](TokensAreFields /\ BufferFits)
<1>1. ProgramsInit => SumInv
  BY SumInitInv DEF ProgramsInit
<1> QED
  BY <1>1, EachAlone, SumNextInv, SumInvProves, PTL DEF ProgramsSpec

\* The table counts each word of the file as often as it occurs, however long
\* the lines are and whether or not the table fills up.
THEOREM TablesAreExact == ProgramsSpec => []TableIsExact
<1>1. ProgramsInit => SumInv
  BY SumInitInv DEF ProgramsInit
<1> QED
  BY <1>1, EachAlone, SumNextInv, SumInvProves, PTL DEF ProgramsSpec

\* The rarest of the words are taken, and each is shown in a sentence that it
\* is in.
THEOREM SummariesAreOfRarest == ProgramsSpec => []SummaryIsOfRarest
<1>1. ProgramsInit => SumInv
  BY SumInitInv DEF ProgramsInit
<1> QED
  BY <1>1, EachAlone, SumNextInv, SumInvProves, PTL DEF ProgramsSpec

\* What AES decrypts is what it encrypted: every round undoes the round of the
\* same number, every block comes back in its place, and the padding tells the
\* length of a text that does not fill its last block.  That for every key and
\* every text.
THEOREM TextsComeBack == ProgramsSpec => []TextComesBack
<1>1. ProgramsInit => AesInv
  BY AesInitInv DEF ProgramsInit
<1> QED
  BY <1>1, EachAlone, AesNextInv, TextIsBack, PTL DEF ProgramsSpec

\* All arrays and integers hold what is put into them, whichever program runs
\* and whatever it is given.
THEOREM EverythingFits == ProgramsSpec => []WithinBounds
<1>1. ProgramsSpec => [](RsaTypeOK /\ NoOverflow)
  <2>1. RsaInv => RsaTypeOK
    BY DEF RsaInv
  <2> QED
    BY <2>1, RsaAmongPrograms, RsaInvariance, ProductsFit, PTL
<1>2. ProgramsSpec => []AesTypeOK
  <2>1. ProgramsInit => AesInv
    BY AesInitInv DEF ProgramsInit
  <2> QED
    BY <2>1, EachAlone, AesNextInv, AesTypes, PTL DEF ProgramsSpec
<1>3. ProgramsSpec => [](SummaryTypeOK /\ BufferFits)
  <2>1. ProgramsInit => SumInv
    BY SumInitInv DEF ProgramsInit
  <2> QED
    BY <2>1, EachAlone, SumNextInv, SumInvProves, PTL DEF ProgramsSpec
<1>4. ProgramsSpec => []VerbFits
  BY SentencesAgree, PTL
<1>5. RsaTypeOK /\ NoOverflow /\ AesTypeOK /\ SummaryTypeOK /\ BufferFits /\ VerbFits
        => WithinBounds
  BY DEF WithinBounds
<1> QED
  BY <1>1, <1>2, <1>3, <1>4, <1>5, PTL
=============================================================================
