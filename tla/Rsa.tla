--------------------------------- MODULE Rsa ---------------------------------
(***************************************************************************)
(* cryptography/RSA_Algo/RSA.c: draws two primes, computes a pair of keys, *)
(* and encrypts and decrypts one number.  A step is one iteration of a     *)
(* loop, or what lies between two loops.                                   *)
(***************************************************************************)
EXTENDS Integers

CONSTANTS
  LOWER, UPPER,    \* the range of the primes: 100 and 500 in the code
  Exponents,       \* the public exponent, 65537 in the code, one of these
  Messages         \* the numbers a user may type

Largest == UPPER * UPPER * UPPER * UPPER

ASSUME RsaAssumption ==
  /\ LOWER \in Nat /\ UPPER \in Nat
  /\ 2 <= LOWER
  /\ Exponents \subseteq 1 .. Largest
  /\ Messages \subseteq Int

VARIABLES
  rsa,             \* the loop main() is in, or how it ended
  p, q, e, d,      \* as in main(), 0 until they have a value
  num, trial,      \* the number under test and is_prime's i
  a, b,            \* of calculate_gcd
  coeff_phi, coeff_e, current_remainder, next_remainder,
  message, encrypted, decrypted,
  base, exp, power \* of calculate_mod_pow, its result

keyVars  == <<p, q, e, d>>
testVars == <<num, trial>>
gcdVars  == <<a, b>>
invVars  == <<coeff_phi, coeff_e, current_remainder, next_remainder>>
textVars == <<message, encrypted, decrypted>>
powVars  == <<base, exp, power>>
rsaVars  == <<rsa, keyVars, testVars, gcdVars, invVars, textVars, powVars>>

Failures == {"not_coprime", "no_inverse", "too_large"}

RsaTypeOK ==
  /\ rsa \in {"draw", "is_prime", "gcd", "inverse", "read", "encrypt", "decrypt",
              "done"} \cup Failures
  /\ {p, q, num} \subseteq Nat
  /\ e \in Exponents
  /\ {d, trial, a, b, exp, current_remainder, next_remainder} \subseteq Nat
  /\ {coeff_phi, coeff_e, message, encrypted, decrypted, base, power} \subseteq Int

RsaInit ==
  /\ rsa = "draw"
  /\ e \in Exponents
  /\ p = 0 /\ q = 0 /\ d = 0
  /\ num = 0 /\ trial = 0 /\ a = 0 /\ b = 0
  /\ coeff_phi = 0 /\ coeff_e = 0
  /\ current_remainder = 0 /\ next_remainder = 0
  /\ message = 0 /\ encrypted = 0 /\ decrypted = 0
  /\ base = 0 /\ exp = 0 /\ power = 0

n   == p * q
phi == (p - 1) * (q - 1)

\* The remainder of C, whose sign is that of the dividend.
Rem(x, m) == IF x >= 0 THEN x % m ELSE -((-x) % m)

-----------------------------------------------------------------------------
(* Drawing two primes.                                                     *)

IsSecond(x) == p # 0 /\ p # x

\* generate_random_prime returns x.
Take(x) ==
  \/ /\ p = 0
     /\ p' = x
     /\ rsa' = "draw"
     /\ UNCHANGED <<q, gcdVars>>
  \/ /\ IsSecond(x)
     /\ q' = x
     /\ rsa' = "gcd"
     /\ a' = e /\ b' = (p - 1) * (x - 1)
     /\ UNCHANGED p
  \/ /\ p = x
     /\ rsa' = "draw"
     /\ UNCHANGED <<p, q, gcdVars>>

generate_random_prime ==
  /\ rsa = "draw"
  /\ \E x \in LOWER .. UPPER :
       /\ num' = x
       /\ trial' = 5
       /\ \/ x \in {2, 3} /\ Take(x)
          \/ /\ x > 3
             /\ rsa' = IF x % 2 = 0 \/ x % 3 = 0 THEN "draw" ELSE "is_prime"
             /\ UNCHANGED <<p, q, gcdVars>>
  /\ UNCHANGED <<e, d, invVars, textVars, powVars>>

\* Mutant: the loop skips the second candidate of each pair.
HasFirst == num % trial = 0
HasDivisor == num % trial = 0 \/ num % (trial + 2) = 0

is_prime ==
  /\ rsa = "is_prime"
  /\ \/ /\ trial * trial <= num
        /\ HasDivisor
        /\ rsa' = "draw"
        /\ UNCHANGED <<p, q, trial, gcdVars>>
     \/ /\ trial * trial <= num
        /\ ~HasDivisor
        /\ trial' = trial + 6
        /\ UNCHANGED <<rsa, p, q, gcdVars>>
     \/ /\ trial * trial > num
        /\ Take(num)
        /\ UNCHANGED trial
  /\ UNCHANGED <<num, e, d, invVars, textVars, powVars>>

-----------------------------------------------------------------------------
(* The keys.                                                               *)

HasRest == b # 0

calculate_gcd ==
  /\ rsa = "gcd"
  /\ \/ /\ HasRest
        /\ a' = b /\ b' = a % b
        /\ UNCHANGED <<rsa, invVars>>
     \/ /\ ~HasRest /\ a # 1
        /\ rsa' = "not_coprime"
        /\ UNCHANGED <<gcdVars, invVars>>
     \/ /\ ~HasRest /\ a = 1
        /\ rsa' = "inverse"
        /\ coeff_phi' = 0 /\ coeff_e' = 1
        /\ current_remainder' = phi /\ next_remainder' = e
        /\ UNCHANGED gcdVars
  /\ UNCHANGED <<keyVars, testVars, textVars, powVars>>

quotient == current_remainder \div next_remainder

\* Mutant: the inverse is returned as it came out.
AsItCame(x)  == x
Positive(x)  == IF x < 0 THEN x + phi ELSE x
Minus(x, y)  == x - y

calculate_mod_inverse ==
  /\ rsa = "inverse"
  /\ \/ /\ next_remainder # 0
        /\ coeff_phi' = coeff_e
        /\ coeff_e' = Minus(coeff_phi, quotient * coeff_e)
        /\ current_remainder' = next_remainder
        /\ next_remainder' = current_remainder - quotient * next_remainder
        /\ UNCHANGED <<rsa, d>>
     \/ /\ next_remainder = 0 /\ current_remainder > 1
        /\ rsa' = "no_inverse"
        /\ UNCHANGED <<d, invVars>>
     \/ /\ next_remainder = 0 /\ current_remainder <= 1
        /\ rsa' = "read"
        /\ d' = Positive(coeff_phi)
        /\ UNCHANGED invVars
  /\ UNCHANGED <<p, q, e, testVars, gcdVars, textVars, powVars>>

-----------------------------------------------------------------------------
(* One message.                                                            *)

StartPower(x, y) == base' = Rem(x, n) /\ exp' = y /\ power' = 1

ReadMessage ==
  /\ rsa = "read"
  /\ message' \in Messages
  /\ \/ /\ message' >= n
        /\ rsa' = "too_large"
        /\ UNCHANGED powVars
     \/ /\ message' < n
        /\ rsa' = "encrypt"
        /\ StartPower(message', e)
  /\ UNCHANGED <<keyVars, testVars, gcdVars, invVars, encrypted, decrypted>>

Odd  == exp % 2 = 1

\* One iteration of calculate_mod_pow.
SquareAndMultiply ==
  /\ power' = IF Odd THEN Rem(power * base, n) ELSE power
  /\ base' = Rem(base * base, n)
  /\ exp' = exp \div 2

Encrypt ==
  /\ rsa = "encrypt"
  /\ \/ /\ exp > 0
        /\ SquareAndMultiply
        /\ UNCHANGED <<rsa, encrypted>>
     \/ /\ exp <= 0
        /\ encrypted' = power
        /\ rsa' = "decrypt"
        /\ StartPower(power, d)
  /\ UNCHANGED <<keyVars, testVars, gcdVars, invVars, message, decrypted>>

Decrypt ==
  /\ rsa = "decrypt"
  /\ \/ /\ exp > 0
        /\ SquareAndMultiply
        /\ UNCHANGED <<rsa, decrypted>>
     \/ /\ exp <= 0
        /\ decrypted' = power
        /\ rsa' = "done"
        /\ UNCHANGED powVars
  /\ UNCHANGED <<keyVars, testVars, gcdVars, invVars, message, encrypted>>

RsaCompute ==
  is_prime \/ calculate_gcd \/ calculate_mod_inverse \/ Encrypt \/ Decrypt
RsaNext == generate_random_prime \/ ReadMessage \/ RsaCompute

RsaSpec == RsaInit /\ [][RsaNext]_rsaVars

-----------------------------------------------------------------------------
(* Properties.                                                             *)

IsPrime(x) == x > 1 /\ \A k \in 2 .. (x - 1) : x % k # 0

\* Trial division by 2, 3 and the numbers next to multiples of 6 takes every
\* prime it is given and nothing else, and the two primes differ: a number
\* that was drawn and not taken is no prime, or the first prime again.
PrimesExactly ==
  /\ p # 0 => IsPrime(p)
  /\ q # 0 => IsPrime(q) /\ q # p
  /\ rsa = "draw" /\ num # 0 => num = p \/ ~IsPrime(num)

Coprime(x, y) == \A k \in 2 .. y : x % k # 0 \/ y % k # 0

\* main() gives the keys up only when they do not exist, and that is found out
\* by the first of its two tests: the second never fails after the first.
GivesUpRightly ==
  /\ rsa # "no_inverse"
  /\ rsa = "not_coprime" => ~Coprime(e, phi)
  /\ rsa = "read" => Coprime(e, phi)

\* The private key that is printed, and used, inverts the public one, whatever
\* the sign the algorithm leaves it with.
KeyInverts ==
  rsa \in {"read", "encrypt", "decrypt", "done", "too_large"} =>
    d \in 1 .. (phi - 1) /\ (d * e) % phi = 1

\* The keys main() goes on with are right, and it goes on with some whenever
\* there are any: the primes are taken exactly, the exponent is refused only
\* when it must be, and the two exponents are inverse to each other.
KeysAreRight == PrimesExactly /\ GivesUpRightly /\ KeyInverts

\* Decrypting gives back the number that was encrypted, 0, multiples of p or q
\* and negative numbers included, if it is smaller than n in absolute value.
RoundTrip == rsa = "done" /\ -n < message => decrypted = message

\* No product that a loop forms on its way to a key or a text is larger than
\* the fourth power of UPPER, which a long long holds.
Fits(x) == -Largest <= x /\ x <= Largest
NoOverflow ==
  /\ rsa = "inverse" /\ next_remainder # 0 =>
       /\ Fits(quotient * coeff_e) /\ Fits(coeff_phi - quotient * coeff_e)
       /\ Fits(quotient * next_remainder)
  /\ rsa \in {"encrypt", "decrypt"} => Fits(power * base) /\ Fits(base * base)
=============================================================================
