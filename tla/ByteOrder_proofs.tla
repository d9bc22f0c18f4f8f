-------------------------- MODULE ByteOrder_proofs --------------------------
EXTENDS ByteOrder, TLAPS

\* Dividing r + k * q by k gives back q and r.
LEMMA DivModUnique ==
  ASSUME NEW k \in Nat \ {0}, NEW q \in Nat, NEW r \in 0 .. k - 1
  PROVE  /\ (r + k * q) % k = r
         /\ (r + k * q) \div k = q
<1> DEFINE n == r + k * q
           d == n \div k
           m == n % k
<1>1. n \in Nat
  OBVIOUS
<1>2. /\ n = (k * d) + m
      /\ m \in 0 .. k - 1
      /\ d \in Nat
  BY <1>1
<1> HIDE DEF d, m
<1>3. k * (q - d) = m - r
  BY <1>1, <1>2
<1>4. q = d
  <2>1. CASE q > d
    <3>1. k * (q - d) >= k
      BY <1>2, <2>1
    <3> QED BY <3>1, <1>2, <1>3
  <2>2. CASE q < d
    <3>1. k * (q - d) <= -k
      BY <1>2, <2>2
    <3> QED BY <3>1, <1>2, <1>3
  <2> QED BY <2>1, <2>2, <1>2
<1>5. r = m
  BY <1>2, <1>3, <1>4
<1> QED
  BY <1>4, <1>5 DEF d, m

\* A word has one representation in digits.
LEMMA DivMod ==
  ASSUME NEW q \in Nat, NEW r \in 0 .. Radix - 1
  PROVE  /\ (r + Radix * q) % Radix = r
         /\ (r + Radix * q) \div Radix = q
<1>1. Radix \in Nat \ {0}
  BY RadixAssumption
<1> QED
  BY <1>1, DivModUnique

\* What is below k is its own remainder, and a counter may be reduced modulo k
\* before it is incremented or after that.
LEMMA ModFacts ==
  ASSUME NEW k \in Nat \ {0}, NEW n \in Nat
  PROVE  /\ n % k \in 0 .. k - 1
         /\ n < k => n % k = n
         /\ (n + 1) % k = ((n % k) + 1) % k
<1> DEFINE d == n \div k
           m == n % k
<1>1. n = m + (k * d) /\ m \in 0 .. k - 1 /\ d \in Nat
  OBVIOUS
<1>2. n < k => n % k = n
  <2>1. SUFFICES ASSUME n < k PROVE n % k = n
    OBVIOUS
  <2>2. n \in 0 .. k - 1 /\ n = n + k * 0
    BY <2>1
  <2> QED BY <2>2, DivModUnique
<1> HIDE DEF d, m
<1>3. (n + 1) % k = (m + 1) % k
  <2>1. CASE m + 1 < k
    <3>1. m + 1 \in 0 .. k - 1 /\ n + 1 = (m + 1) + k * d /\ m + 1 = (m + 1) + k * 0
      BY <1>1, <2>1
    <3> QED BY <3>1, <1>1, DivModUnique
  <2>2. CASE m + 1 = k
    <3>1. n + 1 = 0 + k * (d + 1) /\ d + 1 \in Nat
      BY <1>1, <2>2
    <3>2. (n + 1) % k = 0
      BY <3>1, DivModUnique
    <3>3. m + 1 = 0 + k * 1
      BY <2>2
    <3>4. (m + 1) % k = 0
      BY <3>3, DivModUnique
    <3> QED BY <3>2, <3>4
  <2> QED BY <1>1, <2>1, <2>2
<1> QED
  BY <1>1, <1>2, <1>3 DEF m

\* The digits of a sequence number are bytes.
LEMMA DigitTypes ==
  ASSUME NEW n \in SeqNo
  PROVE  /\ Digit0(n) \in 0 .. Radix - 1
         /\ Digit1(n) \in 0 .. Radix - 1
         /\ Digit2(n) \in 0 .. Radix - 1
         /\ Digit3(n) \in 0 .. Radix - 1
         /\ n = Word(Digit0(n), Digit1(n), Digit2(n), Digit3(n))
<1> DEFINE q1 == n \div Radix
           q2 == q1 \div Radix
           q3 == q2 \div Radix
<1>1. Radix \in Nat /\ Radix > 1 /\ n \in Nat
  BY RadixAssumption DEF SeqNo
<1>2. n = Radix * q1 + Digit0(n) /\ q1 \in Nat /\ Digit0(n) \in 0 .. Radix - 1
  BY <1>1 DEF Digit0
<1> HIDE DEF q1
<1>3. q1 = Radix * q2 + (q1 % Radix) /\ q2 \in Nat /\ (q1 % Radix) \in 0 .. Radix - 1
  BY <1>1, <1>2
<1> HIDE DEF q2
<1>4. q2 = Radix * q3 + (q2 % Radix) /\ q3 \in Nat /\ (q2 % Radix) \in 0 .. Radix - 1
  BY <1>1, <1>3
<1> HIDE DEF q3
<1>5. n < Radix * (Radix * (Radix * Radix))
  BY <1>1 DEF SeqNo, SeqMod
<1>6. q3 < Radix
  <2>1. Radix * q1 < Radix * (Radix * (Radix * Radix))
    BY <1>1, <1>2, <1>5
  <2>2. q1 < Radix * (Radix * Radix)
    BY <2>1, <1>1, <1>2
  <2>3. Radix * q2 < Radix * (Radix * Radix)
    BY <2>2, <1>1, <1>2, <1>3
  <2>4. q2 < Radix * Radix
    BY <2>3, <1>1, <1>3
  <2>5. Radix * q3 < Radix * Radix
    BY <2>4, <1>1, <1>3, <1>4
  <2> QED BY <2>5, <1>1, <1>4
<1>7. Digit1(n) = q1 % Radix /\ Digit2(n) = q2 % Radix /\ Digit3(n) = q3
  BY DEF Digit1, Digit2, Digit3, q1, q2, q3
<1> QED
  BY <1>1, <1>2, <1>3, <1>4, <1>6, <1>7 DEF Word

\* Four bytes make a sequence number, and its digits are those bytes.
LEMMA WordDigits ==
  ASSUME NEW a \in 0 .. Radix - 1, NEW b \in 0 .. Radix - 1,
         NEW c \in 0 .. Radix - 1, NEW d \in 0 .. Radix - 1
  PROVE  /\ Word(a, b, c, d) \in SeqNo
         /\ Digit0(Word(a, b, c, d)) = a
         /\ Digit1(Word(a, b, c, d)) = b
         /\ Digit2(Word(a, b, c, d)) = c
         /\ Digit3(Word(a, b, c, d)) = d
<1> DEFINE w2 == c + Radix * d
           w1 == b + Radix * w2
           w0 == a + Radix * w1
<1>1. Radix \in Nat /\ Radix > 1
  BY RadixAssumption
<1>2. w2 \in Nat /\ w2 < Radix * Radix
  <2>1. Radix * d <= Radix * (Radix - 1)
    BY <1>1
  <2> QED BY <2>1, <1>1
<1>3. w2 % Radix = c /\ w2 \div Radix = d
  BY DivMod, <1>1
<1> HIDE DEF w2
<1>4. w1 \in Nat /\ w1 < Radix * (Radix * Radix)
  <2>1. Radix * w2 <= Radix * (Radix * Radix - 1)
    BY <1>1, <1>2
  <2> QED BY <2>1, <1>1, <1>2
<1>5. w1 % Radix = b /\ w1 \div Radix = w2
  BY DivMod, <1>1, <1>2
<1> HIDE DEF w1
<1>6. w0 \in Nat /\ w0 < Radix * (Radix * (Radix * Radix))
  <2>1. Radix * w1 <= Radix * (Radix * (Radix * Radix) - 1)
    BY <1>1, <1>4
  <2> QED BY <2>1, <1>1, <1>4
<1>7. w0 % Radix = a /\ w0 \div Radix = w1
  BY DivMod, <1>1, <1>4
<1>8. w0 = Word(a, b, c, d)
  BY DEF Word, w1, w2
<1>9. w0 \in SeqNo
  BY <1>1, <1>6 DEF SeqNo, SeqMod
<1> HIDE DEF w0
<1> QED
  BY <1>3, <1>5, <1>7, <1>8, <1>9 DEF Digit0, Digit1, Digit2, Digit3

\* What one side writes with htonl (server.h) the other side reads back with
\* ntohl (mmp_client.inl), for every word.
THEOREM ByteOrderRoundTrip ==
  ASSUME NEW n \in SeqNo
  PROVE  htonl(n) \in SeqNo /\ ntohl(htonl(n)) = n
<1>1. htonl(n) = Word(Digit3(n), Digit2(n), Digit1(n), Digit0(n))
  BY DEF htonl
<1>2. htonl(n) \in SeqNo
  BY <1>1, DigitTypes, WordDigits
<1>3. /\ Digit0(htonl(n)) = Digit3(n)
      /\ Digit1(htonl(n)) = Digit2(n)
      /\ Digit2(htonl(n)) = Digit1(n)
      /\ Digit3(htonl(n)) = Digit0(n)
  BY <1>1, DigitTypes, WordDigits
<1> QED
  BY <1>2, <1>3, DigitTypes DEF ntohl, htonl
=============================================================================
