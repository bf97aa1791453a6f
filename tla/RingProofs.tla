------------------------------ MODULE RingProofs ------------------------------
(***************************************************************************)
(* The ring buffer of Memory for every range of the counters, every size   *)
(* that divides it and any bytes.                                          *)
(***************************************************************************)
EXTENDS Memory, Sequences, TLAPS

RingInv == Ring!CountersOK /\ Ring!HoldsTheBytes

\* The remainder of a number by what it is off a multiple.
LEMMA ModUnique ==
    ASSUME NEW s \in Nat \ {0}, NEW q \in Int, NEW r \in 0 .. s - 1
    PROVE  (q * s + r) % s = r
OBVIOUS

\* A number is its quotient times the divisor plus its remainder.
LEMMA ModDef ==
    ASSUME NEW s \in Nat \ {0}, NEW a \in Int
    PROVE  a % s \in 0 .. s - 1 /\ a \div s \in Int /\ a = (a \div s) * s + (a % s)
<1>1. a % s \in 0 .. s - 1 /\ a \div s \in Int
  OBVIOUS
<1>2. a % s = a - s * (a \div s)
  OBVIOUS
<1> DEFINE q == a \div s
           r == a % s
<1>3. q \in Int /\ r \in Int /\ r = a - s * q
  BY <1>1, <1>2
<1> HIDE DEF q, r
<1>4. a = q * s + r
  BY <1>3
<1>5. a = (a \div s) * s + (a % s)
  BY <1>4, Zenon DEF q, r
<1>6. QED
  BY <1>1, <1>5, Zenon

\* The slot k steps behind the slot of a counter.
LEMMA ModStep ==
    ASSUME NEW s \in Nat \ {0}, NEW a \in Int, NEW k \in 0 .. s
    PROVE  (a + k) % s = IF (a % s) + k < s THEN (a % s) + k ELSE (a % s) + k - s
<1> DEFINE q == a \div s
           r == a % s
<1>1. r \in 0 .. s - 1 /\ q \in Int /\ a = q * s + r
  BY ModDef, Zenon
<1> HIDE DEF q, r
<1>2. CASE r + k < s
  <2>1. a + k = q * s + (r + k) /\ r + k \in 0 .. s - 1
    BY <1>1, <1>2
  <2>2. (q * s + (r + k)) % s = r + k
    BY <1>1, <2>1, ModUnique, Zenon
  <2>3. QED
    BY <1>2, <2>1, <2>2, Zenon DEF r
<1>3. CASE ~(r + k < s)
  <2>1. a + k = (q + 1) * s + (r + k - s) /\ r + k - s \in 0 .. s - 1 /\ q + 1 \in Int
    BY <1>1, <1>3
  <2>2. ((q + 1) * s + (r + k - s)) % s = r + k - s
    BY <2>1, ModUnique, Zenon
  <2>3. QED
    BY <1>3, <2>1, <2>2, Zenon DEF r
<1>4. QED
  BY <1>2, <1>3, Zenon

\* A counter that wraps keeps its slot: the range of the counters is a multiple of the size.
LEMMA ModMod ==
    ASSUME NEW s \in Nat \ {0}, NEW m \in Nat \ {0}, m % s = 0, NEW a \in Int
    PROVE  (a % m) % s = a % s
<1> DEFINE b == a % m
           q == a \div m
           c == m \div s
           d == b \div s
           r == b % s
<1>1. q \in Int /\ a = q * m + b /\ b \in Int
  BY ModDef
<1>2. c \in Int /\ m = c * s
  BY ModDef
<1>3. d \in Int /\ r \in 0 .. s - 1 /\ b = d * s + r
  BY <1>1, ModDef, Zenon
<1> HIDE DEF b, q, c, d, r
<1>4. q * c + d \in Int /\ (q * c) * s = q * (c * s) /\ q * c \in Int
  BY <1>1, <1>2, <1>3
<1>5. (q * c + d) * s = (q * c) * s + d * s
  BY <1>1, <1>2, <1>3, <1>4
<1>6. a = (q * c + d) * s + r
  BY <1>1, <1>2, <1>3, <1>4, <1>5
<1>7. ((q * c + d) * s + r) % s = r
  BY <1>3, <1>4, ModUnique, Zenon
<1>8. QED
  BY <1>6, <1>7, Zenon DEF b, r

\* The slot k steps behind slot h of s slots.
Slot(s, h, k) == IF h + k < s THEN h + k ELSE h + k - s

\* The distance of two counters, across the end of their range.
LEMMA Distance ==
    ASSUME NEW m \in Nat \ {0}, NEW a \in 0 .. m - 1, NEW b \in 0 .. m - 1
    PROVE  (b - a) % m = IF a <= b THEN b - a ELSE b - a + m
<1>1. CASE a <= b
  <2>1. b - a \in 0 .. m - 1 /\ 0 * m + (b - a) = b - a
    BY <1>1
  <2>2. (0 * m + (b - a)) % m = b - a
    BY <2>1, ModUnique
  <2>3. QED
    BY <1>1, <2>1, <2>2, Zenon
<1>2. CASE ~(a <= b)
  <2>1. b - a + m \in 0 .. m - 1 /\ (-1) * m + (b - a + m) = b - a
    BY <1>2
  <2>2. ((-1) * m + (b - a + m)) % m = b - a + m
    BY <2>1, ModUnique
  <2>3. QED
    BY <1>2, <2>1, <2>2, Zenon
<1>3. QED
  BY <1>1, <1>2, Zenon

\* A counter advanced by less than its range.
LEMMA Advance ==
    ASSUME NEW m \in Nat \ {0}, NEW a \in 0 .. m - 1, NEW k \in 0 .. m - 1
    PROVE  /\ (a + k) % m = IF a + k < m THEN a + k ELSE a + k - m
           /\ (a + k) % m \in 0 .. m - 1
<1>1. CASE a + k < m
  <2>1. a + k \in 0 .. m - 1 /\ 0 * m + (a + k) = a + k
    BY <1>1
  <2>2. (0 * m + (a + k)) % m = a + k
    BY <2>1, ModUnique
  <2>3. QED
    BY <1>1, <2>1, <2>2, Zenon
<1>2. CASE ~(a + k < m)
  <2>1. a + k - m \in 0 .. m - 1 /\ 1 * m + (a + k - m) = a + k
    BY <1>2
  <2>2. (1 * m + (a + k - m)) % m = a + k - m
    BY <2>1, ModUnique
  <2>3. QED
    BY <1>2, <2>1, <2>2, Zenon
<1>3. QED
  BY <1>1, <1>2, Zenon

\* Where the bytes lie: those of the queue from slot h of the head on, the tail behind them.
LEMMA RingSlots ==
    ASSUME RingInv
    PROVE  /\ size \in Nat \ {0} /\ size < Modulus /\ Modulus \in Nat \ {0} /\ Modulus % size = 0
           /\ head \in 0 .. Modulus - 1 /\ tail \in 0 .. Modulus - 1
           /\ head % size \in 0 .. size - 1
           /\ bytes \in Seq(RingBytes) /\ Len(bytes) \in 0 .. size
           /\ Ring!buffer_len = Len(bytes)
           /\ tail = IF head + Len(bytes) < Modulus THEN head + Len(bytes)
                     ELSE head + Len(bytes) - Modulus
           /\ tail % size = Slot(size, head % size, Len(bytes))
           /\ \A i \in 1 .. Len(bytes) : buf[Slot(size, head % size, i - 1)] = bytes[i]
<1>1. size \in Nat \ {0} /\ size < Modulus /\ Modulus \in Nat \ {0} /\ Modulus % size = 0
  BY RingAssumption DEF RingInv, Ring!CountersOK, Ring!PowersOfTwo
<1>2. head \in 0 .. Modulus - 1 /\ tail \in 0 .. Modulus - 1
  BY Zenon DEF RingInv, Ring!CountersOK
<1>h. head \in 0 .. Modulus - 1
  BY <1>2, Zenon
<1>m. Modulus \in Nat \ {0}
  BY <1>1, Zenon
<1>s. size \in Nat \ {0}
  BY <1>1, Zenon
<1>d. Modulus % size = 0
  BY <1>1, Zenon
<1>3. bytes \in Seq(RingBytes) /\ Ring!buffer_len = Len(bytes) /\ Ring!buffer_len <= size
  BY Zenon DEF RingInv, Ring!CountersOK, Ring!HoldsTheBytes
<1>4. Len(bytes) \in 0 .. size
  BY <1>1, <1>3
<1>5. Len(bytes) = IF head <= tail THEN tail - head ELSE tail - head + Modulus
  BY <1>1, <1>2, <1>3, Distance DEF Ring!buffer_len
<1>6. tail = IF head + Len(bytes) < Modulus THEN head + Len(bytes) ELSE head + Len(bytes) - Modulus
  BY <1>1, <1>2, <1>4, <1>5
<1>7. tail = (head + Len(bytes)) % Modulus
  <2>1. Len(bytes) \in 0 .. Modulus - 1
    BY <1>1, <1>4
  <2>2. (head + Len(bytes)) % Modulus = IF head + Len(bytes) < Modulus THEN head + Len(bytes)
                                        ELSE head + Len(bytes) - Modulus
    BY <1>m, <1>h, <2>1, Advance, Zenon
  <2>3. QED
    BY <1>6, <2>2, Zenon
<1>8. tail % size = Slot(size, head % size, Len(bytes)) /\ head % size \in 0 .. size - 1
  <2>1. head \in Int
    BY <1>2
  <2>2. head + Len(bytes) \in Int
    BY <1>4, <2>1
  <2>3. ((head + Len(bytes)) % Modulus) % size = (head + Len(bytes)) % size
    BY <1>s, <1>m, <1>d, <2>2, ModMod, Zenon
  <2>4. (head + Len(bytes)) % size = Slot(size, head % size, Len(bytes))
    BY <1>s, <1>4, <2>1, ModStep, Zenon DEF Slot
  <2>5. head % size \in 0 .. size - 1
    BY <1>s, <2>1, ModDef, Zenon
  <2>6. QED
    BY <1>7, <2>3, <2>4, <2>5, Zenon
<1>9. ASSUME NEW i \in 1 .. Len(bytes) PROVE buf[Slot(size, head % size, i - 1)] = bytes[i]
  <2>0. head \in Int
    BY <1>2
  <2>1. head + i - 1 = head + (i - 1)
    BY <1>2, <1>4, Zenon
  <2>a. i - 1 \in 0 .. size
    BY <1>1, <1>4
  <2>2. (head + (i - 1)) % size = Slot(size, head % size, i - 1)
    BY <1>s, <2>0, <2>a, ModStep, Zenon DEF Slot
  <2>3. buf[(head + i - 1) % size] = bytes[i]
    BY Zenon DEF RingInv, Ring!HoldsTheBytes, Ring!At
  <2>4. QED
    BY <2>1, <2>2, <2>3, Zenon
<1>10. QED
  BY <1>1, <1>2, <1>3, <1>4, <1>6, <1>8, <1>9, Zenon

\* The bytes b lie in the slots of f from h on, among s.
Held(s, h, f, b) == \A i \in 1 .. Len(b) : f[Slot(s, h, i - 1)] = b[i]
HeldFrom(s, c, f, b) == \A i \in 1 .. Len(b) : f[(c + i - 1) % s] = b[i]

\* Bytes held from the slot of a counter are held from the counter.
LEMMA HeldAt ==
    ASSUME NEW s \in Nat \ {0}, NEW a \in Int, NEW f, NEW b, Len(b) \in 0 .. s, Held(s, a % s, f, b)
    PROVE  HeldFrom(s, a, f, b)
<1> SUFFICES ASSUME NEW i \in 1 .. Len(b) PROVE f[(a + i - 1) % s] = b[i]
  BY Zenon DEF HeldFrom
<1>1. a + i - 1 = a + (i - 1)
  BY Zenon
<1>2. i - 1 \in 0 .. s
  OBVIOUS
<1>3. (a + (i - 1)) % s = Slot(s, a % s, i - 1)
  BY <1>2, ModStep, Zenon DEF Slot
<1>4. f[Slot(s, a % s, i - 1)] = b[i]
  BY Zenon DEF Held
<1>5. QED
  BY <1>1, <1>3, <1>4, Zenon

\* The oldest bytes leave the queue: the head moves on, and what is left stays in place.
LEMMA RingDrop ==
    ASSUME RingInv, NEW k \in 0 .. Len(bytes),
           head' = (head + k) % Modulus, bytes' = SubSeq(bytes, k + 1, Len(bytes)),
           UNCHANGED <<size, tail, buf>>
    PROVE  RingInv'
<1> DEFINE h == head % size
           n == Len(bytes)
<1>1. /\ size \in Nat \ {0} /\ size < Modulus /\ Modulus \in Nat \ {0}
      /\ head \in 0 .. Modulus - 1 /\ tail \in 0 .. Modulus - 1
      /\ h \in 0 .. size - 1
      /\ bytes \in Seq(RingBytes) /\ n \in 0 .. size
      /\ tail = IF head + n < Modulus THEN head + n ELSE head + n - Modulus
      /\ \A i \in 1 .. n : buf[Slot(size, h, i - 1)] = bytes[i]
  BY RingSlots, Zenon
<1>2. size \in Nat \ {0}
  BY <1>1, Zenon
<1>3. Modulus \in Nat \ {0}
  BY <1>1, Zenon
<1>4. Modulus % size = 0
  BY RingSlots, Zenon
<1>5. head \in 0 .. Modulus - 1
  BY <1>1, Zenon
<1>6. head \in Int
  BY <1>1
<1>7. k \in 0 .. Modulus - 1
  BY <1>1
<1>8. k \in 0 .. size
  BY <1>1
<1>9. head + k \in Int
  BY <1>6, <1>7
<1>10. head' = (IF head + k < Modulus THEN head + k ELSE head + k - Modulus) /\ head' \in 0 .. Modulus - 1
  BY <1>3, <1>5, <1>7, Advance, Zenon
<1>11. head' % size = Slot(size, h, k)
  <2>1. ((head + k) % Modulus) % size = (head + k) % size
    BY <1>2, <1>3, <1>4, <1>9, ModMod, Zenon
  <2>2. (head + k) % size = Slot(size, head % size, k)
    BY <1>2, <1>6, <1>8, ModStep, Zenon DEF Slot
  <2>3. QED
    BY <2>1, <2>2, Zenon
<1>12. /\ bytes' \in Seq(RingBytes) /\ Len(bytes') = n - k
       /\ \A i \in 1 .. n - k : bytes'[i] = bytes[k + i]
  BY <1>1
<1>13. k \in 0 .. n
  BY Zenon
<1> HIDE DEF h, n
<1>14. Ring!buffer_len' = n - k
  <2>1. tail \in 0 .. Modulus - 1
    BY <1>1, Zenon
  <2>2. head' \in 0 .. Modulus - 1
    BY <1>10, Zenon
  <2>3. (tail - head') % Modulus = IF head' <= tail THEN tail - head' ELSE tail - head' + Modulus
    BY <1>3, <2>1, <2>2, Distance, Zenon
  <2>4. Ring!buffer_len' = IF head' <= tail THEN tail - head' ELSE tail - head' + Modulus
    BY <2>3, Zenon DEF Ring!buffer_len
  <2>5. /\ n < Modulus /\ n \in Nat /\ tail \in Nat /\ head \in Nat
        /\ tail = IF head + n < Modulus THEN head + n ELSE head + n - Modulus
    BY <1>1
  <2>6. QED
    BY <1>3, <1>10, <1>13, <2>1, <2>2, <2>4, <2>5
<1>15. Held(size, Slot(size, h, k), buf, bytes')
  <2> SUFFICES ASSUME NEW i \in 1 .. n - k
               PROVE  buf[Slot(size, Slot(size, h, k), i - 1)] = bytes'[i]
    BY <1>12, Zenon DEF Held
  <2>1. k + i \in 1 .. n /\ bytes'[i] = bytes[k + i]
    BY <1>1, <1>12, <1>13
  <2>2. Slot(size, Slot(size, h, k), i - 1) = Slot(size, h, (k + i) - 1)
    <3>1. size \in Nat /\ h \in 0 .. size - 1 /\ n \in 0 .. size
      BY <1>1, Zenon
    <3>2. QED
      BY <1>13, <3>1 DEF Slot
  <2>3. QED
    BY <1>1, <2>1, <2>2, Zenon
<1>16. HeldFrom(size, head', buf, bytes')
  <2>1. Len(bytes') \in 0 .. size
    <3>1. size \in Nat /\ n \in 0 .. size /\ Len(bytes') = n - k
      BY <1>1, <1>12, Zenon
    <3>2. QED
      BY <1>13, <3>1
  <2>2. head' \in Int
    BY <1>10
  <2>3. Held(size, head' % size, buf, bytes')
    BY <1>11, <1>15, Zenon
  <2>4. QED
    BY <1>2, <2>1, <2>2, <2>3, HeldAt, Zenon
<1>17. Ring!CountersOK'
  BY <1>1, <1>10, <1>13, <1>14 DEF RingInv, Ring!CountersOK
<1>18. Ring!HoldsTheBytes'
  BY <1>12, <1>14, <1>16, Zenon DEF Ring!HoldsTheBytes, Ring!At, HeldFrom
<1>19. QED
  BY <1>17, <1>18, Zenon DEF RingInv

\* New bytes join the queue: buffer_add writes them into free slots, in two pieces where
\* they meet the end of the array.
LEMMA RingAdd ==
    ASSUME RingInv, NEW data \in Seq(RingBytes), Ring!buffer_add(data)
    PROVE  RingInv'
<1> DEFINE h == head % size
           n == Len(bytes)
           m == Len(data)
           t == tail % size
           d == IF m <= size - t THEN m ELSE size - t
<1>1. /\ size \in Nat \ {0} /\ size < Modulus /\ Modulus \in Nat \ {0}
      /\ head \in 0 .. Modulus - 1 /\ tail \in 0 .. Modulus - 1
      /\ h \in 0 .. size - 1
      /\ bytes \in Seq(RingBytes) /\ n \in 0 .. size
      /\ tail = IF head + n < Modulus THEN head + n ELSE head + n - Modulus
      /\ t = Slot(size, h, n)
      /\ \A i \in 1 .. n : buf[Slot(size, h, i - 1)] = bytes[i]
  BY RingSlots, Zenon
<1>2. m \in Nat /\ m <= size - n
  BY RingSlots DEF Ring!buffer_add, Ring!Fits, Ring!buf_remain
<1>3. /\ DOMAIN buf' = DOMAIN buf
      /\ \A x \in DOMAIN buf :
            buf'[x] = IF t <= x /\ x < t + d THEN data[x - t + 1]
                      ELSE IF x < m - d THEN data[d + x + 1] ELSE buf[x]
  BY Zenon DEF Ring!buffer_add, Ring!Filled, Ring!ToEnd, Ring!Lesser, Ring!At
<1>4. DOMAIN buf = 0 .. size - 1
  BY Zenon DEF RingInv, Ring!CountersOK
<1>5. /\ bytes' \in Seq(RingBytes) /\ Len(bytes') = n + m
      /\ \A i \in 1 .. n + m : bytes'[i] = IF i <= n THEN bytes[i] ELSE data[i - n]
  BY <1>1 DEF Ring!buffer_add
<1>6. tail' = (tail + m) % Modulus /\ UNCHANGED <<size, head>>
  BY Zenon DEF Ring!buffer_add
<1>7. d = IF m <= size - t THEN m ELSE size - t
  BY Zenon
<1> HIDE DEF h, n, m, t, d
<1>8. Modulus \in Nat \ {0}
  BY <1>1, Zenon
<1>9. tail' = (IF tail + m < Modulus THEN tail + m ELSE tail + m - Modulus) /\ tail' \in 0 .. Modulus - 1
  <2>1. tail \in 0 .. Modulus - 1
    BY <1>1, Zenon
  <2>2. m \in 0 .. Modulus - 1
    BY <1>1, <1>2
  <2>3. QED
    BY <1>6, <1>8, <2>1, <2>2, Advance, Zenon
<1>10. Ring!buffer_len' = n + m
  <2>1. tail' \in 0 .. Modulus - 1
    BY <1>9, Zenon
  <2>2. head \in 0 .. Modulus - 1
    BY <1>1, Zenon
  <2>3. (tail' - head) % Modulus = IF head <= tail' THEN tail' - head ELSE tail' - head + Modulus
    BY <1>8, <2>1, <2>2, Distance, Zenon
  <2>4. Ring!buffer_len' = IF head <= tail' THEN tail' - head ELSE tail' - head + Modulus
    BY <1>6, <2>3, Zenon DEF Ring!buffer_len
  <2>5. /\ n + m < Modulus /\ n \in Nat /\ tail \in Nat /\ head \in Nat
        /\ tail = IF head + n < Modulus THEN head + n ELSE head + n - Modulus
    BY <1>1, <1>2
  <2>6. QED
    BY <1>2, <1>8, <1>9, <2>1, <2>2, <2>4, <2>5
<1>11. Held(size, h, buf', bytes')
  <2> SUFFICES ASSUME NEW i \in 1 .. n + m
               PROVE  buf'[Slot(size, h, i - 1)] = bytes'[i]
    BY <1>5, Zenon DEF Held
  <2>1. /\ size \in Nat \ {0} /\ h \in 0 .. size - 1 /\ n \in 0 .. size
        /\ t = IF h + n < size THEN h + n ELSE h + n - size
    BY <1>1, Zenon DEF Slot
  <2> DEFINE x == Slot(size, h, i - 1)
  <2>2. x = IF h + (i - 1) < size THEN h + (i - 1) ELSE h + (i - 1) - size
    BY Zenon DEF Slot
  <2>3. x \in 0 .. size - 1
    BY <1>2, <2>1, <2>2
  <2>4. buf'[x] = IF t <= x /\ x < t + d THEN data[x - t + 1]
                  ELSE IF x < m - d THEN data[d + x + 1] ELSE buf[x]
    BY <1>3, <1>4, <2>3, Zenon
  <2>5. bytes'[i] = IF i <= n THEN bytes[i] ELSE data[i - n]
    BY <1>5, Zenon
  <2>6. i <= n => buf[x] = bytes[i]
    <3>1. i <= n => i \in 1 .. n
      BY <1>1, <1>2
    <3>2. QED
      BY <1>1, <3>1, Zenon
  <2> HIDE DEF x
  <2>7. CASE i <= n
    <3>1. ~(t <= x /\ x < t + d) /\ ~(x < m - d)
      BY <1>2, <1>7, <2>1, <2>2, <2>7
    <3>2. QED
      BY <2>4, <2>5, <2>6, <2>7, <3>1, Zenon DEF x
  <2>8. CASE ~(i <= n)
    <3>1. \/ t <= x /\ x < t + d /\ x - t + 1 = i - n
          \/ ~(t <= x /\ x < t + d) /\ x < m - d /\ d + x + 1 = i - n
      BY <1>2, <1>7, <2>1, <2>2, <2>8
    <3>2. QED
      BY <2>4, <2>5, <2>8, <3>1 DEF x
  <2>9. QED
    BY <2>7, <2>8, Zenon
<1>12. HeldFrom(size, head, buf', bytes')
  <2>1. size \in Nat \ {0}
    BY <1>1, Zenon
  <2>2. Len(bytes') \in 0 .. size
    BY <1>1, <1>2, <1>5
  <2>3. head \in Int
    BY <1>1
  <2>4. Held(size, head % size, buf', bytes')
    BY <1>11, Zenon DEF h
  <2>5. QED
    BY <2>1, <2>2, <2>3, <2>4, HeldAt, Zenon
<1>13. Ring!CountersOK'
  BY <1>1, <1>2, <1>3, <1>6, <1>9, <1>10 DEF RingInv, Ring!CountersOK
<1>14. Ring!HoldsTheBytes'
  BY <1>5, <1>6, <1>10, <1>12, Zenon DEF Ring!HoldsTheBytes, Ring!At, HeldFrom
<1>15. QED
  BY <1>13, <1>14, Zenon DEF RingInv

\* buffer_remove gives the oldest bytes when they need no split, and when the buffer is
\* full, so that the split by the tail is the one by the head.
LEMMA RingOldest ==
    ASSUME RingInv, NEW sz \in Nat, Ring!buffer_remove(sz)
    PROVE  Ring!RemoveGivesOldest'
<1> DEFINE h == head % size
           n == IF sz <= Len(bytes) THEN sz ELSE Len(bytes)
           t == tail % size
           d == IF n <= size - t THEN n ELSE size - t
<1>1. /\ size \in Nat \ {0} /\ h \in 0 .. size - 1 /\ bytes \in Seq(RingBytes)
      /\ Len(bytes) \in 0 .. size
      /\ \A i \in 1 .. Len(bytes) : buf[Slot(size, h, i - 1)] = bytes[i]
  BY RingSlots, Zenon
<1>2. DOMAIN buf = 0 .. size - 1 /\ Ring!buffer_len = Len(bytes)
  BY Zenon DEF RingInv, Ring!CountersOK, Ring!HoldsTheBytes
<1>3. ret' = [call |-> "buffer_remove", data |-> Ring!Copied(head, d, n),
              oldest |-> SubSeq(bytes, 1, n), split |-> h = t,
              whole |-> h + n <= size /\ n <= size - t]
  BY <1>2, Zenon DEF Ring!buffer_remove, Ring!Lesser, Ring!At
<1>4. n \in 0 .. Len(bytes)
  BY <1>1
<1>5. ASSUME h + n <= size, n <= size - t PROVE Ring!Copied(head, d, n) = SubSeq(bytes, 1, n)
  <2>1. d = n
    BY <1>5, Zenon
  <2>2. Ring!Copied(head, d, n) = [i \in 1 .. n |-> IF i <= d THEN Ring!Byte(h + i - 1) ELSE Ring!Byte(i - 1 - d)]
    BY Zenon DEF Ring!Copied, Ring!At
  <2> HIDE DEF d, n, h
  <2>3. ASSUME NEW i \in 1 .. n PROVE Ring!Byte(h + i - 1) = bytes[i]
    <3>1. i \in 1 .. Len(bytes) /\ Slot(size, h, i - 1) = h + i - 1 /\ h + i - 1 \in 0 .. size - 1
      BY <1>1, <1>4, <1>5 DEF Slot
    <3>2. QED
      BY <1>1, <1>2, <3>1, Zenon DEF Ring!Byte
  <2>4. Ring!Copied(head, d, n) = [i \in 1 .. n |-> bytes[i]]
    BY <1>4, <2>1, <2>2, <2>3
  <2>5. SubSeq(bytes, 1, n) = [i \in 1 .. n |-> bytes[i]]
    BY <1>1, <1>4
  <2>6. QED
    BY <2>4, <2>5, Zenon
<1>6. ASSUME h = t PROVE Ring!Copied(head, d, n) = SubSeq(bytes, 1, n)
  <2>1. d = IF n <= size - h THEN n ELSE size - h
    BY <1>6, Zenon
  <2>2. Ring!Copied(head, d, n) = [i \in 1 .. n |-> IF i <= d THEN Ring!Byte(h + i - 1) ELSE Ring!Byte(i - 1 - d)]
    BY Zenon DEF Ring!Copied, Ring!At
  <2> HIDE DEF d, n, h, t
  <2>3. ASSUME NEW i \in 1 .. n
        PROVE  (IF i <= d THEN Ring!Byte(h + i - 1) ELSE Ring!Byte(i - 1 - d)) = bytes[i]
    <3>1. /\ i \in 1 .. Len(bytes)
          /\ Slot(size, h, i - 1) = IF i <= d THEN h + i - 1 ELSE i - 1 - d
          /\ Slot(size, h, i - 1) \in 0 .. size - 1
      BY <1>1, <1>4, <2>1 DEF Slot
    <3>2. Ring!Byte(Slot(size, h, i - 1)) = bytes[i]
      BY <1>1, <1>2, <3>1, Zenon DEF Ring!Byte
    <3>3. QED
      BY <3>1, <3>2, Zenon
  <2>4. Ring!Copied(head, d, n) = [i \in 1 .. n |-> bytes[i]]
    BY <2>2, <2>3, Zenon
  <2>5. SubSeq(bytes, 1, n) = [i \in 1 .. n |-> bytes[i]]
    BY <1>1, <1>4
  <2>6. QED
    BY <2>4, <2>5, Zenon
<1> HIDE DEF d, n, h, t
<1>7. QED
  BY <1>3, <1>5, <1>6, Zenon DEF Ring!RemoveGivesOldest

\* A piece of a sequence is what it is element by element.
PieceAt(b, a, i) == SubSeq(b, i + 1, i + Len(a)) = a
AgreeAt(b, a, i) == \A k \in 0 .. Len(a) - 1 : b[i + k + 1] = a[1 + k]

\* A piece of a sequence equals a sequence if they agree byte by byte, as memcmp compares.
LEMMA PieceEqual ==
    ASSUME NEW S, NEW b \in Seq(S), NEW a \in Seq(S), NEW i \in Nat, i + Len(a) <= Len(b)
    PROVE  PieceAt(b, a, i) <=> AgreeAt(b, a, i)
<1> DEFINE c == SubSeq(b, i + 1, i + Len(a))
<1>1. Len(a) \in Nat /\ Len(b) \in Nat
  OBVIOUS
<1>2. c = [x \in 1 .. Len(a) |-> b[i + x]]
  BY <1>1
<1>3. a = [x \in 1 .. Len(a) |-> a[x]]
  OBVIOUS
<1> HIDE DEF c
<1>4. c = a <=> \A x \in 1 .. Len(a) : b[i + x] = a[x]
  BY <1>2, <1>3, Zenon
<1>5. (\A x \in 1 .. Len(a) : b[i + x] = a[x]) <=> (\A k \in 0 .. Len(a) - 1 : b[i + k + 1] = a[1 + k])
  <2>1. ASSUME \A x \in 1 .. Len(a) : b[i + x] = a[x], NEW k \in 0 .. Len(a) - 1
        PROVE  b[i + k + 1] = a[1 + k]
    <3>1. 1 + k \in 1 .. Len(a) /\ i + (1 + k) = i + k + 1
      BY <1>1
    <3>2. QED
      BY <2>1, <3>1, Zenon
  <2>2. ASSUME \A k \in 0 .. Len(a) - 1 : b[i + k + 1] = a[1 + k], NEW x \in 1 .. Len(a)
        PROVE  b[i + x] = a[x]
    <3>1. x - 1 \in 0 .. Len(a) - 1 /\ i + (x - 1) + 1 = i + x /\ 1 + (x - 1) = x
      BY <1>1
    <3>2. b[i + (x - 1) + 1] = a[1 + (x - 1)]
      BY <2>2, <3>1, Zenon
    <3>3. QED
      BY <3>1, <3>2, Zenon
  <2>3. QED
    BY <2>1, <2>2, Zenon
<1>6. QED
  BY <1>4, <1>5, Zenon DEF c, PieceAt, AgreeAt

\* buffer_search, where the data lies in one piece: no iteration wraps, and those that go
\* on are the ones at which the string does not begin.
LEMMA RingSearch ==
    ASSUME RingInv, NEW data \in Seq(RingBytes), Len(data) >= 1, Ring!buffer_search(data)
    PROVE  Ring!SearchFinds'
<1> DEFINE h == head % size
           n == Len(bytes)
           m == Len(data)
<1>1. /\ size \in Nat \ {0} /\ size < Modulus /\ Modulus \in Nat \ {0} /\ h \in 0 .. size - 1
      /\ n \in 0 .. size /\ Ring!buffer_len = n
      /\ \A i \in 1 .. n : buf[Slot(size, h, i - 1)] = bytes[i]
  BY RingSlots, Zenon
<1>2. bytes \in Seq(RingBytes) /\ head \in Int /\ m \in Nat
  BY RingSlots
<1>3. DOMAIN buf = 0 .. size - 1
  BY Zenon DEF RingInv, Ring!CountersOK
<1>4. PICK r \in Ring!Results(data) : ret' = [call |-> "buffer_search", data |-> data, found |-> r]
  BY Zenon DEF Ring!buffer_search
<1>5. UNCHANGED <<size, head, tail, buf, bytes>>
  BY Zenon DEF Ring!buffer_search
<1>6. SUFFICES ASSUME m <= n, h + n <= size
               PROVE  IF Ring!Ends(data) = {} THEN r = 0
                      ELSE r \in Ring!Ends(data) /\ \A i \in Ring!Ends(data) : r <= i
  <2>1. ret'.data = data /\ ret'.found = r
    BY <1>4, Zenon
  <2>2. Ring!buffer_len' = n /\ Ring!At(head)' = h
    BY <1>1, <1>5, Zenon DEF Ring!buffer_len, Ring!At
  <2>3. Ring!Ends(data)' = Ring!Ends(data)
    BY <1>5, Zenon DEF Ring!Ends
  <2>4. QED
    BY <1>5, <2>1, <2>2, <2>3, Zenon DEF Ring!SearchFinds
<1>7. Ring!Last(data) = n - m
  <2>1. m \in 0 .. Modulus - 1
    BY <1>1, <1>2, <1>6
  <2>2. n \in 0 .. Modulus - 1
    BY <1>1
  <2>3. Modulus \in Nat \ {0}
    BY <1>1, Zenon
  <2>4. (n - m) % Modulus = IF m <= n THEN n - m ELSE n - m + Modulus
    BY <2>1, <2>2, <2>3, Distance, Zenon
  <2>5. QED
    BY <1>1, <1>6, <2>4, Zenon DEF Ring!Last
<1> HIDE DEF h, n, m
<1>8. ASSUME NEW i \in 0 .. n - m
      PROVE  /\ ~Ring!Wraps(i, data)
             /\ Ring!Matches(Ring!At(head + i), data, 1, Len(data)) <=> i + m \in Ring!Ends(data)
  <2>1. i \in Nat /\ i + m <= n /\ i \in 0 .. size /\ h + i < size /\ h + i + m <= size /\ m >= 1
    BY <1>1, <1>2, <1>6 DEF m
  <2>2. Ring!At(head + i) = h + i
    <3>1. size \in Nat \ {0}
      BY <1>1, Zenon
    <3>2. (head + i) % size = IF (head % size) + i < size THEN (head % size) + i
                              ELSE (head % size) + i - size
      BY <1>2, <2>1, <3>1, ModStep, Zenon
    <3>3. QED
      BY <2>1, <3>2, Zenon DEF Ring!At, h
  <2>3. ~Ring!Wraps(i, data)
    BY <1>1, <1>2, <2>1, <2>2 DEF Ring!Wraps, m
  <2>4. ASSUME NEW k \in 0 .. m - 1 PROVE Ring!Byte(h + i + k) = bytes[i + k + 1]
    <3>0. /\ size \in Nat /\ h \in 0 .. size - 1 /\ n \in 0 .. size /\ m \in Nat
          /\ i \in Nat /\ k \in 0 .. m - 1
      BY <1>1, <1>2, <2>1, Zenon
    <3>1. i + k + 1 \in 1 .. n /\ h + i + k \in 0 .. size - 1
      BY <2>1, <3>0
    <3>2. Slot(size, h, (i + k + 1) - 1) = h + i + k
      BY <3>0, <3>1 DEF Slot
    <3>3. QED
      BY <1>1, <1>3, <3>1, <3>2, Zenon DEF Ring!Byte
  <2>5. Ring!Matches(Ring!At(head + i), data, 1, Len(data))
            <=> \A k \in 0 .. m - 1 : bytes[i + k + 1] = data[1 + k]
    BY <2>2, <2>4, Zenon DEF Ring!Matches, m
  <2>6. SubSeq(bytes, i + 1, i + m) = data <=> \A k \in 0 .. m - 1 : bytes[i + k + 1] = data[1 + k]
    <3>1. i \in Nat
      BY <2>1, Zenon
    <3>2. i + Len(data) <= Len(bytes)
      BY <2>1, Zenon DEF m, n
    <3>3. bytes \in Seq(RingBytes)
      BY <1>2, Zenon
    <3>4. PieceAt(bytes, data, i) <=> AgreeAt(bytes, data, i)
      BY <3>1, <3>2, <3>3, PieceEqual, Zenon
    <3>5. QED
      BY <3>4, Zenon DEF m, PieceAt, AgreeAt
  <2>7. i + m \in Ring!Ends(data) <=> SubSeq(bytes, i + 1, i + m) = data
    <3>1. i + m \in Len(data) .. Len(bytes) /\ (i + m) - Len(data) + 1 = i + 1
      BY <1>1, <1>2, <2>1 DEF m, n
    <3>2. \A e \in Len(data) .. Len(bytes) :
              e \in Ring!Ends(data) <=> SubSeq(bytes, e - Len(data) + 1, e) = data
      BY Zenon DEF Ring!Ends
    <3>3. i + m \in Ring!Ends(data) <=> SubSeq(bytes, (i + m) - Len(data) + 1, i + m) = data
      BY <3>1, <3>2, Zenon
    <3>4. QED
      BY <3>1, <3>3, Zenon
  <2>8. QED
    BY <2>3, <2>5, <2>6, <2>7, Zenon
<1>9. PICK i \in 0 .. n - m + 1 : /\ r \in Ring!Returns(i, data)
                                  /\ \A j \in 0 .. i - 1 : Ring!GoesOn(j, data)
  BY <1>7, Zenon DEF Ring!Results
<1>10. ASSUME NEW j \in 0 .. i - 1, j <= n - m PROVE j + m \notin Ring!Ends(data)
  <2>1. j \in 0 .. n - m /\ Ring!GoesOn(j, data)
    BY <1>1, <1>2, <1>9, <1>10
  <2>2. QED
    BY <1>8, <2>1, Zenon DEF Ring!GoesOn
<1>11. ASSUME NEW e \in Ring!Ends(data) PROVE e - m \in 0 .. n - m /\ (e - m) + m = e
  BY <1>1, <1>2 DEF Ring!Ends, m, n
<1>12. CASE i > n - m
  <2>1. r = 0
    BY <1>7, <1>9, <1>12, Zenon DEF Ring!Returns
  <2>2. Ring!Ends(data) = {}
    <3>1. SUFFICES ASSUME NEW e \in Ring!Ends(data) PROVE FALSE
      BY Zenon
    <3>2. e - m \in 0 .. i - 1 /\ e - m <= n - m
      BY <1>1, <1>2, <1>11, <1>12
    <3>3. QED
      BY <1>10, <1>11, <3>2, Zenon
  <2>3. QED
    BY <2>1, <2>2, Zenon
<1>13. CASE i <= n - m
  <2>1. i \in 0 .. n - m
    BY <1>1, <1>2, <1>13
  <2>2. r = i + m /\ r \in Ring!Ends(data)
    <3>1. /\ ~Ring!Wraps(i, data)
          /\ Ring!Matches(Ring!At(head + i), data, 1, Len(data)) <=> i + m \in Ring!Ends(data)
      BY <1>8, <2>1, Zenon
    <3>2. n \in Nat /\ m \in Nat
      BY <1>1, <1>2
    <3>3. ~(i > n - m)
      BY <2>1, <3>2
    <3>4. QED
      BY <1>7, <1>9, <3>1, <3>3, Zenon DEF Ring!Returns, m
  <2>3. ASSUME NEW e \in Ring!Ends(data) PROVE r <= e
    <3>1. m \in Nat /\ n \in Nat
      BY <1>1, <1>2
    <3>2. e - m \in 0 .. n - m /\ (e - m) + m = e /\ e \in m .. n
      BY <1>11, Zenon DEF Ring!Ends, m, n
    <3>3. SUFFICES ASSUME e < i + m PROVE FALSE
      BY <2>1, <2>2, <3>1, <3>2
    <3>4. e - m \in 0 .. i - 1 /\ e - m <= n - m
      BY <2>1, <3>1, <3>2, <3>3
    <3>5. QED
      BY <1>10, <3>2, <3>4, Zenon
  <2>4. QED
    BY <2>2, <2>3, Zenon
<1>14. QED
  BY <1>1, <1>2, <1>12, <1>13

\* What the calls return is judged right behind them.
LEMMA RingOther ==
    ASSUME ret'.call \notin {"buffer_remove", "buffer_search"}
    PROVE  Ring!RemoveGivesOldest' /\ Ring!SearchFinds'
BY Zenon DEF Ring!RemoveGivesOldest, Ring!SearchFinds

\* A call that only reads keeps the invariant.
LEMMA RingSame ==
    ASSUME RingInv, UNCHANGED <<size, head, tail, buf, bytes>>
    PROVE  RingInv'
BY Zenon DEF RingInv, Ring!CountersOK, Ring!HoldsTheBytes, Ring!buffer_len, Ring!At

RingCalls == Ring!RemoveGivesOldest /\ Ring!SearchFinds

\* Every step of the buffer preserves the invariant.
LEMMA RingStep == RingInv /\ RingCalls /\ [Ring!Next]_ring => RingInv' /\ RingCalls'
<1> SUFFICES ASSUME RingInv, RingCalls, [Ring!Next]_ring PROVE RingInv' /\ RingCalls'
  BY Zenon
<1>0. /\ size \in Nat /\ bytes \in Seq(RingBytes) /\ Len(bytes) \in Nat
      /\ Ring!buffer_len = Len(bytes)
  BY RingSlots
<1>1. CASE UNCHANGED ring
  <2>1. UNCHANGED <<size, head, tail, buf, bytes, ret>>
    BY <1>1, Zenon DEF ring
  <2>2. RingCalls'
    BY <2>1, Zenon DEF RingCalls, Ring!RemoveGivesOldest, Ring!SearchFinds, Ring!buffer_len, Ring!At, Ring!Ends
  <2>3. QED
    BY <2>1, <2>2, RingSame, Zenon
<1>2. ASSUME NEW data \in Ring!Data(MaxAdd), Ring!buffer_add(data) PROVE RingInv' /\ RingCalls'
  <2>1. data \in Seq(RingBytes)
    BY DEF Ring!Data
  <2>2. ret'.call = "buffer_add"
    BY <1>2, Zenon DEF Ring!buffer_add
  <2>3. QED
    BY <1>2, <2>1, <2>2, RingAdd, RingOther, Zenon DEF RingCalls
<1>3. ASSUME NEW sz \in 1 .. size + 1, Ring!buffer_remove(sz) PROVE RingInv' /\ RingCalls'
  <2> DEFINE k == IF sz <= Len(bytes) THEN sz ELSE Len(bytes)
  <2>1. sz \in Nat /\ k \in 0 .. Len(bytes)
    BY <1>0
  <2>2. /\ head' = (head + k) % Modulus /\ bytes' = SubSeq(bytes, k + 1, Len(bytes))
        /\ UNCHANGED <<size, tail, buf>> /\ ret'.call = "buffer_remove"
    BY <1>0, <1>3, Zenon DEF Ring!buffer_remove, Ring!Lesser
  <2> HIDE DEF k
  <2>3. RingInv'
    BY <2>1, <2>2, RingDrop, Zenon
  <2>4. Ring!RemoveGivesOldest'
    BY <1>3, <2>1, RingOldest, Zenon
  <2>5. Ring!SearchFinds'
    BY <2>2, Zenon DEF Ring!SearchFinds
  <2>6. QED
    BY <2>3, <2>4, <2>5, Zenon DEF RingCalls
<1>4. ASSUME NEW sz \in 0 .. size + 1, Ring!buffer_delete(sz) PROVE RingInv' /\ RingCalls'
  <2> DEFINE k == IF sz <= Len(bytes) THEN sz ELSE Len(bytes)
  <2>1. k \in 0 .. Len(bytes)
    BY <1>0
  <2>2. /\ head' = (head + k) % Modulus /\ bytes' = SubSeq(bytes, k + 1, Len(bytes))
        /\ UNCHANGED <<size, tail, buf>> /\ ret'.call = "buffer_delete"
    BY <1>0, <1>4, Zenon DEF Ring!buffer_delete, Ring!Lesser, Ring!Capped
  <2> HIDE DEF k
  <2>3. QED
    BY <2>1, <2>2, RingDrop, RingOther, Zenon DEF RingCalls
<1>5. ASSUME NEW data \in Ring!Data(2) \ {<<>>}, Ring!buffer_search(data) PROVE RingInv' /\ RingCalls'
  <2>1. data \in Seq(RingBytes) /\ Len(data) >= 1
    <3>1. PICK k \in 0 .. 2 : data \in [1 .. k -> RingBytes]
      BY Zenon DEF Ring!Data
    <3>2. data \in Seq(RingBytes) /\ Len(data) = k
      BY <3>1
    <3>3. QED
      BY <3>2
  <2>2. ret'.call = "buffer_search" /\ UNCHANGED <<size, head, tail, buf, bytes>>
    BY <1>5 DEF Ring!buffer_search
  <2>3. Ring!RemoveGivesOldest'
    BY <2>2, Zenon DEF Ring!RemoveGivesOldest
  <2>4. QED
    BY <1>5, <2>1, <2>2, <2>3, RingSame, RingSearch, Zenon DEF RingCalls
<1>6. CASE Ring!buffer_write_atomost
  <2>1. ret'.call = "buffer_write_atomost" /\ UNCHANGED <<size, head, tail, buf, bytes>>
    BY <1>6, Zenon DEF Ring!buffer_write_atomost
  <2>2. QED
    BY <2>1, RingSame, RingOther, Zenon DEF RingCalls
<1>7. QED
  BY <1>1, <1>2, <1>3, <1>4, <1>5, <1>6, Zenon DEF Ring!Next

\* The ring buffer: for any range of the counters that the sizes divide, the array holds
\* the bytes added and not yet taken through any number of turns, and the calls give
\* what the queue holds wherever their data does not wrap.
THEOREM RingKeepsBytesThm == Spec => []RingKeepsBytes
<1>1. Init => RingInv /\ RingCalls
  <2> SUFFICES ASSUME Init PROVE RingInv /\ RingCalls
    BY Zenon
  <2>1. PICK sz \in RingSizes :
            /\ size = Ring!NewSize(sz) /\ head = 0 /\ tail = 0 /\ bytes = <<>>
            /\ buf = [i \in 0 .. Ring!NewSize(sz) - 1 |-> Ring!Junk]
            /\ ret = [call |-> "buffer_new"]
    BY Zenon DEF Init, Start, Ring!Init
  <2>2. 2 \in Ring!PowersOfTwo
    <3>1. 2 ^ 1 = 2 /\ 1 \in 1 .. 2
      OBVIOUS
    <3>2. \E i \in 1 .. 2 : 2 ^ i = 2
      BY <3>1, Zenon
    <3>3. 2 \in 2 .. Modulus - 1
      BY RingAssumption
    <3>4. QED
      BY <3>2, <3>3, Zenon DEF Ring!PowersOfTwo
  <2>3. size \in Ring!PowersOfTwo
    BY <2>1, <2>2, Zenon DEF Ring!NewSize, Ring!is_pow_of_two, Ring!roundup_pow_of_two
  <2>4. size \in Nat
    BY <2>3 DEF Ring!PowersOfTwo
  <2>5. Ring!buffer_len = 0
    <3>1. 0 \in 0 .. Modulus - 1 /\ Modulus \in Nat \ {0}
      BY RingAssumption
    <3>2. (0 - 0) % Modulus = IF 0 <= 0 THEN 0 - 0 ELSE 0 - 0 + Modulus
      BY <3>1, Distance, Zenon
    <3>3. Ring!buffer_len = IF 0 <= 0 THEN 0 - 0 ELSE 0 - 0 + Modulus
      BY <2>1, <3>2, Zenon DEF Ring!buffer_len
    <3>4. QED
      BY <3>3
  <2>6. DOMAIN buf = 0 .. size - 1 /\ {head, tail} \subseteq 0 .. Modulus - 1
    BY <2>1, RingAssumption
  <2>7. bytes \in Seq(RingBytes) /\ Len(bytes) = 0
    BY <2>1
  <2>8. RingInv
    BY <2>3, <2>4, <2>5, <2>6, <2>7 DEF RingInv, Ring!CountersOK, Ring!HoldsTheBytes
  <2>9. QED
    BY <2>1, <2>8, Zenon DEF RingCalls, Ring!RemoveGivesOldest, Ring!SearchFinds
<1>2. RingInv /\ RingCalls /\ [Next]_vars => RingInv' /\ RingCalls'
  <2>1. [Next]_vars => [Ring!Next]_ring
    BY Zenon DEF Next, vars
  <2>2. QED
    BY <2>1, RingStep, Zenon
<1>3. RingInv /\ RingCalls => RingKeepsBytes
  BY Zenon DEF RingInv, RingCalls, RingKeepsBytes
<1>4. QED
  BY <1>1, <1>2, <1>3, PTL DEF Spec
=============================================================================
