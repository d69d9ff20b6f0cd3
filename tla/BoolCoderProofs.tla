--------------------------- MODULE BoolCoderProofs ---------------------------
(***************************************************************************)
(* A partition that a BoolEncoder has written is read back by a            *)
(* BoolDecoder, for any number of bits and any probabilities; and from the *)
(* beginning of a partition, every bit is right up to the first that is    *)
(* asked of a decoder no longer valid.                                     *)
(*                                                                         *)
(* Output and buffer of an encoder are taken for one number, Low(e), of    *)
(* Shifts(e) + 8 bits: the low end of an interval of length e.range.  A    *)
(* bit narrows the interval and shifts it, with every carry, and never     *)
(* leaves it (PutIs); the partition is a number in the last interval       *)
(* (FinishIs), hence in every one before (PutPlaced).  The value of a      *)
(* decoder is the distance of the first 16 bits of it from the low end     *)
(* (Follows), which is enough to tell in which half the partition lies     *)
(* (Looks), and so the bit that was put.                                   *)
(***************************************************************************)
EXTENDS BoolCoder, SequenceTheorems, WellFoundedInduction, TLAPS

(***************************************************************************)
(* Induction, and sequences defined by it.                                 *)
(***************************************************************************)

(* Induction: a set of naturals has a least member, so what holds of 0 and is *)
(* handed on from each number to the next holds of all.                       *)
LEMMA LeastNat ==
  ASSUME NEW T, T \subseteq Nat, T # {}
  PROVE  \E x \in T : \A y \in T : x <= y
<1>1. PICK x \in T : \A y \in T : ~(<< y, x >> \in OpToRel(<, Nat))
  BY NatLessThanWellFounded, WFMin
<1>2. \A y \in T : ~(y < x)
  BY <1>1 DEF OpToRel
<1> QED BY <1>2

(* Induction over a set of naturals.                                         *)
LEMMA AllOf ==
  ASSUME NEW T, 0 \in T, \A i \in Nat : i \in T => i + 1 \in T
  PROVE  Nat \subseteq T
<1> SUFFICES ASSUME Nat \ T # {} PROVE FALSE
  OBVIOUS
<1>1. PICK x \in Nat \ T : \A y \in Nat \ T : x <= y
  BY LeastNat
<1>2. x - 1 \in Nat /\ x - 1 \notin Nat \ T
  BY <1>1
<1>3. x - 1 \in T /\ (x - 1) + 1 = x
  BY <1>1, <1>2
<1> QED BY <1>1, <1>2, <1>3

(* A recursion over the naturals defines a function.                         *)
Iterates(f, x, F) == f[0] = x /\ \A n \in Nat : f[n + 1] = F[<< n, f[n] >>]

(* A value of X for every natural, each made from the one before.            *)
LEMMA Recursion ==
  ASSUME NEW X, NEW x \in X, NEW F \in [ Nat \X X -> X ]
  PROVE  \E f \in [ Nat -> X ] : Iterates(f, x, F)
<1> DEFINE Follows(f, n) == \A m \in Nat : m < n => f[m + 1] = F[<< m, f[m] >>]
           Starts(n) == { f \in [ 0..n -> X ] : f[0] = x /\ Follows(f, n) }
           begun == { n \in Nat : Starts(n) # {} }
<1>1. Nat \subseteq begun
  <2>1. 0 \in begun
    <3>1. [ m \in 0..0 |-> x ] \in Starts(0)
      OBVIOUS
    <3> QED BY <3>1
  <2>2. ASSUME NEW n \in Nat, n \in begun PROVE n + 1 \in begun
    <3>1. PICK f \in [ 0..n -> X ] : f[0] = x /\ Follows(f, n)
      BY <2>2
    <3> DEFINE g == [ m \in 0..(n + 1) |-> IF m <= n THEN f[m] ELSE F[<< n, f[n] >>] ]
    <3>2. f[n] \in X /\ F[<< n, f[n] >>] \in X
      OBVIOUS
    <3>3. g \in [ 0..(n + 1) -> X ] /\ g[0] = x
      BY <3>1, <3>2
    <3>4. ASSUME NEW m \in Nat, m < n + 1 PROVE g[m + 1] = F[<< m, g[m] >>]
      <4>1. CASE m < n
        <5>1. g[m + 1] = f[m + 1] /\ g[m] = f[m]
          BY <4>1
        <5> QED BY <3>1, <4>1, <5>1
      <4>2. CASE m = n
        <5>1. g[m] = f[n] /\ g[m + 1] = F[<< n, f[n] >>]
          BY <4>2
        <5> QED BY <4>2, <5>1
      <4> QED BY <3>4, <4>1, <4>2
    <3> HIDE DEF g
    <3>5. g \in Starts(n + 1)
      BY <3>3, <3>4
    <3> QED BY <3>5
  <2> HIDE DEF begun
  <2> QED BY <2>1, <2>2, AllOf
<1> DEFINE start(n) == CHOOSE f : f \in Starts(n)
<1>2. ASSUME NEW n \in Nat PROVE start(n) \in Starts(n)
  BY <1>1
<1> HIDE DEF start
<1>3. ASSUME NEW n \in Nat PROVE start(n + 1)[n] = start(n)[n]
  <2> DEFINE f == start(n)
             g == start(n + 1)
             same == { m \in Nat : m <= n => f[m] = g[m] }
  <2>1. f[0] = x /\ Follows(f, n) /\ g[0] = x /\ Follows(g, n + 1)
    BY <1>2
  <2> HIDE DEF f, g
  <2>2. 0 \in same
    BY <2>1
  <2>3. ASSUME NEW m \in Nat, m \in same PROVE m + 1 \in same
    <3> SUFFICES ASSUME m + 1 <= n PROVE f[m + 1] = g[m + 1]
      OBVIOUS
    <3>1. f[m] = g[m]
      BY <2>3
    <3>2. f[m + 1] = F[<< m, f[m] >>] /\ g[m + 1] = F[<< m, g[m] >>]
      BY <2>1
    <3> QED BY <3>1, <3>2
  <2> HIDE DEF same
  <2>4. n \in same
    BY <2>2, <2>3, AllOf
  <2> QED BY <2>4 DEF same, f, g
<1> DEFINE all == [ n \in Nat |-> start(n)[n] ]
<1>4. ASSUME NEW n \in Nat PROVE all[n] \in X
  BY <1>2
<1>5. all[0] = x
  BY <1>2
<1>6. ASSUME NEW n \in Nat PROVE all[n + 1] = F[<< n, all[n] >>]
  <2>1. start(n + 1)[n + 1] = F[<< n, start(n + 1)[n] >>]
    BY <1>2
  <2> QED BY <1>3, <2>1
<1>7. all \in [ Nat -> X ]
  BY <1>4
<1> HIDE DEF all
<1>8. Iterates(all, x, F)
  BY <1>5, <1>6 DEF Iterates
<1> QED BY <1>7, <1>8

(* Powers of two.                                                            *)
Power[n \in Nat] == IF n = 0 THEN 1 ELSE 2 * Power[n - 1]

(* Power is the function that its equation describes.                        *)
LEMMA PowerIs ==
  /\ Power \in [ Nat -> Nat ]
  /\ Power[0] = 1
  /\ \A n \in Nat : Power[n + 1] = 2 * Power[n]
<1> DEFINE F == [ p \in Nat \X Nat |-> 2 * p[2] ]
           From(f) == [ n \in Nat |-> IF n = 0 THEN 1 ELSE 2 * f[n - 1] ]
<1>1. F \in [ Nat \X Nat -> Nat ]
  OBVIOUS
<1> HIDE DEF F
<1>2. PICK f \in [ Nat -> Nat ] : Iterates(f, 1, F)
  <2>1. 1 \in Nat
    OBVIOUS
  <2> QED BY <1>1, <2>1, Recursion, Zenon
<1>3. \A n \in Nat : f[n + 1] = 2 * f[n]
  BY <1>2 DEF F, Iterates
<1>4. ASSUME NEW n \in Nat, n # 0 PROVE f[n] = 2 * f[n - 1]
  <2>1. n - 1 \in Nat /\ (n - 1) + 1 = n
    BY <1>4
  <2> QED BY <1>3, <2>1
<1>5. f = From(f)
  BY <1>2, <1>4 DEF Iterates
<1>6. Power = CHOOSE g : g = From(g)
  BY DEF Power
<1>7. Power = From(Power)
  BY <1>5, <1>6
<1>8. Power[0] = 1
  BY <1>7
<1>9. ASSUME NEW n \in Nat PROVE Power[n + 1] = 2 * Power[n]
  BY <1>7
<1> DEFINE T == { n \in Nat : Power[n] \in Nat }
<1>10. Nat \subseteq T
  <2>1. 0 \in T
    BY <1>8
  <2>2. ASSUME NEW n \in Nat, n \in T PROVE n + 1 \in T
    BY <1>9, <2>2
  <2> HIDE DEF T
  <2> QED BY <2>1, <2>2, AllOf
<1>11. Power \in [ Nat -> Nat ]
  <2>1. Power = [ n \in Nat |-> Power[n] ]
    BY <1>7
  <2> QED BY <1>10, <2>1
<1> QED BY <1>8, <1>9, <1>11

(* Powers of two are at least 1.                                             *)
LEMMA PowerPositive ==
  ASSUME NEW n \in Nat
  PROVE  Power[n] \in Nat /\ Power[n] >= 1
<1> DEFINE T == { m \in Nat : Power[m] \in Nat /\ Power[m] >= 1 }
<1>1. 0 \in T
  BY PowerIs
<1>2. ASSUME NEW m \in Nat, m \in T PROVE m + 1 \in T
  BY <1>2, PowerIs
<1> HIDE DEF T
<1>3. n \in T
  BY <1>1, <1>2, AllOf
<1> QED BY <1>3 DEF T

(* Exponents add up.                                                         *)
LEMMA PowerSum ==
  ASSUME NEW a \in Nat, NEW b \in Nat
  PROVE  Power[a + b] = Power[a] * Power[b]
<1> DEFINE T == { c \in Nat : Power[a + c] = Power[a] * Power[c] }
<1>1. 0 \in T
  BY PowerIs
<1>2. ASSUME NEW c \in Nat, c \in T PROVE c + 1 \in T
  <2>1. Power[a + (c + 1)] = 2 * Power[a + c]
    <3>1. a + c \in Nat /\ a + (c + 1) = (a + c) + 1
      OBVIOUS
    <3> QED BY <3>1, PowerIs
  <2>2. Power[c + 1] = 2 * Power[c]
    BY PowerIs
  <2>3. Power[a] \in Nat /\ Power[c] \in Nat
    BY PowerPositive
  <2>4. 2 * (Power[a] * Power[c]) = Power[a] * (2 * Power[c])
    BY <2>3
  <2> QED BY <1>2, <2>1, <2>2, <2>4
<1> HIDE DEF T
<1>3. b \in T
  BY <1>1, <1>2, AllOf
<1> QED BY <1>3 DEF T

(* The powers that the coder shifts by.                                      *)
LEMMA PowerSmall ==
  /\ Power[0] = 1 /\ Power[1] = 2 /\ Power[2] = 4
  /\ Power[3] = 8 /\ Power[4] = 16 /\ Power[5] = 32
  /\ Power[6] = 64 /\ Power[7] = 128 /\ Power[8] = 256
  /\ Power[9] = 512 /\ Power[10] = 1024 /\ Power[11] = 2048
  /\ Power[12] = 4096 /\ Power[13] = 8192 /\ Power[14] = 16384
  /\ Power[15] = 32768 /\ Power[16] = 65536 /\ Power[17] = 131072
  /\ Power[18] = 262144 /\ Power[19] = 524288 /\ Power[20] = 1048576
  /\ Power[21] = 2097152 /\ Power[22] = 4194304 /\ Power[23] = 8388608
  /\ Power[24] = 16777216 /\ Power[25] = 33554432 /\ Power[26] = 67108864
  /\ Power[27] = 134217728 /\ Power[28] = 268435456 /\ Power[29] = 536870912
  /\ Power[30] = 1073741824 /\ Power[31] = 2147483648 /\ Power[32] = 4294967296
<1>1. \A n \in 0..31 : Power[n + 1] = 2 * Power[n]
  BY PowerIs
<1>2. Power[0] = 1 /\ Power[0 + 1] = 2 * Power[0]
  BY <1>1, PowerIs
<1>3. /\ Power[1 + 1] = 2 * Power[1] /\ Power[2 + 1] = 2 * Power[2]
      /\ Power[3 + 1] = 2 * Power[3] /\ Power[4 + 1] = 2 * Power[4]
      /\ Power[5 + 1] = 2 * Power[5] /\ Power[6 + 1] = 2 * Power[6]
      /\ Power[7 + 1] = 2 * Power[7] /\ Power[8 + 1] = 2 * Power[8]
      /\ Power[9 + 1] = 2 * Power[9] /\ Power[10 + 1] = 2 * Power[10]
      /\ Power[11 + 1] = 2 * Power[11] /\ Power[12 + 1] = 2 * Power[12]
      /\ Power[13 + 1] = 2 * Power[13] /\ Power[14 + 1] = 2 * Power[14]
      /\ Power[15 + 1] = 2 * Power[15] /\ Power[16 + 1] = 2 * Power[16]
      /\ Power[17 + 1] = 2 * Power[17] /\ Power[18 + 1] = 2 * Power[18]
      /\ Power[19 + 1] = 2 * Power[19] /\ Power[20 + 1] = 2 * Power[20]
      /\ Power[21 + 1] = 2 * Power[21] /\ Power[22 + 1] = 2 * Power[22]
      /\ Power[23 + 1] = 2 * Power[23] /\ Power[24 + 1] = 2 * Power[24]
      /\ Power[25 + 1] = 2 * Power[25] /\ Power[26 + 1] = 2 * Power[26]
      /\ Power[27 + 1] = 2 * Power[27] /\ Power[28 + 1] = 2 * Power[28]
      /\ Power[29 + 1] = 2 * Power[29] /\ Power[30 + 1] = 2 * Power[30]
      /\ Power[31 + 1] = 2 * Power[31]
  BY <1>1
<1> QED BY <1>2, <1>3

(* The shifts of the code are by 32 bits at most.                            *)
LEMMA ShiftIs ==
  ASSUME NEW n \in 0..32
  PROVE  2^n = Power[n]
<1>1. /\ 2^0 = Power[0] /\ 2^1 = Power[1] /\ 2^2 = Power[2]
      /\ 2^3 = Power[3] /\ 2^4 = Power[4] /\ 2^5 = Power[5]
      /\ 2^6 = Power[6] /\ 2^7 = Power[7] /\ 2^8 = Power[8]
      /\ 2^9 = Power[9] /\ 2^10 = Power[10] /\ 2^11 = Power[11]
      /\ 2^12 = Power[12] /\ 2^13 = Power[13] /\ 2^14 = Power[14]
      /\ 2^15 = Power[15] /\ 2^16 = Power[16] /\ 2^17 = Power[17]
      /\ 2^18 = Power[18] /\ 2^19 = Power[19] /\ 2^20 = Power[20]
      /\ 2^21 = Power[21] /\ 2^22 = Power[22] /\ 2^23 = Power[23]
      /\ 2^24 = Power[24] /\ 2^25 = Power[25] /\ 2^26 = Power[26]
      /\ 2^27 = Power[27] /\ 2^28 = Power[28] /\ 2^29 = Power[29]
      /\ 2^30 = Power[30] /\ 2^31 = Power[31] /\ 2^32 = Power[32]
  BY PowerSmall
<1>2. \/ n = 0 \/ n = 1 \/ n = 2 \/ n = 3 \/ n = 4 \/ n = 5 \/ n = 6 \/ n = 7
      \/ n = 8 \/ n = 9 \/ n = 10 \/ n = 11 \/ n = 12 \/ n = 13 \/ n = 14 \/ n = 15
      \/ n = 16 \/ n = 17 \/ n = 18 \/ n = 19 \/ n = 20 \/ n = 21 \/ n = 22 \/ n = 23
      \/ n = 24 \/ n = 25 \/ n = 26 \/ n = 27 \/ n = 28 \/ n = 29 \/ n = 30 \/ n = 31
      \/ n = 32
  OBVIOUS
<1> QED BY <1>1, <1>2, Zenon

(***************************************************************************)
(* Octets as the digits of a number.                                       *)
(***************************************************************************)

Octets == 0..255

Digit(s, k) == IF k \in 1..Len(s) THEN s[k] ELSE 0

(* What the first k octets of s are worth, with zeros after the last.        *)
Spells(f, s) == f[0] = 0 /\ \A k \in Nat : f[k + 1] = 256 * f[k] + Digit(s, k + 1)
Worth(s) == CHOOSE f \in [ Nat -> Nat ] : Spells(f, s)

(* Past the end of a partition there are zeros.                              *)
LEMMA DigitIs ==
  ASSUME NEW s \in Seq(Octets), NEW k \in Int
  PROVE  Digit(s, k) \in 0..255
<1>1. CASE k \in 1..Len(s)
  <2>1. s[k] \in Octets
    BY <1>1
  <2> QED BY <1>1, <2>1 DEF Digit, Octets
<1>2. CASE k \notin 1..Len(s)
  BY <1>2 DEF Digit
<1> QED BY <1>1, <1>2

(* Eight bits to an octet.                                                   *)
LEMMA PowerOctet ==
  ASSUME NEW k \in Nat
  PROVE  Power[8 * (k + 1)] = 256 * Power[8 * k] /\ Power[8 * k] \in Nat
<1>1. 8 * k \in Nat /\ 8 \in Nat /\ 8 * (k + 1) = 8 * k + 8
  OBVIOUS
<1>2. Power[8 * k + 8] = Power[8 * k] * Power[8] /\ Power[8 * k] \in Nat
  BY <1>1, PowerSum, PowerPositive
<1>3. Power[8] = 256
  BY PowerSmall
<1>4. Power[8 * k] * 256 = 256 * Power[8 * k]
  BY <1>2
<1> QED BY <1>1, <1>2, <1>3, <1>4

(* Worth is the function that its equation describes.                        *)
LEMMA WorthIs ==
  ASSUME NEW s \in Seq(Octets)
  PROVE  Worth(s) \in [ Nat -> Nat ] /\ Spells(Worth(s), s)
<1> DEFINE F == [ p \in Nat \X Nat |-> 256 * p[2] + Digit(s, p[1] + 1) ]
<1>1. F \in [ Nat \X Nat -> Nat ]
  <2>1. ASSUME NEW k \in Nat, NEW w \in Nat PROVE 256 * w + Digit(s, k + 1) \in Nat
    <3>1. k + 1 \in Int
      OBVIOUS
    <3>2. Digit(s, k + 1) \in 0..255
      BY <3>1, DigitIs, Zenon
    <3>3. \A d \in 0..255 : 256 * w + d \in Nat
      OBVIOUS
    <3> QED BY <3>2, <3>3, Zenon
  <2> QED BY <2>1
<1> HIDE DEF F
<1>2. PICK f \in [ Nat -> Nat ] : Iterates(f, 0, F)
  <2>1. 0 \in Nat
    OBVIOUS
  <2> QED BY <1>1, <2>1, Recursion, Zenon
<1>3. Spells(f, s)
  BY <1>2, ZenonT(60) DEF F, Iterates, Spells
<1> QED BY <1>3, Zenon DEF Worth

(* One more octet.                                                           *)
LEMMA WorthNext ==
  ASSUME NEW s \in Seq(Octets), NEW k \in Nat
  PROVE  /\ Worth(s)[k] \in Nat /\ Digit(s, k + 1) \in 0..255
         /\ Worth(s)[k + 1] = 256 * Worth(s)[k] + Digit(s, k + 1)
<1>1. Worth(s)[k] \in Nat
  BY WorthIs
<1>2. Digit(s, k + 1) \in 0..255
  <2>1. k + 1 \in Int
    OBVIOUS
  <2> QED BY <2>1, DigitIs, Zenon
<1>3. Worth(s)[k + 1] = 256 * Worth(s)[k] + Digit(s, k + 1)
  BY WorthIs DEF Spells
<1> QED BY <1>1, <1>2, <1>3

(* No octet is worth nothing.                                                *)
LEMMA WorthNone ==
  ASSUME NEW s \in Seq(Octets)
  PROVE  Worth(s)[0] = 0
BY WorthIs DEF Spells

(* Partitions that begin alike are worth the same so far.                    *)
LEMMA WorthSame ==
  ASSUME NEW s \in Seq(Octets), NEW t \in Seq(Octets), NEW n \in Nat,
         \A k \in 1..n : Digit(s, k) = Digit(t, k)
  PROVE  Worth(s)[n] = Worth(t)[n]
<1> DEFINE T == { k \in Nat : k <= n => Worth(s)[k] = Worth(t)[k] }
<1>1. 0 \in T
  BY WorthNone
<1>2. ASSUME NEW k \in Nat, k \in T PROVE k + 1 \in T
  <2> SUFFICES ASSUME k + 1 <= n PROVE Worth(s)[k + 1] = Worth(t)[k + 1]
    OBVIOUS
  <2>1. Worth(s)[k] = Worth(t)[k]
    BY <1>2
  <2>2. k + 1 \in 1..n
    OBVIOUS
  <2>3. Digit(s, k + 1) = Digit(t, k + 1)
    BY <2>2
  <2>4. Worth(s)[k + 1] = 256 * Worth(s)[k] + Digit(s, k + 1)
    BY WorthNext
  <2>5. Worth(t)[k + 1] = 256 * Worth(t)[k] + Digit(t, k + 1)
    BY WorthNext
  <2> QED BY <2>1, <2>3, <2>4, <2>5
<1> HIDE DEF T
<1>3. n \in T
  BY <1>1, <1>2, AllOf
<1> QED BY <1>3 DEF T

(* An octet appended is the last digit.                                      *)
LEMMA WorthAppend ==
  ASSUME NEW s \in Seq(Octets), NEW x \in Octets
  PROVE  Worth(Append(s, x))[Len(s) + 1] = 256 * Worth(s)[Len(s)] + x
<1>1. Append(s, x) \in Seq(Octets)
  OBVIOUS
<1>2. Worth(Append(s, x))[Len(s)] = Worth(s)[Len(s)]
  <2>1. \A k \in 1..Len(s) : Digit(Append(s, x), k) = Digit(s, k)
    BY DEF Digit
  <2>2. Len(s) \in Nat
    OBVIOUS
  <2> QED BY <1>1, <2>1, <2>2, WorthSame, Zenon
<1>3. Digit(Append(s, x), Len(s) + 1) = x
  BY DEF Digit
<1>4. /\ Len(s) \in Nat
      /\ Worth(Append(s, x))[Len(s) + 1]
           = 256 * Worth(Append(s, x))[Len(s)] + Digit(Append(s, x), Len(s) + 1)
  <2>1. Len(s) \in Nat
    OBVIOUS
  <2> QED BY <1>1, <2>1, WorthNext, ZenonT(60)
<1> QED BY <1>2, <1>3, <1>4

(* Octets that follow move what is there up and fill the room below it.      *)
LEMMA WorthGrows ==
  ASSUME NEW s \in Seq(Octets), NEW n \in Nat, NEW i \in Nat
  PROVE  /\ Worth(s)[n] * Power[8 * i] <= Worth(s)[n + i]
         /\ Worth(s)[n + i] < (Worth(s)[n] + 1) * Power[8 * i]
<1> DEFINE low == Worth(s)[n]
           T == { k \in Nat : /\ low * Power[8 * k] <= Worth(s)[n + k]
                              /\ Worth(s)[n + k] < (low + 1) * Power[8 * k] }
<1>0. low \in Nat
  BY WorthNext
<1>1. 0 \in T
  <2>1. n + 0 = n /\ 8 * 0 = 0 /\ Power[0] = 1
    BY PowerIs
  <2>2. low * 1 <= low /\ low < (low + 1) * 1
    BY <1>0
  <2> QED BY <2>1, <2>2
<1>2. ASSUME NEW k \in Nat, k \in T PROVE k + 1 \in T
  <2> DEFINE p == Power[8 * k]
             w == Worth(s)[n + k]
             d == Digit(s, n + k + 1)
  <2>1. Power[8 * (k + 1)] = 256 * p /\ p \in Nat
    BY PowerOctet
  <2>2. Worth(s)[n + (k + 1)] = 256 * w + d /\ w \in Nat /\ d \in 0..255
    <3>1. n + k \in Nat /\ n + (k + 1) = (n + k) + 1
      OBVIOUS
    <3>2. w \in Nat /\ d \in 0..255
      <4>1. \A m \in Nat : Worth(s)[m] \in Nat /\ Digit(s, m + 1) \in 0..255
        BY WorthNext, ZenonT(60)
      <4> QED BY <3>1, <4>1, Zenon
    <3>3. Worth(s)[(n + k) + 1] = 256 * Worth(s)[n + k] + Digit(s, (n + k) + 1)
      BY <3>1, WorthNext, ZenonT(60)
    <3> QED BY <3>1, <3>2, <3>3
  <2>3. low * p <= w /\ w < (low + 1) * p
    BY <1>2
  <2> HIDE DEF low, w, d, p
  <2>4. low * (256 * p) <= 256 * w + d /\ 256 * w + d < (low + 1) * (256 * p)
    <3>1. low * p \in Nat /\ (low + 1) * p \in Nat
      BY <1>0, <2>1
    <3>2. low * (256 * p) = 256 * (low * p) /\ (low + 1) * (256 * p) = 256 * ((low + 1) * p)
      BY <1>0, <2>1
    <3> HIDE DEF low
    <3> QED BY <2>2, <2>3, <3>1, <3>2
  <2> QED BY <2>1, <2>2, <2>4 DEF low, w
<1> HIDE DEF T
<1>3. i \in T
  BY <1>1, <1>2, AllOf
<1> QED BY <1>3 DEF T

LEMMA WorthPadded ==
  ASSUME NEW s \in Seq(Octets), NEW i \in Nat
  PROVE  Worth(s)[Len(s) + i] = Worth(s)[Len(s)] * Power[8 * i]
<1> DEFINE n == Len(s)
           all == Worth(s)[n]
           T == { k \in Nat : Worth(s)[n + k] = all * Power[8 * k] }
<1>0. n \in Nat /\ all \in Nat
  BY WorthNext
<1>1. 0 \in T
  <2>1. n + 0 = n /\ 8 * 0 = 0 /\ Power[0] = 1
    BY <1>0, PowerIs
  <2>2. all * 1 = all
    BY <1>0
  <2> QED BY <2>1, <2>2
<1>2. ASSUME NEW k \in Nat, k \in T PROVE k + 1 \in T
  <2>1. Power[8 * (k + 1)] = 256 * Power[8 * k] /\ Power[8 * k] \in Nat
    BY PowerOctet
  <2>2. Digit(s, n + k + 1) = 0
    BY DEF Digit
  <2>3. Worth(s)[n + (k + 1)] = 256 * Worth(s)[n + k]
    <3>1. n + k \in Nat /\ n + (k + 1) = (n + k) + 1
      OBVIOUS
    <3> HIDE DEF n
    <3>2. Worth(s)[n + k] \in Nat
      BY <3>1, WorthNext
    <3>3. Worth(s)[(n + k) + 1] = 256 * Worth(s)[n + k] + Digit(s, (n + k) + 1)
      BY <3>1, WorthNext, ZenonT(60)
    <3> QED BY <2>2, <3>1, <3>2, <3>3
  <2> HIDE DEF n
  <2>4. Worth(s)[n + k] = all * Power[8 * k]
    BY <1>2
  <2> HIDE DEF all
  <2>5. 256 * (all * Power[8 * k]) = all * (256 * Power[8 * k])
    BY <1>0, <2>1
  <2> QED BY <2>1, <2>3, <2>4, <2>5
<1> HIDE DEF T
<1>3. i \in T
  BY <1>1, <1>2, AllOf
<1> QED BY <1>3 DEF T

(***************************************************************************)
(* The carry that runs back through octets already written.                *)
(***************************************************************************)

(* A carry adds one to what is there, unless it would run off the front.     *)
LastBelow(s, last) ==
  /\ last \in 1..Len(s) /\ s[last] # 255
  /\ \A k \in 1..Len(s) : s[k] # 255 => k <= last

(* Octets of 255 are one short of the next power.                            *)
LEMMA WorthFull ==
  ASSUME NEW s \in Seq(Octets), NEW n \in 0..Len(s), \A k \in 1..n : s[k] = 255
  PROVE  Worth(s)[n] = Power[8 * n] - 1
<1> DEFINE T == { k \in Nat : k <= n => Worth(s)[k] = Power[8 * k] - 1 }
<1>0. \A k \in Nat : Worth(s)[k + 1] = 256 * Worth(s)[k] + Digit(s, k + 1)
  BY WorthIs DEF Spells
<1>1. 0 \in T
  <2>1. 8 * 0 = 0 /\ Power[0] = 1 /\ Worth(s)[0] = 0
    BY PowerIs, WorthNone
  <2> QED BY <2>1
<1>2. ASSUME NEW k \in Nat, k \in T PROVE k + 1 \in T
  <2> SUFFICES ASSUME k + 1 <= n PROVE Worth(s)[k + 1] = Power[8 * (k + 1)] - 1
    OBVIOUS
  <2>1. Worth(s)[k] = Power[8 * k] - 1
    BY <1>2
  <2>2. Digit(s, k + 1) = 255
    <3>1. k + 1 \in 1..n /\ k + 1 \in 1..Len(s)
      OBVIOUS
    <3> QED BY <3>1 DEF Digit
  <2>3. Worth(s)[k + 1] = 256 * Worth(s)[k] + Digit(s, k + 1)
    BY <1>0
  <2>4. Power[8 * (k + 1)] = 256 * Power[8 * k] /\ Power[8 * k] \in Nat
    BY PowerOctet
  <2> QED BY <2>1, <2>2, <2>3, <2>4
<1> HIDE DEF T
<1>3. n \in T
  BY <1>1, <1>2, AllOf
<1> QED BY <1>3 DEF T

(* A carry that fits finds an octet to stop at.                              *)
LEMMA LastBelowExists ==
  ASSUME NEW s \in Seq(Octets), Worth(s)[Len(s)] + 1 < Power[8 * Len(s)]
  PROVE  \E last : LastBelow(s, last)
<1> DEFINE T == { k \in Nat : k < Len(s) /\ s[Len(s) - k] # 255 }
<1>1. T # {}
  <2> SUFFICES ASSUME T = {} PROVE FALSE
    OBVIOUS
  <2>1. ASSUME NEW k \in 1..Len(s) PROVE s[k] = 255
    <3>1. Len(s) - k \in Nat /\ Len(s) - k < Len(s) /\ Len(s) - (Len(s) - k) = k
      OBVIOUS
    <3>2. Len(s) - k \notin T
      OBVIOUS
    <3> QED BY <3>1, <3>2
  <2> HIDE DEF T
  <2>2. Len(s) \in 0..Len(s) /\ Len(s) \in Nat
    OBVIOUS
  <2>3. Worth(s)[Len(s)] = Power[8 * Len(s)] - 1
    BY <2>1, <2>2, WorthFull
  <2>4. Power[8 * Len(s)] \in Nat
    BY <2>2, PowerPositive
  <2> QED BY <2>3, <2>4
<1>2. PICK k \in T : \A i \in T : k <= i
  <2>1. T \subseteq Nat
    OBVIOUS
  <2> HIDE DEF T
  <2> QED BY <1>1, <2>1, LeastNat
<1>3. k \in Nat /\ k < Len(s) /\ s[Len(s) - k] # 255
  BY <1>2
<1>4. ASSUME NEW i \in 1..Len(s), s[i] # 255 PROVE i <= Len(s) - k
  <2>1. Len(s) - i \in Nat /\ Len(s) - i < Len(s) /\ Len(s) - (Len(s) - i) = i
    OBVIOUS
  <2>2. Len(s) - i \in T
    BY <1>4, <2>1
  <2>3. k <= Len(s) - i
    BY <1>2, <2>2
  <2> QED BY <1>3, <2>3
<1>5. LastBelow(s, Len(s) - k)
  BY <1>3, <1>4 DEF LastBelow
<1> QED BY <1>5

(* That octet is the one add_one_to_output() looks for.                      *)
LEMMA SelectedIs ==
  ASSUME NEW s \in Seq(Octets), NEW last, LastBelow(s, last)
  PROVE  SelectLastInSeq(s, LAMBDA octet : octet # 255) = last
<1> DEFINE I == { i \in 1..Len(s) : s[i] # 255 }
<1>1. I # {} /\ last \in I /\ \A i \in I : i <= last
  BY DEF LastBelow
<1>2. Max(I) = last
  <2>1. I \subseteq Int
    OBVIOUS
  <2> HIDE DEF I
  <2>2. last \in Int /\ \A x \in I : x \in Int /\ ((\A y \in I : x >= y) => x = last)
    BY <1>1, <2>1
  <2>3. \A y \in I : last >= y
    BY <1>1, <2>1
  <2> QED BY <1>1, <2>2, <2>3, Zenon DEF Max
<1> QED BY <1>1, <1>2 DEF SelectLastInSeq

(* add_one_to_output() adds one, and changes no length.                      *)
LEMMA AddOne ==
  ASSUME NEW s \in Seq(Octets), Worth(s)[Len(s)] + 1 < Power[8 * Len(s)]
  PROVE  /\ add_one_to_output(s) \in Seq(Octets)
         /\ Len(add_one_to_output(s)) = Len(s)
         /\ Worth(add_one_to_output(s))[Len(s)] = Worth(s)[Len(s)] + 1
<1>1. PICK last : LastBelow(s, last)
  BY LastBelowExists
<1> DEFINE t == [ i \in 1..Len(s) |->
                    IF i < last THEN s[i] ELSE IF i = last THEN s[i] + 1 ELSE 0 ]
<1>2. add_one_to_output(s) = t
  <2>1. SelectLastInSeq(s, LAMBDA octet : octet # 255) = last
    BY <1>1, SelectedIs
  <2>2. DOMAIN s = 1..Len(s)
    OBVIOUS
  <2> QED BY <2>1, <2>2 DEF add_one_to_output
<1>3. last \in 1..Len(s) /\ s[last] # 255 /\ \A k \in 1..Len(s) : s[k] # 255 => k <= last
  BY <1>1 DEF LastBelow
<1>4. ASSUME NEW i \in 1..Len(s) PROVE s[i] \in 0..255
  <2>1. s[i] \in Octets
    OBVIOUS
  <2> QED BY <2>1 DEF Octets
<1>5. ASSUME NEW i \in 1..Len(s) PROVE t[i] \in Octets
  <2>1. t[i] = IF i < last THEN s[i] ELSE IF i = last THEN s[i] + 1 ELSE 0
    OBVIOUS
  <2>2. s[i] \in 0..255 /\ (i = last => s[i] # 255)
    BY <1>3, <1>4
  <2> HIDE DEF t
  <2>3. CASE i < last
    BY <2>1, <2>2, <2>3 DEF Octets
  <2>4. CASE i = last
    <3>1. t[i] = s[i] + 1
      BY <1>3, <2>1, <2>4
    <3>2. s[i] + 1 \in 0..255
      <4>1. s[i] \in 0..255 /\ s[i] # 255
        BY <2>2, <2>4, Zenon
      <4>2. \A x \in 0..255 : x # 255 => x + 1 \in 0..255
        OBVIOUS
      <4> QED BY <4>1, <4>2, Zenon
    <3> QED BY <3>1, <3>2 DEF Octets
  <2>5. CASE ~(i < last) /\ i # last
    BY <2>1, <2>5 DEF Octets
  <2> QED BY <2>3, <2>4, <2>5
<1>6. t \in Seq(Octets) /\ Len(t) = Len(s)
  <2>1. Len(s) \in Nat
    OBVIOUS
  <2>2. t \in [ 1..Len(s) -> Octets ]
    BY <1>5
  <2> QED BY <2>1, <2>2, IsASeq
<1> DEFINE T == { k \in Nat : last <= k /\ k <= Len(s) => Worth(t)[k] = Worth(s)[k] + 1 }
<1>7. ASSUME NEW k \in 1..(last - 1) PROVE Digit(t, k) = Digit(s, k)
  <2>1. k \in 1..Len(s) /\ t[k] = s[k]
    BY <1>3
  <2> HIDE DEF t
  <2> QED BY <1>6, <2>1 DEF Digit
<1>8. Digit(t, last) = s[last] + 1 /\ Digit(s, last) = s[last]
  BY <1>3, <1>6 DEF Digit
<1>9. ASSUME NEW k \in (last + 1)..Len(s) PROVE Digit(t, k) = 0 /\ Digit(s, k) = 255
  <2>1. k \in 1..Len(s) /\ t[k] = 0 /\ s[k] = 255
    BY <1>3
  <2> HIDE DEF t
  <2> QED BY <1>6, <2>1 DEF Digit
<1> HIDE DEF t
<1>10. Worth(t)[last] = Worth(s)[last] + 1
  <2>1. last - 1 \in Nat /\ (last - 1) + 1 = last
    BY <1>3
  <2>2. Worth(t)[last - 1] = Worth(s)[last - 1]
    BY <1>6, <1>7, <2>1, WorthSame
  <2>3. /\ Worth(s)[(last - 1) + 1] = 256 * Worth(s)[last - 1] + Digit(s, (last - 1) + 1)
        /\ Worth(s)[last - 1] \in Nat
    BY <2>1, WorthNext, ZenonT(60)
  <2>4. Worth(t)[(last - 1) + 1] = 256 * Worth(t)[last - 1] + Digit(t, (last - 1) + 1)
    BY <1>6, <2>1, WorthNext, ZenonT(60)
  <2>5. s[last] \in 0..255
    BY <1>3, <1>4
  <2>6. Worth(s)[last] = 256 * Worth(s)[last - 1] + s[last]
    BY <1>8, <2>1, <2>3
  <2>7. Worth(t)[last] = 256 * Worth(s)[last - 1] + (s[last] + 1)
    BY <1>8, <2>1, <2>2, <2>4
  <2> DEFINE w == Worth(s)[last - 1]
             x == s[last]
  <2>8. w \in Nat /\ x \in 0..255
    BY <2>3, <2>5
  <2> HIDE DEF w, x
  <2>9. 256 * w + (x + 1) = (256 * w + x) + 1
    BY <2>8
  <2> QED BY <2>6, <2>7, <2>9 DEF w, x
<1>11. ASSUME NEW k \in Nat, last <= k, k < Len(s), Worth(t)[k] = Worth(s)[k] + 1
       PROVE  Worth(t)[k + 1] = Worth(s)[k + 1] + 1
  <2>1. k + 1 \in (last + 1)..Len(s)
    BY <1>3, <1>11
  <2>2. Digit(t, k + 1) = 0 /\ Digit(s, k + 1) = 255
    BY <1>9, <2>1, Zenon
  <2>3. /\ Worth(s)[k + 1] = 256 * Worth(s)[k] + Digit(s, k + 1)
        /\ Worth(s)[k] \in Nat
    BY WorthNext, ZenonT(60)
  <2>4. Worth(t)[k + 1] = 256 * Worth(t)[k] + Digit(t, k + 1)
    BY <1>6, WorthNext, ZenonT(60)
  <2> QED BY <1>11, <2>2, <2>3, <2>4
<1>12. 0 \in T
  BY <1>3
<1>13. ASSUME NEW k \in Nat, k \in T PROVE k + 1 \in T
  <2>1. CASE k + 1 = last
    BY <1>10, <2>1
  <2>2. CASE k + 1 # last
    BY <1>3, <1>11, <1>13, <2>2
  <2> QED BY <2>1, <2>2
<1> HIDE DEF T
<1>14. Len(s) \in T
  <2>1. Len(s) \in Nat
    OBVIOUS
  <2> QED BY <1>12, <1>13, <2>1, AllOf
<1>15. Worth(t)[Len(s)] = Worth(s)[Len(s)] + 1
  BY <1>3, <1>14 DEF T
<1> QED BY <1>2, <1>6, <1>15

(***************************************************************************)
(* Splitting a range, and dividing a buffer.                               *)
(***************************************************************************)

(* Products of naturals grow with their factors.                             *)
LEMMA TimesMonotone ==
  ASSUME NEW a \in Nat, NEW b \in Nat, NEW m \in Nat, a <= b
  PROVE  a * m <= b * m /\ a * m \in Nat /\ b * m \in Nat
<1>1. PICK d \in Nat : b = a + d
  <2>1. b - a \in Nat /\ b = a + (b - a)
    OBVIOUS
  <2> QED BY <2>1
<1>2. b * m = a * m + d * m /\ d * m \in Nat /\ a * m \in Nat
  BY <1>1
<1> QED BY <1>2

(* Quotient and remainder are what they are made of.                         *)
LEMMA DividedIs ==
  ASSUME NEW m \in Nat, m >= 1, NEW q \in Nat, NEW r \in 0..(m - 1)
  PROVE  (q * m + r) \div m = q /\ (q * m + r) % m = r
OBVIOUS

(* A natural is its quotient and remainder.                                  *)
LEMMA Divided ==
  ASSUME NEW m \in Nat, m >= 1, NEW b \in Nat
  PROVE  /\ b \div m \in Nat /\ b % m \in 0..(m - 1)
         /\ b = (b \div m) * m + (b % m)
OBVIOUS

(* A buffer that holds a whole numbers of its low end, and one carry at most. *)
BufferFacts(a, o, b) ==
  /\ (b \div a) % 256 \in 0..255
  /\ b % a \in 0..(a - 1)
  /\ (b * o) % (a * o) = (b % a) * o
  /\ (b \div (256 * a)) % 2 = 1 => b = (256 + ((b \div a) % 256)) * a + (b % a)
  /\ (b \div (256 * a)) % 2 # 1 => b = ((b \div a) % 256) * a + (b % a)

(* A buffer falls into a carry, an octet and a rest.                         *)
LEMMA BufferIs ==
  ASSUME NEW a \in Nat, a >= 1, NEW o \in Nat, o >= 1, NEW bottom \in Nat, bottom < 512 * a
  PROVE  BufferFacts(a, o, bottom)
<1> DEFINE q == bottom \div a
           low == bottom % a
           c == q \div 256
           x == q % 256
<1>1. q \in Nat /\ low \in 0..(a - 1) /\ bottom = q * a + low
  BY Divided
<1> HIDE DEF q, low
<1>2. q < 512
  <2> SUFFICES ASSUME 512 <= q PROVE FALSE
    BY <1>1
  <2>1. 512 * a <= q * a
    BY <1>1, TimesMonotone
  <2> QED BY <1>1, <2>1
<1>3. c \in {0, 1} /\ x \in 0..255 /\ q = 256 * c + x
  BY <1>1, <1>2
<1> HIDE DEF c, x
<1>4. bottom = c * (256 * a) + (x * a + low) /\ x * a + low \in 0..(256 * a - 1)
  <2>1. (256 * c + x) * a = c * (256 * a) + x * a
    BY <1>3
  <2>2. x * a <= 255 * a /\ x * a \in Nat
    BY <1>3, TimesMonotone
  <2> QED BY <1>1, <1>3, <2>1, <2>2
<1>5. bottom \div (256 * a) = c
  BY <1>3, <1>4, DividedIs
<1>6. (bottom * o) % (a * o) = low * o
  <2>1. bottom * o = q * (a * o) + low * o
    BY <1>1
  <2>2. low * o \in 0..(a * o - 1) /\ a * o \in Nat /\ a * o >= 1
    <3>1. low + 1 <= a
      BY <1>1
    <3>2. (low + 1) * o <= a * o /\ a * o \in Nat /\ low * o \in Nat
      BY <1>1, <3>1, TimesMonotone
    <3>3. (low + 1) * o = low * o + o
      BY <1>1
    <3> QED BY <3>2, <3>3
  <2> DEFINE m == a * o
             l == low * o
  <2>3. bottom * o = q * m + l /\ l \in 0..(m - 1) /\ m \in Nat /\ m >= 1
    BY <2>1, <2>2
  <2> HIDE DEF m, l
  <2>4. (q * m + l) % m = l
    BY <1>1, <2>3, DividedIs
  <2> QED BY <2>3, <2>4 DEF m, l
<1>7. /\ c % 2 = 1 => bottom = (256 + x) * a + low
      /\ c % 2 # 1 => bottom = x * a + low
  <2>1. CASE c = 1
    BY <1>1, <1>3, <2>1
  <2>2. CASE c = 0
    BY <1>1, <1>3, <2>2
  <2> QED BY <1>3, <2>1, <2>2
<1>8. /\ q % 256 \in 0..255 /\ low \in 0..(a - 1) /\ (bottom * o) % (a * o) = low * o
      /\ (bottom \div (256 * a)) % 2 = 1 => bottom = (256 + (q % 256)) * a + low
      /\ (bottom \div (256 * a)) % 2 # 1 => bottom = (q % 256) * a + low
  BY <1>1, <1>3, <1>5, <1>6, <1>7, Zenon DEF x
<1> QED BY <1>8, Zenon DEF BufferFacts, q, low

(* Both parts of a range that is split are not empty.                        *)
LEMMA SplitIs ==
  ASSUME NEW range \in 1..255, NEW probability \in 1..255, range >= 2
  PROVE  Split(range, probability) \in 1..(range - 1)
<1> DEFINE p == (range - 1) * probability
<1>1. p \in Nat /\ p < (range - 1) * 256
  <2>1. (range - 1) * probability <= (range - 1) * 255
    BY TimesMonotone
  <2> QED BY <2>1
<1> HIDE DEF p
<1>2. p \div 256 \in 0..(range - 2)
  BY <1>1
<1> QED BY <1>2 DEF Split, p

(* vp8_norm brings a range back to 128 or more, and not over 255.            *)
LEMMA NormIs ==
  ASSUME NEW range \in 1..255
  PROVE  Norm(range) \in 0..7 /\ range * Power[Norm(range)] \in 128..255
<1>1. \E shift \in 0..7 : range * Power[shift] \in 128..255
  <2>1. CASE range \in 128..255
    BY <2>1, PowerSmall
  <2>2. CASE range \in 64..127
    BY <2>2, PowerSmall
  <2>3. CASE range \in 32..63
    BY <2>3, PowerSmall
  <2>4. CASE range \in 16..31
    BY <2>4, PowerSmall
  <2>5. CASE range \in 8..15
    BY <2>5, PowerSmall
  <2>6. CASE range \in 4..7
    BY <2>6, PowerSmall
  <2>7. CASE range \in 2..3
    BY <2>7, PowerSmall
  <2>8. CASE range = 1
    BY <2>8, PowerSmall
  <2>9. \/ range \in 128..255 \/ range \in 64..127 \/ range \in 32..63 \/ range \in 16..31
        \/ range \in 8..15 \/ range \in 4..7 \/ range \in 2..3 \/ range = 1
    OBVIOUS
  <2> QED BY <2>1, <2>2, <2>3, <2>4, <2>5, <2>6, <2>7, <2>8, <2>9, Zenon
<1>2. \A shift \in 0..7 : 2^shift = Power[shift]
  <2>1. \A shift \in 0..7 : shift \in 0..32
    OBVIOUS
  <2> QED BY <2>1, ShiftIs, Zenon
<1>3. \E shift \in 0..7 : range * 2^shift \in 128..255
  BY <1>1, <1>2, Zenon
<1>4. Norm(range) \in 0..7 /\ range * 2^Norm(range) \in 128..255
  BY <1>3, Zenon DEF Norm
<1> QED BY <1>2, <1>4, Zenon

(***************************************************************************)
(* What an encoder is worth: its octets and its buffer as one interval.    *)
(***************************************************************************)

(* Bits of bottom that may still be changed by a carry or a narrower range.  *)
Held(e) == Delay + e.bit_count

(* How often range has been doubled.                                         *)
Shifts(e) == 8 * Len(e.output) + Held(e)

(* The lower end of the interval, output and buffer together.                *)
Low(e) == Worth(e.output)[Len(e.output)] * Power[Held(e) + 8] + e.bottom

(* Encoders, whether or not their interval fits.                             *)
Encoders ==
  [ output : Seq(Octets), range : 1..255, bottom : Nat, bit_count : (-Delay)..(-1) ]

(* The interval lies within what is left of 0 to 1, and the buffer has room  *)
(* for one carry.                                                            *)
Fits(e) ==
  /\ e \in Encoders
  /\ e.bottom + e.range <= Power[Held(e) + 9]
  /\ Low(e) + e.range <= Power[Shifts(e) + 8]

(* An encoder as it is between two bits.                                     *)
Sound(e) == Fits(e) /\ e.range >= 128

(* The bits of an octet, and its carry, above a buffer.                      *)
LEMMA PowerEight ==
  ASSUME NEW d \in Nat
  PROVE  Power[d + 8] = 256 * Power[d] /\ Power[d + 9] = 512 * Power[d]
<1>1. Power[d + 8] = Power[d] * Power[8] /\ Power[d + 9] = Power[d] * Power[9]
  BY PowerSum
<1>2. Power[8] = 256 /\ Power[9] = 512 /\ Power[d] \in Nat
  BY PowerSmall, PowerPositive
<1> QED BY <1>1, <1>2

(* An encoder with d bits held.                                              *)
Encoder(o, r, b, d) ==
  [ output |-> o, range |-> r, bottom |-> b, bit_count |-> d - Delay ]

(* An encoder by what it has written, its interval and its buffer.           *)
LEMMA IsEncoder ==
  ASSUME NEW e \in Encoders
  PROVE  \E o \in Seq(Octets), r \in 1..255, b \in Nat, d \in 0..(Delay - 1) :
           e = Encoder(o, r, b, d)
<1>1. PICK o \in Seq(Octets), r \in 1..255, b \in Nat, c \in (-Delay)..(-1) :
        e = [ output |-> o, range |-> r, bottom |-> b, bit_count |-> c ]
  BY DEF Encoders
<1>2. Delay \in Nat
  BY CoderAssumption
<1>3. Delay + c \in 0..(Delay - 1) /\ c = (Delay + c) - Delay
  BY <1>2
<1>4. e = Encoder(o, r, b, Delay + c)
  BY <1>1, <1>3 DEF Encoder
<1> QED BY <1>3, <1>4

(* What the octets written stand for at the scale of a buffer that holds d   *)
(* bits, how far the buffer may reach, and how far the interval may.         *)
Above(o, d) == Worth(o)[Len(o)] * (256 * Power[d])
Reach(d) == 512 * Power[d]
Top(o, d) == Power[8 * Len(o)] * (256 * Power[d])

(* The numbers of an interval are naturals.                                  *)
LEMMA NumbersAre ==
  ASSUME NEW o \in Seq(Octets), NEW d \in Nat
  PROVE  Above(o, d) \in Nat /\ Reach(d) \in Nat /\ Top(o, d) \in Nat
<1>1. Len(o) \in Nat /\ 8 * Len(o) \in Nat
  OBVIOUS
<1>2. PICK w \in Nat : w = Worth(o)[Len(o)]
  BY <1>1, WorthNext, ZenonT(60)
<1>3. PICK n \in Nat : n = Power[8 * Len(o)]
  BY <1>1, PowerPositive, Zenon
<1>4. PICK p \in Nat : p = Power[d]
  BY PowerPositive
<1>5. w * (256 * p) \in Nat /\ 512 * p \in Nat /\ n * (256 * p) \in Nat
  OBVIOUS
<1>6. Above(o, d) = w * (256 * p) /\ Reach(d) = 512 * p /\ Top(o, d) = n * (256 * p)
  BY <1>2, <1>3, <1>4 DEF Above, Reach, Top
<1> QED BY <1>5, <1>6

(* An encoder in numbers.                                                    *)
EncoderFacts(o, r, b, d, e) ==
  /\ e \in Encoders
  /\ Held(e) = d
  /\ Shifts(e) = 8 * Len(o) + d
  /\ Low(e) = Above(o, d) + b
  /\ Fits(e) <=> b + r <= Reach(d) /\ (Above(o, d) + b) + r <= Top(o, d)

(* See EncoderFacts.                                                         *)
LEMMA EncoderIs ==
  ASSUME NEW o \in Seq(Octets), NEW r \in 1..255, NEW b \in Nat, NEW d \in 0..(Delay - 1)
  PROVE  EncoderFacts(o, r, b, d, Encoder(o, r, b, d))
<1> DEFINE e == Encoder(o, r, b, d)
<1>1. e.output = o /\ e.range = r /\ e.bottom = b /\ e.bit_count = d - Delay
  BY DEF Encoder
<1>2. Delay \in Nat
  BY CoderAssumption
<1>3. d \in Nat
  BY <1>2
<1>4. e \in Encoders
  <2>1. d - Delay \in (-Delay)..(-1)
    BY <1>2
  <2> QED BY <2>1 DEF Encoder, Encoders
<1> HIDE DEF e
<1>5. Held(e) = d
  <2>1. Delay + (d - Delay) = d
    BY <1>2
  <2> QED BY <1>1, <2>1, Zenon DEF Held
<1>6. Shifts(e) = 8 * Len(o) + d
  BY <1>1, <1>5, Zenon DEF Shifts
<1>7. Len(o) \in Nat /\ 8 * Len(o) \in Nat
  OBVIOUS
<1>8. Power[d + 8] = 256 * Power[d] /\ Power[d + 9] = 512 * Power[d]
  BY <1>3, PowerEight
<1>9. Power[(8 * Len(o) + d) + 8] = Top(o, d)
  <2>1. d + 8 \in Nat
    BY <1>3
  <2>2. (8 * Len(o) + d) + 8 = 8 * Len(o) + (d + 8)
    BY <1>3, <1>7
  <2>3. Power[8 * Len(o) + (d + 8)] = Power[8 * Len(o)] * Power[d + 8]
    BY <1>7, <2>1, PowerSum, Zenon
  <2> QED BY <1>8, <2>2, <2>3, Zenon DEF Top
<1>10. Low(e) = Above(o, d) + b
  BY <1>1, <1>5, <1>8, Zenon DEF Low, Above
<1>11. e.bottom + e.range <= Power[Held(e) + 9] <=> b + r <= Reach(d)
  BY <1>1, <1>5, <1>8 DEF Reach
<1>12. Low(e) + e.range <= Power[Shifts(e) + 8] <=> (Above(o, d) + b) + r <= Top(o, d)
  BY <1>1, <1>6, <1>9, <1>10, Zenon
<1>13. Fits(e) <=> b + r <= Reach(d) /\ (Above(o, d) + b) + r <= Top(o, d)
  BY <1>4, <1>11, <1>12, Zenon DEF Fits
<1>14. EncoderFacts(o, r, b, d, e)
  BY <1>4, <1>5, <1>6, <1>10, <1>13, Zenon DEF EncoderFacts
<1> QED BY <1>14 DEF e

(* Shifting everything by k bits.                                            *)
Scaled(a, k) == a * Power[k]

(* Scaling keeps naturals, ...                                               *)
LEMMA ScaledNat ==
  ASSUME NEW a \in Nat, NEW k \in Nat
  PROVE  Scaled(a, k) \in Nat
<1>1. Power[k] \in Nat
  BY PowerPositive
<1>2. \A p \in Nat : a * p \in Nat
  OBVIOUS
<1> QED BY <1>1, <1>2, Zenon DEF Scaled

(* ... sums, ...                                                             *)
LEMMA ScaledSum ==
  ASSUME NEW a \in Nat, NEW b \in Nat, NEW k \in Nat
  PROVE  Scaled(a + b, k) = Scaled(a, k) + Scaled(b, k)
<1>1. PICK p \in Nat : p = Power[k]
  BY PowerPositive
<1>2. (a + b) * p = a * p + b * p
  OBVIOUS
<1> QED BY <1>1, <1>2, Zenon DEF Scaled

(* ... and order, ...                                                        *)
LEMMA ScaledOrder ==
  ASSUME NEW a \in Nat, NEW b \in Nat, NEW k \in Nat, a <= b
  PROVE  Scaled(a, k) <= Scaled(b, k)
<1>1. PICK p \in Nat : p = Power[k]
  BY PowerPositive
<1>2. a * p <= b * p
  BY TimesMonotone
<1> QED BY <1>1, <1>2, Zenon DEF Scaled

(* ... and adds up.                                                          *)
LEMMA ScaledTwice ==
  ASSUME NEW a \in Nat, NEW k \in Nat, NEW m \in Nat
  PROVE  Scaled(Scaled(a, k), m) = Scaled(a, k + m)
<1>1. PICK p \in Nat, q \in Nat : p = Power[k] /\ q = Power[m]
  BY PowerPositive
<1>2. Power[k + m] = p * q
  BY <1>1, PowerSum, Zenon
<1>3. (a * p) * q = a * (p * q)
  OBVIOUS
<1> QED BY <1>1, <1>2, <1>3, Zenon DEF Scaled

(* The numbers of an interval as the buffer is shifted.                      *)
LEMMA ScaledAbove ==
  ASSUME NEW o \in Seq(Octets), NEW d \in Nat, NEW k \in Nat
  PROVE  /\ Above(o, d + k) = Scaled(Above(o, d), k)
         /\ Reach(d + k) = Scaled(Reach(d), k)
         /\ Top(o, d + k) = Scaled(Top(o, d), k)
<1>1. Len(o) \in Nat /\ 8 * Len(o) \in Nat
  OBVIOUS
<1>2. PICK w \in Nat : w = Worth(o)[Len(o)]
  BY <1>1, WorthNext, ZenonT(60)
<1>3. PICK n \in Nat : n = Power[8 * Len(o)]
  BY <1>1, PowerPositive, Zenon
<1>4. PICK p \in Nat, q \in Nat : p = Power[d] /\ q = Power[k]
  BY PowerPositive
<1>5. Power[d + k] = p * q
  BY <1>4, PowerSum, Zenon
<1>6. /\ Above(o, d) = w * (256 * p) /\ Above(o, d + k) = w * (256 * (p * q))
      /\ Top(o, d) = n * (256 * p) /\ Top(o, d + k) = n * (256 * (p * q))
      /\ Reach(d) = 512 * p /\ Reach(d + k) = 512 * (p * q)
  BY <1>2, <1>3, <1>4, <1>5 DEF Above, Reach, Top
<1>7. /\ w * (256 * (p * q)) = (w * (256 * p)) * q
      /\ n * (256 * (p * q)) = (n * (256 * p)) * q
      /\ 512 * (p * q) = (512 * p) * q
  OBVIOUS
<1>8. /\ Scaled(Above(o, d), k) = Above(o, d) * q
      /\ Scaled(Reach(d), k) = Reach(d) * q
      /\ Scaled(Top(o, d), k) = Top(o, d) * q
  BY <1>4, Zenon DEF Scaled
<1> QED BY <1>6, <1>7, <1>8

(* An interval that fits still fits when it is shifted.                      *)
IntervalScales(a, b, r, t, u, k) ==
  /\ Scaled(a, k) + Scaled(b, k) = Scaled(a + b, k)
  /\ Scaled(b, k) + Scaled(r, k) <= Scaled(t, k)
  /\ (Scaled(a, k) + Scaled(b, k)) + Scaled(r, k) <= Scaled(u, k)

(* See IntervalScales.                                                       *)
LEMMA ScaledInterval ==
  ASSUME NEW a \in Nat, NEW b \in Nat, NEW r \in Nat, NEW t \in Nat, NEW u \in Nat,
         NEW k \in Nat, b + r <= t, (a + b) + r <= u
  PROVE  IntervalScales(a, b, r, t, u, k)
<1>1. a + b \in Nat /\ b + r \in Nat /\ (a + b) + r \in Nat
  OBVIOUS
<1>2. Scaled(a + b, k) = Scaled(a, k) + Scaled(b, k)
  BY ScaledSum
<1>3. Scaled(b + r, k) = Scaled(b, k) + Scaled(r, k)
  BY ScaledSum
<1>4. Scaled((a + b) + r, k) = Scaled(a + b, k) + Scaled(r, k)
  BY <1>1, ScaledSum
<1>5. Scaled(b + r, k) <= Scaled(t, k) /\ Scaled((a + b) + r, k) <= Scaled(u, k)
  BY <1>1, ScaledOrder, Zenon
<1> QED BY <1>2, <1>3, <1>4, <1>5, Zenon DEF IntervalScales

(* Named, so that the provers do not replace c by what it is equal to.       *)
Becomes(a, k, c) == c = Scaled(a, k)

(* f is e with its interval written to k more bits.                          *)
Rescales(f, e, k) ==
  /\ Sound(f)
  /\ Low(f) = Scaled(Low(e), k)
  /\ Shifts(f) = Shifts(e) + k

(* Nothing leaves the buffer.                                                *)
LEMMA StaysRescales ==
  ASSUME NEW o \in Seq(Octets), NEW r \in 1..255, NEW b \in Nat, NEW d \in 0..(Delay - 1),
         Fits(Encoder(o, r, b, d)),
         NEW shift \in 0..7, d + shift < Delay,
         NEW q \in 128..255, Becomes(r, shift, q), NEW v \in Nat, Becomes(b, shift, v)
  PROVE  Rescales(Encoder(o, q, v, d + shift), Encoder(o, r, b, d), shift)
<1> DEFINE e == Encoder(o, r, b, d)
           f == Encoder(o, q, v, d + shift)
<1>1. Delay \in Nat
  BY CoderAssumption
<1>2. d \in Nat /\ shift \in Nat /\ r \in Nat /\ d + shift \in Nat
  BY <1>1
<1>3. d + shift \in 0..(Delay - 1) /\ q \in 1..255 /\ q >= 128
  BY <1>1
<1>4. PICK a \in Nat, t \in Nat, u \in Nat :
        a = Above(o, d) /\ t = Reach(d) /\ u = Top(o, d)
  BY <1>2, NumbersAre
<1>5. Fits(e) /\ EncoderFacts(o, r, b, d, e)
  BY EncoderIs, Zenon
<1>6. EncoderFacts(o, q, v, d + shift, f)
  BY <1>3, EncoderIs, Zenon
<1>7. f.range = q
  BY DEF Encoder
<1> HIDE DEF e, f
<1>8. /\ Shifts(e) = 8 * Len(o) + d
      /\ Low(e) = a + b
      /\ b + r <= t /\ (a + b) + r <= u
  BY <1>4, <1>5, Zenon DEF EncoderFacts
<1>9. IntervalScales(a, b, r, t, u, shift)
  BY <1>2, <1>8, ScaledInterval, Zenon
<1>10. /\ Scaled(a, shift) + v = Scaled(a + b, shift)
       /\ v + q <= Scaled(t, shift)
       /\ (Scaled(a, shift) + v) + q <= Scaled(u, shift)
  BY <1>9, Zenon DEF IntervalScales, Becomes
<1>11. /\ Above(o, d + shift) = Scaled(a, shift)
       /\ Reach(d + shift) = Scaled(t, shift)
       /\ Top(o, d + shift) = Scaled(u, shift)
  BY <1>2, <1>4, ScaledAbove
<1>12. /\ Shifts(f) = 8 * Len(o) + (d + shift)
       /\ Low(f) = Scaled(a, shift) + v
       /\ Fits(f)
  BY <1>6, <1>10, <1>11, Zenon DEF EncoderFacts
<1>13. Sound(f)
  BY <1>3, <1>7, <1>12, Zenon DEF Sound
<1>14. Low(f) = Scaled(Low(e), shift)
  BY <1>8, <1>10, <1>12, Zenon
<1>15. Shifts(f) = Shifts(e) + shift
  <2>1. Len(o) \in Nat
    OBVIOUS
  <2> QED BY <1>2, <1>8, <1>12, <2>1
<1> QED BY <1>13, <1>14, <1>15, Zenon DEF Rescales, e, f

(***************************************************************************)
(* An octet leaves the buffer.                                             *)
(***************************************************************************)

(* What leaves a buffer of b that holds d bits.                              *)
Carry(b, d) == (b \div (256 * Power[d])) % 2 = 1
Octet(b, d) == (b \div Power[d]) % 256
Rest(b, d) == b % Power[d]
Left(o, b, d) == Append(IF Carry(b, d) THEN add_one_to_output(o) ELSE o, Octet(b, d))

(* Emit, in numbers.                                                         *)
LEMMA EmitIs ==
  ASSUME NEW o \in Seq(Octets), NEW r \in 1..255, NEW b \in Nat, NEW d \in 0..(Delay - 1),
         b < Reach(d), NEW shift \in 0..7, d + shift >= Delay
  PROVE  Emit(Encoder(o, r, b, d), shift)
           = Encoder(Left(o, b, d), Scaled(r, shift), Scaled(Rest(b, d), shift), (d + shift) - 8)
<1> DEFINE e == Encoder(o, r, b, d)
           offset == -e.bit_count
           count == e.bit_count + shift
<1>1. Delay \in 8..24
  BY CoderAssumption
<1>2. e.output = o /\ e.range = r /\ e.bottom = b /\ e.bit_count = d - Delay
  BY DEF Encoder
<1>3. /\ offset = Delay - d /\ count = (d + shift) - Delay
      /\ Delay + 8 - offset = d + 8 /\ Delay - offset = d
      /\ count - 8 = ((d + shift) - 8) - Delay
  BY <1>1, <1>2
<1>4. /\ d \in 0..32 /\ d + 8 \in 0..32 /\ Delay - d \in 0..32 /\ Delay \in 0..32
      /\ (d + shift) - Delay \in 0..32 /\ shift \in 0..32
  BY <1>1
<1>5. /\ d \in Nat /\ Delay - d \in Nat /\ (d + shift) - Delay \in Nat /\ shift \in Nat
  BY <1>1
<1>6. /\ Delay = d + (Delay - d) /\ shift = (Delay - d) + ((d + shift) - Delay)
  BY <1>1
<1> HIDE DEF e, offset, count
<1>7. PICK p \in Nat : p = Power[d] /\ p >= 1
  BY <1>5, PowerPositive, Zenon
<1>8. PICK m \in Nat : m = Power[Delay - d] /\ m >= 1
  BY <1>5, PowerPositive, Zenon
<1>9. PICK k \in Nat : k = Power[(d + shift) - Delay] /\ k >= 1
  BY <1>5, PowerPositive, Zenon
<1>10. /\ 2^d = p /\ 2^(d + 8) = 256 * p /\ 2^(Delay - d) = m /\ 2^Delay = p * m
       /\ 2^((d + shift) - Delay) = k /\ 2^shift = m * k /\ Power[shift] = m * k
  <2>1. /\ 2^d = Power[d] /\ 2^(d + 8) = Power[d + 8] /\ 2^(Delay - d) = Power[Delay - d]
        /\ 2^Delay = Power[Delay] /\ 2^((d + shift) - Delay) = Power[(d + shift) - Delay]
        /\ 2^shift = Power[shift]
    BY <1>4, ShiftIs, Zenon
  <2>2. Power[d + 8] = 256 * p
    BY <1>5, <1>7, PowerEight
  <2>3. Power[d + (Delay - d)] = Power[d] * Power[Delay - d]
    BY <1>5, PowerSum, Zenon
  <2>4. Power[(Delay - d) + ((d + shift) - Delay)]
          = Power[Delay - d] * Power[(d + shift) - Delay]
    BY <1>5, PowerSum, Zenon
  <2>5. Power[Delay] = p * m
    BY <1>6, <1>7, <1>8, <2>3, Zenon
  <2>6. Power[shift] = m * k
    BY <1>6, <1>8, <1>9, <2>4, Zenon
  <2> QED BY <1>7, <1>8, <1>9, <2>1, <2>2, <2>5, <2>6, Zenon
<1>11. BufferFacts(p, m, b)
  <2>1. b < 512 * p
    BY <1>7, Zenon DEF Reach
  <2> QED BY <1>7, <1>8, <2>1, BufferIs, Zenon
<1>12. (b * m) % (p * m) = (b % p) * m
  BY <1>11, Zenon DEF BufferFacts
<1>13. ((b % p) * m) * k = (b % p) * (m * k)
  <2>1. PICK x \in Nat : x = b % p
    BY <1>7, Divided
  <2>2. (x * m) * k = x * (m * k)
    OBVIOUS
  <2> QED BY <2>1, <2>2, Zenon
<1>14. Carry(b, d) <=> (e.bottom \div 2^(Delay + 8 - offset)) % 2 = 1
  BY <1>2, <1>3, <1>7, <1>10, ZenonT(60) DEF Carry
<1>15. Octet(b, d) = (e.bottom \div 2^(Delay - offset)) % 256
  BY <1>2, <1>3, <1>7, <1>10, Zenon DEF Octet
<1>16. ((e.bottom * 2^offset) % 2^Delay) * 2^count = Scaled(Rest(b, d), shift)
  <2>1. ((e.bottom * 2^offset) % 2^Delay) * 2^count = ((b * m) % (p * m)) * k
    BY <1>2, <1>3, <1>10, Zenon
  <2>2. Scaled(Rest(b, d), shift) = (b % p) * (m * k)
    BY <1>7, <1>10, Zenon DEF Scaled, Rest
  <2> QED BY <1>12, <1>13, <2>1, <2>2, Zenon
<1>17. e.range * 2^shift = Scaled(r, shift)
  BY <1>2, <1>10, Zenon DEF Scaled
<1>18. Emit(e, shift) = [ output |-> Append(IF (e.bottom \div 2^(Delay + 8 - offset)) % 2 = 1
                                           THEN add_one_to_output(e.output) ELSE e.output,
                                           (e.bottom \div 2^(Delay - offset)) % 256),
                          range |-> e.range * 2^shift,
                          bottom |-> ((e.bottom * 2^offset) % 2^Delay) * 2^count,
                          bit_count |-> count - 8 ]
  BY DEF Emit, offset, count
<1>19. Emit(e, shift) = [ output |-> Left(o, b, d), range |-> Scaled(r, shift),
                          bottom |-> Scaled(Rest(b, d), shift),
                          bit_count |-> ((d + shift) - 8) - Delay ]
  BY <1>2, <1>3, <1>14, <1>15, <1>16, <1>17, <1>18, ZenonT(60) DEF Left
<1> QED BY <1>19, Zenon DEF e, Encoder

(* Reading across the end of the interval would need a carry off the front.  *)
LEMMA TimesStrict ==
  ASSUME NEW a \in Nat, NEW b \in Nat, NEW m \in Nat, a * m < b * m
  PROVE  a < b
<1> SUFFICES ASSUME b <= a PROVE FALSE
  OBVIOUS
<1>1. b * m <= a * m /\ a * m \in Nat /\ b * m \in Nat
  BY TimesMonotone
<1> QED BY <1>1

(* A carry leaves the octets written below their power.                      *)
CarryFits(w, n, p, b) == w * (256 * p) + b < n * (256 * p)

(* See CarryFits: the octets before the carry are not all 255.               *)
LEMMA CarryHasRoom ==
  ASSUME NEW w \in Nat, NEW n \in Nat, NEW p \in Nat, NEW b \in Nat, NEW x \in Nat,
         NEW rest \in Nat, CarryFits(w, n, p, b), b = (256 + x) * p + rest
  PROVE  w + 1 < n
<1>1. b = 256 * p + (x * p + rest) /\ x * p \in Nat
  OBVIOUS
<1>2. (w + 1) * (256 * p) = w * (256 * p) + 256 * p
  OBVIOUS
<1>3. w * (256 * p) \in Nat /\ n * (256 * p) \in Nat /\ 256 * p \in Nat
  OBVIOUS
<1>4. w * (256 * p) + b < n * (256 * p)
  BY Zenon DEF CarryFits
<1>5. (w + 1) * (256 * p) < n * (256 * p)
  BY <1>1, <1>2, <1>3, <1>4
<1> QED BY <1>3, <1>5, TimesStrict

(* The octets written and the rest are worth what octets and buffer were.    *)
LeftFacts(o, b, d, left) ==
  /\ left \in Seq(Octets) /\ Len(left) = Len(o) + 1
  /\ Rest(b, d) \in Nat /\ Rest(b, d) < Power[d]
  /\ Above(o, d) + b = Worth(left)[Len(left)] * Power[d] + Rest(b, d)

(* See LeftFacts: with the carry, no bit is lost.                            *)
LEMMA LeftIs ==
  ASSUME NEW o \in Seq(Octets), NEW b \in Nat, NEW d \in Nat,
         b < Reach(d), Above(o, d) + b < Top(o, d)
  PROVE  LeftFacts(o, b, d, Left(o, b, d))
<1> DEFINE x == Octet(b, d)
           rest == Rest(b, d)
           above == IF Carry(b, d) THEN add_one_to_output(o) ELSE o
<1>1. Len(o) \in Nat /\ 8 * Len(o) \in Nat
  OBVIOUS
<1>2. PICK w \in Nat : w = Worth(o)[Len(o)]
  BY <1>1, WorthNext, ZenonT(60)
<1>3. PICK n \in Nat : n = Power[8 * Len(o)]
  BY <1>1, PowerPositive, Zenon
<1>4. PICK p \in Nat : p = Power[d] /\ p >= 1
  BY PowerPositive, Zenon
<1>5. CarryFits(w, n, p, b) /\ b < 512 * p
  BY <1>2, <1>3, <1>4, Zenon DEF CarryFits, Above, Top, Reach
<1>6. BufferFacts(p, 1, b)
  <2>1. 1 \in Nat /\ 1 >= 1
    OBVIOUS
  <2> QED BY <1>4, <1>5, <2>1, BufferIs, Zenon
<1>7. /\ x \in 0..255 /\ rest \in 0..(p - 1)
      /\ Carry(b, d) => b = (256 + x) * p + rest
      /\ ~ Carry(b, d) => b = x * p + rest
  BY <1>4, <1>6, ZenonT(60) DEF BufferFacts, Octet, Rest, Carry
<1>8. Left(o, b, d) = Append(above, x)
  BY DEF Left
<1> DEFINE c == IF Carry(b, d) THEN 1 ELSE 0
<1>9. /\ above \in Seq(Octets) /\ Len(above) = Len(o)
      /\ Worth(above)[Len(o)] = w + c
      /\ b = (256 * c + x) * p + rest
  <2> HIDE DEF x, rest
  <2>1. CASE Carry(b, d)
    <3>1. w + 1 < n
      <4>1. b = (256 + x) * p + rest
        BY <1>7, <2>1, Zenon
      <4>2. x \in Nat /\ rest \in Nat
        BY <1>4, <1>7
      <4> QED BY <1>5, <4>1, <4>2, CarryHasRoom
    <3>2. Worth(o)[Len(o)] + 1 < Power[8 * Len(o)]
      BY <1>2, <1>3, <3>1, Zenon
    <3>3. /\ add_one_to_output(o) \in Seq(Octets)
          /\ Len(add_one_to_output(o)) = Len(o)
          /\ Worth(add_one_to_output(o))[Len(o)] = w + 1
      BY <1>2, <3>2, AddOne, Zenon
    <3>4. above = add_one_to_output(o) /\ c = 1
      BY <2>1
    <3>5. b = (256 * 1 + x) * p + rest
      BY <1>7, <2>1
    <3> QED BY <3>3, <3>4, <3>5, ZenonT(60)
  <2>2. CASE ~ Carry(b, d)
    <3>1. above = o /\ c = 0 /\ w + 0 = w
      BY <2>2
    <3>2. b = (256 * 0 + x) * p + rest
      BY <1>7, <2>2
    <3> QED BY <1>2, <3>1, <3>2, ZenonT(60)
  <2> QED BY <2>1, <2>2
<1>10. x \in Octets
  BY <1>7, Zenon DEF Octets
<1>11. c \in {0, 1}
  OBVIOUS
<1> HIDE DEF above, c
<1>12. /\ Append(above, x) \in Seq(Octets) /\ Len(Append(above, x)) = Len(o) + 1
  <2> HIDE DEF x
  <2> QED BY <1>9, <1>10
<1>13. Worth(Append(above, x))[Len(o) + 1] = 256 * (w + c) + x
  <2>1. Worth(Append(above, x))[Len(above) + 1] = 256 * Worth(above)[Len(above)] + x
    BY <1>9, <1>10, WorthAppend, ZenonT(60)
  <2> QED BY <1>9, <2>1, Zenon
<1>14. w * (256 * p) + b = (256 * (w + c) + x) * p + rest
  <2> HIDE DEF x, rest
  <2>1. x \in Nat /\ rest \in Nat
    BY <1>4, <1>7
  <2>2. (256 * (w + c) + x) * p = w * (256 * p) + (256 * c + x) * p
    BY <1>11, <2>1
  <2>3. w * (256 * p) \in Nat /\ (256 * c + x) * p \in Nat
    BY <1>11, <2>1
  <2> QED BY <1>9, <2>1, <2>2, <2>3
<1>15. Above(o, d) + b = w * (256 * p) + b
  BY <1>2, <1>4, Zenon DEF Above
<1>16. rest \in Nat /\ rest < p
  BY <1>4, <1>7
<1> QED BY <1>4, <1>8, <1>12, <1>13, <1>14, <1>15, <1>16, ZenonT(60) DEF LeftFacts

(* The buffer is no longer than what an octet's departure leaves of it.      *)
Settled(b, d) == b < Power[d + 8]

(* Products grow strictly.                                                   *)
LEMMA TimesBelow ==
  ASSUME NEW a \in Nat, NEW b \in Nat, NEW m \in Nat, a < b, m >= 1
  PROVE  a * m < b * m
<1>1. (a + 1) * m <= b * m /\ (a + 1) * m \in Nat /\ b * m \in Nat
  BY TimesMonotone
<1>2. (a + 1) * m = a * m + m /\ a * m \in Nat
  OBVIOUS
<1> QED BY <1>1, <1>2

(* An octet leaves the buffer.                                               *)
LEMMA EmitRescales ==
  ASSUME NEW o \in Seq(Octets), NEW r \in 1..255, NEW b \in Nat, NEW d \in 0..(Delay - 1),
         Fits(Encoder(o, r, b, d)),
         NEW shift \in 0..7, d + shift >= Delay,
         NEW q \in 128..255, Becomes(r, shift, q),
         NEW v \in Nat, Becomes(Rest(b, d), shift, v),
         NEW left, LeftFacts(o, b, d, left)
  PROVE  /\ Rescales(Encoder(left, q, v, (d + shift) - 8), Encoder(o, r, b, d), shift)
         /\ Settled(v, (d + shift) - 8)
<1> DEFINE e == Encoder(o, r, b, d)
           held == (d + shift) - 8
           f == Encoder(left, q, v, held)
<1>1. Delay \in 8..24
  BY CoderAssumption
<1>2. d \in Nat /\ shift \in Nat /\ r \in Nat
  BY <1>1
<1>3. held \in 0..(Delay - 1) /\ held \in Nat /\ held + 8 = d + shift /\ q \in 1..255 /\ q >= 128
  BY <1>1
<1> HIDE DEF held
<1>4. left \in Seq(Octets) /\ Len(left) = Len(o) + 1
  BY Zenon DEF LeftFacts
<1>5. Len(o) \in Nat /\ 8 * Len(o) \in Nat
  OBVIOUS
<1>6. PICK w \in Nat : w = Worth(left)[Len(left)]
  <2>1. Len(left) \in Nat
    BY <1>4, <1>5
  <2> QED BY <1>4, <2>1, WorthNext, ZenonT(60)
<1>7. PICK n \in Nat : n = Power[8 * Len(o)]
  BY <1>5, PowerPositive, Zenon
<1>8. PICK p \in Nat : p = Power[d] /\ p >= 1
  BY <1>2, PowerPositive, Zenon
<1>9. PICK k \in Nat : k = Power[shift] /\ k >= 1
  BY <1>2, PowerPositive, Zenon
<1>10. PICK m \in Nat : m = Power[held] /\ m >= 1
  BY <1>3, PowerPositive, Zenon
<1>11. PICK rest \in Nat : rest = Rest(b, d) /\ rest < p
  BY <1>8, Zenon DEF LeftFacts
<1>12. PICK a \in Nat, u \in Nat : a = Above(o, d) /\ u = Top(o, d)
  BY <1>2, NumbersAre
<1>13. 256 * m = p * k /\ Power[held + 8] = 256 * m
  <2>1. Power[held + 8] = 256 * m
    BY <1>3, <1>10, PowerEight
  <2>2. Power[d + shift] = p * k
    BY <1>2, <1>8, <1>9, PowerSum, Zenon
  <2> QED BY <1>3, <2>1, <2>2, Zenon
<1>14. v = rest * k
  BY <1>9, <1>11, Zenon DEF Becomes, Scaled
<1>15. v < 256 * m
  <2>1. rest * k < p * k
    BY <1>8, <1>9, <1>11, TimesBelow, Zenon
  <2> QED BY <1>13, <1>14, <2>1, Zenon
<1>16. Settled(v, held)
  BY <1>13, <1>15, Zenon DEF Settled
<1>17. Fits(e) /\ EncoderFacts(o, r, b, d, e)
  BY EncoderIs, Zenon
<1>18. EncoderFacts(left, q, v, held, f)
  BY <1>3, <1>4, EncoderIs, Zenon
<1>19. f.range = q
  BY DEF Encoder
<1> HIDE DEF e, f
<1>20. Low(e) = a + b /\ (a + b) + r <= u /\ Shifts(e) = 8 * Len(o) + d
  BY <1>12, <1>17, Zenon DEF EncoderFacts
<1>21. a + b = w * p + rest
  BY <1>6, <1>8, <1>11, <1>12, Zenon DEF LeftFacts
<1>22. /\ Above(left, held) = w * (p * k)
       /\ Reach(held) = 512 * m
       /\ Top(left, held) = (256 * n) * (p * k)
  <2>1. Above(left, held) = w * (p * k)
    BY <1>6, <1>10, <1>13, Zenon DEF Above
  <2>2. Power[8 * (Len(o) + 1)] = 256 * n
    BY <1>5, <1>7, PowerOctet, Zenon
  <2> QED BY <1>4, <1>10, <1>13, <2>1, <2>2, ZenonT(60) DEF Reach, Top
<1>23. Scaled(a + b, shift) = w * (p * k) + v
  <2>1. Scaled(a + b, shift) = (w * p + rest) * k
    BY <1>9, <1>21, Zenon DEF Scaled
  <2>2. (w * p + rest) * k = w * (p * k) + rest * k
    OBVIOUS
  <2> QED BY <1>14, <2>1, <2>2, Zenon
<1>24. u = n * (256 * p)
  BY <1>7, <1>8, <1>12, Zenon DEF Top
<1>25. Scaled(u, shift) = (256 * n) * (p * k)
  <2>1. Scaled(u, shift) = (n * (256 * p)) * k
    BY <1>9, <1>24, Zenon DEF Scaled
  <2>2. (n * (256 * p)) * k = (256 * n) * (p * k)
    OBVIOUS
  <2> QED BY <2>1, <2>2, Zenon
<1>26. (w * (p * k) + v) + q <= (256 * n) * (p * k)
  <2>1. a + b \in Nat /\ (a + b) + r \in Nat
    BY <1>2
  <2>2. Scaled((a + b) + r, shift) <= Scaled(u, shift)
    BY <1>2, <1>20, <2>1, ScaledOrder, Zenon
  <2>3. Scaled((a + b) + r, shift) = Scaled(a + b, shift) + Scaled(r, shift)
    BY <1>2, <2>1, ScaledSum
  <2> QED BY <1>23, <1>25, <2>2, <2>3, Zenon DEF Becomes
<1>27. v + q <= 512 * m
  <2>1. \A x \in Nat, y \in Nat : x < 256 * y /\ y >= 1 => x + q <= 512 * y
    OBVIOUS
  <2> QED BY <1>10, <1>15, <2>1, ZenonT(60)
<1>28. Fits(f) /\ Low(f) = w * (p * k) + v /\ Shifts(f) = 8 * (Len(o) + 1) + held
  BY <1>4, <1>18, <1>22, <1>26, <1>27, ZenonT(60) DEF EncoderFacts
<1>29. Sound(f)
  BY <1>3, <1>19, <1>28, Zenon DEF Sound
<1>30. Low(f) = Scaled(Low(e), shift)
  BY <1>20, <1>23, <1>28, Zenon
<1>31. Shifts(f) = Shifts(e) + shift
  BY <1>2, <1>3, <1>5, <1>20, <1>28, SMTT(60)
<1> QED BY <1>16, <1>29, <1>30, <1>31, Zenon DEF Rescales, e, f, held

(***************************************************************************)
(* One bit.                                                                *)
(***************************************************************************)

(* Where a bit narrows the interval to, from its lower end, and how wide.    *)
Side(r, value, p) == IF value THEN Split(r, p) ELSE 0
Part(r, value, p) == IF value THEN r - Split(r, p) ELSE Split(r, p)

(* The half of a range that a bit selects, and its distance from the low     *)
(* end.                                                                      *)
NarrowFacts(r, side, part) ==
  /\ side \in Nat /\ part \in 1..255 /\ side + part <= r
  /\ Norm(part) \in 0..7 /\ Scaled(part, Norm(part)) \in 128..255

(* See NarrowFacts.                                                          *)
LEMMA NarrowIs ==
  ASSUME NEW r \in 1..255, r >= 128, NEW value \in BOOLEAN, NEW p \in 1..255
  PROVE  NarrowFacts(r, Side(r, value, p), Part(r, value, p))
<1> DEFINE side == Side(r, value, p)
           part == Part(r, value, p)
<1>1. Split(r, p) \in 1..(r - 1)
  <2>1. r >= 2
    OBVIOUS
  <2> QED BY <2>1, SplitIs, Zenon
<1>2. side \in Nat /\ part \in 1..255 /\ side + part <= r
  <2>1. CASE value
    BY <1>1, <2>1, SMTT(60) DEF Side, Part
  <2>2. CASE ~ value
    BY <1>1, <2>2, SMTT(60) DEF Side, Part
  <2> QED BY <2>1, <2>2
<1> HIDE DEF side, part
<1>3. Norm(part) \in 0..7 /\ Scaled(part, Norm(part)) \in 128..255
  BY <1>2, NormIs, Zenon DEF Scaled
<1> QED BY <1>2, <1>3, Zenon DEF NarrowFacts, side, part

(* An encoder that is narrowed, but not yet shifted, still fits.             *)
NarrowedFacts(o, r, b, d, side, part) ==
  /\ Fits(Encoder(o, part, b + side, d))
  /\ Low(Encoder(o, part, b + side, d)) = Low(Encoder(o, r, b, d)) + side
  /\ Shifts(Encoder(o, part, b + side, d)) = Shifts(Encoder(o, r, b, d))
  /\ b + side \in Nat /\ b + side < Reach(d) /\ Above(o, d) + (b + side) < Top(o, d)

(* See NarrowedFacts.                                                        *)
LEMMA NarrowedIs ==
  ASSUME NEW o \in Seq(Octets), NEW r \in 1..255, NEW b \in Nat, NEW d \in 0..(Delay - 1),
         Fits(Encoder(o, r, b, d)),
         NEW side \in Nat, NEW part \in 1..255, side + part <= r
  PROVE  NarrowedFacts(o, r, b, d, side, part)
<1> DEFINE e == Encoder(o, r, b, d)
           f == Encoder(o, part, b + side, d)
<1>1. Delay \in 8..24
  BY CoderAssumption
<1>2. d \in Nat /\ b + side \in Nat
  BY <1>1
<1>3. PICK a \in Nat, t \in Nat, u \in Nat :
        a = Above(o, d) /\ t = Reach(d) /\ u = Top(o, d)
  BY <1>2, NumbersAre
<1>4. Fits(e) /\ EncoderFacts(o, r, b, d, e)
  BY EncoderIs, Zenon
<1>5. EncoderFacts(o, part, b + side, d, f)
  BY <1>2, EncoderIs, Zenon
<1> HIDE DEF e, f
<1>6. Low(e) = a + b /\ b + r <= t /\ (a + b) + r <= u /\ Shifts(e) = 8 * Len(o) + d
  BY <1>3, <1>4, Zenon DEF EncoderFacts
<1>7. /\ Low(f) = a + (b + side) /\ Shifts(f) = 8 * Len(o) + d
      /\ (b + side) + part <= t /\ (a + (b + side)) + part <= u => Fits(f)
  BY <1>3, <1>5, Zenon DEF EncoderFacts
<1>8. /\ a + (b + side) = (a + b) + side
      /\ (b + side) + part <= t /\ (a + (b + side)) + part <= u
      /\ b + side < t /\ a + (b + side) < u
  <2>1. \A x \in Nat, y \in Nat, z \in Nat :
           y + r <= z /\ (x + y) + r <= z
             => /\ x + (y + side) = (x + y) + side
                /\ (y + side) + part <= z /\ (x + (y + side)) + part <= z
                /\ y + side < z /\ x + (y + side) < z
    OBVIOUS
  <2>2. \A x \in Nat, y \in Nat, z \in Nat, m \in Nat :
           y + r <= z /\ (x + y) + r <= m
             => /\ x + (y + side) = (x + y) + side
                /\ (y + side) + part <= z /\ (x + (y + side)) + part <= m
                /\ y + side < z /\ x + (y + side) < m
    OBVIOUS
  <2> QED BY <1>3, <1>6, <2>2, ZenonT(60)
<1>9. Fits(f) /\ Low(f) = Low(e) + side /\ Shifts(f) = Shifts(e)
  BY <1>6, <1>7, <1>8, Zenon
<1> QED BY <1>2, <1>3, <1>8, <1>9, Zenon DEF NarrowedFacts, e, f

(* The fields of an encoder that Put changes.                                *)
LEMMA ChangedRecord ==
  ASSUME NEW o, NEW r, NEW b, NEW c, NEW x, NEW y, NEW z, NEW e,
         e = [ [ output |-> o, range |-> r, bottom |-> b, bit_count |-> c ]
                 EXCEPT !.range = x, !.bottom = y, !.bit_count = z ]
  PROVE  e = [ output |-> o, range |-> x, bottom |-> y, bit_count |-> z ]
OBVIOUS

(* Put, in numbers.                                                          *)
PutTurns(o, r, b, d, value, p, side, part, k) ==
  Put(Encoder(o, r, b, d), value, p)
    = IF d + k >= Delay
      THEN Emit(Encoder(o, part, b + side, d), k)
      ELSE Encoder(o, Scaled(part, k), Scaled(b + side, k), d + k)

(* See PutTurns.                                                             *)
LEMMA PutEncoder ==
  ASSUME NEW o \in Seq(Octets), NEW r \in 1..255, NEW b \in Nat, NEW d \in 0..(Delay - 1),
         NEW value \in BOOLEAN, NEW p \in 1..255,
         NarrowFacts(r, Side(r, value, p), Part(r, value, p))
  PROVE  PutTurns(o, r, b, d, value, p, Side(r, value, p), Part(r, value, p),
                  Norm(Part(r, value, p)))
<1> DEFINE side == Side(r, value, p)
           part == Part(r, value, p)
           k == Norm(part)
<1>0. side \in Nat /\ part \in 1..255 /\ k \in 0..7
  BY Zenon DEF NarrowFacts
<1> HIDE DEF side, part, k
<1> DEFINE e == Encoder(o, r, b, d)
           split == Split(e.range, p)
           narrowed == IF value
                       THEN [ e EXCEPT !.bottom = @ + split, !.range = @ - split ]
                       ELSE [ e EXCEPT !.range = split ]
<1>1. e.range = r /\ e.bit_count = d - Delay
  BY DEF Encoder
<1>2. narrowed = Encoder(o, part, b + side, d)
  <2>1. CASE value
    <3>1. side = split /\ part = r - split
      BY <1>1, <2>1 DEF side, part, Side, Part
    <3> QED BY <2>1, <3>1 DEF Encoder
  <2>2. CASE ~ value
    <3>1. side = 0 /\ part = split /\ b + 0 = b
      BY <1>0, <1>1, <2>2 DEF side, part, Side, Part
    <3> QED BY <2>2, <3>1 DEF Encoder
  <2> QED BY <2>1, <2>2
<1>3. narrowed.range = part /\ narrowed.bottom = b + side /\ narrowed.bit_count = d - Delay
  BY <1>2 DEF Encoder
<1>4. Delay \in 8..24 /\ d \in Nat /\ k \in Nat
  BY <1>0, CoderAssumption
<1>5. Put(e, value, p) =
        IF e.bit_count + k >= 0
        THEN Emit(narrowed, k)
        ELSE [ narrowed EXCEPT !.range = @ * 2^k, !.bottom = @ * 2^k, !.bit_count = @ + k ]
  <2>1. Norm(narrowed.range) = k
    BY <1>3, Zenon DEF k
  <2> DEFINE m == Norm(narrowed.range)
  <2>2. Put(e, value, p) =
          IF e.bit_count + m >= 0
          THEN Emit(narrowed, m)
          ELSE [ narrowed EXCEPT !.range = @ * 2^m, !.bottom = @ * 2^m, !.bit_count = @ + m ]
    BY Zenon DEF Put
  <2> HIDE DEF e, narrowed, split
  <2> QED BY <2>1, <2>2
<1>6. e.bit_count + k >= 0 <=> d + k >= Delay
  <2>1. (d - Delay) + k >= 0 <=> d + k >= Delay
    BY <1>4
  <2> QED BY <1>1, <2>1, Zenon
<1>7. [ narrowed EXCEPT !.range = @ * 2^k, !.bottom = @ * 2^k, !.bit_count = @ + k ]
        = Encoder(o, Scaled(part, k), Scaled(b + side, k), d + k)
  <2>1. 2^k = Power[k]
    <3>1. k \in 0..32
      BY <1>0
    <3> QED BY <3>1, ShiftIs, Zenon
  <2>2. (d - Delay) + k = (d + k) - Delay
    BY <1>4
  <2>3. narrowed = [ output |-> o, range |-> part, bottom |-> b + side, bit_count |-> d - Delay ]
    BY <1>2, Zenon DEF Encoder
  <2> HIDE DEF narrowed
  <2> DEFINE n == [ output |-> o, range |-> part, bottom |-> b + side, bit_count |-> d - Delay ]
             x == part * 2^k
             y == (b + side) * 2^k
             z == (d - Delay) + k
             q == [ narrowed EXCEPT !.range = x, !.bottom = y, !.bit_count = z ]
  <2>4. q = [ n EXCEPT !.range = x, !.bottom = y, !.bit_count = z ]
    BY <2>3, Zenon
  <2>5. [ narrowed EXCEPT !.range = @ * 2^k, !.bottom = @ * 2^k, !.bit_count = @ + k ] = q
    BY <1>3, Zenon
  <2> HIDE DEF q, x, y, z
  <2>6. q = [ output |-> o, range |-> x, bottom |-> y, bit_count |-> z ]
    BY <2>4, ChangedRecord, Zenon
  <2> QED BY <2>1, <2>2, <2>5, <2>6, Zenon DEF Encoder, Scaled, x, y, z
<1> QED BY <1>2, <1>5, <1>6, <1>7, Zenon DEF PutTurns, side, part, k

(* The encoder after a bit: the part of the interval that the bit selects,    *)
(* doubled until it is wide enough.                                           *)
PutFacts(e, side, part, k, f) ==
  /\ NarrowFacts(e.range, side, part)
  /\ k = Norm(part)
  /\ Sound(f)
  /\ Becomes(part, k, f.range)
  /\ Low(f) = Scaled(Low(e) + side, k)
  /\ Shifts(f) = Shifts(e) + k
  /\ \/ Settled(f.bottom, Held(f))
     \/ /\ f.output = e.output
        /\ side = 0 => ~ Settled(e.bottom, Held(e))

(* Scaling keeps strict order.                                               *)
LEMMA ScaledStrict ==
  ASSUME NEW a \in Nat, NEW b \in Nat, NEW k \in Nat, a < b
  PROVE  Scaled(a, k) < Scaled(b, k)
<1>1. Power[k] \in Nat /\ Power[k] >= 1
  BY PowerPositive
<1>2. a * Power[k] < b * Power[k]
  BY <1>1, TimesBelow, Zenon
<1> QED BY <1>2, Zenon DEF Scaled

(* A bit with which no octet leaves the buffer, ...                          *)
LEMMA PutStays ==
  ASSUME NEW o \in Seq(Octets), NEW r \in 1..255, NEW b \in Nat, NEW d \in 0..(Delay - 1),
         NEW side, NEW part, NEW k, k = Norm(part),
         NarrowFacts(r, side, part), NarrowedFacts(o, r, b, d, side, part),
         d + k < Delay
  PROVE  PutFacts(Encoder(o, r, b, d), side, part, k,
                  Encoder(o, Scaled(part, k), Scaled(b + side, k), d + k))
<1> DEFINE e == Encoder(o, r, b, d)
           q == Scaled(part, k)
           v == Scaled(b + side, k)
           f == Encoder(o, q, v, d + k)
<1>1. /\ k \in 0..7 /\ part \in 1..255 /\ q \in 128..255 /\ side \in Nat
      /\ b + side \in Nat
  BY Zenon DEF NarrowFacts, NarrowedFacts
<1>2. Delay \in 8..24
  BY CoderAssumption
<1>3. d \in Nat /\ k \in Nat /\ d + k \in 0..(Delay - 1) /\ d + 8 \in Nat
  BY <1>1, <1>2, SMTT(60)
<1>4. v \in Nat
  BY <1>1, <1>3, ScaledNat, Zenon
<1>5. Becomes(part, k, q) /\ Becomes(b + side, k, v)
  BY Zenon DEF Becomes
<1>6. q \in 1..255
  BY <1>1
<1>7. e.output = o /\ e.range = r /\ e.bottom = b /\ f.output = o /\ f.range = q /\ f.bottom = v
  BY DEF Encoder
<1>8. Held(e) = d /\ Held(f) = d + k
  <2>1. EncoderFacts(o, r, b, d, e)
    BY EncoderIs, Zenon
  <2> HIDE DEF q, v
  <2>2. EncoderFacts(o, q, v, d + k, f)
    BY <1>3, <1>4, <1>6, EncoderIs, Zenon
  <2> QED BY <2>1, <2>2, Zenon DEF EncoderFacts
<1> HIDE DEF q, v
<1>9. /\ Fits(Encoder(o, part, b + side, d))
      /\ Low(Encoder(o, part, b + side, d)) = Low(e) + side
      /\ Shifts(Encoder(o, part, b + side, d)) = Shifts(e)
  BY Zenon DEF NarrowedFacts
<1>10. Rescales(f, Encoder(o, part, b + side, d), k)
  BY <1>1, <1>4, <1>5, <1>9, StaysRescales, ZenonT(60)
<1>11. side = 0 /\ Settled(b, d) => Settled(v, d + k)
  <2> SUFFICES ASSUME side = 0, Settled(b, d) PROVE Settled(v, d + k)
    OBVIOUS
  <2>1. v = Scaled(b, k)
    <3>1. b + 0 = b
      OBVIOUS
    <3> QED BY <1>5, <3>1, Zenon DEF Becomes
  <2>2. Power[d + 8] \in Nat /\ b < Power[d + 8]
    BY <1>3, PowerPositive, Zenon DEF Settled
  <2>3. Scaled(b, k) < Scaled(Power[d + 8], k)
    BY <1>3, <2>2, ScaledStrict, Zenon
  <2>4. Power[(d + 8) + k] = Power[d + 8] * Power[k]
    BY <1>3, PowerSum, Zenon
  <2>5. (d + 8) + k = (d + k) + 8
    BY <1>3
  <2> QED BY <2>1, <2>3, <2>4, <2>5, Zenon DEF Settled, Scaled
<1>12. \/ Settled(f.bottom, Held(f))
       \/ f.output = e.output /\ (side = 0 => ~ Settled(e.bottom, Held(e)))
  BY <1>7, <1>8, <1>11, Zenon
<1> HIDE DEF e, f
<1>13. PutFacts(e, side, part, k, f)
  BY <1>5, <1>7, <1>9, <1>10, <1>12, Zenon DEF PutFacts, Rescales
<1> QED BY <1>13, Zenon DEF e, f, q, v

(* ... one with which one does, ...                                          *)
LEMMA PutEmits ==
  ASSUME NEW o \in Seq(Octets), NEW r \in 1..255, NEW b \in Nat, NEW d \in 0..(Delay - 1),
         NEW side, NEW part, NEW k, k = Norm(part),
         NarrowFacts(r, side, part), NarrowedFacts(o, r, b, d, side, part),
         d + k >= Delay
  PROVE  PutFacts(Encoder(o, r, b, d), side, part, k, Emit(Encoder(o, part, b + side, d), k))
<1> DEFINE e == Encoder(o, r, b, d)
           n == b + side
           left == Left(o, n, d)
           q == Scaled(part, k)
           v == Scaled(Rest(n, d), k)
           f == Encoder(left, q, v, (d + k) - 8)
<1>1. /\ k \in 0..7 /\ part \in 1..255 /\ q \in 128..255 /\ side \in Nat
      /\ n \in Nat /\ n < Reach(d) /\ Above(o, d) + n < Top(o, d)
      /\ Fits(Encoder(o, part, n, d))
      /\ Low(Encoder(o, part, n, d)) = Low(e) + side
      /\ Shifts(Encoder(o, part, n, d)) = Shifts(e)
  BY Zenon DEF NarrowFacts, NarrowedFacts
<1>2. Delay \in 8..24
  BY CoderAssumption
<1>3. d \in Nat /\ k \in Nat /\ (d + k) - 8 \in 0..(Delay - 1)
  <2>1. k \in 0..7
    BY <1>1, Zenon
  <2> QED BY <1>2, <2>1, SMTT(60)
<1> HIDE DEF n
<1>4. LeftFacts(o, n, d, left)
  BY <1>1, <1>3, LeftIs, Zenon
<1>5. v \in Nat
  BY <1>3, <1>4, ScaledNat, Zenon DEF LeftFacts
<1>6. Becomes(part, k, q) /\ Becomes(Rest(n, d), k, v)
  BY Zenon DEF Becomes
<1>7. Emit(Encoder(o, part, n, d), k) = f
  BY <1>1, EmitIs, ZenonT(60)
<1>8. e.range = r /\ f.range = q /\ f.bottom = v
  BY DEF Encoder
<1>9. q \in 1..255
  BY <1>1
<1> HIDE DEF left, q, v
<1>10. Held(f) = (d + k) - 8
  <2>1. left \in Seq(Octets)
    BY <1>4, Zenon DEF LeftFacts
  <2>2. EncoderFacts(left, q, v, (d + k) - 8, f)
    BY <1>3, <1>5, <1>9, <2>1, EncoderIs, Zenon
  <2> QED BY <2>2, Zenon DEF EncoderFacts
<1>11. /\ Rescales(f, Encoder(o, part, n, d), k)
       /\ Settled(v, (d + k) - 8)
  BY <1>1, <1>4, <1>5, <1>6, EmitRescales, ZenonT(60)
<1> HIDE DEF e, f
<1>12. PutFacts(e, side, part, k, f)
  BY <1>1, <1>6, <1>8, <1>10, <1>11, Zenon DEF PutFacts, Rescales
<1> QED BY <1>7, <1>12, Zenon DEF e, n

(* ... and any bit: see PutFacts.                                            *)
LEMMA PutIs ==
  ASSUME NEW e, Sound(e), NEW value \in BOOLEAN, NEW p \in 1..255
  PROVE  PutFacts(e, Side(e.range, value, p), Part(e.range, value, p),
                  Norm(Part(e.range, value, p)), Put(e, value, p))
<1>1. e \in Encoders /\ Fits(e) /\ e.range >= 128
  BY Zenon DEF Sound, Fits
<1>2. PICK o \in Seq(Octets), r \in 1..255, b \in Nat, d \in 0..(Delay - 1) :
        e = Encoder(o, r, b, d)
  BY <1>1, IsEncoder, Zenon
<1>3. e.range = r
  BY <1>2 DEF Encoder
<1> DEFINE side == Side(r, value, p)
           part == Part(r, value, p)
           k == Norm(part)
<1>4. NarrowFacts(r, side, part)
  BY <1>1, <1>3, NarrowIs, Zenon
<1>5. side \in Nat /\ part \in 1..255 /\ side + part <= r /\ k \in 0..7
  BY <1>4, Zenon DEF NarrowFacts
<1>6. NarrowedFacts(o, r, b, d, side, part)
  BY <1>1, <1>2, <1>5, NarrowedIs, Zenon
<1>7. PutTurns(o, r, b, d, value, p, side, part, k)
  BY <1>4, PutEncoder, ZenonT(60)
<1>8. k = Norm(part)
  OBVIOUS
<1> HIDE DEF side, part, k
<1>9. CASE d + k >= Delay
  BY <1>2, <1>3, <1>4, <1>6, <1>7, <1>8, <1>9, PutEmits, Zenon DEF PutTurns, side, part, k
<1>10. CASE d + k < Delay
  <2>1. ~ (d + k >= Delay)
    BY <1>5, <1>10, CoderAssumption
  <2> QED BY <1>2, <1>3, <1>4, <1>6, <1>7, <1>8, <1>10, <2>1, PutStays, Zenon DEF PutTurns, side, part, k
<1>11. d + k >= Delay \/ d + k < Delay
  BY <1>5, CoderAssumption
<1> QED BY <1>9, <1>10, <1>11

(***************************************************************************)
(* The 32 bits of flush().                                                 *)
(***************************************************************************)

(* What a sound encoder holds.                                               *)
LEMMA EncoderNumbers ==
  ASSUME NEW e, Sound(e)
  PROVE  /\ Low(e) \in Nat /\ Shifts(e) \in Nat /\ Held(e) \in 0..(Delay - 1)
         /\ e.output \in Seq(Octets) /\ e.bottom \in Nat /\ e.range \in 128..255
         /\ Shifts(e) = 8 * Len(e.output) + Held(e)
<1>1. e \in Encoders /\ e.range >= 128
  BY Zenon DEF Sound, Fits
<1>2. PICK o \in Seq(Octets), r \in 1..255, b \in Nat, d \in 0..(Delay - 1) :
        e = Encoder(o, r, b, d)
  BY <1>1, IsEncoder, Zenon
<1>3. EncoderFacts(o, r, b, d, Encoder(o, r, b, d))
  BY EncoderIs, Zenon
<1>4. Held(e) = d /\ Shifts(e) = 8 * Len(o) + d /\ Low(e) = Above(o, d) + b
  BY <1>2, <1>3, Zenon DEF EncoderFacts
<1>5. e.output = o /\ e.range = r /\ e.bottom = b
  BY <1>2 DEF Encoder
<1>6. d \in Nat
  BY CoderAssumption
<1>7. Above(o, d) \in Nat
  BY <1>6, NumbersAre
<1>8. Above(o, d) + b \in Nat /\ 8 * Len(o) + d \in Nat
  BY <1>6, <1>7
<1>9. r \in 128..255
  BY <1>1, <1>5
<1> QED BY <1>4, <1>5, <1>8, <1>9, Zenon

(* A bit of even odds doubles the range, but for the widest.                 *)
LEMMA EvenBit ==
  ASSUME NEW r \in 128..255
  PROVE  /\ Side(r, FALSE, 128) = 0
         /\ Scaled(Part(r, FALSE, 128), Norm(Part(r, FALSE, 128))) <= 254
         /\ r <= 254 => Norm(Part(r, FALSE, 128)) = 1
<1> DEFINE part == Part(r, FALSE, 128)
           k == Norm(part)
<1>1. Side(r, FALSE, 128) = 0
  BY DEF Side
<1>2. part = 1 + ((r - 1) * 128) \div 256
  BY DEF Part, Split
<1>3. /\ r <= 254 => part \in 64..127
      /\ r = 255 => part = 128
      /\ part \in 1..255
  <2> HIDE DEF part
  <2> QED BY <1>2
<1> HIDE DEF part
<1>4. k \in 0..7 /\ part * Power[k] \in 128..255
  BY <1>3, NormIs, ZenonT(60)
<1> HIDE DEF k
<1>5. \/ k = 0 \/ k = 1 \/ k = 2 \/ k = 3 \/ k = 4 \/ k = 5 \/ k = 6 \/ k = 7
  BY <1>4
<1>6. ASSUME r <= 254 PROVE part * Power[k] <= 254 /\ k = 1
  <2>1. part \in 64..127
    BY <1>3, <1>6
  <2>2. k = 1
    BY <1>4, <1>5, <2>1, PowerSmall
  <2>3. part * Power[k] = part * 2
    BY <2>2, PowerSmall
  <2> QED BY <2>1, <2>2, <2>3
<1>7. ASSUME r = 255 PROVE part * Power[k] <= 254
  <2>1. part = 128
    BY <1>3, <1>7
  <2>2. k = 0
    BY <1>4, <1>5, <2>1, PowerSmall
  <2>3. part * Power[k] = 128
    BY <2>1, <2>2, PowerSmall
  <2> QED BY <2>3
<1>8. r <= 254 \/ r = 255
  OBVIOUS
<1> QED BY <1>1, <1>6, <1>7, <1>8, Zenon DEF Scaled, k, part

(* f is e after i of the bits of flush().                                    *)
Flushed(e, f, i) ==
  /\ f.range <= 254 \/ i = 0
  /\ f.output = e.output \/ Settled(f.bottom, Held(f))
  /\ \E k \in Nat : k >= i - 1 /\ Rescales(f, e, k)

(* flush() begins, ...                                                       *)
LEMMA FlushStarts ==
  ASSUME NEW e, Sound(e)
  PROVE  Flushed(e, e, 0)
<1>1. Low(e) \in Nat /\ Shifts(e) \in Nat
  BY EncoderNumbers, Zenon
<1>2. Scaled(Low(e), 0) = Low(e)
  <2>1. \A x \in Nat : x * 1 = x
    OBVIOUS
  <2>2. Power[0] = 1
    BY PowerIs
  <2> QED BY <1>1, <2>1, <2>2, Zenon DEF Scaled
<1>3. Shifts(e) + 0 = Shifts(e) /\ 0 >= 0 - 1 /\ 0 \in Nat
  BY <1>1
<1> QED BY <1>2, <1>3, Zenon DEF Flushed, Rescales

(* ... shifts by at least one bit with each that it puts, but for the first, *)
(* ...                                                                       *)
LEMMA FlushGoesOn ==
  ASSUME NEW e, Sound(e), NEW f, NEW i \in Nat, Flushed(e, f, i)
  PROVE  Flushed(e, Put(f, FALSE, 128), i + 1)
<1> DEFINE g == Put(f, FALSE, 128)
           side == Side(f.range, FALSE, 128)
           part == Part(f.range, FALSE, 128)
           m == Norm(part)
<1>1. PICK k \in Nat : k >= i - 1 /\ Rescales(f, e, k)
  BY Zenon DEF Flushed
<1>2. Sound(f) /\ Low(f) = Scaled(Low(e), k) /\ Shifts(f) = Shifts(e) + k
  BY <1>1, Zenon DEF Rescales
<1>3. PutFacts(f, side, part, m, g)
  <2>1. FALSE \in BOOLEAN /\ 128 \in 1..255
    OBVIOUS
  <2> QED BY <1>2, <2>1, PutIs, Zenon
<1>4. Low(e) \in Nat /\ Shifts(e) \in Nat /\ Low(f) \in Nat /\ f.range \in 128..255
  BY <1>2, EncoderNumbers, Zenon
<1>5. side = 0 /\ Scaled(part, m) <= 254 /\ (f.range <= 254 => m = 1)
  BY <1>4, EvenBit, Zenon
<1> HIDE DEF g, side, part, m
<1>6. m \in 0..7 /\ Sound(g) /\ g.range = Scaled(part, m)
      /\ Low(g) = Scaled(Low(f) + side, m) /\ Shifts(g) = Shifts(f) + m
      /\ \/ Settled(g.bottom, Held(g))
         \/ g.output = f.output /\ (side = 0 => ~ Settled(f.bottom, Held(f)))
  BY <1>3, Zenon DEF PutFacts, NarrowFacts, Becomes
<1>7. m \in Nat /\ k + m \in Nat
  BY <1>6
<1>8. Low(g) = Scaled(Low(e), k + m)
  <2>1. Low(f) + side = Low(f)
    BY <1>4, <1>5
  <2>2. Scaled(Scaled(Low(e), k), m) = Scaled(Low(e), k + m)
    BY <1>4, <1>7, ScaledTwice
  <2> QED BY <1>2, <1>6, <2>1, <2>2, Zenon
<1>9. Shifts(g) = Shifts(e) + (k + m)
  BY <1>2, <1>4, <1>6, <1>7
<1>10. k + m >= (i + 1) - 1
  <2>1. f.range <= 254 \/ i = 0
    BY Zenon DEF Flushed
  <2>2. CASE f.range <= 254
    <3>1. m = 1
      BY <1>5, <2>2, Zenon
    <3> QED BY <1>1, <3>1
  <2>3. CASE i = 0
    BY <1>7, <2>3
  <2> QED BY <2>1, <2>2, <2>3
<1>11. g.output = e.output \/ Settled(g.bottom, Held(g))
  <2>1. f.output = e.output \/ Settled(f.bottom, Held(f))
    BY Zenon DEF Flushed
  <2> QED BY <1>5, <1>6, <2>1, Zenon
<1>12. g.range <= 254
  BY <1>5, <1>6, Zenon
<1>13. Rescales(g, e, k + m)
  BY <1>6, <1>8, <1>9, Zenon DEF Rescales
<1>14. Flushed(e, g, i + 1)
  BY <1>7, <1>10, <1>11, <1>12, <1>13, Zenon DEF Flushed
<1> QED BY <1>14 DEF g

(* The octets are the lower end of the interval, all of it.                  *)
FinishFacts(e, z) ==
  /\ z \in Seq(Octets)
  /\ \E t \in Nat : 8 * Len(z) = (Shifts(e) + 8) + t /\ Worth(z)[Len(z)] = Scaled(Low(e), t)

(* A number is determined by its multiple and what is below one unit.        *)
LEMMA Quotient ==
  ASSUME NEW m \in Nat, m >= 1, NEW x \in Nat, NEW w \in Nat, NEW b \in Nat, b < m,
         x * m = w * m + b
  PROVE  x = w
<1>1. (w * m + b) \div m = w
  <2>1. b \in 0..(m - 1)
    OBVIOUS
  <2> QED BY <2>1, DividedIs
<1>2. (x * m + 0) \div m = x
  <2>1. 0 \in 0..(m - 1)
    OBVIOUS
  <2> QED BY <2>1, DividedIs
<1>3. x * m + 0 = x * m
  OBVIOUS
<1> QED BY <1>1, <1>2, <1>3, Zenon

(* ... and has pushed out all of the buffer that matters.                    *)
LEMMA FlushedOut ==
  ASSUME NEW e, Sound(e), NEW f, Flushed(e, f, 32)
  PROVE  FinishFacts(e, f.output)
<1>1. PICK k \in Nat : k >= 32 - 1 /\ Rescales(f, e, k)
  BY Zenon DEF Flushed
<1>2. Sound(f) /\ Low(f) = Scaled(Low(e), k) /\ Shifts(f) = Shifts(e) + k
  BY <1>1, Zenon DEF Rescales
<1>3. PICK low \in Nat, s \in Nat, h \in 0..(Delay - 1) :
        low = Low(e) /\ s = Shifts(e) /\ h = Held(e)
  BY EncoderNumbers, Zenon
<1>4. PICK b \in Nat, d \in 0..(Delay - 1) : b = f.bottom /\ d = Held(f)
  BY <1>2, EncoderNumbers, Zenon
<1>5. /\ f.output \in Seq(Octets) /\ e.output \in Seq(Octets)
      /\ Shifts(e) = 8 * Len(e.output) + Held(e)
      /\ Shifts(f) = 8 * Len(f.output) + Held(f)
  BY <1>2, EncoderNumbers, Zenon
<1>6. PICK n \in Nat : n = Len(f.output)
  BY <1>5
<1>7. PICK w \in Nat : w = Worth(f.output)[n]
  BY <1>5, WorthNext, ZenonT(60)
<1>8. Delay \in 8..24
  BY CoderAssumption
<1>9. d \in Nat /\ d <= 23 /\ k >= 31
  BY <1>1, <1>4, <1>8
<1>10. 8 * n + d = s + k
  BY <1>2, <1>3, <1>4, <1>5, <1>6, Zenon
<1>11. Settled(b, d)
  <2>1. ASSUME f.output = e.output PROVE FALSE
    <3>1. s = 8 * n + h
      BY <1>3, <1>5, <1>6, <2>1, Zenon
    <3>2. 8 * n + d = (8 * n + h) + k
      BY <1>10, <3>1, Zenon
    <3>3. h \in Nat
      BY <1>8
    <3> QED BY <1>9, <3>2, <3>3
  <2>2. f.output = e.output \/ Settled(f.bottom, Held(f))
    BY Zenon DEF Flushed
  <2> QED BY <1>4, <2>1, <2>2, Zenon
<1> DEFINE t == k - (d + 8)
<1>12. t \in Nat /\ t + (d + 8) = k /\ d + 8 \in Nat
  BY <1>9
<1> HIDE DEF t
<1>13. PICK m \in Nat : m = Power[d + 8] /\ m >= 1
  BY <1>12, PowerPositive, Zenon
<1>14. PICK x \in Nat : x = Scaled(low, t)
  BY <1>12, ScaledNat, Zenon
<1>15. x * m = w * m + b
  <2>1. Low(f) = w * m + b
    BY <1>4, <1>6, <1>7, <1>13, Zenon DEF Low
  <2>2. Scaled(low, t + (d + 8)) = Scaled(Scaled(low, t), d + 8)
    BY <1>12, ScaledTwice
  <2>3. Scaled(x, d + 8) = x * m
    BY <1>13, Zenon DEF Scaled
  <2> QED BY <1>2, <1>3, <1>12, <1>14, <2>1, <2>2, <2>3, Zenon
<1>16. b < m
  BY <1>11, <1>13, Zenon DEF Settled
<1>17. x = w
  BY <1>13, <1>15, <1>16, Quotient, Zenon
<1>18. 8 * n = (s + 8) + t
  BY <1>9, <1>10, <1>12
<1> QED BY <1>3, <1>5, <1>6, <1>7, <1>12, <1>14, <1>17, <1>18, Zenon DEF FinishFacts

(* Encoders between two bits.                                                *)
SoundEncoders == { e \in Encoders : Sound(e) }

(* A sound encoder is an encoder.                                            *)
LEMMA SoundIs ==
  ASSUME NEW e
  PROVE  e \in SoundEncoders <=> Sound(e)
BY Zenon DEF SoundEncoders, Sound, Fits

(* Whatever bit is put, the encoder stays sound.                             *)
LEMMA PutSound ==
  ASSUME NEW e \in SoundEncoders, NEW value \in BOOLEAN, NEW p \in 1..255
  PROVE  Put(e, value, p) \in SoundEncoders
BY SoundIs, PutIs, Zenon DEF PutFacts

(* The finished partition is the low end of the interval, with zeros after   *)
(* it.                                                                       *)
LEMMA FinishIs ==
  ASSUME NEW e, Sound(e)
  PROVE  FinishFacts(e, Finish(e))
<1> DEFINE F == [ q \in Nat \X SoundEncoders |-> Put(q[2], FALSE, 128) ]
           From(f) == [ i \in 0..32 |-> IF i = 0 THEN e ELSE Put(f[i - 1], FALSE, 128) ]
           flushed == CHOOSE f : f = From(f)
<1>1. Finish(e) = flushed[32].output
  BY DEF Finish
<1>2. e \in SoundEncoders
  BY SoundIs, Zenon
<1>3. F \in [ Nat \X SoundEncoders -> SoundEncoders ]
  <2>1. FALSE \in BOOLEAN /\ 128 \in 1..255
    OBVIOUS
  <2>2. \A q \in Nat \X SoundEncoders : q[2] \in SoundEncoders
    OBVIOUS
  <2>3. \A q \in Nat \X SoundEncoders : Put(q[2], FALSE, 128) \in SoundEncoders
    BY <2>1, <2>2, PutSound, Zenon
  <2> QED BY <2>3
<1>4. \A n \in Nat, x \in SoundEncoders : F[<< n, x >>] = Put(x, FALSE, 128)
  OBVIOUS
<1> HIDE DEF F
<1>5. PICK g \in [ Nat -> SoundEncoders ] : Iterates(g, e, F)
  BY <1>2, <1>3, Recursion, Zenon
<1>6. g[0] = e /\ \A i \in Nat : g[i + 1] = Put(g[i], FALSE, 128)
  BY <1>4, <1>5, ZenonT(60) DEF Iterates
<1>7. ASSUME NEW i \in 0..32, i # 0 PROVE g[i] = Put(g[i - 1], FALSE, 128)
  <2>1. i - 1 \in Nat /\ (i - 1) + 1 = i
    BY <1>7
  <2> QED BY <1>6, <2>1
<1> DEFINE h == [ i \in 0..32 |-> g[i] ]
<1>8. h = From(h)
  <2>1. ASSUME NEW i \in 0..32 PROVE h[i] = IF i = 0 THEN e ELSE Put(h[i - 1], FALSE, 128)
    <3>1. CASE i = 0
      BY <1>6, <3>1
    <3>2. CASE i # 0
      <4>1. i - 1 \in 0..32
        BY <3>2
      <4>2. h[i] = g[i] /\ h[i - 1] = g[i - 1]
        BY <4>1
      <4> QED BY <1>7, <3>2, <4>2, Zenon
    <3> QED BY <3>1, <3>2
  <2> QED BY <2>1, Zenon
<1>9. flushed = From(flushed)
  BY <1>8, Zenon
<1> HIDE DEF flushed, h
<1>10. \A i \in 0..32 : flushed[i] = IF i = 0 THEN e ELSE Put(flushed[i - 1], FALSE, 128)
  BY <1>9, Zenon
<1> DEFINE T == { i \in Nat : i <= 32 => Flushed(e, flushed[i], i) }
<1>11. 0 \in T
  BY <1>10, FlushStarts
<1>12. ASSUME NEW i \in Nat, i \in T PROVE i + 1 \in T
  <2> SUFFICES ASSUME i + 1 <= 32 PROVE Flushed(e, flushed[i + 1], i + 1)
    OBVIOUS
  <2>1. i + 1 \in 0..32 /\ i + 1 # 0 /\ (i + 1) - 1 = i /\ i <= 32
    OBVIOUS
  <2>2. flushed[i + 1] = Put(flushed[i], FALSE, 128)
    BY <1>10, <2>1
  <2>3. Flushed(e, flushed[i], i)
    BY <1>12, <2>1
  <2>4. Flushed(e, Put(flushed[i], FALSE, 128), i + 1)
    BY <2>3, FlushGoesOn, Zenon
  <2> QED BY <2>2, <2>4
<1> HIDE DEF T
<1>13. 32 \in T
  BY <1>11, <1>12, AllOf
<1>14. Flushed(e, flushed[32], 32)
  BY <1>13 DEF T
<1> QED BY <1>1, <1>14, FlushedOut, Zenon

(***************************************************************************)
(* Where the finished partition lies.                                      *)
(***************************************************************************)

(* Order and products.                                                       *)
LEMMA TimesOrder ==
  ASSUME NEW a \in Nat, NEW b \in Nat, NEW m \in Nat, m >= 1
  PROVE  a <= b <=> a * m <= b * m
<1>1. a <= b => a * m <= b * m
  BY TimesMonotone
<1>2. b < a => b * m < a * m
  BY TimesBelow
<1>3. a * m \in Nat /\ b * m \in Nat
  OBVIOUS
<1> QED BY <1>1, <1>2, <1>3

(* Comparing with a number rounded down, where the other has no bits below.  *)
LEMMA FloorOrder ==
  ASSUME NEW y \in Nat, NEW w \in Nat, NEW m \in Nat, NEW v \in Nat,
         w * m <= v, v < (w + 1) * m
  PROVE  y <= w <=> y * m <= v
<1>1. y * m \in Nat /\ w * m \in Nat /\ (w + 1) * m \in Nat
  OBVIOUS
<1>2. y <= w => y * m <= w * m
  BY TimesMonotone
<1>3. w + 1 <= y => (w + 1) * m <= y * m
  <2>1. w + 1 \in Nat
    OBVIOUS
  <2> QED BY <2>1, TimesMonotone
<1> QED BY <1>1, <1>2, <1>3

(* Sixteen bits of look-ahead are enough to compare the whole partition with  *)
(* a bound that has no bits below them.                                       *)
LEMMA Looks ==
  ASSUME NEW z \in Seq(Octets), NEW s \in Nat, NEW x \in Nat, NEW t \in Nat,
         8 * Len(z) = (s + 8) + t
  PROVE  Scaled(x, t) <= Worth(z)[Len(z)]
           <=> 256 * x <= Scaled(Worth(z)[2 + s \div 8], s % 8)
<1> DEFINE c == 2 + s \div 8
           b == s % 8
<1>1. c \in Nat /\ b \in 0..7 /\ 8 * c + b = s + 16
  OBVIOUS
<1> HIDE DEF c, b
<1>2. b \in Nat /\ 8 - b \in Nat /\ 8 = (8 - b) + b
  BY <1>1
<1>3. PICK n \in Nat : n = Len(z)
  OBVIOUS
<1>4. 8 * n \in Nat /\ 8 * c \in Nat /\ t + 8 * c = (8 - b) + 8 * n
  BY <1>1, <1>3
<1>5. PICK v \in Nat, w \in Nat : v = Worth(z)[n] /\ w = Worth(z)[c]
  BY <1>1, WorthNext, ZenonT(60)
<1>6. PICK all \in Nat : all = Worth(z)[n + c]
  <2>1. n + c \in Nat
    BY <1>1
  <2> QED BY <2>1, WorthNext, ZenonT(60)
<1>7. PICK pc \in Nat : pc = Power[8 * c] /\ pc >= 1
  BY <1>4, PowerPositive, Zenon
<1>8. PICK pn \in Nat : pn = Power[8 * n] /\ pn >= 1
  BY <1>4, PowerPositive, Zenon
<1>9. PICK pt \in Nat : pt = Power[t] /\ pt >= 1
  BY PowerPositive, Zenon
<1>10. PICK pb \in Nat : pb = Power[b] /\ pb >= 1
  BY <1>2, PowerPositive, Zenon
<1>11. PICK pr \in Nat : pr = Power[8 - b] /\ pr >= 1
  BY <1>2, PowerPositive, Zenon
<1>12. all = v * pc
  BY <1>1, <1>3, <1>5, <1>6, <1>7, WorthPadded, Zenon
<1>13. w * pn <= all /\ all < (w + 1) * pn
  <2>1. n + c = c + n
    BY <1>1
  <2>2. Worth(z)[c] * Power[8 * n] <= Worth(z)[c + n]
        /\ Worth(z)[c + n] < (Worth(z)[c] + 1) * Power[8 * n]
    BY <1>1, WorthGrows
  <2> QED BY <1>5, <1>6, <1>8, <2>1, <2>2, Zenon
<1>14. pt * pc = pr * pn
  <2>1. Power[t + 8 * c] = pt * pc
    BY <1>4, <1>7, <1>9, PowerSum, Zenon
  <2>2. Power[(8 - b) + 8 * n] = pr * pn
    BY <1>2, <1>4, <1>8, <1>11, PowerSum, Zenon
  <2> QED BY <1>4, <2>1, <2>2, Zenon
<1>15. pr * pb = 256
  <2>1. Power[(8 - b) + b] = pr * pb
    BY <1>2, <1>10, <1>11, PowerSum, Zenon
  <2>2. Power[8] = 256
    BY PowerSmall
  <2> QED BY <1>2, <2>1, <2>2, Zenon
<1>16. x * pt <= v <=> (x * pt) * pc <= v * pc
  <2>1. x * pt \in Nat
    OBVIOUS
  <2>2. pc >= 1
    BY <1>7, Zenon
  <2>3. \A a \in Nat, c0 \in Nat : c0 >= 1 => (a <= v <=> a * c0 <= v * c0)
    BY TimesOrder
  <2> QED BY <2>1, <2>2, <2>3, Zenon
<1>17. (x * pt) * pc = (x * pr) * pn
  <2>1. (x * pt) * pc = x * (pt * pc) /\ (x * pr) * pn = x * (pr * pn)
    OBVIOUS
  <2> QED BY <1>14, <2>1, Zenon
<1>18. x * pr <= w <=> (x * pr) * pn <= all
  <2>1. x * pr \in Nat
    OBVIOUS
  <2> QED BY <1>13, <2>1, FloorOrder, Zenon
<1>19. x * pr <= w <=> (x * pr) * pb <= w * pb
  <2>1. x * pr \in Nat
    OBVIOUS
  <2> QED BY <1>10, <2>1, TimesOrder, Zenon
<1>20. (x * pr) * pb = 256 * x
  <2>1. (x * pr) * pb = x * (pr * pb) /\ x * 256 = 256 * x
    OBVIOUS
  <2> QED BY <1>15, <2>1, Zenon
<1>21. x * pt <= v <=> 256 * x <= w * pb
  BY <1>12, <1>16, <1>17, <1>18, <1>19, <1>20, Zenon
<1> QED BY <1>3, <1>5, <1>9, <1>10, <1>21, Zenon DEF Scaled, c, b

(* Bits of the partition below the scale of an encoder.                      *)
Below(e, z) == 8 * Len(z) - (Shifts(e) + 8)

(* The partition lies in the interval that the encoder had come to.          *)
Placed(e, z) ==
  /\ Below(e, z) \in Nat
  /\ Scaled(Low(e), Below(e, z)) <= Worth(z)[Len(z)]
  /\ Worth(z)[Len(z)] < Scaled(Low(e) + e.range, Below(e, z))

(* A partition lies in the interval of the encoder that finished it.         *)
LEMMA FinishPlaced ==
  ASSUME NEW e, Sound(e), NEW z, FinishFacts(e, z)
  PROVE  Placed(e, z)
<1>1. PICK t \in Nat : 8 * Len(z) = (Shifts(e) + 8) + t /\ Worth(z)[Len(z)] = Scaled(Low(e), t)
  BY Zenon DEF FinishFacts
<1>2. PICK s \in Nat, low \in Nat, r \in 128..255 : s = Shifts(e) /\ low = Low(e) /\ r = e.range
  BY EncoderNumbers, Zenon
<1>3. Below(e, z) = t
  <2>1. ((s + 8) + t) - (s + 8) = t
    OBVIOUS
  <2> QED BY <1>1, <1>2, <2>1, Zenon DEF Below
<1>4. low + r \in Nat /\ low < low + r
  OBVIOUS
<1>5. Scaled(low, t) < Scaled(low + r, t)
  BY <1>4, ScaledStrict, Zenon
<1>6. PICK x \in Nat : x = Scaled(low, t)
  BY ScaledNat, Zenon
<1>7. x <= x
  OBVIOUS
<1> QED BY <1>1, <1>2, <1>3, <1>5, <1>6, <1>7, Zenon DEF Placed

(* The bit that a partition in one half of the interval spells.              *)
PutChoice(e, value, p, z) ==
  value <=> Scaled(Low(e) + Split(e.range, p), Below(e, z)) <= Worth(z)[Len(z)]

(* A partition in the interval after a bit lies in the half it selected.     *)
LEMMA PutPlaced ==
  ASSUME NEW e, Sound(e), NEW value \in BOOLEAN, NEW p \in 1..255, NEW z \in Seq(Octets),
         Placed(Put(e, value, p), z)
  PROVE  Placed(e, z) /\ PutChoice(e, value, p, z)
<1> DEFINE f == Put(e, value, p)
           side == Side(e.range, value, p)
           part == Part(e.range, value, p)
           k == Norm(part)
<1>1. PutFacts(e, side, part, k, f)
  BY PutIs, Zenon
<1>2. PICK r \in 128..255, low \in Nat, s \in Nat : r = e.range /\ low = Low(e) /\ s = Shifts(e)
  BY EncoderNumbers, Zenon
<1>3. Split(r, p) \in 1..(r - 1)
  <2>1. r \in 1..255 /\ r >= 2
    OBVIOUS
  <2> QED BY <2>1, SplitIs, Zenon
<1>4. /\ value => side = Split(r, p) /\ side + part = r
      /\ ~ value => side = 0 /\ side + part = Split(r, p)
  <2>1. ASSUME value PROVE side = Split(r, p) /\ part = r - Split(r, p)
    BY <1>2, <2>1 DEF Side, Part
  <2>2. ASSUME ~ value PROVE side = 0 /\ part = Split(r, p)
    BY <1>2, <2>2 DEF Side, Part
  <2> HIDE DEF side, part
  <2> QED BY <1>3, <2>1, <2>2
<1> HIDE DEF f, side, part, k
<1>5. /\ side \in Nat /\ part \in 1..255 /\ side + part <= r /\ k \in 0..7
      /\ Sound(f) /\ Low(f) = Scaled(low + side, k) /\ Shifts(f) = s + k
      /\ f.range = Scaled(part, k)
  BY <1>1, <1>2, Zenon DEF PutFacts, NarrowFacts, Becomes
<1>6. PICK t \in Nat : t = Below(f, z)
  BY Zenon DEF Placed, f
<1>7. k \in Nat /\ part \in Nat /\ low + side \in Nat /\ (low + side) + part \in Nat
      /\ low <= low + side /\ (low + side) + part <= low + r /\ low + r \in Nat
      /\ k + t \in Nat
  BY <1>5
<1>8. Below(e, z) = k + t
  <2>1. 8 * Len(z) \in Nat
    OBVIOUS
  <2>2. t = 8 * Len(z) - ((s + k) + 8)
    BY <1>5, <1>6, Zenon DEF Below
  <2>3. 8 * Len(z) - (s + 8) = k + t
    BY <1>7, <2>1, <2>2
  <2> QED BY <1>2, <2>3, Zenon DEF Below
<1>9. Scaled(Low(f), t) = Scaled(low + side, k + t)
  BY <1>5, <1>7, ScaledTwice
<1>10. Scaled(Low(f) + f.range, t) = Scaled((low + side) + part, k + t)
  <2>1. \A a \in Nat, b \in Nat : Scaled(a + b, k) = Scaled(a, k) + Scaled(b, k)
    <3>1. k \in Nat
      BY <1>7, Zenon
    <3> QED BY <3>1, ScaledSum
  <2>2. \A a \in Nat : Scaled(Scaled(a, k), t) = Scaled(a, k + t)
    <3>1. k \in Nat
      BY <1>7, Zenon
    <3> QED BY <3>1, ScaledTwice
  <2>3. Scaled((low + side) + part, k) = Scaled(low + side, k) + Scaled(part, k)
    BY <1>7, <2>1, Zenon
  <2>4. Scaled(Scaled((low + side) + part, k), t) = Scaled((low + side) + part, k + t)
    BY <1>7, <2>2, Zenon
  <2> QED BY <1>5, <2>3, <2>4, Zenon
<1>11. PICK v \in Nat : v = Worth(z)[Len(z)]
  <2>1. Len(z) \in Nat
    OBVIOUS
  <2> QED BY <2>1, WorthNext, ZenonT(60)
<1>12. Scaled(low + side, k + t) <= v /\ v < Scaled((low + side) + part, k + t)
  <2>1. Placed(f, z)
    BY Zenon DEF f
  <2> QED BY <1>6, <1>9, <1>10, <1>11, <2>1, Zenon DEF Placed
<1>13. /\ Scaled(low, k + t) <= Scaled(low + side, k + t)
       /\ Scaled((low + side) + part, k + t) <= Scaled(low + r, k + t)
  BY <1>7, ScaledOrder, Zenon
<1>14. PICK l0 \in Nat, l1 \in Nat, l2 \in Nat, l3 \in Nat :
         /\ l0 = Scaled(low, k + t) /\ l1 = Scaled(low + side, k + t)
         /\ l2 = Scaled((low + side) + part, k + t) /\ l3 = Scaled(low + r, k + t)
  BY <1>7, ScaledNat, Zenon
<1>15. l0 <= v /\ v < l3 /\ l1 <= v /\ ~ (l2 <= v)
  <2>1. l0 <= l1 /\ l1 <= v /\ v < l2 /\ l2 <= l3
    BY <1>12, <1>13, <1>14, Zenon
  <2> QED BY <2>1
<1>16. Placed(e, z)
  BY <1>2, <1>7, <1>8, <1>11, <1>14, <1>15, Zenon DEF Placed
<1>17. PutChoice(e, value, p, z)
  <2>1. CASE value
    <3>1. l1 = Scaled(Low(e) + Split(e.range, p), Below(e, z))
      BY <1>2, <1>4, <1>8, <1>14, <2>1, Zenon
    <3> QED BY <1>11, <1>15, <2>1, <3>1, Zenon DEF PutChoice
  <2>2. CASE ~ value
    <3>1. (low + side) + part = low + Split(r, p)
      <4>1. (low + side) + part = low + (side + part)
        BY <1>5
      <4> QED BY <1>4, <2>2, <4>1, Zenon
    <3>2. l2 = Scaled(Low(e) + Split(e.range, p), Below(e, z))
      BY <1>2, <1>8, <1>14, <3>1, Zenon
    <3> QED BY <1>11, <1>15, <2>2, <3>2, Zenon DEF PutChoice
  <2> QED BY <2>1, <2>2
<1> QED BY <1>16, <1>17

(***************************************************************************)
(* The decoder: load_octet(), and the loop that doubles range and value.   *)
(***************************************************************************)

(* A decoder by its fields.                                                  *)
Decoding(ch, r, v, b, ok, comp) ==
  [ chunk |-> ch, range |-> r, value |-> v, bit_count |-> b, valid |-> ok,
    complete_chunk |-> comp ]

(* What load_octet() takes from a chunk, leaves of it, and remembers.        *)
Loaded(ch) == IF ch # << >> THEN Tail(ch) ELSE ch
First(ch) == IF ch # << >> THEN Head(ch) ELSE 0
StillValid(ch, ok, comp) == IF ch # << >> THEN ok ELSE ok /\ comp

(* Named, so that the provers do not replace d by what it is equal to.       *)
IsDecoding(d, ch, r, v, b, ok, comp) == d = Decoding(ch, r, v, b, ok, comp)

(* One step of the decoder changes one field or two: its range, ...          *)
LEMMA RangeChanged ==
  ASSUME NEW d, NEW ch, NEW r, NEW v, NEW b, NEW ok, NEW comp,
         IsDecoding(d, ch, r, v, b, ok, comp), NEW x
  PROVE  IsDecoding([ d EXCEPT !.range = x ], ch, x, v, b, ok, comp)
<1> DEFINE w == [ d EXCEPT !.range = x ]
<1>1. w = [ [ chunk |-> ch, range |-> r, value |-> v, bit_count |-> b, valid |-> ok,
              complete_chunk |-> comp ] EXCEPT !.range = x ]
  BY Zenon DEF IsDecoding, Decoding
<1> HIDE DEF w
<1>2. w = [ chunk |-> ch, range |-> x, value |-> v, bit_count |-> b, valid |-> ok,
            complete_chunk |-> comp ]
  BY <1>1
<1> QED BY <1>2, Zenon DEF IsDecoding, Decoding, w

(* ... its value, ...                                                        *)
LEMMA ValueChanged ==
  ASSUME NEW d, NEW ch, NEW r, NEW v, NEW b, NEW ok, NEW comp,
         IsDecoding(d, ch, r, v, b, ok, comp), NEW x
  PROVE  IsDecoding([ d EXCEPT !.value = x ], ch, r, x, b, ok, comp)
<1> DEFINE w == [ d EXCEPT !.value = x ]
<1>1. w = [ [ chunk |-> ch, range |-> r, value |-> v, bit_count |-> b, valid |-> ok,
              complete_chunk |-> comp ] EXCEPT !.value = x ]
  BY Zenon DEF IsDecoding, Decoding
<1> HIDE DEF w
<1>2. w = [ chunk |-> ch, range |-> r, value |-> x, bit_count |-> b, valid |-> ok,
            complete_chunk |-> comp ]
  BY <1>1
<1> QED BY <1>2, Zenon DEF IsDecoding, Decoding, w

(* ... whether it is valid, ...                                              *)
LEMMA ValidChanged ==
  ASSUME NEW d, NEW ch, NEW r, NEW v, NEW b, NEW ok, NEW comp,
         IsDecoding(d, ch, r, v, b, ok, comp), NEW x
  PROVE  IsDecoding([ d EXCEPT !.valid = x ], ch, r, v, b, x, comp)
<1> DEFINE w == [ d EXCEPT !.valid = x ]
<1>1. w = [ [ chunk |-> ch, range |-> r, value |-> v, bit_count |-> b, valid |-> ok,
              complete_chunk |-> comp ] EXCEPT !.valid = x ]
  BY Zenon DEF IsDecoding, Decoding
<1> HIDE DEF w
<1>2. w = [ chunk |-> ch, range |-> r, value |-> v, bit_count |-> b, valid |-> x,
            complete_chunk |-> comp ]
  BY <1>1
<1> QED BY <1>2, Zenon DEF IsDecoding, Decoding, w

(* ... its value and the bits it has shifted, ...                            *)
LEMMA CountChanged ==
  ASSUME NEW d, NEW ch, NEW r, NEW v, NEW b, NEW ok, NEW comp,
         IsDecoding(d, ch, r, v, b, ok, comp), NEW x, NEW y
  PROVE  IsDecoding([ d EXCEPT !.value = x, !.bit_count = y ], ch, r, x, y, ok, comp)
<1> DEFINE w == [ d EXCEPT !.value = x, !.bit_count = y ]
<1>1. w = [ [ chunk |-> ch, range |-> r, value |-> v, bit_count |-> b, valid |-> ok,
              complete_chunk |-> comp ] EXCEPT !.value = x, !.bit_count = y ]
  BY Zenon DEF IsDecoding, Decoding
<1> HIDE DEF w
<1>2. w = [ chunk |-> ch, range |-> r, value |-> x, bit_count |-> y, valid |-> ok,
            complete_chunk |-> comp ]
  BY <1>1
<1> QED BY <1>2, Zenon DEF IsDecoding, Decoding, w

(* ... its range and value, ...                                              *)
LEMMA PartChanged ==
  ASSUME NEW d, NEW ch, NEW r, NEW v, NEW b, NEW ok, NEW comp,
         IsDecoding(d, ch, r, v, b, ok, comp), NEW x, NEW y
  PROVE  IsDecoding([ d EXCEPT !.range = x, !.value = y ], ch, x, y, b, ok, comp)
<1> DEFINE w == [ d EXCEPT !.range = x, !.value = y ]
<1>1. w = [ [ chunk |-> ch, range |-> r, value |-> v, bit_count |-> b, valid |-> ok,
              complete_chunk |-> comp ] EXCEPT !.range = x, !.value = y ]
  BY Zenon DEF IsDecoding, Decoding
<1> HIDE DEF w
<1>2. w = [ chunk |-> ch, range |-> x, value |-> y, bit_count |-> b, valid |-> ok,
            complete_chunk |-> comp ]
  BY <1>1
<1> QED BY <1>2, Zenon DEF IsDecoding, Decoding, w

(* ... or its value and what is left of the chunk.                           *)
LEMMA ChunkChanged ==
  ASSUME NEW d, NEW ch, NEW r, NEW v, NEW b, NEW ok, NEW comp,
         IsDecoding(d, ch, r, v, b, ok, comp), NEW x, NEW y
  PROVE  IsDecoding([ d EXCEPT !.value = x, !.chunk = y ], y, r, x, b, ok, comp)
<1> DEFINE w == [ d EXCEPT !.value = x, !.chunk = y ]
<1>1. w = [ [ chunk |-> ch, range |-> r, value |-> v, bit_count |-> b, valid |-> ok,
              complete_chunk |-> comp ] EXCEPT !.value = x, !.chunk = y ]
  BY Zenon DEF IsDecoding, Decoding
<1> HIDE DEF w
<1>2. w = [ chunk |-> y, range |-> r, value |-> x, bit_count |-> b, valid |-> ok,
            complete_chunk |-> comp ]
  BY <1>1
<1> QED BY <1>2, Zenon DEF IsDecoding, Decoding, w

(* The fields of a decoder.                                                  *)
HasFields(d, ch, r, v, b, ok, comp) ==
  /\ d.chunk = ch /\ d.range = r /\ d.value = v /\ d.bit_count = b
  /\ d.valid = ok /\ d.complete_chunk = comp

(* See HasFields.                                                            *)
LEMMA DecodingFields ==
  ASSUME NEW d, NEW ch, NEW r, NEW v, NEW b, NEW ok, NEW comp,
         IsDecoding(d, ch, r, v, b, ok, comp)
  PROVE  HasFields(d, ch, r, v, b, ok, comp)
BY DEF IsDecoding, Decoding, HasFields

(* load_octet(), by the fields.                                              *)
LEMMA LoadIs ==
  ASSUME NEW d, NEW ch, NEW r, NEW v \in Int, NEW b, NEW ok, NEW comp,
         IsDecoding(d, ch, r, v, b, ok, comp)
  PROVE  IsDecoding(load_octet(d), Loaded(ch), r, v + First(ch), b,
                    StillValid(ch, ok, comp), comp)
<1> DEFINE full == [ d EXCEPT !.value = @ + Head(d.chunk), !.chunk = Tail(@) ]
           empty == [ d EXCEPT !.valid = @ /\ d.complete_chunk ]
<1>1. d.chunk = ch /\ d.value = v /\ d.valid = ok /\ d.complete_chunk = comp
  BY DecodingFields, Zenon DEF HasFields
<1>2. load_octet(d) = IF d.chunk # << >> THEN full ELSE empty
  BY Zenon DEF load_octet
<1>3. IsDecoding(full, Tail(ch), r, v + Head(ch), b, ok, comp)
  <2>1. full = [ d EXCEPT !.value = v + Head(ch), !.chunk = Tail(ch) ]
    BY <1>1, Zenon
  <2>2. IsDecoding([ d EXCEPT !.value = v + Head(ch), !.chunk = Tail(ch) ],
                   Tail(ch), r, v + Head(ch), b, ok, comp)
    BY ChunkChanged, Zenon
  <2> QED BY <2>1, <2>2, Zenon
<1>4. IsDecoding(empty, ch, r, v, b, ok /\ comp, comp)
  <2>1. empty = [ d EXCEPT !.valid = ok /\ comp ]
    BY <1>1, Zenon
  <2>2. IsDecoding([ d EXCEPT !.valid = ok /\ comp ], ch, r, v, b, ok /\ comp, comp)
    BY ValidChanged, Zenon
  <2> QED BY <2>1, <2>2, Zenon
<1>5. v + 0 = v
  OBVIOUS
<1> HIDE DEF full, empty
<1>6. CASE ch # << >>
  <2>1. load_octet(d) = full
    BY <1>1, <1>2, <1>6, Zenon
  <2>2. Loaded(ch) = Tail(ch) /\ First(ch) = Head(ch) /\ StillValid(ch, ok, comp) = ok
    BY <1>6, Zenon DEF Loaded, First, StillValid
  <2> QED BY <1>3, <2>1, <2>2, Zenon
<1>7. CASE ch = << >>
  <2>1. load_octet(d) = empty
    BY <1>1, <1>2, <1>7, Zenon
  <2>2. /\ Loaded(ch) = ch /\ v + First(ch) = v
        /\ StillValid(ch, ok, comp) = (ok /\ comp)
    BY <1>5, <1>7, Zenon DEF Loaded, First, StillValid
  <2> QED BY <1>4, <2>1, <2>2, Zenon
<1> QED BY <1>6, <1>7, Zenon

(* What is loaded is an octet; of a whole partition, always validly.         *)
LEMMA LoadTyped ==
  ASSUME NEW ch \in Seq(Octets), NEW ok \in BOOLEAN, NEW comp \in BOOLEAN
  PROVE  /\ Loaded(ch) \in Seq(Octets) /\ First(ch) \in 0..255
         /\ StillValid(ch, ok, comp) \in BOOLEAN
         /\ comp /\ ok => StillValid(ch, ok, comp)
         /\ StillValid(ch, ok, comp) => ok
<1>1. CASE ch # << >>
  <2>1. Head(ch) \in Octets /\ Tail(ch) \in Seq(Octets)
    BY <1>1
  <2> QED BY <1>1, <2>1 DEF Loaded, First, StillValid, Octets
<1>2. CASE ch = << >>
  BY <1>2 DEF Loaded, First, StillValid
<1> QED BY <1>1, <1>2

(* s is the partition z, or only the first octets of it.                     *)
PartOf(s, z, comp) ==
  /\ s \in Seq(Octets) /\ z \in Seq(Octets) /\ comp \in BOOLEAN
  /\ comp => s = z
  /\ Len(s) <= Len(z) /\ \A k \in 1..Len(s) : s[k] = z[k]

(* What is left of s after c octets.                                         *)
RestIs(ch, s, c) ==
  /\ ch \in Seq(Octets)
  /\ Len(ch) = (IF c <= Len(s) THEN Len(s) - c ELSE 0)
  /\ \A k \in 1..Len(ch) : ch[k] = s[c + k]

(* load_octet() yields the next octet of the whole partition.                *)
LoadsNext(ch, s, z, c) == RestIs(Loaded(ch), s, c + 1) /\ First(ch) = Digit(z, c + 1)

(* See LoadsNext: as long as the decoder is valid.                           *)
LEMMA LoadFollows ==
  ASSUME NEW s, NEW z, NEW comp, PartOf(s, z, comp), NEW c \in Nat, NEW ch, RestIs(ch, s, c),
         NEW ok, StillValid(ch, ok, comp)
  PROVE  LoadsNext(ch, s, z, c)
<1>1. /\ s \in Seq(Octets) /\ z \in Seq(Octets) /\ ch \in Seq(Octets)
      /\ comp => s = z
      /\ Len(s) <= Len(z) /\ \A k \in 1..Len(s) : s[k] = z[k]
      /\ Len(ch) = (IF c <= Len(s) THEN Len(s) - c ELSE 0)
      /\ \A k \in 1..Len(ch) : ch[k] = s[c + k]
  BY Zenon DEF PartOf, RestIs
<1>2. CASE ch # << >>
  <2>1. Loaded(ch) = Tail(ch) /\ First(ch) = Head(ch)
    BY <1>2 DEF Loaded, First
  <2>2. Len(ch) >= 1
    BY <1>1, <1>2
  <2>3. c < Len(s) /\ Len(ch) = Len(s) - c
    BY <1>1, <2>2
  <2>4. Tail(ch) \in Seq(Octets) /\ Len(Tail(ch)) = Len(ch) - 1
    BY <1>1, <1>2
  <2>5. \A k \in 1..Len(Tail(ch)) : Tail(ch)[k] = ch[k + 1]
    BY <1>1, <1>2
  <2>6. ASSUME NEW k \in 1..Len(Tail(ch)) PROVE Tail(ch)[k] = s[(c + 1) + k]
    <3>1. k + 1 \in 1..Len(ch) /\ c + (k + 1) = (c + 1) + k
      BY <1>1, <2>4
    <3>2. ch[k + 1] = s[c + (k + 1)]
      BY <1>1, <3>1, Zenon
    <3> QED BY <2>5, <3>1, <3>2, Zenon
  <2>7. Head(ch) = ch[1] /\ ch[1] = s[c + 1]
    BY <1>1, <2>2
  <2>8. c + 1 \in 1..Len(s) /\ c + 1 \in 1..Len(z)
    BY <1>1, <2>3
  <2>9. First(ch) = Digit(z, c + 1)
    BY <1>1, <2>1, <2>7, <2>8, Zenon DEF Digit
  <2>10. Len(Tail(ch)) = (IF c + 1 <= Len(s) THEN Len(s) - (c + 1) ELSE 0)
    BY <1>1, <2>3, <2>4
  <2> QED BY <2>1, <2>4, <2>6, <2>9, <2>10, Zenon DEF RestIs, LoadsNext
<1>3. CASE ch = << >>
  <2>1. Loaded(ch) = ch /\ First(ch) = 0 /\ comp
    BY <1>3, Zenon DEF Loaded, First, StillValid
  <2>2. Len(ch) = 0
    BY <1>3
  <2>3. ~ (c < Len(s))
    BY <1>1, <2>2
  <2>4. c + 1 \notin 1..Len(z)
    BY <1>1, <2>1, <2>3
  <2>5. Digit(z, c + 1) = 0
    BY <2>4, Zenon DEF Digit
  <2>6. Len(ch) = (IF c + 1 <= Len(s) THEN Len(s) - (c + 1) ELSE 0)
    BY <1>1, <2>2, <2>3
  <2>7. \A k \in 1..Len(ch) : FALSE
    BY <2>2
  <2> QED BY <1>1, <2>1, <2>5, <2>6, <2>7, Zenon DEF RestIs, LoadsNext
<1> QED BY <1>2, <1>3

(* What Renormalised makes of a decoder, shifting by k.                      *)
Turned(d, ch, q, v, b, ok, comp, k) ==
  /\ b + k < 8 => IsDecoding(d, ch, q, v * Power[k], b + k, ok, comp)
  /\ ~ (b + k < 8) =>
       IsDecoding(d, Loaded(ch), q, (v * Power[8 - b] + First(ch)) * Power[(b + k) - 8],
                  (b + k) - 8, StillValid(ch, ok, comp), comp)

(* A decoder whose range may be any.                                         *)
Decodes(d, ch, r, v, b, ok, comp) ==
  /\ IsDecoding(d, ch, r, v, b, ok, comp)
  /\ ch \in Seq(Octets) /\ r \in 1..255 /\ v \in Int /\ b \in 0..7
  /\ ok \in BOOLEAN /\ comp \in BOOLEAN

(* Renormalised, by the fields.                                              *)
LEMMA RenormalisedIs ==
  ASSUME NEW d, NEW ch, NEW r, NEW v, NEW b, NEW ok, NEW comp,
         Decodes(d, ch, r, v, b, ok, comp)
  PROVE  Turned(Renormalised(d), ch, Scaled(r, Norm(r)), v, b, ok, comp, Norm(r))
<1>0. /\ IsDecoding(d, ch, r, v, b, ok, comp)
      /\ ch \in Seq(Octets) /\ r \in 1..255 /\ v \in Int /\ b \in 0..7
      /\ ok \in BOOLEAN /\ comp \in BOOLEAN
  BY Zenon DEF Decodes
<1> DEFINE k == Norm(r)
           q == Scaled(r, k)
           shift == Norm(d.range)
           before == 8 - d.bit_count
           doubled == [ d EXCEPT !.range = @ * 2^shift ]
           stays == [ doubled EXCEPT !.value = @ * 2^shift, !.bit_count = @ + shift ]
           filled == [ doubled EXCEPT !.value = @ * 2^before ]
           loaded == load_octet(filled)
           turns == [ loaded EXCEPT !.value = @ * 2^(shift - before),
                                    !.bit_count = shift - before ]
<1>1. Renormalised(d) = IF shift < before THEN stays ELSE turns
  BY Zenon DEF Renormalised
<1>2. d.range = r /\ d.bit_count = b /\ d.value = v
  BY <1>0, DecodingFields, Zenon DEF HasFields
<1>3. shift = k /\ before = 8 - b
  BY <1>2, Zenon
<1>4. k \in 0..7
  BY <1>0, NormIs, Zenon
<1> HIDE DEF k, shift, before
<1>5. k \in Nat /\ 8 - b \in Nat /\ k \in 0..32 /\ 8 - b \in 0..32
  BY <1>0, <1>4
<1>6. 2^k = Power[k] /\ 2^(8 - b) = Power[8 - b] /\ Power[8 - b] \in Nat /\ Power[k] \in Nat
  BY <1>5, ShiftIs, PowerPositive, Zenon
<1>7. IsDecoding(doubled, ch, q, v, b, ok, comp)
  <2>1. doubled = [ d EXCEPT !.range = q ]
    BY <1>2, <1>3, <1>6, Zenon DEF Scaled
  <2>2. IsDecoding([ d EXCEPT !.range = q ], ch, q, v, b, ok, comp)
    BY <1>0, RangeChanged, Zenon
  <2> QED BY <2>1, <2>2, Zenon
<1> HIDE DEF doubled, q
<1>8. doubled.value = v /\ doubled.bit_count = b
  BY <1>7, DecodingFields, Zenon DEF HasFields
<1>9. IsDecoding(stays, ch, q, v * Power[k], b + k, ok, comp)
  <2>1. stays = [ doubled EXCEPT !.value = v * Power[k], !.bit_count = b + k ]
    BY <1>3, <1>6, <1>8, Zenon
  <2>2. IsDecoding([ doubled EXCEPT !.value = v * Power[k], !.bit_count = b + k ],
                   ch, q, v * Power[k], b + k, ok, comp)
    BY <1>7, CountChanged, Zenon
  <2> QED BY <2>1, <2>2, Zenon
<1>10. IsDecoding(filled, ch, q, v * Power[8 - b], b, ok, comp)
  <2>1. filled = [ doubled EXCEPT !.value = v * Power[8 - b] ]
    BY <1>3, <1>6, <1>8, Zenon
  <2>2. IsDecoding([ doubled EXCEPT !.value = v * Power[8 - b] ],
                   ch, q, v * Power[8 - b], b, ok, comp)
    BY <1>7, ValueChanged, Zenon
  <2> QED BY <2>1, <2>2, Zenon
<1>11. v * Power[8 - b] \in Int
  BY <1>0, <1>6
<1>12. IsDecoding(loaded, Loaded(ch), q, v * Power[8 - b] + First(ch), b,
                  StillValid(ch, ok, comp), comp)
  BY <1>10, <1>11, LoadIs, Zenon
<1> HIDE DEF stays, loaded
<1>13. loaded.value = v * Power[8 - b] + First(ch)
  <2>1. HasFields(loaded, Loaded(ch), q, v * Power[8 - b] + First(ch), b,
                  StillValid(ch, ok, comp), comp)
    BY <1>12, DecodingFields, Zenon
  <2> QED BY <2>1, Zenon DEF HasFields
<1>14. k < 8 - b <=> b + k < 8
  BY <1>0, <1>5
<1>15. ASSUME ~ (b + k < 8)
       PROVE  IsDecoding(turns, Loaded(ch), q,
                         (v * Power[8 - b] + First(ch)) * Power[(b + k) - 8],
                         (b + k) - 8, StillValid(ch, ok, comp), comp)
  <2>1. k - (8 - b) = (b + k) - 8 /\ (b + k) - 8 \in 0..32
    BY <1>0, <1>4, <1>15
  <2>2. 2^((b + k) - 8) = Power[(b + k) - 8]
    BY <2>1, ShiftIs, Zenon
  <2> DEFINE x == (v * Power[8 - b] + First(ch)) * Power[(b + k) - 8]
             y == (b + k) - 8
  <2>3. turns = [ loaded EXCEPT !.value = x, !.bit_count = y ]
    BY <1>3, <1>13, <2>1, <2>2, Zenon
  <2> HIDE DEF x, y
  <2>4. IsDecoding([ loaded EXCEPT !.value = x, !.bit_count = y ], Loaded(ch), q, x, y,
                   StillValid(ch, ok, comp), comp)
    BY <1>12, CountChanged, Zenon
  <2> QED BY <2>3, <2>4, Zenon DEF x, y
<1> HIDE DEF turns
<1>16. Turned(Renormalised(d), ch, q, v, b, ok, comp, k)
  <2>1. CASE b + k < 8
    BY <1>1, <1>3, <1>9, <1>14, <2>1, Zenon DEF Turned
  <2>2. CASE ~ (b + k < 8)
    BY <1>1, <1>3, <1>14, <1>15, <2>2, Zenon DEF Turned
  <2> QED BY <2>1, <2>2
<1> QED BY <1>16, Zenon DEF q, k

(* Decoders between two bits.                                                *)
DecoderSet ==
  [ chunk : Seq(Octets), range : 128..255, value : Int, bit_count : 0..7,
    valid : BOOLEAN, complete_chunk : BOOLEAN ]

(* A decoder whose range is 128 or more is one of them.                      *)
LEMMA InDecoderSet ==
  ASSUME NEW d, NEW ch, NEW r, NEW v, NEW b, NEW ok, NEW comp,
         Decodes(d, ch, r, v, b, ok, comp), r >= 128
  PROVE  d \in DecoderSet
<1>1. r \in 128..255
  BY DEF Decodes
<1> QED BY <1>1 DEF Decodes, IsDecoding, Decoding, DecoderSet

(* A decoder between two bits, by its fields.                                *)
LEMMA IsDecoder ==
  ASSUME NEW d \in DecoderSet
  PROVE  /\ Decodes(d, d.chunk, d.range, d.value, d.bit_count, d.valid, d.complete_chunk)
         /\ d.range >= 128
<1>1. d = [ chunk |-> d.chunk, range |-> d.range, value |-> d.value,
            bit_count |-> d.bit_count, valid |-> d.valid,
            complete_chunk |-> d.complete_chunk ]
  BY DEF DecoderSet
<1>2. /\ d.chunk \in Seq(Octets) /\ d.range \in 128..255 /\ d.value \in Int
      /\ d.bit_count \in 0..7 /\ d.valid \in BOOLEAN /\ d.complete_chunk \in BOOLEAN
  BY DEF DecoderSet
<1>3. IsDecoding(d, d.chunk, d.range, d.value, d.bit_count, d.valid, d.complete_chunk)
  BY <1>1, Zenon DEF IsDecoding, Decoding
<1>4. d.range \in 1..255 /\ d.range >= 128
  <2>1. \A x \in 128..255 : x \in 1..255 /\ x >= 128
    OBVIOUS
  <2> QED BY <1>2, <2>1, Zenon
<1> QED BY <1>2, <1>3, <1>4, Zenon DEF Decodes

(* The bit that a decoder returns, and itself after it.                      *)
GetFacts(d, ch, r, v, b, ok, comp, p, bit) ==
  /\ bit <=> v >= Split(r, p) * 256
  /\ Bit(d, p) <=> bit
  /\ Turned(Get(d, p), ch, Scaled(Part(r, bit, p), Norm(Part(r, bit, p))),
            v - 256 * Side(r, bit, p), b, ok, comp, Norm(Part(r, bit, p)))

(* See GetFacts.                                                             *)
LEMMA GetIs ==
  ASSUME NEW d, NEW ch, NEW r, NEW v, NEW b, NEW ok, NEW comp,
         Decodes(d, ch, r, v, b, ok, comp), r >= 128, NEW p \in 1..255
  PROVE  \E bit \in BOOLEAN : GetFacts(d, ch, r, v, b, ok, comp, p, bit)
<1>0. /\ IsDecoding(d, ch, r, v, b, ok, comp)
      /\ ch \in Seq(Octets) /\ r \in 1..255 /\ v \in Int /\ b \in 0..7
      /\ ok \in BOOLEAN /\ comp \in BOOLEAN
  BY Zenon DEF Decodes
<1> DEFINE split == Split(d.range, p)
           high == [ d EXCEPT !.range = @ - split, !.value = @ - split * 256 ]
           low == [ d EXCEPT !.range = split ]
<1>1. d.range = r /\ d.value = v
  BY <1>0, DecodingFields, Zenon DEF HasFields
<1>2. split = Split(r, p)
  BY <1>1, Zenon
<1>3. Split(r, p) \in 1..(r - 1)
  <2>1. r \in 1..255 /\ r >= 2
    BY <1>0
  <2> QED BY <2>1, SplitIs, Zenon
<1>4. PICK s \in 1..(r - 1) : s = Split(r, p)
  BY <1>3, Zenon
<1>5. Get(d, p) = Renormalised(IF Bit(d, p) THEN high ELSE low)
  BY Zenon DEF Get
<1>6. Bit(d, p) <=> v >= s * 256
  BY <1>1, <1>4, Zenon DEF Bit
<1>7. IsDecoding(high, ch, r - s, v - s * 256, b, ok, comp)
  <2>1. high = [ d EXCEPT !.range = r - s, !.value = v - s * 256 ]
    BY <1>1, <1>2, <1>4, Zenon
  <2> DEFINE x == r - s
             y == v - s * 256
  <2> HIDE DEF x, y
  <2>2. IsDecoding([ d EXCEPT !.range = x, !.value = y ], ch, x, y, b, ok, comp)
    BY <1>0, PartChanged, Zenon
  <2> QED BY <2>1, <2>2, Zenon DEF x, y
<1>8. IsDecoding(low, ch, s, v, b, ok, comp)
  <2>1. low = [ d EXCEPT !.range = s ]
    BY <1>2, <1>4, Zenon
  <2>2. IsDecoding([ d EXCEPT !.range = s ], ch, s, v, b, ok, comp)
    BY <1>0, RangeChanged, Zenon
  <2> QED BY <2>1, <2>2, Zenon
<1> HIDE DEF high, low, split
<1>9. CASE v >= s * 256
  <2> DEFINE x == r - s
             y == v - s * 256
  <2>1. x \in 1..255 /\ y \in Int
    BY <1>0
  <2> HIDE DEF x, y
  <2>2. Turned(Renormalised(high), ch, Scaled(x, Norm(x)), y, b, ok, comp, Norm(x))
    <3>1. Decodes(high, ch, x, y, b, ok, comp)
      BY <1>0, <1>7, <2>1, Zenon DEF Decodes, x, y
    <3> QED BY <3>1, RenormalisedIs, Zenon
  <2>3. Get(d, p) = Renormalised(high)
    BY <1>5, <1>6, <1>9, Zenon
  <2>4. Part(r, TRUE, p) = r - s /\ Side(r, TRUE, p) = s
    BY <1>4, Zenon DEF Part, Side
  <2>5. v - s * 256 = v - 256 * s
    BY <1>0
  <2>6. TRUE \in BOOLEAN
    OBVIOUS
  <2>7. GetFacts(d, ch, r, v, b, ok, comp, p, TRUE)
    BY <1>4, <1>6, <1>9, <2>2, <2>3, <2>4, <2>5, Zenon DEF GetFacts, x, y
  <2> QED BY <2>6, <2>7, Zenon
<1>10. CASE ~ (v >= s * 256)
  <2>1. s \in 1..255
    BY <1>0
  <2>2. Turned(Renormalised(low), ch, Scaled(s, Norm(s)), v, b, ok, comp, Norm(s))
    <3>1. Decodes(low, ch, s, v, b, ok, comp)
      BY <1>0, <1>8, <2>1, Zenon DEF Decodes
    <3> QED BY <3>1, RenormalisedIs, Zenon
  <2>3. Get(d, p) = Renormalised(low)
    BY <1>5, <1>6, <1>10, Zenon
  <2>4. Part(r, FALSE, p) = s /\ Side(r, FALSE, p) = 0
    BY <1>4, Zenon DEF Part, Side
  <2>5. v = v - 256 * 0
    BY <1>0
  <2>6. FALSE \in BOOLEAN
    OBVIOUS
  <2>7. GetFacts(d, ch, r, v, b, ok, comp, p, FALSE)
    BY <1>4, <1>6, <1>10, <2>2, <2>3, <2>4, <2>5, ZenonT(60) DEF GetFacts
  <2> QED BY <2>6, <2>7, Zenon
<1> QED BY <1>9, <1>10, Zenon

(* Fields that Renormalised starts from.                                     *)
TurnTyped(ch, q, v, b, ok, comp, k) ==
  /\ ch \in Seq(Octets) /\ q \in 128..255 /\ v \in Int /\ b \in 0..7
  /\ ok \in BOOLEAN /\ comp \in BOOLEAN /\ k \in 0..7

(* Renormalised leaves a decoder between two bits.                           *)
LEMMA TurnedTyped ==
  ASSUME NEW d, NEW ch, NEW q, NEW v, NEW b, NEW ok, NEW comp, NEW k,
         TurnTyped(ch, q, v, b, ok, comp, k), Turned(d, ch, q, v, b, ok, comp, k)
  PROVE  d \in DecoderSet
<1>1. /\ ch \in Seq(Octets) /\ q \in 128..255 /\ v \in Int /\ b \in 0..7
      /\ ok \in BOOLEAN /\ comp \in BOOLEAN /\ k \in 0..7
  BY Zenon DEF TurnTyped
<1>2. q \in 1..255 /\ q >= 128
  BY <1>1
<1>3. CASE b + k < 8
  <2> DEFINE x == v * Power[k]
             c == b + k
  <2>1. IsDecoding(d, ch, q, x, c, ok, comp)
    BY <1>3, Zenon DEF Turned
  <2>2. x \in Int /\ c \in 0..7
    <3>1. Power[k] \in Nat
      BY <1>1, PowerPositive
    <3> QED BY <1>1, <1>3, <3>1
  <2> HIDE DEF x, c
  <2>3. Decodes(d, ch, q, x, c, ok, comp)
    BY <1>1, <1>2, <2>1, <2>2, Zenon DEF Decodes
  <2> QED BY <1>2, <2>3, InDecoderSet, Zenon
<1>4. CASE ~ (b + k < 8)
  <2> DEFINE x == (v * Power[8 - b] + First(ch)) * Power[(b + k) - 8]
             c == (b + k) - 8
             still == StillValid(ch, ok, comp)
             rest == Loaded(ch)
  <2>1. IsDecoding(d, rest, q, x, c, still, comp)
    BY <1>4, Zenon DEF Turned
  <2>2. rest \in Seq(Octets) /\ still \in BOOLEAN /\ First(ch) \in 0..255
    BY <1>1, LoadTyped, Zenon
  <2>3. x \in Int /\ c \in 0..7
    <3>1. 8 - b \in Nat /\ (b + k) - 8 \in Nat /\ (b + k) - 8 \in 0..7
      BY <1>1, <1>4
    <3>2. Power[8 - b] \in Nat /\ Power[(b + k) - 8] \in Nat
      BY <3>1, PowerPositive, Zenon
    <3>3. \A i \in 0..255 : i \in Int
      OBVIOUS
    <3>4. First(ch) \in Int
      BY <2>2, <3>3, Zenon
    <3> HIDE DEF rest, still
    <3> QED BY <1>1, <3>1, <3>2, <3>4
  <2> HIDE DEF x, c, rest, still
  <2>4. Decodes(d, rest, q, x, c, still, comp)
    BY <1>1, <1>2, <2>1, <2>2, <2>3, Zenon DEF Decodes
  <2> QED BY <1>2, <2>4, InDecoderSet, Zenon
<1> QED BY <1>3, <1>4

(* Get leaves a decoder between two bits.                                    *)
LEMMA GetTyped ==
  ASSUME NEW d \in DecoderSet, NEW p \in 1..255
  PROVE  Get(d, p) \in DecoderSet
<1>1. PICK ch, r, v, b, ok, comp :
        Decodes(d, ch, r, v, b, ok, comp) /\ r >= 128
  BY IsDecoder, Zenon
<1>2. PICK bit \in BOOLEAN : GetFacts(d, ch, r, v, b, ok, comp, p, bit)
  BY <1>1, GetIs, Zenon
<1> DEFINE side == Side(r, bit, p)
           part == Part(r, bit, p)
           k == Norm(part)
           q == Scaled(part, k)
<1>3. Turned(Get(d, p), ch, q, v - 256 * side, b, ok, comp, k)
  BY <1>2, Zenon DEF GetFacts
<1>4. NarrowFacts(r, side, part)
  <2>1. r \in 1..255
    BY <1>1, Zenon DEF Decodes
  <2> QED BY <1>1, <2>1, NarrowIs, Zenon
<1>5. k \in 0..7 /\ q \in 128..255 /\ side \in Nat
  BY <1>4, Zenon DEF NarrowFacts
<1> HIDE DEF side, part, k, q
<1> DEFINE x == v - 256 * side
<1>6. x \in Int
  <2>1. v \in Int
    BY <1>1, Zenon DEF Decodes
  <2> QED BY <1>5, <2>1
<1>7. Turned(Get(d, p), ch, q, x, b, ok, comp, k)
  BY <1>3
<1> HIDE DEF x
<1>8. TurnTyped(ch, q, x, b, ok, comp, k)
  BY <1>1, <1>5, <1>6, Zenon DEF TurnTyped, Decodes
<1> QED BY <1>7, <1>8, TurnedTyped, Zenon

(***************************************************************************)
(* The decoder keeps up with the encoder.                                  *)
(***************************************************************************)

(* The decoder has followed the encoder: the same range, and for a value what *)
(* the 16 bits of look-ahead are worth above the lower end of the interval.   *)
Follows(ch, r, v, b, e, s, z) ==
  /\ r = e.range /\ b = Shifts(e) % 8
  /\ RestIs(ch, s, 2 + Shifts(e) \div 8)
  /\ v + 256 * Low(e) = Scaled(Worth(z)[2 + Shifts(e) \div 8], b)

(* A decoder that is valid has followed the encoder; of a whole partition    *)
(* every decoder is.                                                         *)
Matches(d, e, s, z, comp) ==
  /\ d \in DecoderSet /\ d.complete_chunk = comp
  /\ comp => d.valid
  /\ d.valid => Follows(d.chunk, d.range, d.value, d.bit_count, e, s, z)

(* The bit that a decoder returns, by the whole of the partition.            *)
GetChoice(r, v, p, e, z) ==
  v >= Split(r, p) * 256
    <=> Scaled(Low(e) + Split(e.range, p), Below(e, z)) <= Worth(z)[Len(z)]

(* See GetChoice: its 16 bits of look-ahead are enough to tell.              *)
LEMMA BitFollows ==
  ASSUME NEW ch, NEW r, NEW v \in Int, NEW b, NEW e, NEW s, NEW z \in Seq(Octets),
         Sound(e), Placed(e, z), Follows(ch, r, v, b, e, s, z), NEW p \in 1..255
  PROVE  GetChoice(r, v, p, e, z)
<1>1. PICK range \in 128..255, low \in Nat, n \in Nat :
        range = e.range /\ low = Low(e) /\ n = Shifts(e)
  BY EncoderNumbers, Zenon
<1>2. PICK split \in 1..(range - 1) : split = Split(range, p)
  <2>1. range \in 1..255 /\ range >= 2
    OBVIOUS
  <2>2. Split(range, p) \in 1..(range - 1)
    BY <2>1, SplitIs, Zenon
  <2> QED BY <2>2, Zenon
<1>3. PICK t \in Nat : t = Below(e, z)
  BY Zenon DEF Placed
<1>4. 8 * Len(z) = (n + 8) + t
  <2>1. t = 8 * Len(z) - (n + 8)
    BY <1>1, <1>3, Zenon DEF Below
  <2>2. 8 * Len(z) \in Nat
    OBVIOUS
  <2> QED BY <2>1, <2>2
<1>5. low + split \in Nat
  OBVIOUS
<1>6. Scaled(low + split, t) <= Worth(z)[Len(z)]
        <=> 256 * (low + split) <= Scaled(Worth(z)[2 + n \div 8], n % 8)
  BY <1>4, <1>5, Looks, Zenon
<1>7. v + 256 * low = Scaled(Worth(z)[2 + n \div 8], n % 8)
  BY <1>1, Zenon DEF Follows
<1>8. v >= split * 256 <=> 256 * (low + split) <= v + 256 * low
  OBVIOUS
<1>9. r = range
  BY <1>1, Zenon DEF Follows
<1> QED BY <1>1, <1>2, <1>3, <1>6, <1>7, <1>8, <1>9, ZenonT(60) DEF GetChoice

(* Values above the low end, after a shift ...                               *)
LEMMA StayNumbers ==
  ASSUME NEW v \in Int, NEW low \in Nat, NEW side \in Nat, NEW p \in Nat
  PROVE  (v - 256 * side) * p + 256 * ((low + side) * p) = (v + 256 * low) * p
<1>1. (v - 256 * side) * p = v * p - 256 * (side * p)
  OBVIOUS
<1>2. (low + side) * p = low * p + side * p
  OBVIOUS
<1>3. (v + 256 * low) * p = v * p + 256 * (low * p)
  OBVIOUS
<1>4. v * p \in Int /\ side * p \in Int /\ low * p \in Int
  OBVIOUS
<1> QED BY <1>1, <1>2, <1>3, <1>4

(* ... and after a shift by which an octet comes in.                         *)
LEMMA TurnNumbers ==
  ASSUME NEW v \in Int, NEW low \in Nat, NEW side \in Nat, NEW p \in Nat, NEW q \in Nat,
         NEW x \in Nat
  PROVE  ((v - 256 * side) * p + x) * q + 256 * ((low + side) * (p * q))
           = ((v + 256 * low) * p + x) * q
<1> DEFINE a == (v - 256 * side) * p
           b == (low + side) * p
           c == (v + 256 * low) * p
           d == (low + side) * (p * q)
<1>1. a + 256 * b = c
  BY StayNumbers
<1>2. d = b * q
  OBVIOUS
<1>3. a \in Int /\ b \in Int /\ c \in Int
  OBVIOUS
<1> HIDE DEF a, b, c, d
<1>4. (a + x) * q + 256 * (b * q) = ((a + 256 * b) + x) * q
  BY <1>3
<1>5. (a + x) * q + 256 * d = (c + x) * q
  BY <1>1, <1>2, <1>4, Zenon
<1> QED BY <1>5 DEF a, b, c, d

(* A value, read up to an octet and a bit of it.                             *)
Reads(v, low, z, c, b) ==
  /\ v \in Int /\ low \in Nat /\ z \in Seq(Octets) /\ c \in Nat /\ b \in Nat
  /\ v + 256 * low = Scaled(Worth(z)[c], b)

(* One turn of the loop that doubles range and value: without an octet ...   *)
LEMMA StaysFollows ==
  ASSUME NEW v, NEW low, NEW z, NEW c, NEW b, Reads(v, low, z, c, b),
         NEW k \in Nat, NEW side \in Nat
  PROVE  Reads((v - 256 * side) * Power[k], Scaled(low + side, k), z, c, b + k)
<1>0. /\ v \in Int /\ low \in Nat /\ z \in Seq(Octets) /\ c \in Nat /\ b \in Nat
      /\ v + 256 * low = Scaled(Worth(z)[c], b)
  BY Zenon DEF Reads
<1>1. PICK w \in Nat : w = Worth(z)[c]
  BY <1>0, WorthNext, ZenonT(60)
<1>2. PICK pb \in Nat, pk \in Nat : pb = Power[b] /\ pk = Power[k]
  BY <1>0, PowerPositive, Zenon
<1>3. v + 256 * low = w * pb
  BY <1>0, <1>1, <1>2, Zenon DEF Scaled
<1>4. (v - 256 * side) * pk + 256 * ((low + side) * pk) = (v + 256 * low) * pk
  BY <1>0, StayNumbers
<1>5. Power[b + k] = pb * pk
  BY <1>0, <1>2, PowerSum, Zenon
<1>6. w * (pb * pk) = (w * pb) * pk
  OBVIOUS
<1>7. Scaled(Worth(z)[c], b + k) = (w * pb) * pk
  BY <1>1, <1>5, <1>6, Zenon DEF Scaled
<1>8. (v + 256 * low) * pk = (w * pb) * pk
  BY <1>3, Zenon
<1>9. (v - 256 * side) * Power[k] + 256 * Scaled(low + side, k) = Scaled(Worth(z)[c], b + k)
  BY <1>2, <1>4, <1>7, <1>8, Zenon DEF Scaled
<1>10. /\ (v - 256 * side) * pk \in Int /\ (low + side) * pk \in Nat /\ b + k \in Nat
  BY <1>0
<1> QED BY <1>0, <1>2, <1>9, <1>10, Zenon DEF Reads, Scaled

(* ... and with one.                                                         *)
LEMMA TurnsFollows ==
  ASSUME NEW v, NEW low, NEW z, NEW c, NEW b, Reads(v, low, z, c, b),
         NEW r \in Nat, NEW m \in Nat, NEW side \in Nat, b + r = 8
  PROVE  Reads(((v - 256 * side) * Power[r] + Digit(z, c + 1)) * Power[m],
               Scaled(low + side, r + m), z, c + 1, m)
<1>0. /\ v \in Int /\ low \in Nat /\ z \in Seq(Octets) /\ c \in Nat /\ b \in Nat
      /\ v + 256 * low = Scaled(Worth(z)[c], b)
  BY Zenon DEF Reads
<1>1. PICK w \in Nat : w = Worth(z)[c]
  BY <1>0, WorthNext, ZenonT(60)
<1>2. PICK pb \in Nat, pr \in Nat, pm \in Nat : pb = Power[b] /\ pr = Power[r] /\ pm = Power[m]
  BY <1>0, PowerPositive, Zenon
<1>3. v + 256 * low = w * pb
  BY <1>0, <1>1, <1>2, Zenon DEF Scaled
<1>4. PICK first \in Nat : first = Digit(z, c + 1)
  <2>1. c + 1 \in Int
    BY <1>0
  <2>2. Digit(z, c + 1) \in 0..255
    BY <1>0, <2>1, DigitIs, Zenon
  <2>3. \A i \in 0..255 : i \in Nat
    OBVIOUS
  <2> QED BY <2>2, <2>3, Zenon
<1>5. Worth(z)[c + 1] = 256 * w + first
  <2>1. \A n \in Nat : Worth(z)[n + 1] = 256 * Worth(z)[n] + Digit(z, n + 1)
    BY <1>0, WorthNext
  <2>2. Worth(z)[c + 1] = 256 * Worth(z)[c] + Digit(z, c + 1)
    BY <1>0, <2>1, Zenon
  <2> QED BY <1>1, <1>4, <2>2, Zenon
<1>6. ((v - 256 * side) * pr + first) * pm + 256 * ((low + side) * (pr * pm))
        = ((v + 256 * low) * pr + first) * pm
  BY <1>0, TurnNumbers
<1>7. Power[r + m] = pr * pm
  BY <1>0, <1>2, PowerSum, Zenon
<1>8. pb * pr = 256
  <2>1. Power[b + r] = pb * pr
    BY <1>0, <1>2, PowerSum, Zenon
  <2>2. Power[8] = 256
    BY PowerSmall
  <2>3. b + r = 8
    OBVIOUS
  <2> QED BY <2>1, <2>2, <2>3, Zenon
<1>9. (w * pb) * pr = 256 * w
  <2>1. (w * pb) * pr = w * (pb * pr) /\ w * 256 = 256 * w
    OBVIOUS
  <2> QED BY <1>8, <2>1, Zenon
<1>10. ((v + 256 * low) * pr + first) * pm = (256 * w + first) * pm
  BY <1>3, <1>9, Zenon
<1>11. Scaled(Worth(z)[c + 1], m) = (256 * w + first) * pm
  BY <1>2, <1>5, Zenon DEF Scaled
<1>12. ((v - 256 * side) * Power[r] + Digit(z, c + 1)) * Power[m]
           + 256 * Scaled(low + side, r + m)
         = Scaled(Worth(z)[c + 1], m)
  <2>1. Scaled(low + side, r + m) = (low + side) * (pr * pm)
    BY <1>7, Zenon DEF Scaled
  <2>2. ((v - 256 * side) * pr + first) * pm + 256 * ((low + side) * (pr * pm))
          = Scaled(Worth(z)[c + 1], m)
    BY <1>6, <1>10, <1>11, Zenon
  <2>3. ((v - 256 * side) * Power[r] + Digit(z, c + 1)) * Power[m]
          = ((v - 256 * side) * pr + first) * pm
    BY <1>2, <1>4, Zenon
  <2> DEFINE u == ((v - 256 * side) * Power[r] + Digit(z, c + 1)) * Power[m]
  <2> HIDE DEF u
  <2>4. u + 256 * Scaled(low + side, r + m) = Scaled(Worth(z)[c + 1], m)
    BY <2>1, <2>2, <2>3, Zenon DEF u
  <2> QED BY <2>4, Zenon DEF u
<1>13. /\ ((v - 256 * side) * pr + first) * pm \in Int
       /\ (low + side) * (pr * pm) \in Nat /\ c + 1 \in Nat
  BY <1>0
<1> QED BY <1>0, <1>2, <1>4, <1>7, <1>12, <1>13, Zenon DEF Reads, Scaled

(* Together: the decoder keeps up through Renormalised.                      *)
LEMMA TurnFollows ==
  ASSUME NEW g, NEW ch, NEW r, NEW v \in Int, NEW b, NEW ok, NEW comp, NEW k, NEW q,
         NEW e, NEW f, NEW s, NEW z, NEW side \in Nat,
         PartOf(s, z, comp), Sound(e), Follows(ch, r, v, b, e, s, z),
         TurnTyped(ch, q, v - 256 * side, b, ok, comp, k),
         Turned(g, ch, q, v - 256 * side, b, ok, comp, k),
         f.range = q, Shifts(f) = Shifts(e) + k, Low(f) = Scaled(Low(e) + side, k),
         g.valid
  PROVE  Follows(g.chunk, g.range, g.value, g.bit_count, f, s, z)
<1>1. PICK low \in Nat, n \in Nat : low = Low(e) /\ n = Shifts(e)
  BY EncoderNumbers, Zenon
<1>2. k \in 0..7 /\ b \in 0..7 /\ ch \in Seq(Octets) /\ z \in Seq(Octets)
  BY Zenon DEF TurnTyped, PartOf
<1>3. b = n % 8 /\ RestIs(ch, s, 2 + n \div 8)
      /\ v + 256 * low = Scaled(Worth(z)[2 + n \div 8], b)
  BY <1>1, Zenon DEF Follows
<1> DEFINE x == v - 256 * side
<1>4. PICK c \in Nat : c = 2 + n \div 8
  OBVIOUS
<1>5. k \in Nat /\ b \in Nat
  BY <1>2
<1>6. RestIs(ch, s, c) /\ Reads(v, low, z, c, b)
  BY <1>2, <1>3, <1>4, <1>5, Zenon DEF Reads
<1>7. Low(f) = Scaled(low + side, k) /\ Shifts(f) = n + k
  BY <1>1, Zenon
<1>8. CASE b + k < 8
  <2> DEFINE y == x * Power[k]
             m == b + k
  <2>1. IsDecoding(g, ch, q, y, m, ok, comp)
    BY <1>8, Zenon DEF Turned
  <2>2. (n + k) % 8 = m /\ 2 + (n + k) \div 8 = c
    <3>1. b = n % 8
      BY <1>3, Zenon
    <3> QED BY <1>2, <1>4, <1>8, <3>1
  <2>3. y + 256 * Scaled(low + side, k) = Scaled(Worth(z)[c], m)
    <3> HIDE DEF x, y, m
    <3>1. Reads((v - 256 * side) * Power[k], Scaled(low + side, k), z, c, b + k)
      BY <1>5, <1>6, StaysFollows, ZenonT(60)
    <3> QED BY <3>1, Zenon DEF x, y, m, Reads
  <2> HIDE DEF x, y, m
  <2>4. g.chunk = ch /\ g.range = q /\ g.value = y /\ g.bit_count = m
    <3>1. HasFields(g, ch, q, y, m, ok, comp)
      BY <2>1, DecodingFields, Zenon
    <3> QED BY <3>1, Zenon DEF HasFields
  <2>5. Shifts(f) % 8 = m /\ 2 + Shifts(f) \div 8 = c
    BY <1>7, <2>2, Zenon
  <2>6. y + 256 * Low(f) = Scaled(Worth(z)[c], m)
    BY <1>7, <2>3, Zenon
  <2> QED BY <1>6, <2>4, <2>5, <2>6, Zenon DEF Follows
<1>9. CASE ~ (b + k < 8)
  <2> DEFINE y == (x * Power[8 - b] + First(ch)) * Power[(b + k) - 8]
             m == (b + k) - 8
             rest == Loaded(ch)
             still == StillValid(ch, ok, comp)
             rb == 8 - b
  <2>1. IsDecoding(g, rest, q, y, m, still, comp)
    BY <1>9, Zenon DEF Turned
  <2>2. /\ m \in Nat /\ rb \in Nat /\ rb + m = k /\ b + rb = 8
        /\ (n + k) % 8 = m /\ 2 + (n + k) \div 8 = c + 1
    <3>1. b = n % 8
      BY <1>3, Zenon
    <3> QED BY <1>2, <1>4, <1>9, <3>1
  <2> DEFINE next == c + 1
  <2> HIDE DEF x, y, m, rest, still, rb, next
  <2>3. g.chunk = rest /\ g.range = q /\ g.value = y /\ g.bit_count = m /\ g.valid = still
    <3>1. HasFields(g, rest, q, y, m, still, comp)
      BY <2>1, DecodingFields, Zenon
    <3> QED BY <3>1, Zenon DEF HasFields
  <2>4. RestIs(rest, s, next) /\ First(ch) = Digit(z, next)
    <3>1. StillValid(ch, ok, comp)
      BY <2>3, Zenon DEF still
    <3>2. RestIs(ch, s, c) /\ PartOf(s, z, comp)
      BY <1>6, Zenon
    <3>3. LoadsNext(ch, s, z, c)
      BY <3>1, <3>2, LoadFollows, Zenon
    <3> QED BY <3>3, Zenon DEF rest, next, LoadsNext
  <2>5. y + 256 * Scaled(low + side, k) = Scaled(Worth(z)[next], m)
    <3>1. Reads(((v - 256 * side) * Power[rb] + Digit(z, c + 1)) * Power[m],
                Scaled(low + side, rb + m), z, c + 1, m)
      BY <1>6, <2>2, TurnsFollows
    <3>2. y = (x * Power[rb] + Digit(z, next)) * Power[m]
      BY <2>4, Zenon DEF y, rb, m
    <3> QED BY <2>2, <3>1, <3>2, Zenon DEF next, x, Reads
  <2>6. Shifts(f) % 8 = m /\ 2 + Shifts(f) \div 8 = next
    BY <1>7, <2>2, Zenon DEF next
  <2>7. y + 256 * Low(f) = Scaled(Worth(z)[next], m)
    BY <1>7, <2>5, Zenon
  <2> QED BY <2>3, <2>4, <2>6, <2>7, Zenon DEF Follows
<1> QED BY <1>8, <1>9

(* A decoder that is not valid stays so; one of a whole partition stays      *)
(* valid.                                                                    *)
TurnKeeps(g, ok, comp) ==
  /\ g.complete_chunk = comp
  /\ comp /\ ok => g.valid
  /\ g.valid => ok

(* See TurnKeeps.                                                            *)
LEMMA TurnValid ==
  ASSUME NEW g, NEW ch, NEW q, NEW v, NEW b, NEW ok, NEW comp, NEW k,
         TurnTyped(ch, q, v, b, ok, comp, k), Turned(g, ch, q, v, b, ok, comp, k)
  PROVE  TurnKeeps(g, ok, comp)
<1>1. ch \in Seq(Octets) /\ ok \in BOOLEAN /\ comp \in BOOLEAN
  BY Zenon DEF TurnTyped
<1>2. CASE b + k < 8
  <2> DEFINE y == v * Power[k]
             m == b + k
  <2>1. IsDecoding(g, ch, q, y, m, ok, comp)
    BY <1>2, Zenon DEF Turned
  <2> HIDE DEF y, m
  <2>2. HasFields(g, ch, q, y, m, ok, comp)
    BY <2>1, DecodingFields, Zenon
  <2> QED BY <2>2, Zenon DEF HasFields, TurnKeeps
<1>3. CASE ~ (b + k < 8)
  <2> DEFINE y == (v * Power[8 - b] + First(ch)) * Power[(b + k) - 8]
             m == (b + k) - 8
             rest == Loaded(ch)
             still == StillValid(ch, ok, comp)
  <2>1. IsDecoding(g, rest, q, y, m, still, comp)
    BY <1>3, Zenon DEF Turned
  <2>2. (comp /\ ok => still) /\ (still => ok)
    BY <1>1, LoadTyped, Zenon
  <2> HIDE DEF y, m, rest, still
  <2>3. HasFields(g, rest, q, y, m, still, comp)
    BY <2>1, DecodingFields, Zenon
  <2> QED BY <2>2, <2>3, Zenon DEF HasFields, TurnKeeps
<1> QED BY <1>2, <1>3

(* A decoder that has followed so far returns the bit that was put, and goes  *)
(* on to follow.                                                             *)
GoesOn(d, g, e, f, value, p, s, z, comp) ==
  /\ Matches(g, f, s, z, comp)
  /\ d.valid => (Bit(d, p) <=> value)

(* See GoesOn.                                                               *)
LEMMA MatchGoesOn ==
  ASSUME NEW s, NEW z, NEW comp, PartOf(s, z, comp), NEW e, Sound(e),
         NEW d, Matches(d, e, s, z, comp), NEW value \in BOOLEAN, NEW p \in 1..255,
         Placed(Put(e, value, p), z)
  PROVE  GoesOn(d, Get(d, p), e, Put(e, value, p), value, p, s, z, comp)
<1> DEFINE f == Put(e, value, p)
           g == Get(d, p)
           ch == d.chunk
           r == d.range
           v == d.value
           b == d.bit_count
           ok == d.valid
<1>1. d \in DecoderSet /\ d.complete_chunk = comp /\ (comp => ok)
      /\ (ok => Follows(ch, r, v, b, e, s, z))
  BY Zenon DEF Matches
<1>2. Decodes(d, ch, r, v, b, ok, comp) /\ r >= 128
  BY <1>1, IsDecoder, Zenon
<1>3. g \in DecoderSet
  BY <1>1, GetTyped, Zenon
<1> HIDE DEF f, g, ch, r, v, b, ok
<1>4. PICK bit \in BOOLEAN : GetFacts(d, ch, r, v, b, ok, comp, p, bit)
  BY <1>2, GetIs, Zenon
<1>5. /\ ch \in Seq(Octets) /\ r \in 1..255 /\ v \in Int /\ b \in 0..7
      /\ ok \in BOOLEAN /\ comp \in BOOLEAN
  BY <1>2, Zenon DEF Decodes
<1> DEFINE side == Side(r, bit, p)
           part == Part(r, bit, p)
           k == Norm(part)
           q == Scaled(part, k)
           x == v - 256 * side
<1>6. /\ bit <=> v >= Split(r, p) * 256
      /\ Bit(d, p) <=> bit
      /\ Turned(g, ch, q, x, b, ok, comp, k)
  BY <1>4, Zenon DEF GetFacts, g
<1>7. NarrowFacts(r, side, part)
  BY <1>2, <1>5, NarrowIs, Zenon
<1>8. k \in 0..7 /\ q \in 128..255 /\ side \in Nat
  BY <1>7, Zenon DEF NarrowFacts
<1> HIDE DEF side, part, k, q
<1>9. x \in Int
  BY <1>5, <1>8
<1>10. TurnTyped(ch, q, x, b, ok, comp, k)
  <2> HIDE DEF x
  <2> QED BY <1>5, <1>8, <1>9, Zenon DEF TurnTyped
<1>11. TurnKeeps(g, ok, comp)
  <2> HIDE DEF x
  <2> QED BY <1>6, <1>10, TurnValid, Zenon
<1>12. Placed(e, z) /\ PutChoice(e, value, p, z)
  <2>1. z \in Seq(Octets)
    BY Zenon DEF PartOf
  <2> QED BY <2>1, PutPlaced, Zenon DEF f
<1>13. ASSUME ok PROVE bit <=> value
  <2>1. Follows(ch, r, v, b, e, s, z)
    BY <1>1, <1>13, Zenon DEF ch, r, v, b, ok
  <2>2. z \in Seq(Octets)
    BY Zenon DEF PartOf
  <2>3. GetChoice(r, v, p, e, z)
    BY <1>5, <1>12, <2>1, <2>2, BitFollows, Zenon
  <2> QED BY <1>6, <1>12, <2>3, Zenon DEF PutChoice, GetChoice
<1>14. ASSUME g.valid PROVE Follows(g.chunk, g.range, g.value, g.bit_count, f, s, z)
  <2>1. ok
    BY <1>11, <1>14, Zenon DEF TurnKeeps
  <2>2. bit = value
    <3>1. bit <=> value
      BY <1>13, <2>1
    <3> QED BY <1>4, <3>1, Zenon
  <2>3. Follows(ch, r, v, b, e, s, z) /\ r = e.range
    <3>1. Follows(ch, r, v, b, e, s, z)
      BY <1>1, <2>1, Zenon DEF ch, r, v, b, ok
    <3> QED BY <3>1, Zenon DEF Follows
  <2>4. PutFacts(e, side, part, k, f)
    BY <2>2, <2>3, PutIs, Zenon DEF side, part, k, f
  <2>5. f.range = q /\ Shifts(f) = Shifts(e) + k /\ Low(f) = Scaled(Low(e) + side, k)
    BY <2>4, Zenon DEF PutFacts, Becomes, q
  <2>6. TurnTyped(ch, q, v - 256 * side, b, ok, comp, k)
        /\ Turned(g, ch, q, v - 256 * side, b, ok, comp, k)
    BY <1>6, <1>10, Zenon
  <2> QED BY <1>5, <1>8, <1>14, <2>3, <2>5, <2>6, TurnFollows, ZenonT(60)
<1>15. Matches(g, f, s, z, comp)
  <2>1. comp => g.valid
    BY <1>1, <1>11, Zenon DEF TurnKeeps, ok
  <2>2. g.complete_chunk = comp
    BY <1>11, Zenon DEF TurnKeeps
  <2> QED BY <1>3, <1>14, <2>1, <2>2, Zenon DEF Matches
<1>16. ok => (Bit(d, p) <=> value)
  BY <1>6, <1>13, Zenon
<1> QED BY <1>15, <1>16, Zenon DEF GoesOn, f, g, ok

(* A new encoder is sound, and has the whole interval.                       *)
LEMMA StartsSound ==
  Sound(BoolEncoder) /\ Shifts(BoolEncoder) = 0 /\ Low(BoolEncoder) = 0 /\ BoolEncoder.range = 255
<1> DEFINE o == << >>
<1>1. BoolEncoder = Encoder(o, 255, 0, 0) /\ BoolEncoder.range = 255
  BY CoderAssumption DEF BoolEncoder, Encoder
<1>2. o \in Seq(Octets) /\ 255 \in 1..255 /\ 0 \in Nat /\ 0 \in 0..(Delay - 1) /\ Len(o) = 0
  BY CoderAssumption
<1>3. EncoderFacts(o, 255, 0, 0, BoolEncoder)
  <2> HIDE DEF o
  <2>1. EncoderFacts(o, 255, 0, 0, Encoder(o, 255, 0, 0))
    <3>1. PICK r \in 1..255, b \in Nat, d \in 0..(Delay - 1) : r = 255 /\ b = 0 /\ d = 0
      BY <1>2, Zenon
    <3>2. EncoderFacts(o, r, b, d, Encoder(o, r, b, d))
      BY <1>2, EncoderIs, ZenonT(60)
    <3> QED BY <3>1, <3>2, Zenon
  <2> QED BY <1>1, <2>1, Zenon
<1>4. Power[0] = 1
  BY PowerSmall
<1>5. Worth(o)[0] = 0
  BY <1>2, WorthNone, Zenon
<1>6. Above(o, 0) = 0 /\ Reach(0) = 512 /\ Top(o, 0) = 256
  <2>1. 8 * 0 = 0
    OBVIOUS
  <2>2. Power[8 * Len(o)] = 1 /\ Worth(o)[Len(o)] = 0
    BY <1>2, <1>4, <1>5, <2>1, Zenon
  <2> HIDE DEF o
  <2> QED BY <1>4, <2>2 DEF Above, Reach, Top
<1> HIDE DEF o
<1>7. Fits(BoolEncoder) /\ Shifts(BoolEncoder) = 0 /\ Low(BoolEncoder) = 0
  BY <1>2, <1>3, <1>6 DEF EncoderFacts
<1> QED BY <1>1, <1>7 DEF Sound

(* A new decoder has loaded the first two octets.                            *)
LEMMA MatchStarts ==
  ASSUME NEW s, NEW z, NEW comp, PartOf(s, z, comp)
  PROVE  Matches(BoolDecoder(s, comp), BoolEncoder, s, z, comp)
<1> DEFINE new == [ chunk |-> s, range |-> 255, value |-> 0, bit_count |-> 0,
                    valid |-> TRUE, complete_chunk |-> comp ]
           first == load_octet(new)
           next == [ first EXCEPT !.value = @ * 256 ]
           d == BoolDecoder(s, comp)
           ch1 == Loaded(s)
           ok1 == StillValid(s, TRUE, comp)
           ch2 == Loaded(ch1)
           ok2 == StillValid(ch1, ok1, comp)
<1>0. s \in Seq(Octets) /\ z \in Seq(Octets) /\ comp \in BOOLEAN
  BY Zenon DEF PartOf
<1>1. d = load_octet(next)
  BY Zenon DEF BoolDecoder
<1>2. IsDecoding(new, s, 255, 0, 0, TRUE, comp)
  BY Zenon DEF IsDecoding, Decoding
<1>3. PICK o1 \in 0..255 : o1 = First(s)
  BY <1>0, LoadTyped, Zenon
<1>4. PICK o2 \in 0..255 : o2 = First(ch1)
  BY <1>0, LoadTyped, Zenon
<1>5. ch1 \in Seq(Octets) /\ ok1 \in BOOLEAN /\ (comp => ok1)
  BY <1>0, LoadTyped, Zenon
<1>6. ch2 \in Seq(Octets) /\ ok2 \in BOOLEAN /\ (comp => ok2) /\ (ok2 => ok1)
  BY <1>0, <1>5, LoadTyped, Zenon
<1> HIDE DEF new
<1>7. IsDecoding(first, ch1, 255, o1, 0, ok1, comp)
  <2>1. 0 \in Int /\ 0 + o1 = o1
    OBVIOUS
  <2>2. IsDecoding(first, ch1, 255, 0 + First(s), 0, ok1, comp)
    BY <1>2, <2>1, LoadIs, Zenon
  <2> QED BY <1>3, <2>1, <2>2, Zenon
<1> HIDE DEF first
<1>8. first.value = o1
  <2>1. HasFields(first, ch1, 255, o1, 0, ok1, comp)
    BY <1>7, DecodingFields, Zenon
  <2> QED BY <2>1, Zenon DEF HasFields
<1>9. PICK w \in Int : w = o1 * 256
  OBVIOUS
<1>10. IsDecoding(next, ch1, 255, w, 0, ok1, comp)
  <2>1. next = [ first EXCEPT !.value = w ]
    BY <1>8, <1>9, Zenon
  <2> HIDE DEF next
  <2>2. IsDecoding([ first EXCEPT !.value = w ], ch1, 255, w, 0, ok1, comp)
    BY <1>7, ValueChanged, Zenon
  <2> QED BY <2>1, <2>2, Zenon
<1> HIDE DEF next
<1>11. PICK y \in Int : y = w + o2
  OBVIOUS
<1>12. IsDecoding(d, ch2, 255, y, 0, ok2, comp)
  <2>1. IsDecoding(load_octet(next), ch2, 255, w + First(ch1), 0, ok2, comp)
    BY <1>10, LoadIs, Zenon
  <2> QED BY <1>1, <1>4, <1>11, <2>1, Zenon
<1> HIDE DEF d
<1>13. d.chunk = ch2 /\ d.range = 255 /\ d.value = y /\ d.bit_count = 0 /\ d.valid = ok2
       /\ d.complete_chunk = comp
  <2>1. HasFields(d, ch2, 255, y, 0, ok2, comp)
    BY <1>12, DecodingFields, Zenon
  <2> QED BY <2>1, Zenon DEF HasFields
<1>14. d \in DecoderSet
  <2>1. 255 \in 1..255 /\ 255 >= 128 /\ 0 \in 0..7
    OBVIOUS
  <2>2. Decodes(d, ch2, 255, y, 0, ok2, comp)
    BY <1>0, <1>6, <1>12, <2>1, Zenon DEF Decodes
  <2> QED BY <2>1, <2>2, InDecoderSet, Zenon
<1>15. ASSUME ok2 PROVE Follows(ch2, 255, y, 0, BoolEncoder, s, z)
  <2>1. RestIs(s, s, 0)
    BY <1>0 DEF RestIs
  <2>2. 0 \in Nat /\ 1 \in Nat /\ 0 + 1 = 1 /\ 1 + 1 = 2
    OBVIOUS
  <2>3. LoadsNext(s, s, z, 0)
    BY <1>6, <1>15, <2>1, <2>2, LoadFollows, Zenon
  <2>4. RestIs(ch1, s, 1) /\ o1 = Digit(z, 1)
    BY <1>3, <2>2, <2>3, Zenon DEF LoadsNext
  <2>5. LoadsNext(ch1, s, z, 1)
    BY <1>15, <2>2, <2>4, LoadFollows, Zenon
  <2>6. RestIs(ch2, s, 2) /\ o2 = Digit(z, 2)
    BY <1>4, <2>2, <2>5, Zenon DEF LoadsNext
  <2>7. Worth(z)[2] = y
    <3>1. PICK w0 \in Nat : w0 = Worth(z)[0] /\ w0 = 0
      BY <1>0, <2>2, WorthNone, Zenon
    <3>2. Worth(z)[0 + 1] = 256 * w0 + Digit(z, 0 + 1)
      <4>1. \A n \in Nat : Worth(z)[n + 1] = 256 * Worth(z)[n] + Digit(z, n + 1)
        BY <1>0, WorthNext
      <4> QED BY <2>2, <3>1, <4>1, ZenonT(60)
    <3>3. Worth(z)[1] = 256 * w0 + o1
      BY <2>2, <2>4, <3>2, Zenon
    <3>4. PICK w1 \in Nat : w1 = Worth(z)[1]
      BY <1>0, <2>2, WorthNext, ZenonT(60)
    <3>5. w1 = o1
      BY <3>1, <3>3, <3>4
    <3>6. Worth(z)[1 + 1] = 256 * w1 + Digit(z, 1 + 1)
      BY <1>0, <2>2, <3>4, WorthNext, ZenonT(60)
    <3>7. Worth(z)[2] = 256 * w1 + o2
      BY <2>2, <2>6, <3>6, Zenon
    <3>8. y = 256 * w1 + o2
      BY <1>9, <1>11, <3>5
    <3> QED BY <3>7, <3>8, Zenon
  <2>8. 2 + 0 \div 8 = 2 /\ 0 % 8 = 0 /\ y + 256 * 0 = y /\ y * 1 = y
    OBVIOUS
  <2>9. Scaled(y, 0) = y
    <3>1. Power[0] = 1
      BY PowerSmall
    <3> QED BY <2>8, <3>1, Zenon DEF Scaled
  <2> QED BY <2>6, <2>7, <2>8, <2>9, StartsSound, ZenonT(60) DEF Follows
<1> QED BY <1>6, <1>13, <1>14, <1>15, ZenonT(60) DEF Matches, d

(***************************************************************************)
(* The decoders before each of the bits.                                   *)
(***************************************************************************)

(* The first of the values of g.                                             *)
UpTo(g, i) == [ k \in 1..i |-> g[k - 1] ]

(* One more value.                                                           *)
LEMMA UpToNext ==
  ASSUME NEW X, NEW g \in [ Nat -> X ], NEW i \in Nat
  PROVE  Append(UpTo(g, i), g[i]) = UpTo(g, i + 1)
<1> DEFINE s == UpTo(g, i)
<1>1. s \in Seq(X) /\ Len(s) = i /\ DOMAIN s = 1..i
  BY DEF UpTo
<1>2. \A k \in 1..i : s[k] = g[k - 1]
  BY DEF UpTo
<1>3. g[i] \in X
  OBVIOUS
<1> HIDE DEF s
<1>4. Append(s, g[i]) = [ k \in 1..(i + 1) |-> IF k = i + 1 THEN g[i] ELSE s[k] ]
  BY <1>1, <1>3
<1>5. ASSUME NEW k \in 1..(i + 1)
      PROVE  (IF k = i + 1 THEN g[i] ELSE s[k]) = g[k - 1]
  BY <1>2
<1>6. [ k \in 1..(i + 1) |-> IF k = i + 1 THEN g[i] ELSE s[k] ]
        = [ k \in 1..(i + 1) |-> g[k - 1] ]
  BY <1>5, Zenon
<1> QED BY <1>4, <1>6, Zenon DEF UpTo, s

(* Bits with their probabilities.                                            *)
BitSet == [ value : BOOLEAN, probability : 1..255 ]

(* g follows one decoder through all the bits.                               *)
DecodersFacts(g, s, comp, bits) ==
  /\ g[0] = BoolDecoder(s, comp)
  /\ \A i \in 1..Len(bits) :
       /\ g[i] = Get(g[i - 1], bits[i].probability)
       /\ Decoders(s, comp, bits)[i] = g[i - 1]

(* See DecodersFacts.                                                        *)
LEMMA DecodersAre ==
  ASSUME NEW s, NEW comp, BoolDecoder(s, comp) \in DecoderSet, NEW bits \in Seq(BitSet)
  PROVE  \E g \in [ Nat -> DecoderSet ] : DecodersFacts(g, s, comp, bits)
<1> DEFINE n == Len(bits)
           Asked(i) == IF i \in 1..n THEN bits[i].probability ELSE 128
           F == [ q \in Nat \X DecoderSet |-> Get(q[2], Asked(q[1] + 1)) ]
           d == BoolDecoder(s, comp)
           From(f) == [ i \in 0..n |->
                          IF i = 0 THEN << d >>
                          ELSE LET before == f[i - 1]
                               IN Append(before, Get(before[i], bits[i].probability)) ]
           upto == CHOOSE f : f = From(f)
<1>1. Decoders(s, comp, bits) = upto[n]
  BY DEF Decoders
<1>2. n \in Nat
  OBVIOUS
<1>3. ASSUME NEW i \in Nat PROVE Asked(i) \in 1..255
  <2>1. CASE i \in 1..n
    <3>1. bits[i] \in BitSet
      BY <2>1
    <3>2. bits[i].probability \in 1..255
      BY <3>1 DEF BitSet
    <3> QED BY <2>1, <3>2, Zenon
  <2>2. CASE i \notin 1..n
    BY <2>2
  <2> QED BY <2>1, <2>2
<1> HIDE DEF d, n
<1> USE DEF Asked
<1>4. F \in [ Nat \X DecoderSet -> DecoderSet ]
  <2>1. ASSUME NEW q \in Nat \X DecoderSet PROVE Get(q[2], Asked(q[1] + 1)) \in DecoderSet
    <3>1. q[2] \in DecoderSet /\ q[1] + 1 \in Nat
      OBVIOUS
    <3> HIDE DEF Asked
    <3> QED BY <1>3, <3>1, GetTyped, Zenon
  <2> HIDE DEF Asked
  <2> QED BY <2>1, Zenon
<1> HIDE DEF Asked
<1>5. \A i \in Nat, x \in DecoderSet : F[<< i, x >>] = Get(x, Asked(i + 1))
  OBVIOUS
<1> HIDE DEF F
<1>6. PICK g \in [ Nat -> DecoderSet ] : Iterates(g, d, F)
  <2>1. d \in DecoderSet
    BY Zenon DEF d
  <2> QED BY <1>4, <2>1, Recursion, Zenon
<1>7. g[0] = d /\ \A i \in Nat : g[i + 1] = Get(g[i], Asked(i + 1))
  BY <1>5, <1>6, Zenon DEF Iterates
<1>8. ASSUME NEW i \in 1..n PROVE g[i] = Get(g[i - 1], bits[i].probability)
  <2>1. i - 1 \in Nat /\ (i - 1) + 1 = i
    BY <1>2
  <2>2. Asked(i) = bits[i].probability
    BY Zenon DEF Asked
  <2> QED BY <1>7, <2>1, <2>2, Zenon
<1> DEFINE u == [ i \in 0..n |-> UpTo(g, i + 1) ]
<1>9. u = From(u)
  <2>1. ASSUME NEW i \in 0..n
        PROVE  u[i] = IF i = 0 THEN << d >>
                      ELSE LET before == u[i - 1]
                           IN Append(before, Get(before[i], bits[i].probability))
    <3>1. u[i] = UpTo(g, i + 1)
      BY Zenon
    <3>2. CASE i = 0
      <4>1. UpTo(g, 1) = << g[0] >>
        BY DEF UpTo
      <4>2. 0 + 1 = 1
        OBVIOUS
      <4> QED BY <1>7, <3>1, <3>2, <4>1, <4>2, Zenon
    <3>3. CASE i # 0
      <4>1. i - 1 \in 0..n /\ i \in 1..n /\ (i - 1) + 1 = i /\ i \in Nat
        BY <1>2, <3>3
      <4>2. u[i - 1] = UpTo(g, i)
        BY <4>1, Zenon
      <4>3. UpTo(g, i)[i] = g[i - 1]
        BY <4>1 DEF UpTo
      <4>4. Append(UpTo(g, i), g[i]) = UpTo(g, i + 1)
        BY <4>1, UpToNext, Zenon
      <4> HIDE DEF u
      <4> QED BY <1>8, <3>1, <3>3, <4>1, <4>2, <4>3, <4>4, Zenon
    <3> QED BY <3>2, <3>3
  <2> QED BY <2>1, Zenon
<1>10. upto = From(upto)
  BY <1>9, Zenon
<1> HIDE DEF upto
<1>11. \A i \in 0..n : upto[i] = IF i = 0 THEN << d >>
                      ELSE LET before == upto[i - 1]
                           IN Append(before, Get(before[i], bits[i].probability))
  BY <1>10, Zenon
<1> DEFINE T == { i \in Nat : i <= n => upto[i] = UpTo(g, i + 1) }
<1>12. 0 \in T
  <2>1. UpTo(g, 0 + 1) = << g[0] >>
    BY DEF UpTo
  <2>2. 0 \in 0..n
    BY <1>2
  <2>3. upto[0] = UpTo(g, 0 + 1)
    BY <1>7, <1>11, <2>1, <2>2, Zenon
  <2>4. 0 \in Nat
    OBVIOUS
  <2> QED BY <2>3, <2>4, Zenon
<1>13. ASSUME NEW i \in Nat, i \in T PROVE i + 1 \in T
  <2> SUFFICES ASSUME i + 1 <= n PROVE upto[i + 1] = UpTo(g, (i + 1) + 1)
    OBVIOUS
  <2>1. i + 1 \in 0..n /\ i + 1 \in 1..n /\ i + 1 # 0 /\ (i + 1) - 1 = i /\ i <= n /\ i + 1 \in Nat
    BY <1>2
  <2>2. upto[i] = UpTo(g, i + 1)
    BY <1>13, <2>1, Zenon
  <2>3. UpTo(g, i + 1)[i + 1] = g[i]
    BY <2>1 DEF UpTo
  <2>4. upto[i + 1] = Append(upto[i], Get(upto[i][i + 1], bits[i + 1].probability))
    BY <1>11, <2>1, Zenon
  <2>5. Append(UpTo(g, i + 1), g[i + 1]) = UpTo(g, (i + 1) + 1)
    BY <2>1, UpToNext, Zenon
  <2>6. g[i + 1] = Get(g[i], bits[i + 1].probability)
    BY <1>8, <2>1, Zenon
  <2> QED BY <2>2, <2>3, <2>4, <2>5, <2>6, Zenon
<1> HIDE DEF T
<1>14. n \in T
  BY <1>2, <1>12, <1>13, AllOf
<1>15. upto[n] = UpTo(g, n + 1)
  <2>1. n <= n
    BY <1>2
  <2> QED BY <1>14, <2>1, Zenon DEF T
<1>16. ASSUME NEW i \in 1..n PROVE Decoders(s, comp, bits)[i] = g[i - 1]
  <2>1. i \in 1..(n + 1)
    BY <1>2
  <2> QED BY <1>1, <1>15, <2>1, Zenon DEF UpTo
<1>17. DecodersFacts(g, s, comp, bits)
  BY <1>7, <1>8, <1>16, Zenon DEF DecodersFacts, d, n
<1> QED BY <1>17, Zenon

(***************************************************************************)
(* All the bits of a partition.                                            *)
(***************************************************************************)

(* The encoder before each of the bits, and after the last.                  *)
Encoded(h, bits, e) ==
  /\ h[0] = BoolEncoder /\ h[Len(bits)] = e
  /\ \A i \in 1..Len(bits) : h[i] = Put(h[i - 1], bits[i].value, bits[i].probability)

(* An encoder that was given these bits, one after the other.                *)
History(bits, e) ==
  /\ bits \in Seq(BitSet)
  /\ \E h \in [ 0..Len(bits) -> SoundEncoders ] : Encoded(h, bits, e)

(* The inductive invariant.                                                  *)
CoderInv == History(put, encoder)

(* Before the first bit.                                                     *)
LEMMA HistoryStarts == History(<< >>, BoolEncoder)
<1> DEFINE bits == << >>
           h == [ i \in 0..0 |-> BoolEncoder ]
<1>1. bits \in Seq(BitSet) /\ Len(bits) = 0
  OBVIOUS
<1>2. BoolEncoder \in SoundEncoders
  BY StartsSound, SoundIs, Zenon
<1> HIDE DEF bits
<1>3. h \in [ 0..Len(bits) -> SoundEncoders ]
  BY <1>1, <1>2
<1>4. h[0] = BoolEncoder /\ h[Len(bits)] = BoolEncoder
  BY <1>1
<1>5. \A i \in 1..Len(bits) : FALSE
  BY <1>1
<1> HIDE DEF h
<1>6. Encoded(h, bits, BoolEncoder)
  BY <1>4, <1>5, Zenon DEF Encoded
<1> QED BY <1>1, <1>3, <1>6, Zenon DEF History, bits

(* One more bit.                                                             *)
LEMMA HistoryGoesOn ==
  ASSUME NEW bits, NEW e, History(bits, e), NEW bit \in BitSet
  PROVE  History(Append(bits, bit), Put(e, bit.value, bit.probability))
<1>1. bits \in Seq(BitSet)
  BY Zenon DEF History
<1>2. PICK h \in [ 0..Len(bits) -> SoundEncoders ] : Encoded(h, bits, e)
  BY Zenon DEF History
<1> DEFINE more == Append(bits, bit)
           n == Len(bits)
           f == Put(e, bit.value, bit.probability)
           k == [ i \in 0..(n + 1) |-> IF i = n + 1 THEN f ELSE h[i] ]
<1>3. n \in Nat /\ more \in Seq(BitSet) /\ Len(more) = n + 1
  BY <1>1
<1>4. more[n + 1] = bit /\ \A i \in 1..n : more[i] = bits[i]
  BY <1>1
<1> HIDE DEF n, more
<1>5. h[0] = BoolEncoder /\ h[n] = e
      /\ \A i \in 1..n : h[i] = Put(h[i - 1], bits[i].value, bits[i].probability)
  BY <1>2, Zenon DEF Encoded, n
<1>6. h \in [ 0..n -> SoundEncoders ]
  BY <1>2, Zenon DEF n
<1>7. e \in SoundEncoders
  BY <1>3, <1>5, <1>6
<1>8. f \in SoundEncoders
  <2>1. bit.value \in BOOLEAN /\ bit.probability \in 1..255
    BY DEF BitSet
  <2> QED BY <1>7, <2>1, PutSound, Zenon
<1>9. k \in [ 0..(n + 1) -> SoundEncoders ]
  <2> HIDE DEF f
  <2> QED BY <1>3, <1>6, <1>8
<1>10. k[n + 1] = f /\ \A i \in 0..n : k[i] = h[i]
  <2> HIDE DEF f
  <2> QED BY <1>3
<1> HIDE DEF f, k
<1>11. ASSUME NEW i \in 1..(n + 1)
       PROVE  k[i] = Put(k[i - 1], more[i].value, more[i].probability)
  <2>1. CASE i = n + 1
    <3>1. i - 1 = n /\ n \in 0..n
      BY <1>3, <2>1
    <3>2. k[i - 1] = e
      BY <1>5, <1>10, <3>1, Zenon
    <3> QED BY <1>4, <1>10, <2>1, <3>2, Zenon DEF f
  <2>2. CASE i # n + 1
    <3>1. i \in 1..n /\ i \in 0..n /\ i - 1 \in 0..n
      BY <1>3, <2>2
    <3> QED BY <1>4, <1>5, <1>10, <3>1, Zenon
  <2> QED BY <2>1, <2>2
<1>12. k[0] = BoolEncoder
  <2>1. 0 \in 0..n
    BY <1>3
  <2> QED BY <1>5, <1>10, <2>1, Zenon
<1>13. Encoded(k, more, f)
  BY <1>3, <1>10, <1>11, <1>12, Zenon DEF Encoded
<1> QED BY <1>3, <1>9, <1>13, Zenon DEF History, more, f

(* The invariant holds at first and with each bit put.                       *)
LEMMA CoderInvInductive ==
  /\ CoderInit => CoderInv
  /\ CoderInv /\ [PutBit]_coder_vars => CoderInv'
<1>1. ASSUME CoderInit PROVE CoderInv
  BY <1>1, HistoryStarts, Zenon DEF CoderInit, CoderInv
<1>2. ASSUME CoderInv, PutBit PROVE CoderInv'
  <2>1. PICK value \in BOOLEAN, probability \in Probabilities :
          /\ encoder' = Put(encoder, value, probability)
          /\ put' = Append(put, [ value |-> value, probability |-> probability ])
    BY <1>2, Zenon DEF PutBit
  <2> DEFINE bit == [ value |-> value, probability |-> probability ]
  <2>2. bit \in BitSet /\ bit.value = value /\ bit.probability = probability
    BY CoderAssumption DEF BitSet
  <2> HIDE DEF bit
  <2>3. History(Append(put, bit), Put(encoder, bit.value, bit.probability))
    BY <1>2, <2>2, HistoryGoesOn, Zenon DEF CoderInv
  <2>4. put' = Append(put, bit)
    BY <2>1, Zenon DEF bit
  <2> QED BY <2>1, <2>2, <2>3, <2>4, Zenon DEF CoderInv
<1>3. ASSUME CoderInv, UNCHANGED coder_vars PROVE CoderInv'
  BY <1>3, Zenon DEF CoderInv, coder_vars
<1> QED BY <1>1, <1>2, <1>3, Zenon

(* All that is written after a bit leaves the partition in its interval.     *)
LEMMA AllPlaced ==
  ASSUME NEW bits, NEW e, bits \in Seq(BitSet),
         NEW h \in [ 0..Len(bits) -> SoundEncoders ], Encoded(h, bits, e)
  PROVE  /\ Finish(e) \in Seq(Octets)
         /\ \A i \in 0..Len(bits) : Placed(h[i], Finish(e))
<1> DEFINE n == Len(bits)
           z == Finish(e)
           T == { i \in Nat : i <= n => Placed(h[n - i], z) }
<1>1. n \in Nat /\ n \in 0..n
  OBVIOUS
<1>2. h[n] = e /\ \A i \in 1..n : h[i] = Put(h[i - 1], bits[i].value, bits[i].probability)
  BY Zenon DEF Encoded
<1>3. h \in [ 0..n -> SoundEncoders ]
  OBVIOUS
<1>4. \A i \in 1..n : bits[i].value \in BOOLEAN /\ bits[i].probability \in 1..255
  <2>1. \A i \in 1..n : bits[i] \in BitSet
    OBVIOUS
  <2> QED BY <2>1 DEF BitSet
<1> HIDE DEF n
<1>5. \A i \in 0..n : Sound(h[i])
  <2>1. \A i \in 0..n : h[i] \in SoundEncoders
    BY <1>3
  <2> QED BY <2>1, SoundIs, Zenon
<1>6. Sound(e)
  BY <1>1, <1>2, <1>5, Zenon
<1>7. FinishFacts(e, z) /\ z \in Seq(Octets)
  <2>1. FinishFacts(e, z)
    BY <1>6, FinishIs, Zenon
  <2> QED BY <2>1, Zenon DEF FinishFacts
<1>8. Placed(e, z)
  BY <1>6, <1>7, FinishPlaced, Zenon
<1> HIDE DEF z
<1>9. 0 \in T
  <2>1. n - 0 = n
    BY <1>1
  <2> QED BY <1>2, <1>8, <2>1
<1>10. ASSUME NEW i \in Nat, i \in T PROVE i + 1 \in T
  <2> SUFFICES ASSUME i + 1 <= n PROVE Placed(h[n - (i + 1)], z)
    OBVIOUS
  <2> DEFINE m == n - i
  <2>1. m \in 1..n /\ m - 1 \in 0..n /\ n - (i + 1) = m - 1 /\ i <= n
    BY <1>1
  <2>2. Placed(h[m], z)
    BY <1>10, <2>1
  <2> HIDE DEF m
  <2>3. Placed(Put(h[m - 1], bits[m].value, bits[m].probability), z)
    BY <1>2, <2>1, <2>2, Zenon
  <2>4. Placed(h[m - 1], z)
    BY <1>4, <1>5, <1>7, <2>1, <2>3, PutPlaced, Zenon
  <2> QED BY <2>1, <2>4, Zenon
<1> HIDE DEF T
<1>11. \A i \in Nat : i \in T
  BY <1>9, <1>10, AllOf
<1>12. ASSUME NEW i \in 0..n PROVE Placed(h[i], z)
  <2>1. n - i \in Nat /\ n - i <= n /\ n - (n - i) = i
    BY <1>1
  <2>2. n - i \in T
    BY <1>11, <2>1, Zenon
  <2>3. Placed(h[n - (n - i)], z)
    BY <2>1, <2>2 DEF T
  <2> QED BY <2>1, <2>3, Zenon
<1> QED BY <1>7, <1>12, Zenon DEF n, z

(* Of a chunk that is a partition or its beginning, each bit is right as     *)
(* long as the decoder is valid, as it is to the end of a whole partition.   *)
RightBits(s, comp, bits) ==
  \A i \in DOMAIN bits :
    /\ comp => Decoders(s, comp, bits)[i].valid
    /\ Decoders(s, comp, bits)[i].valid =>
         Bit(Decoders(s, comp, bits)[i], bits[i].probability) = bits[i].value

(* See RightBits: backwards, the partition lies in the interval the encoder  *)
(* had at each bit; forwards, the decoder follows.                           *)
LEMMA AllRight ==
  ASSUME NEW bits, NEW e, History(bits, e), NEW s, NEW comp, PartOf(s, Finish(e), comp)
  PROVE  RightBits(s, comp, bits)
<1> DEFINE n == Len(bits)
           z == Finish(e)
<1>1. bits \in Seq(BitSet) /\ n \in Nat /\ DOMAIN bits = 1..n
  <2>1. bits \in Seq(BitSet)
    BY Zenon DEF History
  <2> QED BY <2>1
<1>2. PICK h \in [ 0..n -> SoundEncoders ] : Encoded(h, bits, e)
  BY Zenon DEF History
<1>3. \A i \in 0..n : Placed(h[i], z)
  BY <1>1, <1>2, AllPlaced, Zenon
<1>4. \A i \in 1..n : bits[i].value \in BOOLEAN /\ bits[i].probability \in 1..255
  <2>1. \A i \in 1..n : bits[i] \in BitSet
    BY <1>1
  <2> QED BY <2>1 DEF BitSet
<1>5. h[0] = BoolEncoder
      /\ \A i \in 1..n : h[i] = Put(h[i - 1], bits[i].value, bits[i].probability)
  BY <1>2, Zenon DEF Encoded
<1>6. PartOf(s, z, comp)
  OBVIOUS
<1> HIDE DEF z
<1>7. Matches(BoolDecoder(s, comp), BoolEncoder, s, z, comp)
  BY <1>6, MatchStarts, Zenon
<1>8. BoolDecoder(s, comp) \in DecoderSet
  BY <1>7, Zenon DEF Matches
<1>9. PICK g \in [ Nat -> DecoderSet ] : DecodersFacts(g, s, comp, bits)
  BY <1>1, <1>8, DecodersAre, Zenon
<1>10. /\ g[0] = BoolDecoder(s, comp)
       /\ \A i \in 1..n : /\ g[i] = Get(g[i - 1], bits[i].probability)
                          /\ Decoders(s, comp, bits)[i] = g[i - 1]
  BY <1>9, Zenon DEF DecodersFacts
<1> HIDE DEF n
<1>11. \A i \in 0..n : Sound(h[i])
  <2>1. \A i \in 0..n : h[i] \in SoundEncoders
    BY <1>2
  <2> QED BY <2>1, SoundIs, Zenon
<1>12. ASSUME NEW i \in 1..n, Matches(g[i - 1], h[i - 1], s, z, comp)
       PROVE  GoesOn(g[i - 1], g[i], h[i - 1], h[i], bits[i].value, bits[i].probability,
                     s, z, comp)
  <2>1. i - 1 \in 0..n /\ i \in 0..n
    BY <1>1
  <2>2. Placed(Put(h[i - 1], bits[i].value, bits[i].probability), z)
    BY <1>3, <1>5, <2>1, Zenon
  <2>3. Sound(h[i - 1])
    BY <1>11, <2>1, Zenon
  <2>4. GoesOn(g[i - 1], Get(g[i - 1], bits[i].probability), h[i - 1],
               Put(h[i - 1], bits[i].value, bits[i].probability),
               bits[i].value, bits[i].probability, s, z, comp)
    BY <1>4, <1>6, <1>12, <2>2, <2>3, MatchGoesOn, ZenonT(60)
  <2> QED BY <1>5, <1>10, <2>4, Zenon
<1> DEFINE T == { i \in Nat : i <= n => Matches(g[i], h[i], s, z, comp) }
<1>13. 0 \in T
  BY <1>5, <1>7, <1>10, Zenon
<1>14. ASSUME NEW i \in Nat, i \in T PROVE i + 1 \in T
  <2> SUFFICES ASSUME i + 1 <= n PROVE Matches(g[i + 1], h[i + 1], s, z, comp)
    OBVIOUS
  <2>1. i + 1 \in 1..n /\ (i + 1) - 1 = i /\ i <= n
    BY <1>1
  <2>2. Matches(g[i], h[i], s, z, comp)
    BY <1>14, <2>1
  <2>3. GoesOn(g[i], g[i + 1], h[i], h[i + 1], bits[i + 1].value, bits[i + 1].probability,
               s, z, comp)
    BY <1>12, <2>1, <2>2
  <2> QED BY <2>3, Zenon DEF GoesOn
<1> HIDE DEF T
<1>15. \A i \in Nat : i \in T
  BY <1>13, <1>14, AllOf
<1>16. ASSUME NEW i \in 1..n
       PROVE  /\ comp => Decoders(s, comp, bits)[i].valid
              /\ Decoders(s, comp, bits)[i].valid =>
                   Bit(Decoders(s, comp, bits)[i], bits[i].probability) = bits[i].value
  <2>1. i - 1 \in Nat /\ i - 1 <= n
    BY <1>1
  <2>2. i - 1 \in T
    BY <1>15, <2>1, Zenon
  <2>3. Matches(g[i - 1], h[i - 1], s, z, comp)
    BY <2>1, <2>2 DEF T
  <2>4. GoesOn(g[i - 1], g[i], h[i - 1], h[i], bits[i].value, bits[i].probability, s, z, comp)
    BY <1>12, <2>3, Zenon
  <2>5. g[i - 1].valid => (Bit(g[i - 1], bits[i].probability) <=> bits[i].value)
    BY <2>4, Zenon DEF GoesOn
  <2>6. bits[i].value \in BOOLEAN /\ Bit(g[i - 1], bits[i].probability) \in BOOLEAN
    <3>1. ASSUME NEW x, NEW p PROVE Bit(x, p) \in BOOLEAN
      BY DEF Bit
    <3> QED BY <1>4, <3>1, Zenon
  <2>7. g[i - 1].valid => Bit(g[i - 1], bits[i].probability) = bits[i].value
    BY <2>5, <2>6, Zenon
  <2>8. comp => g[i - 1].valid
    BY <2>3, Zenon DEF Matches
  <2>9. Decoders(s, comp, bits)[i] = g[i - 1]
    BY <1>10, Zenon
  <2> QED BY <2>7, <2>8, <2>9, Zenon
<1> QED BY <1>1, <1>16, Zenon DEF RightBits

(* What a BoolEncoder was given is what a BoolDecoder returns                *)
(* (bool_encoder.hh, bool_decoder.hh): for any number of bits, any           *)
(* probabilities and any run of carries.                                     *)
THEOREM DecodesWhatWasEncodedAlways == CoderSpec => []DecodesWhatWasEncoded
<1>1. CoderInv => DecodesWhatWasEncoded
  <2> SUFFICES ASSUME CoderInv PROVE DecodesWhatWasEncoded
    OBVIOUS
  <2>1. PICK h \in [ 0..Len(put) -> SoundEncoders ] : Encoded(h, put, encoder)
    BY Zenon DEF CoderInv, History
  <2>2. Finish(encoder) \in Seq(Octets)
    BY <2>1, AllPlaced, Zenon DEF CoderInv, History
  <2> DEFINE z == Finish(encoder)
  <2> HIDE DEF z
  <2>3. PartOf(z, z, TRUE)
    BY <2>2 DEF PartOf, z
  <2>4. RightBits(z, TRUE, put)
    BY <2>3, AllRight, Zenon DEF CoderInv, z
  <2> QED BY <2>4, Zenon DEF DecodesWhatWasEncoded, RightBits, z
<1> QED BY <1>1, CoderInvInductive, PTL DEF CoderSpec

(* From the beginning of a partition, every bit asked of a decoder that is   *)
(* still valid() is right: error concealment may use what it got so far      *)
(* (bool_decoder.hh).                                                        *)
THEOREM RightWhileValidAlways == CoderSpec => []RightWhileValid
<1>1. CoderInv => RightWhileValid
  <2> SUFFICES ASSUME CoderInv PROVE RightWhileValid
    OBVIOUS
  <2>1. PICK h \in [ 0..Len(put) -> SoundEncoders ] : Encoded(h, put, encoder)
    BY Zenon DEF CoderInv, History
  <2>2. Finish(encoder) \in Seq(Octets)
    BY <2>1, AllPlaced, Zenon DEF CoderInv, History
  <2> DEFINE z == Finish(encoder)
             s(length) == SubSeq(z, 1, length)
  <2> HIDE DEF z
  <2>3. ASSUME NEW length \in 0..Len(z) PROVE PartOf(s(length), z, FALSE)
    <3>1. z \in Seq(Octets)
      BY <2>2, Zenon DEF z
    <3>2. s(length) \in Seq(Octets) /\ Len(s(length)) = length
          /\ \A k \in 1..length : s(length)[k] = z[k]
      BY <3>1
    <3>3. length <= Len(z)
      BY <3>1
    <3> HIDE DEF s
    <3> QED BY <3>1, <3>2, <3>3, Zenon DEF PartOf
  <2>4. ASSUME NEW length \in 0..Len(z) PROVE RightBits(s(length), FALSE, put)
    BY <2>3, AllRight, Zenon DEF CoderInv, z
  <2> QED BY <2>4, Zenon DEF RightWhileValid, RightBits, z
<1> QED BY <1>1, CoderInvInductive, PTL DEF CoderSpec

(***************************************************************************)
(* The widths that Put is modelled without.                                *)
(***************************************************************************)
(* An interval needs no more than the 32 bits of bottom_; and when a carry   *)
(* can come, an octet of the output is below 255, where it stops.            *)
Registers(e) ==
  /\ e.bottom + e.range <= 2^(Delay + 8)
  /\ e.bottom + e.range > 2^(Delay + e.bit_count + 8) =>
       \E k \in DOMAIN e.output : e.output[k] # 255

RegistersSuffice == Registers(encoder)

(* See Registers.                                                            *)
LEMMA SoundRegisters ==
  ASSUME NEW e, Sound(e)
  PROVE  Registers(e)
<1>1. PICK o \in Seq(Octets), r \in 1..255, b \in Nat, d \in 0..(Delay - 1) :
        e = Encoder(o, r, b, d)
  <2>1. e \in Encoders
    BY Zenon DEF Sound, Fits
  <2> QED BY <2>1, IsEncoder, Zenon
<1>2. e.output = o /\ e.range = r /\ e.bottom = b /\ e.bit_count = d - Delay
  BY <1>1 DEF Encoder
<1>3. d \in Nat /\ d + 8 \in 0..32 /\ d + 9 \in Nat /\ Delay + 8 \in 0..32
      /\ Delay + (d - Delay) + 8 = d + 8
      /\ (Delay - 1) - d \in Nat /\ (d + 9) + ((Delay - 1) - d) = Delay + 8
  BY CoderAssumption
<1>4. EncoderFacts(o, r, b, d, e)
  <2>1. EncoderFacts(o, r, b, d, Encoder(o, r, b, d))
    BY EncoderIs, Zenon
  <2> QED BY <1>1, <2>1, Zenon
<1>5. b + r <= Reach(d) /\ (Above(o, d) + b) + r <= Top(o, d)
  BY <1>4, Zenon DEF Sound, EncoderFacts
<1>6. Power[d + 9] = Reach(d) /\ Power[d + 8] = 256 * Power[d]
  <2>1. Power[d + 9] = 512 * Power[d] /\ Power[d + 8] = 256 * Power[d]
    BY <1>3, PowerEight
  <2> QED BY <2>1, Zenon DEF Reach
<1>7. PICK reach \in Nat : reach = Reach(d)
  BY <1>3, NumbersAre, Zenon
<1>8. Power[Delay + 8] >= reach /\ Power[Delay + 8] \in Nat
  <2>1. PICK more \in Nat : more = Power[(Delay - 1) - d] /\ more >= 1
    BY <1>3, PowerPositive, Zenon
  <2> DEFINE x == d + 9
             y == (Delay - 1) - d
  <2>2. Power[x + y] = reach * more
    <3>1. x \in Nat /\ y \in Nat /\ Power[x] = reach /\ Power[y] = more
      BY <1>3, <1>6, <1>7, <2>1, Zenon
    <3> HIDE DEF x, y
    <3> QED BY <3>1, PowerSum, Zenon
  <2>3. reach * more >= reach /\ reach * more \in Nat
    BY <2>1
  <2> QED BY <1>3, <2>2, <2>3, Zenon
<1>9. b + r <= 2^(Delay + 8)
  <2>1. 2^(Delay + 8) = Power[Delay + 8]
    BY <1>3, ShiftIs, Zenon
  <2>2. b + r <= Power[Delay + 8]
    BY <1>5, <1>7, <1>8
  <2> QED BY <2>1, <2>2, Zenon
<1>10. ASSUME \A k \in DOMAIN o : o[k] = 255 PROVE b + r <= 2^(d + 8)
  <2>1. PICK n \in Nat : n = Len(o) /\ n \in 0..Len(o)
    OBVIOUS
  <2>2. \A k \in 1..n : o[k] = 255
    BY <1>10, <2>1
  <2>3. Worth(o)[n] = Power[8 * n] - 1
    BY <2>1, <2>2, WorthFull, Zenon
  <2>4. 8 * n \in Nat
    OBVIOUS
  <2>5. PICK pn \in Nat : pn = Power[8 * n] /\ pn >= 1
    BY <2>4, PowerPositive, Zenon
  <2>6. PICK pd \in Nat : pd = 256 * Power[d]
    <3>1. Power[d] \in Nat
      BY <1>3, PowerPositive, Zenon
    <3> QED BY <3>1
  <2>7. Above(o, d) = (pn - 1) * pd /\ Top(o, d) = pn * pd
    BY <2>1, <2>3, <2>5, <2>6, Zenon DEF Above, Top
  <2>8. ((pn - 1) * pd + b) + r <= pn * pd
    BY <1>5, <2>7, Zenon
  <2>9. (pn - 1) * pd = pn * pd - pd /\ pn * pd \in Nat
    OBVIOUS
  <2>10. b + r <= pd
    BY <2>8, <2>9
  <2>11. 2^(d + 8) = pd
    BY <1>3, <1>6, <2>6, ShiftIs, Zenon
  <2> QED BY <2>10, <2>11, Zenon
<1>11. 2^(d + 8) \in Nat /\ b + r \in Nat
  <2>1. 2^(d + 8) = Power[d + 8] /\ Power[d + 8] \in Nat
    <3> DEFINE x == d + 8
    <3>1. x \in 0..32 /\ x \in Nat
      BY <1>3
    <3> HIDE DEF x
    <3>2. 2^x = Power[x] /\ Power[x] \in Nat
      BY <3>1, ShiftIs, PowerPositive, Zenon
    <3> QED BY <3>2, Zenon DEF x
  <2>2. b + r \in Nat
    OBVIOUS
  <2> QED BY <2>1, <2>2, Zenon
<1>12. b + r > 2^(d + 8) => \E k \in DOMAIN o : o[k] # 255
  <2>1. b + r > 2^(d + 8) => ~ (b + r <= 2^(d + 8))
    BY <1>11
  <2>2. ~ (b + r <= 2^(d + 8)) => ~ (\A k \in DOMAIN o : o[k] = 255)
    BY <1>10
  <2> QED BY <2>1, <2>2
<1> QED BY <1>2, <1>3, <1>9, <1>12, Zenon DEF Registers

(* BoolEncoder::put (bool_encoder.hh:110-143) loses no bit of bottom_ to its *)
(* width, and add_one_to_output (bool_encoder.hh:68-76) never runs past the  *)
(* first octet: its assertion holds.                                         *)
THEOREM RegistersAlwaysSuffice == CoderSpec => []RegistersSuffice
<1>1. CoderInv => RegistersSuffice
  <2> SUFFICES ASSUME CoderInv PROVE RegistersSuffice
    OBVIOUS
  <2>1. PICK h \in [ 0..Len(put) -> SoundEncoders ] : Encoded(h, put, encoder)
    BY Zenon DEF CoderInv, History
  <2>2. Len(put) \in 0..Len(put)
    <3>1. put \in Seq(BitSet)
      BY Zenon DEF CoderInv, History
    <3> QED BY <3>1
  <2>3. encoder \in SoundEncoders
    BY <2>1, <2>2, Zenon DEF Encoded
  <2> QED BY <2>3, SoundIs, SoundRegisters, Zenon DEF RegistersSuffice
<1> QED BY <1>1, CoderInvInductive, PTL DEF CoderSpec
==============================================================================
