---------------------------- MODULE ShamirProofs ----------------------------
(***************************************************************************)
(* Proofs about Shamir: Add, Mul and Inv are those of a field, and where    *)
(* two shares are enough any two give the secret back and one says nothing. *)
(*                                                                         *)
(* Mul is associative and commutative because it is linear in each argument *)
(* and its basis is made of powers of x; x^254 is the inverse because       *)
(* squaring, being linear too, gives a back after eight times.              *)
(***************************************************************************)
EXTENDS Shamir, TLAPS

LEMMA AddBytes ==
    ASSUME NEW a \in Bytes, NEW b \in Bytes
    PROVE  Add(a, b) \in Bytes
  BY DEF Add, Bytes

LEMMA AddIsGroup ==
    /\ \A a : Add(a, Zero) = a /\ Add(Zero, a) = a /\ Add(a, a) = Zero
    /\ \A a, b : Add(a, b) = Add(b, a)
    /\ \A a, b, c : Add(Add(a, b), c) = Add(a, Add(b, c))
  BY DEF Add, Zero

\* Two sums are added term by term.
LEMMA AddPairs ==
    ASSUME NEW a, NEW b, NEW c, NEW d
    PROVE  Add(Add(a, b), Add(c, d)) = Add(Add(a, c), Add(b, d))
  BY DEF Add

\* Shifted, bit by bit.
LEMMA ShiftedBits ==
    ASSUME NEW a \in Bytes
    PROVE  /\ Shifted(a) \in Bytes
           /\ 0 \in Shifted(a) <=> 7 \in a
           /\ 1 \in Shifted(a) <=> ~(0 \in a <=> 7 \in a)
           /\ 2 \in Shifted(a) <=> 1 \in a
           /\ 3 \in Shifted(a) <=> ~(2 \in a <=> 7 \in a)
           /\ 4 \in Shifted(a) <=> ~(3 \in a <=> 7 \in a)
           /\ 5 \in Shifted(a) <=> 4 \in a
           /\ 6 \in Shifted(a) <=> 5 \in a
           /\ 7 \in Shifted(a) <=> 6 \in a
<1> DEFINE up == {b \in 1 .. 7 : b - 1 \in a}
           low == IF 7 \in a THEN {0, 1, 3, 4} ELSE Zero
<1>1. /\ 0 \notin up
      /\ 1 \in up <=> 0 \in a
      /\ 2 \in up <=> 1 \in a
      /\ 3 \in up <=> 2 \in a
      /\ 4 \in up <=> 3 \in a
      /\ 5 \in up <=> 4 \in a
      /\ 6 \in up <=> 5 \in a
      /\ 7 \in up <=> 6 \in a
      /\ up \subseteq Bits
  BY DEF Bits
<1>2. /\ \A b \in {0, 1, 3, 4} : b \in low <=> 7 \in a
      /\ \A b \in {2, 5, 6, 7} : b \notin low
      /\ low \subseteq Bits
  BY DEF Zero, Bits
<1>3. Shifted(a) = Add(up, low)
  BY DEF Shifted
<1> HIDE DEF up, low
<1>4. \A b : b \in Shifted(a) <=> ~(b \in up <=> b \in low)
  BY <1>3 DEF Add
<1>5. Shifted(a) \in Bytes
  BY <1>1, <1>2, <1>4 DEF Bytes
<1>6. QED
  BY <1>1, <1>2, <1>4, <1>5

\* Bytes are equal if their bits are.
LEMMA SameBits ==
    ASSUME NEW a \in Bytes, NEW b \in Bytes,
           0 \in a <=> 0 \in b, 1 \in a <=> 1 \in b, 2 \in a <=> 2 \in b, 3 \in a <=> 3 \in b,
           4 \in a <=> 4 \in b, 5 \in a <=> 5 \in b, 6 \in a <=> 6 \in b, 7 \in a <=> 7 \in b
    PROVE  a = b
<1>1. \A e \in Bits : e \in {0, 1, 2, 3, 4, 5, 6, 7}
  BY DEF Bits
<1>2. \A e \in Bits : e \in a <=> e \in b
  BY <1>1
<1>3. QED
  BY <1>2 DEF Bytes

LEMMA AddBits == \A a, b, e : e \in Add(a, b) <=> ~(e \in a <=> e \in b)
  BY DEF Add

LEMMA ShiftedOfSum ==
    ASSUME NEW a \in Bytes, NEW b \in Bytes
    PROVE  Shifted(Add(a, b)) = Add(Shifted(a), Shifted(b))
<1>1. Add(a, b) \in Bytes /\ Shifted(a) \in Bytes /\ Shifted(b) \in Bytes
  BY AddBytes, ShiftedBits
<1>2. Add(Shifted(a), Shifted(b)) \in Bytes /\ Shifted(Add(a, b)) \in Bytes
  BY <1>1, AddBytes, ShiftedBits
<1>3. QED
  BY <1>1, <1>2, ShiftedBits, AddBits, SameBits

LEMMA ShiftedZero == Shifted(Zero) = Zero
<1>1. Zero \in Bytes /\ \A e : e \notin Zero
  BY DEF Zero, Bytes
<1>2. QED
  BY <1>1, ShiftedBits, SameBits

LEMMA TermBytes ==
    ASSUME NEW a, NEW bit, NEW s \in Bytes
    PROVE  Term(a, bit, s) \in Bytes
  BY DEF Term, Zero, Bytes

LEMMA TermZero == \A a, bit : Term(a, bit, Zero) = Zero
  BY DEF Term

LEMMA TermOfSum ==
    ASSUME NEW a, NEW bit, NEW s, NEW t
    PROVE  Term(a, bit, Add(s, t)) = Add(Term(a, bit, s), Term(a, bit, t))
  BY AddIsGroup DEF Term

LEMMA TermAtSum ==
    ASSUME NEW a, NEW b, NEW bit, NEW s
    PROVE  Term(Add(a, b), bit, s) = Add(Term(a, bit, s), Term(b, bit, s))
  BY AddBits, AddIsGroup DEF Term

LEMMA TermShifted ==
    ASSUME NEW a, NEW bit, NEW s
    PROVE  Term(a, bit, Shifted(s)) = Shifted(Term(a, bit, s))
  BY ShiftedZero DEF Term

(***************************************************************************)
(* Mul is the multiplication of a commutative ring.                        *)
(***************************************************************************)

\* The sum of the terms of Mul; t[k] is the term of bit k.
Sum8(t) ==
    Add(t[0], Add(t[1], Add(t[2], Add(t[3], Add(t[4], Add(t[5], Add(t[6], t[7])))))))

\* Shifts(a)[k] is a times x^k.
Shifts(a) ==
    LET a1 == Shifted(a)    a2 == Shifted(a1)  a3 == Shifted(a2)  a4 == Shifted(a3)
        a5 == Shifted(a4)   a6 == Shifted(a5)  a7 == Shifted(a6)
    IN [k \in Bits |-> IF k = 0 THEN a ELSE IF k = 1 THEN a1 ELSE IF k = 2 THEN a2
                       ELSE IF k = 3 THEN a3 ELSE IF k = 4 THEN a4
                       ELSE IF k = 5 THEN a5 ELSE IF k = 6 THEN a6 ELSE a7]

Terms(a, b) == [k \in Bits |-> Term(b, k, Shifts(a)[k])]

LEMMA BitsAre == Bits = {0, 1, 2, 3, 4, 5, 6, 7}
  BY DEF Bits

LEMMA ZeroOneBytes == Zero \in Bytes /\ One \in Bytes
  BY BitsAre DEF Zero, One, Bytes

LEMMA ShiftsAre ==
    ASSUME NEW a \in Bytes
    PROVE  /\ Shifts(a) \in [Bits -> Bytes]
           /\ Shifts(a)[0] = a
           /\ Shifts(a)[1] = Shifted(Shifts(a)[0])
           /\ Shifts(a)[2] = Shifted(Shifts(a)[1])
           /\ Shifts(a)[3] = Shifted(Shifts(a)[2])
           /\ Shifts(a)[4] = Shifted(Shifts(a)[3])
           /\ Shifts(a)[5] = Shifted(Shifts(a)[4])
           /\ Shifts(a)[6] = Shifted(Shifts(a)[5])
           /\ Shifts(a)[7] = Shifted(Shifts(a)[6])
<1> DEFINE a1 == Shifted(a)
           a2 == Shifted(a1)
           a3 == Shifted(a2)
           a4 == Shifted(a3)
           a5 == Shifted(a4)
           a6 == Shifted(a5)
           a7 == Shifted(a6)
<1>1. a1 \in Bytes
  BY ShiftedBits
<1>2. a2 \in Bytes
  BY <1>1, ShiftedBits
<1>3. a3 \in Bytes
  BY <1>2, ShiftedBits
<1>4. a4 \in Bytes
  BY <1>3, ShiftedBits
<1>5. a5 \in Bytes
  BY <1>4, ShiftedBits
<1>6. a6 \in Bytes
  BY <1>5, ShiftedBits
<1>7. a7 \in Bytes
  BY <1>6, ShiftedBits
<1>8. Shifts(a) = [k \in Bits |-> IF k = 0 THEN a ELSE IF k = 1 THEN a1 ELSE IF k = 2 THEN a2
                                  ELSE IF k = 3 THEN a3 ELSE IF k = 4 THEN a4
                                  ELSE IF k = 5 THEN a5 ELSE IF k = 6 THEN a6 ELSE a7]
  BY DEF Shifts
<1>9. /\ a2 = Shifted(a1) /\ a3 = Shifted(a2) /\ a4 = Shifted(a3) /\ a5 = Shifted(a4)
      /\ a6 = Shifted(a5) /\ a7 = Shifted(a6) /\ a1 = Shifted(a)
  OBVIOUS
<1> HIDE DEF a1, a2, a3, a4, a5, a6, a7
<1>10. Shifts(a) \in [Bits -> Bytes]
  BY <1>1, <1>2, <1>3, <1>4, <1>5, <1>6, <1>7, <1>8
<1>11. /\ Shifts(a)[0] = a /\ Shifts(a)[1] = a1 /\ Shifts(a)[2] = a2 /\ Shifts(a)[3] = a3
       /\ Shifts(a)[4] = a4 /\ Shifts(a)[5] = a5 /\ Shifts(a)[6] = a6 /\ Shifts(a)[7] = a7
  BY <1>8, BitsAre
<1>12. QED
  BY <1>9, <1>10, <1>11

LEMMA MulIs ==
    ASSUME NEW a \in Bytes, NEW b \in Bytes
    PROVE  Mul(a, b) = Sum8(Terms(a, b)) /\ Terms(a, b) \in [Bits -> Bytes]
<1> DEFINE s == Shifts(a)
<1>1. Mul(a, b) = Add(Term(b, 0, s[0]), Add(Term(b, 1, s[1]), Add(Term(b, 2, s[2]),
                  Add(Term(b, 3, s[3]), Add(Term(b, 4, s[4]), Add(Term(b, 5, s[5]),
                  Add(Term(b, 6, s[6]), Term(b, 7, s[7]))))))))
  <2> DEFINE a1 == Shifted(a)
             a2 == Shifted(a1)
             a3 == Shifted(a2)
             a4 == Shifted(a3)
             a5 == Shifted(a4)
             a6 == Shifted(a5)
             a7 == Shifted(a6)
  <2>1. /\ s[0] = a /\ s[1] = a1 /\ s[2] = a2 /\ s[3] = a3
        /\ s[4] = a4 /\ s[5] = a5 /\ s[6] = a6 /\ s[7] = a7
    BY ShiftsAre
  <2>2. Mul(a, b) = Add(Term(b, 0, a), Add(Term(b, 1, a1), Add(Term(b, 2, a2),
                    Add(Term(b, 3, a3), Add(Term(b, 4, a4), Add(Term(b, 5, a5),
                    Add(Term(b, 6, a6), Term(b, 7, a7))))))))
    BY DEF Mul
  <2> HIDE DEF a1, a2, a3, a4, a5, a6, a7, s
  <2>3. QED
    BY <2>1, <2>2
<1>2. \A k \in Bits : Terms(a, b)[k] = Term(b, k, s[k])
  BY DEF Terms
<1>3. \A k \in Bits : Term(b, k, s[k]) \in Bytes
  BY ShiftsAre, TermBytes
<1>4. QED
  BY <1>1, <1>2, <1>3, BitsAre DEF Sum8, Terms

LEMMA Sum8Facts ==
    ASSUME NEW t \in [Bits -> Bytes]
    PROVE  /\ Sum8(t) \in Bytes
           /\ Sum8([k \in Bits |-> Shifted(t[k])]) = Shifted(Sum8(t))
<1> DEFINE s6 == Add(t[6], t[7])
           s5 == Add(t[5], s6)
           s4 == Add(t[4], s5)
           s3 == Add(t[3], s4)
           s2 == Add(t[2], s3)
           s1 == Add(t[1], s2)
           s0 == Add(t[0], s1)
<1>1. \A k \in Bits : t[k] \in Bytes
  OBVIOUS
<1>2. /\ t[0] \in Bytes /\ t[1] \in Bytes /\ t[2] \in Bytes /\ t[3] \in Bytes
      /\ t[4] \in Bytes /\ t[5] \in Bytes /\ t[6] \in Bytes /\ t[7] \in Bytes
  BY <1>1, BitsAre
<1>3. /\ s6 \in Bytes /\ s5 \in Bytes /\ s4 \in Bytes /\ s3 \in Bytes
      /\ s2 \in Bytes /\ s1 \in Bytes /\ s0 \in Bytes
  BY <1>2, AddBytes
<1>4. /\ Shifted(s6) = Add(Shifted(t[6]), Shifted(t[7]))
      /\ Shifted(s5) = Add(Shifted(t[5]), Shifted(s6))
      /\ Shifted(s4) = Add(Shifted(t[4]), Shifted(s5))
      /\ Shifted(s3) = Add(Shifted(t[3]), Shifted(s4))
      /\ Shifted(s2) = Add(Shifted(t[2]), Shifted(s3))
      /\ Shifted(s1) = Add(Shifted(t[1]), Shifted(s2))
      /\ Shifted(s0) = Add(Shifted(t[0]), Shifted(s1))
  BY <1>2, <1>3, ShiftedOfSum
<1>5. Sum8(t) = s0
  BY DEF Sum8
<1>6. Sum8([k \in Bits |-> Shifted(t[k])])
         = Add(Shifted(t[0]), Add(Shifted(t[1]), Add(Shifted(t[2]), Add(Shifted(t[3]),
           Add(Shifted(t[4]), Add(Shifted(t[5]), Add(Shifted(t[6]), Shifted(t[7]))))))))
  BY BitsAre DEF Sum8
<1>7. QED
  BY <1>3, <1>4, <1>5, <1>6

LEMMA Sum8OfSums ==
    ASSUME NEW t, NEW u
    PROVE  Sum8([k \in Bits |-> Add(t[k], u[k])]) = Add(Sum8(t), Sum8(u))
<1>1. Sum8([k \in Bits |-> Add(t[k], u[k])])
         = Add(Add(t[0], u[0]), Add(Add(t[1], u[1]), Add(Add(t[2], u[2]), Add(Add(t[3], u[3]),
           Add(Add(t[4], u[4]), Add(Add(t[5], u[5]), Add(Add(t[6], u[6]), Add(t[7], u[7]))))))))
  BY BitsAre DEF Sum8
<1> DEFINE t6 == Add(t[6], t[7])  u6 == Add(u[6], u[7])
           t5 == Add(t[5], t6)    u5 == Add(u[5], u6)
           t4 == Add(t[4], t5)    u4 == Add(u[4], u5)
           t3 == Add(t[3], t4)    u3 == Add(u[3], u4)
           t2 == Add(t[2], t3)    u2 == Add(u[2], u3)
           t1 == Add(t[1], t2)    u1 == Add(u[1], u2)
           t0 == Add(t[0], t1)    u0 == Add(u[0], u1)
<1>2. Add(Add(t[6], u[6]), Add(t[7], u[7])) = Add(t6, u6)
  BY AddPairs
<1>3. Add(Add(t[5], u[5]), Add(t6, u6)) = Add(t5, u5)
  <2> HIDE DEF t6, u6
  <2> QED BY AddPairs
<1>4. Add(Add(t[4], u[4]), Add(t5, u5)) = Add(t4, u4)
  <2> HIDE DEF t5, u5
  <2> QED BY AddPairs
<1>5. Add(Add(t[3], u[3]), Add(t4, u4)) = Add(t3, u3)
  <2> HIDE DEF t4, u4
  <2> QED BY AddPairs
<1>6. Add(Add(t[2], u[2]), Add(t3, u3)) = Add(t2, u2)
  <2> HIDE DEF t3, u3
  <2> QED BY AddPairs
<1>7. Add(Add(t[1], u[1]), Add(t2, u2)) = Add(t1, u1)
  <2> HIDE DEF t2, u2
  <2> QED BY AddPairs
<1>8. Add(Add(t[0], u[0]), Add(t1, u1)) = Add(t0, u0)
  <2> HIDE DEF t1, u1
  <2> QED BY AddPairs
<1>9. Sum8(t) = t0 /\ Sum8(u) = u0
  BY DEF Sum8
<1> HIDE DEF t0, u0, t1, u1, t2, u2, t3, u3, t4, u4, t5, u5, t6, u6
<1>10. QED
  BY <1>1, <1>2, <1>3, <1>4, <1>5, <1>6, <1>7, <1>8, <1>9

LEMMA MulBytes ==
    ASSUME NEW a \in Bytes, NEW b \in Bytes
    PROVE  Mul(a, b) \in Bytes
  BY MulIs, Sum8Facts

LEMMA ShiftsOfSum ==
    ASSUME NEW a \in Bytes, NEW b \in Bytes, NEW k \in Bits
    PROVE  Shifts(Add(a, b))[k] = Add(Shifts(a)[k], Shifts(b)[k])
<1> DEFINE s == Shifts(Add(a, b))
           u == Shifts(a)
           v == Shifts(b)
<1>1. Add(a, b) \in Bytes
  BY AddBytes
<1>2. \A j \in Bits : u[j] \in Bytes /\ v[j] \in Bytes
  BY ShiftsAre
<1>3. /\ s[0] = Add(a, b) /\ u[0] = a /\ v[0] = b
      /\ s[1] = Shifted(s[0]) /\ u[1] = Shifted(u[0]) /\ v[1] = Shifted(v[0])
      /\ s[2] = Shifted(s[1]) /\ u[2] = Shifted(u[1]) /\ v[2] = Shifted(v[1])
      /\ s[3] = Shifted(s[2]) /\ u[3] = Shifted(u[2]) /\ v[3] = Shifted(v[2])
      /\ s[4] = Shifted(s[3]) /\ u[4] = Shifted(u[3]) /\ v[4] = Shifted(v[3])
      /\ s[5] = Shifted(s[4]) /\ u[5] = Shifted(u[4]) /\ v[5] = Shifted(v[4])
      /\ s[6] = Shifted(s[5]) /\ u[6] = Shifted(u[5]) /\ v[6] = Shifted(v[5])
      /\ s[7] = Shifted(s[6]) /\ u[7] = Shifted(u[6]) /\ v[7] = Shifted(v[6])
  BY <1>1, ShiftsAre
<1> HIDE DEF s, u, v
<1>4. \A j \in Bits : Shifted(Add(u[j], v[j])) = Add(Shifted(u[j]), Shifted(v[j]))
  BY <1>2, ShiftedOfSum
<1>5. s[0] = Add(u[0], v[0])
  BY <1>3
<1>6. s[1] = Add(u[1], v[1])
  BY <1>3, <1>4, <1>5, BitsAre
<1>7. s[2] = Add(u[2], v[2])
  BY <1>3, <1>4, <1>6, BitsAre
<1>8. s[3] = Add(u[3], v[3])
  BY <1>3, <1>4, <1>7, BitsAre
<1>9. s[4] = Add(u[4], v[4])
  BY <1>3, <1>4, <1>8, BitsAre
<1>10. s[5] = Add(u[5], v[5])
  BY <1>3, <1>4, <1>9, BitsAre
<1>11. s[6] = Add(u[6], v[6])
  BY <1>3, <1>4, <1>10, BitsAre
<1>12. s[7] = Add(u[7], v[7])
  BY <1>3, <1>4, <1>11, BitsAre
<1>13. QED
  BY <1>5, <1>6, <1>7, <1>8, <1>9, <1>10, <1>11, <1>12, BitsAre DEF s, u, v

LEMMA ShiftsOfShifted ==
    ASSUME NEW a \in Bytes, NEW k \in Bits
    PROVE  Shifts(Shifted(a))[k] = Shifted(Shifts(a)[k])
<1> DEFINE s == Shifts(Shifted(a))
           u == Shifts(a)
<1>1. Shifted(a) \in Bytes
  BY ShiftedBits
<1>2. /\ s[0] = Shifted(a) /\ u[0] = a
      /\ s[1] = Shifted(s[0]) /\ u[1] = Shifted(u[0])
      /\ s[2] = Shifted(s[1]) /\ u[2] = Shifted(u[1])
      /\ s[3] = Shifted(s[2]) /\ u[3] = Shifted(u[2])
      /\ s[4] = Shifted(s[3]) /\ u[4] = Shifted(u[3])
      /\ s[5] = Shifted(s[4]) /\ u[5] = Shifted(u[4])
      /\ s[6] = Shifted(s[5]) /\ u[6] = Shifted(u[5])
      /\ s[7] = Shifted(s[6]) /\ u[7] = Shifted(u[6])
  BY <1>1, ShiftsAre
<1> HIDE DEF s, u
<1>3. /\ s[0] = Shifted(u[0]) /\ s[1] = Shifted(u[1]) /\ s[2] = Shifted(u[2])
      /\ s[3] = Shifted(u[3]) /\ s[4] = Shifted(u[4]) /\ s[5] = Shifted(u[5])
      /\ s[6] = Shifted(u[6]) /\ s[7] = Shifted(u[7])
  BY <1>2
<1>4. QED
  BY <1>3, BitsAre DEF s, u

LEMMA MulLeft ==
    ASSUME NEW a \in Bytes, NEW b \in Bytes, NEW c \in Bytes
    PROVE  Mul(Add(a, b), c) = Add(Mul(a, c), Mul(b, c))
<1> DEFINE s == Terms(Add(a, b), c)
           t == Terms(a, c)
           u == Terms(b, c)
<1>1. Add(a, b) \in Bytes
  BY AddBytes
<1>2. \A k \in Bits : Shifts(a)[k] \in Bytes /\ Shifts(b)[k] \in Bytes
  BY ShiftsAre
<1>3. \A k \in Bits : Term(c, k, Add(Shifts(a)[k], Shifts(b)[k]))
                         = Add(Term(c, k, Shifts(a)[k]), Term(c, k, Shifts(b)[k]))
  BY TermOfSum
<1>4. \A k \in Bits : Shifts(Add(a, b))[k] = Add(Shifts(a)[k], Shifts(b)[k])
  BY ShiftsOfSum
<1>5. s = [k \in Bits |-> Add(t[k], u[k])]
  BY <1>3, <1>4 DEF Terms
<1>6. Mul(Add(a, b), c) = Sum8(s) /\ Mul(a, c) = Sum8(t) /\ Mul(b, c) = Sum8(u)
  BY <1>1, MulIs
<1> HIDE DEF s, t, u
<1>7. QED
  BY <1>5, <1>6, Sum8OfSums

LEMMA MulRight ==
    ASSUME NEW a \in Bytes, NEW b \in Bytes, NEW c \in Bytes
    PROVE  Mul(a, Add(b, c)) = Add(Mul(a, b), Mul(a, c))
<1> DEFINE s == Terms(a, Add(b, c))
           t == Terms(a, b)
           u == Terms(a, c)
<1>1. Add(b, c) \in Bytes
  BY AddBytes
<1>2. \A k \in Bits : Shifts(a)[k] \in Bytes
  BY ShiftsAre
<1>3. \A k \in Bits : Term(Add(b, c), k, Shifts(a)[k])
                         = Add(Term(b, k, Shifts(a)[k]), Term(c, k, Shifts(a)[k]))
  BY TermAtSum
<1>4. s = [k \in Bits |-> Add(t[k], u[k])]
  BY <1>3 DEF Terms
<1>5. Mul(a, Add(b, c)) = Sum8(s) /\ Mul(a, b) = Sum8(t) /\ Mul(a, c) = Sum8(u)
  BY <1>1, MulIs
<1> HIDE DEF s, t, u
<1>6. QED
  BY <1>4, <1>5, Sum8OfSums

LEMMA MulShifted ==
    ASSUME NEW a \in Bytes, NEW b \in Bytes
    PROVE  Mul(Shifted(a), b) = Shifted(Mul(a, b))
<1> DEFINE s == Terms(Shifted(a), b)
           t == Terms(a, b)
<1>1. Shifted(a) \in Bytes
  BY ShiftedBits
<1>2. \A k \in Bits : Shifts(a)[k] \in Bytes
  BY ShiftsAre
<1>3. \A k \in Bits : Term(b, k, Shifted(Shifts(a)[k])) = Shifted(Term(b, k, Shifts(a)[k]))
  BY TermShifted
<1>4. \A k \in Bits : Shifts(Shifted(a))[k] = Shifted(Shifts(a)[k])
  BY ShiftsOfShifted
<1>5. s = [k \in Bits |-> Shifted(t[k])]
  BY <1>3, <1>4 DEF Terms
<1>6. Mul(Shifted(a), b) = Sum8(s) /\ Mul(a, b) = Sum8(t) /\ t \in [Bits -> Bytes]
  BY <1>1, MulIs
<1> HIDE DEF s, t
<1>7. QED
  BY <1>5, <1>6, Sum8Facts

\* The shifts of a product are products of shifts.
LEMMA ShiftsOfMul ==
    ASSUME NEW a \in Bytes, NEW b \in Bytes, NEW k \in Bits
    PROVE  Shifts(Mul(a, b))[k] = Mul(Shifts(a)[k], b)
<1> DEFINE s == Shifts(Mul(a, b))
           u == Shifts(a)
<1>1. Mul(a, b) \in Bytes
  BY MulBytes
<1>2. /\ s[0] = Mul(a, b) /\ u[0] = a
      /\ s[1] = Shifted(s[0]) /\ u[1] = Shifted(u[0])
      /\ s[2] = Shifted(s[1]) /\ u[2] = Shifted(u[1])
      /\ s[3] = Shifted(s[2]) /\ u[3] = Shifted(u[2])
      /\ s[4] = Shifted(s[3]) /\ u[4] = Shifted(u[3])
      /\ s[5] = Shifted(s[4]) /\ u[5] = Shifted(u[4])
      /\ s[6] = Shifted(s[5]) /\ u[6] = Shifted(u[5])
      /\ s[7] = Shifted(s[6]) /\ u[7] = Shifted(u[6])
  BY <1>1, ShiftsAre
<1>3. \A j \in Bits : u[j] \in Bytes
  BY ShiftsAre
<1> HIDE DEF s, u
<1>4. \A j \in Bits : Mul(Shifted(u[j]), b) = Shifted(Mul(u[j], b))
  BY <1>3, MulShifted
<1>5. s[0] = Mul(u[0], b)
  BY <1>2
<1>6. s[1] = Mul(u[1], b)
  BY <1>2, <1>4, <1>5, BitsAre
<1>7. s[2] = Mul(u[2], b)
  BY <1>2, <1>4, <1>6, BitsAre
<1>8. s[3] = Mul(u[3], b)
  BY <1>2, <1>4, <1>7, BitsAre
<1>9. s[4] = Mul(u[4], b)
  BY <1>2, <1>4, <1>8, BitsAre
<1>10. s[5] = Mul(u[5], b)
  BY <1>2, <1>4, <1>9, BitsAre
<1>11. s[6] = Mul(u[6], b)
  BY <1>2, <1>4, <1>10, BitsAre
<1>12. s[7] = Mul(u[7], b)
  BY <1>2, <1>4, <1>11, BitsAre
<1>13. QED
  BY <1>5, <1>6, <1>7, <1>8, <1>9, <1>10, <1>11, <1>12, BitsAre DEF s, u

LEMMA MulZero ==
    ASSUME NEW a \in Bytes
    PROVE  Mul(Zero, a) = Zero /\ Mul(a, Zero) = Zero
<1>1. Zero \in Bytes /\ Mul(Zero, a) \in Bytes /\ Mul(a, Zero) \in Bytes
  BY ZeroOneBytes, MulBytes
<1>2. Add(Zero, Zero) = Zero
  BY AddIsGroup
<1>3. Mul(Zero, a) = Add(Mul(Zero, a), Mul(Zero, a))
  BY <1>1, <1>2, MulLeft
<1>4. Mul(a, Zero) = Add(Mul(a, Zero), Mul(a, Zero))
  BY <1>1, <1>2, MulRight
<1>5. QED
  BY <1>3, <1>4, AddIsGroup

LEMMA MulOfSum8 ==
    ASSUME NEW t \in [Bits -> Bytes], NEW b \in Bytes
    PROVE  Mul(Sum8(t), b) = Sum8([k \in Bits |-> Mul(t[k], b)])
<1> DEFINE s6 == Add(t[6], t[7])
           s5 == Add(t[5], s6)
           s4 == Add(t[4], s5)
           s3 == Add(t[3], s4)
           s2 == Add(t[2], s3)
           s1 == Add(t[1], s2)
           s0 == Add(t[0], s1)
<1>1. /\ t[0] \in Bytes /\ t[1] \in Bytes /\ t[2] \in Bytes /\ t[3] \in Bytes
      /\ t[4] \in Bytes /\ t[5] \in Bytes /\ t[6] \in Bytes /\ t[7] \in Bytes
  BY BitsAre
<1>2. /\ s6 \in Bytes /\ s5 \in Bytes /\ s4 \in Bytes /\ s3 \in Bytes
      /\ s2 \in Bytes /\ s1 \in Bytes /\ s0 \in Bytes
  BY <1>1, AddBytes
<1>3. /\ Mul(s6, b) = Add(Mul(t[6], b), Mul(t[7], b))
      /\ Mul(s5, b) = Add(Mul(t[5], b), Mul(s6, b))
      /\ Mul(s4, b) = Add(Mul(t[4], b), Mul(s5, b))
      /\ Mul(s3, b) = Add(Mul(t[3], b), Mul(s4, b))
      /\ Mul(s2, b) = Add(Mul(t[2], b), Mul(s3, b))
      /\ Mul(s1, b) = Add(Mul(t[1], b), Mul(s2, b))
      /\ Mul(s0, b) = Add(Mul(t[0], b), Mul(s1, b))
  BY <1>1, <1>2, MulLeft
<1>4. Sum8(t) = s0
  BY DEF Sum8
<1>5. Sum8([k \in Bits |-> Mul(t[k], b)])
         = Add(Mul(t[0], b), Add(Mul(t[1], b), Add(Mul(t[2], b), Add(Mul(t[3], b),
           Add(Mul(t[4], b), Add(Mul(t[5], b), Add(Mul(t[6], b), Mul(t[7], b))))))))
  BY BitsAre DEF Sum8
<1>6. QED
  BY <1>3, <1>4, <1>5

LEMMA ShiftsOfOne == \A k \in Bits : Shifts(One)[k] = {k}
<1> DEFINE s == Shifts(One)
<1>1. \A k \in Bits : {k} \in Bytes
  BY DEF Bytes
<1>2. \A k \in 0 .. 6 : Shifted({k}) = {k + 1}
  <2> SUFFICES ASSUME NEW k \in 0 .. 6
               PROVE  Shifted({k}) = {k + 1}
    OBVIOUS
  <2>1. {k} \in Bytes /\ {k + 1} \in Bytes
    <3>1. k \in Bits /\ k + 1 \in Bits
      BY DEF Bits
    <3>2. QED
      BY <1>1, <3>1
  <2>2. \/ k = 0 \/ k = 1 \/ k = 2 \/ k = 3 \/ k = 4 \/ k = 5 \/ k = 6
    OBVIOUS
  <2>3. QED
    BY <2>1, <2>2, ShiftedBits, SameBits
<1>3. /\ s[0] = One
      /\ s[1] = Shifted(s[0]) /\ s[2] = Shifted(s[1]) /\ s[3] = Shifted(s[2])
      /\ s[4] = Shifted(s[3]) /\ s[5] = Shifted(s[4]) /\ s[6] = Shifted(s[5])
      /\ s[7] = Shifted(s[6])
  BY ShiftsAre, ZeroOneBytes
<1>4. /\ Shifted({0}) = {1} /\ Shifted({1}) = {2} /\ Shifted({2}) = {3} /\ Shifted({3}) = {4}
      /\ Shifted({4}) = {5} /\ Shifted({5}) = {6} /\ Shifted({6}) = {7}
  BY <1>2
<1> HIDE DEF s
<1>5. /\ s[0] = {0} /\ s[1] = {1} /\ s[2] = {2} /\ s[3] = {3}
      /\ s[4] = {4} /\ s[5] = {5} /\ s[6] = {6} /\ s[7] = {7}
  BY <1>3, <1>4 DEF One
<1>6. QED
  BY <1>5, BitsAre DEF s

LEMMA OneMul ==
    ASSUME NEW a \in Bytes
    PROVE  Mul(One, a) = a
<1> DEFINE t == Terms(One, a)
<1>1. Mul(One, a) = Sum8(t) /\ Sum8(t) \in Bytes
  BY MulIs, ZeroOneBytes, Sum8Facts
<1>2. \A k \in Bits : \A e : e \in t[k] <=> (e = k /\ k \in a)
  BY ShiftsOfOne DEF Terms, Term, Zero
<1> HIDE DEF t
<1>3. \A e : e \in Sum8(t) <=>
                ~(e \in t[0] <=> ~(e \in t[1] <=> ~(e \in t[2] <=> ~(e \in t[3] <=>
                ~(e \in t[4] <=> ~(e \in t[5] <=> ~(e \in t[6] <=> e \in t[7])))))))
  BY AddBits DEF Sum8
<1>4. \A e \in Bits : e \in Sum8(t) <=> e \in a
  <2> SUFFICES ASSUME NEW e \in Bits
               PROVE  e \in Sum8(t) <=> e \in a
    OBVIOUS
  <2>1. /\ e \in t[0] <=> (e = 0 /\ 0 \in a)
        /\ e \in t[1] <=> (e = 1 /\ 1 \in a)
        /\ e \in t[2] <=> (e = 2 /\ 2 \in a)
        /\ e \in t[3] <=> (e = 3 /\ 3 \in a)
        /\ e \in t[4] <=> (e = 4 /\ 4 \in a)
        /\ e \in t[5] <=> (e = 5 /\ 5 \in a)
        /\ e \in t[6] <=> (e = 6 /\ 6 \in a)
        /\ e \in t[7] <=> (e = 7 /\ 7 \in a)
    BY <1>2, BitsAre
  <2>2. \/ e = 0 \/ e = 1 \/ e = 2 \/ e = 3 \/ e = 4 \/ e = 5 \/ e = 6 \/ e = 7
    BY BitsAre
  <2>3. QED
    BY <1>3, <2>1, <2>2
<1>5. QED
  BY <1>1, <1>4 DEF Bytes

LEMMA MulOfTerms ==
    ASSUME NEW a \in Bytes, NEW b \in Bytes, NEW c \in Bytes
    PROVE  Mul(Mul(a, c), b) = Mul(Mul(a, b), c)
<1> DEFINE t == Terms(a, c)
           u == Terms(Mul(a, b), c)
<1>1. Mul(a, c) = Sum8(t) /\ t \in [Bits -> Bytes]
  BY MulIs
<1>2. Mul(a, b) \in Bytes
  BY MulBytes
<1>3. Mul(Mul(a, b), c) = Sum8(u)
  BY <1>2, MulIs
<1>4. \A k \in Bits : Shifts(a)[k] \in Bytes
  BY ShiftsAre
<1>5. \A k \in Bits : Mul(Term(c, k, Shifts(a)[k]), b) = Term(c, k, Mul(Shifts(a)[k], b))
  <2> SUFFICES ASSUME NEW k \in Bits
               PROVE  Mul(Term(c, k, Shifts(a)[k]), b) = Term(c, k, Mul(Shifts(a)[k], b))
    OBVIOUS
  <2> QED
    BY <1>4, MulZero DEF Term
<1>6. \A k \in Bits : Shifts(Mul(a, b))[k] = Mul(Shifts(a)[k], b)
  BY ShiftsOfMul
<1>7. u = [k \in Bits |-> Mul(t[k], b)]
  BY <1>5, <1>6 DEF Terms
<1> HIDE DEF t, u
<1>8. QED
  BY <1>1, <1>3, <1>7, MulOfSum8

LEMMA MulComm ==
    ASSUME NEW a \in Bytes, NEW b \in Bytes
    PROVE  Mul(a, b) = Mul(b, a)
  BY MulOfTerms, OneMul, ZeroOneBytes

LEMMA MulAssoc ==
    ASSUME NEW a \in Bytes, NEW b \in Bytes, NEW c \in Bytes
    PROVE  Mul(Mul(a, b), c) = Mul(a, Mul(b, c))
<1>1. Mul(Mul(a, b), c) = Mul(Mul(b, a), c)
  BY MulComm
<1>2. Mul(Mul(b, a), c) = Mul(Mul(b, c), a)
  BY MulOfTerms
<1>3. Mul(Mul(b, c), a) = Mul(a, Mul(b, c))
  BY MulComm, MulBytes
<1>4. QED
  BY <1>1, <1>2, <1>3

Xor(p, q) == ~(p <=> q)

\* The bits of the square of a.
IsSquare(r, a) ==
    /\ 0 \in r <=> Xor(0 \in a, Xor(4 \in a, 6 \in a))
    /\ 1 \in r <=> Xor(4 \in a, Xor(6 \in a, 7 \in a))
    /\ 2 \in r <=> Xor(1 \in a, 5 \in a)
    /\ 3 \in r <=> Xor(4 \in a, Xor(5 \in a, Xor(6 \in a, 7 \in a)))
    /\ 4 \in r <=> Xor(2 \in a, Xor(4 \in a, 7 \in a))
    /\ 5 \in r <=> Xor(5 \in a, 6 \in a)
    /\ 6 \in r <=> Xor(3 \in a, 5 \in a)
    /\ 7 \in r <=> Xor(6 \in a, 7 \in a)

\* Only five terms change.
LEMMA ReducedBits ==
    \A w, e, f : f \in Reduced(w, e)
                   <=> Xor(f \in w, e \in w /\ f \in {e, e - 4, e - 5, e - 7, e - 8})
  BY AddBits DEF Reduced, Xor

LEMMA SquareBits ==
    ASSUME NEW a \in Bytes
    PROVE  Square(a) \in Bytes /\ IsSquare(Square(a), a)
<1> DEFINE w0 == {e \in 0 .. 14 : \E b \in a : e = 2 * b}
           w1 == Reduced(w0, 14)
           w2 == Reduced(w1, 12)
           w3 == Reduced(w2, 10)
           w4 == Reduced(w3, 9)
           w5 == Reduced(w4, 8)
<1>1. Square(a) = w5
  BY DEF Square
<1>2. \A f : f \in w0 => f \in 0 .. 14
  OBVIOUS
<1>3. /\ 0 \in w0 <=> 0 \in a
      /\ 2 \in w0 <=> 1 \in a
      /\ 4 \in w0 <=> 2 \in a
      /\ 6 \in w0 <=> 3 \in a
      /\ 8 \in w0 <=> 4 \in a
      /\ 10 \in w0 <=> 5 \in a
      /\ 12 \in w0 <=> 6 \in a
      /\ 14 \in w0 <=> 7 \in a
      /\ \A f \in {1, 3, 5, 7, 9, 11, 13} : f \notin w0
  BY DEF Bytes, Bits
<1> HIDE DEF w0
<1>4. /\ \A f : f \in w1 => f \in 0 .. 14
      /\ \A f \in 0 .. 14 : f \notin {14, 10, 9, 7, 6} => (f \in w1 <=> f \in w0)
      /\ 14 \notin w1
      /\ 10 \in w1 <=> Xor(10 \in w0, 14 \in w0)
      /\ 9 \in w1 <=> Xor(9 \in w0, 14 \in w0)
      /\ 7 \in w1 <=> Xor(7 \in w0, 14 \in w0)
      /\ 6 \in w1 <=> Xor(6 \in w0, 14 \in w0)
  BY <1>2, ReducedBits DEF Xor
<1>5. /\ \A f : f \in w2 => f \in 0 .. 14
      /\ \A f \in 0 .. 14 : f \notin {12, 8, 7, 5, 4} => (f \in w2 <=> f \in w1)
      /\ 12 \notin w2
      /\ 8 \in w2 <=> Xor(8 \in w1, 12 \in w1)
      /\ 7 \in w2 <=> Xor(7 \in w1, 12 \in w1)
      /\ 5 \in w2 <=> Xor(5 \in w1, 12 \in w1)
      /\ 4 \in w2 <=> Xor(4 \in w1, 12 \in w1)
  BY <1>4, ReducedBits DEF Xor
<1>6. /\ \A f : f \in w3 => f \in 0 .. 14
      /\ \A f \in 0 .. 14 : f \notin {10, 6, 5, 3, 2} => (f \in w3 <=> f \in w2)
      /\ 10 \notin w3
      /\ 6 \in w3 <=> Xor(6 \in w2, 10 \in w2)
      /\ 5 \in w3 <=> Xor(5 \in w2, 10 \in w2)
      /\ 3 \in w3 <=> Xor(3 \in w2, 10 \in w2)
      /\ 2 \in w3 <=> Xor(2 \in w2, 10 \in w2)
  BY <1>5, ReducedBits DEF Xor
<1>7. /\ \A f : f \in w4 => f \in 0 .. 14
      /\ \A f \in 0 .. 14 : f \notin {9, 5, 4, 2, 1} => (f \in w4 <=> f \in w3)
      /\ 9 \notin w4
      /\ 5 \in w4 <=> Xor(5 \in w3, 9 \in w3)
      /\ 4 \in w4 <=> Xor(4 \in w3, 9 \in w3)
      /\ 2 \in w4 <=> Xor(2 \in w3, 9 \in w3)
      /\ 1 \in w4 <=> Xor(1 \in w3, 9 \in w3)
  BY <1>6, ReducedBits DEF Xor
<1>8. /\ \A f : f \in w5 => f \in 0 .. 14
      /\ \A f \in 0 .. 14 : f \notin {8, 4, 3, 1, 0} => (f \in w5 <=> f \in w4)
      /\ 8 \notin w5
      /\ 4 \in w5 <=> Xor(4 \in w4, 8 \in w4)
      /\ 3 \in w5 <=> Xor(3 \in w4, 8 \in w4)
      /\ 1 \in w5 <=> Xor(1 \in w4, 8 \in w4)
      /\ 0 \in w5 <=> Xor(0 \in w4, 8 \in w4)
  BY <1>7, ReducedBits DEF Xor
<1> HIDE DEF w1, w2, w3, w4, w5
<1>9. w5 \in Bytes
  <2>1. /\ 8 \notin w5 /\ 9 \notin w5 /\ 10 \notin w5 /\ 11 \notin w5
        /\ 12 \notin w5 /\ 13 \notin w5 /\ 14 \notin w5
    BY <1>3, <1>4, <1>5, <1>6, <1>7, <1>8 DEF Xor
  <2>2. QED
    BY <2>1, <1>8 DEF Bytes, Bits
<1>10. IsSquare(w5, a)
  BY <1>3, <1>4, <1>5, <1>6, <1>7, <1>8 DEF IsSquare, Xor
<1>11. QED
  BY <1>1, <1>9, <1>10

\* An element whose square is itself is a root of x^2 + x, and there are two.
LEMMA OwnSquare ==
    ASSUME NEW a \in Bytes, Square(a) = a
    PROVE  a = Zero \/ a = One
<1>1. IsSquare(a, a)
  BY SquareBits
<1>2. /\ 1 \notin a /\ 2 \notin a /\ 3 \notin a /\ 4 \notin a
      /\ 5 \notin a /\ 6 \notin a /\ 7 \notin a
  BY <1>1 DEF IsSquare, Xor
<1>3. CASE 0 \in a
  <2>1. 0 \in One /\ \A e \in 1 .. 7 : e \notin One
    BY DEF One
  <2>2. QED
    BY <1>2, <1>3, <2>1, SameBits, ZeroOneBytes
<1>4. CASE 0 \notin a
  <2>1. \A e \in Bits : e \notin Zero
    BY DEF Zero
  <2>2. QED
    BY <1>2, <1>4, <2>1, SameBits, ZeroOneBytes, BitsAre
<1>5. QED
  BY <1>3, <1>4

\* Squaring eight times is the identity: the field has 2^8 elements.
LEMMA SquaredEightTimes ==
    ASSUME NEW a \in Bytes
    PROVE  Square(Square(Square(Square(Square(Square(Square(Square(a)))))))) = a
<1> DEFINE a1 == Square(a)
           a2 == Square(a1)
           a3 == Square(a2)
           a4 == Square(a3)
           a5 == Square(a4)
           a6 == Square(a5)
           a7 == Square(a6)
           a8 == Square(a7)
<1>1. /\ a1 \in Bytes /\ a2 \in Bytes /\ a3 \in Bytes /\ a4 \in Bytes
      /\ a5 \in Bytes /\ a6 \in Bytes /\ a7 \in Bytes /\ a8 \in Bytes
  BY SquareBits
<1>2. /\ IsSquare(a1, a) /\ IsSquare(a2, a1) /\ IsSquare(a3, a2) /\ IsSquare(a4, a3)
      /\ IsSquare(a5, a4) /\ IsSquare(a6, a5) /\ IsSquare(a7, a6) /\ IsSquare(a8, a7)
  BY <1>1, SquareBits
<1> HIDE DEF a1, a2, a3, a4, a5, a6, a7, a8
<1>3. /\ 0 \in a8 <=> 0 \in a
      /\ 1 \in a8 <=> 1 \in a
      /\ 2 \in a8 <=> 2 \in a
      /\ 3 \in a8 <=> 3 \in a
      /\ 4 \in a8 <=> 4 \in a
      /\ 5 \in a8 <=> 5 \in a
      /\ 6 \in a8 <=> 6 \in a
      /\ 7 \in a8 <=> 7 \in a
  BY <1>2 DEF IsSquare, Xor
<1>4. a8 = a
  BY <1>1, <1>3, SameBits
<1>5. QED
  BY <1>4 DEF a1, a2, a3, a4, a5, a6, a7, a8

LEMMA SquareIsMul ==
    ASSUME NEW a \in Bytes
    PROVE  Square(a) = Mul(a, a)
<1> DEFINE s == Shifts(a)
           t == Terms(a, a)
<1>1. Mul(a, a) = Sum8(t) /\ Sum8(t) \in Bytes
  BY MulIs, Sum8Facts
<1>2. \A k \in Bits : \A e : e \in t[k] <=> (k \in a /\ e \in s[k])
  BY DEF Terms, Term, Zero
<1>3. /\ s[0] = a
      /\ s[0] \in Bytes /\ s[1] \in Bytes /\ s[2] \in Bytes /\ s[3] \in Bytes
      /\ s[4] \in Bytes /\ s[5] \in Bytes /\ s[6] \in Bytes
      /\ s[1] = Shifted(s[0]) /\ s[2] = Shifted(s[1]) /\ s[3] = Shifted(s[2])
      /\ s[4] = Shifted(s[3]) /\ s[5] = Shifted(s[4]) /\ s[6] = Shifted(s[5])
      /\ s[7] = Shifted(s[6])
  BY ShiftsAre, BitsAre
<1> HIDE DEF s, t
<1>4. IsSquare(Sum8(t), a)
  <2>1. \A e : e \in Sum8(t) <=>
                 Xor(0 \in a /\ e \in s[0], Xor(1 \in a /\ e \in s[1],
                 Xor(2 \in a /\ e \in s[2], Xor(3 \in a /\ e \in s[3],
                 Xor(4 \in a /\ e \in s[4], Xor(5 \in a /\ e \in s[5],
                 Xor(6 \in a /\ e \in s[6], 7 \in a /\ e \in s[7])))))))
    BY <1>2, BitsAre, AddBits DEF Sum8, Xor
  <2> DEFINE IsShifted(r, b) ==
               /\ 0 \in r <=> 7 \in b
               /\ 1 \in r <=> Xor(0 \in b, 7 \in b)
               /\ 2 \in r <=> 1 \in b
               /\ 3 \in r <=> Xor(2 \in b, 7 \in b)
               /\ 4 \in r <=> Xor(3 \in b, 7 \in b)
               /\ 5 \in r <=> 4 \in b
               /\ 6 \in r <=> 5 \in b
               /\ 7 \in r <=> 6 \in b
  <2>2. \A b \in Bytes : IsShifted(Shifted(b), b)
    BY ShiftedBits DEF Xor
  <2>3. /\ IsShifted(s[1], a) /\ IsShifted(s[2], s[1]) /\ IsShifted(s[3], s[2])
        /\ IsShifted(s[4], s[3]) /\ IsShifted(s[5], s[4]) /\ IsShifted(s[6], s[5])
        /\ IsShifted(s[7], s[6])
    <3> HIDE DEF IsShifted
    <3> QED
      BY <1>3, <2>2
  <2>4. QED
    BY <1>3, <2>1, <2>3 DEF IsSquare, Xor
<1>5. Square(a) \in Bytes /\ IsSquare(Square(a), a)
  BY SquareBits
<1>6. Square(a) = Sum8(t)
  BY <1>1, <1>4, <1>5, SameBits DEF IsSquare
<1>7. QED
  BY <1>1, <1>6

LEMMA SquareOfMul ==
    ASSUME NEW a \in Bytes, NEW b \in Bytes
    PROVE  Square(Mul(a, b)) = Mul(Square(a), Square(b))
<1> DEFINE ab == Mul(a, b)
<1>1. ab \in Bytes /\ Mul(a, a) \in Bytes /\ Mul(b, b) \in Bytes
  BY MulBytes
<1>2. Mul(ab, ab) = Mul(Mul(ab, a), b)
  BY <1>1, MulAssoc
<1>3. Mul(ab, a) = Mul(Mul(a, a), b)
  BY MulOfTerms
<1>4. Mul(Mul(Mul(a, a), b), b) = Mul(Mul(a, a), Mul(b, b))
  BY <1>1, MulAssoc
<1>5. QED
  BY <1>1, <1>2, <1>3, <1>4, SquareIsMul

LEMMA MulSwap ==
    ASSUME NEW a \in Bytes, NEW b \in Bytes, NEW c \in Bytes
    PROVE  Mul(a, Mul(b, c)) = Mul(b, Mul(a, c))
<1>1. Mul(a, Mul(b, c)) = Mul(Mul(a, b), c) /\ Mul(b, Mul(a, c)) = Mul(Mul(b, a), c)
  BY MulAssoc
<1>2. QED
  BY <1>1, MulComm

\* Inv is the inverse.  x times the product e of x and Inv(x) is x^256, which is
\* x; so e is its own square, which leaves zero and one, and zero would make x zero.
LEMMA MulInv ==
    ASSUME NEW x \in Bytes, x # Zero
    PROVE  Inv(x) \in Bytes /\ Mul(x, Inv(x)) = One
<1> DEFINE x2 == Square(x)
           x4 == Square(x2)
           x8 == Square(x4)
           x16 == Square(x8)
           x32 == Square(x16)
           x64 == Square(x32)
           x128 == Square(x64)
           x9 == Mul(x8, x)
           x25 == Mul(x16, x9)
           x50 == Square(x25)
           x200 == Square(Square(x50))
           x250 == Mul(x50, x200)
           x254 == Mul(x250, x4)
           e == Mul(x, x254)
<1>1. Inv(x) = x254
  BY DEF Inv
<1>2. /\ x2 \in Bytes /\ x4 \in Bytes /\ x8 \in Bytes /\ x16 \in Bytes
      /\ x32 \in Bytes /\ x64 \in Bytes /\ x128 \in Bytes
  BY SquareBits
<1>3. /\ Mul(x, x) = x2 /\ Mul(x2, x2) = x4 /\ Mul(x4, x4) = x8 /\ Mul(x8, x8) = x16
      /\ Mul(x16, x16) = x32 /\ Mul(x32, x32) = x64 /\ Mul(x64, x64) = x128
      /\ Mul(x128, x128) = x
  BY <1>2, SquareIsMul, SquaredEightTimes
<1>4. x50 = Mul(x32, Mul(x16, x2))
  <2>1. Square(Mul(x8, x)) = Mul(x16, x2) /\ Mul(x8, x) \in Bytes
    BY <1>2, SquareOfMul, MulBytes
  <2>2. QED
    BY <1>2, <2>1, SquareOfMul
<1>5. x200 = Mul(x128, Mul(x64, x8))
  <2>1. Mul(x16, x2) \in Bytes /\ Mul(x32, x4) \in Bytes
    BY <1>2, MulBytes
  <2>2. Square(Mul(x16, x2)) = Mul(x32, x4) /\ Square(Mul(x32, x4)) = Mul(x64, x8)
    BY <1>2, SquareOfMul
  <2>3. Square(Mul(x32, Mul(x16, x2))) = Mul(x64, Mul(x32, x4))
    BY <1>2, <2>1, <2>2, SquareOfMul
  <2>4. Square(Mul(x64, Mul(x32, x4))) = Mul(x128, Mul(x64, x8))
    BY <1>2, <2>1, <2>2, SquareOfMul
  <2>5. QED
    BY <1>4, <2>3, <2>4
<1> HIDE DEF x2, x4, x8, x16, x32, x64, x128, x50, x200
<1>6. x50 \in Bytes /\ x200 \in Bytes /\ x250 \in Bytes /\ x254 \in Bytes /\ e \in Bytes
  BY <1>2, <1>4, <1>5, MulBytes
<1>7. Mul(x, e) = x
  <2>1. Mul(x, e) = Mul(x2, x254)
    BY <1>3, <1>6, MulAssoc
  <2>2. Mul(x2, x254) = Mul(Mul(x2, x250), x4) /\ Mul(x2, x250) = Mul(Mul(x2, x50), x200)
    BY <1>2, <1>6, MulAssoc
  <2>3. Mul(x2, x50) = Mul(x32, Mul(x16, x4))
    <3>1. Mul(x16, x2) \in Bytes /\ Mul(x2, Mul(x16, x2)) = Mul(x16, x4)
      BY <1>2, <1>3, MulSwap, MulBytes
    <3>2. QED
      BY <1>2, <1>4, <3>1, MulSwap
  <2> DEFINE y == Mul(x32, Mul(x16, x4))
             z == Mul(x32, Mul(x16, x8))
  <2>4. Mul(x16, x4) \in Bytes /\ Mul(x16, x8) \in Bytes /\ y \in Bytes /\ z \in Bytes
    BY <1>2, MulBytes
  <2>5. Mul(y, x4) = z
    <3>1. Mul(y, x4) = Mul(x32, Mul(Mul(x16, x4), x4))
      BY <1>2, <2>4, MulAssoc
    <3>2. Mul(Mul(x16, x4), x4) = Mul(x16, x8)
      BY <1>2, <1>3, MulAssoc
    <3>3. QED
      BY <3>1, <3>2
  <2>6. Mul(Mul(y, x200), x4) = Mul(x200, z)
    <3>1. Mul(Mul(y, x200), x4) = Mul(Mul(x200, y), x4)
      BY <1>6, <2>4, MulComm
    <3>2. Mul(Mul(x200, y), x4) = Mul(x200, Mul(y, x4))
      BY <1>2, <1>6, <2>4, MulAssoc
    <3>3. QED
      BY <2>5, <3>1, <3>2
  <2>7. Mul(x200, z) = Mul(x128, Mul(x64, Mul(x8, z)))
    <3>1. Mul(x64, x8) \in Bytes
      BY <1>2, MulBytes
    <3>2. Mul(x200, z) = Mul(x128, Mul(Mul(x64, x8), z))
      BY <1>2, <1>5, <2>4, <3>1, MulAssoc
    <3>3. QED
      BY <1>2, <2>4, <3>2, MulAssoc
  <2>8. Mul(x8, z) = x64
    <3>1. Mul(x8, z) = Mul(x32, Mul(x8, Mul(x16, x8)))
      BY <1>2, <2>4, MulSwap
    <3>2. Mul(x8, Mul(x16, x8)) = x32
      BY <1>2, <1>3, MulSwap
    <3>3. QED
      BY <1>3, <3>1, <3>2
  <2>9. QED
    BY <1>3, <2>1, <2>2, <2>3, <2>6, <2>7, <2>8
<1>8. Square(e) = e
  <2>1. Mul(e, e) = Mul(x254, Mul(x, e))
    <3>1. Mul(e, e) = Mul(Mul(x254, x), e)
      BY <1>6, MulComm
    <3>2. QED
      BY <1>6, <3>1, MulAssoc
  <2>2. Mul(x254, x) = e
    BY <1>6, MulComm
  <2>3. QED
    BY <1>6, <1>7, <2>1, <2>2, SquareIsMul
<1>9. e # Zero
  BY <1>7, MulZero
<1>10. e = One
  BY <1>6, <1>8, <1>9, OwnSquare
<1>11. QED
  BY <1>1, <1>6, <1>10

\* The numbers that a share may have.
Points == 1 .. 255

\* The share of a secret at a point, if two shares are to be enough for it.
LEMMA LinearShare ==
    ASSUME NEW s \in Bytes, NEW a \in Bytes, NEW n \in Points
    PROVE  CreateKeyshare(s, <<a>>, n) = [x |-> n, y |-> Add(s, Mul(Mul(One, Byte(n)), a))]
<1> DEFINE x == Byte(n)
           poly == <<a>>
           PowIs(f) == f = [j \in 0 .. Len(poly) |-> IF j = 0 THEN One ELSE Mul(f[j - 1], x)]
           pow == CHOOSE f : PowIs(f)
           YIs(f) == f = [j \in 0 .. Len(poly) |->
                            IF j = 0 THEN s ELSE Add(f[j - 1], Mul(pow[j], poly[j]))]
           y == CHOOSE f : YIs(f)
<1>1. CreateKeyshare(s, <<a>>, n) = [x |-> n, y |-> y[Len(poly)]]
  BY DEF CreateKeyshare
<1>2. Len(poly) = 1 /\ poly[1] = a
  OBVIOUS
<1> HIDE DEF poly
<1>3. PowIs(pow)
  <2>1. PowIs([j \in 0 .. 1 |-> IF j = 0 THEN One ELSE Mul(One, x)])
    BY <1>2
  <2>2. QED
    BY <2>1
<1> HIDE DEF pow
<1>4. pow[0] = One /\ pow[1] = Mul(pow[0], x)
  BY <1>2, <1>3
<1>5. YIs(y)
  <2>1. YIs([j \in 0 .. 1 |-> IF j = 0 THEN s ELSE Add(s, Mul(pow[1], a))])
    BY <1>2
  <2>2. QED
    BY <2>1
<1> HIDE DEF y
<1>6. y[0] = s /\ y[1] = Add(y[0], Mul(pow[1], a))
  BY <1>2, <1>5
<1>7. QED
  BY <1>1, <1>2, <1>4, <1>6 DEF poly

\* The recursion of Basis, for two points.
LEMMA BasisOfTwo ==
    ASSUME NEW p \in Bytes, NEW q \in Bytes
    PROVE  /\ Basis(<<p, q>>, 1) = Mul(Mul(One, q), Inv(Mul(One, Add(p, q))))
           /\ Basis(<<p, q>>, 2) = Mul(Mul(One, p), Inv(Mul(One, Add(q, p))))
<1> DEFINE x == <<p, q>>
           NumIs(i, f) ==
             f = [j \in 0 .. Len(x) |->
                    IF j = 0 THEN One ELSE IF j = i THEN f[j - 1] ELSE Mul(f[j - 1], x[j])]
           DenomIs(i, f) ==
             f = [j \in 0 .. Len(x) |->
                    IF j = 0 THEN One
                    ELSE IF j = i THEN f[j - 1] ELSE Mul(f[j - 1], Add(x[i], x[j]))]
           num(i) == CHOOSE f : NumIs(i, f)
           denom(i) == CHOOSE f : DenomIs(i, f)
<1>1. \A i : Basis(x, i) = Mul(num(i)[Len(x)], Inv(denom(i)[Len(x)]))
  BY DEF Basis
<1>2. Len(x) = 2 /\ x[1] = p /\ x[2] = q
  OBVIOUS
<1> HIDE DEF x
<1>3. NumIs(1, num(1)) /\ DenomIs(1, denom(1))
  <2>1. NumIs(1, [j \in 0 .. 2 |-> IF j \in {0, 1} THEN One ELSE Mul(One, q)])
    BY <1>2
  <2>2. DenomIs(1, [j \in 0 .. 2 |-> IF j \in {0, 1} THEN One ELSE Mul(One, Add(p, q))])
    BY <1>2
  <2>3. QED
    BY <2>1, <2>2
<1>4. NumIs(2, num(2)) /\ DenomIs(2, denom(2))
  <2>1. NumIs(2, [j \in 0 .. 2 |-> IF j = 0 THEN One ELSE Mul(One, p)])
    BY <1>2
  <2>2. DenomIs(2, [j \in 0 .. 2 |-> IF j = 0 THEN One ELSE Mul(One, Add(q, p))])
    BY <1>2
  <2>3. QED
    BY <2>1, <2>2
<1> HIDE DEF num, denom
<1>5. num(1)[0] = One /\ num(1)[1] = num(1)[0] /\ num(1)[2] = Mul(num(1)[1], q)
  BY <1>2, <1>3
<1>6. num(2)[0] = One /\ num(2)[1] = Mul(num(2)[0], p) /\ num(2)[2] = num(2)[1]
  BY <1>2, <1>4
<1>7. /\ denom(1)[0] = One /\ denom(1)[1] = denom(1)[0]
      /\ denom(1)[2] = Mul(denom(1)[1], Add(p, q))
  BY <1>2, <1>3
<1>8. /\ denom(2)[0] = One /\ denom(2)[1] = Mul(denom(2)[0], Add(q, p))
      /\ denom(2)[2] = denom(2)[1]
  BY <1>2, <1>4
<1>9. QED
  BY <1>1, <1>2, <1>5, <1>6, <1>7, <1>8 DEF x

LEMMA CombineTwo ==
    ASSUME NEW m, NEW n, NEW y, NEW z
    PROVE  LET x == <<Byte(m), Byte(n)>> IN
           CombineKeyshares(<<[x |-> m, y |-> y], [x |-> n, y |-> z]>>)
             = Add(Add(Zero, Mul(Basis(x, 1), y)), Mul(Basis(x, 2), z))
<1> DEFINE shares == <<[x |-> m, y |-> y], [x |-> n, y |-> z]>>
           x == [i \in 1 .. Len(shares) |-> Byte(shares[i].x)]
           SecretIs(f) ==
             f = [i \in 0 .. Len(shares) |->
                    IF i = 0 THEN Zero ELSE Add(f[i - 1], Mul(Basis(x, i), shares[i].y))]
           secret == CHOOSE f : SecretIs(f)
<1>1. CombineKeyshares(shares) = secret[Len(shares)]
  BY DEF CombineKeyshares
<1>2. /\ Len(shares) = 2
      /\ shares[1].x = m /\ shares[1].y = y /\ shares[2].x = n /\ shares[2].y = z
  OBVIOUS
<1> HIDE DEF shares
<1>3. x = <<Byte(m), Byte(n)>>
  BY <1>2
<1> HIDE DEF x
<1>4. SecretIs(secret)
  <2>1. SecretIs([i \in 0 .. 2 |->
                    IF i = 0 THEN Zero
                    ELSE IF i = 1 THEN Add(Zero, Mul(Basis(x, 1), y))
                    ELSE Add(Add(Zero, Mul(Basis(x, 1), y)), Mul(Basis(x, 2), z))])
    BY <1>2
  <2>2. QED
    BY <2>1
<1> HIDE DEF secret
<1>5. secret[0] = Zero /\ secret[1] = Add(secret[0], Mul(Basis(x, 1), y))
  BY <1>2, <1>4
<1>6. secret[2] = Add(secret[1], Mul(Basis(x, 2), z))
  BY <1>2, <1>4
<1>7. QED
  BY <1>1, <1>2, <1>3, <1>5, <1>6 DEF shares

\* The points of the shares are different elements, and none is zero.
LEMMA PointsDiffer ==
    /\ \A n \in Points : Byte(n) \in Bytes /\ Byte(n) # Zero
    /\ \A m, n \in Points : Byte(m) = Byte(n) => m = n
<1>1. \A n \in 1 .. 255 :
        /\ 0 \in Byte(n) <=> n % 2 = 1
        /\ 1 \in Byte(n) <=> (n \div 2) % 2 = 1
        /\ 2 \in Byte(n) <=> (n \div 4) % 2 = 1
        /\ 3 \in Byte(n) <=> (n \div 8) % 2 = 1
        /\ 4 \in Byte(n) <=> (n \div 16) % 2 = 1
        /\ 5 \in Byte(n) <=> (n \div 32) % 2 = 1
        /\ 6 \in Byte(n) <=> (n \div 64) % 2 = 1
        /\ 7 \in Byte(n) <=> (n \div 128) % 2 = 1
  <2>1. /\ 2 ^ 0 = 1 /\ 2 ^ 1 = 2 /\ 2 ^ 2 = 4 /\ 2 ^ 3 = 8
        /\ 2 ^ 4 = 16 /\ 2 ^ 5 = 32 /\ 2 ^ 6 = 64 /\ 2 ^ 7 = 128
    OBVIOUS
  <2>2. \A n \in 1 .. 255 : n \div 1 = n
    OBVIOUS
  <2>3. QED
    BY <2>1, <2>2, BitsAre DEF Byte
<1>2. \A n \in 1 .. 255 :
        n = (n % 2) + 2 * ((n \div 2) % 2) + 4 * ((n \div 4) % 2) + 8 * ((n \div 8) % 2)
              + 16 * ((n \div 16) % 2) + 32 * ((n \div 32) % 2) + 64 * ((n \div 64) % 2)
              + 128 * ((n \div 128) % 2)
  OBVIOUS
<1>3. \A n \in 1 .. 255 :
        /\ n % 2 \in {0, 1} /\ (n \div 2) % 2 \in {0, 1} /\ (n \div 4) % 2 \in {0, 1}
        /\ (n \div 8) % 2 \in {0, 1} /\ (n \div 16) % 2 \in {0, 1}
        /\ (n \div 32) % 2 \in {0, 1} /\ (n \div 64) % 2 \in {0, 1}
        /\ (n \div 128) % 2 \in {0, 1}
  OBVIOUS
<1>4. \A n \in 1 .. 255 : Byte(n) \in Bytes
  BY DEF Byte, Bytes
<1>5. \A n \in 1 .. 255 : Byte(n) # Zero
  <2> SUFFICES ASSUME NEW n \in 1 .. 255, \A b \in Bits : b \notin Byte(n)
               PROVE  FALSE
    BY DEF Zero
  <2>1. /\ n % 2 = 0 /\ (n \div 2) % 2 = 0 /\ (n \div 4) % 2 = 0 /\ (n \div 8) % 2 = 0
        /\ (n \div 16) % 2 = 0 /\ (n \div 32) % 2 = 0 /\ (n \div 64) % 2 = 0
        /\ (n \div 128) % 2 = 0
    BY <1>1, <1>3, BitsAre
  <2>2. QED
    BY <1>2, <2>1
<1>6. \A m, n \in 1 .. 255 : Byte(m) = Byte(n) => m = n
  <2> SUFFICES ASSUME NEW m \in 1 .. 255, NEW n \in 1 .. 255, Byte(m) = Byte(n)
               PROVE  m = n
    OBVIOUS
  <2>1. /\ 0 \in Byte(m) <=> m % 2 = 1
        /\ 1 \in Byte(m) <=> (m \div 2) % 2 = 1
        /\ 2 \in Byte(m) <=> (m \div 4) % 2 = 1
        /\ 3 \in Byte(m) <=> (m \div 8) % 2 = 1
        /\ 4 \in Byte(m) <=> (m \div 16) % 2 = 1
        /\ 5 \in Byte(m) <=> (m \div 32) % 2 = 1
        /\ 6 \in Byte(m) <=> (m \div 64) % 2 = 1
        /\ 7 \in Byte(m) <=> (m \div 128) % 2 = 1
    BY <1>1
  <2>2. /\ 0 \in Byte(m) <=> n % 2 = 1
        /\ 1 \in Byte(m) <=> (n \div 2) % 2 = 1
        /\ 2 \in Byte(m) <=> (n \div 4) % 2 = 1
        /\ 3 \in Byte(m) <=> (n \div 8) % 2 = 1
        /\ 4 \in Byte(m) <=> (n \div 16) % 2 = 1
        /\ 5 \in Byte(m) <=> (n \div 32) % 2 = 1
        /\ 6 \in Byte(m) <=> (n \div 64) % 2 = 1
        /\ 7 \in Byte(m) <=> (n \div 128) % 2 = 1
    BY <1>1
  <2>3. /\ m % 2 = n % 2
        /\ (m \div 2) % 2 = (n \div 2) % 2
        /\ (m \div 4) % 2 = (n \div 4) % 2
        /\ (m \div 8) % 2 = (n \div 8) % 2
        /\ (m \div 16) % 2 = (n \div 16) % 2
        /\ (m \div 32) % 2 = (n \div 32) % 2
        /\ (m \div 64) % 2 = (n \div 64) % 2
        /\ (m \div 128) % 2 = (n \div 128) % 2
    <3>1. \A i, j \in {0, 1} : (i = 1 <=> j = 1) => i = j
      OBVIOUS
    <3>2. QED
      BY <1>3, <2>1, <2>2, <3>1
  <2>4. QED
    BY <1>2, <2>3
<1>7. QED
  BY <1>4, <1>5, <1>6 DEF Points

LEMMA ProductsCross ==
    ASSUME NEW p \in Bytes, NEW q \in Bytes, NEW t \in Bytes, NEW a \in Bytes
    PROVE  Mul(Mul(q, t), Mul(p, a)) = Mul(Mul(p, t), Mul(q, a))
<1>1. Mul(t, a) \in Bytes /\ Mul(p, a) \in Bytes /\ Mul(q, a) \in Bytes
  BY MulBytes
<1>2. Mul(Mul(q, t), Mul(p, a)) = Mul(q, Mul(t, Mul(p, a)))
  BY <1>1, MulAssoc
<1>3. Mul(Mul(p, t), Mul(q, a)) = Mul(p, Mul(t, Mul(q, a)))
  BY <1>1, MulAssoc
<1>4. Mul(t, Mul(p, a)) = Mul(p, Mul(t, a)) /\ Mul(t, Mul(q, a)) = Mul(q, Mul(t, a))
  BY MulSwap
<1>5. QED
  BY <1>1, <1>2, <1>3, <1>4, MulSwap

\* Two of the shares of a secret for which two are enough.
TwoShares(s, a, m, n) == <<CreateKeyshare(s, <<a>>, m), CreateKeyshare(s, <<a>>, n)>>

\* Any two shares give the secret back, whatever it and the random coefficient are.
THEOREM TwoSharesRestore ==
    ASSUME NEW s \in Bytes, NEW a \in Bytes,
           NEW m \in Points, NEW n \in Points, m # n
    PROVE  CombineKeyshares(TwoShares(s, a, m, n)) = s
<1> DEFINE p == Byte(m)
           q == Byte(n)
           d == Add(p, q)
           t == Inv(d)
           y == Add(s, Mul(p, a))
           z == Add(s, Mul(q, a))
<1>1. p \in Bytes /\ q \in Bytes /\ d \in Bytes
  BY PointsDiffer, AddBytes
<1>2. d # Zero
  <2>1. p # q
    BY PointsDiffer
  <2>2. QED
    BY <2>1 DEF Add, Zero
<1>3. t \in Bytes /\ Mul(d, t) = One
  BY <1>1, <1>2, MulInv
<1>4. /\ CreateKeyshare(s, <<a>>, m) = [x |-> m, y |-> y]
      /\ CreateKeyshare(s, <<a>>, n) = [x |-> n, y |-> z]
  <2>1. Mul(One, p) = p /\ Mul(One, q) = q
    BY <1>1, OneMul
  <2>2. QED
    BY <2>1, LinearShare
<1>5. Basis(<<p, q>>, 1) = Mul(q, t) /\ Basis(<<p, q>>, 2) = Mul(p, t)
  <2>1. Add(q, p) = d
    BY AddIsGroup
  <2>2. QED
    BY <1>1, <2>1, BasisOfTwo, OneMul
<1>6. CombineKeyshares(<<[x |-> m, y |-> y], [x |-> n, y |-> z]>>)
        = Add(Mul(Mul(q, t), y), Mul(Mul(p, t), z))
  BY <1>5, CombineTwo, AddIsGroup
<1> HIDE DEF p, q, d, t
<1> DEFINE A == Mul(Mul(q, t), s)
           B == Mul(Mul(q, t), Mul(p, a))
           C == Mul(Mul(p, t), s)
           D == Mul(Mul(p, t), Mul(q, a))
<1>7. Mul(p, t) \in Bytes /\ Mul(q, t) \in Bytes /\ Mul(p, a) \in Bytes /\ Mul(q, a) \in Bytes
  BY <1>1, <1>3, MulBytes
<1>8. Mul(Mul(q, t), y) = Add(A, B) /\ Mul(Mul(p, t), z) = Add(C, D)
  BY <1>7, MulRight
<1>9. B = D
  BY <1>1, <1>3, ProductsCross
<1>10. Add(A, C) = s
  <2>1. Add(A, C) = Mul(Add(Mul(q, t), Mul(p, t)), s)
    BY <1>7, MulLeft
  <2>2. Add(Mul(q, t), Mul(p, t)) = Mul(Add(q, p), t)
    BY <1>1, <1>3, MulLeft
  <2>3. Add(q, p) = d
    BY AddIsGroup DEF d
  <2>4. QED
    BY <1>3, <2>1, <2>2, <2>3, OneMul
<1>11. Add(Add(A, B), Add(C, D)) = Add(Add(A, C), Add(B, D))
  BY AddPairs
<1>12. QED
  BY <1>4, <1>6, <1>8, <1>9, <1>10, <1>11, AddIsGroup DEF TwoShares

\* One share says nothing: every secret has a coefficient that gives it.
THEOREM OneShareFitsEverySecret ==
    ASSUME NEW s \in Bytes, NEW y \in Bytes, NEW n \in Points
    PROVE  \E a \in Bytes : CreateKeyshare(s, <<a>>, n) = [x |-> n, y |-> y]
<1> DEFINE x == Byte(n)
           a == Mul(Inv(x), Add(s, y))
<1>1. x \in Bytes /\ Inv(x) \in Bytes /\ Mul(x, Inv(x)) = One /\ Add(s, y) \in Bytes
  BY PointsDiffer, MulInv, AddBytes
<1>2. a \in Bytes
  BY <1>1, MulBytes
<1>3. Mul(Mul(One, x), a) = Add(s, y)
  <2>1. Mul(One, x) = x
    BY <1>1, OneMul
  <2>2. Mul(x, Mul(Inv(x), Add(s, y))) = Mul(Mul(x, Inv(x)), Add(s, y))
    BY <1>1, MulAssoc
  <2>3. QED
    BY <1>1, <2>1, <2>2, OneMul
<1>4. CreateKeyshare(s, <<a>>, n) = [x |-> n, y |-> Add(s, Add(s, y))]
  BY <1>2, <1>3, LinearShare
<1>5. Add(s, Add(s, y)) = y
  BY AddIsGroup
<1>6. QED
  BY <1>2, <1>4, <1>5
=============================================================================
