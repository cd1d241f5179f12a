------------------------------- MODULE Shamir -------------------------------
(***************************************************************************)
(* The secret sharing of hazmat.c.  The code works on the 32 bytes of a key *)
(* at once, one word for every bit; no byte has to do with another, and     *)
(* here there is one.  A byte is a polynomial over GF(2), and that is the   *)
(* set of its exponents: a bit is set if its number is in it.               *)
(***************************************************************************)
EXTENDS Integers, Sequences

Bits == 0 .. 7
Bytes == SUBSET Bits

Zero == {}
One == {0}

\* bitslice_setall
Byte(n) == {b \in Bits : (n \div 2 ^ b) % 2 = 1}

(***************************************************************************)
(* The field of 256 elements.                                              *)
(***************************************************************************)

Add(a, b) == (a \ b) \cup (b \ a)

\* a times x, where x^8 is x^4 + x^3 + x + 1.
Shifted(a) == Add({b \in 1 .. 7 : b - 1 \in a}, IF 7 \in a THEN {0, 1, 3, 4} ELSE Zero)

Term(b, bit, s) == IF bit \in b THEN s ELSE Zero

\* Russian peasant multiplication.
Mul(a, b) ==
    LET a1 == Shifted(a)    a2 == Shifted(a1)  a3 == Shifted(a2)  a4 == Shifted(a3)
        a5 == Shifted(a4)   a6 == Shifted(a5)  a7 == Shifted(a6)
    IN Add(Term(b, 0, a), Add(Term(b, 1, a1), Add(Term(b, 2, a2), Add(Term(b, 3, a3),
       Add(Term(b, 4, a4), Add(Term(b, 5, a5), Add(Term(b, 6, a6), Term(b, 7, a7))))))))

\* The terms of x^e, for an e above 7, come to those of lower exponents.
Reduced(w, e) == IF e \in w THEN Add(w, {e, e - 4, e - 5, e - 7, e - 8}) ELSE w

Square(a) ==
    Reduced(Reduced(Reduced(Reduced(Reduced(
        {e \in 0 .. 14 : \E b \in a : e = 2 * b}, 14), 12), 10), 9), 8)

\* The power 254.
Inv(x) ==
    LET x2 == Square(x)
        x4 == Square(x2)
        x8 == Square(x4)
        x9 == Mul(x8, x)
        x16 == Square(x8)
        x25 == Mul(x16, x9)
        x50 == Square(x25)
        x200 == Square(Square(x50))
        x250 == Mul(x50, x200)
    IN Mul(x250, x4)

(***************************************************************************)
(* Shares.  A share is the number of a point and the value there of the     *)
(* polynomial whose coefficients are the secret and random bytes.           *)
(***************************************************************************)

\* Faulty variant: the power is used before it is raised.
CreateKeyshareLate(key, poly, n) ==
    LET x == Byte(n)
        xpow[j \in 0 .. Len(poly)] == IF j = 0 THEN One ELSE Mul(xpow[j - 1], x)
        y[j \in 0 .. Len(poly)] ==
            IF j = 0 THEN key ELSE Add(y[j - 1], Mul(xpow[j - 1], poly[j]))
    IN [x |-> n, y |-> y[Len(poly)]]

CreateKeyshare(key, poly, n) ==
    LET x == Byte(n)
        xpow[j \in 0 .. Len(poly)] == IF j = 0 THEN One ELSE Mul(xpow[j - 1], x)
        y[j \in 0 .. Len(poly)] ==
            IF j = 0 THEN key ELSE Add(y[j - 1], Mul(xpow[j], poly[j]))
    IN [x |-> n, y |-> y[Len(poly)]]

\* The Lagrange basis polynomial of the i-th of the points x, at zero.
Basis(x, i) ==
    LET num[j \in 0 .. Len(x)] ==
            IF j = 0 THEN One ELSE IF j = i THEN num[j - 1] ELSE Mul(num[j - 1], x[j])
        denom[j \in 0 .. Len(x)] ==
            IF j = 0 THEN One
            ELSE IF j = i THEN denom[j - 1] ELSE Mul(denom[j - 1], Add(x[i], x[j]))
    IN Mul(num[Len(x)], Inv(denom[Len(x)]))

CombineKeyshares(key_shares) ==
    LET x == [i \in 1 .. Len(key_shares) |-> Byte(key_shares[i].x)]
        sum[i \in 0 .. Len(key_shares)] ==
            IF i = 0 THEN Zero ELSE Add(sum[i - 1], Mul(Basis(x, i), key_shares[i].y))
    IN sum[Len(key_shares)]
=============================================================================
