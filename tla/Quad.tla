--------------------------------- MODULE Quad --------------------------------
(***************************************************************************)
(* The 64-bit division of kernel/util/math.c (Knuth's Program D on four    *)
(* digits of half a long).  HALF_BITS is the width of a digit, 16 in the   *)
(* build; every width below follows from it.                               *)
(***************************************************************************)
EXTENDS Integers, SequencesExt

CONSTANT HALF_BITS

B == 2 ^ HALF_BITS
LongRange == B * B
QuadRange == LongRange * LongRange

HHALF(x) == x \div B
LHALF(x) == x % B
COMBINE(a, b) == (a * B + b) % LongRange
ULong(x) == x % LongRange

\* The four digits of a quad, the first the highest, and back.
Digits(x) == [i \in 1 .. 4 |-> (x \div B ^ (4 - i)) % B]
Value(p) == COMBINE(p[1], p[2]) * LongRange + COMBINE(p[3], p[4])
Lead(p) == Min({i \in 1 .. 4 : p[i] # 0}) - 1

\* shl: shift the digits lo .. hi of p left by sh bits.
shl(p, lo, hi, sh) ==
    [i \in DOMAIN p |->
        IF i \notin lo .. hi THEN p[i]
        ELSE LHALF(p[i] * 2 ^ sh) + IF i = hi THEN 0 ELSE p[i + 1] \div 2 ^ (HALF_BITS - sh)]

\* A divisor t of one digit: divide digit by digit.
ShortDivision(u, t) ==
    LET step(s, i) == LET rbj == COMBINE(s.r, u[i])
                      IN  [q |-> Append(s.q, rbj \div t), r |-> rbj % t]
        s == FoldLeft(step, [q |-> <<>>, r |-> 0], <<1, 2, 3, 4>>)
    IN  [quot |-> Value(s.q), rem |-> s.r]

\* D3: the estimate of a quotient digit, corrected while it is known to be too big.
RECURSIVE TooBig(_, _, _, _, _)
Estimate(qhat, rhat, v1, v2, uj2) ==
    IF ULong(v2 * qhat) > COMBINE(rhat, uj2) THEN TooBig(qhat, rhat, v1, v2, uj2) ELSE qhat
TooBig(qhat, rhat, v1, v2, uj2) ==
    IF rhat + v1 >= B THEN qhat - 1 ELSE Estimate(qhat - 1, rhat + v1, v1, v2, uj2)

QHat(u, v, j) ==
    IF u[j] = v[1] THEN TooBig(B, u[j + 1], v[1], v[2], u[j + 2])
    ELSE LET nn == COMBINE(u[j], u[j + 1])
         IN  Estimate(nn \div v[1], nn % v[1], v[1], v[2], u[j + 2])

Downwards(n) == [k \in 1 .. n |-> n + 1 - k]

\* D4: subtract qhat * v from the digits of u at j; t holds the borrow.
MultiplySubtract(u, v, j, n, qhat) ==
    LET step(s, i) == LET t == ULong(s.u[i + j] - v[i] * qhat - s.t)
                      IN  [u |-> [s.u EXCEPT ![i + j] = LHALF(t)], t |-> (B - HHALF(t)) % B]
        s == FoldLeft(step, [u |-> u, t |-> 0], Downwards(n))
        t == ULong(s.u[j] - s.t)
    IN  [u |-> [s.u EXCEPT ![j] = LHALF(t)], borrow |-> HHALF(t) # 0, qhat |-> qhat]

\* D6: the estimate was too big by one; add v back.
AddBack(w, v, j, n) ==
    LET step(s, i) == LET t == s.t + s.u[i + j] + v[i]
                      IN  [u |-> [s.u EXCEPT ![i + j] = LHALF(t)], t |-> HHALF(t)]
        s == FoldLeft(step, [u |-> w.u, t |-> 0], Downwards(n))
    IN  [u |-> [s.u EXCEPT ![j] = LHALF(@ + s.t)], borrow |-> FALSE, qhat |-> w.qhat - 1]

\* Mutant: the divisor is never added back.
Corrected_never(w, v, j, n) == w

Corrected(w, v, j, n) == IF w.borrow THEN AddBack(w, v, j, n) ELSE w

QuotientDigit(s, v, j, n) ==
    LET w == Corrected(MultiplySubtract(s.u, v, j, n, QHat(s.u, v, j)), v, j, n)
    IN  [u |-> w.u, q |-> Append(s.q, w.qhat)]

\* The remainder: uspace[1 .. 4] after u[m .. m + n] >> d.  The digits in front of u
\* are the leading zeros of the dividend; those of u before m, and u[m] itself when
\* d is 0, are as the division left them.
Shifted(u, m, n, d) ==
    [i \in 1 .. 4 |->
        LET k == i - (4 - m - n)
        IN  IF k < 0 THEN 0
            ELSE IF k < m \/ d = 0 THEN u[k]
            ELSE IF k = m THEN 0
            ELSE u[k] \div 2 ^ d + LHALF(u[k - 1] * 2 ^ (HALF_BITS - d))]

\* The quotient is filled up with zeros to four digits.
ProgramD(u, v, m, n, d) ==
    LET s == FoldLeft(LAMBDA r, j : QuotientDigit(r, v, j, n), [u |-> u, q |-> <<>>],
                      [k \in 1 .. m + 1 |-> k - 1])
    IN  [quot |-> Value([i \in 1 .. 3 - m |-> 0] \o s.q), rem |-> Value(Shifted(s.u, m, n, d))]

\* D1: normalise so that v[1] >= B / 2.
Normalise(u, v, m, n) ==
    LET d == Min({k \in 0 .. HALF_BITS : v[1] * 2 ^ k >= B \div 2})
    IN  ProgramD(shl(u, 0, m + n, d), shl(v, 1, n, d), m, n, d)

\* The digits of u and v without leading zeros, u with a zero in front.
LongDivision(u, v, m, n) ==
    Normalise([i \in 0 .. m + n |-> IF i = 0 THEN 0 ELSE u[i + 4 - m - n]],
              [i \in 1 .. n |-> v[i + 4 - n]], m, n)

DivisionTrap == [quot |-> -1, rem |-> -1]

__qdivrem(uq, vq) ==
    IF vq = 0 THEN DivisionTrap
    ELSE IF uq < vq THEN [quot |-> 0, rem |-> uq]
    ELSE IF Lead(Digits(vq)) = 3 THEN ShortDivision(Digits(uq), Digits(vq)[4])
    ELSE LongDivision(Digits(uq), Digits(vq), Lead(Digits(vq)) - Lead(Digits(uq)),
                      4 - Lead(Digits(vq)))

\* A quad read as signed, and negation of an unsigned one.
Signed(x) == IF x >= QuadRange \div 2 THEN x - QuadRange ELSE x
Negated(x) == (-x) % QuadRange
Magnitude(a) == IF Signed(a) < 0 THEN Negated(a) ELSE a

SignOf(q, neg) == IF q = -1 THEN -1 ELSE IF neg THEN Negated(q) ELSE q
__divdi3(a, b) ==
    SignOf(__qdivrem(Magnitude(a), Magnitude(b)).quot, (Signed(a) < 0) # (Signed(b) < 0))
-----------------------------------------------------------------------------
VARIABLES args, result
quadVars == <<args, result>>

QuadInit ==
    /\ args \in [a : 0 .. QuadRange - 1, b : 0 .. QuadRange - 1]
    /\ result = <<>>

\* __udivdi3, __umoddi3 and __divdi3 of the arguments.
divide ==
    /\ result = <<>>
    /\ result' = LET r == __qdivrem(args.a, args.b)
                 IN  <<r.quot, r.rem, __divdi3(args.a, args.b)>>
    /\ UNCHANGED args

QuadNext == divide

\* The quotient of two signed numbers, towards zero.
Truncated(a, b) == IF (a < 0) = (b < 0) THEN Magnitude(a % QuadRange) \div Magnitude(b % QuadRange)
                   ELSE -(Magnitude(a % QuadRange) \div Magnitude(b % QuadRange))

\* The quotient and the remainder are those of the integers, for every dividend and
\* divisor other than zero: the estimate of a digit is never off by more than the one
\* correction that Program D makes, and no digit overflows.  The signed quotient
\* truncates, modulo the range.
DivisionIsExact ==
    (result # <<>> /\ args.b # 0) =>
        /\ result[1] = args.a \div args.b
        /\ result[2] = args.a % args.b
        /\ result[3] = Truncated(Signed(args.a), Signed(args.b)) % QuadRange
=============================================================================
