---------------------------- MODULE LibmausMath ----------------------------
(***************************************************************************)
(* libmaus2::math::gcd, lcm (math/gcd.hpp) and ilog (math/ilog.hpp) on    *)
(* unsigned words of W bits (the code's uint64_t, W = 64), each checked   *)
(* against a reference definition that knows nothing of the code's        *)
(* recursion, loop or word arithmetic.  The state records the last call  *)
(* and its result; any call may follow any other, as for a library.       *)
(***************************************************************************)
EXTENDS Naturals

CONSTANT W          \* word width in bits

VARIABLES call, result, status

vars == <<call, result, status>>

Word == 0..2^W - 1

\* uint64_t multiplication: the product modulo 2^W
MulWord(a, b) == (a * b) % 2^W

----------------------------------------------------------------------------
(* The code.                                                               *)

\* Seeded fault (not the code): the base case returns b, i.e. 0.
RECURSIVE GcdBaseB(_, _)
GcdBaseB(a, b) == IF b = 0 THEN b ELSE GcdBaseB(b, a % b)

\* gcd(a,b): b == 0 ? a : gcd(b, a%b)
RECURSIVE Gcd(_, _)
Gcd(a, b) == IF b = 0 THEN a ELSE Gcd(b, a % b)

\* lcm(a,b) = (a*b)/gcd(a,b), the product taken in W bits
Lcm(a, b) == MulWord(a, b) \div Gcd(a, b)

\* Seeded fault (not the code): the loop runs while m != 0.
RECURSIVE IlogToZero(_, _)
IlogToZero(m, l) == IF m = 0 THEN l ELSE IlogToZero(m \div 2, l + 1)

\* while ( m != 1 ) { m >>= 1; l++; }
RECURSIVE IlogLoop(_, _)
IlogLoop(m, l) == IF m = 1 THEN l ELSE IlogLoop(m \div 2, l + 1)

\* Seeded fault (not the code): l starts at 1.
IlogFromOne(m) == IF m = 0 THEN 0 ELSE IlogLoop(m, 1)

\* ilog(m): 0 for m = 0, else the loop from l = 0
Ilog(m) == IF m = 0 THEN 0 ELSE IlogLoop(m, 0)

----------------------------------------------------------------------------
(* Reference definitions.                                                  *)

Divides(d, n) == n % d = 0

\* the greatest common divisor; gcd(0,0) = 0 by convention
RefGcd(a, b) ==
    IF a = 0 /\ b = 0 THEN 0
    ELSE LET cds == {d \in 1..(IF a > b THEN a ELSE b) : Divides(d, a) /\ Divides(d, b)}
         IN  CHOOSE d \in cds : \A e \in cds : e <= d

\* the least common multiple, 0 if an argument is 0
RefLcm(a, b) ==
    IF a = 0 \/ b = 0 THEN 0
    ELSE a * (CHOOSE k \in 1..b : Divides(b, a * k) /\ \A j \in 1..k-1 : ~Divides(b, a * j))

\* the exponent of the highest power of two not above m (0 for m = 0)
RefIlog(m) == IF m = 0 THEN 0 ELSE CHOOSE l \in 0..W : 2^l <= m /\ m < 2^(l+1)

----------------------------------------------------------------------------

Init ==
    /\ call = [op |-> "none", a |-> 0, b |-> 0]
    /\ result = 0
    /\ status = "ok"

CallGcd ==
    /\ status = "ok"
    /\ \E a, b \in Word :
        /\ call' = [op |-> "gcd", a |-> a, b |-> b]
        /\ result' = Gcd(a, b)
    /\ UNCHANGED status

\* lcm with gcd(a,b) > 0
CallLcm ==
    /\ status = "ok"
    /\ \E a, b \in Word :
        /\ Gcd(a, b) > 0
        /\ call' = [op |-> "lcm", a |-> a, b |-> b]
        /\ result' = Lcm(a, b)
    /\ UNCHANGED status

\* lcm(0,0): gcd is 0 and the division traps (SIGFPE ends the process)
LcmDivByZero ==
    /\ status = "ok"
    /\ \E a, b \in Word :
        /\ Gcd(a, b) = 0
        /\ call' = [op |-> "lcm", a |-> a, b |-> b]
        /\ status' = "fault"
    /\ UNCHANGED result

CallIlog ==
    /\ status = "ok"
    /\ \E m \in Word :
        /\ call' = [op |-> "ilog", a |-> m, b |-> 0]
        /\ result' = Ilog(m)
    /\ UNCHANGED status

Next == CallGcd \/ CallLcm \/ LcmDivByZero \/ CallIlog

Spec == Init /\ [][Next]_vars

----------------------------------------------------------------------------
(* Properties.                                                             *)

TypeOK ==
    /\ call.op \in {"none", "gcd", "lcm", "ilog"}
    /\ call.a \in Word /\ call.b \in Word
    /\ result \in Word
    /\ call.op = "ilog" => result < W
    /\ status \in {"ok", "fault"}

\* The Euclidean recursion of gcd returns the greatest common divisor of
\* every pair of words, including the zero cases that end it.
GcdCorrect ==
    (status = "ok" /\ call.op = "gcd") => result = RefGcd(call.a, call.b)

\* ilog's shift loop returns floor(log2 m) for every word m > 0, and 0
\* for 0, the value callers use for bit widths.
IlogCorrect ==
    (status = "ok" /\ call.op = "ilog") => result = RefIlog(call.a)

\* lcm returns, without trapping, the least common multiple of every pair
\* of words whose least common multiple is itself a word.
LcmCorrect ==
    call.op = "lcm" =>
        /\ status = "ok"
        /\ RefLcm(call.a, call.b) < 2^W => result = RefLcm(call.a, call.b)

=============================================================================
