----------------------------- MODULE Decimation -----------------------------
(***************************************************************************)
(* Max-pooling of a power array to Target points, for previews:            *)
(* decimatePower of the scanner's internal/db/store.go, whose loops its    *)
(* page has too (lib/useScanData.js).                                      *)
(*                                                                         *)
(* What can be lost is decided by the bins alone, so an array is its       *)
(* length, and a bin the set of positions its maximum is taken over.       *)
(* Bounds of bins come from floating-point products: Product is exact for  *)
(* the 53-bit significands of Go and JavaScript, whose quotient and        *)
(* product are each rounded to the nearest.                                *)
(***************************************************************************)
EXTENDS Naturals

CONSTANTS
  Target,    \* targetPoints
  MaxLength  \* bound

ASSUME DecimationAssumption == {Target, MaxLength} \subseteq Nat /\ 0 < Target /\ Target < MaxLength

Bits == 52  \* of a significand, after its first

PowerOf2(e) == 2 ^ e
Exponent(x) == CHOOSE e \in 0..30 : PowerOf2(e) <= x /\ x < PowerOf2(e + 1)

\* 2^e modulo Target
Residue[e \in 0..Bits] == IF e = 0 THEN 1 % Target ELSE (2 * Residue[e - 1]) % Target

(* factor = n / Target lies in [2^k, 2^(k+1)), where significands are       *)
(* 2^(k-Bits) apart.  What rounding to the nearest took off is              *)
(* Below / Target of that, or it added something: Target has no halves.     *)
k(n) == Exponent(n \div Target)
Below(n) == LET r == ((n % Target) * Residue[Bits - k(n)]) % Target
            IN  IF 2 * r < Target THEN r ELSE 0

(* int(i * factor).  A quotient that is no integer is further from the next *)
(* than any rounding.  A whole q is missed when what was taken off, i       *)
(* times, is more than half the distance from q to the number below it.     *)
Product(n, i) ==
  LET q == (i * n) \div Target
      gap == IF q = PowerOf2(Exponent(q)) THEN Exponent(q) - 1 ELSE Exponent(q)
      missed == /\ i > 0 /\ (i * n) % Target = 0
                /\ 2 * i * Below(n) * PowerOf2(k(n)) > Target * PowerOf2(gap)
  IN  IF missed THEN q - 1 ELSE q

Least(a, b) == IF a < b THEN a ELSE b

\* Mutant: up to the one before end
ShortBin(n, i) == Product(n, i) .. Least(Product(n, i + 1), n) - 2

\* From start up to end, which is the start of the next
Bin(n, i) == Product(n, i) .. Least(Product(n, i + 1), n) - 1

\* Of every length, each point has something to show, no sample is taken
\* twice, and none is left out but, for some lengths, the last
BinsKeepSamples ==
  \A n \in Target + 1..MaxLength :
    /\ \A i \in 0..Target - 1 : Bin(n, i) # {}
    /\ \A i \in 1..Target - 1 : Bin(n, i) \cap Bin(n, i - 1) = {}
    /\ 0..n - 2 \subseteq UNION {Bin(n, i) : i \in 0..Target - 1}
=============================================================================
