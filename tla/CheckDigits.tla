----------------------------- MODULE CheckDigits -----------------------------
(***************************************************************************)
(* The check digits by which the guard for personal data tells identifiers *)
(* from other numbers.  A number is its sequence of digits; what the       *)
(* regular expressions before and the separators between them say is left  *)
(* out.  The letter of a Spanish identity card, and the one before that of *)
(* a foreigner, is the remainder it stands for.                            *)
(***************************************************************************)
EXTENDS Integers, Sequences, FiniteSets, SequencesExt

CONSTANT Serial          \* bound: the digits of the serial numbers

ASSUME CheckDigitsAssumption == Serial \subseteq 0..9

Digits == 0..9

(* A mutant of Twice: the sum of the two digits is forgotten.               *)
TwiceWhole(d) == 2 * d

(* Twice a digit, less nine when that has two digits: Luhn's formula.       *)
Twice(d) == IF 2 * d > 9 THEN 2 * d - 9 ELSE 2 * d

(* Every other digit from the last but one is doubled.                      *)
LuhnTerm(n, i) == IF (Len(n) - i) % 2 = 1 THEN Twice(n[i]) ELSE n[i]

Luhn(n) ==
  /\ Len(n) \in 13..19
  /\ FoldLeft(+, 0, [i \in DOMAIN n |-> LuhnTerm(n, i)]) % 10 = 0

PersonSum(n) ==
  Twice(n[1]) + n[2] + Twice(n[3]) + n[4] + Twice(n[5]) + n[6] + Twice(n[7]) + n[8]
    + Twice(n[9]) + n[10]
Personnummer(n) == PersonSum(n) % 10 = 0

AbaSum(n) ==
  3 * n[1] + 7 * n[2] + n[3] + 3 * n[4] + 7 * n[5] + n[6] + 3 * n[7] + 7 * n[8] + n[9]
AbaRouting(n) == AbaSum(n) % 10 = 0

(* A remainder of one has no check digit.                                   *)
NhsSum(n) ==
  10 * n[1] + 9 * n[2] + 8 * n[3] + 7 * n[4] + 6 * n[5] + 5 * n[6] + 4 * n[7] + 3 * n[8]
    + 2 * n[9]
NhsNumber(n) ==
  LET remainder == NhsSum(n) % 11
  IN remainder # 1 /\ n[10] = IF remainder = 0 THEN 0 ELSE 11 - remainder

BsnSum(n) ==
  9 * n[1] + 8 * n[2] + 7 * n[3] + 6 * n[4] + 5 * n[5] + 4 * n[6] + 3 * n[7] + 2 * n[8]
    - n[9]
DutchBsn(n) == BsnSum(n) % 11 = 0

PeselSum(n) ==
  n[1] + 3 * n[2] + 7 * n[3] + 9 * n[4] + n[5] + 3 * n[6] + 7 * n[7] + 9 * n[8] + n[9]
    + 3 * n[10]
PolishPesel(n) == n[11] = (10 - (PeselSum(n) % 10)) % 10

(* Remainders of zero and of one have the same check digit.                 *)
NifSum(n) ==
  9 * n[1] + 8 * n[2] + 7 * n[3] + 6 * n[4] + 5 * n[5] + 4 * n[6] + 3 * n[7] + 2 * n[8]
PortugueseNif(n) ==
  LET remainder == NifSum(n) % 11
  IN /\ n[1] \in {1, 2, 5, 6, 8, 9}
     /\ n[9] = IF remainder < 2 THEN 0 ELSE 11 - remainder

(* DNI, and NIE whose first letter is the digit 0, 1 or 2: the last element *)
(* is the place of the control letter in the table of letters.              *)
SpanishNumber(n) ==
  10000000 * n[1] + 1000000 * n[2] + 100000 * n[3] + 10000 * n[4] + 1000 * n[5]
    + 100 * n[6] + 10 * n[7] + n[8]
SpanishId(n) == n[9] = SpanishNumber(n) % 23

(* An IBAN after its conversion, letters being two digits each: before      *)
(* every group of seven digits goes what the digits before it leave modulo  *)
(* 97.                                                                      *)
Iban(n) ==
  LET carried[i \in 0..Len(n)] ==
        IF i = 0 THEN 0
        ELSE 10 * (IF (i - 1) % 7 = 0 THEN carried[i - 1] % 97 ELSE carried[i - 1]) + n[i]
  IN carried[Len(n)] % 97 = 1
-----------------------------------------------------------------------------
Schemes == {"Luhn", "personnummer", "ABA", "NHS", "BSN", "PESEL", "NIF", "DNI", "IBAN"}

Accepts(s, n) ==
  CASE s = "Luhn" -> Luhn(n)          [] s = "personnummer" -> Personnummer(n)
    [] s = "ABA" -> AbaRouting(n)     [] s = "NHS" -> NhsNumber(n)
    [] s = "BSN" -> DutchBsn(n)       [] s = "PESEL" -> PolishPesel(n)
    [] s = "NIF" -> PortugueseNif(n)  [] s = "DNI" -> SpanishId(n)
    [] s = "IBAN" -> Iban(n)

Length == [s \in Schemes |->
  CASE s = "Luhn" -> 16 [] s \in {"personnummer", "NHS"} -> 10 [] s = "PESEL" -> 11
    [] s \in {"ABA", "BSN", "NIF", "DNI"} -> 9 [] s = "IBAN" -> 24]

(* What the last elements of a number may be.                               *)
Controls(s) ==
  CASE s = "IBAN" -> Digits \X Digits
    [] s = "DNI" -> {<<c>> : c \in 0..22}
    [] OTHER -> {<<c>> : c \in Digits}

(* The numbers that are issued: serials that begin with one digit and go on *)
(* with another, and the control that fits.                                 *)
Composed(s, a, b, cut, control) ==
  [i \in 1..(Length[s] - Len(control)) |-> IF i <= cut THEN a ELSE b] \o control

Issued(s) ==
  {n \in {Composed(s, a, b, cut, control) :
             a \in Serial, b \in Serial, cut \in 1..(Length[s] - 1), control \in Controls(s)} :
     Accepts(s, n)}

VARIABLES
  scheme,        \* the identifier; never changes
  genuine,       \* a number that was issued; never changes
  typed          \* what a text has in its place

digitsVars == <<scheme, genuine, typed>>

DigitsInit ==
  /\ scheme \in Schemes
  /\ genuine \in Issued(scheme)
  /\ typed = genuine

(* One digit, or the control letter, is another.                            *)
Slip(i) ==
  /\ typed = genuine
  /\ \E x \in IF scheme = "DNI" /\ i = 9 THEN 0..22 ELSE Digits :
       x # genuine[i] /\ typed' = [genuine EXCEPT ![i] = x]
  /\ UNCHANGED <<scheme, genuine>>

(* Two neighbours are swapped; a letter stays at the end.                   *)
Swap(i) ==
  /\ typed = genuine /\ genuine[i] # genuine[i + 1]
  /\ scheme = "DNI" => i < 8
  /\ typed' = [genuine EXCEPT ![i] = genuine[i + 1], ![i + 1] = genuine[i]]
  /\ UNCHANGED <<scheme, genuine>>

DigitsNext ==
  \/ \E i \in 1..Length[scheme] : Slip(i)
  \/ \E i \in 1..(Length[scheme] - 1) : Swap(i)

DigitsSpec == DigitsInit /\ [][DigitsNext]_digitsVars
-----------------------------------------------------------------------------
Differ == {i \in DOMAIN genuine : typed[i] # genuine[i]}

(* A number in a text that differs from a genuine identifier in one digit   *)
(* is not taken for one, except where the Portuguese number has the check   *)
(* digit that two remainders share; and a weighted sum with a prime modulus *)
(* does not take one with two neighbours swapped either.                    *)
SlipsAreCaught ==
  (\/ Cardinality(Differ) = 1 /\ (scheme = "NIF" => genuine[9] # 0 /\ typed[9] # 0)
   \/ Cardinality(Differ) = 2 /\ scheme \in {"NHS", "BSN", "DNI", "IBAN"})
  => ~Accepts(scheme, typed)
=============================================================================
