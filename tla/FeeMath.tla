------------------------------ MODULE FeeMath ------------------------------
(***************************************************************************)
(* The basis-point arithmetic of contracts/trustflow: the cumulative fee   *)
(* of the released amount and the stake a minority juror loses.  Amounts   *)
(* are i128 in the code; I128_MAX is that bound and BPS_DENOMINATOR the    *)
(* 10_000 of the code, both parameters so that a small instance exercises  *)
(* the roundings and the widening that 128-bit amounts make rare.          *)
(***************************************************************************)
EXTENDS Integers

CONSTANTS BPS_DENOMINATOR, I128_MAX

ASSUME BpsAssumption == BPS_DENOMINATOR \in Nat \ {0}

\* 10_000 * 10_000 is far below i128::MAX: the remainder's product always fits.
ASSUME WidthAssumption ==
  I128_MAX \in Nat /\ BPS_DENOMINATOR * BPS_DENOMINATOR <= I128_MAX

\* `checked_*' in i128 returned Some: the value is a non-negative i128.  Every
\* amount the contract computes is non-negative, so only the upper end matters.
FitsI128(value) == value \in 0 .. I128_MAX

(***************************************************************************)
(* floor(amount * bps / BPS_DENOMINATOR), without forming amount * bps: the *)
(* quotient and the remainder of the amount are charged separately.  No     *)
(* checked step fails: a bps is at most BPS_DENOMINATOR, so the first       *)
(* product is at most the amount, and see WidthAssumption for the second.   *)
(***************************************************************************)
CumulativeFee(amount, bps) ==
  LET quotient  == amount \div BPS_DENOMINATOR
      remainder == amount % BPS_DENOMINATOR
  IN  quotient * bps + (remainder * bps) \div BPS_DENOMINATOR

(***************************************************************************)
(* stake * bps / BPS_DENOMINATOR, capped at the stake.  The product is      *)
(* tried in i128, then in u128 (whose range is twice that of i128 and one   *)
(* more); when both overflow the stake is divided before it is multiplied.  *)
(***************************************************************************)
SlashAmount(stake, bps) ==
  LET U128_MAX == 2 * I128_MAX + 1
      slash == IF stake * bps <= U128_MAX
                 THEN (stake * bps) \div BPS_DENOMINATOR
                 ELSE (stake \div BPS_DENOMINATOR) * bps
  IN  IF slash <= stake THEN slash ELSE stake
=============================================================================
