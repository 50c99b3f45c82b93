-------------------------------- MODULE Money --------------------------------
(***************************************************************************)
(* The exact arithmetic behind a payment instruction:                      *)
(* src/backend/src/payments/casper.js and casper-cep18.js.  The code works *)
(* on BigInts, so the naturals of TLA+ are its numbers: nothing overflows. *)
(***************************************************************************)
EXTENDS Integers

CONSTANTS
    MotesPerCspr,      \* 10^9 in the code
    TokenScale,        \* 10^decimals of mockUSDC
    MinTransferMotes   \* smallest native transfer Casper accepts

ASSUME ScaleAssumption ==
    /\ MotesPerCspr \in Nat \ {0}
    /\ TokenScale \in Nat \ {0}
    /\ MinTransferMotes \in Nat

(* parsePositiveDecimal: "12.50" is units 1250 over scale 100. *)
Decimal == [units : Nat \ {0}, scale : Nat \ {0}]

DivCeil(numerator, denominator) ==
    (numerator + denominator - 1) \div denominator

(* Motes owed for an amount in USD at a rate in USD per CSPR. *)
UsdToMotes(amount, rate) ==
    DivCeil(amount.units * rate.scale * MotesPerCspr,
            amount.scale * rate.units)

(* Base units of mockUSDC owed; the caller refuses an amount finer than a  *)
(* base unit, so the division is exact.                                    *)
FitsMockUsdc(amount) == TokenScale % amount.scale = 0
UsdToMockUsdc(amount) == amount.units * (TokenScale \div amount.scale)
=============================================================================
