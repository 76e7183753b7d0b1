----------------------------- MODULE CostModel -----------------------------
(***************************************************************************)
(* The paper cost model (paper_trading/service.py, CostModelService) over  *)
(* fixed-point integers.                                                   *)
(*                                                                         *)
(* Cash is counted in money quanta (the code's Decimal("0.00000001")),     *)
(* metal in quantity quanta, QuantityScale of them to one unit, and a      *)
(* price is money quanta per unit.  A rate is an integer over RateScale.   *)
(***************************************************************************)
EXTENDS Integers

CONSTANTS QuantityScale,   \* quantity quanta in one unit of metal
          RateScale,       \* denominator of the two rates
          FeeRate,         \* CostModelService.fee_rate, over RateScale
          TaxRate          \* CostModelService.tax_rate, over RateScale

\* __post_init__ refuses negative rates; the two scales are powers of ten.
ASSUME CostAssumption ==
    /\ QuantityScale \in Nat \ {0}
    /\ RateScale \in Nat \ {0}
    /\ FeeRate \in Nat
    /\ TaxRate \in Nat

Sides == {"buy", "sell"}

-----------------------------------------------------------------------------
(* Decimal.quantize of the exact quotient n / d, for d > 0.                *)

\* ROUND_HALF_UP, which the broker's _money asks for: ties away from zero.
HalfUp(n, d) ==
    IF n >= 0 THEN (2 * n + d) \div (2 * d) ELSE -((2 * (-n) + d) \div (2 * d))

\* No rounding mode, as in _money of the backtests and the worker's own amounts:
\* Decimal's default, ties to even.
HalfEven(n, d) ==
    LET q == n \div d
        r == n % d
    IN  IF 2 * r > d \/ (2 * r = d /\ q % 2 = 1) THEN q + 1 ELSE q

\* ROUND_DOWN, of the non-negative amounts the code applies it to.
Down(n, d) == n \div d

-----------------------------------------------------------------------------

\* calculate() raises ValueError on any other input.
CostInputsValid(quantity, buyPrice, sellPrice) ==
    /\ quantity > 0
    /\ buyPrice >= 0
    /\ sellPrice >= buyPrice

\* Mutant: the two sides of the quote are swapped.
ExecutionPriceSwapped(side, buyPrice, sellPrice) ==
    IF side = "buy" THEN buyPrice ELSE sellPrice

\* A buy pays the price the bank sells at; a sell gets the bank's buy price.
ExecutionPrice(side, buyPrice, sellPrice) ==
    IF side = "buy" THEN sellPrice ELSE buyPrice

GrossCash(side, quantity, buyPrice, sellPrice) ==
    HalfUp(quantity * ExecutionPrice(side, buyPrice, sellPrice), QuantityScale)

Fees(gross)  == HalfUp(gross * FeeRate, RateScale)
Taxes(gross) == HalfUp(gross * TaxRate, RateScale)

NetCash(side, gross) ==
    IF side = "buy" THEN gross + Fees(gross) + Taxes(gross)
                    ELSE gross - Fees(gross) - Taxes(gross)

\* Mutant: the spread is taken the wrong way round.
CostsSpreadNegated(side, quantity, buyPrice, sellPrice) ==
    LET gross == GrossCash(side, quantity, buyPrice, sellPrice)
    IN  [ gross  |-> gross,
          fees   |-> Fees(gross),
          taxes  |-> Taxes(gross),
          spread |-> HalfUp((buyPrice - sellPrice) * quantity, QuantityScale),
          net    |-> NetCash(side, gross) ]

\* CostModelService.calculate: the amounts a trade row carries.
Costs(side, quantity, buyPrice, sellPrice) ==
    LET gross == GrossCash(side, quantity, buyPrice, sellPrice)
    IN  [ gross  |-> gross,
          fees   |-> Fees(gross),
          taxes  |-> Taxes(gross),
          spread |-> HalfUp((sellPrice - buyPrice) * quantity, QuantityScale),
          net    |-> NetCash(side, gross) ]

=============================================================================
