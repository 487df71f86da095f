--------------------------- MODULE InvoiceAmounts ---------------------------
(***************************************************************************)
(* The amounts of an invoice: the charge for the plan, prorated by days    *)
(* and rounded to cents, the discount, the tax on what is left, and the    *)
(* breakdown that is derived from these lines.  The inputs are those the   *)
(* schema of the API lets through.  What is worth stating relates several  *)
(* invoices of one price, so the state is the set of those issued.         *)
(*                                                                         *)
(* A price times a ratio of days is computed in floating point, which may  *)
(* turn an exact half of a cent to either side and, for prices below       *)
(* 10^12 cents, nothing else; a tax is a product of integers divided once, *)
(* and its halves are exact.                                               *)
(***************************************************************************)
EXTENDS Integers

CONSTANTS
  Prices,     \* prices of the plan, in cents
  Days,       \* days that are charged
  Periods,    \* lengths of the period, in days
  Discounts,  \* discounts in cents
  TaxRates,   \* tax rates in basis points
  NoValue,    \* an optional input that is left out
  MaxIssued   \* bound: how many invoices are issued

ASSUME ConstantsAssumption ==
  /\ Prices \subseteq Nat
  /\ Days \subseteq Nat
  /\ Periods \subseteq Nat \ {0}
  /\ Discounts \subseteq Nat
  /\ TaxRates \subseteq Nat

VARIABLES
  price,   \* the price of the plan; it never changes
  issued,  \* the invoices that were built, each with the input it was built from
  count    \* how many were built

vars == <<price, issued, count>>

Inputs ==
  [days : Days \cup {NoValue}, period : Periods \cup {NoValue},
   discount : Discounts, taxRate : TaxRates]

ChargeKinds == {"plan", "proration"}
LineKinds == ChargeKinds \cup {"discount", "tax"}

-----------------------------------------------------------------------------
(* The ratio of the period that is charged, and rounding. *)

Least(a, b) == IF a <= b THEN a ELSE b
ClampAtLeastZero(value) == IF value < 0 THEN 0 ELSE value

\* Variant: the day the charge begins on and the day it ends on both count.
RatioInclusive(in) ==
  IF in.days = NoValue \/ in.period = NoValue
    THEN [num |-> 1, den |-> 1]
    ELSE [num |-> in.days + 1, den |-> in.period]

\* The whole period, unless both of its inputs are given.
RatioFromProration(in) ==
  IF in.days = NoValue \/ in.period = NoValue
    THEN [num |-> 1, den |-> 1]
    ELSE [num |-> Least(in.days, in.period), den |-> in.period]

\* The integers nearest to num / den: two of them when it is half-way.
RoundCents(num, den) ==
  {q \in {num \div den, (num \div den) + 1} :
     2 * num - den <= 2 * (den * q) /\ 2 * (den * q) <= 2 * num + den}

\* Variant: the days that are left are charged.
ChargesUnusedDays(in) ==
  LET ratio == RatioFromProration(in)
  IN  RoundCents(price * (ratio.den - ratio.num), ratio.den)

Charges(in) ==
  LET ratio == RatioFromProration(in)
  IN  RoundCents(price * ratio.num, ratio.den)

-----------------------------------------------------------------------------
(* The lines and the breakdown. *)

\* Variant: the discount does not lessen the tax.
TaxOnCharge(in, charge) == (2 * (charge * in.taxRate) + 10000) \div 20000

\* Half a cent is rounded up.
Tax(in, charge) ==
  LET taxableBase == ClampAtLeastZero(charge - in.discount)
  IN  (2 * (taxableBase * in.taxRate) + 10000) \div 20000

ChargeKind(in) ==
  LET ratio == RatioFromProration(in)
  IN  IF ratio.num < ratio.den THEN "proration" ELSE "plan"

\* Variant: the discount is a charge.
LinesWithDebit(in, charge) ==
  [kind \in {ChargeKind(in)} \cup {k \in {"discount"} : in.discount > 0}
              \cup {k \in {"tax"} : Tax(in, charge) > 0} |->
     CASE kind = "discount" -> in.discount
       [] kind = "tax" -> Tax(in, charge)
       [] OTHER -> charge]

\* There is one line of a kind at most, so lines are amounts by kind.
CalculateInvoiceLines(in, charge) ==
  [kind \in {ChargeKind(in)} \cup {k \in {"discount"} : in.discount > 0}
              \cup {k \in {"tax"} : Tax(in, charge) > 0} |->
     CASE kind = "discount" -> -in.discount
       [] kind = "tax" -> Tax(in, charge)
       [] OTHER -> charge]

\* The sum of the lines of a kind.
Amount(lines, kind) == IF kind \in DOMAIN lines THEN lines[kind] ELSE 0

Subtotal(lines) == Amount(lines, "plan") + Amount(lines, "proration")

CalculateInvoiceBreakdown(lines) ==
  [subtotal |-> Subtotal(lines),
   discount |-> -Amount(lines, "discount"),
   tax |-> Amount(lines, "tax"),
   total |-> Amount(lines, "plan") + Amount(lines, "proration")
               + Amount(lines, "discount") + Amount(lines, "tax")]

-----------------------------------------------------------------------------
(* The specification. *)

Breakdowns == [subtotal : Nat, discount : Nat, tax : Nat, total : Int]

TypeOK ==
  /\ price \in Prices
  /\ count \in Nat
  /\ \A invoice \in issued :
       /\ invoice.input \in Inputs
       /\ DOMAIN invoice.lines \subseteq LineKinds
       /\ \E kind \in ChargeKinds : DOMAIN invoice.lines \cap ChargeKinds = {kind}
       /\ \A kind \in DOMAIN invoice.lines :
            IF kind = "discount" THEN -invoice.lines[kind] \in Nat \ {0}
                                 ELSE invoice.lines[kind] \in Nat
       /\ invoice.breakdown \in Breakdowns

Init ==
  /\ price \in Prices
  /\ issued = {}
  /\ count = 0

\* An invoice is built for a period of a subscription to the plan.
BuildInvoice(in) ==
  /\ count < MaxIssued
  /\ count' = count + 1
  /\ \E charge \in Charges(in) :
       LET lines == CalculateInvoiceLines(in, charge)
       IN  issued' = issued \cup
             {[input |-> in, lines |-> lines,
               breakdown |-> CalculateInvoiceBreakdown(lines)]}
  /\ UNCHANGED price

Next == \E in \in Inputs : BuildInvoice(in)

Spec == Init /\ [][Next]_vars

-----------------------------------------------------------------------------
(* Properties. *)

\* What the breakdown shows accounts for the total, which is the sum of the
\* lines: no line is left out of it, whatever kind the charge is of.
BreakdownAddsUp ==
  \A invoice \in issued :
    LET b == invoice.breakdown
    IN  b.total = b.subtotal - b.discount + b.tax

\* An invoice is negative only when its discount exceeds the charge, and then
\* by the whole difference: the tax never makes up for a part of it.
NegativeOnlyByDiscount ==
  \A invoice \in issued :
    LET b == invoice.breakdown
    IN  IF b.discount > b.subtotal THEN b.total = b.subtotal - b.discount
                                   ELSE b.total >= 0

\* When the days of a period are split between two invoices, their charges make
\* up the price of the whole period to within one cent.
Prorated(invoice) ==
  invoice.input.days # NoValue /\ invoice.input.period # NoValue
SplitPeriodsAddUp ==
  \A a, b \in issued :
    (/\ Prorated(a) /\ Prorated(b)
     /\ a.input.period = b.input.period
     /\ a.input.days + b.input.days = a.input.period)
      => LET sum == a.breakdown.subtotal + b.breakdown.subtotal
         IN  price - 1 <= sum /\ sum <= price + 1

\* Of one period, more days are never charged less than fewer, and never more
\* than the price, whichever way halves of a cent are rounded.
ChargeGrowsWithDays ==
  \A a, b \in issued :
    /\ a.breakdown.subtotal <= price
    /\ (/\ Prorated(a) /\ Prorated(b)
        /\ a.input.period = b.input.period
        /\ a.input.days < b.input.days)
         => a.breakdown.subtotal <= b.breakdown.subtotal
=============================================================================
