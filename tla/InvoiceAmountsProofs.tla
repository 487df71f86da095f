------------------------ MODULE InvoiceAmountsProofs ------------------------
(***************************************************************************)
(* For every price, period, discount and rate, the properties of           *)
(* InvoiceAmounts.  They follow from one invariant, that every invoice was *)
(* built from its input by the operators of the model, and from what       *)
(* rounding guarantees: 2 num - den <= 2 den q <= 2 num + den.             *)
(***************************************************************************)
EXTENDS InvoiceAmounts, TLAPS

-----------------------------------------------------------------------------
(* Arithmetic. *)

\* A product of naturals is a natural, and grows with each factor.
LEMMA ProductOfNats ==
  ASSUME NEW a \in Nat, NEW b \in Nat
  PROVE  a * b \in Nat
  OBVIOUS

\* Multiplication by a natural keeps the order.
LEMMA ProductGrows ==
  ASSUME NEW p \in Nat, NEW a \in Int, NEW b \in Int, a <= b
  PROVE  p * a <= p * b
  <1>1. p * (b - a) \in Nat
    BY ProductOfNats, b - a \in Nat
  <1>2. p * (b - a) = p * b - p * a
    OBVIOUS
  <1> QED
    BY <1>1, <1>2

\* A positive factor can be left out of a strict comparison.
LEMMA FactorCancels ==
  ASSUME NEW d \in Nat \ {0}, NEW a \in Int, NEW b \in Int, d * a < d * b
  PROVE  a < b
  <1> SUFFICES ASSUME b <= a PROVE FALSE
    OBVIOUS
  <1>1. d * b <= d * a
    BY ProductGrows
  <1> QED
    BY <1>1

-----------------------------------------------------------------------------
(* What the operators return. *)

\* A ratio is between nothing and the whole.
LEMMA RatioBounds ==
  ASSUME NEW in \in Inputs
  PROVE  LET ratio == RatioFromProration(in)
         IN  /\ ratio.num \in Nat /\ ratio.den \in Nat \ {0}
             /\ ratio.num <= ratio.den
  <1>1. CASE in.days = NoValue \/ in.period = NoValue
    BY <1>1 DEF RatioFromProration
  <1>2. CASE ~(in.days = NoValue \/ in.period = NoValue)
    <2>1. in.days \in Nat /\ in.period \in Nat \ {0}
      BY <1>2, ConstantsAssumption DEF Inputs
    <2> QED
      BY <1>2, <2>1 DEF RatioFromProration, Least
  <1> QED
    BY <1>1, <1>2

\* A rounded quotient is an integer and the nearest one.
LEMMA RoundedIsNear ==
  ASSUME NEW num \in Nat, NEW den \in Nat \ {0}, NEW q \in RoundCents(num, den)
  PROVE  /\ q \in Int
         /\ 2 * num - den <= 2 * (den * q)
         /\ 2 * (den * q) <= 2 * num + den
  <1>1. num \div den \in Int
    OBVIOUS
  <1> QED
    BY <1>1 DEF RoundCents

\* A charge is an amount of cents between nothing and the price.
LEMMA ChargeBounds ==
  ASSUME price \in Nat, NEW in \in Inputs, NEW charge \in Charges(in)
  PROVE  charge \in Nat /\ charge <= price
  <1> DEFINE num == RatioFromProration(in).num
             den == RatioFromProration(in).den
  <1>1. num \in Nat /\ den \in Nat \ {0} /\ num <= den
    BY RatioBounds
  <1>2. charge \in RoundCents(price * num, den)
    BY DEF Charges
  <1>3. price * num \in Nat /\ price * num <= price * den
    BY <1>1, ProductOfNats, ProductGrows
  <1> HIDE DEF num, den
  <1>4. /\ charge \in Int
        /\ 2 * (price * num) - den <= 2 * (den * charge)
        /\ 2 * (den * charge) <= 2 * (price * num) + den
    BY <1>1, <1>2, <1>3, RoundedIsNear
  <1>5. charge > -1
    <2>1. den * (-1) < den * charge
      BY <1>1, <1>3, <1>4
    <2> QED
      BY <1>1, <1>4, <2>1, FactorCancels
  <1>6. charge < price + 1
    <2>1. den * (price + 1) = price * den + den
      BY <1>1
    <2>2. den * charge < den * (price + 1)
      BY <1>1, <1>3, <1>4, <2>1
    <2> QED
      BY <1>1, <1>4, <2>2, FactorCancels
  <1> QED
    BY <1>4, <1>5, <1>6

\* A tax is an amount of cents, and there is none when the discount leaves
\* nothing of the charge.
LEMMA TaxBounds ==
  ASSUME NEW in \in Inputs, NEW charge \in Nat
  PROVE  /\ Tax(in, charge) \in Nat
         /\ charge <= in.discount => Tax(in, charge) = 0
  <1> DEFINE base == ClampAtLeastZero(charge - in.discount)
             product == base * in.taxRate
  <1>1. in.discount \in Nat /\ in.taxRate \in Nat
    BY ConstantsAssumption DEF Inputs
  <1>2. base \in Nat /\ (charge <= in.discount => base = 0)
    BY <1>1 DEF ClampAtLeastZero
  <1> HIDE DEF base
  <1>3. product \in Nat /\ (charge <= in.discount => product = 0)
    BY <1>1, <1>2, ProductOfNats
  <1>4. Tax(in, charge) = (2 * product + 10000) \div 20000
    BY DEF Tax, base
  <1> HIDE DEF product
  <1> QED
    BY <1>3, <1>4

\* The breakdown of an invoice tells what its lines were computed from.
LEMMA BreakdownOfLines ==
  ASSUME NEW in \in Inputs, NEW charge \in Nat
  PROVE  LET b == CalculateInvoiceBreakdown(CalculateInvoiceLines(in, charge))
         IN  /\ b = [subtotal |-> b.subtotal, discount |-> b.discount,
                     tax |-> b.tax, total |-> b.total]
             /\ b.subtotal = charge
             /\ b.discount = in.discount
             /\ b.tax = Tax(in, charge)
             /\ b.total = charge - in.discount + Tax(in, charge)
  <1> DEFINE lines == CalculateInvoiceLines(in, charge)
             tax == Tax(in, charge)
  <1>1. in.discount \in Nat /\ tax \in Nat
    BY ConstantsAssumption, TaxBounds DEF Inputs
  <1>2. ChargeKind(in) \in {"plan", "proration"}
    BY DEF ChargeKind
  <1>3. Amount(lines, "plan") + Amount(lines, "proration") = charge
    BY <1>2 DEF CalculateInvoiceLines, Amount
  <1>4. Amount(lines, "plan") \in Nat /\ Amount(lines, "proration") \in Nat
    BY <1>2 DEF CalculateInvoiceLines, Amount
  <1>5. Amount(lines, "discount") = -in.discount
    BY <1>1, <1>2 DEF CalculateInvoiceLines, Amount
  <1>6. Amount(lines, "tax") = tax
    BY <1>1, <1>2 DEF CalculateInvoiceLines, Amount
  <1> HIDE DEF lines, tax
  <1>7. LET b == CalculateInvoiceBreakdown(lines)
        IN  /\ b.subtotal = charge /\ b.discount = in.discount /\ b.tax = tax
            /\ b.total = charge - in.discount + tax
    BY <1>1, <1>3, <1>4, <1>5, <1>6 DEF CalculateInvoiceBreakdown, Subtotal
  <1> QED
    BY <1>7 DEF CalculateInvoiceBreakdown, lines, tax

-----------------------------------------------------------------------------
(* The invariant. *)

\* An invoice was built from its input, with one of the charges it allows.
Built(invoice) ==
  /\ invoice.input \in Inputs
  /\ \E charge \in Charges(invoice.input) :
       /\ invoice.lines = CalculateInvoiceLines(invoice.input, charge)
       /\ invoice.breakdown = CalculateInvoiceBreakdown(invoice.lines)

AllBuilt ==
  /\ price \in Prices
  /\ count \in Nat
  /\ \A invoice \in issued : Built(invoice)

\* Every invoice that is issued was built, which no later step changes, for the
\* price stays what it is.
LEMMA InvoicesAreBuilt == Spec => []AllBuilt
  <1>1. Init => AllBuilt
    BY DEF Init, AllBuilt
  <1>2. AllBuilt /\ [Next]_vars => AllBuilt'
    <2> SUFFICES ASSUME AllBuilt, [Next]_vars PROVE AllBuilt'
      OBVIOUS
    <2>1. CASE UNCHANGED vars
      BY <2>1 DEF AllBuilt, Built, Charges, vars
    <2>2. ASSUME NEW in \in Inputs, BuildInvoice(in) PROVE AllBuilt'
      <3>1. price' = price /\ count' \in Nat
        BY <2>2 DEF BuildInvoice, AllBuilt
      <3>2. PICK charge \in Charges(in) :
              issued' = issued \cup
                {[input |-> in, lines |-> CalculateInvoiceLines(in, charge),
                  breakdown |->
                    CalculateInvoiceBreakdown(CalculateInvoiceLines(in, charge))]}
        BY <2>2 DEF BuildInvoice
      <3>3. ASSUME NEW invoice, Built(invoice) PROVE Built(invoice)'
        BY <3>1, <3>3 DEF Built, Charges
      <3>4. Built([input |-> in, lines |-> CalculateInvoiceLines(in, charge),
                   breakdown |->
                     CalculateInvoiceBreakdown(CalculateInvoiceLines(in, charge))])
        BY <3>2 DEF Built
      <3> QED
        BY <3>1, <3>2, <3>3, <3>4 DEF AllBuilt
    <2> QED
      BY <2>1, <2>2 DEF Next
  <1> QED
    BY <1>1, <1>2, PTL DEF Spec

\* What a built invoice shows.
LEMMA BuiltShows ==
  ASSUME price \in Nat, NEW invoice, Built(invoice)
  PROVE  LET b == invoice.breakdown
         IN  /\ b \in Breakdowns
             /\ b.subtotal \in Charges(invoice.input)
             /\ b.subtotal <= price
             /\ b.total = b.subtotal - b.discount + b.tax
             /\ b.subtotal <= b.discount => b.tax = 0
  <1>1. PICK charge \in Charges(invoice.input) :
          /\ invoice.lines = CalculateInvoiceLines(invoice.input, charge)
          /\ invoice.breakdown = CalculateInvoiceBreakdown(invoice.lines)
    BY DEF Built
  <1>2. invoice.input \in Inputs
    BY DEF Built
  <1>3. charge \in Nat /\ charge <= price
    BY <1>2, ChargeBounds
  <1>4. /\ Tax(invoice.input, charge) \in Nat
        /\ charge <= invoice.input.discount => Tax(invoice.input, charge) = 0
    BY <1>2, <1>3, TaxBounds
  <1>5. invoice.input.discount \in Nat
    BY <1>2, ConstantsAssumption DEF Inputs
  <1>6. LET b == invoice.breakdown
        IN  /\ b = [subtotal |-> b.subtotal, discount |-> b.discount,
                    tax |-> b.tax, total |-> b.total]
            /\ b.subtotal = charge
            /\ b.discount = invoice.input.discount
            /\ b.tax = Tax(invoice.input, charge)
            /\ b.total = charge - invoice.input.discount + Tax(invoice.input, charge)
    BY <1>1, <1>2, <1>3, BreakdownOfLines
  <1> QED
    BY <1>3, <1>4, <1>5, <1>6 DEF Breakdowns

-----------------------------------------------------------------------------
(* The theorems. *)

\* The price is a natural number of cents.
LEMMA PriceIsNat == AllBuilt => price \in Nat
  BY ConstantsAssumption DEF AllBuilt

\* Every invoice is made of one charge, at most one discount and at most one
\* tax, whose amounts have the sign of their kind, and of a breakdown of cents.
THEOREM AmountsTyped == Spec => []TypeOK
  <1>1. AllBuilt => TypeOK
    <2> SUFFICES ASSUME AllBuilt, NEW invoice \in issued
                 PROVE  /\ invoice.input \in Inputs
                        /\ DOMAIN invoice.lines \subseteq LineKinds
                        /\ \E kind \in ChargeKinds :
                             DOMAIN invoice.lines \cap ChargeKinds = {kind}
                        /\ \A kind \in DOMAIN invoice.lines :
                             IF kind = "discount"
                               THEN -invoice.lines[kind] \in Nat \ {0}
                               ELSE invoice.lines[kind] \in Nat
                        /\ invoice.breakdown \in Breakdowns
      BY DEF AllBuilt, TypeOK
    <2>1. Built(invoice) /\ price \in Nat
      BY PriceIsNat DEF AllBuilt
    <2>2. invoice.breakdown \in Breakdowns
      BY <2>1, BuiltShows
    <2>3. PICK charge \in Charges(invoice.input) :
            invoice.lines = CalculateInvoiceLines(invoice.input, charge)
      BY <2>1 DEF Built
    <2>4. invoice.input \in Inputs /\ invoice.input.discount \in Nat
      BY <2>1, ConstantsAssumption DEF Built, Inputs
    <2>5. charge \in Nat
      BY <2>1, <2>4, ChargeBounds
    <2>6. Tax(invoice.input, charge) \in Nat
      BY <2>4, <2>5, TaxBounds
    <2>7. ChargeKind(invoice.input) \in ChargeKinds
      BY DEF ChargeKind, ChargeKinds
    <2>8. DOMAIN invoice.lines =
            {ChargeKind(invoice.input)}
              \cup {k \in {"discount"} : invoice.input.discount > 0}
              \cup {k \in {"tax"} : Tax(invoice.input, charge) > 0}
      BY <2>3 DEF CalculateInvoiceLines
    <2>9. /\ DOMAIN invoice.lines \subseteq LineKinds
          /\ DOMAIN invoice.lines \cap ChargeKinds = {ChargeKind(invoice.input)}
      BY <2>7, <2>8 DEF LineKinds, ChargeKinds
    <2>10. ASSUME NEW kind \in DOMAIN invoice.lines
           PROVE  IF kind = "discount" THEN -invoice.lines[kind] \in Nat \ {0}
                                       ELSE invoice.lines[kind] \in Nat
      BY <2>3, <2>4, <2>5, <2>6, <2>7, <2>8 DEF CalculateInvoiceLines, ChargeKinds
    <2> QED
      BY <2>2, <2>4, <2>7, <2>9, <2>10
  <1> QED
    BY <1>1, InvoicesAreBuilt, PTL

\* The breakdown always accounts for the total that is derived from the lines.
THEOREM BreakdownsAddUp == Spec => []BreakdownAddsUp
  <1>1. AllBuilt => BreakdownAddsUp
    BY PriceIsNat, BuiltShows DEF AllBuilt, BreakdownAddsUp
  <1> QED
    BY <1>1, InvoicesAreBuilt, PTL

\* An invoice is negative only by a discount above its charge.
THEOREM NegativeByDiscount == Spec => []NegativeOnlyByDiscount
  <1>1. AllBuilt => NegativeOnlyByDiscount
    <2> SUFFICES ASSUME AllBuilt, NEW invoice \in issued
                 PROVE  LET b == invoice.breakdown
                        IN  IF b.discount > b.subtotal
                              THEN b.total = b.subtotal - b.discount
                              ELSE b.total >= 0
      BY DEF NegativeOnlyByDiscount
    <2> QED
      BY PriceIsNat, BuiltShows DEF AllBuilt, Breakdowns
  <1> QED
    BY <1>1, InvoicesAreBuilt, PTL

\* What rounding makes of the charge for some days of a period.
LEMMA ProratedCharge ==
  ASSUME price \in Nat, NEW invoice, Built(invoice), Prorated(invoice)
  PROVE  LET days == invoice.input.days
             period == invoice.input.period
             charge == invoice.breakdown.subtotal
         IN  /\ days \in Nat /\ period \in Nat \ {0} /\ charge \in Nat
             /\ 2 * (price * Least(days, period)) - period <= 2 * (period * charge)
             /\ 2 * (period * charge) <= 2 * (price * Least(days, period)) + period
  <1> DEFINE days == invoice.input.days
             period == invoice.input.period
             charge == invoice.breakdown.subtotal
  <1>1. days \in Nat /\ period \in Nat \ {0}
    BY ConstantsAssumption DEF Built, Inputs, Prorated
  <1>2. charge \in Charges(invoice.input) /\ charge \in Nat
    BY BuiltShows DEF Breakdowns
  <1>3. charge \in RoundCents(price * Least(days, period), period)
    BY <1>2 DEF Charges, RatioFromProration, Prorated
  <1>4. Least(days, period) \in Nat
    BY <1>1 DEF Least
  <1>5. price * Least(days, period) \in Nat
    BY <1>4, ProductOfNats
  <1> QED
    BY <1>1, <1>2, <1>3, <1>5, RoundedIsNear

\* Two invoices that split a period charge its price to within one cent.
THEOREM SplitsAddUp == Spec => []SplitPeriodsAddUp
  <1>1. AllBuilt => SplitPeriodsAddUp
    <2> SUFFICES ASSUME AllBuilt, NEW a \in issued, NEW b \in issued,
                        Prorated(a), Prorated(b),
                        a.input.period = b.input.period,
                        a.input.days + b.input.days = a.input.period
                 PROVE  LET sum == a.breakdown.subtotal + b.breakdown.subtotal
                        IN  price - 1 <= sum /\ sum <= price + 1
      BY DEF SplitPeriodsAddUp
    <2> DEFINE t == a.input.period
               m == a.input.days
               n == b.input.days
               x == a.breakdown.subtotal
               y == b.breakdown.subtotal
    <2>1. price \in Nat /\ Built(a) /\ Built(b)
      BY PriceIsNat DEF AllBuilt
    <2>2. /\ m \in Nat /\ t \in Nat \ {0} /\ x \in Nat
          /\ 2 * (price * Least(m, t)) - t <= 2 * (t * x)
          /\ 2 * (t * x) <= 2 * (price * Least(m, t)) + t
      BY <2>1, ProratedCharge
    <2>3. /\ n \in Nat /\ y \in Nat
          /\ 2 * (price * Least(n, t)) - t <= 2 * (t * y)
          /\ 2 * (t * y) <= 2 * (price * Least(n, t)) + t
      BY <2>1, ProratedCharge
    <2>4. m + n = t
      OBVIOUS
    <2> HIDE DEF t, m, n, x, y
    <2>5. Least(m, t) = m /\ Least(n, t) = n
      BY <2>2, <2>3, <2>4 DEF Least
    <2>6. price * m + price * n = price * t
      BY <2>1, <2>2, <2>3, <2>4
    <2>7. /\ price * m \in Nat /\ price * n \in Nat /\ price * t \in Nat
          /\ t * x \in Nat /\ t * y \in Nat
      BY <2>1, <2>2, <2>3, ProductOfNats
    <2>8. price * t - t <= t * x + t * y /\ t * x + t * y <= price * t + t
      BY <2>2, <2>3, <2>5, <2>6, <2>7
    <2>9. t * (x + y) = t * x + t * y
      BY <2>2, <2>3
    <2>10. t * (price - 2) < t * (x + y) /\ t * (x + y) < t * (price + 2)
      <3>1. t * (price - 2) = price * t - 2 * t /\ t * (price + 2) = price * t + 2 * t
        BY <2>1, <2>2
      <3> QED
        BY <2>2, <2>7, <2>8, <2>9, <3>1
    <2>11. price - 2 < x + y /\ x + y < price + 2
      BY <2>1, <2>2, <2>3, <2>10, FactorCancels
    <2> QED
      BY <2>1, <2>2, <2>3, <2>11 DEF x, y
  <1> QED
    BY <1>1, InvoicesAreBuilt, PTL

\* A charge never exceeds the price, and never shrinks when more days of the
\* same period are charged.
THEOREM ChargesGrow == Spec => []ChargeGrowsWithDays
  <1>1. AllBuilt => ChargeGrowsWithDays
    <2> SUFFICES ASSUME AllBuilt, NEW a \in issued, NEW b \in issued
                 PROVE  /\ a.breakdown.subtotal <= price
                        /\ (/\ Prorated(a) /\ Prorated(b)
                            /\ a.input.period = b.input.period
                            /\ a.input.days < b.input.days)
                             => a.breakdown.subtotal <= b.breakdown.subtotal
      BY DEF ChargeGrowsWithDays
    <2>1. price \in Nat /\ Built(a) /\ Built(b)
      BY PriceIsNat DEF AllBuilt
    <2>2. a.breakdown.subtotal <= price
      BY <2>1, BuiltShows
    <2>3. ASSUME Prorated(a), Prorated(b), a.input.period = b.input.period,
                 a.input.days < b.input.days,
                 b.breakdown.subtotal < a.breakdown.subtotal
          PROVE  FALSE
      <3> DEFINE t == a.input.period
                 m == Least(a.input.days, t)
                 n == Least(b.input.days, t)
                 x == a.breakdown.subtotal
                 y == b.breakdown.subtotal
      <3>1. /\ a.input.days \in Nat /\ t \in Nat \ {0} /\ x \in Nat
            /\ 2 * (t * x) <= 2 * (price * m) + t
        BY <2>1, <2>3, ProratedCharge
      <3>2. /\ b.input.days \in Nat /\ y \in Nat
            /\ 2 * (price * n) - t <= 2 * (t * y)
        BY <2>1, <2>3, ProratedCharge
      <3>3. m \in Nat /\ n \in Nat /\ (m < n \/ n = t)
        BY <2>3, <3>1, <3>2 DEF Least
      <3>4. y < x /\ x <= price
        BY <2>2, <2>3
      <3> HIDE DEF t, m, n, x, y
      <3>5. /\ t * x \in Nat /\ t * y \in Nat
            /\ price * m \in Nat /\ price * n \in Nat /\ price * t \in Nat
        BY <2>1, <3>1, <3>2, <3>3, ProductOfNats
      <3>6. t * (y + 1) = t * y + t
        BY <3>1, <3>2
      <3>7. CASE m < n
        <4>1. price * (m + 1) <= price * n
          BY <2>1, <3>3, <3>7, ProductGrows
        <4>2. price * (m + 1) = price * m + price
          BY <2>1, <3>3
        <4>3. price > 0
          BY <2>1, <3>2, <3>4, <3>1
        <4>4. t * x < t * (y + 1)
          BY <2>1, <3>1, <3>2, <3>5, <3>6, <4>1, <4>2, <4>3
        <4>5. x < y + 1
          BY <3>1, <3>2, <4>4, FactorCancels
        <4> QED
          BY <3>1, <3>2, <3>4, <4>5
      <3>8. CASE n = t
        <4>1. t * price = price * t
          BY <2>1, <3>1
        <4>2. t * price < t * (y + 1)
          BY <2>1, <3>1, <3>2, <3>5, <3>6, <3>8, <4>1
        <4>3. price < y + 1
          BY <2>1, <3>1, <3>2, <4>2, FactorCancels
        <4> QED
          BY <2>1, <3>1, <3>2, <3>4, <4>3
      <3> QED
        BY <3>3, <3>7, <3>8
    <2>4. a.breakdown.subtotal \in Nat /\ b.breakdown.subtotal \in Nat
      BY <2>1, BuiltShows DEF Breakdowns
    <2> QED
      BY <2>2, <2>3, <2>4
  <1> QED
    BY <1>1, InvoicesAreBuilt, PTL
=============================================================================
