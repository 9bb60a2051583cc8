-------------------------------- MODULE FactSales --------------------------------
(***************************************************************************)
(* The money of one order in fact_sales: the source writes the order with  *)
(* its lines, header and lines reach Silver one by one, and a build splits *)
(* shipping and order discount over the lines that are there, in cents,    *)
(* with the rounding residual on the last line.  The readiness check lets  *)
(* the build begin, the amount checks of the quality gate let it publish.  *)
(*                                                                         *)
(* Amounts are in cents; the source keeps two decimals.  The quotient of   *)
(* an allocation is rounded as if it were exact: Spark has it rounded to   *)
(* nine decimals before.  The keys of a fact are in Scd2Dimension, retries *)
(* and the queue in GoldQueue.                                             *)
(***************************************************************************)
EXTENDS Integers, Sequences, FiniteSets, Functions

CONSTANTS Lines,      \* the lines a customer may order: gross, tax, discount
          Shippings,  \* shipping amounts of an order
          Discounts,  \* discount amounts of an order
          MaxLines,   \* bound on the lines of an order
          NoOrder,    \* the order, or its header in Silver, is not there
          NoFact      \* no facts have been built

LineAmounts == [gross : Nat, tax : Nat, discount : Nat]
HeaderAmounts == [subtotal : Nat, shipping : Nat, tax : Nat, discount : Nat]

ASSUME FactSalesAssumption ==
    /\ Lines \subseteq LineAmounts
    /\ \A l \in Lines : l.discount <= l.gross + l.tax
    /\ Shippings \subseteq Nat /\ Discounts \subseteq Nat /\ MaxLines \in Nat \ {0}
    /\ NoOrder \notin HeaderAmounts

VARIABLES lines,    \* order_items in the source, by order_item_id
          header,   \* the order in the source
          silver,   \* whether Silver has the order, and the lines it has
          fact,     \* the facts that the build has written
          phase,    \* where the build is
          release   \* the facts that the active release shows

vars == <<lines, header, silver, fact, phase, release>>

Facts == [shipping : Int, orderDiscount : Int, totalDiscount : Int, net : Int]

(* A fact has the lines that were there when it was built. *)
IsFactTable(table) == DOMAIN table \subseteq silver.lines /\ table \in [DOMAIN table -> Facts]

TypeOK ==
    /\ Len(lines) <= MaxLines /\ lines \in Seq(Lines)
    /\ header = NoOrder \/ header \in HeaderAmounts
    /\ silver.header \in BOOLEAN /\ silver.lines \subseteq 1..Len(lines)
    /\ fact = NoFact \/ IsFactTable(fact)
    /\ release = NoFact \/ IsFactTable(release)
    /\ phase \in {"idle", "built"}

Init ==
    /\ lines = <<>> /\ header = NoOrder
    /\ silver = [header |-> FALSE, lines |-> {}]
    /\ fact = NoFact /\ phase = "idle" /\ release = NoFact

--------------------------------------------------------------------------------
Total(amount, ids) == FoldFunctionOnSet(+, 0, amount, ids)

Gross == [i \in 1..Len(lines) |-> lines[i].gross]
Tax == [i \in 1..Len(lines) |-> lines[i].tax]
LineDiscount == [i \in 1..Len(lines) |-> lines[i].discount]

(* insert_order writes header and lines in one transaction.  What the lines *)
(* say of discounts need not be in the header's amount: they are then       *)
(* informational (test_fact_sales.py:265).                                  *)
PlaceOrder(ordered, shipping, discount) ==
    /\ header = NoOrder
    /\ lines' = ordered
    /\ LET subtotal == Total([i \in DOMAIN ordered |-> ordered[i].gross], DOMAIN ordered)
           tax == Total([i \in DOMAIN ordered |-> ordered[i].tax], DOMAIN ordered)
       IN  /\ discount <= subtotal + shipping + tax
           /\ header' = [subtotal |-> subtotal, shipping |-> shipping, tax |-> tax, discount |-> discount]
    /\ UNCHANGED <<silver, fact, phase, release>>

(* The two tables have topics of their own; nothing arrives during a build. *)
ArriveHeader ==
    /\ header # NoOrder /\ ~silver.header /\ phase = "idle"
    /\ silver' = [silver EXCEPT !.header = TRUE]
    /\ UNCHANGED <<lines, header, fact, phase, release>>

ArriveLine(i) ==
    /\ i \in 1..Len(lines) \ silver.lines /\ phase = "idle"
    /\ silver' = [silver EXCEPT !.lines = @ \cup {i}]
    /\ UNCHANGED <<lines, header, fact, phase, release>>

--------------------------------------------------------------------------------
(* build_fact_sales.  Operators named Bug... are variants of the operator   *)
(* that follows them, each with one plausible mistake; no action uses them. *)

Within(a, b, tolerance) == a - b <= tolerance /\ b - a <= tolerance

(* bround(n / d, 0): half to even. *)
BRound(n, d) ==
    LET q == n \div d
        r == n % d
    IN  IF 2 * r < d \/ (2 * r = d /\ q % 2 = 0) THEN q ELSE q + 1

LastLine(ids) == CHOOSE i \in ids : \A j \in ids : j <= i

(* The quotient is cut off. *)
BugRawShare(total, weight, weightTotal) == IF weightTotal > 0 THEN (total * weight) \div weightTotal ELSE 0

RawShare(total, weight, weightTotal) == IF weightTotal > 0 THEN BRound(total * weight, weightTotal) ELSE 0

(* Every line is rounded for itself. *)
BugResidualAllocation(total, ids) ==
    [i \in ids |-> RawShare(total, Gross[i], Total(Gross, ids))]

(* _residual_allocation. *)
ResidualAllocation(total, ids) ==
    LET raw == [i \in ids |-> RawShare(total, Gross[i], Total(Gross, ids))]
    IN  [i \in ids |-> IF i = LastLine(ids) THEN total - (Total(raw, ids) - raw[i]) ELSE raw[i]]

Discounted(ids) ==
    LET lineTotal == Total(LineDiscount, ids)
        rest == ResidualAllocation(IF lineTotal <= header.discount THEN header.discount - lineTotal ELSE 0, ids)
    IN  [order |-> rest,
         total |-> IF lineTotal <= header.discount THEN [i \in ids |-> LineDiscount[i] + rest[i]]
                   ELSE ResidualAllocation(header.discount, ids)]

FactSales(ids) ==
    LET shipping == ResidualAllocation(header.shipping, ids)
        discount == Discounted(ids)
    IN  [i \in ids |->
            [shipping |-> shipping[i], orderDiscount |-> discount.order[i],
             totalDiscount |-> discount.total[i],
             net |-> Gross[i] + Tax[i] + shipping[i] - discount.total[i]]]

Column(table, name) == [i \in DOMAIN table |-> table[i][name]]

(* _source_fact_ready_for_gold compares what both tables say of the order;  *)
(* a sum over no lines is NULL.                                             *)
Ready ==
    /\ silver.header /\ silver.lines # {}
    /\ Within(header.subtotal, Total(Gross, silver.lines), 1)
    /\ Within(header.tax, Total(Tax, silver.lines), 1)

(* It takes the lines of the source. *)
BugBuild ==
    /\ phase = "idle" /\ Ready
    /\ fact # NoFact => DOMAIN fact # silver.lines
    /\ fact' = FactSales(1..Len(lines))
    /\ phase' = "built"
    /\ UNCHANGED <<lines, header, silver, release>>

Build ==
    /\ phase = "idle" /\ Ready
    /\ fact # NoFact => DOMAIN fact # silver.lines
    /\ fact' = FactSales(silver.lines)
    /\ phase' = "built"
    /\ UNCHANGED <<lines, header, silver, release>>

--------------------------------------------------------------------------------
(* The amount checks of the quality gate.                                   *)
(* Nothing may be free. *)
BugHasNegative(table) ==
    \E i \in DOMAIN table : \E name \in {"shipping", "orderDiscount", "totalDiscount", "net"} : table[i][name] <= 0

HasNegative(table) ==
    \E i \in DOMAIN table : \E name \in {"shipping", "orderDiscount", "totalDiscount", "net"} : table[i][name] < 0

Reconciled(table) ==
    LET ids == DOMAIN table
    IN  /\ Within(header.subtotal, Total(Gross, ids), 1)
        /\ Within(header.discount, Total(Column(table, "totalDiscount"), ids), 1)
        /\ Within(header.tax, Total(Tax, ids), 1)
        /\ Within(header.shipping, Total(Column(table, "shipping"), ids), 1)
        /\ Within(header.subtotal + header.shipping + header.tax - header.discount,
                  Total(Column(table, "net"), ids), 1)

GatePasses(table) == ~HasNegative(table) /\ Reconciled(table)

Publish ==
    /\ phase = "built" /\ GatePasses(fact)
    /\ release' = fact /\ phase' = "idle"
    /\ UNCHANGED <<lines, header, silver, fact>>

(* GoldQualityError: the release stays as it is. *)
Refuse ==
    /\ phase = "built" /\ ~GatePasses(fact)
    /\ phase' = "idle"
    /\ UNCHANGED <<lines, header, silver, fact, release>>

Next ==
    \/ \E n \in 1..MaxLines : \E ordered \in [1..n -> Lines], shipping \in Shippings, discount \in Discounts :
          PlaceOrder(ordered, shipping, discount)
    \/ ArriveHeader \/ \E i \in 1..MaxLines : ArriveLine(i)
    \/ Build \/ Publish \/ Refuse

Spec == Init /\ [][Next]_vars

--------------------------------------------------------------------------------
(* Whatever the rounding does, and whichever lines are there, the shares of *)
(* shipping and of discount add up to the header's amounts to the cent, in  *)
(* both ways of splitting the discount: the gate's tolerance is not needed  *)
(* for them.  (fact_sales.py:_residual_allocation)                          *)
SharesAddUp ==
    fact # NoFact =>
        /\ Total(Column(fact, "shipping"), DOMAIN fact) = header.shipping
        /\ Total(Column(fact, "totalDiscount"), DOMAIN fact) = header.discount

(* Every line but the last has its proportion of the shipping to half a     *)
(* cent, the last to half a cent for each line before it.                   *)
(* (fact_sales.py:_residual_allocation)                                     *)
ShippingIsProportional ==
    fact # NoFact /\ Total(Gross, DOMAIN fact) > 0 =>
        LET ids == DOMAIN fact
            weight == Total(Gross, ids)
        IN  \A i \in ids :
                Within(2 * weight * fact[i].shipping, 2 * header.shipping * Gross[i],
                       IF i = LastLine(ids) THEN (Cardinality(ids) - 1) * weight ELSE weight)

(* A whole order is refused for a line that comes out negative, never for   *)
(* its sums, and who can bear his share is not refused: when the last       *)
(* line's share of the shipping and of the order's discount is worth the    *)
(* residual, and no line is left with less than the cents that rounding may *)
(* take from it, no amount of the order is negative.  An order that breaks  *)
(* this may be refused at each build, and Gold is published with none of    *)
(* the others.  (fact_sales.py:_residual_allocation, quality.py:            *)
(* MONETARY_COLUMNS, _fact_metrics_frame, _assert_reconciliation)           *)
Bearable(ids) ==
    LET weight == Total(Gross, ids)
        lineTotal == Total(LineDiscount, ids)
        taken == IF lineTotal <= header.discount THEN header.discount - lineTotal ELSE header.discount
        own(i) == IF lineTotal <= header.discount THEN LineDiscount[i] ELSE 0
        last == LastLine(ids)
        residual == (Cardinality(ids) - 1) * weight
    IN  /\ weight > 0
        /\ \A split \in {header.shipping, taken} : split = 0 \/ 2 * split * Gross[last] >= residual
        /\ \A i \in ids : 2 * weight * (Gross[i] + Tax[i] - own(i)) >= 2 * taken * Gross[i] + residual + weight

BearableOrdersPass ==
    phase = "built" /\ DOMAIN fact = 1..Len(lines) =>
        GatePasses(fact) \/ (HasNegative(fact) /\ ~Bearable(DOMAIN fact))

================================================================================
