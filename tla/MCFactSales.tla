------------------------------- MODULE MCFactSales -------------------------------
(* Finite instances of FactSales: small amounts, so that many quotients are *)
(* halves of a cent, a free line, and lines that are discounted away.       *)
EXTENDS FactSales

Line(gross, tax, discount) == [gross |-> gross, tax |-> tax, discount |-> discount]

MCLines == {Line(0, 0, 0), Line(1, 0, 0), Line(2, 0, 1), Line(3, 0, 0), Line(3, 1, 4), Line(1, 1, 0),
            Line(7, 1, 0)}

================================================================================
