------------------------------- MODULE MCPaper -------------------------------
(* The instances of PaperTrading that TLC checks.                             *)
EXTENDS PaperTrading

\* A minute that touches the first level of a GALKA at 3 and returns above it,
\* one that goes through both levels and returns, and one that ends below both.
Touch == <<4, 2, 4>>
Dip   == <<3, 1, 4>>
Fall  == <<3, 1, 1>>

\* Minute by minute, what symbol 1 and symbol 2 do.
Moving == {<<<<Touch, Dip>>, <<Fall, Touch>>, <<Touch, Fall>>>>}

\* Minutes in which nothing is bought.
Calm  == {[m \in 1..3 |-> <<<<4, 4, 4>>>>]}

\* Minutes of two ticks: symbol 1 begins far below its ladder and is above it
\* afterwards, symbol 2 falls to its ladder when the first minute is over.  What
\* symbol 1 lost in that minute is more than the account holds (PaperMargin.cfg).
Drop == {<<<<<<0, 0>>, <<4, 4>>>>, <<<<4, 4>>, <<2, 2>>>>, <<<<4, 4>>, <<2, 2>>>>,
           <<<<4, 4>>, <<2, 2>>>>>>}

OneManual == {<<"manual">>}
TwoManual == {<<"manual", "manual">>}
TwoKinds  == {<<"manual", "auto">>}
==============================================================================
