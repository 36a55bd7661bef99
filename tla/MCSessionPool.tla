--------------------------- MODULE MCSessionPool ---------------------------
(* Two tcp and two fifo sessions under small limits.                       *)
EXTENDS SessionPool

CONSTANTS t1, t2, f1, f2, tcp, fifo

BothTypes == {tcp, fifo}
FourSessions == {t1, t2, f1, f2}
KindOf == [s \in Session |-> IF s \in {t1, t2} THEN tcp ELSE fifo]
OneTcpTwoFifo == [y \in Type |-> IF y = tcp THEN 1 ELSE 2]

(* The names of two sessions of a type do not matter.                      *)
Served(sessions, maxTotal) ==
  [sessions |-> sessions, order |-> {<<t1, t2>>, <<f1, f2>>} \cap (sessions \X sessions),
   maxTotal |-> maxTotal, stop |-> FALSE]

ManyOrStop ==
  {Served({t1, t2, f1}, 2), Served({t1, f1, f2}, 2), Served({t1, t2, f1}, 3),
   [Served({t1, f1}, 2) EXCEPT !.stop = TRUE]}
TwoTcp == {Served({t1, t2}, 2)}

=============================================================================
