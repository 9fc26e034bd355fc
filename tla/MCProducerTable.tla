--------------------------- MODULE MCProducerTable ---------------------------
(* Threads whose first probes coincide, and a table that they outgrow.     *)
EXTENDS ProducerTable
CONSTANTS t1, t2, t3
MCThreads == {t1, t2, t3}
MCHash == [t \in MCThreads |-> IF t = t3 THEN 1 ELSE 0]
=============================================================================
