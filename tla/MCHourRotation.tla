--------------------------- MODULE MCHourRotation ---------------------------
(* Time zones for the runs of HourRotation.                                  *)
EXTENDS HourRotation

\* the offset is a whole number of hours
WholeHourZone(h, l) == h
\* the offset has half an hour: the local hour changes in the middle
HalfHourZone(h, l) == IF l THEN h + 1 ELSE h
=============================================================================
