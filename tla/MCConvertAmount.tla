--------------------------- MODULE MCConvertAmount ---------------------------
(* ConvertAmount with a precision of 100 and integers of 9 bits.  The rates *)
(* are equal, coprime, so far apart that the exchange rate is rounded to    *)
(* zero, and zero; the amounts lie on both sides of the precision, and      *)
(* reach values that do not fit when converted, alone or together.  The unit *)
(* of worths is 3 * 7 * 8 * 1601.                                           *)
EXTENDS ConvertAmount

CONSTANTS USD, GEL, JPY, TINY, NIL, OLD

Table == [c \in Currencies |->
            CASE c = USD -> 3 [] c = GEL -> 7 [] c = JPY -> 8
              [] c = TINY -> 1601 [] c = NIL -> 0 [] c = OLD -> 3]
=============================================================================
