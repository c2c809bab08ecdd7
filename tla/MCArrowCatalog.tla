--------------------------- MODULE MCArrowCatalog ---------------------------
(* Small tables: two columns with a dictionary each, the second of which    *)
(* may be one too many; two columns that share a new one, one that takes    *)
(* dictionary 1 and one without; and arrays.                                *)
EXTENDS ArrowCatalog

Col(array, share) == [array |-> array, share |-> share]

SomeColumns ==
    {<<Col(FALSE, 0), Col(FALSE, 0)>>,
     <<Col(FALSE, -1), Col(FALSE, -1), Col(FALSE, 1), Col(FALSE, Plain)>>,
     <<Col(TRUE, 1), Col(TRUE, -1)>>}
=============================================================================
