------------------------ MODULE MCCodeCacheAccessor -------------------------
(* CodeCacheAccessor for TLC: two threads of one executor, one of another.  *)
EXTENDS CodeCacheAccessor, TLC

CONSTANTS t1, t2, t3, e1, e2

TwoAndOne == t1 :> e1 @@ t2 :> e1 @@ t3 :> e2
=============================================================================
