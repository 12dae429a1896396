------------------------------ MODULE MCDevice ------------------------------
(***************************************************************************)
(* Instances of Device for TLC.  A constant whose value is a function or a *)
(* symmetry set is defined here, all others are in the .cfg files.         *)
(***************************************************************************)
EXTENDS Device, TLC

\* a keepalive first, as the other end opens a session, then data; or data only
KeepaliveThenData == [c \in 0 .. MaxRxCtr |-> IF c = 0 THEN "keepalive" ELSE "packet"]
DataOnly == [c \in 0 .. MaxRxCtr |-> "packet"]
LastIsForeign ==
    [c \in 0 .. MaxRxCtr |-> IF c = 0 THEN "keepalive"
                             ELSE IF c = MaxRxCtr THEN "foreign" ELSE "packet"]

\* the code only compares session indices for equality
IndexSymmetry == Permutations(LocalIndex)
=============================================================================
