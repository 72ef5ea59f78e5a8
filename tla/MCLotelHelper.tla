--------------------------- MODULE MCLotelHelper ---------------------------
(***************************************************************************)
(* LotelHelper on two tests of one package and one of another.             *)
(***************************************************************************)
EXTENDS LotelHelper

CONSTANTS t1, t2, t3, devsink, lotelhelper

MCTests == {t1, t2, t3}
MCPackages == {devsink, lotelhelper}
MCPackageOf == [t \in MCTests |-> IF t = t3 THEN devsink ELSE lotelhelper]
=============================================================================
