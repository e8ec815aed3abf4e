------------------------------ MODULE MCItemSync ------------------------------
\* ItemSync for model checking.  Items are interchangeable: none is told apart.
EXTENDS ItemSync, TLC

ItemSymmetry == Permutations(Items)
===============================================================================
