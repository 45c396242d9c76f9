-------------------------- MODULE MCDerivationPath --------------------------
(***************************************************************************)
(* Items of six bits instead of 32: hardened from 32 on, printed as such   *)
(* from 2 on.  The last two items take the values around each boundary.    *)
(***************************************************************************)
EXTENDS DerivationPath

C(n, m) == [number |-> n, marked |-> m]
Tail2   == [number : {-33, -32, -1, 0, 1, 2, 3, 30, 31, 32, NotANumber}, marked : BOOLEAN]
Heads   == {<<C(4, TRUE), C(5, TRUE)>>, <<C(4, TRUE), C(1, TRUE)>>, <<C(4, FALSE), C(5, TRUE)>>,
            <<C(0, FALSE), C(0, FALSE)>>}
Path5(h, c, d) == [i \in Depth |-> CASE i <= 2 -> h[i] [] i = 3 -> C(0, TRUE)
                                     [] i = 4 -> c [] OTHER -> d]

MCHardened == 32
MCPrefix   == {<<32 + 4, 32 + 5>>, <<32 + 4, 32 + 1>>}
MCText     == {[root |-> r, children |-> Path5(h, c, d)] :
                 r \in BOOLEAN, h \in Heads, c, d \in Tail2}
=============================================================================
