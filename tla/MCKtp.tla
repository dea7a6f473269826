-------------------------------- MODULE MCKtp --------------------------------
(* Instances of Ktp for TLC: one sender (socket 1) and one reader (socket 2), *)
(* or two sockets that send to each other.                                    *)
EXTENDS Ktp

Pair     == {1, 2}
Crossed  == <<2, 1>>
Simplex4 == <<4, 0>>
Duplex41 == <<4, 1>>
=============================================================================
