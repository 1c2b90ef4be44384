------------------------- MODULE MCContainerVerifier -------------------------
(* Two branches with a container each in one process, and two threads that *)
(* cancel: one in the same process, one in another.                        *)
EXTENDS ContainerVerifier, TLC

CONSTANTS k1, k2, inner, host
MCKeys == {k1, k2}
MCControllers == {inner}
MCHome == [c \in MCControllers |-> host]
MCAttempts == [k \in MCKeys |-> IF k = k1 THEN 2 ELSE 1]
=============================================================================
