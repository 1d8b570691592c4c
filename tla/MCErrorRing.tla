---------------------------- MODULE MCErrorRing ----------------------------
(* Reports on a short ring, one or two of each function, with codes that   *)
(* are in the tables and codes that are not; and the times of Osal.tla at  *)
(* the ends of seconds, with a long that overflows every four seconds.     *)
EXTENDS Reports, Osal

Call(by, index, code) ==
    [by |-> by, slave |-> 1, index |-> index, subidx |-> 2, code |-> code, reg |-> 257, b1 |-> 3]

MCCalls == {Call("SDOerror", 7186, \h6070010), Call("SDOerror", 7186, \h6070011),
            Call("SDOinfoerror", 5632, \h6010002), Call("packeterror", 7187, 3),
            Call("SoEerror", 15, \h700C), Call("mbxerror", 0, 8),
            Call("mbxemergencyerror", 0, 33040)}
MCErrors == {ErrorOf(c) : c \in MCCalls}

MCTimes == UNION {{s * USECS_PER_SEC, s * USECS_PER_SEC + 7, s * USECS_PER_SEC + 999999} :
                    s \in {0, 1, 2, 3, 4, 5, 8, 9, 100, 999}}
MCTimeouts == {0, 1, 7, 999999, 1000000, 1000001, 3500000}

ASSUME TimesChecked ==
    \A u \in MCTimes, w \in MCTimeouts :
        /\ ClockIsTrue(u) /\ DiffIsTrue(u, w)
        /\ \A now \in {u, u + w - 1, u + w, u + w + 1} \ {-1} : ExpiresInTime(u, w, now)

ASSUME TablesChecked == StatesDiffer
=============================================================================
