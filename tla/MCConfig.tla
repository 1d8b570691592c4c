------------------------------- MODULE MCConfig -------------------------------
(* Kinds of devices: without SII (plain), with its process data in the SII *)
(* (io), by CoE with complete access (drive, and axis, which has the same  *)
(* ids and other PDOs), with the two odd lists of sync manager types       *)
(* (shifted, untyped), and by SoE (servo).                                 *)
EXTENDS Config

Items(id, rxadr, rxlen, txadr, txlen) ==
    [MANUF |-> 7, ID |-> id, REV |-> 3, RXMBX |-> rxadr + 65536 * rxlen,
     TXMBX |-> txadr + 65536 * txlen, MBXPROTO |-> 0]
NoMail(id) == Items(id, 0, 0, 0, 0)
Mail(id) == Items(id, 4096, 128, 4352, 0)

Plain == [eep8 |-> FALSE, head |-> NoMail(0), proto |-> {}, general |-> <<>>, names |-> <<>>,
          fmmus |-> <<>>, sms |-> <<>>, txpdos |-> <<>>, rxpdos |-> <<>>,
          types |-> <<>>, assign |-> <<>>, pdos |-> <<>>, drives |-> <<>>, means |-> <<>>]

Gen(coe, block, ebus) == <<[coe |-> coe, foe |-> 1, eoe |-> 2, soe |-> 3,
                            blockLRW |-> block, ebus |-> ebus]>>
Sm(start, len, on) == [start |-> start, len |-> len, on |-> on]
Pdo(index, sm, entries) == [index |-> index, sm |-> sm, entries |-> entries]

Io == [Plain EXCEPT !.eep8 = TRUE, !.head = NoMail(1), !.general = Gen(0, TRUE, 300),
        !.names = <<<<5, 6, 7>>, <<8>>>>, !.fmmus = <<1, 255>>,
        !.sms = <<Sm(3840, 9, TRUE), Sm(4096, 9, TRUE)>>,
        !.txpdos = <<Pdo(6656, 1, <<8, 8>>), Pdo(6657, 255, <<16>>), Pdo(6658, 1, <<1>>)>>,
        !.rxpdos = <<Pdo(5632, 0, <<4>>)>>,
        !.means = (0 :> 3) @@ (1 :> 4)]

FourSMs == <<Sm(4096, 128, TRUE), Sm(4352, 128, TRUE), Sm(4608, 9, TRUE), Sm(5120, 9, TRUE)>>
InOut == (2 :> 3) @@ (3 :> 4)
Drive == [Plain EXCEPT !.head = Mail(2), !.proto = {"CoE"}, !.general = Gen(35, FALSE, 20),
           !.names = <<<<9>>>>, !.fmmus = <<1, 2, 3>>, !.sms = FourSMs,
           !.types = <<1, 2, 3, 4>>,
           !.assign = (2 :> <<1>>) @@ (3 :> <<2, 3>>),
           !.pdos = <<<<16, 32>>, <<16>>, <<4, 8>>>>, !.means = InOut]
Axis == [Drive EXCEPT !.assign = (2 :> <<2>>) @@ (3 :> <<1>>)]
Shifted2 == [Drive EXCEPT !.head = Mail(3), !.general = Gen(3, FALSE, 0), !.types = <<0, 1, 2, 3, 4>>,
              !.assign = (2 :> <<2>>) @@ (3 :> <<3>>) @@ (4 :> <<1>>)]
Untyped == [Drive EXCEPT !.head = Mail(4), !.types = <<1, 2, 0, 0>>, !.names = <<>>]
Idn(length, list) == [length |-> length, list |-> list]
Servo == [Plain EXCEPT !.head = Mail(5), !.proto = {"SoE"}, !.sms = FourSMs, !.means = InOut,
           !.drives = <<[MDT |-> <<Idn(2, FALSE)>>, AT |-> <<Idn(2, FALSE), Idn(1, TRUE)>>]>>]

MCTypes == ("plain" :> Plain) @@ ("io" :> Io) @@ ("drive" :> Drive) @@ ("axis" :> Axis)
             @@ ("shifted" :> Shifted2) @@ ("untyped" :> Untyped) @@ ("servo" :> Servo)

-----------------------------------------------------------------------------
(* Wirings: all trees of up to so many slaves, in the order in which a     *)
(* frame reaches them.  The next slave hangs on the last one or one above  *)
(* it, on a port that the frame leaves by later.                           *)

Slave(type, s, up, port, in, hasdc) ==
    [type |-> type, up |-> up, port |-> port, in |-> in, cable |-> 2 ^ s, clock |-> 100 * s,
     hasdc |-> hasdc]

RECURSIVE Upstream(_, _)
Upstream(n, s) == IF s = 0 THEN {} ELSE {s} \cup Upstream(n, n[s].up)

PortsLeft(n, s) ==
    LET used == {n[c].port : c \in {c \in DOMAIN n : n[c].up = s}}
    IN  {p \in {3, 1, 2} : Rank[p] < Rank[n[s].in] /\ \A u \in used : Rank[u] < Rank[p]}

RECURSIVE Trees(_, _, _)
Trees(k, Ins, Dcs) ==
    IF k = 1 THEN {<<Slave("plain", 1, 0, 0, in, has)>> : in \in Ins, has \in Dcs}
    ELSE UNION {{Append(n, Slave("plain", k, u, p, in, has)) :
                    p \in PortsLeft(n, u), in \in Ins, has \in Dcs} :
                <<n, u>> \in UNION {{<<n, u>> : u \in Upstream(n, k - 1)} : n \in Trees(k - 1, Ins, Dcs)}}

Line(ts) == [s \in DOMAIN ts |-> Slave(ts[s], s, s - 1, IF s = 1 THEN 0 ELSE 1, 0, TRUE)]
Kinds == DOMAIN MCTypes

\* The table knows a simple device, one with mailboxes, and a coupler; the
\* networks configured with it differ from the others in their clocks.
Entry(id, name, obits, ibits, sm2, sm3) ==
    [man |-> 7, id |-> id, name |-> name, Obits |-> obits, Ibits |-> ibits, SM2 |-> sm2, SM3 |-> sm3]
MCConfigList == <<Entry(0, <<1>>, 0, 0, Sm(0, 0, FALSE), Sm(0, 0, FALSE)),
                  Entry(1, <<2>>, 4, 17, Sm(0, 0, FALSE), Sm(0, 0, FALSE)),
                  Entry(2, <<3>>, 48, 28, Sm(4608, 0, TRUE), Sm(5120, 0, TRUE))>>
Table(n) == [s \in DOMAIN n |-> [n[s] EXCEPT !.clock = @ + 7]]
MCTable == {Table(Line(<<t, u>>)) : t \in {"plain", "io", "drive"}, u \in Kinds}
MCRewirings == {Line(<<t>>) : t \in {"io", "drive", "untyped"}}
                 \cup {Line(<<t, u>>) : t \in {"io", "axis"}, u \in {"io", "drive", "servo"}}
MCFaulty == MCRewirings \cup MCTable \cup {Line(<<t, u>>) : t \in Kinds, u \in Kinds}
              \cup Trees(3, {0}, {TRUE})
MCNetworks == MCFaulty \cup MCTable
                \cup UNION {Trees(k, {0, 1}, {TRUE}) : k \in 3 .. 4}
                \cup UNION {Trees(k, {0}, BOOLEAN) : k \in 3 .. 5}
                \cup {Line(<<"plain", "plain", "plain", "plain", "plain", "plain">>)}
=============================================================================
