---------------------------------- MODULE Sii ---------------------------------
(***************************************************************************)
(* The slave information of a slave's EEPROM as ethercatmain.c reads it:   *)
(* ecx_siigetbyte with its cache esibuf, and ecx_siifind, ecx_siistring,   *)
(* ecx_siiFMMU, ecx_siiSM, ecx_siiSMnext and ecx_siiPDO on top of it.      *)
(*                                                                         *)
(* A reader r is one call's view: the slave, its device, the words whose   *)
(* read fails (ecx_readeepromFP then returns 0, which nobody looks at),    *)
(* the cache, and whether the EEPROM is the slave's own (eep_pdi).  Every  *)
(* operator returns the reader as it leaves it.                            *)
(***************************************************************************)
EXTENDS Integers, Sequences, SequencesExt, FiniteSetsExt

CONSTANTS
    EC_MAXEEPBUF,       \* bytes of the cache
    EC_MAXSM,           \* sync managers of a slave
    EC_MAXNAME,         \* characters of a name
    EC_MAXEEPDO         \* PDOs that are read

ECT_SII_STRING == 10
ECT_SII_GENERAL == 30
ECT_SII_FMMU == 40
ECT_SII_SM == 41
ECT_SII_PDO == 50
SiiStart == 128         \* ECT_SII_START << 1
EndOfSii == 65535

SiiAssumption == /\ EC_MAXEEPBUF \in Nat /\ EC_MAXSM \in 2 .. 254
                 /\ EC_MAXNAME \in Nat \ {0} /\ EC_MAXEEPDO \in Nat \ {0, 1}
ASSUME SiiAssumption

-----------------------------------------------------------------------------
(* What a device has in its EEPROM (external): categories of whole words,  *)
(* erased bytes behind them.                                               *)

Lo(w) == w % 256
Hi(w) == w \div 256
Padded(s) == IF Len(s) % 2 = 0 THEN s ELSE Append(s, 0)
Flat(ss) == FoldLeft(LAMBDA s, t : s \o t, <<>>, ss)
Mapped(f(_), s) == [k \in DOMAIN s |-> f(s[k])]

Category(cat, bytes) ==
    IF bytes = <<>> THEN <<>>
    ELSE LET b == Padded(bytes)
         IN  <<Lo(cat), Hi(cat), Lo(Len(b) \div 2), Hi(Len(b) \div 2)>> \o b

SmBytes(sm) == <<Lo(sm.start), Hi(sm.start), Lo(sm.len), Hi(sm.len), 0, 0,
                 IF sm.on THEN 1 ELSE 0, 0>>
EntryBytes(bits) == <<0, 0, 0, 0, 0, bits, 0, 0>>
PdoBytes(pdo) == <<Lo(pdo.index), Hi(pdo.index), Len(pdo.entries), pdo.sm, 0, 0, 0, 0>>
                    \o Flat(Mapped(EntryBytes, pdo.entries))
NameBytes(name) == <<Len(name)>> \o name
GeneralBytes(g) == <<0, 0, 0, 0, 0, g.coe, g.foe, g.eoe, g.soe, 0, 0,
                     IF g.blockLRW THEN 2 ELSE 0, Lo(g.ebus), Hi(g.ebus)>>

EepromOf(d) ==
    Category(ECT_SII_STRING,
             IF d.names = <<>> THEN <<>> ELSE <<Len(d.names)>> \o Flat(Mapped(NameBytes, d.names)))
      \o Flat(Mapped(LAMBDA g : Category(ECT_SII_GENERAL, GeneralBytes(g)), d.general))
      \o Category(ECT_SII_FMMU, d.fmmus)
      \o Category(ECT_SII_SM, Flat(Mapped(SmBytes, d.sms)))
      \o Category(ECT_SII_PDO, Flat(Mapped(PdoBytes, d.txpdos)))
      \o Category(ECT_SII_PDO + 1, Flat(Mapped(PdoBytes, d.rxpdos)))

EepromByte(rom, a) == IF a - SiiStart + 1 \in DOMAIN rom THEN rom[a - SiiStart + 1] ELSE 255

-----------------------------------------------------------------------------
(* ecx_siigetbyte.                                                         *)

NoBytes == [a \in {} |-> 0]

Reader(slave, d, fail, cache, pdi) ==
    [slave |-> slave, rom |-> EepromOf(d), eep8 |-> d.eep8, fail |-> fail,
     cache |-> cache, pdi |-> pdi]

\* Mutant: the cache is not cleared for another slave.
Fetch_NotCleared(r, a) ==
    IF a >= EC_MAXEEPBUF \/ a \in DOMAIN r.cache.esibuf
    THEN [r EXCEPT !.cache = [@ EXCEPT !.esislave = r.slave]]
    ELSE LET eadr == a \div 2
             read == [b \in 2 * eadr .. 2 * eadr + (IF r.eep8 THEN 7 ELSE 3) |->
                         IF eadr \in r.fail THEN 0 ELSE EepromByte(r.rom, b)]
             buf == r.cache.esibuf
         IN  [r EXCEPT !.pdi = FALSE,
                       !.cache = [esislave |-> r.slave,
                                  esibuf |-> [b \in DOMAIN read \cup DOMAIN buf |->
                                      IF b \in DOMAIN read THEN read[b] ELSE buf[b]]]]

\* The cache is of one slave.  A byte that is not in it is read with the
\* three or seven behind it, and the EEPROM taken from the PDI for that.
\* esibuf has the bytes that esimap marks.
Fetch(r, a) ==
    LET buf == IF r.cache.esislave = r.slave THEN r.cache.esibuf ELSE NoBytes
        eadr == a \div 2
        read == [b \in 2 * eadr .. 2 * eadr + (IF r.eep8 THEN 7 ELSE 3) |->
                    IF eadr \in r.fail THEN 0 ELSE EepromByte(r.rom, b)]
    IN  IF a >= EC_MAXEEPBUF \/ a \in DOMAIN buf
        THEN [r EXCEPT !.cache = [esislave |-> r.slave, esibuf |-> buf]]
        ELSE [r EXCEPT !.pdi = FALSE,
                       !.cache = [esislave |-> r.slave,
                                  esibuf |-> [b \in DOMAIN read \cup DOMAIN buf |->
                                      IF b \in DOMAIN read THEN read[b] ELSE buf[b]]]]

FetchAll(r, a, n) == FoldLeft(LAMBDA q, k : Fetch(q, a + k - 1), r, [k \in 1 .. n |-> k])

\* ... and the bytes once fetched.
Byte(r, a) == IF a >= EC_MAXEEPBUF THEN 255 ELSE r.cache.esibuf[a]
Word(r, a) == Byte(r, a) + 256 * Byte(r, a + 1)

\* eectl: the PDI gets the EEPROM back if it had it before.
Restored(r, before) == [r EXCEPT !.pdi = before.pdi]

-----------------------------------------------------------------------------
(* ecx_siifind.                                                            *)

\* From category to category, by their lengths in words, up to the one
\* asked for or the end.
RECURSIVE SiiWalk(_, _, _)
SiiWalk(r, a, cat) ==
    LET r1 == FetchAll(r, a, 2)
        r2 == FetchAll(r1, a + 2, 2)
    IN  IF Word(r1, a) = cat THEN [r |-> r1, at |-> a + 2]
        ELSE IF Word(r1, a) = EndOfSii THEN [r |-> r1, at |-> 0]
        ELSE SiiWalk(r2, (a + 4 + 2 * Word(r2, a + 2)) % 65536, cat)

\* The address of the length of a category, 0 if there is none.
siifind(r, cat) == [SiiWalk(r, SiiStart, cat) EXCEPT !.r = Restored(@, r)]

\* The n bytes behind the length of a category.
Section(r, at, n) == FetchAll(r, at, n + 2)

-----------------------------------------------------------------------------
(* The categories.                                                         *)

GeneralOf(r, a) ==
    [r |-> r, found |-> TRUE,
     CoEdetails |-> Byte(r, a + 7), FoEdetails |-> Byte(r, a + 8),
     EoEdetails |-> Byte(r, a + 9), SoEdetails |-> Byte(r, a + 10),
     blockLRW |-> (Byte(r, a + 13) \div 2) % 2 = 1,
     Ebuscurrent |-> Word(r, a + 14)]

GeneralAt(f) == IF f.at = 0 THEN [r |-> f.r, found |-> FALSE]
                ELSE GeneralOf(FetchAll(FetchAll(f.r, f.at + 7, 4), f.at + 13, 3), f.at)

General(r) == GeneralAt(siifind(r, ECT_SII_GENERAL))

\* The characters of the string that starts with its length at a.
StringAt(r, a) ==
    LET n == Min({Byte(r, a), EC_MAXNAME})
        r1 == FetchAll(r, a + 1, n)
    IN  [r |-> r1, str |-> [k \in 1 .. n |-> Byte(r1, a + k)]]

RECURSIVE SkipStrings(_, _, _)
SkipStrings(r, a, n) ==
    LET r1 == Fetch(r, a)
    IN  IF n = 0 THEN [r |-> r1, at |-> a] ELSE SkipStrings(r1, a + 1 + Byte(r1, a), n - 1)

\* String Sn of those whose number is at a, empty when there are fewer.
StringOf(r, a, Sn) ==
    IF Sn > Byte(r, a) THEN [r |-> r, str |-> <<>>]
    ELSE LET s == SkipStrings(r, a + 1, Sn - 1) IN StringAt(s.r, s.at)

StringIn(f, Sn) == IF f.at = 0 THEN [r |-> f.r, str |-> <<>>]
                   ELSE StringOf(Fetch(f.r, f.at + 2), f.at + 2, Sn)

siistring(r, Sn) ==
    [StringIn(siifind(r, ECT_SII_STRING), Sn) EXCEPT !.r = Restored(@, r)]

\* nFMMU is twice the words of the category; four FMMUs are looked at.
FmmusOf(r, a, n) ==
    [r |-> r, n |-> n,
     fmmu |-> [k \in 1 .. 4 |-> IF k <= 2 \/ n > 2 THEN Byte(r, a + 1 + k) ELSE 0]]

FmmusAt(r, a) ==
    FmmusOf(IF 2 * Word(r, a) > 2 THEN FetchAll(r, a + 4, 2) ELSE r, a, 2 * Word(r, a))

FmmusIn(f) == IF f.at = 0 THEN [r |-> f.r, n |-> 0, fmmu |-> <<0, 0, 0, 0>>]
              ELSE FmmusAt(FetchAll(f.r, f.at, 4), f.at)

siiFMMU(r) == [FmmusIn(siifind(r, ECT_SII_FMMU)) EXCEPT !.r = Restored(@, r)]

SmAt(r, a) == [start |-> Word(r, a), len |-> Word(r, a + 2), on |-> Byte(r, a + 6) % 2 = 1]

\* Sync manager n of the category at at.
siiSMnext(r, at, n) ==
    LET r1 == FetchAll(r, at + 2 + 8 * n, 8)
    IN  [r |-> Restored(r1, r), sm |-> SmAt(r1, at + 2 + 8 * n)]

\* All of them, as ecx_config_init collects them.
SmsAt(r, a) ==
    FoldLeft(LAMBDA acc, n :
                 LET x == siiSMnext(acc.r, a, n - 1)
                 IN  [r |-> x.r, sms |-> Append(acc.sms, x.sm)],
             [r |-> r, sms |-> <<>>],
             [n \in 1 .. Min({Word(r, a) \div 4, EC_MAXSM}) |-> n])

SmsIn(f) == IF f.at = 0 THEN [r |-> f.r, sms |-> <<>>]
            ELSE SmsAt(FetchAll(f.r, f.at, 2), f.at)

siiSM(r) == [SmsIn(siifind(r, ECT_SII_SM)) EXCEPT !.r = Restored(@, r)]

\* The sum of the bit lengths of the e entries at a.
EntryBits(r, a, e) ==
    FoldLeft(LAMBDA acc, k :
                 LET r1 == Fetch(acc.r, a + 8 * (k - 1) + 5)
                 IN  [r |-> r1, bits |-> acc.bits + Byte(r1, a + 8 * (k - 1) + 5)],
             [r |-> r, bits |-> 0], [k \in 1 .. e |-> k])

\* The PDOs from a on; c counts the words as the code does.
RECURSIVE PdosAt(_, _, _, _, _, _)
PdosAt(r, a, c, length, n, SMbitsize) ==
    LET r1 == FetchAll(r, a, 4)
        e == Byte(r1, a + 2)
        sm == Byte(r1, a + 3)
        x == IF sm < EC_MAXSM THEN EntryBits(r1, a + 8, e) ELSE [r |-> r1, bits |-> 0]
        sizes == IF sm < EC_MAXSM THEN [SMbitsize EXCEPT ![sm] = @ + x.bits] ELSE SMbitsize
        next == c + 4 * (e + 1)
    IN  IF n >= EC_MAXEEPDO - 1 \/ next >= length THEN [r |-> x.r, SMbitsize |-> sizes]
        ELSE PdosAt(x.r, a + 8 * (e + 1), next, length, n + 1, sizes)

NoSizes == [sm \in 0 .. EC_MAXSM - 1 |-> 0]

PdosIn(f) ==
    IF f.at = 0 THEN [r |-> f.r, SMbitsize |-> NoSizes]
    ELSE LET r1 == FetchAll(f.r, f.at, 2)
         IN  PdosAt(r1, f.at + 2, 1, Word(r1, f.at), 1, NoSizes)

\* t = 0: the TxPDOs, 1: the RxPDOs; the bits they have in each sync manager.
siiPDO(r, t) == [PdosIn(siifind(r, ECT_SII_PDO + t)) EXCEPT !.r = Restored(@, r)]
=============================================================================
