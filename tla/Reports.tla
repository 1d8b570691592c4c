------------------------------- MODULE Reports -------------------------------
(***************************************************************************)
(* What becomes of an error: the functions that report one (soem/          *)
(* ethercatmain.c, ethercatcoe.c, ethercatsoe.c) put it on the list of     *)
(* ErrorRing, and ecx_elist2string (soem/ethercatprint.c) takes the oldest *)
(* one off and makes a text of it.                                         *)
(*                                                                         *)
(* A text is the record of what is printed in it; a description is named   *)
(* by its table and its place there.                                       *)
(***************************************************************************)
EXTENDS ErrorRing

CONSTANT Calls      \* the reports that are made, by function and arguments

VARIABLES
    said,           \* the text returned last
    told,           \* pending reports, as their callers meant them
    heard           \* the report that the last text is of

reportVars == <<ringVars, said, told, heard>>

-----------------------------------------------------------------------------
(* The tables of ethercatprint.c.  Each ends with a code that is for all   *)
(* that are not there.                                                     *)

From(a, b) == [k \in 1 .. b - a + 1 |-> a + k - 1]
Last32 == -1            \* 0xffffffff as an int32
Last16 == \hFFFF

ec_sdoerrorlist ==
    <<0, \h5030000, \h5040000, \h5040001, \h5040005>>
    \o From(\h6010000, \h6010006) \o <<\h6020000>> \o From(\h6040041, \h6040043)
    \o <<\h6040047, \h6060000, \h6070010, \h6070012, \h6070013, \h6090011>>
    \o From(\h6090030, \h6090032) \o <<\h6090036, \h8000000>>
    \o From(\h8000020, \h8000023) \o <<Last32>>

ec_ALstatuscodelist ==
    From(0, 2) \o From(\h11, \h2E) \o From(\h30, \h37) \o From(\h41, \h45)
    \o <<\h4F, \h50, \h51, \h60, \h61, \hF0, Last16>>

\* 0x800A stands there three times.
ec_soeerrorlist ==
    <<0, \h1001, \h1009>> \o From(\h2001, \h2005) \o From(\h3002, \h3005)
    \o From(\h4001, \h4005) \o From(\h5001, \h5005) \o From(\h6001, \h6005)
    \o From(\h7002, \h700D) \o From(\h7010, \h7014)
    \o <<\h8001, \h8002, \h8004, \h800A, \h800A, \h800A, Last16>>

ec_mbxerrorlist == From(0, 8) \o <<Last16>>

\* The loop of the four lookups: the first place with the code or the end.
Lookup(table, last, code) ==
    CHOOSE i \in DOMAIN table :
        table[i] \in {code, last} /\ \A j \in 1 .. i - 1 : table[j] \notin {code, last}

sdoerror2string(code) == <<"SDO", Lookup(ec_sdoerrorlist, Last32, code)>>
ALstatuscode2string(code) == <<"AL", Lookup(ec_ALstatuscodelist, Last16, code)>>
soeerror2string(code) == <<"SoE", Lookup(ec_soeerrorlist, Last16, code)>>
mbxerror2string(code) == <<"MBX", Lookup(ec_mbxerrorlist, Last16, code)>>

-----------------------------------------------------------------------------
(* ec_errort: ErrorCode is the low half of AbortCode; ErrorReg and b1      *)
(* follow it there.                                                        *)

ErrorCode(ec) == ec.AbortCode % 65536

Ec(type, slave, index, subidx, code) ==
    [Etype |-> type, Slave |-> slave, Index |-> index, SubIdx |-> subidx, AbortCode |-> code]

SDOerror(c) == Ec("SDO", c.slave, c.index, c.subidx, c.code)
SDOinfoerror(c) == Ec("SDOINFO", c.slave, c.index, c.subidx, c.code)
packeterror(c) == Ec("PACKET", c.slave, c.index, c.subidx, c.code)
SoEerror(c) == Ec("SOE", c.slave, c.index, 0, c.code)
mbxerror(c) == Ec("MBX", c.slave, 0, 0, c.code)
mbxemergencyerror(c) ==
    Ec("EMERGENCY", c.slave, 0, 0, c.code + 65536 * (c.reg % 256) + 16777216 * c.b1)

ErrorOf(c) ==
    CASE c.by = "SDOerror" -> SDOerror(c)
      [] c.by = "SDOinfoerror" -> SDOinfoerror(c)
      [] c.by = "packeterror" -> packeterror(c)
      [] c.by = "SoEerror" -> SoEerror(c)
      [] c.by = "mbxerror" -> mbxerror(c)
      [] c.by = "mbxemergencyerror" -> mbxemergencyerror(c)

\* What the callers pass has the width of the parameters, and Errors names the
\* entries that come of it.
Reporters == {"SDOerror", "SDOinfoerror", "packeterror", "SoEerror", "mbxerror",
              "mbxemergencyerror"}

ASSUME CallsAssumption ==
    \A c \in Calls :
        /\ c.by \in Reporters /\ c.code \in Int /\ c.reg \in Nat /\ c.b1 \in Nat
        /\ c.by \in {"SDOerror", "SDOinfoerror"} \/ (c.code \in Nat /\ c.code < 65536)
        /\ ErrorOf(c) \in Errors

\* A text with or without a place and a description.
Text(kind, ec, code) == [kind |-> kind, slave |-> ec.Slave, code |-> code,
                         place |-> <<>>, text |-> <<>>]
Placed(t, ec) == [t EXCEPT !.place = <<ec.Index, ec.SubIdx>>]
Described(t, description) == [t EXCEPT !.text = description]
NoText == [kind |-> "", slave |-> 0, code |-> 0, place |-> <<>>, text |-> <<>>]

\* Mutant: the description of an SDO information error is looked up by the
\* 16 bits of ErrorCode.
err2string_Half(ec) ==
    CASE ec.Etype \in {"SDO", "SDOINFO"} ->
            Described(Placed(Text("SDO", ec, ec.AbortCode), ec),
                      sdoerror2string(IF ec.Etype = "SDO" THEN ec.AbortCode ELSE ErrorCode(ec)))
      [] ec.Etype = "EMERGENCY" -> Text("EMERGENCY", ec, ErrorCode(ec))
      [] ec.Etype = "PACKET" -> Placed(Text("PACKET", ec, ErrorCode(ec)), ec)
      [] ec.Etype = "SOE" ->
            Described([Text("SoE", ec, ec.AbortCode) EXCEPT !.place = <<ec.Index>>],
                      soeerror2string(ErrorCode(ec)))
      [] ec.Etype = "MBX" -> Described(Text("MBX", ec, ErrorCode(ec)), mbxerror2string(ErrorCode(ec)))
      [] OTHER -> [NoText EXCEPT !.code = ec.AbortCode]

err2string(ec) ==
    CASE ec.Etype \in {"SDO", "SDOINFO"} ->
            Described(Placed(Text("SDO", ec, ec.AbortCode), ec), sdoerror2string(ec.AbortCode))
      [] ec.Etype = "EMERGENCY" -> Text("EMERGENCY", ec, ErrorCode(ec))
      [] ec.Etype = "PACKET" -> Placed(Text("PACKET", ec, ErrorCode(ec)), ec)
      [] ec.Etype = "SOE" ->
            Described([Text("SoE", ec, ec.AbortCode) EXCEPT !.place = <<ec.Index>>],
                      soeerror2string(ErrorCode(ec)))
      [] ec.Etype = "MBX" -> Described(Text("MBX", ec, ErrorCode(ec)), mbxerror2string(ErrorCode(ec)))
      [] OTHER -> [NoText EXCEPT !.code = ec.AbortCode]

-----------------------------------------------------------------------------
ReportInit == RingInit /\ said = NoText /\ told = <<>> /\ heard = <<>>

Report(c) ==
    /\ pusherror(ErrorOf(c))
    /\ told' = Append(IF Len(told) = MAXELIST THEN Tail(told) ELSE told, c)
    /\ UNCHANGED <<said, heard>>

elist2string ==
    /\ poperror
    /\ said' = IF popped'.ok THEN err2string(popped'.ec) ELSE NoText
    /\ IF told = <<>> THEN heard' = <<>> /\ UNCHANGED told
                      ELSE heard' = <<Head(told)>> /\ told' = Tail(told)

ReportNext == elist2string \/ \E c \in Calls : Report(c)
ReportSpec == ReportInit /\ [][ReportNext]_reportVars

-----------------------------------------------------------------------------
\* The tables that a report's code is looked up in.
TableOf(c) ==
    CASE c.by \in {"SDOerror", "SDOinfoerror"} -> ec_sdoerrorlist
      [] c.by = "SoEerror" -> ec_soeerrorlist
      [] c.by = "mbxerror" -> ec_mbxerrorlist
      [] OTHER -> <<>>

\* A text names the slave and the code of the oldest report that was still on
\* the list, its place where it has one, and describes exactly this code, or
\* says that it is unknown if no table has it; there is no text without one.
TextTells ==
    IF heard = <<>> THEN said = NoText
    ELSE LET c == heard[1]
             table == TableOf(c)
         IN  /\ said.slave = c.slave /\ said.code = c.code
             /\ said.place # <<>> => said.place[1] = c.index
             /\ IF table = <<>> THEN said.text = <<>>
                ELSE table[said.text[2]] = IF \E i \in DOMAIN table : table[i] = c.code
                                           THEN c.code ELSE table[Len(table)]

\* No two states of a slave (ALstatuscode) have the same text.
StatesDiffer ==
    \A i, j \in DOMAIN ec_ALstatuscodelist :
        ALstatuscode2string(ec_ALstatuscodelist[i]) = ALstatuscode2string(ec_ALstatuscodelist[j]) => i = j
=============================================================================
