------------------------------ MODULE Transfers ------------------------------
(***************************************************************************)
(* The transfers a master runs one after the other over the mailbox of one *)
(* slave: objects (SDO.tla), files (FoE.tla), servo drive parameters       *)
(* (SoE.tla), Ethernet with frames that come unasked (EoE.tla), PDOs and   *)
(* the object dictionary (CoEInfo.tla), all on one Mailbox.tla.            *)
(***************************************************************************)
EXTENDS SDO, FoE, SoE, EoE, CoEInfo

protocolVars == <<sdoVars, foeVars, soeVars, eoeVars, infoVars>>
vars == <<mailVars, protocolVars>>

Init == MailInit /\ SdoInit /\ FoeInit /\ SoeInit /\ EoeInit /\ InfoInit

\* One protocol at a time; the others keep their state.
Sdo(A) == A /\ UNCHANGED <<foeVars, soeVars, eoeVars, infoVars>>
Foe(A) == A /\ UNCHANGED <<sdoVars, soeVars, eoeVars, infoVars>>
Soe(A) == A /\ UNCHANGED <<sdoVars, foeVars, eoeVars, infoVars>>
Eoe(A) == A /\ UNCHANGED <<sdoVars, foeVars, soeVars, infoVars>>
Info(A) == A /\ UNCHANGED <<sdoVars, foeVars, soeVars, eoeVars>>

Master == \/ MasterMail /\ UNCHANGED protocolVars
          \/ Sdo(SdoClient) \/ Foe(FoeClient) \/ Soe(SoeClient)
          \/ Eoe(EoeClient \/ HookFragment) \/ Info(InfoClient)

Slave == \/ SlaveMail /\ UNCHANGED protocolVars
         \/ Sdo(SdoServer) \/ Foe(FoeServer) \/ Soe(SoeServer)
         \/ Eoe(EoeServer) \/ Info(InfoServer)

Next == Master \/ Slave

Spec == Init /\ [][Next]_vars

\* The master's thread runs on, its timers expire, and a slave that is there
\* serves its mailboxes and acknowledges repeat requests.
Runs == pc # "idle" /\ Master
Expires == (TimerExpires \/ EmptyExpires) /\ UNCHANGED <<transfer, protocolVars>>
Served == Slave /\ (sm0' # sm0 \/ sm1' # sm1 \/ repAck' # repAck)

FairSpec == Spec /\ WF_vars(Runs) /\ SF_vars(Expires) /\ WF_vars(Served)

-----------------------------------------------------------------------------
\* Every transfer comes to an end by its timeouts, with the slave there or
\* gone or sending frames in between: no loss, repeat or notice has the
\* master and the slave wait for each other, and no list or value of
\* fragments is read for ever.  The segment loop of an SDO read, which goes
\* on when the slave is gone, is the exception.
TransferEnds == pc # "idle" ~> pc = "idle" \/ job.kind = "SDOreadSegments"
=============================================================================
