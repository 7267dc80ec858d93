---------------------------- MODULE MCNonInvSer -----------------------------
(* Environments for SipNonInvSer: any failure over either transport, with or     *)
(* without an outstanding RSeq of the dialog's INVITE.                         *)
EXTENDS SipNonInvSer

RingingInvite == {<< >>, <<[tag |-> NoTag, rseq |-> 2]>>}

AllEnvs == [udp : BOOLEAN, faults : {FaultKinds}, left : RingingInvite]
=============================================================================
