---------------------------- MODULE MCNonInvCli -----------------------------
(* Environments for SipNonInvCli: any failure, or any but of timers, over       *)
(* either transport, with or without keys of an INVITE of the dialog.          *)
EXTENDS SipNonInvCli

RingingInvite == {<< >>, <<[tag |-> NoTag, rseq |-> 2]>>}

AllEnvs == [udp : BOOLEAN, faults : {FaultKinds, FaultKinds \ {"timer"}}, left : RingingInvite]
=============================================================================
