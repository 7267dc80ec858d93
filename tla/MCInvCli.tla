----------------------------- MODULE MCInvCli ------------------------------
(* Environments for SipInvCli: any failure over either transport after an      *)
(* earlier INVITE of the dialog was aborted or not; a network and a platform    *)
(* that never fail; and one that loses sends only.                             *)
EXTENDS SipInvCli

AbortedInvite == {<< >>} \cup {<<[tag |-> t, rseq |-> 2]>> : t \in Tags}

AnyFailure == [udp : BOOLEAN, faults : {FaultKinds}, left : AbortedInvite]
NoFailure == [udp : BOOLEAN, faults : {FaultKinds \ {"ack", "timer"}}, left : {<< >>}]
LossyUdp == [udp : {TRUE}, faults : {{"send"}}, left : {<< >>}]

AllEnvs == AnyFailure \cup NoFailure
=============================================================================
