----------------------------- MODULE MCInvSer ------------------------------
(* Environments for SipInvSer: any failure over either transport, after an     *)
(* earlier INVITE of the dialog has timed out unacknowledged or not; timers and  *)
(* sends that never fail; and a TCP connection without any trouble.            *)
EXTENDS SipInvSer

TimedOutInvite == {<< >>, <<[tag |-> NoTag, rseq |-> 2]>>}

AnyFailure == [udp : BOOLEAN, faults : {FaultKinds}, left : TimedOutInvite]
NoFailure == [udp : BOOLEAN, faults : {{"error", "abort"}}, left : {<< >>}]
QuietTcp == [udp : {FALSE}, faults : {{}}, left : {<< >>}]

AllEnvs == AnyFailure \cup NoFailure
=============================================================================
