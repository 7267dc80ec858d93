------------------------------- MODULE MCUas --------------------------------
(* Environments for SipUas: timers start and sends succeed, over UDP. *)
EXTENDS SipUas

AllEnvs == [udp : {TRUE}, faults : {{"transp", "error", "abort"}}, left : {<< >>}]
=============================================================================
