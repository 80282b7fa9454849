----------------------------- MODULE MCBringUp ------------------------------
(* Instance of BringUp for TLC: see the .cfg files and the README.          *)
EXTENDS BringUp

MCInitCalls == <<"UtaMsSmsInit", "UtaMsSimOpenReq">>
MCAddresses == {"10.0.0.1", "10.0.0.2"}
MCIpv6Addresses == {"10.0.0.2"}
=============================================================================
