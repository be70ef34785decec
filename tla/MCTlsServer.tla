---------------------------- MODULE MCTlsServer ----------------------------
(* TLC's instance of TlsServer.tla.                                        *)
EXTENDS TlsServer
=============================================================================
