------------------------ MODULE MCCertificateWatcher -------------------------
(* Instances of CertificateWatcher for TLC.                                *)
EXTENDS CertificateWatcher

=============================================================================
