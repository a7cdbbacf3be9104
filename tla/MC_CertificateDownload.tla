----------------------- MODULE MC_CertificateDownload -----------------------
(***************************************************************************)
(* Small instances of CertificateDownload for TLC.                         *)
(***************************************************************************)
EXTENDS CertificateDownload, TLC

CONSTANTS alice, bob, c1

\* alice owns the certificate.
OwnerAlice == [c \in Certs |-> alice]
=============================================================================
