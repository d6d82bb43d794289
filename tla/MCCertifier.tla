---------------------------- MODULE MCCertifier ----------------------------
(***************************************************************************)
(* Certifier for TLC: the retry constants of certifier.cpp, and a provider *)
(* that may publish four certificates in answers of up to three records.   *)
(*   k1, k2: same version and serial, so only the order of the answer      *)
(*           decides between them;                                         *)
(*   k3:     newer version (2.0, XChaCha20) with a lower serial;           *)
(*   k4:     would beat all of them but fails to verify.                   *)
(***************************************************************************)
EXTENDS Certifier

MCCerts ==
    { [major |-> 1, minor |-> 0, serial |-> 1, valid |-> TRUE,  key |-> "k1"],
      [major |-> 1, minor |-> 0, serial |-> 1, valid |-> TRUE,  key |-> "k2"],
      [major |-> 2, minor |-> 0, serial |-> 0, valid |-> TRUE,  key |-> "k3"],
      [major |-> 2, minor |-> 0, serial |-> 2, valid |-> FALSE, key |-> "k4"] }

\* A provider publishing one good and one unverifiable certificate, for the
\* runs that follow the whole 100-step retry schedule.
MCCertsFew ==
    { [major |-> 1, minor |-> 0, serial |-> 1, valid |-> TRUE,  key |-> "k1"],
      [major |-> 2, minor |-> 0, serial |-> 2, valid |-> FALSE, key |-> "k4"] }

=============================================================================
