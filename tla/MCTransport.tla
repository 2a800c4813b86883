----------------------------- MODULE MCTransport -----------------------------
(* Transport for TLC, with one transport object; the proofs cover more.  *)
EXTENDS Transport

CONSTANT t1

OneTransport == {t1}
=============================================================================
