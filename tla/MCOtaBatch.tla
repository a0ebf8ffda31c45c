----------------------------- MODULE MCOtaBatch -----------------------------
(***************************************************************************)
(* Small instances of OtaBatch.                                            *)
(***************************************************************************)
EXTENDS OtaBatch, TLC

MCByte == {0, 1}
\* Checksums that tell everything apart.
MCMd5(s) == <<"md5", s>>
MCCrc(s) == <<"crc", s>>

MCFileNames == {"alertFw", "cert"}
MCFwFile == [t \in Targets |-> "alertFw"]
MCUploads ==
  {<<"alertFw", <<0>>>>, <<"alertFw", <<1>>>>, <<"cert", <<1>>>>, <<"own", <<0>>>>}
MCUploadPieces == {<<0>>, <<1>>}
MCTargets == Permutations(Targets)
=============================================================================
