---------------------------- MODULE MCUploadLink ----------------------------
(***************************************************************************)
(* Small instances of UploadLink: a file of three pieces,                  *)
(* the last one short.                                                     *)
(***************************************************************************)
EXTENDS UploadLink

MCByte == {0, 1}
\* A checksum that tells everything apart.
MCMd5(s) == <<"md5", s>>

MCData == <<0, 1, 1, 0, 1>>
MCUploads == {<<"cert", MCData>>}
MCUploadPieces == {<<0>>}
=============================================================================
