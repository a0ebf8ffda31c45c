---------------------------- MODULE MCServerTool ----------------------------
(***************************************************************************)
(* Small instances of the two ends of the server tool's work that keep     *)
(* apart state, one behaviour of one of them at a time: the uploads a      *)
(* device takes from any number of senders, and a rollout over the fleet.  *)
(* `part' says which one a behaviour is of.                                *)
(***************************************************************************)
EXTENDS FileUpload, FleetRollout

VARIABLE part

serverToolVars == <<part, uploadVars, rolloutVars>>

\* Two contents for one file, one of them too large for the file system; a second
\* file whose content is the first part of the other; a firmware; a checksum that
\* tells everything apart.
MCByte == {0, 1}
MCMd5(s) == <<"md5", s>>

MCFileNames == {"alertFw", "cert"}
MCUploads ==
  {<<"alertFw", <<0, 0>>>>, <<"alertFw", <<1, 1, 0>>>>, <<"cert", <<0>>>>, <<"own", <<0, 0, 1>>>>}
MCUploadPieces == {<<0>>, <<0, 1>>}

\* A gateway with one node, and a device without any after it.
MCOrder == <<"gateway", "esp">>
MCNodesOf == [d \in {"gateway", "esp"} |-> IF d = "gateway" THEN {"alert1"} ELSE {}]

ServerToolInit ==
  /\ part \in {"upload", "rollout"}
  /\ UploadInit /\ RolloutInit
  /\ part = "upload" => live = Subjects /\ build = [s \in Subjects |-> "old"]

ServerToolNext ==
  /\ UNCHANGED part
  /\ \/ part = "upload" /\ UploadNext /\ UNCHANGED rolloutVars
     \/ part = "rollout" /\ RolloutNext /\ UNCHANGED uploadVars

ServerToolSpec == ServerToolInit /\ [][ServerToolNext]_serverToolVars
=============================================================================
