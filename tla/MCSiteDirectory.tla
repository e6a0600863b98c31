---------------------------- MODULE MCSiteDirectory ----------------------------
(***************************************************************************)
(* The two modules about the contents of a site's directory, SiteSecrets   *)
(* and FileManager, on small instances for TLC.  They look at different    *)
(* files, so their steps need no interleaving: a behaviour is one of       *)
(* SiteSecrets or one of FileManager, and the rest stays as it began.      *)
(* Names both would define begin with File in the latter.                  *)
(* Contents are interchangeable, and so are names within the directory.    *)
(***************************************************************************)
EXTENDS SiteSecrets, FileManager, TLC

VARIABLE part     \* the module this behaviour is one of

\* The module that does not move begins in one of its initial states only.
DirectoryInit ==
  /\ part \in {"secrets", "files"} /\ Init /\ FileInit
  /\ part = "files" => kind = "wordpress" /\ source = "context"
  /\ part = "secrets" => root = "host"

InSecrets == part = "secrets" /\ UNCHANGED <<part, fileVars>>
InFiles   == part = "files" /\ UNCHANGED <<part, vars>>

SecretsStep ==
  \/ StartJob /\ InSecrets
  \/ Stage /\ InSecrets
  \/ Clone /\ InSecrets
  \/ Validate /\ InSecrets
  \/ Merge /\ InSecrets
  \/ OpenCompose /\ InSecrets
  \/ WriteCompose /\ InSecrets
  \/ OpenSecrets /\ InSecrets
  \/ WriteSecrets /\ InSecrets
  \/ ComposeUp /\ InSecrets
  \/ Crash /\ InSecrets
  \/ DiskFull /\ InSecrets
  \/ ImportRemove /\ InSecrets
  \/ ImportClone /\ InSecrets
  \/ DeleteSources /\ InSecrets

Check(n) ==
  \/ \E c \in Contents : HostCreate(n, c) /\ InFiles
  \/ \E c \in Contents : HostSave(n, c) /\ InFiles
  \/ HostFolder(n) /\ InFiles
  \/ HostDelete(n) /\ InFiles
  \/ \E c \in Contents : WpCreate(n, c) /\ InFiles
  \/ \E c \in Contents : WpSave(n, c) /\ InFiles
  \/ WpFolder(n) /\ InFiles
  \/ WpDelete(n) /\ InFiles
  \/ \E d \in Inside : HostMove(n, d) /\ InFiles
  \/ \E d \in Inside : WpMove(n, d) /\ InFiles

FilesStep ==
  \/ \E n \in Inside : Check(n)
  \/ Open /\ InFiles
  \/ Write /\ InFiles
  \/ Mkdir /\ InFiles
  \/ Rename /\ InFiles
  \/ Remove /\ InFiles
  \/ Archive /\ InFiles
  \/ MvInto /\ InFiles
  \/ Mv /\ InFiles
  \/ Rm /\ InFiles
  \/ Fail /\ InFiles
  \/ \E n \in Names : Others(n) /\ InFiles
  \/ FileDiskFull /\ InFiles
  \/ Restart /\ InFiles

DirectorySpec == DirectoryInit /\ [][SecretsStep \/ FilesStep]_<<part, vars, fileVars>>

Symmetry == Permutations(Inside) \cup Permutations(Contents)
=============================================================================
