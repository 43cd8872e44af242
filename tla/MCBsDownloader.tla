-------------------------- MODULE MCBsDownloader --------------------------
(* Instances of BsDownloader; the cfg files give the constants.           *)
EXTENDS BsDownloader
=============================================================================
