--------------------------- MODULE MCDownloadQueue ---------------------------
(* Instances of DownloadQueue: the second block is empty.                    *)
EXTENDS DownloadQueue, TLC
MCFull == {"body"}
MCFast == {"body", "receipt"}
MCNoopFull == [body |-> {2}]
MCNoopFast == [body |-> {2}, receipt |-> {}]
=============================================================================
