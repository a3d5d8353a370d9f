---------------------------- MODULE MCClipDownload -----------------------------
(* Instances of ClipDownload for TLC.  DownloadAllAudio has workerCount = 2. *)
EXTENDS ClipDownload, TLC

CONSTANTS r1, r2, c1, c2

MCThread == Requests \X (1..2)
MCOwner == [t \in MCThread |-> t[1]]

\* The two requests share the clip c1, and r1 needs one more.
MCNeed == [r \in Requests |-> IF r = r1 THEN {c1, c2} ELSE {c1}]

\* One request alone in the process.
MCAlone == [r \in Requests |-> {c1, c2}]
================================================================================
