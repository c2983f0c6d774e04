-------------------------- MODULE MCRestAdmission --------------------------
(* Small instances of RestAdmission for TLC *)
EXTENDS RestAdmission
CONSTANTS r1, r2, apiRoute, storageRoute

OneRoute == [r \in Requests |-> apiRoute]
UploadOnStorage == [r \in Requests |-> IF r = r2 THEN storageRoute ELSE apiRoute]
OneByte == [r \in Requests |-> 1]
UploadHeavy == [r \in Requests |-> IF r = r2 THEN 2 ELSE 1]
AtOnce == [r \in Requests |-> 0]
\* r2 is a retry that backs off for a tick
BackoffSecond == [r \in Requests |-> IF r = r2 THEN 1 ELSE 0]
\* r1 has a tight deadline, the others none that a pause of this model reaches
TightFirst == [r \in Requests |-> IF r = r1 THEN 2 ELSE Never]
=============================================================================
