--------------------------- MODULE MCRestExchange ---------------------------
(* Small instances of RestExchange for TLC *)
EXTENDS RestExchange
CONSTANTS write, read, upload, streamed

OnlySend == [o \in Operations |-> <<"send">>]
\* A message with a file: its upload is planned and sent to storage first
UploadFirst == [o \in Operations |->
    IF o \in {upload, streamed} THEN <<"prepare", "upload", "send">> ELSE <<"send">>]
TwoTicks == [o \in Operations |-> 2]
ReadAtOnce == [o \in Operations |-> IF o = read THEN 1 ELSE 2]
Sizes == [o \in Operations |-> IF o \in {upload, streamed} THEN 2 ELSE 0]
=============================================================================
