--------------------------- MODULE MCUploadManager ---------------------------
(* Small instances of UploadManager: two contents, one of them in two      *)
(* versions, and what clients send of them.                                *)
EXTENDS UploadManager

CONSTANTS a, b

BookV1 == [id |-> a, type |-> "BOOK",  version |-> 1, size |-> 2, crc |-> 1]
BookV2 == [id |-> a, type |-> "BOOK",  version |-> 2, size |-> 2, crc |-> 2]
Quran  == [id |-> b, type |-> "QURAN", version |-> 1, size |-> 1, crc |-> 3]

Honest(p) == [decl |-> p, pkg |-> p]

MCPackages  == {BookV1, BookV2, Quran}
HonestJobs  == {Honest(p) : p \in MCPackages}

(* A third version whose checksums are right but which does not parse, and *)
(* a client that declares a wrong type.                                    *)
Broken    == [id |-> a, type |-> "BOOK", version |-> 3, size |-> 2, crc |-> 4]
WrongType == [decl |-> [BookV1 EXCEPT !.type = "TAFSIR"], pkg |-> BookV1]

MCMalformed    == {Broken}
BookPackages   == {BookV1, BookV2, Broken}
FaultJobs      == {Honest(BookV1), Honest(BookV2), WrongType}
=============================================================================
