------------------------------ MODULE MCFilePipe ------------------------------
(* An instance of FilePipe for TLC, over an empty directory or one in use. *)
EXTENDS FilePipe

\* What an earlier producer left when it named its last file in second 0: a file
\* of the first key, closed, or open because the producer died.
OldName(suffix) == <<0, Place(1), 1, suffix>>
OldFile == [msgs |-> <<1>>, hdr |-> [NewHeader EXCEPT !.iv = OwnIV(1)],
            schema |-> NewHeader.schema, shared |-> FALSE, torn |-> FALSE]

MCInit ==
    /\ \/ content = <<>> /\ dirExists = FALSE /\ dir = <<>> /\ pushed = <<>>
       \/ /\ content = <<OldFile>> /\ dirExists = TRUE /\ pushed = <<1>>
          /\ \E suffix \in {0, 1} : dir = [n \in {OldName(suffix)} |-> 1]
    /\ call = Down /\ files = [k \in Keys |-> NoFile] /\ seqno = 0
    /\ header = NewHeader /\ sec = 0
    /\ cons = NoCons /\ event = FALSE /\ got = <<>> /\ missed = FALSE
    /\ lost = {} /\ misnamed = FALSE
    /\ faults = 0 /\ producers = 0 /\ consumers = 0 /\ schemas = 0

MCSpec == MCInit /\ [][Next]_vars /\ Fairness
=============================================================================
