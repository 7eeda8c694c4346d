---------------------------- MODULE MCFileGateway ----------------------------
\* Two workers; two objects, one in a folder; a body of one block and one of two,
\* which is big; a GET, LISTs and three PUTs.
EXTENDS FileGateway, TLC

CONSTANTS w1, w2, k1, k2, short, long

MCSizeOf == (short :> 1) @@ (long :> 2)
AnyWorker == Permutations(Workers)

\* A GET and a LIST only read: each meets the writers, not the other, and when
\* it has been answered nothing more is asked.  The GET is of k1, which for it is
\* like k2; a LIST, and the body of a GET that a PUT has reached, see two PUTs.
GetOrList ==
    LET Followed(r) == /\ r.key \in {k1, None} /\ r.pc \notin {"complete", "cut"}
                       /\ r.disturbed /\ r.pc = "reading" => puts <= 2
    IN
    \/ listing.pc = "idle" /\ \A c \in Clients : Followed(reader[c])
    \/ listing.pc = "walk" /\ puts <= 2 /\ \A c \in Clients : reader[c].pc = "idle"
=============================================================================
