----------------------------- MODULE FileGateway -----------------------------
(***************************************************************************)
(* onprem/file-gateway/app.py: S3 objects kept as files.                   *)
(*                                                                         *)
(* uvicorn runs four worker processes over the same directories.  Each     *)
(* calls its handlers on its event loop, one at a time, but what one       *)
(* worker does another sees half done: PUTs of one object truncate and     *)
(* write one file at once, a DELETE takes the name away from under them,   *)
(* a GET takes size, ETag and body at different times, and a LIST walks    *)
(* over files that come and go.  A file is a name for an inode; who has it *)
(* open keeps it when the name is removed.  Contents are sequences of      *)
(* blocks, each marked with the version it belongs to.                     *)
(***************************************************************************)
EXTENDS Naturals, Sequences, FiniteSets

CONSTANTS
    Workers,    \* the worker processes
    Keys,       \* objects of a writable bucket
    Nested,     \* those of them in a folder below the listed prefix
    Folder,     \* the path of that folder
    Versions,   \* bodies clients put
    SizeOf,     \* number of blocks of a body
    Big,        \* above this size the ETag is made of the time (50 MB)
    MaxKeys,    \* max-keys of a listing
    Clients,    \* GET requests, one each
    None,       \* no object, no request; a block nobody wrote
    MaxPuts, MaxDeletes, MaxCrashes    \* bounds

ASSUME GatewayAssumption ==
    /\ IsFiniteSet(Keys) /\ Nested \subseteq Keys
    /\ SizeOf \in [Versions -> Nat \ {0}]
    /\ None \notin Keys \cup Versions /\ Folder \notin Keys
    /\ Big \in Nat /\ MaxKeys \in Nat \ {0}
    /\ MaxPuts \in Nat /\ MaxDeletes \in Nat /\ MaxCrashes \in Nat

VARIABLES
    inode,      \* the inode each name stands for, 0 if there is no file
    data,       \* the blocks of each inode
    folder,     \* whether the folder of the nested keys exists
    put,        \* the PUT that occupies each worker, and how far it is
    reader,     \* the GETs; `was` is the file the headers were made of,
                \* `torn` and `disturbed` are history
    listing,    \* a LIST; `due` and `gone` are history
    acked,      \* history: the body of the last acknowledged PUT
    unsettled,  \* history: keys whose last PUT failed, was cut off, or met a
                \* DELETE or a PUT of another body
    puts, deletes, crashes

vars == <<inode, data, folder, put, reader, listing, acked, unsettled, puts,
          deletes, crashes>>
files == <<inode, data, folder>>
history == <<acked, unsettled>>
counters == <<puts, deletes, crashes>>

Inodes == 1..MaxPuts
NoPut == [key |-> None, version |-> None, inode |-> 0, at |-> 0]
NoGet == [pc |-> "idle", key |-> None, size |-> 0, was |-> <<>>, inode |-> 0,
          got |-> <<>>, torn |-> FALSE, disturbed |-> FALSE]
NoList == [pc |-> "idle", delimiter |-> FALSE, todo |-> {}, contents |-> {},
           prefixes |-> {}, due |-> {}, gone |-> FALSE]

Idle(w) == put[w] = NoPut
BeingPut(k) == \E w \in Workers : put[w].key = k
Blocks(v) == [i \in 1..SizeOf[v] |-> v]

TypeOK ==
    /\ inode \in [Keys -> 0..puts]
    /\ data \in [Inodes -> Seq(Versions \cup {None})]
    /\ folder \in BOOLEAN
    /\ \A w \in Workers : ~Idle(w) =>
         /\ put[w].key \in Keys /\ put[w].version \in Versions
         /\ put[w].inode \in 1..puts /\ put[w].at \in 0..SizeOf[put[w].version]
    /\ \A c \in Clients :
         /\ reader[c].pc \in {"idle", "stat", "headers", "reading", "complete", "cut"}
         /\ Len(reader[c].got) <= reader[c].size
         /\ reader[c].inode \in 0..puts
         /\ reader[c].pc = "reading" => reader[c].inode # 0
    /\ listing.pc \in {"idle", "walk", "done", "failed"}
    /\ listing.todo \cup listing.contents \subseteq Keys \cup {Folder}
    /\ acked \in [Keys -> Versions \cup {None}]
    /\ unsettled \subseteq Keys

Init ==
    /\ inode = [k \in Keys |-> 0]
    /\ data = [i \in Inodes |-> <<>>]
    /\ folder = FALSE
    /\ put = [w \in Workers |-> NoPut]
    /\ reader = [c \in Clients |-> NoGet]
    /\ listing = NoList
    /\ acked = [k \in Keys |-> None]
    /\ unsettled = {}
    /\ puts = 0 /\ deletes = 0 /\ crashes = 0

IsFile(k) == inode[k] # 0
Content(k) == data[inode[k]]

-----------------------------------------------------------------------------
(* What a HEAD answers.                                                    *)

\* _etag, and _file_etag with its two cases.
Etag(body) == [kind |-> "content", of |-> body]
FileEtag(k) == IF Len(Content(k)) > Big THEN [kind |-> "time", of |-> <<>>]
               ELSE Etag(Content(k))

\* _head_object of a file.
Head_object(k) == [size |-> Len(Content(k)), etag |-> FileEtag(k)]

-----------------------------------------------------------------------------
(* PUT: the handler holds its worker's event loop, and nobody else's.      *)

\* A file with block n written; what was skipped before it is a hole.
WriteAt(body, n, v) ==
    [i \in 1..(IF n > Len(body) THEN n ELSE Len(body)) |->
        IF i = n THEN v ELSE IF i <= Len(body) THEN body[i] ELSE None]

\* Readers whose answer a PUT of key k to inode i can reach.
Disturb(k, i) ==
    [c \in Clients |->
        LET r == reader[c] IN
        IF \/ r.pc \in {"stat", "headers"} /\ r.key = k
           \/ r.pc = "reading" /\ r.inode = i
        THEN [r EXCEPT !.disturbed = TRUE] ELSE r]

\* A PUT on its own settles its object, once it is acknowledged; one that meets
\* a PUT of another body unsettles it; one that meets the same body, a retry,
\* leaves things as they are.
UnsettledBy(k, v) ==
    IF ~BeingPut(k) THEN unsettled \ {k}
    ELSE IF \E u \in Workers : put[u].key = k /\ put[u].version # v
         THEN unsettled \cup {k} ELSE unsettled

\* Mutant: the file is opened for writing as it is (`r+b`).
BeginPutOver(w, k, v) ==
    LET i == IF IsFile(k) THEN inode[k] ELSE puts + 1 IN
    /\ Idle(w) /\ puts < MaxPuts
    /\ puts' = puts + 1
    /\ put' = [put EXCEPT ![w] = [key |-> k, version |-> v, inode |-> i, at |-> 0]]
    /\ inode' = [inode EXCEPT ![k] = i]
    /\ folder' = (folder \/ k \in Nested)
    /\ reader' = Disturb(k, i)
    /\ unsettled' = UnsettledBy(k, v)
    /\ UNCHANGED <<data, listing, acked, deletes, crashes>>

\* Make the folder, open for writing: an existing file is truncated, also one
\* that others are writing.
BeginPut(w, k, v) ==
    LET i == IF IsFile(k) THEN inode[k] ELSE puts + 1 IN
    /\ Idle(w) /\ puts < MaxPuts
    /\ puts' = puts + 1
    /\ put' = [put EXCEPT ![w] = [key |-> k, version |-> v, inode |-> i, at |-> 0]]
    /\ inode' = [inode EXCEPT ![k] = i]
    /\ data' = [data EXCEPT ![i] = <<>>]
    /\ folder' = (folder \/ k \in Nested)
    /\ reader' = Disturb(k, i)
    /\ unsettled' = UnsettledBy(k, v)
    /\ UNCHANGED <<listing, acked, deletes, crashes>>

\* Mutant: the file is opened for appending.
WriteBlockAtEnd(w) ==
    LET p == put[w] IN
    /\ ~Idle(w) /\ p.at < SizeOf[p.version]
    /\ data' = [data EXCEPT ![p.inode] = Append(@, p.version)]
    /\ put' = [put EXCEPT ![w].at = p.at + 1]
    /\ UNCHANGED <<inode, folder, reader, listing, history, counters>>

\* The next block, at this writer's own place in the file.
WriteBlock(w) ==
    LET p == put[w] IN
    /\ ~Idle(w) /\ p.at < SizeOf[p.version]
    /\ data' = [data EXCEPT ![p.inode] = WriteAt(data[p.inode], p.at + 1, p.version)]
    /\ put' = [put EXCEPT ![w].at = p.at + 1]
    /\ UNCHANGED <<inode, folder, reader, listing, history, counters>>

\* Mutant: the client is told before the last block is written.
EndPutEarly(w) ==
    /\ ~Idle(w)
    /\ put' = [put EXCEPT ![w] = NoPut]
    /\ acked' = [acked EXCEPT ![put[w].key] = put[w].version]
    /\ UNCHANGED <<files, reader, listing, unsettled, counters>>

\* Everything is written and the client is told so.
EndPut(w) ==
    /\ ~Idle(w) /\ put[w].at = SizeOf[put[w].version]
    /\ put' = [put EXCEPT ![w] = NoPut]
    /\ acked' = [acked EXCEPT ![put[w].key] = put[w].version]
    /\ UNCHANGED <<files, reader, listing, unsettled, counters>>

\* The disk is full: an error is answered, the old object is gone.
PutFails(w) ==
    /\ ~Idle(w)
    /\ put' = [put EXCEPT ![w] = NoPut]
    /\ unsettled' = unsettled \cup {put[w].key}
    /\ UNCHANGED <<files, reader, listing, acked, counters>>

\* The name goes, at any time; the folder stays, and so does the file for who
\* has it open.
Delete(k) ==
    /\ deletes < MaxDeletes
    /\ deletes' = deletes + 1
    /\ inode' = [inode EXCEPT ![k] = 0]
    /\ acked' = [acked EXCEPT ![k] = None]
    /\ unsettled' = IF BeingPut(k) THEN unsettled \cup {k} ELSE unsettled \ {k}
    /\ listing' = [listing EXCEPT !.due = @ \ {k}, !.gone = @ \/ IsFile(k)]
    /\ UNCHANGED <<data, folder, put, reader, puts, crashes>>

-----------------------------------------------------------------------------
(* GET.  Who serves it is left open, and so is whether a worker is free.   *)

\* The file is there: its size.
Stat(c, k) ==
    /\ IsFile(k) /\ reader[c].pc = "idle"
    /\ reader' = [reader EXCEPT ![c] =
                    [NoGet EXCEPT !.pc = "stat", !.key = k, !.size = Len(Content(k)),
                                  !.disturbed = BeingPut(k)]]
    /\ UNCHANGED <<files, put, listing, history, counters>>

\* Its ETag, if it is still there, and the headers are out.
Headers(c) ==
    LET r == reader[c] IN
    /\ r.pc = "stat"
    /\ reader' = [reader EXCEPT ![c] =
         IF IsFile(r.key)
         THEN [r EXCEPT !.pc = "headers", !.was = Content(r.key),
                        !.torn = BeingPut(r.key) \/ r.key \in unsettled]
         ELSE [r EXCEPT !.pc = "cut"]]
    /\ UNCHANGED <<files, put, listing, history, counters>>

\* The generator's first step, in a thread: the name is resolved again.
OpenFile(c) ==
    /\ reader[c].pc = "headers"
    /\ LET i == inode[reader[c].key] IN
         reader' = [reader EXCEPT
                      ![c].pc = IF i = 0 THEN "cut" ELSE "reading",
                      ![c].inode = i]
    /\ UNCHANGED <<files, put, listing, history, counters>>

\* The next block.  At the end of the file the body must have the announced
\* length or the server cuts the connection; what is beyond it is not sent.
ReadBlock(c) ==
    LET r == reader[c] IN
    /\ r.pc = "reading"
    /\ reader' = [reader EXCEPT ![c] =
         IF Len(r.got) = r.size THEN [r EXCEPT !.pc = "complete"]
         ELSE IF Len(r.got) < Len(data[r.inode])
              THEN [r EXCEPT !.got = Append(r.got, data[r.inode][Len(r.got) + 1])]
              ELSE [r EXCEPT !.pc = "cut"]]
    /\ UNCHANGED <<files, put, listing, history, counters>>

-----------------------------------------------------------------------------
(* LIST: _list_objects_v2 of the bucket.                                   *)

\* The names there are now: all the way down, or with a delimiter the folder
\* for what is in it.
BeginList(delimiter) ==
    /\ listing.pc # "walk"
    /\ listing' = [NoList EXCEPT
         !.pc = "walk", !.delimiter = delimiter,
         !.todo = {k \in Keys : IsFile(k) /\ (delimiter => k \notin Nested)}
                  \cup (IF folder THEN {Folder} ELSE {}),
         !.due = {k \in Keys \ unsettled : acked[k] # None}]
    /\ UNCHANGED <<files, put, reader, history, counters>>

\* Mutant: the loop stops one file early.
WalkShort(path) ==
    LET shown == listing.contents \cup {k \in Keys : k = path /\ IsFile(k)} IN
    /\ listing.pc = "walk" /\ path \in listing.todo
    /\ listing' = [listing EXCEPT
         !.contents = shown,
         !.prefixes = @ \cup {p \in {path} : p = Folder /\ listing.delimiter},
         !.todo = IF Cardinality(shown) + 1 >= MaxKeys THEN {} ELSE @ \ {path}]
    /\ UNCHANGED <<files, put, reader, history, counters>>

\* The next name, if it is a file still; the order of the paths is left open.
\* The loop stops at max-keys files: what sorts after the last of them is left
\* out, folders too, and IsTruncated is "false" all the same.
Walk(path) ==
    LET shown == listing.contents \cup {k \in Keys : k = path /\ IsFile(k)} IN
    /\ listing.pc = "walk" /\ path \in listing.todo
    /\ listing' = [listing EXCEPT
         !.contents = shown,
         !.prefixes = @ \cup {p \in {path} : p = Folder /\ listing.delimiter},
         !.todo = IF Cardinality(shown) >= MaxKeys THEN {} ELSE @ \ {path}]
    /\ UNCHANGED <<files, put, reader, history, counters>>

\* Size and time of every file found; one that is gone by now fails the request.
EndList ==
    /\ listing.pc = "walk" /\ listing.todo = {}
    /\ listing' = [listing EXCEPT
         !.pc = IF \A k \in listing.contents : IsFile(k) THEN "done" ELSE "failed"]
    /\ UNCHANGED <<files, put, reader, history, counters>>

-----------------------------------------------------------------------------
\* A worker dies and is started again; the files stay as they are, and some of
\* the requests were its own.
Crash(w) ==
    /\ crashes < MaxCrashes /\ crashes' = crashes + 1
    /\ put' = [put EXCEPT ![w] = NoPut]
    /\ unsettled' = unsettled \cup ({put[w].key} \cap Keys)
    /\ \E some \in SUBSET Clients :
         reader' = [c \in Clients |->
                      IF c \in some /\ reader[c].pc \in {"stat", "headers", "reading"}
                      THEN [reader[c] EXCEPT !.pc = "cut"] ELSE reader[c]]
    /\ listing' \in {listing, NoList}
    /\ UNCHANGED <<files, acked, puts, deletes>>

Next ==
    \/ \E w \in Workers :
         \/ \E k \in Keys, v \in Versions : BeginPut(w, k, v)
         \/ WriteBlock(w) \/ EndPut(w) \/ PutFails(w) \/ Crash(w)
    \/ \E k \in Keys : Delete(k)
    \/ \E c \in Clients :
         \/ \E k \in Keys : Stat(c, k)
         \/ Headers(c) \/ OpenFile(c) \/ ReadBlock(c)
    \/ \E delimiter \in BOOLEAN : BeginList(delimiter)
    \/ \E path \in Keys \cup {Folder} : Walk(path)
    \/ EndList

Spec == Init /\ [][Next]_vars

-----------------------------------------------------------------------------
\* An acknowledged PUT stays: until the next PUT of the key begins or the key
\* is deleted, a HEAD answers the size and, up to 50 MB, the very ETag the PUT
\* answered (app.py:258, 321, 369).  That PUT may have overlapped others of the
\* same body, a client's retries in other workers; only one that failed, was
\* cut off, or met a DELETE or a PUT of another body leaves anything.
AckedKept ==
    \A k \in Keys \ unsettled : ~BeingPut(k) =>
        /\ acked[k] = None <=> ~IsFile(k)
        /\ IsFile(k) =>
             /\ Head_object(k).size = SizeOf[acked[k]]
             /\ SizeOf[acked[k]] <= Big =>
                  Head_object(k).etag = Etag(Blocks(acked[k]))

\* A body of the announced length is the file the headers describe, unless a
\* PUT of the key overlapped the GET, and that is a whole body unless the key
\* was unsettled; a DELETE, even one followed by a PUT, does not reach who has
\* the file open (app.py:342, 352-353).
BodyIsDescribed ==
    \A c \in Clients :
        reader[c].pc = "complete" /\ ~reader[c].disturbed =>
            /\ reader[c].got = reader[c].was
            /\ reader[c].torn \/ \E v \in Versions : reader[c].was = Blocks(v)

\* A listing of fewer than max-keys files shows every object that was
\* acknowledged when it began and was not deleted while it ran, with a delimiter
\* each nested one by its folder, whatever other workers put meanwhile; and it
\* fails only if an object was deleted while it ran (app.py:363, 422, 437, 443).
ListingComplete ==
    /\ listing.pc = "done" /\ Cardinality(listing.contents) < MaxKeys =>
         \A k \in listing.due :
            \/ k \in listing.contents
            \/ listing.delimiter /\ k \in Nested /\ listing.prefixes # {}
    /\ listing.pc = "failed" => listing.gone

-----------------------------------------------------------------------------
(* The gateway is an ObjectStore, which knows neither inodes nor blocks.   *)

Value(kind, body) == [kind |-> kind, body |-> body]
ObjectOf(k) ==
    IF ~IsFile(k) THEN Value("missing", <<>>)
    ELSE IF BeingPut(k) \/ k \in unsettled THEN Value("damaged", <<>>)
    ELSE Value("whole", Content(k))

\* What the headers of a GET promise, and what it has received in the end.
Promised(r) ==
    IF r.pc \in {"idle", "stat", "cut"} THEN Value("missing", <<>>)
    ELSE IF r.torn THEN Value("damaged", <<>>)
    ELSE Value("whole", r.was)
Received(r) ==
    IF r.pc # "complete" THEN Value("missing", <<>>)
    ELSE IF r.disturbed THEN Value("anything", <<>>)
    ELSE IF r.torn THEN Value("damaged", <<>>)
    ELSE Value("whole", r.got)
GetOf(r) ==
    [pc |-> IF r.pc = "stat" THEN "asked"
            ELSE IF r.pc \in {"headers", "reading"} THEN "open" ELSE r.pc,
     key |-> r.key, promised |-> Promised(r), received |-> Received(r),
     spoilt |-> r.disturbed]

\* A PUT, and whether nothing else has got in its way so far.
WriteOf(p) ==
    [key |-> p.key, body |-> IF p.key = None THEN <<>> ELSE Blocks(p.version),
     clean |-> p.key \notin unsettled]

Objects == [k \in Keys |-> ObjectOf(k)]
GetsSeen == [c \in Clients |-> GetOf(reader[c])]
Writes == [w \in Workers |-> WriteOf(put[w])]

\* Whatever PUTs, DELETEs, GETs, LISTs and crashes overlap, the gateway behaves
\* like an ObjectStore (app.py:312-380).
Store == INSTANCE ObjectStore WITH
    Bodies <- {Blocks(v) : v \in Versions}, NoKey <- None,
    object <- Objects, writing <- Writes, gets <- GetsSeen
StoreSpec == Store!Spec
=============================================================================
