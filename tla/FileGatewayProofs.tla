-------------------------- MODULE FileGatewayProofs --------------------------
(***************************************************************************)
(* Proofs about FileGateway: for any number of workers, objects, bodies,   *)
(* readers, overwrites, deletions and crashes.                             *)
(***************************************************************************)
EXTENDS FileGateway, SequenceTheorems, FiniteSetTheorems, TLAPS

Marks == Versions \cup {None}
Puts == {p \in [key : Keys, version : Versions, inode : Inodes, at : Nat] :
            p.at <= SizeOf[p.version]}
Gets == {r \in [pc : {"idle", "stat", "headers", "reading", "complete", "cut"},
                key : Keys \cup {None}, size : Nat, was : Seq(Marks), inode : Nat,
                got : Seq(Marks), torn : BOOLEAN, disturbed : BOOLEAN] :
            Len(r.got) <= r.size /\ (r.pc = "reading" => r.inode # 0)}
Lists == [pc : {"idle", "walk", "done", "failed"}, delimiter : BOOLEAN,
          todo : SUBSET (Keys \cup {Folder}), contents : SUBSET Keys,
          prefixes : SUBSET {Folder}, due : SUBSET Keys, gone : BOOLEAN]

GatewayTypes ==
    /\ puts \in 0..MaxPuts
    /\ inode \in [Keys -> 0..puts]
    /\ data \in [Inodes -> Seq(Marks)]
    /\ folder \in BOOLEAN
    /\ put \in [Workers -> Puts \cup {NoPut}]
    /\ \A w \in Workers : put[w].inode <= puts
    /\ reader \in [Clients -> Gets]
    /\ \A c \in Clients : reader[c].inode <= puts
    /\ listing \in Lists
    /\ acked \in [Keys -> Versions \cup {None}]
    /\ unsettled \subseteq Keys

\* No two names stand for one inode.
OwnInodes == \A j, k \in Keys : inode[j] = inode[k] => j = k \/ inode[j] = 0

\* What a PUT writes has no name but its object's, and that name unless the
\* object is unsettled.
PutNames ==
    \A w \in Workers : ~Idle(w) =>
        /\ \A k \in Keys : put[w].inode = inode[k] => put[w].key = k
        /\ put[w].key \notin unsettled => put[w].inode = inode[put[w].key]

\* The PUTs of a settled object that are under way all put one body.
OneBody ==
    \A u, w \in Workers :
        put[u].key = put[w].key /\ put[u].key \in Keys \ unsettled =>
            put[u].version = put[w].version

\* Every block of it is there, or one of them will write it.
Written(w, n) ==
    n <= Len(data[put[w].inode]) /\ data[put[w].inode][n] = put[w].version
Awaited(w, n) == \E u \in Workers : put[u].key = put[w].key /\ put[u].at < n
Filling ==
    \A w \in Workers : put[w].key \in Keys \ unsettled =>
        /\ Len(data[put[w].inode]) <= SizeOf[put[w].version]
        /\ \A n \in 1..SizeOf[put[w].version] : Written(w, n) \/ Awaited(w, n)

\* A settled object that is not being put is what was acknowledged last.
Settled ==
    \A k \in Keys \ unsettled : ~BeingPut(k) =>
        /\ acked[k] = None <=> inode[k] = 0
        /\ inode[k] # 0 => data[inode[k]] = Blocks(acked[k])

FilesInv == OwnInodes /\ PutNames /\ OneBody /\ Filling /\ Settled

\* What a reader has, and will find if no PUT comes in between.
Sound(c) ==
    LET r == reader[c] IN
    /\ r.pc \in {"headers", "reading", "complete"} =>
         r.torn \/ \E v \in Versions : r.was = Blocks(v)
    /\ r.pc \in {"stat", "headers", "reading"} => r.key \in Keys
    /\ r.pc \in {"stat", "headers"} => r.got = <<>>
    /\ r.pc = "reading" => \A k \in Keys : r.inode = inode[k] => r.key = k
    /\ ~r.disturbed =>
         /\ r.pc \in {"stat", "headers"} => ~BeingPut(r.key)
         /\ r.pc = "stat" /\ inode[r.key] # 0 => Len(data[inode[r.key]]) = r.size
         /\ r.pc = "headers" /\ inode[r.key] # 0 => data[inode[r.key]] = r.was
         /\ r.pc = "headers" /\ inode[r.key] # 0 => Len(r.was) = r.size
         /\ r.pc = "reading" => /\ \A w \in Workers : put[w].inode # r.inode
                                /\ data[r.inode] = r.was
         /\ r.pc \in {"reading", "complete"} =>
              /\ Len(r.was) = r.size
              /\ \A n \in 1..Len(r.got) : r.got[n] = r.was[n]
         /\ r.pc = "complete" => Len(r.got) = Len(r.was)

\* What is due has been found, will be, or was left out at max-keys.
Full == Cardinality(listing.contents) >= MaxKeys
Found(k) ==
    \/ k \in listing.contents
    \/ listing.delimiter /\ k \in Nested /\ Folder \in listing.prefixes
ToFind(k) ==
    \/ k \in listing.todo
    \/ listing.delimiter /\ k \in Nested /\ Folder \in listing.todo
ListInv ==
    /\ \A k \in Nested : inode[k] # 0 => folder
    /\ \A k \in listing.due : inode[k] # 0
    /\ listing.pc = "walk" /\ Full => listing.todo = {}
    /\ listing.pc = "walk" /\ ~Full => \A k \in listing.due : Found(k) \/ ToFind(k)
    /\ listing.pc = "walk" /\ ~listing.gone => \A k \in listing.contents : inode[k] # 0
    /\ listing.pc = "done" /\ ~Full => \A k \in listing.due : Found(k)
    /\ listing.pc = "failed" => listing.gone

GatewayInv == GatewayTypes /\ FilesInv /\ (\A c \in Clients : Sound(c)) /\ ListInv

-----------------------------------------------------------------------------
LEMMA BlocksType ==
  ASSUME NEW v \in Versions
  PROVE  /\ Blocks(v) \in Seq(Marks) /\ Len(Blocks(v)) = SizeOf[v]
         /\ SizeOf[v] \in Nat \ {0}
<1>1. SizeOf[v] \in Nat \ {0}
  BY GatewayAssumption
<1>2. QED
  BY <1>1 DEF Blocks, Marks

LEMMA NoPutFacts ==
  /\ NoPut.key = None /\ NoPut.version = None /\ NoPut.inode = 0 /\ NoPut.at = 0
  /\ NoPut \notin Puts
BY GatewayAssumption DEF NoPut, Puts

LEMMA PutFacts ==
  ASSUME GatewayTypes, NEW w \in Workers
  PROVE  /\ Idle(w) => put[w].key = None /\ put[w].inode = 0
         /\ ~Idle(w) => /\ put[w] \in Puts /\ put[w].key \in Keys
                        /\ put[w].version \in Versions /\ put[w].inode \in Inodes
                        /\ put[w].inode \in 1..puts /\ put[w].at \in Nat
                        /\ put[w].at <= SizeOf[put[w].version]
                        /\ SizeOf[put[w].version] \in Nat
         /\ put[w].key \in Keys => ~Idle(w)
<1>1. put[w] \in Puts \cup {NoPut} /\ put[w].inode <= puts /\ puts \in Nat /\ MaxPuts \in Nat
  BY GatewayAssumption DEF GatewayTypes
<1>2. CASE put[w] = NoPut
  BY <1>2, NoPutFacts, GatewayAssumption DEF Idle
<1>3. CASE put[w] \in Puts
  BY <1>1, <1>3, BlocksType, NoPutFacts DEF Idle, Puts, Inodes
<1>4. QED
  BY <1>1, <1>2, <1>3

LEMMA InodesExist ==
  ASSUME GatewayTypes
  PROVE  /\ puts \in Nat
         /\ \A n \in Nat : n # 0 /\ n <= puts => n \in Inodes
         /\ \A k \in Keys : inode[k] \in Nat /\ inode[k] <= puts
         /\ \A k \in Keys : inode[k] # 0 => inode[k] \in Inodes
         /\ \A c \in Clients : reader[c] \in Gets /\ reader[c].inode \in Nat
         /\ \A c \in Clients : reader[c].pc = "reading" => reader[c].inode \in Inodes
<1>1. /\ puts \in Nat /\ MaxPuts \in Nat /\ puts <= MaxPuts
      /\ inode \in [Keys -> 0..puts]
      /\ \A c \in Clients : /\ reader[c] \in Gets
                            /\ reader[c].inode <= puts
  BY GatewayAssumption DEF GatewayTypes
<1>2. \A c \in Clients : /\ reader[c].inode \in Nat
                         /\ reader[c].pc = "reading" => reader[c].inode # 0
  BY <1>1 DEF Gets
<1>3. \A n \in Nat : n # 0 /\ n <= puts => n \in Inodes
  BY <1>1 DEF Inodes
<1>4. QED
  BY <1>1, <1>2, <1>3

LEMMA WriteAtFacts ==
  ASSUME NEW body \in Seq(Marks), NEW n \in Nat \ {0}, NEW v \in Versions
  PROVE  /\ WriteAt(body, n, v) \in Seq(Marks)
         /\ Len(WriteAt(body, n, v)) = IF n > Len(body) THEN n ELSE Len(body)
         /\ WriteAt(body, n, v)[n] = v
         /\ \A m \in 1..Len(body) : m # n => WriteAt(body, n, v)[m] = body[m]
<1> DEFINE top == IF n > Len(body) THEN n ELSE Len(body)
           W(i) == IF i = n THEN v ELSE IF i <= Len(body) THEN body[i] ELSE None
<1>1. Len(body) \in Nat /\ top \in Nat /\ n \in 1..top
  BY LenProperties
<1>2. \A i \in 1..top : W(i) \in Marks
  BY <1>1, ElementOfSeq DEF Marks
<1>3. WriteAt(body, n, v) = [i \in 1..top |-> W(i)]
  BY DEF WriteAt
<1> HIDE DEF W
<1>4. [i \in 1..top |-> W(i)] \in [1..top -> Marks]
  BY <1>2
<1>5. WriteAt(body, n, v) \in Seq(Marks) /\ Len(WriteAt(body, n, v)) = top
  BY <1>1, <1>3, <1>4, IsASeq, LenProperties
<1>6. \A i \in 1..top : WriteAt(body, n, v)[i] = W(i)
  BY <1>3
<1>7. QED
  BY <1>1, <1>5, <1>6 DEF W

LEMMA InitGateway ==
  ASSUME Init
  PROVE  GatewayInv
<1>1. \A w \in Workers : put[w] = NoPut /\ put[w].key = None /\ put[w].inode = 0
  BY NoPutFacts DEF Init
<1>2. \A c \in Clients : reader[c] = NoGet
  BY DEF Init
<1>3. NoGet \in Gets /\ NoGet.inode = 0 /\ NoGet.pc = "idle"
  BY EmptySeq DEF NoGet, Gets
<1>4. /\ NoList \in Lists /\ NoList.pc = "idle" /\ NoList.due = {}
  BY DEF NoList, Lists
<1>5. GatewayTypes
  <2>1. put \in [Workers -> Puts \cup {NoPut}] /\ reader \in [Clients -> Gets]
    BY <1>3 DEF Init
  <2>2. data \in [Inodes -> Seq(Marks)]
    BY EmptySeq DEF Init
  <2>3. inode \in [Keys -> 0..puts] /\ puts \in 0..MaxPuts /\ 0 <= puts
    BY GatewayAssumption DEF Init
  <2>4. QED
    BY <1>1, <1>2, <1>3, <1>4, <2>1, <2>2, <2>3 DEF GatewayTypes, Init
<1>6. FilesInv
  BY <1>1, GatewayAssumption
     DEF Init, FilesInv, OwnInodes, PutNames, OneBody, Filling, Settled, Idle
<1>7. \A c \in Clients : Sound(c)
  BY <1>2, <1>3 DEF Sound
<1>8. ListInv
  BY <1>4, GatewayAssumption DEF Init, ListInv
<1>9. QED
  BY <1>5, <1>6, <1>7, <1>8 DEF GatewayInv
-----------------------------------------------------------------------------
(* What a step that leaves a reader, or the listing, alone must respect.    *)

\* The names a step leaves alone stand for what they stood for, new inodes are
\* beyond the old ones.
OldOrGone(k) == inode'[k] = inode[k] \/ inode'[k] = 0 \/ inode'[k] > puts

\* A reader a step does not touch still finds what it found before.
Undisturbed(c) ==
    /\ reader'[c] = reader[c]
    /\ ~reader[c].disturbed /\ reader[c].pc \in {"stat", "headers"} =>
         /\ ~BeingPut(reader[c].key) => \A w \in Workers : put'[w].key # reader[c].key
         /\ inode'[reader[c].key] # 0 => inode'[reader[c].key] = inode[reader[c].key]
         /\ ~BeingPut(reader[c].key) /\ inode'[reader[c].key] # 0 =>
              data'[inode[reader[c].key]] = data[inode[reader[c].key]]
    /\ ~reader[c].disturbed /\ reader[c].pc = "reading"
         /\ (\A w \in Workers : put[w].inode # reader[c].inode) =>
              /\ \A w \in Workers : put'[w].inode # reader[c].inode
              /\ data'[reader[c].inode] = data[reader[c].inode]

LEMMA UndisturbedSound ==
  ASSUME GatewayTypes, NEW c \in Clients, Sound(c), Undisturbed(c),
         \A k \in Keys : OldOrGone(k)
  PROVE  Sound(c)'
<1>1. PICK r : r = reader[c]
  OBVIOUS
<1>2. reader'[c] = r /\ r \in Gets /\ r.inode \in Nat /\ r.inode <= puts
  BY <1>1, InodesExist DEF Undisturbed, GatewayTypes
<1>3. r.pc = "reading" => r.inode # 0
  BY <1>2 DEF Gets
<1>4. r.pc \in {"headers", "reading", "complete"} =>
        r.torn \/ \E v \in Versions : r.was = Blocks(v)
  BY <1>1 DEF Sound
<1>5. r.pc \in {"stat", "headers", "reading"} => r.key \in Keys
  BY <1>1 DEF Sound
<1>6. r.pc \in {"stat", "headers"} => r.got = <<>>
  BY <1>1 DEF Sound
<1>7. r.pc = "reading" => \A k \in Keys : r.inode = inode'[k] => r.key = k
  <2>1. SUFFICES ASSUME r.pc = "reading", NEW k \in Keys, r.inode = inode'[k]
                 PROVE  r.key = k
    OBVIOUS
  <2>2. inode'[k] = inode[k]
    BY <1>2, <1>3, <2>1, InodesExist DEF OldOrGone
  <2>3. QED
    BY <1>1, <2>1, <2>2 DEF Sound
<1>8. ASSUME ~r.disturbed, r.pc \in {"stat", "headers"}
      PROVE  /\ \A w \in Workers : put'[w].key # r.key
             /\ r.pc = "stat" /\ inode'[r.key] # 0 => Len(data'[inode'[r.key]]) = r.size
             /\ r.pc = "headers" /\ inode'[r.key] # 0 => data'[inode'[r.key]] = r.was
             /\ r.pc = "headers" /\ inode'[r.key] # 0 => Len(r.was) = r.size
  BY <1>1, <1>8 DEF Sound, Undisturbed
<1>9. ASSUME ~r.disturbed, r.pc = "reading"
      PROVE  /\ \A w \in Workers : put'[w].inode # r.inode
             /\ data'[r.inode] = r.was
  BY <1>1, <1>9 DEF Sound, Undisturbed
<1>10. ~r.disturbed =>
         /\ r.pc \in {"reading", "complete"} =>
              /\ Len(r.was) = r.size
              /\ \A n \in 1..Len(r.got) : r.got[n] = r.was[n]
         /\ r.pc = "complete" => Len(r.got) = Len(r.was)
  BY <1>1 DEF Sound
<1>11. QED
  BY <1>2, <1>4, <1>5, <1>6, <1>7, <1>8, <1>9, <1>10 DEF Sound, Blocks, BeingPut

\* A reader that a PUT reaches is told nothing any more.
LEMMA DisturbedSound ==
  ASSUME GatewayTypes, NEW c \in Clients, Sound(c), \A k \in Keys : OldOrGone(k),
         reader'[c] = [reader[c] EXCEPT !.disturbed = TRUE]
  PROVE  Sound(c)'
<1>1. PICK q \in Gets : q = reader[c] /\ q.inode \in Nat /\ q.inode <= puts
  BY InodesExist DEF GatewayTypes
<1>2. PICK r : r = reader'[c]
  OBVIOUS
<1>3. /\ r.pc = q.pc /\ r.key = q.key /\ r.was = q.was /\ r.got = q.got
      /\ r.torn = q.torn /\ r.inode = q.inode /\ r.disturbed = TRUE
  BY <1>1, <1>2 DEF Gets
<1>4. q.pc = "reading" => q.inode # 0
  BY <1>1 DEF Gets
<1>5. q.pc = "reading" => \A k \in Keys : q.inode = inode'[k] => q.key = k
  <2>1. SUFFICES ASSUME q.pc = "reading", NEW k \in Keys, q.inode = inode'[k]
                 PROVE  q.key = k
    OBVIOUS
  <2>2. inode'[k] = inode[k]
    BY <1>1, <1>4, <2>1, InodesExist DEF OldOrGone
  <2>3. QED
    BY <1>1, <2>1, <2>2 DEF Sound
<1>6. /\ q.pc \in {"headers", "reading", "complete"} =>
           q.torn \/ \E v \in Versions : q.was = Blocks(v)
      /\ q.pc \in {"stat", "headers", "reading"} => q.key \in Keys
      /\ q.pc \in {"stat", "headers"} => q.got = <<>>
  BY <1>1 DEF Sound
<1>7. QED
  BY <1>2, <1>3, <1>5, <1>6 DEF Sound, Blocks

LEMMA ListingAlone ==
  ASSUME ListInv, listing' = listing, folder => folder',
         \A k \in Keys : inode[k] # 0 => inode'[k] # 0,
         \A k \in Nested : inode'[k] # 0 => inode[k] # 0 \/ folder',
         listing \in Lists
  PROVE  ListInv'
<1>1. listing.due \subseteq Keys /\ listing.contents \subseteq Keys
  BY DEF Lists
<1>2. /\ \A k \in listing.due : inode'[k] # 0
      /\ \A k \in Nested : inode'[k] # 0 => folder'
  BY <1>1 DEF ListInv
<1>3. listing.pc = "walk" /\ ~listing.gone => \A k \in listing.contents : inode'[k] # 0
  BY <1>1 DEF ListInv
<1>4. QED
  BY <1>2, <1>3 DEF ListInv, Full, Found, ToFind

\* Who puts what, seen by object.
LEMMA Putting ==
  ASSUME GatewayTypes, NEW k \in Keys
  PROVE  BeingPut(k) <=> \E w \in Workers : ~Idle(w) /\ put[w].key = k
BY PutFacts DEF BeingPut

-----------------------------------------------------------------------------
(* PUT and DELETE.                                                         *)

LEMMA BeginPutKeeps ==
  ASSUME GatewayInv, NEW w \in Workers, NEW k \in Keys, NEW v \in Versions,
         BeginPut(w, k, v)
  PROVE  GatewayInv'
<1>1. PICK i : i = IF inode[k] # 0 THEN inode[k] ELSE puts + 1
  OBVIOUS
<1>2. PICK p : p = [key |-> k, version |-> v, inode |-> i, at |-> 0]
  OBVIOUS
<1>3. GatewayTypes /\ FilesInv /\ ListInv /\ \A c \in Clients : Sound(c)
  BY DEF GatewayInv
<1>4. /\ puts \in Nat /\ puts' = puts + 1 /\ puts' \in 0..MaxPuts /\ MaxPuts \in Nat
      /\ i \in Nat /\ i # 0 /\ i <= puts' /\ i \in Inodes
  <2>1. inode[k] \in Nat /\ inode[k] <= puts /\ (inode[k] # 0 => inode[k] \in Inodes)
    BY <1>3, InodesExist
  <2>2. /\ puts \in Nat /\ puts' = puts + 1 /\ puts < MaxPuts /\ MaxPuts \in Nat
    BY <1>3, GatewayAssumption DEF BeginPut, GatewayTypes
  <2>3. QED
    BY <1>1, <2>1, <2>2 DEF Inodes
<1>5. /\ Idle(w) /\ put[w].key = None /\ put[w].inode = 0
      /\ put' = [put EXCEPT ![w] = p] /\ put'[w] = p
      /\ p.key = k /\ p.version = v /\ p.inode = i /\ p.at = 0
      /\ \A u \in Workers : u # w => put'[u] = put[u]
  BY <1>1, <1>2, <1>3, PutFacts DEF BeginPut, IsFile, GatewayTypes
<1>6. /\ inode' = [inode EXCEPT ![k] = i] /\ inode'[k] = i
      /\ \A j \in Keys : j # k => inode'[j] = inode[j] /\ inode'[j] # i
  <2>1. inode' = [inode EXCEPT ![k] = i] /\ DOMAIN inode = Keys
    BY <1>1, <1>3 DEF BeginPut, IsFile, GatewayTypes
  <2>2. \A j \in Keys : j # k => inode[j] # i
    BY <1>1, <1>3, <1>4, InodesExist DEF FilesInv, OwnInodes
  <2>3. QED
    BY <2>1, <2>2
<1>7. /\ data' = [data EXCEPT ![i] = <<>>] /\ data'[i] = <<>> /\ Len(data'[i]) = 0
      /\ data' \in [Inodes -> Seq(Marks)]
      /\ \A n \in Inodes : n # i => data'[n] = data[n]
  <2>1. data' = [data EXCEPT ![i] = <<>>] /\ data \in [Inodes -> Seq(Marks)]
    BY <1>1, <1>3 DEF BeginPut, IsFile, GatewayTypes
  <2>2. QED
    BY <1>4, <2>1, EmptySeq
<1>8. /\ folder' = (folder \/ k \in Nested) /\ folder \in BOOLEAN
      /\ listing' = listing /\ acked' = acked
      /\ unsettled' = UnsettledBy(k, v) /\ unsettled \subseteq Keys
  BY <1>3 DEF BeginPut, GatewayTypes
<1>9. /\ unsettled' \subseteq Keys
      /\ \A j \in Keys : j # k => (j \in unsettled' <=> j \in unsettled)
      /\ k \notin unsettled' /\ BeingPut(k) => k \notin unsettled
      /\ k \notin unsettled' => \A u \in Workers : put[u].key = k => put[u].version = v
  BY <1>8 DEF UnsettledBy, BeingPut
<1>10. \A j \in Keys : j # k => (BeingPut(j)' <=> BeingPut(j))
  BY <1>5, GatewayAssumption DEF BeingPut
<1>11. BeingPut(k)'
  BY <1>5 DEF BeingPut
<1>12. \A j \in Keys : OldOrGone(j)
  BY <1>1, <1>4, <1>6 DEF OldOrGone
<1>13. \A c \in Clients :
        /\ reader[c] \in Gets
        /\ \/ reader'[c] = [reader[c] EXCEPT !.disturbed = TRUE]
           \/ /\ reader'[c] = reader[c]
              /\ ~(reader[c].pc \in {"stat", "headers"} /\ reader[c].key = k)
              /\ ~(reader[c].pc = "reading" /\ reader[c].inode = i)
  BY <1>1, <1>3, InodesExist DEF BeginPut, Disturb, IsFile
<1>14. GatewayTypes'
  <2>1. p \in Puts
    BY <1>2, <1>4, <1>5, BlocksType DEF Puts
  <2>2. put' \in [Workers -> Puts \cup {NoPut}]
    BY <1>3, <1>5, <2>1 DEF GatewayTypes
  <2>3. \A u \in Workers : put'[u].inode <= puts'
    <3>1. \A u \in Workers : put[u].inode \in Nat /\ put[u].inode <= puts
      BY <1>3, PutFacts DEF Inodes, GatewayTypes
    <3>2. QED
      BY <1>4, <1>5, <3>1
  <2>4. \A c \in Clients : reader'[c] \in Gets /\ reader'[c].inode = reader[c].inode
    BY <1>13 DEF Gets
  <2>5. reader' \in [Clients -> Gets] /\ \A c \in Clients : reader'[c].inode <= puts'
    <3>1. reader' = [c \in Clients |-> reader'[c]]
      BY DEF BeginPut, Disturb
    <3>2. \A c \in Clients : reader[c].inode <= puts /\ reader[c].inode \in Nat
      BY <1>3, InodesExist DEF GatewayTypes
    <3>3. \A c \in Clients : reader'[c].inode <= puts'
      BY <1>4, <2>4, <3>2
    <3>4. QED
      BY <2>4, <3>1, <3>3
  <2>6. inode' \in [Keys -> 0..puts']
    BY <1>3, <1>4, <1>6 DEF GatewayTypes
  <2>7. QED
    BY <1>3, <1>4, <1>7, <1>8, <1>9, <2>2, <2>3, <2>5, <2>6 DEF GatewayTypes
<1>15. FilesInv'
  <2>1. OwnInodes'
    BY <1>3, <1>6 DEF FilesInv, OwnInodes
  <2>2. \A u \in Workers : Idle(u)' => Idle(u) /\ u # w
    BY <1>5, NoPutFacts, GatewayAssumption DEF Idle
  <2>3. PutNames'
    <3>1. SUFFICES ASSUME NEW u \in Workers, ~Idle(u)'
                   PROVE  /\ \A j \in Keys : put'[u].inode = inode'[j] => put'[u].key = j
                          /\ put'[u].key \notin unsettled' =>
                               put'[u].inode = inode'[put'[u].key]
      BY DEF PutNames
    <3>2. CASE u = w
      BY <1>5, <1>6, <3>2
    <3>3. CASE u # w
      <4>1. put'[u] = put[u] /\ ~Idle(u) /\ put[u].key \in Keys
            /\ put[u].inode \in Nat /\ put[u].inode # 0 /\ put[u].inode <= puts
        BY <1>3, <1>5, <3>1, <3>3, PutFacts DEF Idle
      <4>2. /\ \A j \in Keys : put[u].inode = inode[j] => put[u].key = j
            /\ put[u].key \notin unsettled => put[u].inode = inode[put[u].key]
        BY <1>3, <4>1 DEF FilesInv, PutNames
      <4>3. \A j \in Keys : put[u].inode = inode'[j] => put[u].key = j
        BY <1>1, <1>4, <1>6, <4>1, <4>2
      <4>4. put[u].key = k => BeingPut(k)
        BY DEF BeingPut
      <4>5. put[u].key \notin unsettled' => put[u].inode = inode'[put[u].key]
        BY <1>1, <1>6, <1>9, <4>1, <4>2, <4>4
      <4>6. QED
        BY <4>1, <4>3, <4>5
    <3>4. QED
      BY <3>2, <3>3
  <2>4. OneBody'
    <3>1. SUFFICES ASSUME NEW u \in Workers, NEW x \in Workers,
                          put'[u].key = put'[x].key, put'[u].key \in Keys \ unsettled'
                   PROVE  put'[u].version = put'[x].version
      BY DEF OneBody
    <3>2. CASE put'[u].key = k
      BY <1>5, <1>9, <3>1, <3>2
    <3>3. CASE put'[u].key # k
      BY <1>3, <1>5, <1>9, <3>1, <3>3 DEF FilesInv, OneBody
    <3>4. QED
      BY <3>2, <3>3
  <2>5. Filling'
    <3>1. SUFFICES ASSUME NEW x \in Workers, put'[x].key \in Keys \ unsettled'
                   PROVE  /\ Len(data'[put'[x].inode]) <= SizeOf[put'[x].version]
                          /\ \A n \in 1..SizeOf[put'[x].version] :
                               Written(x, n)' \/ Awaited(x, n)'
      BY DEF Filling, Written, Awaited
    <3>2. ~Idle(x)'
      BY <3>1, NoPutFacts, GatewayAssumption DEF Idle
    <3>3. put'[x].inode = inode'[put'[x].key]
      BY <2>3, <3>1, <3>2 DEF PutNames
    <3>4. CASE put'[x].key = k
      <4>1. put'[x].inode = i
        BY <1>6, <3>3, <3>4
      <4>2. SizeOf[put'[x].version] \in Nat
        BY <1>5, <1>9, <3>1, <3>4, BlocksType
      <4>3. \A n \in 1..SizeOf[put'[x].version] : Awaited(x, n)'
        BY <1>5, <3>4, <4>2 DEF Awaited
      <4>4. QED
        BY <1>7, <4>1, <4>2, <4>3
    <3>5. CASE put'[x].key # k
      <4>1. put'[x] = put[x] /\ put[x].key \in Keys \ unsettled /\ put[x].inode # i
        BY <1>5, <1>6, <1>9, <3>1, <3>3, <3>5
      <4>2. put[x].inode \in Inodes
        BY <1>3, <4>1, PutFacts
      <4>3. data'[put[x].inode] = data[put[x].inode]
        BY <1>7, <4>1, <4>2
      <4>4. \A n \in 1..SizeOf[put[x].version] : Awaited(x, n) => Awaited(x, n)'
        BY <1>5, <3>5, <4>1, GatewayAssumption DEF Awaited
      <4>5. QED
        BY <1>3, <4>1, <4>3, <4>4 DEF FilesInv, Filling, Written
    <3>6. QED
      BY <3>4, <3>5
  <2>6. Settled'
    <3>1. SUFFICES ASSUME NEW j \in Keys \ unsettled', ~BeingPut(j)'
                   PROVE  /\ acked[j] = None <=> inode'[j] = 0
                          /\ inode'[j] # 0 => data'[inode'[j]] = Blocks(acked[j])
      BY <1>8 DEF Settled, Blocks
    <3>2. j # k /\ ~BeingPut(j) /\ j \notin unsettled
      BY <1>9, <1>10, <1>11, <3>1
    <3>3. inode[j] # 0 => inode[j] \in Inodes
      BY <1>3, InodesExist
    <3>4. QED
      BY <1>3, <1>6, <1>7, <3>1, <3>2, <3>3 DEF FilesInv, Settled
  <2>7. QED
    BY <2>1, <2>3, <2>4, <2>5, <2>6 DEF FilesInv
<1>16. ASSUME NEW c \in Clients
       PROVE  Sound(c)'
  <2>1. Sound(c)
    BY <1>3
  <2>2. CASE reader'[c] = [reader[c] EXCEPT !.disturbed = TRUE]
    BY <1>3, <1>12, <2>1, <2>2, DisturbedSound
  <2>3. CASE /\ reader'[c] = reader[c]
             /\ ~(reader[c].pc \in {"stat", "headers"} /\ reader[c].key = k)
             /\ ~(reader[c].pc = "reading" /\ reader[c].inode = i)
    <3>1. ASSUME reader[c].pc \in {"stat", "headers"}
          PROVE  /\ ~BeingPut(reader[c].key) =>
                      \A u \in Workers : put'[u].key # reader[c].key
                 /\ inode'[reader[c].key] = inode[reader[c].key]
                 /\ inode[reader[c].key] # 0 =>
                      data'[inode[reader[c].key]] = data[inode[reader[c].key]]
      <4>1. reader[c].key \in Keys /\ reader[c].key # k
        BY <2>1, <2>3, <3>1 DEF Sound
      <4>2. inode[reader[c].key] # 0 => inode[reader[c].key] \in Inodes
        BY <1>3, <4>1, InodesExist
      <4>3. QED
        BY <1>5, <1>6, <1>7, <4>1, <4>2 DEF BeingPut
    <3>2. ASSUME reader[c].pc = "reading", \A u \in Workers : put[u].inode # reader[c].inode
          PROVE  /\ \A u \in Workers : put'[u].inode # reader[c].inode
                 /\ data'[reader[c].inode] = data[reader[c].inode]
      <4>1. reader[c].inode \in Inodes
        BY <1>3, <3>2, InodesExist
      <4>2. QED
        BY <1>5, <1>7, <2>3, <3>2, <4>1
    <3>3. Undisturbed(c)
      BY <2>3, <3>1, <3>2 DEF Undisturbed
    <3>4. QED
      BY <1>3, <1>12, <2>1, <3>3, UndisturbedSound
  <2>4. QED
    BY <1>13, <2>2, <2>3
<1>17. ListInv'
  <2>1. \A j \in Keys : inode[j] # 0 => inode'[j] # 0
    BY <1>4, <1>6
  <2>2. \A j \in Nested : inode'[j] # 0 => inode[j] # 0 \/ folder'
    BY <1>6, <1>8, GatewayAssumption
  <2>3. QED
    BY <1>3, <1>8, <2>1, <2>2, ListingAlone DEF GatewayTypes
<1>18. QED
  BY <1>14, <1>15, <1>16, <1>17 DEF GatewayInv
LEMMA WriteBlockKeeps ==
  ASSUME GatewayInv, NEW w \in Workers, WriteBlock(w)
  PROVE  GatewayInv'
<1>1. GatewayTypes /\ FilesInv /\ ListInv /\ \A c \in Clients : Sound(c)
  BY DEF GatewayInv
<1>2. PICK p, i, n : p = put[w] /\ i = p.inode /\ n = p.at + 1
  OBVIOUS
<1>3. /\ ~Idle(w) /\ p \in Puts /\ p.key \in Keys /\ p.version \in Versions
      /\ i \in Inodes /\ i # 0 /\ i <= puts /\ n \in Nat \ {0} /\ p.at \in Nat
      /\ n <= SizeOf[p.version] /\ SizeOf[p.version] \in Nat
      /\ p.key \notin unsettled => i = inode[p.key]
      /\ \A k \in Keys : i = inode[k] => p.key = k
  BY <1>1, <1>2, PutFacts DEF WriteBlock, FilesInv, PutNames
<1>4. PICK q : q = [p EXCEPT !.at = n]
  OBVIOUS
<1>5. /\ q \in Puts /\ q.key = p.key /\ q.version = p.version /\ q.inode = i /\ q.at = n
  BY <1>2, <1>3, <1>4 DEF Puts
<1>6. /\ data' = [data EXCEPT ![i] = WriteAt(data[i], n, p.version)]
      /\ put' = [put EXCEPT ![w] = q] /\ put'[w] = q
      /\ \A u \in Workers : u # w => put'[u] = put[u]
      /\ UNCHANGED <<inode, folder, reader, listing, acked, unsettled, puts, deletes, crashes>>
  BY <1>1, <1>2, <1>4 DEF WriteBlock, history, counters, GatewayTypes
<1>7. PICK d, e : d = data[i] /\ e = WriteAt(data[i], n, p.version)
  OBVIOUS
<1>8. /\ data' \in [Inodes -> Seq(Marks)] /\ data'[i] = e
      /\ \A m \in Inodes : m # i => data'[m] = data[m]
      /\ Len(d) \in Nat /\ Len(e) = IF n > Len(d) THEN n ELSE Len(d)
      /\ e[n] = p.version /\ \A m \in 1..Len(d) : m # n => e[m] = d[m]
  <2>1. data \in [Inodes -> Seq(Marks)] /\ d \in Seq(Marks)
    BY <1>1, <1>3, <1>7 DEF GatewayTypes
  <2>2. /\ e \in Seq(Marks) /\ Len(e) = (IF n > Len(d) THEN n ELSE Len(d))
        /\ e[n] = p.version /\ \A m \in 1..Len(d) : m # n => e[m] = d[m]
    <3>1. e = WriteAt(d, n, p.version) /\ n \in Nat \ {0} /\ p.version \in Versions
      BY <1>3, <1>7
    <3>2. QED
      BY <2>1, <3>1, WriteAtFacts
  <2>3. Len(d) \in Nat
    BY <2>1, LenProperties
  <2>4. QED
    BY <1>3, <1>6, <1>7, <2>1, <2>2, <2>3
<1>9. \A u \in Workers : /\ put'[u].key = put[u].key /\ put'[u].version = put[u].version
                         /\ put'[u].inode = put[u].inode /\ Idle(u)' = Idle(u)
  BY <1>2, <1>3, <1>5, <1>6, NoPutFacts DEF Idle
<1>10. \A k \in Keys : BeingPut(k)' = BeingPut(k)
  BY <1>9 DEF BeingPut
<1>11. GatewayTypes'
  <2>1. put' \in [Workers -> Puts \cup {NoPut}]
    BY <1>1, <1>5, <1>6 DEF GatewayTypes
  <2>2. \A u \in Workers : put'[u].inode <= puts
    BY <1>1, <1>9 DEF GatewayTypes
  <2>3. QED
    BY <1>1, <1>6, <1>8, <2>1, <2>2 DEF GatewayTypes, Gets, Lists
<1>12. FilesInv'
  <2>1. OwnInodes' /\ PutNames' /\ OneBody'
    BY <1>1, <1>6, <1>9 DEF FilesInv, OwnInodes, PutNames, OneBody
  <2>2. Filling'
    <3>1. SUFFICES ASSUME NEW x \in Workers, put[x].key \in Keys \ unsettled
                   PROVE  /\ Len(data'[put[x].inode]) <= SizeOf[put[x].version]
                          /\ \A m \in 1..SizeOf[put[x].version] :
                               Written(x, m)' \/ Awaited(x, m)'
      BY <1>6, <1>9 DEF Filling
    <3>2. /\ ~Idle(x) /\ put[x].inode \in Inodes /\ put[x].inode = inode[put[x].key]
          /\ SizeOf[put[x].version] \in Nat
      BY <1>1, <3>1, PutFacts DEF FilesInv, PutNames
    <3>3. /\ Len(data[put[x].inode]) <= SizeOf[put[x].version]
          /\ \A m \in 1..SizeOf[put[x].version] : Written(x, m) \/ Awaited(x, m)
      BY <1>1, <3>1 DEF FilesInv, Filling
    <3>4. CASE put[x].key # p.key
      <4>1. put[x].inode # i
        BY <1>3, <3>1, <3>2, <3>4
      <4>2. data'[put[x].inode] = data[put[x].inode]
        BY <1>8, <3>2, <4>1
      <4>3. \A m : Awaited(x, m) => Awaited(x, m)'
        BY <1>2, <1>6, <1>9, <3>4 DEF Awaited
      <4>4. QED
        BY <1>9, <3>3, <4>2, <4>3 DEF Written
    <3>5. CASE put[x].key = p.key
      <4>1. put[x].inode = i /\ put[x].version = p.version
        BY <1>1, <1>2, <1>3, <3>1, <3>2, <3>5 DEF FilesInv, OneBody
      <4>2. Len(data'[put[x].inode]) <= SizeOf[put[x].version]
        BY <1>3, <1>7, <1>8, <3>3, <4>1
      <4>3. ASSUME NEW m \in 1..SizeOf[put[x].version]
            PROVE  Written(x, m)' \/ Awaited(x, m)'
        <5>1. CASE m = n
          BY <1>3, <1>8, <1>9, <4>1, <5>1 DEF Written
        <5>2. CASE m # n /\ Written(x, m)
          <6>1. m \in 1..Len(d) /\ d[m] = p.version
            BY <1>7, <1>8, <3>2, <4>1, <4>3, <5>2 DEF Written
          <6>2. m <= Len(e) /\ e[m] = p.version
            BY <1>3, <1>8, <5>2, <6>1
          <6>3. QED
            BY <1>8, <1>9, <4>1, <6>2 DEF Written
        <5>3. CASE m # n /\ Awaited(x, m)
          <6>1. PICK u \in Workers : put[u].key = put[x].key /\ put[u].at < m
            BY <5>3 DEF Awaited
          <6>2. put'[u].key = put'[x].key /\ put'[u].at < m
            BY <1>2, <1>3, <1>5, <1>6, <1>9, <3>2, <4>3, <5>3, <6>1
          <6>3. QED
            BY <6>2 DEF Awaited
        <5>4. QED
          BY <3>3, <5>1, <5>2, <5>3
      <4>4. QED
        BY <4>2, <4>3
    <3>6. QED
      BY <3>4, <3>5
  <2>3. Settled'
    <3>1. SUFFICES ASSUME NEW k \in Keys \ unsettled, ~BeingPut(k), inode[k] # 0
                   PROVE  data'[inode[k]] = data[inode[k]]
      BY <1>1, <1>6, <1>10 DEF FilesInv, Settled, Blocks
    <3>2. inode[k] # i /\ inode[k] \in Inodes
      BY <1>1, <1>2, <1>3, <3>1, InodesExist DEF BeingPut
    <3>3. QED
      BY <1>8, <3>2
  <2>4. QED
    BY <2>1, <2>2, <2>3 DEF FilesInv
<1>13. ASSUME NEW c \in Clients
       PROVE  Sound(c)'
  <2>1. Sound(c) /\ (reader[c].pc = "reading" => reader[c].inode \in Inodes)
    BY <1>1, InodesExist
  <2>2. ASSUME reader[c].pc \in {"stat", "headers"}, ~BeingPut(reader[c].key)
        PROVE  /\ \A u \in Workers : put'[u].key # reader[c].key
               /\ inode[reader[c].key] # 0 =>
                    data'[inode[reader[c].key]] = data[inode[reader[c].key]]
    <3>1. reader[c].key \in Keys
      BY <2>1, <2>2 DEF Sound
    <3>2. inode[reader[c].key] # i
      BY <1>2, <1>3, <2>2, <3>1 DEF BeingPut
    <3>3. inode[reader[c].key] # 0 => inode[reader[c].key] \in Inodes
      BY <1>1, <3>1, InodesExist
    <3>4. QED
      BY <1>8, <1>9, <2>2, <3>2, <3>3 DEF BeingPut
  <2>3. ASSUME reader[c].pc = "reading", \A u \in Workers : put[u].inode # reader[c].inode
        PROVE  /\ \A u \in Workers : put'[u].inode # reader[c].inode
               /\ data'[reader[c].inode] = data[reader[c].inode]
    BY <1>2, <1>8, <1>9, <2>1, <2>3
  <2>4. Undisturbed(c)
    BY <1>6, <2>2, <2>3 DEF Undisturbed
  <2>5. \A k \in Keys : OldOrGone(k)
    BY <1>6 DEF OldOrGone
  <2>6. QED
    BY <1>1, <2>1, <2>4, <2>5, UndisturbedSound
<1>14. ListInv'
  <2>1. \A k \in Nested : k \in Keys
    BY GatewayAssumption
  <2>2. QED
    BY <1>1, <1>6, <2>1, ListingAlone DEF GatewayTypes
<1>15. QED
  BY <1>11, <1>12, <1>13, <1>14 DEF GatewayInv

\* A PUT that ends, whatever it was, and a DELETE leave the readers alone.
LEMMA QuietSound ==
  ASSUME GatewayInv, \A w \in Workers : put'[w] = put[w] \/ put'[w] = NoPut,
         UNCHANGED <<data, reader>>, \A k \in Keys : inode'[k] \in {0, inode[k]}
  PROVE  \A c \in Clients : Sound(c)'
<1>1. SUFFICES ASSUME NEW c \in Clients PROVE Sound(c)'
  OBVIOUS
<1>2. Sound(c) /\ GatewayTypes /\ \A k \in Keys : OldOrGone(k)
  BY DEF GatewayInv, OldOrGone
<1>3. reader[c].pc = "reading" => reader[c].inode # 0
  BY <1>2, InodesExist DEF Gets
<1>4. reader[c].pc \in {"stat", "headers"} => reader[c].key \in Keys
  BY <1>2 DEF Sound
<1>5. Undisturbed(c)
  BY <1>2, <1>3, <1>4, NoPutFacts, GatewayAssumption DEF Undisturbed, BeingPut
<1>6. QED
  BY <1>2, <1>5, UndisturbedSound

LEMMA EndPutKeeps ==
  ASSUME GatewayInv, NEW w \in Workers, EndPut(w)
  PROVE  GatewayInv'
<1>1. GatewayTypes /\ FilesInv /\ ListInv
  BY DEF GatewayInv
<1>2. PICK p : p = put[w]
  OBVIOUS
<1>3. /\ ~Idle(w) /\ p.key \in Keys /\ p.version \in Versions /\ p.inode \in Inodes
      /\ p.at = SizeOf[p.version] /\ SizeOf[p.version] \in Nat
      /\ put' = [put EXCEPT ![w] = NoPut] /\ put'[w] = NoPut
      /\ \A u \in Workers : u # w => put'[u] = put[u]
      /\ acked' = [acked EXCEPT ![p.key] = p.version] /\ acked'[p.key] = p.version
      /\ \A k \in Keys : k # p.key => acked'[k] = acked[k]
      /\ UNCHANGED <<inode, data, folder, reader, listing, unsettled, puts, deletes, crashes>>
  BY <1>1, <1>2, PutFacts DEF EndPut, files, counters, GatewayTypes
<1>4. \A u \in Workers : Idle(u)' <=> Idle(u) \/ u = w
  BY <1>3 DEF Idle
<1>5. GatewayTypes'
  <2>1. acked' \in [Keys -> Versions \cup {None}]
    BY <1>1, <1>3 DEF GatewayTypes
  <2>2. put' \in [Workers -> Puts \cup {NoPut}] /\ \A u \in Workers : put'[u].inode <= puts
    BY <1>1, <1>3, NoPutFacts, InodesExist DEF GatewayTypes
  <2>3. QED
    BY <1>1, <1>3, <2>1, <2>2 DEF GatewayTypes, Gets, Lists
<1>6. FilesInv'
  <2>1. OwnInodes'
    BY <1>1, <1>3 DEF FilesInv, OwnInodes
  <2>2. PutNames'
    BY <1>1, <1>3, <1>4 DEF FilesInv, PutNames
  <2>3. \A u \in Workers : put'[u].key \in Keys => u # w /\ put'[u] = put[u]
    BY <1>3, NoPutFacts, GatewayAssumption
  <2>4. OneBody'
    BY <1>1, <1>3, <2>3 DEF FilesInv, OneBody
  <2>5. Filling'
    <3>1. SUFFICES ASSUME NEW x \in Workers, put'[x].key \in Keys \ unsettled
                   PROVE  /\ Len(data[put[x].inode]) <= SizeOf[put[x].version]
                          /\ \A m \in 1..SizeOf[put[x].version] :
                               Written(x, m)' \/ Awaited(x, m)'
      BY <1>3, <2>3 DEF Filling
    <3>2. x # w /\ put'[x] = put[x] /\ ~Idle(x) /\ SizeOf[put[x].version] \in Nat
      BY <1>1, <2>3, <3>1, PutFacts
    <3>3. /\ Len(data[put[x].inode]) <= SizeOf[put[x].version]
          /\ \A m \in 1..SizeOf[put[x].version] : Written(x, m) \/ Awaited(x, m)
      BY <1>1, <3>1, <3>2 DEF FilesInv, Filling
    <3>4. ASSUME NEW m \in 1..SizeOf[put[x].version], Awaited(x, m)
          PROVE  Awaited(x, m)'
      <4>1. PICK u \in Workers : put[u].key = put[x].key /\ put[u].at < m
        BY <3>4 DEF Awaited
      <4>2. u # w
        <5>1. SUFFICES ASSUME u = w PROVE FALSE
          OBVIOUS
        <5>2. p.version = put[x].version
          BY <1>1, <1>2, <3>1, <3>2, <4>1, <5>1 DEF FilesInv, OneBody
        <5>3. QED
          BY <1>2, <1>3, <3>4, <4>1, <5>1, <5>2
      <4>3. QED
        BY <1>3, <3>2, <4>1, <4>2 DEF Awaited
    <3>5. \A m : Written(x, m) => Written(x, m)'
      BY <1>3, <3>2 DEF Written
    <3>6. QED
      BY <3>3, <3>4, <3>5
  <2>6. Settled'
    <3>1. SUFFICES ASSUME NEW k \in Keys \ unsettled, ~BeingPut(k)'
                   PROVE  /\ acked'[k] = None <=> inode[k] = 0
                          /\ inode[k] # 0 => data[inode[k]] = Blocks(acked'[k])
      BY <1>3 DEF Settled, Blocks
    <3>2. CASE k # p.key
      <4>1. ~BeingPut(k)
        BY <1>2, <1>3, <3>1, <3>2 DEF BeingPut
      <4>2. QED
        BY <1>1, <1>3, <3>1, <3>2, <4>1 DEF FilesInv, Settled
    <3>3. CASE k = p.key
      <4>1. p.inode = inode[k] /\ inode[k] # 0
        BY <1>1, <1>2, <1>3, <3>1, <3>3, PutFacts DEF FilesInv, PutNames
      <4>2. PICK d : d = data[inode[k]]
        OBVIOUS
      <4>3. /\ Len(d) <= SizeOf[p.version]
            /\ \A m \in 1..SizeOf[p.version] : Written(w, m) \/ Awaited(w, m)
        BY <1>1, <1>2, <1>3, <3>1, <3>3, <4>1, <4>2 DEF FilesInv, Filling
      <4>4. \A m \in 1..SizeOf[p.version] : ~Awaited(w, m)
        <5>1. SUFFICES ASSUME NEW m \in 1..SizeOf[p.version], NEW u \in Workers,
                              put[u].key = k, put[u].at < m
                       PROVE  FALSE
          BY <1>2, <3>3 DEF Awaited
        <5>2. u = w
          BY <1>3, <3>1, <5>1 DEF BeingPut
        <5>3. QED
          BY <1>2, <1>3, <5>1, <5>2
      <4>5. d \in Seq(Marks) /\ Len(d) \in Nat
        BY <1>1, <1>3, <4>1, <4>2, LenProperties DEF GatewayTypes
      <4>6. \A m \in 1..SizeOf[p.version] : m <= Len(d) /\ d[m] = p.version
        BY <1>2, <4>1, <4>2, <4>3, <4>4 DEF Written
      <4>7. Len(d) = SizeOf[p.version]
        BY <1>3, <4>3, <4>5, <4>6, BlocksType
      <4>8. d = Blocks(p.version)
        <5>1. /\ Blocks(p.version) \in Seq(Marks) /\ Len(Blocks(p.version)) = Len(d)
              /\ \A m \in 1..Len(d) : d[m] = Blocks(p.version)[m]
          BY <1>3, <4>6, <4>7, BlocksType DEF Blocks
        <5>2. QED
          BY <4>5, <5>1, SeqEqual
      <4>9. QED
        BY <1>3, <3>3, <4>1, <4>2, <4>8, GatewayAssumption
    <3>4. QED
      BY <3>2, <3>3
  <2>7. QED
    BY <2>1, <2>2, <2>4, <2>5, <2>6 DEF FilesInv
<1>7. \A c \in Clients : Sound(c)'
  <2>1. \A u \in Workers : put'[u] = put[u] \/ put'[u] = NoPut
    BY <1>3
  <2>2. \A k \in Keys : inode'[k] \in {0, inode[k]}
    BY <1>3
  <2>3. QED
    BY <1>3, <2>1, <2>2, QuietSound
<1>8. ListInv'
  <2>1. \A k \in Nested : k \in Keys
    BY GatewayAssumption
  <2>2. QED
    BY <1>1, <1>3, <2>1, ListingAlone DEF GatewayTypes
<1>9. QED
  BY <1>5, <1>6, <1>7, <1>8 DEF GatewayInv
\* A PUT that fails or is cut off with its worker; the worker of a crash may
\* have had none.
LEMMA StopPutFiles ==
  ASSUME GatewayInv, NEW w \in Workers, put' = [put EXCEPT ![w] = NoPut],
         unsettled' = unsettled \cup ({put[w].key} \cap Keys),
         UNCHANGED <<inode, data, folder, acked, puts>>
  PROVE  /\ FilesInv'
         /\ put' \in [Workers -> Puts \cup {NoPut}]
         /\ \A u \in Workers : /\ put'[u].inode <= puts
                               /\ put'[u] = put[u] \/ put'[u] = NoPut
         /\ unsettled' \subseteq Keys
<1>1. GatewayTypes /\ FilesInv
  BY DEF GatewayInv
<1>2. /\ put'[w] = NoPut /\ \A u \in Workers : u # w => put'[u] = put[u]
      /\ put' \in [Workers -> Puts \cup {NoPut}]
  BY <1>1 DEF GatewayTypes
<1>3. \A u \in Workers : Idle(u)' <=> Idle(u) \/ u = w
  BY <1>2 DEF Idle
<1>4. \A u \in Workers : put'[u].inode <= puts
  BY <1>1, <1>2, NoPutFacts, InodesExist DEF GatewayTypes
<1>5. \A u \in Workers : put'[u].key \in Keys => u # w /\ put'[u] = put[u]
  BY <1>2, NoPutFacts, GatewayAssumption
<1>6. OwnInodes' /\ PutNames' /\ OneBody'
  <2>1. OwnInodes'
    BY <1>1 DEF FilesInv, OwnInodes
  <2>2. PutNames'
    BY <1>1, <1>2, <1>3 DEF FilesInv, PutNames
  <2>3. OneBody'
    BY <1>1, <1>5 DEF FilesInv, OneBody
  <2>4. QED
    BY <2>1, <2>2, <2>3
<1>7. Filling'
  <2>1. SUFFICES ASSUME NEW x \in Workers, put'[x].key \in Keys \ unsettled'
                 PROVE  /\ Len(data[put[x].inode]) <= SizeOf[put[x].version]
                        /\ \A m \in 1..SizeOf[put[x].version] :
                             Written(x, m)' \/ Awaited(x, m)'
    BY <1>5 DEF Filling
  <2>2. x # w /\ put'[x] = put[x] /\ put[x].key \in Keys \ unsettled
        /\ put[x].key # put[w].key
    BY <1>5, <2>1
  <2>3. \A m : Awaited(x, m) => Awaited(x, m)'
    BY <1>2, <2>2 DEF Awaited
  <2>4. \A m : Written(x, m) => Written(x, m)'
    BY <2>2 DEF Written
  <2>5. QED
    BY <1>1, <2>2, <2>3, <2>4 DEF FilesInv, Filling
<1>8. Settled'
  <2>1. SUFFICES ASSUME NEW k \in Keys \ unsettled', ~BeingPut(k)'
                 PROVE  /\ acked[k] = None <=> inode[k] = 0
                        /\ inode[k] # 0 => data[inode[k]] = Blocks(acked[k])
    BY DEF Settled, Blocks
  <2>2. k \in Keys \ unsettled /\ ~BeingPut(k)
    BY <1>2, <2>1 DEF BeingPut
  <2>3. QED
    BY <1>1, <2>2 DEF FilesInv, Settled
<1>9. QED
  BY <1>1, <1>2, <1>4, <1>6, <1>7, <1>8 DEF FilesInv, GatewayTypes

LEMMA PutFailsKeeps ==
  ASSUME GatewayInv, NEW w \in Workers, PutFails(w)
  PROVE  GatewayInv'
<1>1. GatewayTypes /\ ListInv
  BY DEF GatewayInv
<1>2. /\ put[w].key \in Keys /\ put' = [put EXCEPT ![w] = NoPut]
      /\ unsettled' = unsettled \cup {put[w].key}
      /\ UNCHANGED <<inode, data, folder, reader, listing, acked, puts, deletes, crashes>>
  BY <1>1, PutFacts DEF PutFails, files, counters
<1>3. unsettled' = unsettled \cup ({put[w].key} \cap Keys)
  BY <1>2
<1>4. /\ FilesInv'
      /\ put' \in [Workers -> Puts \cup {NoPut}]
      /\ \A u \in Workers : /\ put'[u].inode <= puts
                            /\ put'[u] = put[u] \/ put'[u] = NoPut
      /\ unsettled' \subseteq Keys
  BY <1>2, <1>3, StopPutFiles
<1>5. GatewayTypes'
  BY <1>1, <1>2, <1>4 DEF GatewayTypes, Gets, Lists
<1>6. \A c \in Clients : Sound(c)'
  BY <1>2, <1>4, QuietSound
<1>7. ListInv'
  <2>1. \A k \in Nested : k \in Keys
    BY GatewayAssumption
  <2>2. QED
    BY <1>1, <1>2, <2>1, ListingAlone DEF GatewayTypes
<1>8. QED
  BY <1>4, <1>5, <1>6, <1>7 DEF GatewayInv

LEMMA DeleteKeeps ==
  ASSUME GatewayInv, NEW k \in Keys, Delete(k)
  PROVE  GatewayInv'
<1>1. GatewayTypes /\ FilesInv /\ ListInv
  BY DEF GatewayInv
<1>2. /\ inode' = [inode EXCEPT ![k] = 0] /\ inode'[k] = 0
      /\ \A j \in Keys : j # k => inode'[j] = inode[j]
      /\ acked' = [acked EXCEPT ![k] = None] /\ acked'[k] = None
      /\ \A j \in Keys : j # k => acked'[j] = acked[j]
      /\ unsettled' = IF BeingPut(k) THEN unsettled \cup {k} ELSE unsettled \ {k}
      /\ listing' = [listing EXCEPT !.due = @ \ {k}, !.gone = @ \/ IsFile(k)]
      /\ UNCHANGED <<data, folder, put, reader, puts, crashes>>
  BY <1>1 DEF Delete, GatewayTypes
<1>3. /\ \A j \in Keys : j # k => (j \in unsettled' <=> j \in unsettled)
      /\ k \notin unsettled' => ~BeingPut(k)
      /\ unsettled' \subseteq Keys
  BY <1>1, <1>2 DEF GatewayTypes
<1>4. PICK gone : gone = (listing.gone \/ IsFile(k))
  OBVIOUS
<1>5. gone \in BOOLEAN
  BY <1>1, <1>4 DEF GatewayTypes, Lists
<1>6. listing' = [listing EXCEPT !.due = listing.due \ {k}, !.gone = gone]
  BY <1>2, <1>4
<1>7. /\ listing' \in Lists /\ listing'.pc = listing.pc
      /\ listing'.delimiter = listing.delimiter /\ listing'.todo = listing.todo
      /\ listing'.contents = listing.contents /\ listing'.prefixes = listing.prefixes
      /\ listing'.due = listing.due \ {k} /\ listing'.gone = gone
  BY <1>1, <1>5, <1>6 DEF GatewayTypes, Lists
<1>8. GatewayTypes'
  <2>1. inode' \in [Keys -> 0..puts] /\ acked' \in [Keys -> Versions \cup {None}]
    BY <1>1, <1>2, InodesExist DEF GatewayTypes
  <2>2. QED
    BY <1>1, <1>2, <1>3, <1>7, <2>1 DEF GatewayTypes, Gets
<1>9. FilesInv'
  <2>1. OwnInodes'
    BY <1>1, <1>2 DEF FilesInv, OwnInodes
  <2>2. \A u \in Workers : put[u].key \in Keys \ unsettled' =>
          put[u].key # k /\ put[u].key \in Keys \ unsettled
    BY <1>3 DEF BeingPut
  <2>3. PutNames'
    <3>1. SUFFICES ASSUME NEW u \in Workers, ~Idle(u)
                   PROVE  /\ \A j \in Keys : put[u].inode = inode'[j] => put[u].key = j
                          /\ put[u].key \notin unsettled' =>
                               put[u].inode = inode'[put[u].key]
      BY <1>2 DEF PutNames, Idle
    <3>2. put[u].inode # 0 /\ put[u].key \in Keys
      BY <1>1, <3>1, PutFacts
    <3>3. QED
      BY <1>1, <1>2, <2>2, <3>1, <3>2 DEF FilesInv, PutNames
  <2>4. OneBody' /\ Filling'
    <3>1. OneBody'
      BY <1>1, <1>2, <2>2 DEF FilesInv, OneBody
    <3>2. \A u \in Workers : \A m : /\ Written(u, m)' <=> Written(u, m)
                                    /\ Awaited(u, m)' <=> Awaited(u, m)
      BY <1>2 DEF Written, Awaited
    <3>3. Filling'
      BY <1>1, <1>2, <2>2, <3>2 DEF FilesInv, Filling
    <3>4. QED
      BY <3>1, <3>3
  <2>5. Settled'
    <3>1. SUFFICES ASSUME NEW j \in Keys \ unsettled', ~BeingPut(j)
                   PROVE  /\ acked'[j] = None <=> inode'[j] = 0
                          /\ inode'[j] # 0 => data[inode'[j]] = Blocks(acked'[j])
      BY <1>2 DEF Settled, Blocks, BeingPut
    <3>2. CASE j = k
      BY <1>2, <3>2
    <3>3. CASE j # k
      BY <1>1, <1>2, <1>3, <3>1, <3>3 DEF FilesInv, Settled
    <3>4. QED
      BY <3>2, <3>3
  <2>6. QED
    BY <2>1, <2>3, <2>4, <2>5 DEF FilesInv
<1>10. \A c \in Clients : Sound(c)'
  <2>1. \A j \in Keys : inode'[j] \in {0, inode[j]}
    BY <1>2
  <2>2. QED
    BY <1>2, <2>1, QuietSound
<1>11. ListInv'
  <2>1. \A j \in Nested : inode'[j] # 0 => folder'
    BY <1>1, <1>2, GatewayAssumption DEF ListInv
  <2>2. \A j \in listing'.due : inode'[j] # 0 /\ j \in listing.due
    BY <1>1, <1>2, <1>7 DEF ListInv, GatewayTypes, Lists
  <2>3. Full' = Full /\ \A j : Found(j)' = Found(j) /\ ToFind(j)' = ToFind(j)
    BY <1>7 DEF Full, Found, ToFind
  <2>4. ASSUME ~listing'.gone
        PROVE  ~listing.gone /\ \A j \in listing.contents : inode[j] # 0 => inode'[j] # 0
    <3>1. ~listing.gone /\ inode[k] = 0 /\ listing.contents \subseteq Keys
      BY <1>1, <1>4, <1>7, <2>4 DEF IsFile, GatewayTypes, Lists
    <3>2. QED
      BY <1>2, <3>1
  <2>5. listing.gone => listing'.gone
    BY <1>4, <1>7
  <2>6. QED
    BY <1>1, <1>7, <2>1, <2>2, <2>3, <2>4, <2>5 DEF ListInv
<1>12. QED
  BY <1>8, <1>9, <1>10, <1>11 DEF GatewayInv

-----------------------------------------------------------------------------
(* GET.                                                                    *)

\* Only one reader changes.
LEMMA GetStep ==
  ASSUME GatewayInv, NEW c \in Clients, NEW r \in Gets, r.inode <= puts,
         reader' = [reader EXCEPT ![c] = r], Sound(c)',
         UNCHANGED <<files, put, listing, history, counters>>
  PROVE  GatewayInv'
<1>1. /\ GatewayTypes /\ FilesInv /\ ListInv
      /\ UNCHANGED <<inode, data, folder, put, listing, acked, unsettled, puts,
                     deletes, crashes>>
  BY DEF GatewayInv, files, history, counters
<1>2. /\ reader' \in [Clients -> Gets] /\ reader'[c] = r
      /\ \A b \in Clients : b # c => reader'[b] = reader[b]
  BY <1>1 DEF GatewayTypes
<1>3. GatewayTypes'
  <2>1. \A b \in Clients : reader'[b].inode <= puts
    BY <1>1, <1>2 DEF GatewayTypes
  <2>2. QED
    BY <1>1, <1>2, <2>1 DEF GatewayTypes, Puts, Lists
<1>4. FilesInv'
  BY <1>1 DEF FilesInv, OwnInodes, PutNames, OneBody, Filling, Written, Awaited, Settled,
              Blocks, BeingPut, Idle
<1>5. ASSUME NEW b \in Clients, b # c
      PROVE  Sound(b)'
  <2>1. Sound(b)
    BY DEF GatewayInv
  <2>2. Undisturbed(b) /\ \A k \in Keys : OldOrGone(k)
    BY <1>1, <1>2, <1>5 DEF Undisturbed, OldOrGone, BeingPut
  <2>3. QED
    BY <1>1, <2>1, <2>2, UndisturbedSound
<1>6. ListInv'
  BY <1>1 DEF ListInv, Full, Found, ToFind
<1>7. QED
  BY <1>3, <1>4, <1>5, <1>6 DEF GatewayInv
LEMMA GetTypes ==
  ASSUME GatewayInv, NEW c \in Clients
  PROVE  /\ reader[c] \in Gets /\ Sound(c) /\ reader \in [Clients -> Gets]
         /\ reader[c].inode <= puts /\ reader[c].inode \in Nat /\ puts \in Nat
         /\ GatewayTypes /\ FilesInv
BY InodesExist DEF GatewayInv, GatewayTypes

LEMMA StatKeeps ==
  ASSUME GatewayInv, NEW c \in Clients, NEW k \in Keys, Stat(c, k)
  PROVE  GatewayInv'
<1>1. PICK n, busy : n = Len(data[inode[k]]) /\ busy = BeingPut(k)
  OBVIOUS
<1>2. PICK r : r = [NoGet EXCEPT !.pc = "stat", !.key = k, !.size = n,
                                 !.disturbed = busy]
  OBVIOUS
<1>3. /\ inode[k] # 0 /\ inode[k] \in Inodes /\ data[inode[k]] \in Seq(Marks)
      /\ GatewayTypes /\ reader' = [reader EXCEPT ![c] = r]
      /\ UNCHANGED <<files, put, listing, history, counters>>
  BY <1>1, <1>2, InodesExist
     DEF Stat, IsFile, Content, GatewayInv, GatewayTypes
<1>4. n \in Nat /\ <<>> \in Seq(Marks) /\ Len(<<>>) = 0 /\ busy \in BOOLEAN
  BY <1>1, <1>3, LenProperties, EmptySeq DEF BeingPut
<1>5. /\ r.pc = "stat" /\ r.key = k /\ r.size = n /\ r.got = <<>> /\ r.inode = 0
      /\ r.disturbed = busy
  BY <1>2 DEF NoGet
<1>6. r \in Gets
  <2>1. NoGet \in [pc : {"idle", "stat", "headers", "reading", "complete", "cut"},
                   key : Keys \cup {None}, size : Nat, was : Seq(Marks), inode : Nat,
                   got : Seq(Marks), torn : BOOLEAN, disturbed : BOOLEAN]
    BY <1>4 DEF NoGet
  <2>2. r \in [pc : {"idle", "stat", "headers", "reading", "complete", "cut"},
               key : Keys \cup {None}, size : Nat, was : Seq(Marks), inode : Nat,
               got : Seq(Marks), torn : BOOLEAN, disturbed : BOOLEAN]
    BY <1>2, <1>4, <2>1
  <2>3. QED
    BY <1>4, <1>5, <2>2 DEF Gets
<1>7. reader'[c] = r
  BY <1>3 DEF GatewayTypes
<1>8. Sound(c)'
  <2>1. UNCHANGED <<inode, data, put>>
    BY <1>3 DEF files
  <2>2. ~r.disturbed => ~BeingPut(k)'
    BY <1>1, <1>5, <2>1 DEF BeingPut
  <2>3. QED
    BY <1>1, <1>5, <1>7, <2>1, <2>2 DEF Sound, BeingPut
<1>9. r.inode <= puts
  BY <1>3, <1>5, InodesExist
<1>10. QED
  BY <1>3, <1>6, <1>8, <1>9, GetStep

LEMMA HeadersKeep ==
  ASSUME GatewayInv, NEW c \in Clients, Headers(c)
  PROVE  GatewayInv'
<1>1. PICK q, i : q = reader[c] /\ i = inode[q.key]
  OBVIOUS
<1>2. PICK d, torn : d = data[i] /\ torn = (BeingPut(q.key) \/ q.key \in unsettled)
  OBVIOUS
<1>3. PICK r : r = IF i # 0 THEN [q EXCEPT !.pc = "headers", !.was = d, !.torn = torn]
                   ELSE [q EXCEPT !.pc = "cut"]
  OBVIOUS
<1>4. /\ q \in Gets /\ Sound(c) /\ q.pc = "stat" /\ q.key \in Keys /\ q.inode <= puts
      /\ GatewayTypes /\ FilesInv /\ q.got = <<>>
  BY <1>1, GetTypes DEF Headers, Sound
<1>5. reader' = [reader EXCEPT ![c] = r] /\ reader'[c] = r
      /\ UNCHANGED <<files, put, listing, history, counters>>
  BY <1>1, <1>2, <1>3, <1>4 DEF Headers, IsFile, Content, GatewayTypes
<1>6. UNCHANGED <<inode, data, put, unsettled>>
  BY <1>5 DEF files, history
<1>7. CASE i = 0
  <2>1. r = [q EXCEPT !.pc = "cut"]
    BY <1>3, <1>7
  <2>2. r \in Gets /\ r.pc = "cut" /\ r.inode = q.inode
    BY <1>4, <2>1 DEF Gets
  <2>3. Sound(c)'
    BY <1>5, <2>2 DEF Sound
  <2>4. QED
    BY <1>4, <1>5, <2>2, <2>3, GetStep
<1>8. CASE i # 0
  <2>1. r = [q EXCEPT !.pc = "headers", !.was = d, !.torn = torn]
    BY <1>3, <1>8
  <2>2. d \in Seq(Marks) /\ torn \in BOOLEAN
    BY <1>1, <1>2, <1>4, <1>8, InodesExist DEF GatewayTypes, BeingPut
  <2>3. /\ r \in Gets /\ r.pc = "headers" /\ r.key = q.key /\ r.size = q.size
        /\ r.was = d /\ r.inode = q.inode /\ r.got = <<>> /\ r.torn = torn
        /\ r.disturbed = q.disturbed
    BY <1>4, <2>1, <2>2 DEF Gets
  <2>4. r.torn \/ \E v \in Versions : r.was = Blocks(v)
    <3>1. SUFFICES ASSUME ~BeingPut(q.key), q.key \notin unsettled
                   PROVE  \E v \in Versions : d = Blocks(v)
      BY <1>2, <2>3
    <3>2. acked[q.key] # None /\ d = Blocks(acked[q.key])
      BY <1>1, <1>2, <1>4, <1>8, <3>1 DEF FilesInv, Settled
    <3>3. acked[q.key] \in Versions
      BY <1>4, <3>2 DEF GatewayTypes
    <3>4. QED
      BY <3>2, <3>3
  <2>5. ~q.disturbed => ~BeingPut(q.key) /\ Len(d) = q.size
    BY <1>1, <1>2, <1>4, <1>8 DEF Sound
  <2>6. Sound(c)'
    BY <1>1, <1>2, <1>4, <1>5, <1>6, <2>3, <2>4, <2>5 DEF Sound, Blocks, BeingPut
  <2>7. QED
    BY <1>4, <1>5, <2>3, <2>6, GetStep
<1>9. QED
  BY <1>7, <1>8

LEMMA OpenFileKeeps ==
  ASSUME GatewayInv, NEW c \in Clients, OpenFile(c)
  PROVE  GatewayInv'
<1>1. PICK q, i : q = reader[c] /\ i = inode[q.key]
  OBVIOUS
<1>2. PICK to : to = IF i = 0 THEN "cut" ELSE "reading"
  OBVIOUS
<1>3. PICK r : r = [q EXCEPT !.pc = to, !.inode = i]
  OBVIOUS
<1>4. /\ q \in Gets /\ q.pc = "headers" /\ q.key \in Keys /\ q.got = <<>>
      /\ Sound(c) /\ GatewayTypes /\ FilesInv
  BY <1>1, GetTypes DEF OpenFile, Sound
<1>5. i \in Nat /\ i <= puts
  BY <1>1, <1>4, InodesExist
<1>6. /\ reader' = [reader EXCEPT ![c] = r] /\ reader'[c] = r
      /\ UNCHANGED <<files, put, listing, history, counters>>
  <2>1. /\ reader' = [reader EXCEPT ![c] =
                        [reader[c] EXCEPT
                           !.pc = IF inode[reader[c].key] = 0 THEN "cut" ELSE "reading",
                           !.inode = inode[reader[c].key]]]
        /\ UNCHANGED <<files, put, listing, history, counters>>
    BY GetTypes DEF OpenFile
  <2>2. QED
    BY <1>1, <1>2, <1>3, <1>4, <2>1 DEF GatewayTypes
<1>7. /\ r \in Gets /\ r.pc = to /\ r.key = q.key /\ r.size = q.size /\ r.was = q.was
      /\ r.inode = i /\ r.got = <<>> /\ r.torn = q.torn /\ r.disturbed = q.disturbed
  BY <1>2, <1>3, <1>4, <1>5 DEF Gets
<1>8. Sound(c)'
  <2>1. UNCHANGED <<inode, data, put>>
    BY <1>6 DEF files
  <2>2. r.torn \/ \E v \in Versions : r.was = Blocks(v)
    BY <1>1, <1>4, <1>7 DEF Sound
  <2>3. r.pc = "reading" => \A k \in Keys : i = inode[k] => q.key = k
    BY <1>1, <1>2, <1>4, <1>7 DEF FilesInv, OwnInodes
  <2>4. ASSUME ~r.disturbed, r.pc = "reading"
        PROVE  /\ \A w \in Workers : put[w].inode # i
               /\ data[i] = q.was /\ Len(q.was) = q.size
    <3>1. i # 0 /\ ~BeingPut(q.key) /\ data[i] = q.was /\ Len(q.was) = q.size
      BY <1>1, <1>2, <1>4, <1>7, <2>4 DEF Sound
    <3>2. ASSUME NEW w \in Workers, put[w].inode = i
          PROVE  FALSE
      <4>1. ~Idle(w)
        BY <1>4, <3>1, <3>2, PutFacts
      <4>2. put[w].key = q.key
        BY <1>1, <1>4, <3>2, <4>1 DEF FilesInv, PutNames
      <4>3. QED
        BY <3>1, <4>2 DEF BeingPut
    <3>3. QED
      BY <3>1, <3>2
  <2>5. Len(r.got) = 0 /\ r.pc \in {"cut", "reading"}
    BY <1>2, <1>7, EmptySeq
  <2>6. QED
    BY <1>4, <1>6, <1>7, <2>1, <2>2, <2>3, <2>4, <2>5 DEF Sound, Blocks
<1>9. QED
  BY <1>5, <1>6, <1>7, <1>8, GetStep

LEMMA ReadBlockKeeps ==
  ASSUME GatewayInv, NEW c \in Clients, ReadBlock(c)
  PROVE  GatewayInv'
<1>1. PICK q : q = reader[c]
  OBVIOUS
<1>2. PICK d : d = data[q.inode]
  OBVIOUS
<1>3. PICK got : got = Append(q.got, d[Len(q.got) + 1])
  OBVIOUS
<1>4. PICK r : r = IF Len(q.got) = q.size THEN [q EXCEPT !.pc = "complete"]
                   ELSE IF Len(q.got) < Len(d) THEN [q EXCEPT !.got = got]
                        ELSE [q EXCEPT !.pc = "cut"]
  OBVIOUS
<1>5. /\ q \in Gets /\ q.pc = "reading" /\ q.key \in Keys /\ q.inode <= puts
      /\ q.inode \in Inodes /\ Sound(c) /\ GatewayTypes
      /\ Len(q.got) <= q.size /\ q.size \in Nat
  BY <1>1, GetTypes, InodesExist DEF ReadBlock, Sound, Gets
<1>6. /\ reader' = [reader EXCEPT ![c] = r] /\ reader'[c] = r
      /\ UNCHANGED <<files, put, listing, history, counters>>
  BY <1>1, <1>2, <1>3, <1>4, <1>5 DEF ReadBlock, GatewayTypes
<1>7. UNCHANGED <<inode, data, put>>
  BY <1>6 DEF files
<1>8. /\ q.got \in Seq(Marks) /\ d \in Seq(Marks) /\ Len(q.got) \in Nat /\ Len(d) \in Nat
  BY <1>2, <1>5, LenProperties DEF Gets, GatewayTypes
<1>9. /\ q.torn \/ \E v \in Versions : q.was = Blocks(v)
      /\ \A k \in Keys : q.inode = inode[k] => q.key = k
      /\ ~q.disturbed =>
           /\ \A w \in Workers : put[w].inode # q.inode
           /\ d = q.was /\ Len(q.was) = q.size
           /\ \A n \in 1..Len(q.got) : q.got[n] = q.was[n]
  BY <1>1, <1>2, <1>5 DEF Sound
<1>10. CASE Len(q.got) = q.size
  <2>1. /\ r \in Gets /\ r.pc = "complete" /\ r.inode = q.inode /\ r.was = q.was
        /\ r.size = q.size /\ r.got = q.got /\ r.torn = q.torn
        /\ r.disturbed = q.disturbed
    BY <1>4, <1>5, <1>10 DEF Gets
  <2>2. Sound(c)'
    BY <1>6, <1>7, <1>9, <1>10, <2>1 DEF Sound, Blocks
  <2>3. QED
    BY <1>5, <1>6, <2>1, <2>2, GetStep
<1>11. CASE Len(q.got) # q.size /\ Len(q.got) < Len(d)
  <2>1. d[Len(q.got) + 1] \in Marks
    BY <1>8, <1>11, ElementOfSeq
  <2>2. /\ got \in Seq(Marks) /\ Len(got) = Len(q.got) + 1
        /\ \A n \in 1..Len(q.got) : got[n] = q.got[n]
        /\ got[Len(q.got) + 1] = d[Len(q.got) + 1]
    BY <1>3, <1>8, <2>1, AppendProperties
  <2>3. Len(got) <= q.size
    BY <1>5, <1>8, <1>11, <2>2
  <2>4. /\ r \in Gets /\ r.pc = "reading" /\ r.key = q.key /\ r.inode = q.inode
        /\ r.was = q.was /\ r.size = q.size /\ r.got = got /\ r.torn = q.torn
        /\ r.disturbed = q.disturbed
    BY <1>4, <1>5, <1>11, <2>2, <2>3 DEF Gets
  <2>5. ~q.disturbed => \A n \in 1..Len(got) : got[n] = q.was[n]
    BY <1>8, <1>9, <2>2
  <2>6. Sound(c)'
    BY <1>2, <1>5, <1>6, <1>7, <1>9, <2>4, <2>5 DEF Sound, Blocks
  <2>7. QED
    BY <1>5, <1>6, <2>4, <2>6, GetStep
<1>12. CASE Len(q.got) # q.size /\ ~(Len(q.got) < Len(d))
  <2>1. r \in Gets /\ r.pc = "cut" /\ r.inode = q.inode
    BY <1>4, <1>5, <1>12 DEF Gets
  <2>2. Sound(c)'
    BY <1>6, <2>1 DEF Sound
  <2>3. QED
    BY <1>5, <1>6, <2>1, <2>2, GetStep
<1>13. QED
  BY <1>10, <1>11, <1>12

-----------------------------------------------------------------------------
(* LIST.                                                                   *)

\* Only the listing changes.
LEMMA ListStep ==
  ASSUME GatewayInv, listing' \in Lists, ListInv',
         UNCHANGED <<files, put, reader, history, counters>>
  PROVE  GatewayInv'
<1>1. /\ GatewayTypes /\ FilesInv
      /\ UNCHANGED <<inode, data, folder, put, reader, acked, unsettled, puts,
                     deletes, crashes>>
  BY DEF GatewayInv, files, history, counters
<1>2. GatewayTypes'
  BY <1>1 DEF GatewayTypes, Puts, Gets
<1>3. FilesInv'
  BY <1>1 DEF FilesInv, OwnInodes, PutNames, OneBody, Filling, Written, Awaited, Settled,
              Blocks, BeingPut, Idle
<1>4. \A c \in Clients : Sound(c)'
  BY <1>1 DEF GatewayInv, Sound, Blocks, BeingPut
<1>5. QED
  BY <1>2, <1>3, <1>4 DEF GatewayInv

\* What is due when a LIST begins is there to be found.
LEMMA DueExist ==
  ASSUME GatewayInv, NEW k \in Keys \ unsettled, acked[k] # None
  PROVE  inode[k] # 0
<1>1. GatewayTypes /\ FilesInv
  BY DEF GatewayInv
<1>2. CASE ~BeingPut(k)
  BY <1>1, <1>2 DEF FilesInv, Settled
<1>3. CASE BeingPut(k)
  <2>1. PICK w \in Workers : put[w].key = k
    BY <1>3 DEF BeingPut
  <2>2. ~Idle(w) /\ put[w].inode \in 1..puts
    BY <1>1, <2>1, PutFacts
  <2>3. put[w].inode = inode[k]
    BY <1>1, <2>1, <2>2 DEF FilesInv, PutNames
  <2>4. QED
    BY <2>2, <2>3
<1>4. QED
  BY <1>2, <1>3

LEMMA BeginListKeeps ==
  ASSUME GatewayInv, NEW delimiter \in BOOLEAN, BeginList(delimiter)
  PROVE  GatewayInv'
<1>1. PICK todo, due :
        /\ todo = {k \in Keys : IsFile(k) /\ (delimiter => k \notin Nested)}
                    \cup (IF folder THEN {Folder} ELSE {})
        /\ due = {k \in Keys \ unsettled : acked[k] # None}
  OBVIOUS
<1>2. PICK l : l = [NoList EXCEPT !.pc = "walk", !.delimiter = delimiter, !.todo = todo,
                                  !.due = due]
  OBVIOUS
<1>3. listing' = l /\ UNCHANGED <<files, put, reader, history, counters>>
  BY <1>1, <1>2 DEF BeginList
<1>4. /\ todo \subseteq Keys \cup {Folder} /\ due \subseteq Keys
  BY <1>1
<1>5. /\ l \in Lists /\ l.pc = "walk" /\ l.delimiter = delimiter /\ l.todo = todo
      /\ l.contents = {} /\ l.prefixes = {} /\ l.due = due /\ l.gone = FALSE
  BY <1>2, <1>4 DEF NoList, Lists
<1>6. ~Full'
  BY <1>3, <1>5, FS_EmptySet, GatewayAssumption DEF Full
<1>7. /\ \A k \in Nested : inode[k] # 0 => folder
      /\ UNCHANGED <<inode, folder>>
  BY <1>3 DEF GatewayInv, ListInv, files
<1>8. \A k \in due : inode[k] # 0 /\ k \in Keys
  BY <1>1, DueExist
<1>9. \A k \in due : ToFind(k)'
  <2>1. \A k \in due : k \in todo \/ (delimiter /\ k \in Nested /\ Folder \in todo)
    BY <1>1, <1>7, <1>8 DEF IsFile
  <2>2. QED
    BY <1>3, <1>5, <2>1 DEF ToFind
<1>10. ListInv'
  BY <1>3, <1>5, <1>6, <1>7, <1>8, <1>9 DEF ListInv
<1>11. QED
  BY <1>3, <1>5, <1>10, ListStep

LEMMA WalkKeeps ==
  ASSUME GatewayInv, NEW path \in Keys \cup {Folder}, Walk(path)
  PROVE  GatewayInv'
<1>1. PICK shown : shown = listing.contents \cup {k \in Keys : k = path /\ IsFile(k)}
  OBVIOUS
<1>2. PICK prefixes, todo :
        /\ prefixes = listing.prefixes \cup {p \in {path} : p = Folder /\ listing.delimiter}
        /\ todo = IF Cardinality(shown) >= MaxKeys THEN {} ELSE listing.todo \ {path}
  OBVIOUS
<1>3. /\ listing.pc = "walk" /\ path \in listing.todo /\ listing \in Lists /\ ListInv
      /\ listing' = [listing EXCEPT !.contents = shown, !.prefixes = prefixes, !.todo = todo]
      /\ UNCHANGED <<files, put, reader, history, counters>>
  BY <1>1, <1>2 DEF Walk, GatewayInv, GatewayTypes
<1>4. /\ shown \subseteq Keys /\ prefixes \subseteq {Folder}
      /\ todo \subseteq Keys \cup {Folder}
  BY <1>1, <1>2, <1>3 DEF Lists
<1>5. /\ listing' \in Lists /\ listing'.pc = "walk"
      /\ listing'.delimiter = listing.delimiter /\ listing'.todo = todo
      /\ listing'.contents = shown /\ listing'.prefixes = prefixes
      /\ listing'.due = listing.due /\ listing'.gone = listing.gone
  BY <1>3, <1>4 DEF Lists
<1>6. UNCHANGED <<inode, folder>>
  BY <1>3 DEF files
<1>7. ~Full /\ (Full' => todo = {}) /\ (~Full' => todo = listing.todo \ {path})
  BY <1>2, <1>3, <1>5 DEF ListInv, Full
<1>8. ASSUME ~Full', NEW k \in listing.due
      PROVE  Found(k)' \/ ToFind(k)'
  <2>1. inode[k] # 0 /\ k \in Keys /\ (Found(k) \/ ToFind(k))
    BY <1>3, <1>7, <1>8 DEF ListInv, Lists
  <2>2. CASE Found(k)
    BY <1>1, <1>2, <1>5, <2>2 DEF Found
  <2>3. CASE k \in listing.todo /\ k # path
    BY <1>5, <1>7, <1>8, <2>3 DEF ToFind
  <2>4. CASE k = path
    BY <1>1, <1>5, <2>1, <2>4 DEF Found, IsFile
  <2>5. CASE listing.delimiter /\ k \in Nested /\ Folder \in listing.todo
    <3>1. CASE path = Folder
      BY <1>2, <1>5, <2>5, <3>1 DEF Found
    <3>2. CASE path # Folder
      BY <1>5, <1>7, <1>8, <2>5, <3>2 DEF ToFind
    <3>3. QED
      BY <3>1, <3>2
  <2>6. QED
    BY <2>1, <2>2, <2>3, <2>4, <2>5 DEF ToFind
<1>9. ~listing.gone => \A k \in shown : inode[k] # 0
  BY <1>1, <1>3 DEF ListInv, IsFile
<1>10. /\ \A k \in Nested : inode[k] # 0 => folder
       /\ \A k \in listing.due : inode[k] # 0
  BY <1>3 DEF ListInv
<1>11. ListInv'
  BY <1>5, <1>6, <1>7, <1>8, <1>9, <1>10 DEF ListInv
<1>12. QED
  BY <1>3, <1>5, <1>11, ListStep

LEMMA EndListKeeps ==
  ASSUME GatewayInv, EndList
  PROVE  GatewayInv'
<1>1. PICK to : to = IF \A k \in listing.contents : IsFile(k) THEN "done" ELSE "failed"
  OBVIOUS
<1>2. /\ listing.pc = "walk" /\ listing.todo = {} /\ listing \in Lists /\ ListInv
      /\ listing' = [listing EXCEPT !.pc = to]
      /\ UNCHANGED <<files, put, reader, history, counters>>
  BY <1>1 DEF EndList, GatewayInv, GatewayTypes
<1>3. /\ listing' \in Lists /\ listing'.pc = to /\ to \in {"done", "failed"}
      /\ listing'.delimiter = listing.delimiter
      /\ listing'.contents = listing.contents /\ listing'.prefixes = listing.prefixes
      /\ listing'.due = listing.due /\ listing'.gone = listing.gone
  BY <1>1, <1>2 DEF Lists
<1>4. UNCHANGED <<inode, folder>>
  BY <1>2 DEF files
<1>5. Full' = Full /\ \A k : Found(k)' = Found(k)
  BY <1>3 DEF Full, Found
<1>6. ~Full => \A k \in listing.due : Found(k)
  BY <1>2 DEF ListInv, ToFind
<1>7. to = "failed" => listing.gone
  BY <1>1, <1>2 DEF ListInv, IsFile
<1>8. /\ \A k \in Nested : inode[k] # 0 => folder
      /\ \A k \in listing.due : inode[k] # 0
  BY <1>2 DEF ListInv
<1>9. ListInv'
  BY <1>3, <1>4, <1>5, <1>6, <1>7, <1>8 DEF ListInv
<1>10. QED
  BY <1>2, <1>3, <1>9, ListStep
-----------------------------------------------------------------------------
LEMMA CrashKeeps ==
  ASSUME GatewayInv, NEW w \in Workers, Crash(w)
  PROVE  GatewayInv'
<1>1. GatewayTypes /\ ListInv /\ (\A c \in Clients : Sound(c))
  BY DEF GatewayInv
<1>2. /\ put' = [put EXCEPT ![w] = NoPut]
      /\ unsettled' = unsettled \cup ({put[w].key} \cap Keys)
      /\ listing' \in {listing, NoList}
      /\ UNCHANGED <<inode, data, folder, acked, puts>>
  BY DEF Crash, files
<1>3. PICK some \in SUBSET Clients :
        reader' = [c \in Clients |->
                     IF c \in some /\ reader[c].pc \in {"stat", "headers", "reading"}
                     THEN [reader[c] EXCEPT !.pc = "cut"] ELSE reader[c]]
  BY DEF Crash
<1>4. /\ FilesInv'
      /\ put' \in [Workers -> Puts \cup {NoPut}]
      /\ \A u \in Workers : /\ put'[u].inode <= puts
                            /\ put'[u] = put[u] \/ put'[u] = NoPut
      /\ unsettled' \subseteq Keys
  BY <1>2, StopPutFiles
<1>5. ASSUME NEW c \in Clients
      PROVE  \/ reader'[c] = reader[c]
             \/ /\ reader'[c] = [reader[c] EXCEPT !.pc = "cut"]
                /\ reader'[c] \in Gets /\ reader'[c].pc = "cut"
                /\ reader'[c].inode = reader[c].inode
  BY <1>1, <1>3 DEF GatewayTypes, Gets
<1>6. GatewayTypes'
  <2>1. reader' \in [Clients -> Gets]
    <3>1. \A c \in Clients : reader'[c] \in Gets
      BY <1>1, <1>5 DEF GatewayTypes
    <3>2. QED
      BY <1>3, <3>1
  <2>2. \A c \in Clients : reader'[c].inode <= puts
    BY <1>1, <1>5 DEF GatewayTypes
  <2>3. listing' \in Lists
    <3>1. NoList \in Lists
      BY DEF NoList, Lists
    <3>2. QED
      BY <1>1, <1>2, <3>1 DEF GatewayTypes
  <2>4. Gets' = Gets /\ Lists' = Lists
    BY DEF Gets, Lists
  <2>5. QED
    BY <1>1, <1>2, <1>4, <2>1, <2>2, <2>3, <2>4 DEF GatewayTypes
<1>7. ASSUME NEW c \in Clients
      PROVE  Sound(c)'
  <2>1. CASE reader'[c] = reader[c]
    <3>1. \A k \in Keys : OldOrGone(k)
      BY <1>2 DEF OldOrGone
    <3>2. reader[c].pc = "reading" => reader[c].inode # 0
      BY <1>1 DEF GatewayTypes, Gets
    <3>3. reader[c].pc \in {"stat", "headers"} => reader[c].key \in Keys
      BY <1>1 DEF Sound
    <3>4. Undisturbed(c)
      BY <1>2, <1>4, <2>1, <3>2, <3>3, NoPutFacts, GatewayAssumption
         DEF Undisturbed, BeingPut
    <3>5. QED
      BY <1>1, <3>1, <3>4, UndisturbedSound
  <2>2. CASE reader'[c].pc = "cut"
    BY <2>2 DEF Sound
  <2>3. QED
    BY <1>5, <2>1, <2>2
<1>8. ListInv'
  <2>1. \A k \in Nested : k \in Keys
    BY GatewayAssumption
  <2>2. CASE listing' = listing
    BY <1>1, <1>2, <2>1, <2>2, ListingAlone DEF GatewayTypes
  <2>3. CASE listing' = NoList
    <3>1. listing'.pc = "idle" /\ listing'.due = {}
      BY <2>3 DEF NoList
    <3>2. QED
      BY <1>1, <1>2, <3>1 DEF ListInv
  <2>4. QED
    BY <1>2, <2>2, <2>3
<1>9. QED
  BY <1>4, <1>6, <1>7, <1>8 DEF GatewayInv

LEMMA GatewayInductive ==
  ASSUME GatewayInv, [Next]_vars
  PROVE  GatewayInv'
<1>1. CASE UNCHANGED vars
  <2>1. GatewayTypes'
    BY <1>1 DEF vars, GatewayInv, GatewayTypes, Gets, Puts, Lists
  <2>2. FilesInv'
    BY <1>1 DEF vars, GatewayInv, FilesInv, OwnInodes, PutNames, OneBody, Filling,
                Written, Awaited, Settled, Blocks, BeingPut, Idle
  <2>3. \A c \in Clients : Sound(c)'
    BY <1>1 DEF vars, GatewayInv, Sound, Blocks, BeingPut
  <2>4. ListInv'
    BY <1>1 DEF vars, GatewayInv, ListInv, Full, Found, ToFind
  <2>5. QED
    BY <2>1, <2>2, <2>3, <2>4 DEF GatewayInv
<1>2. CASE \E w \in Workers, k \in Keys, v \in Versions : BeginPut(w, k, v)
  BY <1>2, BeginPutKeeps
<1>3. CASE \E w \in Workers : WriteBlock(w) \/ EndPut(w) \/ PutFails(w) \/ Crash(w)
  BY <1>3, WriteBlockKeeps, EndPutKeeps, PutFailsKeeps, CrashKeeps
<1>4. CASE \E k \in Keys : Delete(k)
  BY <1>4, DeleteKeeps
<1>5. CASE \E c \in Clients, k \in Keys : Stat(c, k)
  BY <1>5, StatKeeps
<1>6. CASE \E c \in Clients : Headers(c) \/ OpenFile(c) \/ ReadBlock(c)
  BY <1>6, HeadersKeep, OpenFileKeeps, ReadBlockKeeps
<1>7. CASE \E delimiter \in BOOLEAN : BeginList(delimiter)
  BY <1>7, BeginListKeeps
<1>8. CASE EndList \/ \E path \in Keys \cup {Folder} : Walk(path)
  BY <1>8, WalkKeeps, EndListKeeps
<1>9. QED
  BY <1>1, <1>2, <1>3, <1>4, <1>5, <1>6, <1>7, <1>8 DEF Next

LEMMA GatewayAlways == Spec => []GatewayInv
<1>1. Init => GatewayInv
  BY InitGateway
<1>2. GatewayInv /\ [Next]_vars => GatewayInv'
  BY GatewayInductive
<1>3. QED
  BY <1>1, <1>2, PTL DEF Spec

-----------------------------------------------------------------------------
\* The gateway's variables keep their types, with however many workers.
THEOREM GatewayTypeCorrect == Spec => []TypeOK
<1>1. GatewayInv => TypeOK
  <2>1. SUFFICES ASSUME GatewayInv
                 PROVE  TypeOK
    OBVIOUS
  <2>2. GatewayTypes /\ puts \in Nat
    BY <2>1, InodesExist DEF GatewayInv
  <2>3. \A w \in Workers : ~Idle(w) =>
          /\ put[w].key \in Keys /\ put[w].version \in Versions
          /\ put[w].inode \in 1..puts /\ put[w].at \in 0..SizeOf[put[w].version]
    BY <2>2, PutFacts
  <2>4. \A c \in Clients :
          /\ reader[c].pc \in {"idle", "stat", "headers", "reading", "complete", "cut"}
          /\ Len(reader[c].got) <= reader[c].size
          /\ reader[c].inode \in 0..puts
          /\ reader[c].pc = "reading" => reader[c].inode # 0
    <3>1. \A c \in Clients : reader[c] \in Gets /\ reader[c].inode <= puts
      BY <2>2 DEF GatewayTypes
    <3>2. QED
      BY <2>2, <3>1 DEF Gets
  <2>5. /\ listing.pc \in {"idle", "walk", "done", "failed"}
        /\ listing.todo \cup listing.contents \subseteq Keys \cup {Folder}
    BY <2>2 DEF GatewayTypes, Lists
  <2>6. QED
    BY <2>2, <2>3, <2>4, <2>5 DEF TypeOK, GatewayTypes, Marks
<1>2. QED
  BY <1>1, GatewayAlways, PTL

\* An acknowledged PUT stays until the next PUT or a DELETE of its key, with the
\* size, and below the limit the ETag, it was answered, also when it was the last
\* of overlapping PUTs of one body in several workers (app.py:258, 321, 364).
THEOREM AcknowledgedPutsKept == Spec => []AckedKept
<1>1. GatewayInv => AckedKept
  <2>1. SUFFICES ASSUME GatewayInv, NEW k \in Keys \ unsettled, ~BeingPut(k)
                 PROVE  /\ acked[k] = None <=> ~IsFile(k)
                        /\ IsFile(k) =>
                             /\ Head_object(k).size = SizeOf[acked[k]]
                             /\ SizeOf[acked[k]] <= Big =>
                                  Head_object(k).etag = Etag(Blocks(acked[k]))
    BY DEF AckedKept
  <2>2. /\ acked[k] = None <=> inode[k] = 0
        /\ inode[k] # 0 => data[inode[k]] = Blocks(acked[k])
    BY <2>1 DEF GatewayInv, FilesInv, Settled
  <2>3. acked[k] # None => acked[k] \in Versions
    BY <2>1 DEF GatewayInv, GatewayTypes
  <2>4. ASSUME inode[k] # 0
        PROVE  /\ Content(k) = Blocks(acked[k])
               /\ Len(Content(k)) = SizeOf[acked[k]] /\ SizeOf[acked[k]] \in Nat
    BY <2>2, <2>3, <2>4, BlocksType DEF Content
  <2>5. QED
    BY <2>2, <2>4, GatewayAssumption DEF IsFile, Head_object, FileEtag
<1>2. QED
  BY <1>1, GatewayAlways, PTL

\* A body of the announced length that no PUT came across is the file the headers
\* describe, whatever other workers wrote meanwhile (app.py:342, 352-353).
THEOREM CompleteBodiesDescribed == Spec => []BodyIsDescribed
<1>1. GatewayInv => BodyIsDescribed
  <2>1. SUFFICES ASSUME GatewayInv, NEW c \in Clients,
                        reader[c].pc = "complete", ~reader[c].disturbed
                 PROVE  /\ reader[c].got = reader[c].was
                        /\ reader[c].torn
                              \/ \E v \in Versions : reader[c].was = Blocks(v)
    BY DEF BodyIsDescribed
  <2>2. Sound(c) /\ reader[c].got \in Seq(Marks) /\ reader[c].was \in Seq(Marks)
    BY <2>1 DEF GatewayInv, GatewayTypes, Gets
  <2>3. /\ Len(reader[c].got) = Len(reader[c].was)
        /\ \A n \in 1..Len(reader[c].got) : reader[c].got[n] = reader[c].was[n]
    BY <2>1, <2>2 DEF Sound
  <2>4. reader[c].got = reader[c].was
    BY <2>2, <2>3, SeqEqual
  <2>5. QED
    BY <2>1, <2>2, <2>4 DEF Sound
<1>2. QED
  BY <1>1, GatewayAlways, PTL

\* A LIST below max-keys shows what was acknowledged when it began and stayed,
\* and fails only if something was deleted, whatever is put and deleted while it
\* walks (app.py:422-443).
THEOREM ListingsComplete == Spec => []ListingComplete
<1>1. GatewayInv => ListingComplete
  <2>1. SUFFICES ASSUME GatewayInv
                 PROVE  ListingComplete
    OBVIOUS
  <2>2. ListInv /\ listing \in Lists
    BY <2>1 DEF GatewayInv, GatewayTypes
  <2>3. Cardinality(listing.contents) < MaxKeys => ~Full
    <3>1. IsFiniteSet(listing.contents) /\ Cardinality(listing.contents) \in Nat
      BY <2>2, FS_Subset, FS_CardinalityType, GatewayAssumption DEF Lists
    <3>2. QED
      BY <3>1, GatewayAssumption DEF Full
  <2>4. QED
    BY <2>2, <2>3 DEF ListInv, ListingComplete, Found
<1>2. QED
  BY <1>1, GatewayAlways, PTL
-----------------------------------------------------------------------------
(* The gateway is an ObjectStore.                                          *)

Broken(k) == BeingPut(k) \/ k \in unsettled

LEMMA ObjectsNow ==
  /\ DOMAIN Objects = Keys /\ DOMAIN Objects' = Keys
  /\ Objects = [k \in Keys |-> Objects[k]] /\ Objects' = [k \in Keys |-> Objects'[k]]
  /\ \A k \in Keys :
       /\ inode[k] = 0 => Objects[k] = Store!Missing
       /\ inode[k] # 0 /\ Broken(k) => Objects[k] = Store!Damaged
       /\ inode[k] # 0 /\ ~Broken(k) => Objects[k] = Store!Whole(data[inode[k]])
       /\ inode'[k] = 0 => Objects'[k] = Store!Missing
       /\ inode'[k] # 0 /\ Broken(k)' => Objects'[k] = Store!Damaged
       /\ inode'[k] # 0 /\ ~Broken(k)' => Objects'[k] = Store!Whole(data'[inode'[k]])
BY DEF Objects, ObjectOf, IsFile, Content, Broken, BeingPut, Value, Store!Missing,
       Store!Damaged, Store!Whole

\* What a step leaves of object k is the same object.
Kept(k) ==
  /\ inode'[k] = inode[k]
  /\ inode[k] # 0 => /\ Broken(k)' <=> Broken(k)
                     /\ ~Broken(k) => data'[inode[k]] = data[inode[k]]

LEMMA KeptObject ==
  ASSUME NEW k \in Keys, Kept(k)
  PROVE  Objects'[k] = Objects[k]
<1>1. CASE inode[k] = 0
  BY <1>1, ObjectsNow DEF Kept
<1>2. CASE inode[k] # 0 /\ Broken(k)
  BY <1>2, ObjectsNow DEF Kept
<1>3. CASE inode[k] # 0 /\ ~Broken(k)
  <2>1. /\ inode'[k] = inode[k] /\ ~Broken(k)' /\ data'[inode[k]] = data[inode[k]]
    BY <1>3 DEF Kept
  <2>2. Objects'[k] = Store!Whole(data'[inode'[k]]) /\ Objects[k] = Store!Whole(data[inode[k]])
    BY <1>3, <2>1, ObjectsNow
  <2>3. QED
    BY <2>1, <2>2
<1>4. QED
  BY <1>1, <1>2, <1>3

LEMMA SameObjects ==
  ASSUME \A k \in Keys : Kept(k)
  PROVE  Objects' = Objects
BY KeptObject, ObjectsNow

LEMMA OneObject ==
  ASSUME NEW k \in Keys, \A j \in Keys : j # k => Kept(j)
  PROVE  Objects' = [Objects EXCEPT ![k] = Objects'[k]]
<1>1. \A j \in Keys : j # k => Objects'[j] = Objects[j]
  BY KeptObject
<1>2. QED
  BY <1>1, ObjectsNow

\* The PUTs as the store sees them.
WriteIs(w) ==
  /\ Writes[w].key = put[w].key
  /\ Idle(w) => Writes[w] = Store!NoWrite
  /\ ~Idle(w) => /\ Writes[w] = Store!Write(put[w].key, Blocks(put[w].version),
                                            put[w].key \notin unsettled)
                 /\ Writes[w].body = Blocks(put[w].version)
                 /\ Writes[w].clean <=> put[w].key \notin unsettled
                 /\ Writes[w] # Store!NoWrite
WritesAre ==
  /\ DOMAIN Writes = Workers /\ Writes = [w \in Workers |-> Writes[w]]
  /\ \A w \in Workers : WriteIs(w)

LEMMA WritesNow == GatewayTypes => WritesAre
<1> SUFFICES ASSUME GatewayTypes
             PROVE  WritesAre
  OBVIOUS
<1>1. DOMAIN Writes = Workers /\ Writes = [w \in Workers |-> Writes[w]]
  BY DEF Writes
<1>2. ASSUME NEW w \in Workers
      PROVE  WriteIs(w)
  <2>1. Writes[w] = WriteOf(put[w])
    BY DEF Writes
  <2>2. CASE Idle(w)
    <3>1. put[w].key = None /\ None \notin unsettled
      BY <2>2, PutFacts, GatewayAssumption DEF GatewayTypes
    <3>2. PICK b : b = (put[w].key \notin unsettled)
      OBVIOUS
    <3>3. b = TRUE
      BY <3>1, <3>2
    <3>4. Writes[w] = [key |-> None, body |-> <<>>, clean |-> b]
      BY <2>1, <3>1, <3>2 DEF WriteOf
    <3>5. Writes[w] = Store!NoWrite /\ Writes[w].key = None
      BY <3>3, <3>4 DEF Store!NoWrite, Store!Write
    <3>6. QED
      BY <2>2, <3>1, <3>5 DEF WriteIs
  <2>3. CASE ~Idle(w)
    <3>1. put[w].key \in Keys /\ put[w].key # None
      BY <2>3, PutFacts, GatewayAssumption
    <3>2. PICK b : b = (put[w].key \notin unsettled)
      OBVIOUS
    <3>3. Writes[w] = [key |-> put[w].key, body |-> Blocks(put[w].version), clean |-> b]
      BY <2>1, <3>1, <3>2 DEF WriteOf
    <3>4. Writes[w] = Store!Write(put[w].key, Blocks(put[w].version), b)
      BY <3>3 DEF Store!Write
    <3>5. /\ Writes[w].key = put[w].key /\ Writes[w].body = Blocks(put[w].version)
          /\ Writes[w].clean = b /\ Writes[w] # Store!NoWrite
      BY <3>1, <3>3 DEF Store!NoWrite, Store!Write
    <3>6. QED
      BY <2>3, <3>2, <3>4, <3>5 DEF WriteIs
  <2>4. QED
    BY <2>2, <2>3
<1>3. QED
  BY <1>1, <1>2 DEF WritesAre

LEMMA WritesNext == GatewayTypes' => WritesAre'
<1>1. (GatewayTypes => WritesAre)'
  BY WritesNow, PTL
<1>2. QED
  BY <1>1

\* A PUT a step leaves alone.
LEMMA SameWrite ==
  ASSUME GatewayTypes, GatewayTypes', NEW u \in Workers, put'[u] = put[u],
         put[u].key \in Keys => (put[u].key \in unsettled' <=> put[u].key \in unsettled)
  PROVE  Writes'[u] = Writes[u]
<1>1. WriteIs(u) /\ WriteIs(u)'
  BY WritesNow, WritesNext DEF WritesAre
<1>2. Idle(u)' <=> Idle(u)
  BY DEF Idle
<1>3. CASE Idle(u)
  BY <1>1, <1>2, <1>3 DEF WriteIs, Store!NoWrite, Store!Write
<1>4. CASE ~Idle(u)
  <2>1. put[u].key \in Keys
    BY <1>4, PutFacts
  <2>2. PICK a, b : a = (put[u].key \notin unsettled) /\ b = (put[u].key \notin unsettled')
    OBVIOUS
  <2>3. a = b
    BY <2>1, <2>2
  <2>4. /\ Writes[u] = Store!Write(put[u].key, Blocks(put[u].version), a)
        /\ Writes'[u] = Store!Write(put[u].key, Blocks(put[u].version), b)
    BY <1>1, <1>2, <1>4, <2>2 DEF WriteIs, Blocks, Store!Write
  <2>5. QED
    BY <2>3, <2>4
<1>5. QED
  BY <1>3, <1>4

\* One that is mixed up.
LEMMA MixedWrite ==
  ASSUME GatewayTypes, GatewayTypes', NEW u \in Workers, put'[u] = put[u],
         put[u].key \in Keys, put[u].key \in unsettled'
  PROVE  Writes'[u] = Store!Mix(Writes[u])
<1>1. WriteIs(u) /\ WriteIs(u)' /\ ~Idle(u) /\ ~Idle(u)'
  BY WritesNow, WritesNext, PutFacts DEF WritesAre, Idle
<1>2. PICK b : b = (put[u].key \notin unsettled')
  OBVIOUS
<1>3. b = FALSE
  BY <1>2
<1>4. Writes'[u] = Store!Write(put[u].key, Blocks(put[u].version), b)
  BY <1>1, <1>2 DEF WriteIs, Blocks, Store!Write
<1>5. Writes[u].key = put[u].key /\ Writes[u].body = Blocks(put[u].version)
  BY <1>1 DEF WriteIs
<1>6. QED
  BY <1>3, <1>4, <1>5 DEF Store!Mix, Store!Write

LEMMA WritersNow ==
  ASSUME GatewayTypes
  PROVE  /\ \A k : Store!Writers(k) = {w \in Workers : put[w].key = k}
         /\ \A k : Store!Writers(k) # {} <=> BeingPut(k)
<1>1. \A w \in Workers : Writes[w].key = put[w].key
  BY WritesNow DEF WritesAre, WriteIs
<1>2. QED
  BY <1>1 DEF Store!Writers, BeingPut

LEMMA GetsNow ==
  /\ GetsSeen = [c \in Clients |-> GetOf(reader[c])]
  /\ GetsSeen' = [c \in Clients |-> GetOf(reader'[c])]
BY DEF GetsSeen, GetOf, Promised, Received, Value

LEMMA SameGets ==
  ASSUME \A c \in Clients : reader'[c] = reader[c]
  PROVE  GetsSeen' = GetsSeen
BY GetsNow

LEMMA OneGet ==
  ASSUME NEW c \in Clients, NEW r, reader \in [Clients -> Gets],
         reader' = [reader EXCEPT ![c] = r]
  PROVE  GetsSeen' = [GetsSeen EXCEPT ![c] = GetOf(r)] /\ GetsSeen[c] = GetOf(reader[c])
<1>1. \A b \in Clients : reader'[b] = IF b = c THEN r ELSE reader[b]
  OBVIOUS
<1>2. QED
  BY <1>1, GetsNow

\* A step that changes no object and no PUT.
LEMMA OnlyGets ==
  ASSUME GatewayTypes, GatewayTypes', UNCHANGED <<inode, data, put, unsettled>>
  PROVE  Objects' = Objects /\ Writes' = Writes
<1>1. \A k \in Keys : Kept(k)
  BY DEF Kept, Broken, BeingPut
<1>2. \A w \in Workers : Writes'[w] = Writes[w]
  BY SameWrite
<1>3. Writes' = Writes
  BY <1>2, WritesNow, WritesNext DEF WritesAre
<1>4. QED
  BY <1>1, <1>3, SameObjects

LEMMA InitStore ==
  ASSUME Init
  PROVE  Store!Init
<1>1. Objects = [k \in Keys |-> Store!Missing]
  BY ObjectsNow DEF Init
<1>2. Writes = [w \in Workers |-> Store!NoWrite]
  <2>1. GatewayTypes /\ \A w \in Workers : Idle(w)
    BY InitGateway DEF GatewayInv, Init, Idle
  <2>2. QED
    BY <2>1, WritesNow DEF WritesAre, WriteIs
<1>3. GetsSeen = [c \in Clients |-> Store!IdleGet]
  BY DEF Init, GetsSeen, GetOf, Promised, Received, Value, NoGet, Store!IdleGet,
         Store!Get, Store!Missing
<1>4. QED
  BY <1>1, <1>2, <1>3 DEF Store!Init
LEMMA BlocksApart ==
  ASSUME NEW u \in Versions, NEW v \in Versions, Blocks(u) = Blocks(v)
  PROVE  u = v
<1>1. 1 \in 1..SizeOf[u] /\ 1 \in 1..SizeOf[v]
  BY BlocksType
<1>2. Blocks(u)[1] = u /\ Blocks(v)[1] = v
  BY <1>1 DEF Blocks
<1>3. QED
  BY <1>2

\* A GET that a PUT reaches.
LEMMA SpoiltGet ==
  ASSUME NEW q \in Gets, q.pc \in {"stat", "headers", "reading"},
         NEW r, r = [q EXCEPT !.disturbed = TRUE]
  PROVE  GetOf(r) = Store!Spoil(GetOf(q))
<1>1. /\ r.pc = q.pc /\ r.key = q.key /\ r.was = q.was /\ r.torn = q.torn
      /\ r.disturbed = TRUE
  BY DEF Gets
<1>2. Promised(r) = Promised(q) /\ Received(r) = Received(q)
  BY <1>1 DEF Promised, Received, Value
<1>3. PICK to : to = GetOf(q).pc
  OBVIOUS
<1>4. /\ GetOf(q) = Store!Get(to, q.key, Promised(q), Received(q), q.disturbed)
      /\ GetOf(r) = Store!Get(to, q.key, Promised(q), Received(q), TRUE)
  BY <1>1, <1>2, <1>3 DEF GetOf, Store!Get
<1>5. QED
  BY <1>4 DEF Store!Spoil, Store!Get

LEMMA StartPutStep ==
  ASSUME GatewayInv, NEW w \in Workers, NEW k \in Keys, NEW v \in Versions,
         BeginPut(w, k, v)
  PROVE  Store!StartPut(w, k, Blocks(v))
<1>1. PICK i : i = IF IsFile(k) THEN inode[k] ELSE puts + 1
  OBVIOUS
<1>2. PICK p : p = [key |-> k, version |-> v, inode |-> i, at |-> 0]
  OBVIOUS
<1>3. /\ GatewayTypes /\ GatewayTypes' /\ FilesInv /\ (\A c \in Clients : Sound(c))
      /\ puts \in Nat /\ inode \in [Keys -> 0..puts] /\ put \in [Workers -> Puts \cup {NoPut}]
      /\ data \in [Inodes -> Seq(Marks)]
  BY BeginPutKeeps, InodesExist DEF GatewayInv, GatewayTypes
<1>4. /\ Idle(w) /\ inode' = [inode EXCEPT ![k] = i] /\ data' = [data EXCEPT ![i] = <<>>]
      /\ put' = [put EXCEPT ![w] = p] /\ p.key = k /\ p.version = v
      /\ reader' = Disturb(k, i) /\ unsettled' = UnsettledBy(k, v)
  BY <1>1, <1>2 DEF BeginPut
<1>5. i \in Nat /\ i # 0 /\ (i = inode[k] \/ i = puts + 1)
  BY <1>1, <1>3 DEF IsFile
<1>6. put'[w] = p /\ \A u \in Workers : u # w => put'[u] = put[u]
  BY <1>3, <1>4
<1>7. \A j \in Keys : j # k => (j \in unsettled' <=> j \in unsettled)
  BY <1>4 DEF UnsettledBy
<1>8. ASSUME NEW j \in Keys, j # k
      PROVE  Kept(j)
  <2>1. inode'[j] = inode[j]
    BY <1>3, <1>4, <1>8
  <2>2. inode[j] # 0 => inode[j] # i
    <3>1. inode[j] <= puts /\ inode[j] \in Nat
      BY <1>3
    <3>2. inode[j] # puts + 1
      BY <1>3, <3>1
    <3>3. QED
      BY <1>3, <1>5, <1>8, <3>2 DEF FilesInv, OwnInodes
  <2>3. inode[j] # 0 => data'[inode[j]] = data[inode[j]]
    BY <1>3, <1>4, <2>2, InodesExist
  <2>4. BeingPut(j)' <=> BeingPut(j)
    <3>1. put[w].key # j
      BY <1>3, <1>4, PutFacts, GatewayAssumption
    <3>2. QED
      BY <1>4, <1>6, <1>8, <3>1 DEF BeingPut
  <2>5. QED
    BY <1>7, <1>8, <2>1, <2>3, <2>4 DEF Kept, Broken
<1>9. Objects' = [Objects EXCEPT ![k] = Store!Damaged]
  <2>1. inode'[k] # 0 /\ Broken(k)'
    BY <1>3, <1>4, <1>5, <1>6 DEF Broken, BeingPut
  <2>2. Objects'[k] = Store!Damaged
    BY <2>1, ObjectsNow
  <2>3. QED
    BY <1>8, <2>2, OneObject
<1>10. PICK some : some = {c \in Clients :
                             \/ reader[c].pc \in {"stat", "headers"} /\ reader[c].key = k
                             \/ reader[c].pc = "reading" /\ reader[c].inode = i}
  OBVIOUS
<1>11. \A c \in Clients :
         reader'[c] = IF c \in some THEN [reader[c] EXCEPT !.disturbed = TRUE]
                      ELSE reader[c]
  BY <1>4, <1>10 DEF Disturb
<1>12. \A c \in some : /\ reader[c].key = k /\ reader[c].pc \in {"stat", "headers", "reading"}
                       /\ reader[c] \in Gets
  <2>1. ASSUME NEW c \in some, reader[c].pc = "reading"
        PROVE  reader[c].key = k
    <3>1. reader[c].inode = i /\ reader[c].inode <= puts /\ Sound(c)
      BY <1>3, <1>10, <2>1 DEF GatewayTypes
    <3>2. i = inode[k]
      BY <1>3, <1>5, <3>1
    <3>3. QED
      BY <2>1, <3>1, <3>2 DEF Sound
  <2>2. QED
    BY <1>3, <1>10, <2>1 DEF GatewayTypes
<1>13. \A c \in Clients :
         GetsSeen'[c] = IF c \in some THEN Store!Spoil(GetsSeen[c]) ELSE GetsSeen[c]
  <2>1. \A c \in some : GetOf(reader'[c]) = Store!Spoil(GetOf(reader[c]))
    BY <1>10, <1>11, <1>12, SpoiltGet
  <2>2. QED
    BY <1>11, <2>1, GetsNow
<1>14. /\ GetsSeen' = [c \in Clients |-> IF c \in some THEN Store!Spoil(GetsSeen[c])
                                         ELSE GetsSeen[c]]
       /\ some \in SUBSET {c \in Clients : GetsSeen[c].key = k}
  <2>1. \A c \in some : GetsSeen[c].key = k
    BY <1>10, <1>12, GetsNow DEF GetOf
  <2>2. QED
    BY <1>10, <1>13, <2>1, GetsNow
<1>15. PICK W : W = Store!Writers(k)
  OBVIOUS
<1>16. W = {u \in Workers : put[u].key = k} /\ w \notin W
  BY <1>3, <1>4, <1>15, WritersNow, PutFacts, GatewayAssumption
<1>17. PICK clean : clean = \A u \in W : Writes[u].clean /\ Writes[u].body = Blocks(v)
  OBVIOUS
<1>18. \A u \in W : /\ WriteIs(u) /\ ~Idle(u) /\ put[u].version \in Versions
                    /\ (Writes[u].clean <=> k \notin unsettled)
                    /\ (Writes[u].body = Blocks(v) <=> put[u].version = v)
  BY <1>3, <1>16, WritesNow, PutFacts, BlocksApart DEF WritesAre, WriteIs
<1>19. clean <=> k \notin unsettled'
  <2>1. BeingPut(k) <=> W # {}
    BY <1>16 DEF BeingPut
  <2>2. CASE W = {}
    BY <1>4, <1>17, <2>1, <2>2 DEF UnsettledBy
  <2>3. CASE W # {}
    <3>1. clean <=> k \notin unsettled /\ \A u \in W : put[u].version = v
      BY <1>17, <1>18, <2>3
    <3>2. k \in unsettled' <=>
            \/ k \in unsettled
            \/ \E u \in Workers : put[u].key = k /\ put[u].version # v
      BY <1>4, <2>1, <2>3 DEF UnsettledBy
    <3>3. QED
      BY <1>16, <3>1, <3>2
  <2>4. QED
    BY <2>2, <2>3
<1>20. Writes'[w] = Store!Write(k, Blocks(v), clean)
  <2>1. PICK b : b = (k \notin unsettled')
    OBVIOUS
  <2>2. clean = b
    BY <1>17, <1>19, <2>1
  <2>3. WriteIs(w)' /\ ~Idle(w)'
    BY <1>3, <1>4, <1>6, WritesNext, PutFacts, NoPutFacts, GatewayAssumption
       DEF WritesAre, Idle
  <2>4. Writes'[w] = Store!Write(k, Blocks(v), b)
    <3>1. PICK q, c : q = put'[w] /\ c = (put'[w].key \notin unsettled')
      OBVIOUS
    <3>2. Writes'[w] = Store!Write(q.key, Blocks(q.version), c)
      BY <2>3, <3>1 DEF WriteIs, Blocks, Store!Write
    <3>3. q.key = k /\ q.version = v
      BY <1>4, <1>6, <3>1
    <3>4. c = b
      BY <2>1, <3>1, <3>3
    <3>5. QED
      BY <3>2, <3>3, <3>4
  <2>5. QED
    BY <2>2, <2>4
<1>21. ASSUME NEW u \in Workers, u # w
       PROVE  Writes'[u] = IF u \in W /\ ~clean THEN Store!Mix(Writes[u]) ELSE Writes[u]
  <2>1. CASE u \in W /\ ~clean
    BY <1>3, <1>6, <1>16, <1>19, <1>21, <2>1, MixedWrite
  <2>2. CASE u \in W /\ clean
    <3>1. k \notin unsettled /\ k \notin unsettled' /\ put[u].key = k
      BY <1>16, <1>17, <1>18, <1>19, <2>2
    <3>2. QED
      BY <1>3, <1>6, <1>21, <2>2, <3>1, SameWrite
  <2>3. CASE u \notin W
    <3>1. put[u].key # k
      BY <1>16, <2>3
    <3>2. QED
      BY <1>3, <1>6, <1>7, <1>21, <2>3, <3>1, SameWrite
  <2>4. QED
    BY <2>1, <2>2, <2>3
<1>22. Writes' = [u \in Workers |->
                    IF u = w THEN Store!Write(k, Blocks(v), clean)
                    ELSE IF u \in W /\ ~clean THEN Store!Mix(Writes[u]) ELSE Writes[u]]
  BY <1>3, <1>20, <1>21, WritesNext DEF WritesAre
<1>23. Writes[w] = Store!NoWrite
  BY <1>3, <1>4, WritesNow DEF WritesAre, WriteIs
<1>24. QED
  BY <1>9, <1>14, <1>15, <1>17, <1>22, <1>23 DEF Store!StartPut
LEMMA WriteStep ==
  ASSUME GatewayInv, NEW w \in Workers, WriteBlock(w)
  PROVE  UNCHANGED Store!storeVars
<1>1. PICK i, d : i = put[w].inode /\ d = WriteAt(data[i], put[w].at + 1, put[w].version)
  OBVIOUS
<1>2. PICK p : p = [put[w] EXCEPT !.at = put[w].at + 1]
  OBVIOUS
<1>3. /\ GatewayTypes /\ GatewayTypes' /\ FilesInv /\ ~Idle(w) /\ put[w].key \in Keys
      /\ data' = [data EXCEPT ![i] = d] /\ put' = [put EXCEPT ![w] = p]
      /\ put \in [Workers -> Puts \cup {NoPut}] /\ data \in [Inodes -> Seq(Marks)]
      /\ put[w] \in Puts /\ UNCHANGED <<inode, reader, unsettled>>
  BY <1>1, <1>2, WriteBlockKeeps, PutFacts
     DEF WriteBlock, GatewayInv, GatewayTypes, files, history
<1>4. /\ p.key = put[w].key /\ p.version = put[w].version
      /\ put'[w] = p /\ \A u \in Workers : u # w => put'[u] = put[u]
  BY <1>2, <1>3 DEF Puts
<1>5. ASSUME NEW k \in Keys
      PROVE  Kept(k)
  <2>1. BeingPut(k)' <=> BeingPut(k)
    BY <1>4 DEF BeingPut
  <2>2. inode[k] # 0 /\ ~Broken(k) => inode[k] # i
    BY <1>1, <1>3 DEF FilesInv, PutNames, Broken, BeingPut
  <2>3. inode[k] # 0 /\ ~Broken(k) => data'[inode[k]] = data[inode[k]]
    BY <1>3, <2>2, InodesExist DEF GatewayTypes
  <2>4. QED
    BY <1>3, <2>1, <2>3 DEF Kept, Broken
<1>6. Writes'[w] = Writes[w]
  <2>1. WriteIs(w) /\ WriteIs(w)' /\ ~Idle(w)'
    <3>1. p # NoPut
      BY <1>3, <1>4, NoPutFacts, GatewayAssumption
    <3>2. QED
      BY <1>3, <1>4, <3>1, WritesNow, WritesNext DEF WritesAre, Idle
  <2>2. PICK q, b : q = put'[w] /\ b = (put[w].key \notin unsettled)
    OBVIOUS
  <2>3. PICK c : c = (put'[w].key \notin unsettled')
    OBVIOUS
  <2>4. Writes'[w] = Store!Write(q.key, Blocks(q.version), c)
    BY <2>1, <2>2, <2>3 DEF WriteIs, Blocks, Store!Write
  <2>5. Writes[w] = Store!Write(put[w].key, Blocks(put[w].version), b)
    BY <1>3, <2>1, <2>2 DEF WriteIs
  <2>6. q.key = put[w].key /\ q.version = put[w].version
    BY <1>4, <2>2
  <2>7. c = b
    BY <1>3, <2>2, <2>3, <2>6
  <2>8. QED
    BY <2>4, <2>5, <2>6, <2>7
<1>7. Writes' = Writes
  <2>1. \A u \in Workers : Writes'[u] = Writes[u]
    BY <1>3, <1>4, <1>6, SameWrite
  <2>2. QED
    BY <1>3, <2>1, WritesNow, WritesNext DEF WritesAre
<1>8. QED
  BY <1>3, <1>5, <1>7, SameObjects, SameGets DEF Store!storeVars

LEMMA FinishPutStep ==
  ASSUME GatewayInv, NEW w \in Workers, EndPut(w)
  PROVE  Store!FinishPut(w)
<1>1. PICK k, v : k = put[w].key /\ v = put[w].version
  OBVIOUS
<1>2. /\ GatewayTypes /\ GatewayTypes' /\ FilesInv /\ ~Idle(w) /\ k \in Keys /\ v \in Versions
      /\ put[w].at = SizeOf[v] /\ SizeOf[v] \in Nat
      /\ put' = [put EXCEPT ![w] = NoPut] /\ put \in [Workers -> Puts \cup {NoPut}]
      /\ put[w].inode \in Inodes /\ put[w].inode # 0 /\ data \in [Inodes -> Seq(Marks)]
      /\ UNCHANGED <<inode, data, reader, unsettled>>
  <2>1. /\ GatewayTypes /\ FilesInv /\ GatewayTypes' /\ ~Idle(w)
        /\ put[w].at = SizeOf[put[w].version] /\ put' = [put EXCEPT ![w] = NoPut]
        /\ UNCHANGED <<inode, data, reader, unsettled>>
    BY EndPutKeeps DEF EndPut, GatewayInv, files
  <2>2. put \in [Workers -> Puts \cup {NoPut}] /\ data \in [Inodes -> Seq(Marks)]
    BY <2>1 DEF GatewayTypes
  <2>3. /\ put[w].key \in Keys /\ put[w].version \in Versions
        /\ put[w].inode \in Inodes /\ put[w].inode \in 1..puts
        /\ SizeOf[put[w].version] \in Nat
    BY <2>1, PutFacts
  <2>4. QED
    BY <1>1, <2>1, <2>2, <2>3
<1>3. /\ put'[w] = NoPut /\ \A u \in Workers : u # w => put'[u] = put[u]
  BY <1>2
<1>4. \A j \in Keys : j # k => (BeingPut(j)' <=> BeingPut(j))
  BY <1>1, <1>3, NoPutFacts, GatewayAssumption DEF BeingPut
<1>5. \A j \in Keys : j # k => Kept(j)
  BY <1>2, <1>4 DEF Kept, Broken
<1>6. Writes' = [Writes EXCEPT ![w] = Store!NoWrite]
  <2>1. Writes'[w] = Store!NoWrite
    BY <1>2, <1>3, WritesNext DEF WritesAre, WriteIs, Idle
  <2>2. \A u \in Workers : u # w => Writes'[u] = Writes[u]
    BY <1>2, <1>3, SameWrite
  <2>3. QED
    BY <1>2, <2>1, <2>2, WritesNow, WritesNext DEF WritesAre
<1>7. /\ WriteIs(w) /\ Writes[w].key = k /\ Writes[w].body = Blocks(v)
      /\ (Writes[w].clean <=> k \notin unsettled) /\ Writes[w] # Store!NoWrite
      /\ Store!Writers(k) = {u \in Workers : put[u].key = k}
  BY <1>1, <1>2, WritesNow, WritersNow DEF WritesAre, WriteIs
<1>8. CASE Writes[w].clean /\ Store!Writers(k) = {w}
  <2>1. k \notin unsettled /\ put[w].inode = inode[k]
    BY <1>1, <1>2, <1>7, <1>8 DEF FilesInv, PutNames
  <2>2. \A u \in Workers : put[u].key = k => u = w
    BY <1>7, <1>8
  <2>3. data[inode[k]] = Blocks(v)
    <3>1. PICK d : d = data[inode[k]]
      OBVIOUS
    <3>2. /\ d \in Seq(Marks) /\ Len(d) \in Nat /\ Len(d) <= SizeOf[v]
          /\ \A n \in 1..SizeOf[v] : Written(w, n) \/ Awaited(w, n)
      BY <1>1, <1>2, <2>1, <3>1, LenProperties DEF FilesInv, Filling
    <3>3. \A n \in 1..SizeOf[v] : ~Awaited(w, n)
      BY <1>1, <1>2, <2>2 DEF Awaited
    <3>4. \A n \in 1..SizeOf[v] : n <= Len(d) /\ d[n] = v
      BY <1>1, <2>1, <3>1, <3>2, <3>3 DEF Written
    <3>5. SizeOf[v] <= Len(d)
      BY <1>2, <3>4, BlocksType
    <3>6. /\ Blocks(v) \in Seq(Marks) /\ Len(Blocks(v)) = SizeOf[v]
          /\ \A n \in 1..SizeOf[v] : Blocks(v)[n] = v
      BY <1>2, BlocksType DEF Blocks
    <3>7. Len(d) = SizeOf[v]
      BY <1>2, <3>2, <3>5
    <3>8. QED
      BY <3>1, <3>2, <3>4, <3>6, <3>7, SeqEqual
  <2>4. ~Broken(k)' /\ inode'[k] # 0
    BY <1>2, <1>3, <2>1, <2>2, NoPutFacts, GatewayAssumption DEF Broken, BeingPut
  <2>5. Objects'[k] = Store!Whole(Blocks(v))
    BY <1>2, <2>3, <2>4, ObjectsNow
  <2>6. Objects' = [Objects EXCEPT ![k] = Store!Whole(Blocks(v))]
    BY <1>2, <1>5, <2>5, OneObject
  <2>7. QED
    BY <1>2, <1>6, <1>7, <1>8, <2>6, SameGets DEF Store!FinishPut
<1>9. CASE ~(Writes[w].clean /\ Store!Writers(k) = {w})
  <2>1. Broken(k)
    BY <1>1, <1>2 DEF Broken, BeingPut
  <2>2. Broken(k)'
    <3>1. CASE k \in unsettled
      BY <1>2, <3>1 DEF Broken
    <3>2. CASE k \notin unsettled
      <4>1. PICK u \in Workers : put[u].key = k /\ u # w
        BY <1>1, <1>7, <1>9, <3>2
      <4>2. QED
        BY <1>3, <4>1 DEF Broken, BeingPut
    <3>3. QED
      BY <3>1, <3>2
  <2>3. Kept(k)
    BY <1>2, <2>1, <2>2 DEF Kept
  <2>4. Objects' = Objects
    BY <1>5, <2>3, SameObjects
  <2>5. QED
    BY <1>2, <1>6, <1>7, <1>9, <2>4, SameGets DEF Store!FinishPut
<1>10. QED
  BY <1>8, <1>9
\* The PUTs of key k are mixed up, and w's ends if w is one of them.
LEMMA MixedWrites ==
  ASSUME GatewayTypes, GatewayTypes', NEW k \in Keys,
         \A u \in Workers : put[u].key = k => k \in unsettled',
         \A j \in Keys : j # k => (j \in unsettled' <=> j \in unsettled),
         NEW u \in Workers, put'[u] = put[u]
  PROVE  Writes'[u] = IF u \in Store!Writers(k) THEN Store!Mix(Writes[u]) ELSE Writes[u]
<1>1. u \in Store!Writers(k) <=> put[u].key = k
  BY WritersNow
<1>2. CASE put[u].key = k
  BY <1>1, <1>2, MixedWrite
<1>3. CASE put[u].key # k
  BY <1>1, <1>3, SameWrite
<1>4. QED
  BY <1>2, <1>3

\* The PUT of worker w ends without an acknowledgement.
LEMMA StoppedWrites ==
  ASSUME GatewayTypes, GatewayTypes', NEW w \in Workers, ~Idle(w),
         put' = [put EXCEPT ![w] = NoPut],
         unsettled' = unsettled \cup ({put[w].key} \cap Keys),
         UNCHANGED <<inode, data>>
  PROVE  /\ Writes[w] # Store!NoWrite /\ Objects' = Objects
         /\ Writes' = [Store!MixAll(Writes[w].key) EXCEPT ![w] = Store!NoWrite]
<1>1. PICK k : k = put[w].key
  OBVIOUS
<1>2. k \in Keys /\ unsettled' = unsettled \cup {k}
  BY <1>1, PutFacts
<1>3. /\ put \in [Workers -> Puts \cup {NoPut}]
      /\ put'[w] = NoPut /\ \A u \in Workers : u # w => put'[u] = put[u]
  BY DEF GatewayTypes
<1>4. WriteIs(w) /\ Writes[w].key = k /\ Writes[w] # Store!NoWrite
  BY <1>1, WritesNow DEF WritesAre, WriteIs
<1>5. Writes'[w] = Store!NoWrite
  BY <1>3, WritesNext DEF WritesAre, WriteIs, Idle
<1>6. \A u \in Workers : u # w =>
        Writes'[u] = IF u \in Store!Writers(k) THEN Store!Mix(Writes[u]) ELSE Writes[u]
  BY <1>2, <1>3, MixedWrites
<1>7. Writes' = [Store!MixAll(k) EXCEPT ![w] = Store!NoWrite]
  <2>1. Store!MixAll(k) = [u \in Workers |-> IF u \in Store!Writers(k)
                                             THEN Store!Mix(Writes[u]) ELSE Writes[u]]
    BY DEF Store!MixAll
  <2>2. DOMAIN Writes' = Workers /\ Writes' = [u \in Workers |-> Writes'[u]]
    BY WritesNext DEF WritesAre
  <2>3. QED
    BY <1>5, <1>6, <2>1, <2>2
<1>8. ASSUME NEW j \in Keys
      PROVE  Kept(j)
  <2>1. CASE j = k
    BY <1>1, <1>2, <2>1 DEF Kept, Broken, BeingPut
  <2>2. CASE j # k
    <3>1. BeingPut(j)' <=> BeingPut(j)
      BY <1>1, <1>3, <2>2, NoPutFacts, GatewayAssumption DEF BeingPut
    <3>2. QED
      BY <1>2, <2>2, <3>1 DEF Kept, Broken
  <2>3. QED
    BY <2>1, <2>2
<1>9. QED
  BY <1>4, <1>7, <1>8, SameObjects

LEMMA BreakPutStep ==
  ASSUME GatewayInv, NEW w \in Workers, PutFails(w)
  PROVE  Store!BreakPut(w)
<1>1. /\ GatewayTypes /\ GatewayTypes' /\ ~Idle(w)
      /\ put' = [put EXCEPT ![w] = NoPut]
      /\ unsettled' = unsettled \cup {put[w].key}
      /\ UNCHANGED <<inode, data, reader>>
  BY PutFailsKeeps DEF PutFails, GatewayInv, files
<1>2. unsettled' = unsettled \cup ({put[w].key} \cap Keys)
  BY <1>1, PutFacts
<1>3. /\ Writes[w] # Store!NoWrite /\ Objects' = Objects
      /\ Writes' = [Store!MixAll(Writes[w].key) EXCEPT ![w] = Store!NoWrite]
  BY <1>1, <1>2, StoppedWrites
<1>4. PICK some \in SUBSET Clients : some = {}
  OBVIOUS
<1>5. GetsSeen' = [c \in Clients |-> IF c \in some THEN Store!Cut(GetsSeen[c])
                                     ELSE GetsSeen[c]]
  BY <1>1, <1>4, GetsNow
<1>6. QED
  BY <1>3, <1>5 DEF Store!BreakPut

LEMMA DeleteStep ==
  ASSUME GatewayInv, NEW k \in Keys, Delete(k)
  PROVE  Store!Delete(k)
<1>1. /\ GatewayTypes /\ GatewayTypes' /\ inode \in [Keys -> 0..puts]
      /\ inode' = [inode EXCEPT ![k] = 0]
      /\ unsettled' = (IF BeingPut(k) THEN unsettled \cup {k} ELSE unsettled \ {k})
      /\ UNCHANGED <<data, put, reader>>
  BY DeleteKeeps DEF Delete, GatewayInv, GatewayTypes
<1>2. \A j \in Keys : j # k => (j \in unsettled' <=> j \in unsettled)
  BY <1>1
<1>3. \A u \in Workers : put[u].key = k => k \in unsettled'
  BY <1>1 DEF BeingPut
<1>4. \A j \in Keys : j # k => Kept(j)
  BY <1>1, <1>2 DEF Kept, Broken, BeingPut
<1>5. Objects' = [Objects EXCEPT ![k] = Store!Missing]
  <2>1. Objects'[k] = Store!Missing
    BY <1>1, ObjectsNow
  <2>2. QED
    BY <1>4, <2>1, OneObject
<1>6. Writes' = Store!MixAll(k)
  <2>1. \A u \in Workers :
          Writes'[u] = IF u \in Store!Writers(k) THEN Store!Mix(Writes[u]) ELSE Writes[u]
    BY <1>1, <1>2, <1>3, MixedWrites
  <2>2. QED
    BY <1>1, <2>1, WritesNext DEF Store!MixAll, WritesAre
<1>7. QED
  BY <1>1, <1>5, <1>6, SameGets DEF Store!Delete
-----------------------------------------------------------------------------
\* A GET that is cut off.
LEMMA CutFacts ==
  ASSUME NEW q \in Gets, q.pc \in {"stat", "headers", "reading"},
         NEW r, r.pc = "cut", r.key = q.key, r.disturbed = q.disturbed
  PROVE  GetOf(r) = Store!Cut(GetOf(q))
<1>1. PICK to : to = GetOf(q).pc
  OBVIOUS
<1>2. to \in {"asked", "open"}
  BY <1>1 DEF GetOf
<1>3. GetOf(q) = Store!Get(to, q.key, Promised(q), Received(q), q.disturbed)
  BY <1>1 DEF GetOf, Store!Get
<1>4. Promised(r) = Store!Missing /\ Received(r) = Store!Missing
  BY DEF Promised, Received, Value, Store!Missing
<1>5. GetOf(r) = Store!Get("cut", q.key, Store!Missing, Store!Missing, q.disturbed)
  BY <1>4 DEF GetOf, Store!Get
<1>6. QED
  BY <1>2, <1>3, <1>5 DEF Store!Cut, Store!Get

\* One that goes on reading.
LEMMA ReadingOn ==
  ASSUME NEW q \in Gets, q.pc \in {"headers", "reading"},
         NEW r, r.pc = "reading", r.key = q.key, r.was = q.was, r.torn = q.torn,
         r.disturbed = q.disturbed
  PROVE  GetOf(r) = GetOf(q)
<1>1. Promised(r) = Promised(q) /\ Received(r) = Received(q)
  BY DEF Promised, Received, Value
<1>2. QED
  BY <1>1 DEF GetOf

LEMMA CrashStep ==
  ASSUME GatewayInv, NEW w \in Workers, Crash(w)
  PROVE  Store!BreakPut(w)
<1>1. /\ GatewayTypes /\ GatewayTypes' /\ put' = [put EXCEPT ![w] = NoPut]
      /\ unsettled' = unsettled \cup ({put[w].key} \cap Keys)
      /\ UNCHANGED <<inode, data>>
  BY CrashKeeps DEF Crash, GatewayInv, files
<1>2. PICK some \in SUBSET Clients :
        reader' = [c \in Clients |->
                     IF c \in some /\ reader[c].pc \in {"stat", "headers", "reading"}
                     THEN [reader[c] EXCEPT !.pc = "cut"] ELSE reader[c]]
  BY DEF Crash
<1>3. ASSUME NEW c \in Clients
      PROVE  GetsSeen'[c] = IF c \in some THEN Store!Cut(GetsSeen[c]) ELSE GetsSeen[c]
  <2>1. PICK q \in Gets : q = reader[c]
    BY <1>1 DEF GatewayTypes
  <2>2. CASE c \in some /\ q.pc \in {"stat", "headers", "reading"}
    <3>1. PICK r : r = [q EXCEPT !.pc = "cut"]
      OBVIOUS
    <3>2. r.pc = "cut" /\ r.key = q.key /\ r.disturbed = q.disturbed
      BY <3>1 DEF Gets
    <3>3. reader'[c] = r
      BY <1>2, <2>1, <2>2, <3>1
    <3>4. QED
      BY <2>1, <2>2, <3>2, <3>3, CutFacts, GetsNow
  <2>3. CASE ~(c \in some /\ q.pc \in {"stat", "headers", "reading"})
    <3>1. reader'[c] = q
      BY <1>2, <2>1, <2>3
    <3>2. q.pc \notin {"stat", "headers", "reading"} => GetOf(q).pc \notin {"asked", "open"}
      BY DEF GetOf, Gets
    <3>3. q.pc \notin {"stat", "headers", "reading"} => Store!Cut(GetOf(q)) = GetOf(q)
      BY <3>2 DEF Store!Cut
    <3>4. QED
      BY <2>1, <2>3, <3>1, <3>3, GetsNow
  <2>4. QED
    BY <2>2, <2>3
<1>4. GetsSeen' = [c \in Clients |-> IF c \in some THEN Store!Cut(GetsSeen[c])
                                     ELSE GetsSeen[c]]
  BY <1>3, GetsNow
<1>5. CASE ~Idle(w)
  <2>1. /\ Writes[w] # Store!NoWrite /\ Objects' = Objects
        /\ Writes' = [Store!MixAll(Writes[w].key) EXCEPT ![w] = Store!NoWrite]
    BY <1>1, <1>5, StoppedWrites
  <2>2. QED
    BY <1>4, <2>1 DEF Store!BreakPut
<1>6. CASE Idle(w)
  <2>1. put' = put /\ unsettled' = unsettled
    BY <1>1, <1>6, PutFacts, GatewayAssumption DEF Idle, GatewayTypes
  <2>2. Objects' = Objects /\ Writes' = Writes
    BY <1>1, <2>1, OnlyGets
  <2>3. Writes[w] = Store!NoWrite
    BY <1>1, <1>6, WritesNow DEF WritesAre, WriteIs
  <2>4. QED
    BY <1>4, <2>2, <2>3 DEF Store!BreakPut
<1>7. QED
  BY <1>5, <1>6

LEMMA AskGetStep ==
  ASSUME GatewayInv, NEW c \in Clients, NEW k \in Keys, Stat(c, k)
  PROVE  Store!AskGet(c, k)
<1>1. PICK n, busy : n = Len(Content(k)) /\ busy = BeingPut(k)
  OBVIOUS
<1>2. PICK r : r = [NoGet EXCEPT !.pc = "stat", !.key = k, !.size = n,
                                 !.disturbed = busy]
  OBVIOUS
<1>3. /\ GatewayTypes /\ GatewayTypes' /\ reader \in [Clients -> Gets]
      /\ inode[k] # 0 /\ reader[c].pc = "idle" /\ reader' = [reader EXCEPT ![c] = r]
      /\ UNCHANGED <<inode, data, put, unsettled>>
  BY <1>1, <1>2, StatKeeps DEF Stat, IsFile, GatewayInv, GatewayTypes, files, history
<1>4. r.pc = "stat" /\ r.key = k /\ r.disturbed = busy
  BY <1>2 DEF NoGet
<1>5. PICK b : b = (Store!Writers(k) # {})
  OBVIOUS
<1>6. busy = b
  <2>1. b <=> BeingPut(k)
    BY <1>3, <1>5, WritersNow
  <2>2. b \in BOOLEAN /\ busy \in BOOLEAN
    BY <1>1, <1>5 DEF BeingPut
  <2>3. QED
    BY <1>1, <2>1, <2>2
<1>7. GetOf(r) = Store!Get("asked", k, Store!Missing, Store!Missing, b)
  BY <1>4, <1>6 DEF GetOf, Promised, Received, Value, Store!Get, Store!Missing
<1>8. GetsSeen' = [GetsSeen EXCEPT ![c] = GetOf(r)] /\ GetsSeen[c].pc = "idle"
  <2>1. GetsSeen' = [GetsSeen EXCEPT ![c] = GetOf(r)] /\ GetsSeen[c] = GetOf(reader[c])
    BY <1>3, OneGet
  <2>2. GetOf(reader[c]).pc = "idle"
    BY <1>3 DEF GetOf
  <2>3. QED
    BY <2>1, <2>2
<1>9. Objects[k] # Store!Missing
  BY <1>3, ObjectsNow DEF Store!Missing, Store!Damaged, Store!Whole
<1>10. QED
  BY <1>3, <1>5, <1>7, <1>8, <1>9, OnlyGets DEF Store!AskGet

\* The steps of a GET that only move its own program counter on.
LEMMA CutOrOn ==
  ASSUME GatewayTypes, GatewayTypes', NEW c \in Clients, NEW q \in Gets, q = reader[c],
         q.pc \in {"stat", "headers", "reading"},
         UNCHANGED <<inode, data, put, unsettled>>, NEW r,
         reader' = [reader EXCEPT ![c] = r], r.key = q.key, r.disturbed = q.disturbed,
         r.pc = "cut" \/ (q.pc # "stat" /\ r.pc = "reading" /\ r.was = q.was
                           /\ r.torn = q.torn)
  PROVE  Store!CutGet(c) \/ UNCHANGED Store!storeVars
<1>1. Objects' = Objects /\ Writes' = Writes
  BY OnlyGets
<1>2. GetsSeen' = [GetsSeen EXCEPT ![c] = GetOf(r)] /\ GetsSeen[c] = GetOf(q)
  BY OneGet DEF GatewayTypes
<1>3. CASE r.pc = "cut"
  BY <1>1, <1>2, <1>3, CutFacts DEF Store!CutGet
<1>4. CASE r.pc # "cut"
  <2>1. GetOf(r) = GetOf(q)
    BY <1>4, ReadingOn
  <2>2. GetsSeen' = GetsSeen
    BY <1>2, <2>1, GetsNow
  <2>3. QED
    BY <1>1, <2>2 DEF Store!storeVars
<1>5. QED
  BY <1>3, <1>4

LEMMA HeadersStep ==
  ASSUME GatewayInv, NEW c \in Clients, Headers(c)
  PROVE  Store!OpenGet(c) \/ Store!CutGet(c) \/ UNCHANGED Store!storeVars
<1>1. PICK q, torn : q = reader[c] /\ torn = (BeingPut(q.key) \/ q.key \in unsettled)
  OBVIOUS
<1>2. PICK r : r = IF inode[q.key] # 0
                   THEN [q EXCEPT !.pc = "headers", !.was = data[inode[q.key]], !.torn = torn]
                   ELSE [q EXCEPT !.pc = "cut"]
  OBVIOUS
<1>3. /\ GatewayTypes /\ GatewayTypes' /\ reader \in [Clients -> Gets]
      /\ q \in Gets /\ q.pc = "stat" /\ q.key \in Keys
      /\ reader' = [reader EXCEPT ![c] = r] /\ UNCHANGED <<inode, data, put, unsettled>>
  BY <1>1, <1>2, HeadersKeep
     DEF Headers, IsFile, Content, GatewayInv, GatewayTypes, Sound, files, history
<1>4. CASE inode[q.key] = 0
  <2>1. r.pc = "cut" /\ r.key = q.key /\ r.disturbed = q.disturbed
    BY <1>2, <1>3, <1>4 DEF Gets
  <2>2. QED
    BY <1>1, <1>3, <2>1, CutOrOn
<1>5. CASE inode[q.key] # 0
  <2>1. /\ r.pc = "headers" /\ r.key = q.key /\ r.disturbed = q.disturbed
        /\ r.was = data[inode[q.key]] /\ r.torn = torn
    BY <1>2, <1>3, <1>5 DEF Gets
  <2>2. torn <=> Broken(q.key)
    BY <1>1 DEF Broken
  <2>3. Objects[q.key] # Store!Missing /\ Objects[q.key] = Promised(r)
    <3>1. CASE torn
      <4>1. Objects[q.key] = Store!Damaged
        BY <1>3, <1>5, <2>2, <3>1, ObjectsNow
      <4>2. QED
        BY <2>1, <3>1, <4>1 DEF Promised, Value, Store!Missing, Store!Damaged
    <3>2. CASE ~torn
      <4>1. Objects[q.key] = Store!Whole(r.was)
        BY <1>3, <1>5, <2>1, <2>2, <3>2, ObjectsNow
      <4>2. QED
        BY <2>1, <3>2, <4>1 DEF Promised, Value, Store!Missing, Store!Whole
    <3>3. QED
      BY <3>1, <3>2
  <2>4. GetOf(q) = Store!Get("asked", q.key, Store!Missing, Store!Missing, q.disturbed)
    BY <1>3 DEF GetOf, Promised, Received, Value, Store!Get, Store!Missing
  <2>5. GetOf(r) = Store!Get("open", q.key, Objects[q.key], Store!Missing, q.disturbed)
    <3>1. Received(r) = Store!Missing
      BY <2>1 DEF Received, Value, Store!Missing
    <3>2. QED
      BY <2>1, <2>3, <3>1 DEF GetOf, Store!Get
  <2>6. GetsSeen' = [GetsSeen EXCEPT ![c] = GetOf(r)] /\ GetsSeen[c] = GetOf(q)
    BY <1>1, <1>3, OneGet
  <2>7. /\ GetsSeen[c].pc = "asked" /\ GetsSeen[c].key = q.key
        /\ GetOf(r) = Store!Promise(GetsSeen[c])
    BY <2>4, <2>5, <2>6 DEF Store!Promise, Store!Get
  <2>8. QED
    BY <1>3, <2>3, <2>6, <2>7, OnlyGets DEF Store!OpenGet
<1>6. QED
  BY <1>4, <1>5
LEMMA OpenFileStep ==
  ASSUME GatewayInv, NEW c \in Clients, OpenFile(c)
  PROVE  Store!CutGet(c) \/ UNCHANGED Store!storeVars
<1>1. PICK q, i : q = reader[c] /\ i = inode[reader[c].key]
  OBVIOUS
<1>2. PICK to, r : /\ to = (IF i = 0 THEN "cut" ELSE "reading")
                   /\ r = [q EXCEPT !.pc = to, !.inode = i]
  OBVIOUS
<1>3. /\ GatewayTypes /\ GatewayTypes' /\ reader \in [Clients -> Gets]
      /\ q \in Gets /\ q.pc = "headers" /\ UNCHANGED <<inode, data, put, unsettled>>
  BY <1>1, OpenFileKeeps
     DEF OpenFile, GatewayInv, GatewayTypes, files, history
<1>4. reader' = [reader EXCEPT ![c] = r]
  BY <1>1, <1>2, <1>3 DEF OpenFile
<1>5. /\ r.pc = to /\ r.key = q.key /\ r.was = q.was /\ r.torn = q.torn
      /\ r.disturbed = q.disturbed /\ to \in {"cut", "reading"}
  BY <1>2, <1>3 DEF Gets
<1>6. QED
  BY <1>1, <1>3, <1>4, <1>5, CutOrOn

LEMMA ReadBlockStep ==
  ASSUME GatewayInv, NEW c \in Clients, ReadBlock(c)
  PROVE  Store!CompleteGet(c) \/ Store!CutGet(c) \/ UNCHANGED Store!storeVars
<1>1. PICK q : q = reader[c]
  OBVIOUS
<1>2. PICK more : more = Append(q.got, data[q.inode][Len(q.got) + 1])
  OBVIOUS
<1>3. PICK r : r = IF Len(q.got) = q.size THEN [q EXCEPT !.pc = "complete"]
                   ELSE IF Len(q.got) < Len(data[q.inode]) THEN [q EXCEPT !.got = more]
                   ELSE [q EXCEPT !.pc = "cut"]
  OBVIOUS
<1>4. /\ GatewayTypes /\ GatewayTypes' /\ Sound(c) /\ reader \in [Clients -> Gets]
      /\ q \in Gets /\ q.pc = "reading" /\ reader' = [reader EXCEPT ![c] = r]
      /\ q.got \in Seq(Marks) /\ q.was \in Seq(Marks)
      /\ UNCHANGED <<inode, data, put, unsettled>>
  <2>1. /\ GatewayTypes /\ GatewayTypes' /\ Sound(c) /\ q.pc = "reading"
        /\ UNCHANGED <<inode, data, put, unsettled>>
    BY <1>1, ReadBlockKeeps DEF ReadBlock, GatewayInv, files, history
  <2>2. reader' = [reader EXCEPT ![c] = r]
    BY <1>1, <1>2, <1>3 DEF ReadBlock
  <2>3. reader \in [Clients -> Gets] /\ q \in Gets
    BY <1>1, <2>1 DEF GatewayTypes
  <2>4. QED
    BY <2>1, <2>2, <2>3 DEF Gets
<1>5. r.key = q.key /\ r.was = q.was /\ r.torn = q.torn /\ r.disturbed = q.disturbed
  BY <1>3, <1>4 DEF Gets
<1>6. CASE Len(q.got) # q.size
  <2>1. r.pc \in {"cut", "reading"}
    BY <1>3, <1>4, <1>6 DEF Gets
  <2>2. QED
    BY <1>1, <1>4, <1>5, <2>1, CutOrOn
<1>7. CASE Len(q.got) = q.size
  <2>1. r.pc = "complete" /\ r.got = q.got
    BY <1>3, <1>4, <1>7 DEF Gets
  <2>2. ~q.disturbed => q.got = q.was
    <3>1. ~q.disturbed => /\ Len(q.was) = q.size
                          /\ \A n \in 1..Len(q.got) : q.got[n] = q.was[n]
      BY <1>1, <1>4 DEF Sound
    <3>2. QED
      BY <1>4, <1>7, <3>1, SeqEqual
  <2>3. GetOf(q) = Store!Get("open", q.key, Promised(q), Store!Missing, q.disturbed)
    BY <1>4 DEF GetOf, Received, Value, Store!Get, Store!Missing
  <2>4. GetOf(r) = Store!Complete(GetOf(q))
    <3>1. Promised(r) = Promised(q)
      BY <1>4, <1>5, <2>1 DEF Promised, Value
    <3>2. Received(r) = IF q.disturbed THEN Store!Anything ELSE Promised(q)
      BY <1>4, <1>5, <2>1, <2>2 DEF Promised, Received, Value, Store!Anything
    <3>3. GetOf(r) = Store!Get("complete", q.key, Promised(q),
                       IF q.disturbed THEN Store!Anything ELSE Promised(q), q.disturbed)
      BY <1>5, <2>1, <3>1, <3>2 DEF GetOf, Store!Get
    <3>4. QED
      BY <2>3, <3>3 DEF Store!Complete, Store!Get
  <2>5. GetsSeen' = [GetsSeen EXCEPT ![c] = GetOf(r)] /\ GetsSeen[c] = GetOf(q)
    BY <1>1, <1>4, OneGet
  <2>6. GetsSeen[c].pc = "open"
    BY <2>3, <2>5 DEF Store!Get
  <2>7. QED
    BY <1>4, <2>4, <2>5, <2>6, OnlyGets DEF Store!CompleteGet
<1>8. QED
  BY <1>6, <1>7

LEMMA QuietStep ==
  ASSUME GatewayInv, GatewayTypes', UNCHANGED <<inode, data, put, unsettled, reader>>
  PROVE  UNCHANGED Store!storeVars
<1>1. Objects' = Objects /\ Writes' = Writes
  BY OnlyGets DEF GatewayInv
<1>2. QED
  BY <1>1, SameGets DEF Store!storeVars

LEMMA StoreSteps ==
  GatewayInv /\ [Next]_vars => [Store!Next]_(Store!storeVars)
<1> SUFFICES ASSUME GatewayInv, [Next]_vars
             PROVE  Store!Next \/ UNCHANGED Store!storeVars
  OBVIOUS
<1>1. CASE \E w \in Workers, k \in Keys, v \in Versions : BeginPut(w, k, v)
  <2>1. PICK w \in Workers, k \in Keys, v \in Versions : BeginPut(w, k, v)
    BY <1>1
  <2>2. PICK body \in {Blocks(x) : x \in Versions} : body = Blocks(v)
    OBVIOUS
  <2>3. Store!StartPut(w, k, body)
    BY <2>1, <2>2, StartPutStep
  <2>4. QED
    BY <2>3 DEF Store!Next
<1>2. CASE \E w \in Workers : WriteBlock(w)
  BY <1>2, WriteStep
<1>3. CASE \E w \in Workers : EndPut(w)
  BY <1>3, FinishPutStep DEF Store!Next
<1>4. CASE \E w \in Workers : PutFails(w) \/ Crash(w)
  <2>1. \E w \in Workers : Store!BreakPut(w)
    BY <1>4, BreakPutStep, CrashStep
  <2>2. QED
    BY <2>1 DEF Store!Next
<1>5. CASE \E k \in Keys : Delete(k)
  BY <1>5, DeleteStep DEF Store!Next
<1>6. CASE \E c \in Clients, k \in Keys : Stat(c, k)
  BY <1>6, AskGetStep DEF Store!Next
<1>7. CASE \E c \in Clients : Headers(c) \/ OpenFile(c) \/ ReadBlock(c)
  <2>1. PICK c \in Clients : Headers(c) \/ OpenFile(c) \/ ReadBlock(c)
    BY <1>7
  <2>2. \/ Store!OpenGet(c) \/ Store!CompleteGet(c) \/ Store!CutGet(c)
        \/ UNCHANGED Store!storeVars
    BY <2>1, HeadersStep, OpenFileStep, ReadBlockStep
  <2>3. QED
    BY <2>2 DEF Store!Next
<1>8. CASE \/ \E delimiter \in BOOLEAN : BeginList(delimiter)
           \/ \E path \in Keys \cup {Folder} : Walk(path)
           \/ EndList
           \/ UNCHANGED vars
  <2>1. UNCHANGED <<inode, data, put, unsettled, reader>>
    BY <1>8 DEF BeginList, Walk, EndList, vars, files, history
  <2>2. GatewayTypes'
    BY GatewayInductive DEF GatewayInv
  <2>3. QED
    BY <2>1, <2>2, QuietStep
<1>9. QED
  BY <1>1, <1>2, <1>3, <1>4, <1>5, <1>6, <1>7, <1>8 DEF Next

\* However many workers, objects, bodies, overlapping PUTs, DELETEs, GETs, LISTs
\* and crashes: the gateway behaves like an ObjectStore (app.py:312-380).
THEOREM RefinesObjectStore == Spec => StoreSpec
<1>1. Init => Store!Init /\ GatewayInv
  BY InitStore, InitGateway
<1>2. GatewayInv /\ [Next]_vars => GatewayInv'
  BY GatewayInductive
<1>3. QED
  BY <1>1, <1>2, StoreSteps, PTL DEF Spec, StoreSpec, Store!Spec
=============================================================================
