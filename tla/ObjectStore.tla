----------------------------- MODULE ObjectStore -----------------------------
(***************************************************************************)
(* What onprem/file-gateway/app.py promises the clients of a writable      *)
(* bucket.  Any number of PUTs are under way.  An object is damaged while  *)
(* it is being put; when the last of its overlapping PUTs is acknowledged  *)
(* it is whole if they all put one body, none of them broke and no DELETE  *)
(* came between, and stays damaged, or missing, otherwise.  A GET whose    *)
(* body has the announced length brings the object its headers described,  *)
(* unless a PUT of that very object overlapped it.  No request touches an  *)
(* object it does not name.  There are no inodes, blocks or folders here.  *)
(***************************************************************************)
CONSTANTS
  Workers,  \* who serves PUTs, one each at a time
  Keys,     \* the objects
  Bodies,   \* the bodies clients put
  Clients,  \* GET requests, one each
  NoKey     \* no object

VARIABLES
  object,   \* each object: missing, damaged, or a whole body
  writing,  \* the PUTs: object, body, and whether nothing got in the way
  gets      \* the GETs: what the headers promised, and what was received

storeVars == <<object, writing, gets>>

Missing == [kind |-> "missing", body |-> <<>>]
Damaged == [kind |-> "damaged", body |-> <<>>]
Whole(body) == [kind |-> "whole", body |-> body]
Anything == [kind |-> "anything", body |-> <<>>]
Write(key, body, clean) == [key |-> key, body |-> body, clean |-> clean]
Get(pc, key, promised, received, spoilt) ==
  [pc |-> pc, key |-> key, promised |-> promised, received |-> received,
   spoilt |-> spoilt]
NoWrite == Write(NoKey, <<>>, TRUE)
IdleGet == Get("idle", NoKey, Missing, Missing, FALSE)

Init ==
  /\ object = [k \in Keys |-> Missing]
  /\ writing = [w \in Workers |-> NoWrite]
  /\ gets = [c \in Clients |-> IdleGet]

Writers(k) == {w \in Workers : writing[w].key = k}
Mix(write) == Write(write.key, write.body, FALSE)
Spoil(get) == Get(get.pc, get.key, get.promised, get.received, TRUE)

(* A PUT begins.  With others of that object under way it stays clean only if *)
(* they are and put the same body, or else none of them is.  It may spoil any *)
(* GET of that object that is under way.                                      *)
StartPut(w, k, body) ==
  LET clean == \A u \in Writers(k) : writing[u].clean /\ writing[u].body = body
  IN
  /\ writing[w] = NoWrite
  /\ writing' = [u \in Workers |->
                   IF u = w THEN Write(k, body, clean)
                   ELSE IF u \in Writers(k) /\ ~clean THEN Mix(writing[u])
                   ELSE writing[u]]
  /\ object' = [object EXCEPT ![k] = Damaged]
  /\ \E some \in SUBSET {c \in Clients : gets[c].key = k} :
       gets' = [c \in Clients |-> IF c \in some THEN Spoil(gets[c]) ELSE gets[c]]

FinishPut(w) ==
  LET k == writing[w].key IN
  /\ writing[w] # NoWrite /\ writing' = [writing EXCEPT ![w] = NoWrite]
  /\ object' = IF writing[w].clean /\ Writers(k) = {w}
               THEN [object EXCEPT ![k] = Whole(writing[w].body)] ELSE object
  /\ UNCHANGED gets

(* The PUTs of an object that are under way are not clean any more. *)
MixAll(k) ==
  [u \in Workers |-> IF u \in Writers(k) THEN Mix(writing[u]) ELSE writing[u]]

(* A GET is cut, and promises nothing any more. *)
Cut(get) ==
  IF get.pc \in {"asked", "open"}
  THEN Get("cut", get.key, Missing, Missing, get.spoilt) ELSE get

(* A worker's PUT fails, if it has one, or it dies with that and some GETs; *)
(* the object is left as it is.                                             *)
BreakPut(w) ==
  /\ writing' = IF writing[w] = NoWrite THEN writing
                ELSE [MixAll(writing[w].key) EXCEPT ![w] = NoWrite]
  /\ \E some \in SUBSET Clients :
       gets' = [c \in Clients |-> IF c \in some THEN Cut(gets[c]) ELSE gets[c]]
  /\ UNCHANGED object

Delete(k) ==
  /\ writing' = MixAll(k)
  /\ object' = [object EXCEPT ![k] = Missing]
  /\ UNCHANGED gets

AskGet(c, k) ==
  /\ object[k] # Missing /\ gets[c].pc = "idle"
  /\ gets' = [gets EXCEPT ![c] = Get("asked", k, Missing, Missing, Writers(k) # {})]
  /\ UNCHANGED <<object, writing>>

(* The headers describe the object as it is now. *)
Promise(get) == Get("open", get.key, object[get.key], Missing, get.spoilt)

OpenGet(c) ==
  /\ gets[c].pc = "asked" /\ object[gets[c].key] # Missing
  /\ gets' = [gets EXCEPT ![c] = Promise(gets[c])]
  /\ UNCHANGED <<object, writing>>

(* The body has the announced length. *)
Complete(get) ==
  Get("complete", get.key, get.promised,
      IF get.spoilt THEN Anything ELSE get.promised, get.spoilt)

CompleteGet(c) ==
  /\ gets[c].pc = "open"
  /\ gets' = [gets EXCEPT ![c] = Complete(gets[c])]
  /\ UNCHANGED <<object, writing>>

CutGet(c) ==
  /\ gets' = [gets EXCEPT ![c] = Cut(gets[c])]
  /\ UNCHANGED <<object, writing>>

Next ==
  \/ \E w \in Workers :
       \/ \E k \in Keys, body \in Bodies : StartPut(w, k, body)
       \/ FinishPut(w) \/ BreakPut(w)
  \/ \E k \in Keys : Delete(k)
  \/ \E c \in Clients :
       \/ \E k \in Keys : AskGet(c, k)
       \/ OpenGet(c) \/ CompleteGet(c) \/ CutGet(c)

Spec == Init /\ [][Next]_storeVars
=============================================================================
