--------------------------- MODULE ObjectStorage ---------------------------
(***************************************************************************)
(* The object storage every driver promises: upload, copy, move, delete,   *)
(* deletion of many keys, and a listing in pages that the caller follows   *)
(* by a continuation token.  Nothing here is a transaction: each step of   *)
(* an operation meets what others have done since the step before.         *)
(*                                                                         *)
(* Keys are normalised and share the prefix that is listed; content is the *)
(* upload that brought it.  The local driver also keeps a side file with   *)
(* the metadata of each object, which may be missing or another's.         *)
(***************************************************************************)
EXTENDS Integers, FiniteSets

CONSTANTS
  LastKey,   \* bound: keys are 1 .. LastKey, in their order
  Contents,  \* uploads
  Clients,   \* callers
  NoContent, \* no object under this key
  PageSize   \* maxKeys, and the keys of one DeleteObjects

ASSUME StorageAssumption ==
  /\ LastKey \in Nat \ {0} /\ PageSize \in Nat \ {0}
  /\ NoContent \notin Contents

VARIABLES
  stored,   \* the object under each key
  uploaded, \* contents that have been uploaded
  doomed,   \* contents that someone has deleted or written over, or two moves have carried at once
  client    \* what each caller holds

storageVars == <<stored, uploaded, doomed, client>>

Keys == 1 .. LastKey

ClientRecord == [pc : {"idle", "list", "listed", "copied", "deleting", "deleted", "refused"},
                 token : 0 .. LastKey,      \* the last key of the page before; 0 at first
                 files : SUBSET Keys,       \* keys it has been given
                 steady : SUBSET Keys,      \* keys that have had an object since it began
                 source : Keys, dest : Keys, held : Contents \cup {NoContent},
                 keys : SUBSET Keys,        \* keys it still has to delete
                 asked : SUBSET Keys,       \* keys it has asked to delete, and not seen rewritten
                 failures : SUBSET Keys]

StorageTypeOK ==
  /\ stored \in [Keys -> Contents \cup {NoContent}]
  /\ uploaded \subseteq Contents /\ doomed \subseteq Contents
  /\ client \in [Clients -> ClientRecord]

ClientIdle == [pc |-> "idle", token |-> 0, files |-> {}, steady |-> {}, source |-> 1, dest |-> 1,
               held |-> NoContent, keys |-> {}, asked |-> {}, failures |-> {}]

StorageInit ==
  /\ stored = [k \in Keys |-> NoContent]
  /\ uploaded = {} /\ doomed = {}
  /\ client = [c \in Clients |-> ClientIdle]

ClientAt(c, pc) == client[c].pc = pc
Present(k) == stored[k] # NoContent
ContentAt(ks) == {stored[k] : k \in ks} \ {NoContent}

\* Everyone who is listing or deleting sees what becomes of key k.
Put(k, x, others) ==
  /\ stored' = [stored EXCEPT ![k] = x]
  /\ client' = [c \in Clients |-> [others[c] EXCEPT !.asked = @ \ {k}]]

Remove(ks, others) ==
  /\ stored' = [k \in Keys |-> IF k \in ks THEN NoContent ELSE stored[k]]
  /\ client' = [c \in Clients |-> [others[c] EXCEPT !.steady = @ \ ks]]

-----------------------------------------------------------------------------
(* One object.                                                             *)

Upload(k) ==
  /\ \E x \in Contents \ uploaded : Put(k, x, client) /\ uploaded' = uploaded \cup {x}
  /\ doomed' = doomed \cup ContentAt({k})

Delete(k) ==
  /\ Present(k) /\ Remove({k}, client)
  /\ doomed' = doomed \cup ContentAt({k})
  /\ UNCHANGED uploaded

\* Slip: the source goes first, and is written from memory.
DeleteThenCopy(c, k, to) ==
  /\ Remove({k}, [client EXCEPT ![c] = [ClientIdle EXCEPT !.pc = "copied", !.source = k, !.dest = to,
                                                          !.held = stored[k]]])
  /\ UNCHANGED doomed

\* copy: the destination is written over.
CopyObject(c, k, to) ==
  /\ Put(to, stored[k], [client EXCEPT ![c] = [ClientIdle EXCEPT !.pc = "copied", !.source = k,
                                                                 !.dest = to, !.held = stored[k]]])
  /\ doomed' = doomed \cup (ContentAt({to}) \ {stored[k]})
                   \cup {x \in {stored[k]} : \E d \in Clients : ClientAt(d, "copied") /\ client[d].held = x}

\* move copies and then deletes; onto the same key it does nothing.
Move(c, k, to) ==
  /\ ClientAt(c, "idle") /\ k # to /\ Present(k)
  /\ CopyObject(c, k, to)
  /\ UNCHANGED uploaded

\* The deletion takes whatever is under the source by now: an upload since the copy is lost.
MoveDelete(c) ==
  LET k == client[c].source IN
  /\ ClientAt(c, "copied")
  /\ Remove({k}, [client EXCEPT ![c] = ClientIdle])
  /\ doomed' = doomed \cup (ContentAt({k}) \ {client[c].held})
  /\ UNCHANGED uploaded

-----------------------------------------------------------------------------
(* Many keys.                                                              *)

DeleteMany(c) ==
  /\ ClientAt(c, "idle")
  /\ \E ks \in SUBSET Keys \ {{}} :
       client' = [client EXCEPT ![c] = [ClientIdle EXCEPT !.pc = "deleting", !.keys = ks,
                                                          !.asked = ks]]
  /\ UNCHANGED <<stored, uploaded, doomed>>

FirstOf(n, ks) == {k \in ks : Cardinality({j \in ks : j < k}) < n}

\* Slip: the failures of the last chunk are reported.
LastFailures(c, bad) == bad

\* The failures of every chunk are collected.
AllFailures(c, bad) == client[c].failures \cup bad

\* One request: the store deletes some of its keys, and names the others.
DeleteChunk(c) ==
  LET chunk == FirstOf(PageSize, client[c].keys) IN
  /\ ClientAt(c, "deleting") /\ client[c].keys # {}
  /\ \E bad \in SUBSET chunk :
       /\ Remove(chunk \ bad, [client EXCEPT ![c].keys = @ \ chunk,
                                             ![c].failures = AllFailures(c, bad)])
       /\ doomed' = doomed \cup ContentAt(chunk \ bad)
  /\ UNCHANGED uploaded

\* A driver that stops at the first failure leaves the rest as it is.
DeleteStops(c) ==
  /\ ClientAt(c, "deleting") /\ client[c].keys # {}
  /\ client' = [client EXCEPT ![c].pc = "refused"]
  /\ UNCHANGED <<stored, uploaded, doomed>>

DeleteManyEnds(c) ==
  /\ ClientAt(c, "deleting") /\ client[c].keys = {}
  /\ client' = [client EXCEPT ![c].pc = IF client[c].failures = {} THEN "deleted" ELSE "refused"]
  /\ UNCHANGED <<stored, uploaded, doomed>>

-----------------------------------------------------------------------------
(* Listing.                                                                *)

List(c) ==
  /\ ClientAt(c, "idle")
  /\ client' = [client EXCEPT ![c] = [ClientIdle EXCEPT !.pc = "list",
                                                        !.steady = {k \in Keys : Present(k)}]]
  /\ UNCHANGED <<stored, uploaded, doomed>>

\* Slip: the token counts the files of the pages before.
AfterCount(c) ==
  LET all == {k \in Keys : Present(k)}
  IN all \ FirstOf(Cardinality(client[c].files), all)

\* The token is the last key of the page before: what comes after it, in the order of the keys.
AfterToken(c) == {k \in Keys : Present(k) /\ k > client[c].token}

\* One page of what is there now, and whether there is more.
ListPage(c) ==
  LET rest == AfterToken(c)
      page == FirstOf(PageSize, rest)
      last == CHOOSE k \in page : \A j \in page : j <= k
  IN /\ ClientAt(c, "list")
     /\ client' = [client EXCEPT
                     ![c].files = @ \cup page,
                     ![c].pc = IF page = rest THEN "listed" ELSE "list",
                     ![c].token = IF page = rest THEN @ ELSE last]
     /\ UNCHANGED <<stored, uploaded, doomed>>

\* The caller is done, or dies: what it has begun stays as it is.
ClientGone(c) ==
  /\ ~ClientAt(c, "idle") /\ client' = [client EXCEPT ![c] = ClientIdle]
  /\ UNCHANGED <<stored, uploaded, doomed>>

StorageNext ==
  \/ \E k \in Keys : Upload(k) \/ Delete(k)
  \/ \E c \in Clients :
       \/ \E k, to \in Keys : Move(c, k, to)
       \/ MoveDelete(c) \/ DeleteMany(c) \/ DeleteChunk(c) \/ DeleteStops(c) \/ DeleteManyEnds(c)
       \/ List(c) \/ ListPage(c) \/ ClientGone(c)

StorageSpec == StorageInit /\ [][StorageNext]_storageVars

-----------------------------------------------------------------------------
(* Properties.                                                             *)

\* A listing that has ended has named every key that held an object all the while, whatever
\* came and went between its pages; a deletion of many keys that succeeds has left none of
\* them, except where someone has written since; and an object that nobody has deleted or
\* written over is somewhere, however many moves have been interrupted: only two moves that
\* carry one object at once may lose it.
StorageKeepsItsPromises ==
  /\ \A c \in Clients :
       /\ ClientAt(c, "listed") => client[c].steady \subseteq client[c].files
       /\ ClientAt(c, "deleted") => \A k \in client[c].asked : ~Present(k)
  /\ uploaded \subseteq doomed \cup ContentAt(Keys)
=============================================================================
