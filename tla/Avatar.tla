------------------------------- MODULE Avatar -------------------------------
(***************************************************************************)
(* One user's avatar: uploads and removals, serialised by a Redis mutex    *)
(* whose lease a paused holder may lose, and fenced by the generation of   *)
(* the users row.                                                          *)
(*                                                                         *)
(* An operation stores its objects under a version of its own, which it    *)
(* numbers with the generation it claims; the random part of a version is  *)
(* the operation.                                                          *)
(***************************************************************************)
EXTENDS Integers, FiniteSets

CONSTANTS
  AvatarOps, \* uploads and removals
  NoOp       \* no version, no lock holder

ASSUME AvatarAssumption == NoOp \notin AvatarOps /\ IsFiniteSet(AvatarOps)

VARIABLES
  row,        \* users: avatarGeneration, and the version avatarUrl points at
  objects,    \* objects in storage: <<version, part>>
  avatarLock, \* avatar:lock in Redis: the token of a holder
  op,         \* what each operation holds in memory
  published,  \* versions that have been published
  swept       \* removals that have begun to delete the versions before their own

avatarVars == <<row, objects, avatarLock, op, published, swept>>

Generation == 0 .. Cardinality(AvatarOps)
Part == {"original", "avatar-256"}

OpRecord == [pc : {"new", "acquire", "read", "original", "derive", "publish", "invalidate", "list",
                   "delete", "clear", "rollback", "release", "done", "dead"},
             kind : {"set", "remove"}, gen : Generation, keys : SUBSET (AvatarOps \X Part)]

AvatarTypeOK ==
  /\ row \in [gen : Generation, url : AvatarOps \cup {NoOp}]
  /\ objects \subseteq AvatarOps \X Part
  /\ avatarLock \in AvatarOps \cup {NoOp}
  /\ op \in [AvatarOps -> OpRecord]
  /\ published \subseteq AvatarOps /\ swept \subseteq AvatarOps

AvatarInit ==
  /\ row = [gen |-> 0, url |-> NoOp]
  /\ objects = {}
  /\ avatarLock = NoOp
  /\ op = [o \in AvatarOps |-> [pc |-> "new", kind |-> "set", gen |-> 0, keys |-> {}]]
  /\ published = {} /\ swept = {}

OpAt(o, pc) == op[o].pc = pc
OpGo(o, pc) == op' = [op EXCEPT ![o].pc = pc]
OpGone(o) == op[o].pc \in {"new", "done", "dead"}

-----------------------------------------------------------------------------
(* The mutex.                                                              *)

StartOp(o) ==
  /\ OpAt(o, "new")
  /\ \E kind \in {"set", "remove"} : op' = [op EXCEPT ![o].pc = "acquire", ![o].kind = kind]
  /\ UNCHANGED <<row, objects, avatarLock, published, swept>>

\* acquireBlocking: SET NX, ten times; then the caller is told to come back.
AcquireMutex(o) ==
  /\ OpAt(o, "acquire")
  /\ \/ avatarLock = NoOp /\ avatarLock' = o /\ OpGo(o, "read")
     \/ OpGo(o, "done") /\ UNCHANGED avatarLock
  /\ UNCHANGED <<row, objects, published, swept>>

\* release deletes the key when it still holds this token; a failure is ignored.
ReleaseMutex(o) ==
  /\ OpAt(o, "release")
  /\ avatarLock' \in {avatarLock, IF avatarLock = o THEN NoOp ELSE avatarLock}
  /\ OpGo(o, "done")
  /\ UNCHANGED <<row, objects, published, swept>>

\* The heartbeat stops reaching Redis, or its holder died, and the lease runs out.
MutexExpires ==
  /\ avatarLock # NoOp /\ avatarLock' = NoOp
  /\ UNCHANGED <<row, objects, op, published, swept>>

-----------------------------------------------------------------------------
(* Both operations.                                                        *)

\* The operation claims the generation after the one it reads; there may be nothing to remove.
ReadGeneration(o) ==
  /\ OpAt(o, "read")
  /\ op' = [op EXCEPT ![o].gen = row.gen + 1,
                      ![o].pc = IF op[o].kind = "set" THEN "original"
                                ELSE IF row.url = NoOp THEN "release" ELSE "list"]
  /\ UNCHANGED <<row, objects, avatarLock, published, swept>>

\* sweep lists every object of an older generation; the listing may fail ...
SweepList(o) ==
  /\ OpAt(o, "list")
  /\ \/ /\ op' = [op EXCEPT ![o].pc = "delete",
                            ![o].keys = {k \in objects : op[k[1]].gen < op[o].gen}]
        /\ swept' = IF op[o].kind = "remove" THEN swept \cup {o} ELSE swept
     \/ OpGo(o, "release") /\ UNCHANGED swept
  /\ UNCHANGED <<row, objects, avatarLock, published>>

\* ... and deletes what it listed; a deletion that fails may have deleted some of it.
SweepDelete(o) ==
  /\ OpAt(o, "delete")
  /\ \/ /\ objects' = objects \ op[o].keys
        /\ OpGo(o, IF op[o].kind = "remove" THEN "clear" ELSE "release")
     \/ \E gone \in SUBSET op[o].keys : objects' = objects \ gone /\ OpGo(o, "release")
  /\ UNCHANGED <<row, avatarLock, published, swept>>

\* Slip: whoever comes last wins the row.
LastWriterWins(o) == TRUE

\* The row is written only while its generation is older.
CasGeneration(o) == row.gen < op[o].gen

-----------------------------------------------------------------------------
(* setAvatar.                                                              *)

UploadOriginal(o) ==
  /\ OpAt(o, "original")
  /\ \/ objects' = objects \cup {<<o, "original">>} /\ OpGo(o, "derive")
     \/ OpGo(o, "release") /\ UNCHANGED objects
  /\ UNCHANGED <<row, avatarLock, published, swept>>

\* processImageNow loads the original, which a later operation may have swept, checks it and
\* stores the derivatives; a failure, also one after they are stored, rolls the version back.
DeriveImage(o) ==
  /\ OpAt(o, "derive")
  /\ \/ /\ <<o, "original">> \in objects
        /\ objects' = objects \cup {<<o, "avatar-256">>}
        /\ op' \in {[op EXCEPT ![o].pc = pc] : pc \in {"publish", "rollback"}}
     \/ OpGo(o, "rollback") /\ UNCHANGED objects
  /\ UNCHANGED <<row, avatarLock, published, swept>>

\* cleanupVersion lists and deletes the version; failures are ignored.
CleanupVersion(o) ==
  /\ OpAt(o, "rollback")
  /\ \E gone \in SUBSET ({o} \X Part) : objects' = objects \ gone
  /\ OpGo(o, "release")
  /\ UNCHANGED <<row, avatarLock, published, swept>>

Publish(o) ==
  /\ OpAt(o, "publish")
  /\ IF CasGeneration(o)
     THEN /\ row' = [gen |-> op[o].gen, url |-> o]
          /\ published' = published \cup {o}
          /\ OpGo(o, "invalidate")
     ELSE OpGo(o, "rollback") /\ UNCHANGED <<row, published>>
  /\ UNCHANGED <<objects, avatarLock, swept>>

\* The cached user is dropped before the versions it may still name are swept; a failure ends
\* the upload before its sweep.
InvalidateAvatar(o) ==
  /\ OpAt(o, "invalidate")
  /\ op' \in {[op EXCEPT ![o].pc = pc] : pc \in IF op[o].kind = "set" THEN {"list", "release"}
                                                ELSE {"release"}}
  /\ UNCHANGED <<row, objects, avatarLock, published, swept>>

-----------------------------------------------------------------------------
(* removeAvatar.                                                           *)

\* Storage goes first, and the row is cleared only after that has succeeded.
ClearAvatar(o) ==
  /\ OpAt(o, "clear")
  /\ IF CasGeneration(o)
     THEN row' = [gen |-> op[o].gen, url |-> NoOp] /\ OpGo(o, "invalidate")
     ELSE OpGo(o, "release") /\ UNCHANGED row
  /\ UNCHANGED <<objects, avatarLock, published, swept>>

OpDies(o) ==
  /\ ~OpGone(o) /\ OpGo(o, "dead")
  /\ UNCHANGED <<row, objects, avatarLock, published, swept>>

AvatarNext ==
  \/ MutexExpires
  \/ \E o \in AvatarOps :
       \/ StartOp(o) \/ AcquireMutex(o) \/ ReleaseMutex(o) \/ ReadGeneration(o)
       \/ UploadOriginal(o) \/ DeriveImage(o) \/ CleanupVersion(o) \/ Publish(o)
       \/ InvalidateAvatar(o) \/ SweepList(o) \/ SweepDelete(o) \/ ClearAvatar(o) \/ OpDies(o)

AvatarSpec == AvatarInit /\ [][AvatarNext]_avatarVars

-----------------------------------------------------------------------------
(* Properties.                                                             *)

\* The published URL has its object, unless a removal that claimed a later generation has begun
\* to delete it; and once an avatar is removed, no object that was ever published is left to
\* be reached.  Leases may be lost and operations may die anywhere.
AvatarMatchesStorage ==
  /\ row.url # NoOp /\ <<row.url, "avatar-256">> \notin objects =>
       \E o \in swept : op[o].gen > row.gen
  /\ row.url = NoOp => \A v \in published : <<v, "avatar-256">> \notin objects
=============================================================================
