------------------------------ MODULE GoogleSync ------------------------------
(***************************************************************************)
(* The local copy of a Drive's metadata (platform_runtime/google_sync.py and     *)
(* sync_store.py): an anchor in the provider's change log, then a listing page by  *)
(* page, then the log from the anchor on.  A page is one call of the API: the lease  *)
(* is claimed, the page fetched with no transaction open, and its records and the      *)
(* next cursor committed together.                                                       *)
(*                                                                                       *)
(* Objects are numbered as the provider lists them; 0 is the content of one that is not   *)
(* there.  A position of the log stands for the opaque token.  Another connection           *)
(* generation is another account, with a Drive of its own.                                   *)
(***************************************************************************)
EXTENDS Integers, SequencesExt

CONSTANTS
  LastObject,   \* objects are 1..LastObject
  Content,      \* what an object may hold, positive numbers
  Syncer,       \* calls of the API
  NoSyncer,
  SyncPage,     \* objects or changes of a page
  MaxChanges,   \* bound: changes of a Drive
  MaxAccounts,  \* bound: connection generations
  MaxRevision   \* bound: pages of a stream

ASSUME SyncAssumption ==
  /\ LastObject \in Nat /\ SyncPage \in Nat \ {0} /\ MaxAccounts \in Nat \ {0}
  /\ Content \subseteq Nat \ {0} /\ NoSyncer \notin Syncer

Object == 1..LastObject

VARIABLES
  drive,        \* of each account: what is there, and the log of changed objects
  driveAccount, \* generation of the connection
  syncStream,   \* p_sync_streams: generation, cursor, revision, claim and whether its lease ran out
  copy,         \* p_sync_records: version, 0 for no row, and content, 0 for a tombstone
  syncer        \* memory of the calls

syncVars == <<drive, driveAccount, syncStream, copy, syncer>>

StartCursor == [phase |-> "start", anchor |-> 0, page |-> 0]
FreshStream(g) == [made |-> TRUE, generation |-> g, cursor |-> StartCursor, revision |-> 0,
                   claim |-> NoSyncer, lapsed |-> FALSE]
EmptyMirror == [o \in Object |-> [version |-> 0, content |-> 0]]
Away == [pc |-> "idle", cursor |-> StartCursor, revision |-> 0, generation |-> 0, next |-> StartCursor,
         items |-> [o \in {} |-> 0]]
Ending == [Away EXCEPT !.pc = "ending"]

SyncInit ==
  /\ drive \in [1..MaxAccounts -> {[content |-> c, log |-> <<>>] : c \in [Object -> Content \union {0}]}]
  /\ driveAccount = 1 /\ syncStream = [FreshStream(1) EXCEPT !.made = FALSE]
  /\ copy = EmptyMirror /\ syncer = [w \in Syncer |-> Away]

-----------------------------------------------------------------------------
\* The owner of the Drive edits, makes or removes an object.
DriveChanges(o, c) ==
  /\ Len(drive[driveAccount].log) < MaxChanges /\ drive[driveAccount].content[o] # c
  /\ drive' = [drive EXCEPT ![driveAccount] = [content |-> [@.content EXCEPT ![o] = c], log |-> Append(@.log, o)]]
  /\ UNCHANGED <<driveAccount, syncStream, copy, syncer>>

\* The connection is authorized anew, for another account.
Reconnect ==
  /\ driveAccount < MaxAccounts /\ driveAccount' = driveAccount + 1 /\ UNCHANGED <<drive, syncStream, copy, syncer>>

\* reset: the owner drops the copy, the cursor and the claim.
ResetStream ==
  /\ syncStream' = FreshStream(driveAccount) /\ copy' = EmptyMirror /\ UNCHANGED <<drive, driveAccount, syncer>>

-----------------------------------------------------------------------------
\* claim: a stream of this generation that nobody holds, or whose holder's lease ran out.
ClaimStream(w) ==
  LET row == IF syncStream.made THEN syncStream ELSE FreshStream(driveAccount)
  IN /\ syncer[w].pc = "idle" /\ row.generation = driveAccount /\ (row.claim = NoSyncer \/ row.lapsed)
     /\ row.revision < MaxRevision
     /\ syncStream' = [row EXCEPT !.claim = w, !.lapsed = FALSE]
     /\ syncer' = [syncer EXCEPT ![w] = [Away EXCEPT !.pc = "claimed", !.cursor = row.cursor, !.revision = row.revision]]
     /\ UNCHANGED <<drive, driveAccount, copy>>

LeaseRunsOut ==
  /\ syncStream.claim # NoSyncer /\ ~syncStream.lapsed /\ syncStream' = [syncStream EXCEPT !.lapsed = TRUE]
  /\ UNCHANGED <<drive, driveAccount, copy, syncer>>

\* _owned: the claim of this very call, in its lease and of the connection's generation.
OwnsStream(w) == syncStream.claim = w /\ ~syncStream.lapsed /\ syncStream.generation = driveAccount

\* access and get, up to the request: the grant, the guard, the lease renewed.
AskPage(w) ==
  /\ syncer[w].pc = "claimed" /\ OwnsStream(w)
  /\ syncer' = [syncer EXCEPT ![w] = [@ EXCEPT !.pc = "asked", !.generation = driveAccount]]
  /\ UNCHANGED <<drive, driveAccount, syncStream, copy>>

\* _snapshot: the next objects that are there; each is observed as it is now.
ListPage(d, cursor) ==
  LET there == {o \in Object : o > cursor.page /\ d.content[o] # 0}
      listed == {o \in there : Cardinality({q \in there : q < o}) < SyncPage}
  IN [items |-> [o \in listed |-> d.content[o]],
      next |-> IF listed = there THEN [cursor EXCEPT !.phase = "delta", !.page = 0]
               ELSE [cursor EXCEPT !.page = Max(listed)]]

\* Mutant of LogPage: the anchor moves to the end of the log on every page.
LogPageToEnd(d, cursor) ==
  LET from == IF cursor.page # 0 THEN cursor.page ELSE cursor.anchor
      to == Min({from + SyncPage, Len(d.log)})
      changed == ToSet(SubSeq(d.log, from + 1, to))
  IN [items |-> [o \in changed |-> d.content[o]],
      next |-> [cursor EXCEPT !.page = 0, !.anchor = Len(d.log)]]

\* _drive_changes: the objects the next changes name, each as it is now; the last page brings
\* the token to start from, until then the anchor stands.
LogPage(d, cursor) ==
  LET from == IF cursor.page # 0 THEN cursor.page ELSE cursor.anchor
      to == Min({from + SyncPage, Len(d.log)})
      changed == ToSet(SubSeq(d.log, from + 1, to))
  IN [items |-> [o \in changed |-> d.content[o]],
      next |-> IF to < Len(d.log) THEN [cursor EXCEPT !.page = to]
               ELSE [cursor EXCEPT !.page = 0, !.anchor = to]]

\* _fetch: the anchor is taken before the listing begins.
FetchedPage(d, cursor) ==
  IF cursor.phase = "start"
  THEN [items |-> [o \in {} |-> 0], next |-> [cursor EXCEPT !.phase = "snapshot", !.anchor = Len(d.log)]]
  ELSE IF cursor.phase = "snapshot" THEN ListPage(d, cursor) ELSE LogPage(d, cursor)

\* The answer, by the credential of the grant; the guard again, which wants its generation.
PageAnswered(w) ==
  LET page == FetchedPage(drive[syncer[w].generation], syncer[w].cursor)
  IN /\ syncer[w].pc = "asked" /\ syncer[w].generation = driveAccount
     /\ syncer' = [syncer EXCEPT ![w] = [@ EXCEPT !.pc = "fetched", !.next = page.next, !.items = page.items]]
     /\ UNCHANGED <<drive, driveAccount, syncStream, copy>>

\* commit: the records of a newer version and the next cursor, in one transaction, if the claim,
\* the generation and the cursor are still those of this call.
CommitPage(w) ==
  LET m == syncer[w]
  IN /\ m.pc = "fetched" /\ OwnsStream(w) /\ m.generation = driveAccount /\ syncStream.cursor = m.cursor
     /\ copy' = [o \in Object |->
          IF o \in DOMAIN m.items /\ m.revision + 1 > copy[o].version
          THEN [version |-> m.revision + 1, content |-> m.items[o]] ELSE copy[o]]
     /\ syncStream' = [syncStream EXCEPT !.cursor = m.next, !.revision = @ + 1]
     /\ syncer' = [syncer EXCEPT ![w] = Ending]
     /\ UNCHANGED <<drive, driveAccount>>

\* Whatever is refused or fails on the way ends the call.
PageFails(w) ==
  /\ syncer[w].pc \in {"claimed", "asked", "fetched"} /\ syncer' = [syncer EXCEPT ![w] = Ending]
  /\ UNCHANGED <<drive, driveAccount, syncStream, copy>>

\* release, by the holder of a living claim only.
ReleaseStream(w) ==
  /\ syncer[w].pc = "ending" /\ syncer' = [syncer EXCEPT ![w] = Away]
  /\ syncStream' = IF OwnsStream(w) THEN [syncStream EXCEPT !.claim = NoSyncer] ELSE syncStream
  /\ UNCHANGED <<drive, driveAccount, copy>>

SyncerDies(w) ==
  /\ syncer[w].pc # "idle" /\ syncer' = [syncer EXCEPT ![w] = Away]
  /\ UNCHANGED <<drive, driveAccount, syncStream, copy>>

SyncNext ==
  \/ \E o \in Object, c \in Content \union {0} : DriveChanges(o, c)
  \/ Reconnect \/ ResetStream \/ LeaseRunsOut
  \/ \E w \in Syncer : \/ ClaimStream(w) \/ AskPage(w) \/ PageAnswered(w) \/ CommitPage(w)
                       \/ PageFails(w) \/ ReleaseStream(w) \/ SyncerDies(w)

SyncSpec == SyncInit /\ [][SyncNext]_syncVars

-----------------------------------------------------------------------------
\* Changes the syncStream has yet to read.
UnreadChanges ==
  LET from == IF syncStream.cursor.page # 0 THEN syncStream.cursor.page ELSE syncStream.cursor.anchor
      log == drive[syncStream.generation].log
  IN ToSet(SubSeq(log, from + 1, Len(log)))

\* Once the listing is done, an object that is not in the unread part of the log is in the copy as it
\* is in the Drive, there or not: though the listing and the log were read a page at a time while
\* objects changed, by calls that failed, died, lost the lease to one another or met a reset or another
\* account ("A page, records, dedup receipt and next cursor commit in ONE transaction").
CopyIsCurrent ==
  syncStream.made /\ syncStream.cursor.phase = "delta" =>
    \A o \in Object \ UnreadChanges : copy[o].content = drive[syncStream.generation].content[o]
=============================================================================
