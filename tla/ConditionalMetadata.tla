-------------------------- MODULE ConditionalMetadata --------------------------
(***************************************************************************)
(* Versioned metadata, protected records and record owners of a zone       *)
(* (raft/src/raft/state_machine/{conditional_metadata, protected_metadata, *)
(* record_guard, metadata_rename}.rs): commands that compare a revision,   *)
(* an image or an owner handle and mutate in the transaction that applies  *)
(* their log entry.                                                        *)
(*                                                                         *)
(* A command waits in the raft log between its caller's read and its       *)
(* apply, so it may carry whatever was readable at any earlier time: any   *)
(* revision given out so far, any image.  A refused command changes        *)
(* nothing and is a guard here, except a conditional write that conflicts, *)
(* whose answer matters.                                                   *)
(*                                                                         *)
(* Value v stands for an encoded FileMetadata whose version field is v;    *)
(* None is an absent row.  Revision n is the token with counter n of the   *)
(* one incarnation the first allocation fixed; None is no token.           *)
(***************************************************************************)
EXTENDS Integers, FiniteSets, FiniteSetsExt

CONSTANTS
  Keys,          \* metadata paths
  Managed,       \* those in the managed subtree (is_managed_key)
  Values,        \* positive numbers
  Renamable,     \* the values that are file, directory or link entries
  Renames,       \* RenameMetadata commands: the function from a path and its
                 \* descendants to their new paths
  MaxRevisions,  \* bound on the revisions given out
  MaxAppends     \* bound on the appends to a record's stream

None == 0

ASSUME CmAssumption ==
  /\ Managed \subseteq Keys /\ None \notin Keys
  /\ Values \subseteq Nat \ {None} /\ Renamable \subseteq Values
  /\ \A f \in Renames : /\ DOMAIN f \subseteq Keys /\ IsFiniteSet(DOMAIN f)
                        /\ \A k \in DOMAIN f : f[k] \in Keys
  /\ MaxRevisions \in Nat /\ MaxAppends \in Nat

VARIABLES
  db,         \* the zone database: tables and control records
  answer,     \* the last CommandResult that a conditional write returned
  won,        \* history: [key, expected, version] of every committed conditional write
  handle      \* history: the owner handle of the last guarded mutation of a record

vars == <<db, answer, won, handle>>

Plain    == "none"                              \* no policy record
Policies == {Plain, "conditional-only", "record-owner", "record-owner-io"}
Owners   == {"record-owner", "record-owner-io"}
NoAnswer == [kind |-> "none"]

Database ==
  [meta    : [Keys -> Values \cup {None}],      \* metadata
   rev     : [Keys -> Nat],                     \* "path:" records, tombstones too
   alloc   : Nat,                               \* the allocator's counter
   policy  : [Keys -> Policies],                \* "protected:" records
   binding : [Keys -> Keys \cup {None}],        \* "guard:" records
   retired : [Keys -> Nat],                     \* "retired-guard:" records
   appends : [Keys -> 0 .. MaxAppends]]         \* tail of the record's stream

Init ==
  /\ db = [meta    |-> [k \in Keys |-> None], rev     |-> [k \in Keys |-> None],
           alloc   |-> 0,                     policy  |-> [k \in Keys |-> Plain],
           binding |-> [k \in Keys |-> None], retired |-> [k \in Keys |-> None],
           appends |-> [k \in Keys |-> 0]]
  /\ answer = NoAnswer /\ won = {}
  /\ handle = [k \in Keys |-> None]

\* The step of a command that ends with database d.
Becomes(d) ==
  /\ d.alloc <= MaxRevisions
  /\ db' = d /\ answer' = NoAnswer
  /\ UNCHANGED <<won, handle>>

----------------------------------------------------------------------------
(* Helpers of the apply transaction *)

Protected(k) == db.policy[k] # Plain

\* Mutant: every path counts its own revisions.
allocate_revision_PerPath(d, k) ==
  [d EXCEPT !.alloc = Max({@, d.rev[k] + 1}), !.rev[k] = @ + 1]

allocate_revision(d, k) == [d EXCEPT !.alloc = d.alloc + 1, !.rev[k] = d.alloc + 1]

\* Mutant: an ordinary write leaves the revision alone.
refresh_tracked_version_Kept(d, k) == d

\* Ordinary writes invalidate a revision and do not enroll a path.
refresh_tracked_version(d, k) ==
  IF k \in Managed /\ d.rev[k] # None THEN allocate_revision(d, k) ELSE d

Version(k) == IF db.meta[k] = None THEN None ELSE db.rev[k]
Image(k)   == [value |-> db.meta[k], version |-> Version(k)]

----------------------------------------------------------------------------
(* Ordinary metadata commands *)

SetMetadata(k, v) ==
  /\ ~Protected(k)
  /\ Becomes([refresh_tracked_version(db, k) EXCEPT !.meta[k] = v])

CasSetMetadata(k, v, e) ==
  /\ ~Protected(k)
  /\ db.meta[k] = e
  /\ Becomes([refresh_tracked_version(db, k) EXCEPT !.meta[k] = v])

DeleteMetadata(k) ==
  /\ ~Protected(k)
  /\ Becomes([refresh_tracked_version(db, k) EXCEPT !.meta[k] = None])

\* The row becomes a counter, which is a value that is not a file entry.
AdjustCounter(k, v) ==
  /\ ~Protected(k) /\ k \notin Managed
  /\ v \notin Renamable
  /\ Becomes([db EXCEPT !.meta[k] = v])

\* One pair of a rename: the source's revision is retired with its path, and
\* an admitted image is admitted under its new path.
MoveRevision(f, d, k) ==
  LET d1 == refresh_tracked_version(d, k)
  IN  IF d1 # d /\ f[k] \in Managed THEN allocate_revision(d1, f[k])
      ELSE refresh_tracked_version(d1, f[k])

RenameMetadata(f) ==
  LET rows    == {k \in DOMAIN f : db.meta[k] # None}
      targets == {f[k] : k \in rows}
      d       == FoldSet(LAMBDA k, acc : MoveRevision(f, acc, k), db, rows)
  IN  /\ \A k \in rows \cup targets : ~Protected(k)
      /\ \A k \in rows : db.meta[k] \in Renamable
      /\ \A k \in targets : db.meta[k] \in Renamable \cup {None}
      /\ Becomes([d EXCEPT !.meta = [k \in Keys |->
           IF k \in targets THEN db.meta[CHOOSE s \in rows : f[s] = k]
           ELSE IF k \in rows THEN None ELSE @[k]]])

----------------------------------------------------------------------------
(* Conditional writes and owner handles *)

\* write_versioned_in_txn, after the checks that refuse it.
Eligible(k) ==
  /\ k \in Managed \/ Protected(k)
  /\ db.meta[k] = None \/ db.rev[k] # None

write_versioned(k, v, e) ==
  LET d == [allocate_revision(db, k) EXCEPT !.meta[k] = v]
  IN  /\ Eligible(k)
      /\ \/ /\ Version(k) = e
            /\ d.alloc <= MaxRevisions
            /\ db' = d
            /\ answer' = [kind |-> "committed", key |-> k,
                          image |-> [value |-> v, version |-> d.rev[k]]]
            /\ won' = won \cup {[key |-> k, expected |-> e, version |-> d.rev[k]]}
         \/ /\ Version(k) # e
            /\ answer' = [kind |-> "conflict", key |-> k, image |-> Image(k)]
            /\ UNCHANGED <<db, won>>

\* Mutant: a retired owner is not recognised.
record_guard_refusal_Bound(k) == db.binding[k] # None

\* Conditional writes and appends that come without an owner handle.
record_guard_refusal(k) == db.retired[k] # None \/ db.binding[k] # None

\* Mutant: the retirement record is not read.
live_record_guard_Retired(g, h) == Protected(g) /\ db.meta[g] # None /\ db.rev[g] = h

live_record_guard(g, h) ==
  Protected(g) /\ db.retired[g] = None /\ db.meta[g] # None /\ db.rev[g] = h

\* Mutant: the handle's revision is not compared.
guarded_record_refusal_AnyHandle(k, h) ==
  db.binding[k] = None \/ db.retired[db.binding[k]] # None

\* GuardedRecord: the record has an owner, and the handle is its live one.
guarded_record_refusal(k, h) ==
  db.binding[k] = None \/ ~live_record_guard(db.binding[k], h)

WriteVersionedMetadata(k, v, e) ==
  /\ ~record_guard_refusal(k)
  /\ write_versioned(k, v, e)
  /\ UNCHANGED handle

\* GuardedRecord { ReplaceMetadata }
GuardedReplace(k, v, e, h) ==
  /\ ~guarded_record_refusal(k, h)
  /\ write_versioned(k, v, e)
  /\ handle' = IF db' = db THEN handle ELSE [handle EXCEPT ![k] = h]

\* AppendStreamEntry and GuardedRecord { Append }; seals and trims of the
\* stream pass the same two tests.
AppendStreamEntry(k) ==
  /\ ~record_guard_refusal(k)
  /\ db.appends[k] < MaxAppends
  /\ Becomes([db EXCEPT !.appends[k] = @ + 1])

GuardedAppend(k, h) ==
  /\ ~guarded_record_refusal(k, h)
  /\ db.appends[k] < MaxAppends
  /\ db' = [db EXCEPT !.appends[k] = @ + 1] /\ answer' = NoAnswer
  /\ handle' = [handle EXCEPT ![k] = h]
  /\ UNCHANGED won

\* adopt_protected_in_txn on a path that has no policy yet.
Adopted(d, k) ==
  LET e == IF d.meta[k] = None THEN d ELSE allocate_revision(d, k)
  IN  [e EXCEPT !.policy[k] = "conditional-only"]

AdoptProtectedMetadata(k, image) ==
  /\ ~Protected(k) /\ db.meta[k] = image
  /\ Becomes(Adopted(db, k))

mark_record_owner(d, k) == [d EXCEPT !.policy[k] = IF @ = "record-owner-io" THEN @ ELSE "record-owner"]

\* Mutant: an owner may be bound to another owner.
Bindable_Owner(k) == db.retired[k] = None /\ db.binding[k] = None

\* What may still become a guarded record.
Bindable(k) ==
  db.policy[k] \notin Owners /\ db.retired[k] = None /\ db.binding[k] = None

BindRecordGuard(k, image, g, h) ==
  LET d == IF Protected(k) THEN db ELSE Adopted(db, k)
  IN  /\ k # g /\ db.binding[g] = None /\ live_record_guard(g, h)
      /\ Bindable(k)
      /\ db.meta[k] = image
      /\ Becomes([mark_record_owner(d, g) EXCEPT !.binding[k] = g])

RetireRecordGuard(k, h, v) ==
  LET d == [mark_record_owner(allocate_revision(db, k), k) EXCEPT !.meta[k] = v]
  IN  /\ db.binding[k] = None /\ live_record_guard(k, h)
      /\ d.alloc <= MaxRevisions
      /\ db' = [d EXCEPT !.retired[k] = d.rev[k]]
      /\ answer' = [kind |-> "committed", key |-> k,
                    image |-> [value |-> v, version |-> d.rev[k]]]
      /\ won' = won \cup {[key |-> k, expected |-> h, version |-> d.rev[k]]}
      /\ UNCHANGED handle

AdmitRecordIoOwner(k, h) ==
  /\ db.binding[k] = None /\ live_record_guard(k, h)
  /\ Becomes([db EXCEPT !.policy[k] = "record-owner-io"])

----------------------------------------------------------------------------
\* The revisions a caller can have read, and no revision.
Read == 0 .. db.alloc

Next ==
  \/ \E k \in Keys, v \in Values : SetMetadata(k, v)
  \/ \E k \in Keys, v \in Values, e \in Values \cup {None} : CasSetMetadata(k, v, e)
  \/ \E k \in Keys : DeleteMetadata(k)
  \/ \E k \in Keys, v \in Values : AdjustCounter(k, v)
  \/ \E f \in Renames : RenameMetadata(f)
  \/ \E k \in Keys, v \in Values, e \in Read : WriteVersionedMetadata(k, v, e)
  \/ \E k \in Keys, v \in Values, e \in Read, h \in Read : GuardedReplace(k, v, e, h)
  \/ \E k \in Keys : AppendStreamEntry(k)
  \/ \E k \in Keys, h \in Read : GuardedAppend(k, h)
  \/ \E k \in Keys, image \in Values \cup {None} : AdoptProtectedMetadata(k, image)
  \/ \E k, g \in Keys, image \in Values \cup {None}, h \in Read :
       BindRecordGuard(k, image, g, h)
  \/ \E k \in Keys, h \in Read, v \in Values : RetireRecordGuard(k, h, v)
  \/ \E k \in Keys, h \in Read : AdmitRecordIoOwner(k, h)

Spec == Init /\ [][Next]_vars

----------------------------------------------------------------------------
(* Properties *)

\* Types of the tables and control records; revisions come from the allocator.
TypeOK ==
  /\ db \in Database
  /\ \A k \in Keys : db.rev[k] <= db.alloc /\ db.retired[k] <= db.alloc

\* write_versioned_in_txn: a revision is compared and replaced in one
\* transaction, so of all writes that were computed from one image, on any
\* path and however long they waited in the log, at most one commits.
OneWinner ==
  \A a, b \in won : a.expected = b.expected /\ a.expected # None => a = b

\* bind_record_guard and retire_record_guard: an owner of records stays what
\* its records rely on: protected, present, not a record of another owner;
\* once retired, it stands at the revision that retirement published, which is
\* what retired_record_io_domain needs to reclaim its files.
OwnersStand ==
  \A k \in Keys :
    /\ db.binding[k] # None =>
         LET g == db.binding[k]
         IN  db.policy[g] \in Owners /\ db.meta[g] # None /\ db.binding[g] = None
    /\ db.retired[k] # None => db.meta[k] # None /\ db.rev[k] = db.retired[k]

\* "Retirement ... permanently revoke[s] its handles": after the owner is
\* retired no command changes it, its records or their streams, whatever
\* handle or revision it carries.
RetiredIsFinal ==
  [][\A k \in Keys :
       (db.retired[k] # None \/ (db.binding[k] # None /\ db.retired[db.binding[k]] # None))
       => /\ db'.meta[k] = db.meta[k] /\ db'.rev[k] = db.rev[k]
          /\ db'.binding[k] = db.binding[k] /\ db'.retired[k] = db.retired[k]
          /\ (db.binding[k] # None => db'.appends[k] = db.appends[k])]_vars

\* The owner comparison of GuardedRecord is a fence: once a record was written
\* under a handle, nothing is written to it under an earlier one.
HandlesFence == [][\A k \in Keys : handle'[k] >= handle[k]]_vars

\* What the properties rest on.  A revision names one path for ever, and those
\* that a committed write was computed from are used up.
RevisionsNameImages ==
  /\ \A j, k \in Keys : db.rev[j] = db.rev[k] /\ db.rev[j] # None => j = k
  /\ \A w \in won : w.expected # None =>
       w.expected <= db.alloc /\ \A k \in Keys : db.rev[k] # w.expected

\* Only managed and protected paths have revisions, and a protected row has one.
TrackedPaths ==
  \A k \in Keys : /\ db.rev[k] # None => k \in Managed \/ Protected(k)
                  /\ Protected(k) /\ db.meta[k] # None => db.rev[k] # None

\* Records and retired owners stay protected, a record is never an owner, and
\* the last handle is not ahead of the owner.
GuardsHold ==
  \A k \in Keys :
    /\ db.binding[k] # None => Protected(k) /\ db.retired[k] = None
    /\ db.retired[k] # None => db.policy[k] \in Owners
    /\ handle[k] <= IF db.binding[k] = None THEN 0 ELSE db.rev[db.binding[k]]

HistoryOK ==
  /\ won \subseteq [key : Keys, expected : Nat, version : Nat]
  /\ handle \in [Keys -> Nat]
  /\ db.alloc <= MaxRevisions

IndInv ==
  /\ TypeOK /\ HistoryOK
  /\ RevisionsNameImages /\ TrackedPaths /\ GuardsHold
  /\ OneWinner /\ OwnersStand

\* The tables implement versioned images (VersionedImages).
Versioned == INSTANCE VersionedImages WITH
  Revisions <- 1 .. MaxRevisions,
  image     <- [k \in Keys |-> Image(k)],
  spent     <- 1 .. db.alloc,
  answer    <- answer

ImplementsVersionedImages == Versioned!Spec
=============================================================================
