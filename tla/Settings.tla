------------------------------ MODULE Settings ------------------------------
(***************************************************************************)
(* PATCH requests on one row of an organization's settings: a monitor,     *)
(* whose row is locked from the read to the commit, or a notification      *)
(* destination or status page, whose row is not.  A request reads the row, *)
(* merges the fields it names, reads the row once more and writes each     *)
(* column that differs from this second reading.                           *)
(***************************************************************************)
EXTENDS Naturals, FiniteSets

CONSTANTS Request,  \* PATCH requests at a time
          NoOne     \* the holder of a free row lock

(* A field has two values, which is what it takes to lose an update; of the
   optional ones FALSE is null.  method: HEAD or GET; body: body_contains.  A
   destination's other columns are like those of a page. *)
Kinds     == {"monitor", "destination", "page"}
Fields(k) == CASE k = "monitor"     -> {"interval", "method", "body"}
               [] k = "destination" -> {"username", "password"}
               [] k = "page"        -> {"name", "published"}

(* The JSON column config holds several fields. *)
Column(f) == IF f \in {"method", "body", "username", "password"} THEN "config" ELSE f

VARIABLES kind,  \* which resource this is
          row,   \* the fields of the row
          lock,  \* the request that holds the row FOR UPDATE
          tx     \* the transactions

vars == <<kind, row, lock, tx>>

Rows(k)    == [Fields(k) -> BOOLEAN]
Patches(k) == UNION {[F -> BOOLEAN] : F \in SUBSET Fields(k)}

(* validate_body_check: a response to HEAD has no body to look into. *)
Accepted(r) == kind = "monitor" => ~(r["method"] /\ r["body"])

Idle == [pc |-> "idle"]

Init ==
  /\ kind \in Kinds
  /\ row \in {r \in Rows(kind) : Accepted(r)}
  /\ lock = NoOne
  /\ tx = [q \in Request |-> Idle]

(* Mutant: a credential that is not named is taken for null
   (model_fields_set is forgotten). *)
Merge_Null(old, patch) ==
  [f \in DOMAIN old |-> IF f \in DOMAIN patch THEN patch[f]
                        ELSE f \notin {"username", "password"} /\ old[f]]

Merge(old, patch) ==
  [f \in DOMAIN old |-> IF f \in DOMAIN patch THEN patch[f] ELSE old[f]]

(* Mutant: a plain SELECT. *)
Read_Plain(q) ==
  /\ tx[q].pc = "idle"
  /\ \E p \in Patches(kind) :
       tx' = [tx EXCEPT ![q] = [pc |-> "read", patch |-> p, old |-> row]]
  /\ UNCHANGED <<kind, row, lock>>

Read(q) ==
  /\ tx[q].pc = "idle"
  /\ IF kind = "monitor" THEN lock = NoOne /\ lock' = q ELSE UNCHANGED lock
  /\ \E p \in Patches(kind) :
       tx' = [tx EXCEPT ![q] = [pc |-> "read", patch |-> p, old |-> row]]
  /\ UNCHANGED <<kind, row>>

Close(q) ==
  /\ tx' = [tx EXCEPT ![q] = Idle]
  /\ lock' = IF lock = q THEN NoOne ELSE lock

(* Mutant: only what the request names is checked. *)
Reread_Partial(q) ==
  /\ tx[q].pc = "read"
  /\ Accepted([f \in Fields(kind) |-> f \in DOMAIN tx[q].patch /\ tx[q].patch[f]])
  /\ tx' = [tx EXCEPT ![q] =
       [pc |-> "write", patch |-> tx[q].patch, old |-> tx[q].old,
        new |-> Merge(tx[q].old, tx[q].patch), fresh |-> row]]
  /\ UNCHANGED <<kind, row, lock>>

Reread(q) ==
  /\ tx[q].pc = "read"
  /\ Accepted(Merge(tx[q].old, tx[q].patch))
  /\ tx' = [tx EXCEPT ![q] =
       [pc |-> "write", patch |-> tx[q].patch, old |-> tx[q].old,
        new |-> Merge(tx[q].old, tx[q].patch), fresh |-> row]]
  /\ UNCHANGED <<kind, row, lock>>

(* A column is written if one of its fields differs from what was read last. *)
Dirty(q) ==
  {Column(f) : f \in {g \in Fields(kind) : tx[q].new[g] # tx[q].fresh[g]}}

Write(q) ==
  /\ tx[q].pc = "write"
  /\ row' = [f \in Fields(kind) |->
               IF Column(f) \in Dirty(q) THEN tx[q].new[f] ELSE row[f]]
  /\ Close(q)
  /\ UNCHANGED kind

(* A rejected configuration, an error, or a lost connection. *)
Rollback(q) ==
  /\ tx[q].pc # "idle"
  /\ Close(q)
  /\ UNCHANGED <<kind, row>>

Next == \E q \in Request : Read(q) \/ Reread(q) \/ Write(q) \/ Rollback(q)

Spec == Init /\ [][Next]_vars

-----------------------------------------------------------------------------
(* A stored configuration is one that a create request would be allowed, even
   if one request makes a monitor use HEAD and another one gives it a text to
   look for at the same time. *)
StoredIsAccepted == Accepted(row)

Named(f) == \E q \in Request : tx[q].pc = "write" /\ tx'[q].pc = "idle"
                               /\ f \in DOMAIN tx[q].patch

(* A PATCH of a destination or page may undo another one, as no lock is held:
   a field it does not name changes only back to what it was when the request
   came, hence after another request has changed it meanwhile. *)
UndoneWasConcurrent ==
  [][\A f \in Fields(kind) : row'[f] # row[f] /\ ~Named(f) =>
       /\ kind # "monitor"
       /\ \E q \in Request : tx[q].pc = "write" /\ tx'[q].pc = "idle"
                             /\ row'[f] = tx[q].old[f]]_vars

-----------------------------------------------------------------------------
(* The inductive invariant behind them. *)

Txs(k) ==
  {Idle} \cup [pc : {"read"}, patch : Patches(k), old : Rows(k)]
         \cup [pc : {"write"}, patch : Patches(k), old : Rows(k), new : Rows(k),
               fresh : Rows(k)]

TypeOK ==
  /\ kind \in Kinds /\ row \in Rows(kind)
  /\ lock \in Request \cup {NoOne}
  /\ tx \in [Request -> Txs(kind)]

(* What is about to be written is the accepted merge of what was read first. *)
MergesFit ==
  \A q \in Request : tx[q].pc = "write" =>
    tx[q].new = Merge(tx[q].old, tx[q].patch) /\ Accepted(tx[q].new)

(* Who edits a monitor has its lock, so that what it has read is what is there. *)
MonitorsAreLocked ==
  kind = "monitor" => \A q \in Request : tx[q].pc # "idle" =>
    /\ lock = q /\ tx[q].old = row
    /\ tx[q].pc = "write" => tx[q].fresh = row

SettingsInv == TypeOK /\ StoredIsAccepted /\ MergesFit /\ MonitorsAreLocked
=============================================================================
