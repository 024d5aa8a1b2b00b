----------------------------- MODULE Migrations -----------------------------
(***************************************************************************)
(* The schema migrations every start runs before it serves (migrations.py, *)
(* main.py:24-35), on PostgreSQL.                                          *)
(*                                                                         *)
(* migrate_schema is one list of steps, Plan, each a reading of the schema *)
(* or a transaction.  What it has to do for old rows it decides by the     *)
(* columns and tables a reading has not found, and adds the column in an   *)
(* earlier transaction than the one that fills it: processes may end, or   *)
(* others start, in between.                                               *)
(*                                                                         *)
(* Abstracted: the types, defaults, indexes and keys of columns, and the   *)
(* values a backfill computes.                                             *)
(***************************************************************************)
EXTENDS Naturals, Sequences, TLC

CONSTANTS Procs,     \* backend processes
          Plan,      \* the steps of migrate_schema
          TableOf,   \* the table of each column; what else a start provides
                     \* (tables, the default modset) counts as a column here
          Chosen,    \* columns whose old rows users set, too
          Installed, \* schemas of installations this version may find
          MaxStops   \* bound on exits and failing statements

Step(op, of) == [op |-> op, of |-> of]

(* The steps in their order.  Columns that are only added (tracking_reason,*)
(* is_core, load_order, shared, theme_preference, session_version, the     *)
(* identity of OIDC) are added as modset_id is, and left out.              *)
MigrateSchema == <<
    Step("ensure", "mod_refresh_jobs"), Step("ensure", "default modset"),
    Step("read", "user_mods"), Step("add", "dependency_origin"), Step("add", "modset_id"),
    Step("read", "modsets"), Step("add", "owner_user_id"), Step("fill", "owner_user_id"),
    Step("always", "modset_id"), Step("fill", "dependency_origin"),
    Step("read", "tables"), Step("always", "webhook_url"),
    Step("create", "discord_webhook_modsets"), Step("fill", "discord_webhook_modsets"),
    Step("read", "users"), Step("add", "active_modset_id"),
    Step("fill", "active_modset_id"), Step("ensure", "groups")>>

Tables ==
    [c \in {"dependency_origin", "modset_id"} |-> "user_mods"]
    @@ [c \in {"owner_user_id", "default modset"} |-> "modsets"]
    @@ "active_modset_id" :> "users"
    @@ [c \in {"discord_webhook_modsets", "mod_refresh_jobs", "groups"} |-> "tables"]
    @@ "webhook_url" :> "discord_webhooks"

Columns == DOMAIN TableOf
Steps == [op : {"read", "add", "create", "fill", "always", "ensure"}, of : STRING]
Has(op, c) == \E i \in DOMAIN Plan : Plan[i] = Step(op, c)
(* Columns filled once, by the process that adds them, and at every start. *)
Filled == {c \in Columns : Has("fill", c)}
Repeated == {c \in Columns : Has("always", c)}
Rows == Filled \cup Repeated

ASSUME MigrationsOK ==
    /\ Plan \in Seq(Steps)
    /\ \A i \in DOMAIN Plan :
         /\ Plan[i].op # "read" => Plan[i].of \in Columns
         /\ Plan[i].op \in {"add", "create", "fill"} =>
               \E j \in 1..(i - 1) : Plan[j] = Step("read", TableOf[Plan[i].of])
         /\ Plan[i].op = "ensure" => Plan[i].of \notin Filled
    /\ \A i, j \in DOMAIN Plan :
         Plan[i].op \in {"add", "create"} /\ Plan[j].op = "fill" /\ Plan[i].of = Plan[j].of
         => i < j
    /\ \A i, j \in DOMAIN Plan : Plan[i].op = "read" /\ Plan[i] = Plan[j] => i = j
    /\ Chosen \subseteq Filled
    /\ \A s \in Installed : s \subseteq Columns
    /\ \A c \in Columns : \/ \E op \in {"add", "create", "ensure"} : Has(op, c)
                          \/ \A s \in Installed : c \in s
    /\ MaxStops \in Nat

VARIABLES schema,  \* the columns that exist
          rows,    \* rows[c]: the old rows as to what c holds for them
          at,      \* at[p]: the step process p is at; 0 stopped
          missing, \* missing[p]: the columns p has not found
          owes,    \* owes[p]: columns p has added and not yet filled
          torn,    \* columns no later start fills: their process stopped
                   \* while it owed them, or found nobody to own the rows
          crossed, \* processes about to fill a column a user chose meanwhile
          users,   \* whether there is a user yet
          stops    \* exits and failures so far

migrationVars == <<schema, rows, at, missing, owes, torn, crossed, users, stops>>

Serving == Len(Plan) + 2
Up == {p \in Procs : at[p] = Serving}

MigrationsTypeOK ==
    /\ schema \subseteq Columns
    /\ rows \in [Rows -> {"old", "filled", "chosen"}]
    /\ at \in [Procs -> 0..Serving]
    /\ missing \in [Procs -> SUBSET Columns]
    /\ owes \in [Procs -> SUBSET Filled]
    /\ torn \subseteq Filled
    /\ crossed \subseteq Procs
    /\ users \in BOOLEAN
    /\ stops \in 0..MaxStops
    /\ \A p \in Procs : owes[p] \subseteq schema \cap missing[p]

(* After create_all: the tables of an earlier version, with rows.  The     *)
(* tables create_all leaves out are the migration's.                       *)
MigrationsInit ==
    /\ schema \in Installed
    /\ rows = [c \in Rows |-> IF c \in schema \cap Filled THEN "chosen" ELSE "old"]
    /\ at = [p \in Procs |-> 0]
    /\ missing = [p \in Procs |-> {}]
    /\ owes = [p \in Procs |-> {}]
    /\ torn = {}
    /\ crossed = {}
    /\ users \in BOOLEAN
    /\ stops = 0
-----------------------------------------------------------------------------
Doing(p, op) == at[p] \in DOMAIN Plan /\ Plan[at[p]].op = op
Of(p) == Plan[at[p]].of
Goes(p) == at' = [at EXCEPT ![p] = @ + 1]

(* The process ends: lifespan raises, or it is stopped. *)
Ends(p) == /\ at' = [at EXCEPT ![p] = 0]
           /\ owes' = [owes EXCEPT ![p] = {}]
           /\ torn' = torn \cup owes[p]
           /\ missing' = [missing EXCEPT ![p] = {}]
           /\ crossed' = crossed \ {p}
           /\ UNCHANGED <<schema, rows, users>>

Start(p) == /\ at[p] = 0
            /\ at' = [at EXCEPT ![p] = 1]
            /\ UNCHANGED <<schema, rows, missing, owes, torn, crossed, users, stops>>

(* inspector.get_columns or get_table_names: read once and remembered. *)
Read(p) == /\ Doing(p, "read")
           /\ Goes(p)
           /\ missing' = [missing EXCEPT ![p] =
                            @ \cup {c \in Columns \ schema : TableOf[c] = Of(p)}]
           /\ UNCHANGED <<schema, rows, owes, torn, crossed, users, stops>>

(* Mutant: the column is added whether or not it was found. *)
DueAlways(p, c) == TRUE

Due(p, c) == c \in missing[p]

(* ALTER TABLE fails when another process has added the column since; the  *)
(* table of scopes is created IF NOT EXISTS.                               *)
Conflict(p) == Doing(p, "add") /\ Due(p, Of(p)) /\ Of(p) \in schema /\ Ends(p) /\ UNCHANGED stops

Add(p) == LET c == Of(p)
              adds == IF Due(p, c) THEN {c} ELSE {}
          IN /\ Doing(p, "add") \/ Doing(p, "create")
             /\ Doing(p, "add") /\ Due(p, c) => c \notin schema
             /\ Goes(p)
             /\ schema' = schema \cup adds
             /\ owes' = [owes EXCEPT ![p] = @ \cup (adds \cap Filled)]
             /\ UNCHANGED <<rows, missing, torn, crossed, users, stops>>

(* Mutant: the schema is read anew instead of the remembered one. *)
UnfilledByNow(p, c) == c \notin schema

(* Mutant: every start fills. *)
UnfilledAlways(p, c) == TRUE

(* Who has not found the column fills it. *)
Unfilled(p, c) == c \in missing[p]

(* The backfills only touch rows without a value (WHERE ... IS NULL), but  *)
(* for the scopes, where every modset is added to every webhook.           *)
Backfilled(c, value) == IF value = "old" \/ (c = "discord_webhook_modsets" /\ value = "chosen")
                        THEN "filled" ELSE value

(* There is no user to own the modsets. *)
Ownerless(c) == c = "owner_user_id" /\ ~users

Fill(p) == LET c == Of(p)
               due == Unfilled(p, c)
           IN /\ Doing(p, "fill")
              /\ Goes(p)
              /\ rows' = IF due /\ ~Ownerless(c) THEN [rows EXCEPT ![c] = Backfilled(c, @)] ELSE rows
              /\ torn' = IF due /\ Ownerless(c) THEN torn \cup {c} ELSE torn
              /\ owes' = [owes EXCEPT ![p] = @ \ {c}]
              /\ UNCHANGED <<schema, missing, crossed, users, stops>>

Completes(c) == IF rows[c] = "old" THEN "filled" ELSE rows[c]

(* Done at every start: modset_id, load_order, the encryption of webhooks. *)
Always(p) == /\ Doing(p, "always")
             /\ Goes(p)
             /\ rows' = [rows EXCEPT ![Of(p)] = Completes(Of(p))]
             /\ UNCHANGED <<schema, missing, owes, torn, crossed, users, stops>>

(* A ledger entry with its tables under the advisory lock, or the default  *)
(* modset: one transaction, nothing when it is there.                      *)
Ensure(p) == /\ Doing(p, "ensure")
             /\ Goes(p)
             /\ schema' = schema \cup {Of(p)}
             /\ UNCHANGED <<rows, missing, owes, torn, crossed, users, stops>>

(* The process makes the administrator its settings name, if they do,      *)
(* starts its threads and serves.                                          *)
Serve(p) == /\ at[p] = Len(Plan) + 1
            /\ Goes(p)
            /\ missing' = [missing EXCEPT ![p] = {}]
            /\ crossed' = crossed \ {p}
            /\ users' \in {users, TRUE}
            /\ UNCHANGED <<schema, rows, owes, torn, stops>>

(* A statement fails, or the process exits or is stopped. *)
Stop(p) == /\ at[p] # 0
           /\ stops < MaxStops
           /\ stops' = stops + 1
           /\ Ends(p)

(* Users of a process that serves choose their active modset, or the scope *)
(* of a webhook.                                                           *)
Choose(c) == /\ Up # {} /\ users
             /\ rows' = [rows EXCEPT ![c] = "chosen"]
             /\ crossed' = crossed \cup {p \in Procs : c \in missing[p]}
             /\ UNCHANGED <<schema, at, missing, owes, torn, users, stops>>
-----------------------------------------------------------------------------
Run(p) == \/ Start(p) \/ Read(p) \/ Conflict(p) \/ Add(p)
          \/ Fill(p) \/ Always(p) \/ Ensure(p) \/ Serve(p)

MigrationsNext == \/ \E p \in Procs : Run(p) \/ Stop(p)
                  \/ \E c \in Chosen : Choose(c)

MigrationsSpec == MigrationsInit /\ [][MigrationsNext]_migrationVars
-----------------------------------------------------------------------------
(* A process that serves has the whole schema, and no old row is left      *)
(* without what later versions keep for it ("Existing ... are retained",   *)
(* group-sharing-upgrade.md:55), unless the process that added a column    *)
(* stopped before it had filled it, or found no user to own the modsets:   *)
(* the next start finds the column and fills nothing.  While another       *)
(* process is still about to fill it, its rows are behind.                 *)
OldRowsFilled ==
    Up # {} => /\ schema = Columns
               /\ \A c \in Rows : rows[c] = "old" => \/ c \in torn
                                                     \/ \E p \in Procs : c \in owes[p]

(* What users have chosen no start changes ("Existing scopes are           *)
(* authoritative", migrations.py:200; test_migrations.py:56, 78), but for  *)
(* the scopes when the start had not found their table before.             *)
ChoiceUnchanged ==
    \A c \in Rows : rows[c] = "chosen" /\ rows'[c] # "chosen"
                    => c = "discord_webhook_modsets" /\ \E p \in crossed : at'[p] # at[p]
ChoicesRetained == [][ChoiceUnchanged]_migrationVars

(* In the end no process is still migrating, or fails at it again and      *)
(* again: those that were started serve, whatever stopped them on the way  *)
(* ("retried on the next start", group-sharing-upgrade.md:59).             *)
StartsSucceed == <>[](\A p \in Procs : at[p] \in {0, Serving})
=============================================================================
