----------------------------- MODULE JobsTable -----------------------------
(***************************************************************************)
(* The `jobs` table (infra/migrations/001 and 002) and the SQL statements  *)
(* the two services run on one of its rows: the worker's claim and marks   *)
(* (apps/worker/src/services/jobService.ts) and the API's insert and       *)
(* replay (apps/api/src/services/jobService.ts).  Each statement is one    *)
(* single-row UPDATE or INSERT, so it is a guard on the row (its WHERE     *)
(* clause) and the row it leaves; Postgres's row lock makes it atomic.     *)
(*                                                                         *)
(* Data kept: the columns that decide something.  A timestamp is kept as   *)
(* what the code asks of it: updated_at as "recent" or "stale" (older than *)
(* STALE_PROCESSING_THRESHOLD_SECONDS), last_dead_lettered_at and          *)
(* last_dead_letter_reason together as "null" or "set", last_error as      *)
(* "null" or "message".                                                    *)
(***************************************************************************)
EXTENDS Naturals

CONSTANTS
    Payloads,      \* what processJob() can tell apart in a job's payload
    MaxAttempts,   \* the max_attempts column (DEFAULT 5, never updated)
    None           \* no payload, no message, no handler

ASSUME TableAssumption ==
    /\ MaxAttempts \in Nat \ {0}
    /\ None \notin Payloads

\* "ABSENT" is the id of a row not inserted yet; 'FAILED' is in the CHECK
\* constraint, but its only writer, markFailed(), has no caller.
Status == {"ABSENT", "QUEUED", "PROCESSING", "RETRYING", "COMPLETED",
           "FAILED", "DEAD_LETTERED"}

Row == [ status              : Status,
         attempt_count       : Nat,
         total_attempt_count : Nat,
         replay_count        : Nat,
         payload             : Payloads \cup {None},
         last_error          : {"null", "message"},
         last_dead_letter    : {"null", "set"},
         updated_at          : {"recent", "stale"} ]

NewRow(p) == [ status              |-> "QUEUED",
               attempt_count       |-> 0,
               total_attempt_count |-> 0,
               replay_count        |-> 0,
               payload             |-> p,
               last_error          |-> "null",
               last_dead_letter    |-> "null",
               updated_at          |-> "recent" ]

NoRow == [NewRow(None) EXCEPT !.status = "ABSENT"]

-----------------------------------------------------------------------------
(* The worker's statements.                                                *)

\* Mutant: a PROCESSING row is claimable whatever its age.
MutClaimable(r) == r.status \in {"QUEUED", "RETRYING", "PROCESSING"}

Claimable(r) ==
    \/ r.status \in {"QUEUED", "RETRYING"}
    \/ r.status = "PROCESSING" /\ r.updated_at = "stale"

claimJob(r) == [r EXCEPT !.status              = "PROCESSING",
                         !.attempt_count       = @ + 1,
                         !.total_attempt_count = @ + 1,
                         !.updated_at          = "recent"]

\* Mutant: a mark whose WHERE clause names only the id, as markFailed()'s.
MutMarkable(r) == r.status # "ABSENT"

\* The WHERE clause all three marks share; zero rows makes them throw.
Markable(r) == r.status = "PROCESSING"

markCompleted(r) == [r EXCEPT !.status     = "COMPLETED",
                              !.last_error = "null",
                              !.updated_at = "recent"]

markRetrying(r) == [r EXCEPT !.status     = "RETRYING",
                             !.last_error = "message",
                             !.updated_at = "recent"]

markDeadLettered(r) == [r EXCEPT !.status           = "DEAD_LETTERED",
                                 !.last_error       = "message",
                                 !.last_dead_letter = "set",
                                 !.updated_at       = "recent"]

-----------------------------------------------------------------------------
(* The API's statement on an existing row.                                 *)

\* Mutant: any settled job can be replayed.
MutReplayable(r) == r.status \in {"COMPLETED", "DEAD_LETTERED"}

Replayable(r) == r.status = "DEAD_LETTERED"

\* Mutant: a replay that keeps the attempts of the cycle before it.
MutClaimReplay(r) ==
    [r EXCEPT !.status       = "QUEUED",
              !.replay_count = @ + 1,
              !.last_error   = "null",
              !.updated_at   = "recent"]

claimReplay(r) == [r EXCEPT !.status        = "QUEUED",
                            !.attempt_count = 0,
                            !.replay_count  = @ + 1,
                            !.last_error    = "null",
                            !.updated_at    = "recent"]

=============================================================================
