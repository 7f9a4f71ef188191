--------------------------- MODULE AgentConfirmation ---------------------------
(***************************************************************************)
(* The glass-key confirmations of the admin agent: a sensitive operation   *)
(* is stored as an AgentConfirmation row with a single-use token, the      *)
(* requester presses "confirm" or "cancel" before it expires, and the      *)
(* callback that claims the row carries the operation out.                 *)
(*                                                                         *)
(* Several callbacks run at once in the bot (the button pressed twice, in  *)
(* two clients), each suspended at every Telegram or database call, where  *)
(* the bot may die.  Beside them an operator runs the management command   *)
(* agent_confirmations_recover --fail, which takes a list of stuck rows in *)
(* one query and updates them in another.                                  *)
(*                                                                         *)
(* A callback keeps the row it claimed in memory: mark_executed and        *)
(* mark_failed consult that copy, not the table.                           *)
(***************************************************************************)
EXTENDS Integers

CONSTANTS
    Confirmations,      \* rows of the table, before and after their creation
    Callbacks,          \* callback queries handled at the same time
    TTL,                \* ticks until a pending row expires
    StuckAfter,         \* age at which an executing row is stuck
    MaxCrashes,         \* bound: crashes of the bot
    MaxDemotions        \* bound: times the requester loses the admin rights

ASSUME ConfirmationAssumption ==
    /\ TTL \in Nat \ {0}
    /\ StuckAfter \in Nat \ {0}
    /\ MaxCrashes \in Nat
    /\ MaxDemotions \in Nat

VARIABLES
    \* the table
    status,         \* confirmation -> status of its row
    left,           \* confirmation -> ticks until it expires (expires_at - now)
    age,            \* confirmation -> ticks since executing_started_at
    \* the processes
    callback,       \* callback -> its place, its row, the status it has in memory
    stuck,          \* rows the recover command has listed and not yet updated
    \* Telegram
    isAdmin,        \* the requester administers the operational chat
    \* observation only
    runs,           \* confirmation -> times its tool handler was started
    wasAdmin,       \* confirmation -> isAdmin held at some moment since its claim
    crashes,
    demotions

row == <<status, left, age>>
vars == <<row, callback, stuck, isAdmin, runs, wasAdmin, crashes, demotions>>

(* "expired" is missing: the only code that runs and sets it is undone     *)
(* with its transaction (see Claim), and nothing calls expire_stale.       *)
(* "confirmed" is never set.                                               *)
Status == {"absent", "pending", "cancelled", "executing", "executed", "failed"}
CallbackPc == {"idle", "check", "target", "handler", "mark", "failing"}

(* VALID_TRANSITIONS, without the statuses that never occur.               *)
ValidTransitions ==
    {<<"pending", "executing">>, <<"pending", "cancelled">>,
     <<"executing", "executed">>, <<"executing", "failed">>}

CanTransition(current, target) == <<current, target>> \in ValidTransitions

(* What a callback remembers of its row, once it has claimed it.           *)
Seen == {"absent", "executing", "executed"}

At(pc, c, seen) == [pc |-> pc, of |-> {c}, seen |-> seen]
Idle == [pc |-> "idle", of |-> {}, seen |-> "absent"]

TypeOK ==
    /\ status \in [Confirmations -> Status]
    /\ left \in [Confirmations -> 0 .. TTL]
    /\ age \in [Confirmations -> 0 .. StuckAfter]
    /\ callback \in [Callbacks -> [pc: CallbackPc, of: SUBSET Confirmations, seen: Seen]]
    /\ stuck \subseteq Confirmations
    /\ isAdmin \in BOOLEAN
    /\ runs \in [Confirmations -> Nat]
    /\ wasAdmin \in [Confirmations -> BOOLEAN]
    /\ crashes \in 0 .. MaxCrashes
    /\ demotions \in 0 .. MaxDemotions

Init ==
    /\ status = [c \in Confirmations |-> "absent"]
    /\ left = [c \in Confirmations |-> 0]
    /\ age = [c \in Confirmations |-> 0]
    /\ callback = [k \in Callbacks |-> Idle]
    /\ stuck = {}
    /\ isAdmin = TRUE
    /\ runs = [c \in Confirmations |-> 0]
    /\ wasAdmin = [c \in Confirmations |-> FALSE]
    /\ crashes = 0
    /\ demotions = 0

SetStatus(c, new) == status' = [status EXCEPT ![c] = new] /\ UNCHANGED <<left, age>>

-------------------------------------------------------------------------------
(* create_confirmation, at the end of handle_admin_command.  The requester *)
(* was an administrator when it began, perhaps by a cached answer.         *)
Create(c) ==
    /\ status[c] = "absent"
    /\ status' = [status EXCEPT ![c] = "pending"]
    /\ left' = [left EXCEPT ![c] = TTL]
    /\ UNCHANGED age
    /\ UNCHANGED <<callback, stuck, isAdmin, runs, wasAdmin, crashes, demotions>>

(* claim_for_execution, for a click of the requester in the right chat.    *)
(* Any other click, and a click on a row that is not pending, raises and   *)
(* changes nothing; so does one on an expired row, since the "expired" it  *)
(* saves is rolled back by the ConfirmationExpired it then raises inside   *)
(* transaction.atomic.                                                     *)
FaultyClaim(k, c) ==
    /\ callback[k].pc = "idle"
    /\ status[c] \in {"pending", "executing"}
    /\ left[c] > 0
    /\ SetStatus(c, "executing")
    /\ callback' = [callback EXCEPT ![k] = At("check", c, "executing")]
    /\ wasAdmin' = [wasAdmin EXCEPT ![c] = isAdmin]
    /\ UNCHANGED <<stuck, isAdmin, runs, crashes, demotions>>

FaultyClaimReturnsOldCopy(k, c) ==
    /\ callback[k].pc = "idle"
    /\ status[c] = "pending"
    /\ left[c] > 0
    /\ SetStatus(c, "executing")
    /\ callback' = [callback EXCEPT ![k] = At("check", c, "pending")]
    /\ wasAdmin' = [wasAdmin EXCEPT ![c] = isAdmin]
    /\ UNCHANGED <<stuck, isAdmin, runs, crashes, demotions>>

Claim(k, c) ==
    /\ callback[k].pc = "idle"
    /\ status[c] = "pending"
    /\ left[c] > 0
    /\ SetStatus(c, "executing")
    /\ callback' = [callback EXCEPT ![k] = At("check", c, "executing")]
    /\ wasAdmin' = [wasAdmin EXCEPT ![c] = isAdmin]
    /\ UNCHANGED <<stuck, isAdmin, runs, crashes, demotions>>

(* cancel_confirmation: the same checks, but an expired row is cancelled.  *)
FaultyCancel(c) ==
    /\ status[c] \in {"pending", "executing"}
    /\ SetStatus(c, "cancelled")
    /\ UNCHANGED <<callback, stuck, isAdmin, runs, wasAdmin, crashes, demotions>>

Cancel(c) ==
    /\ status[c] = "pending"
    /\ SetStatus(c, "cancelled")
    /\ UNCHANGED <<callback, stuck, isAdmin, runs, wasAdmin, crashes, demotions>>

-------------------------------------------------------------------------------
(* execute_confirmed, for the callback k that claimed c.                   *)

Holds(k, pc, c) == callback[k].pc = pc /\ c \in callback[k].of

Go(k, pc) == callback' = [callback EXCEPT ![k] = [pc |-> pc, of |-> @.of, seen |-> @.seen]]

(* Looking the tool up, the requester's identity (without the cache) and   *)
(* the bot's rights.                                                       *)
FaultyCheck(k, c) ==
    /\ Holds(k, "check", c)
    /\ Go(k, "target")
    /\ UNCHANGED <<row, stuck, isAdmin, runs, wasAdmin, crashes, demotions>>

Check(k, c) ==
    /\ Holds(k, "check", c)
    /\ isAdmin
    /\ Go(k, "target")
    /\ UNCHANGED <<row, stuck, isAdmin, runs, wasAdmin, crashes, demotions>>

(* Loading the group, validating the stored parameters, looking the target *)
(* up again, and the audit record "started".                               *)
CheckTarget(k, c) ==
    /\ Holds(k, "target", c)
    /\ Go(k, "handler")
    /\ UNCHANGED <<row, stuck, isAdmin, runs, wasAdmin, crashes, demotions>>

(* Any of them may raise before the operation has begun.                   *)
Refuse(k, c) ==
    /\ Holds(k, "check", c) \/ Holds(k, "target", c)
    /\ Go(k, "failing")
    /\ UNCHANGED <<row, stuck, isAdmin, runs, wasAdmin, crashes, demotions>>

(* The tool handler returns, or raises after any part of its work.         *)
Handle(k, c) ==
    /\ Holds(k, "handler", c)
    /\ runs' = [runs EXCEPT ![c] = @ + 1]
    /\ Go(k, "mark") \/ Go(k, "failing")
    /\ UNCHANGED <<row, stuck, isAdmin, wasAdmin, crashes, demotions>>

(* mark_executed saves, or its save raises; the copy in memory says        *)
(* "executed" either way.  After it only the audit record is left, and an  *)
(* exception there leads to a mark_failed that does nothing.               *)
Mark(k, c) ==
    /\ Holds(k, "mark", c)
    /\ \/ SetStatus(c, "executed") /\ callback' = [callback EXCEPT ![k] = Idle]
       \/ UNCHANGED row /\ callback' = [callback EXCEPT ![k] = At("failing", c, "executed")]
    /\ UNCHANGED <<stuck, isAdmin, runs, wasAdmin, crashes, demotions>>

(* mark_failed, which may raise too and then leaves the row as it is.      *)
MarkFailed(k, c) ==
    /\ Holds(k, "failing", c)
    /\ \/ CanTransition(callback[k].seen, "failed") /\ SetStatus(c, "failed")
       \/ UNCHANGED row
    /\ callback' = [callback EXCEPT ![k] = Idle]
    /\ UNCHANGED <<stuck, isAdmin, runs, wasAdmin, crashes, demotions>>

BotCrash ==
    /\ crashes < MaxCrashes
    /\ \E k \in Callbacks : callback[k].pc # "idle"
    /\ callback' = [k \in Callbacks |-> Idle]
    /\ crashes' = crashes + 1
    /\ UNCHANGED <<row, stuck, isAdmin, runs, wasAdmin, demotions>>

-------------------------------------------------------------------------------
(* agent_confirmations_recover --fail: fail_stuck_executing.               *)

RecoverList ==
    /\ stuck = {}
    /\ stuck' = {c \in Confirmations : status[c] = "executing" /\ age[c] = StuckAfter}
    /\ stuck' # {}
    /\ UNCHANGED <<row, callback, isAdmin, runs, wasAdmin, crashes, demotions>>

FaultyRecoverUpdate ==
    /\ stuck # {}
    /\ status' = [c \in Confirmations |-> IF c \in stuck THEN "pending" ELSE status[c]]
    /\ stuck' = {}
    /\ UNCHANGED <<left, age, callback, isAdmin, runs, wasAdmin, crashes, demotions>>

RecoverUpdate ==
    /\ stuck # {}
    /\ status' = [c \in Confirmations |-> IF c \in stuck THEN "failed" ELSE status[c]]
    /\ stuck' = {}
    /\ UNCHANGED <<left, age, callback, isAdmin, runs, wasAdmin, crashes, demotions>>

-------------------------------------------------------------------------------
(* Time, and the requester's rights in the chat.                           *)

Tick ==
    /\ left' = [c \in Confirmations |->
                    IF status[c] = "pending" /\ left[c] > 0 THEN left[c] - 1 ELSE left[c]]
    /\ age' = [c \in Confirmations |->
                    IF status[c] = "executing" /\ age[c] < StuckAfter THEN age[c] + 1 ELSE age[c]]
    /\ UNCHANGED <<status, callback, stuck, isAdmin, runs, wasAdmin, crashes, demotions>>

Demote ==
    /\ isAdmin
    /\ demotions < MaxDemotions
    /\ isAdmin' = FALSE
    /\ demotions' = demotions + 1
    /\ UNCHANGED <<row, callback, stuck, runs, wasAdmin, crashes>>

Promote ==
    /\ ~isAdmin
    /\ isAdmin' = TRUE
    /\ wasAdmin' = [c \in Confirmations |-> status[c] \notin {"absent", "pending"}]
    /\ UNCHANGED <<row, callback, stuck, runs, crashes, demotions>>

CallbackStep(k, c) ==
    \/ Claim(k, c)
    \/ Check(k, c) \/ CheckTarget(k, c) \/ Refuse(k, c)
    \/ Handle(k, c) \/ Mark(k, c) \/ MarkFailed(k, c)

Next ==
    \/ \E c \in Confirmations : Create(c) \/ Cancel(c)
    \/ \E k \in Callbacks, c \in Confirmations : CallbackStep(k, c)
    \/ BotCrash
    \/ RecoverList \/ RecoverUpdate
    \/ Tick \/ Demote \/ Promote

Spec == Init /\ [][Next]_vars

-------------------------------------------------------------------------------
(* The operation behind one confirmation is started at most once, however  *)
(* often the button is pressed, whatever dies and whatever the recover     *)
(* command does ("a double click can never run the operation twice",       *)
(* confirmations.py:16-17; "NEVER retried automatically", :188).           *)
AtMostOnce == \A c \in Confirmations : runs[c] <= 1

(* A confirmation whose cancellation was accepted is never carried out,    *)
(* the click that races it included.                                       *)
CancelledNeverRuns ==
    \A c \in Confirmations : status[c] = "cancelled" =>
        /\ runs[c] = 0
        /\ \A k \in Callbacks : c \notin callback[k].of

(* A row that says "executed" stands for an operation that was started.    *)
ExecutedWasRun ==
    \A c \in Confirmations : status[c] = "executed" => runs[c] > 0

(* Nothing runs for somebody who has lost the admin rights before the      *)
(* claim and not regained them: the approval is not enough.                *)
DemotedNeverRuns ==
    \A c \in Confirmations : runs[c] > 0 => wasAdmin[c]

(* The table and the callbacks implement SingleUse.                        *)
DecisionOf(s) ==
    CASE s \in {"absent", "pending"} -> "open"
      [] s = "cancelled" -> "cancelled"
      [] OTHER -> "claimed"

Promise == INSTANCE SingleUse WITH
    decision <- [c \in Confirmations |-> DecisionOf(status[c])]

KeepsPromise == Promise!Spec

===============================================================================
