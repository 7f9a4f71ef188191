------------------------------- MODULE GroupLock -------------------------------
(***************************************************************************)
(* Locking and unlocking a group (execute_telegram_action): a lock reads   *)
(* the group's permissions from Telegram, saves them in the group's row    *)
(* when members may write, and takes the permissions away; an unlock gives *)
(* back the saved ones, or the default ones when none were saved.          *)
(*                                                                         *)
(* Command handlers and workers do this at the same time, each suspended   *)
(* at every call, and each with the copy of the group's row it loaded when *)
(* it began.  Administrators of the group change the permissions in        *)
(* Telegram whenever they like.                                            *)
(*                                                                         *)
(* The specification is LockSpec: the theorems about it and about the      *)
(* Spec of DailySchedule are in one module, GroupClosing_proofs.           *)
(***************************************************************************)
(* Definitions named Faulty... are not part of the model: each is a likely *)
(* mistake in the definition that follows it, kept to show that a property *)
(* below would notice.                                                     *)

CONSTANTS
    Executors,      \* handlers and workers
    Open,           \* permissions under which members may write
    Silent,         \* permissions under which they may not
    Default,        \* OPEN_PERMISSIONS
    Locked,         \* LOCKED_GROUP_PERMISSIONS
    Nothing         \* an empty open_permissions_snapshot

ASSUME PermissionAssumption ==
    /\ Default \in Open
    /\ Locked \in Silent
    /\ Open \cap Silent = {}
    /\ Nothing \notin Open \cup Silent

VARIABLES
    permissions,    \* Telegram: the group's permissions
    snapshot,       \* the database: open_permissions_snapshot
    executor,       \* executor -> its place, and the permissions it has in memory
    wereOpen        \* observation only: open permissions the group has had

lockVars == <<permissions, snapshot, executor, wereOpen>>

Permissions == Open \cup Silent
Idle == [pc |-> "idle", kind |-> "lock", held |-> Nothing]

LockTypeOK ==
    /\ permissions \in Permissions
    /\ snapshot \in Permissions \cup {Nothing}
    /\ executor \in [Executors -> [pc: {"idle", "read", "save", "set"},
                                   kind: {"lock", "unlock"},
                                   held: Permissions \cup {Nothing}]]
    /\ wereOpen \subseteq Open

LockInit ==
    /\ permissions \in Permissions
    /\ snapshot = Nothing
    /\ executor = [e \in Executors |-> Idle]
    /\ wereOpen = {permissions} \cap Open

Go(e, pc, held) ==
    executor' = [executor EXCEPT ![e] = [pc |-> pc, kind |-> @.kind, held |-> held]]

SetPermissions(p) ==
    /\ permissions' = p
    /\ wereOpen' = wereOpen \cup ({p} \cap Open)

-------------------------------------------------------------------------------
(* The executor loads the action and, with it, the group's row.            *)
Start(e, kind) ==
    /\ executor[e].pc = "idle"
    /\ executor' = [executor EXCEPT ![e] =
            [pc |-> IF kind = "lock" THEN "read" ELSE "set", kind |-> kind, held |-> snapshot]]
    /\ UNCHANGED <<permissions, snapshot, wereOpen>>

(* get_chat. *)
ReadPermissions(e) ==
    /\ executor[e].pc = "read"
    /\ Go(e, "save", permissions)
    /\ UNCHANGED <<permissions, snapshot, wereOpen>>

(* save_open_permissions, only for a group that was open when it was read. *)
FaultySavePermissions(e) ==
    /\ executor[e].pc = "save"
    /\ snapshot' = executor[e].held
    /\ Go(e, "set", executor[e].held)
    /\ UNCHANGED <<permissions, wereOpen>>

SavePermissions(e) ==
    /\ executor[e].pc = "save"
    /\ snapshot' = IF executor[e].held \in Silent THEN snapshot ELSE executor[e].held
    /\ Go(e, "set", executor[e].held)
    /\ UNCHANGED <<permissions, wereOpen>>

(* set_chat_permissions; its answer may be lost, and a worker then tries   *)
(* the same action through its next bot.                                   *)
FaultyWanted(e) ==
    IF executor[e].kind = "lock" THEN Locked ELSE executor[e].held

Wanted(e) ==
    IF executor[e].kind = "lock" THEN Locked
    ELSE IF executor[e].held = Nothing THEN Default
    ELSE executor[e].held

(* The next bot starts the action from the beginning. *)
Retry(e) == Go(e, IF executor[e].kind = "lock" THEN "read" ELSE "set", executor[e].held)

Set(e) ==
    /\ executor[e].pc = "set"
    /\ SetPermissions(Wanted(e))
    /\ executor' = [executor EXCEPT ![e] = Idle] \/ Retry(e)
    /\ UNCHANGED snapshot

(* Telegram refuses a call: the executor gives up, or tries the next bot.  *)
Refused(e) ==
    /\ executor[e].pc \in {"read", "set"}
    /\ executor' = [executor EXCEPT ![e] = Idle] \/ Retry(e)
    /\ UNCHANGED <<permissions, snapshot, wereOpen>>

(* The process dies. *)
Crash(e) ==
    /\ executor[e].pc # "idle"
    /\ executor' = [executor EXCEPT ![e] = Idle]
    /\ UNCHANGED <<permissions, snapshot, wereOpen>>

(* An administrator changes the permissions in Telegram. *)
EditPermissions ==
    /\ \E p \in Permissions : SetPermissions(p)
    /\ UNCHANGED <<snapshot, executor>>

Step(e) ==
    \/ ReadPermissions(e) \/ SavePermissions(e)
    \/ Set(e) \/ Refused(e) \/ Crash(e)

LockNext ==
    \/ \E e \in Executors : Step(e) \/ \E kind \in {"lock", "unlock"} : Start(e, kind)
    \/ EditPermissions

LockSpec == LockInit /\ [][LockNext]_lockVars

-------------------------------------------------------------------------------
(* An unlock never leaves the group closed: it sets the default            *)
(* permissions or open ones the group has had, whatever locks, edits and   *)
(* crashes ran between the lock and it ("must not overwrite the good       *)
(* snapshot with the locked state", telegram_gateway.py:49-53).            *)
UnlockOpens ==
    [][\A e \in Executors :
         executor[e].kind = "unlock" /\ Set(e) => permissions' \in wereOpen \cup {Default}]_lockVars

===============================================================================
