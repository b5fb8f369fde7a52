---------------------------- MODULE MCTaskLedger ----------------------------
(* Instances of TaskLedger for TLC.                                          *)
EXTENDS TaskLedger, TLC

Symmetry == Permutations(RunIds) \cup Permutations(Grants)

(* Two authorizations with threads that cancel are too many states from the  *)
(* beginning.  MidSpec takes the system up at two places of its history, of   *)
(* which each leaves one authorization to use: before the first Run, with    *)
(* one that was approved and has expired, and while the first Run is at work. *)
Ready == [NewTask EXCEPT !.status = "ready", !.confirmed = 1]
GrantIs(g, status, outcome) ==
    grant = [x \in Grants |->
                [status |-> IF x = g THEN status ELSE "none",
                 scope |-> IF x = g THEN Scope(Ready) ELSE NoScope,
                 outcome |-> IF x = g THEN outcome ELSE NoRun]]

BeforeFirst ==
    /\ task = Ready
    /\ \E g \in Grants : GrantIs(g, "expired", NoRun)
    /\ run = [x \in RunIds |-> Unborn]
    /\ worker = [x \in RunIds |-> "none"]

DuringFirst ==
    \E r \in RunIds, g \in Grants :
        /\ task = [Ready EXCEPT !.status = "running", !.current = r, !.runs = {r}]
        /\ GrantIs(g, "consumed", r)
        /\ run = [x \in RunIds |->
                     IF x = r THEN [status |-> "active", line |-> {r}, origin |-> 1, grant |-> g]
                     ELSE Unborn]
        /\ worker = [x \in RunIds |-> IF x = r THEN "active" ELSE "none"]

MidInit ==
    /\ BeforeFirst \/ DuringFirst
    /\ contract = 1 /\ approved = {1}
    /\ lock = Nobody
    /\ at = [t \in Threads |-> "idle"] /\ doc = [t \in Threads |-> NewTask]
    /\ using = [t \in Threads |-> NoGrant]
    /\ serving = TRUE /\ restarts = 0
    /\ copy = [t \in Threads |-> NoRun] /\ undone = [r \in RunIds |-> {}]
    /\ overwritten = FALSE

MidSpec == MidInit /\ [][Next]_vars
=============================================================================
